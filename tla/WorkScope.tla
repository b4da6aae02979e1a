----------------------------- MODULE WorkScope -----------------------------
(***************************************************************************)
(* What every write below a project shares: the project, section, work     *)
(* item and process rows with their status, the users who are members, and *)
(* the database transactions (READ COMMITTED) through which a request      *)
(* writes.                                                                 *)
(*                                                                         *)
(* A request is a command.  Its transaction goes through the phases        *)
(*     idle -> begun -> locked -> checked -> idle                          *)
(* "begun": BEGIN was sent, and now() is fixed to that moment for every    *)
(* statement of the transaction.  "locked": the project row is held FOR    *)
(* UPDATE and the parent chain was verified.  "checked": the command's own *)
(* reads and early returns are behind it, and it is about to write and to  *)
(* commit.  Nothing is visible to others before the commit, so a write and *)
(* its commit are one step.  The last two phases hold the project lock.    *)
(***************************************************************************)
EXTENDS Naturals, FiniteSets

CONSTANTS
  Projects, Sections, Items, Processes,  \* rows of the four levels
  ProjectOf,    \* the project of a section
  SectionOf,    \* the section of a work item
  ItemOf,       \* the work item of a process
  Users,
  Txns,         \* database connections, at most one transaction each
  MaxClock,     \* bound on the database clock
  None          \* SQL NULL

Nodes == Projects \cup Sections \cup Items \cup Processes

ASSUME ScopeAssumption ==
  /\ ProjectOf \in [Sections -> Projects]
  /\ SectionOf \in [Items -> Sections]
  /\ ItemOf \in [Processes -> Items]
  /\ Projects \cap Sections = {} /\ Projects \cap Items = {}
  /\ Projects \cap Processes = {} /\ Sections \cap Items = {}
  /\ Sections \cap Processes = {} /\ Items \cap Processes = {}
  /\ None \notin Nodes /\ None \notin Users
  /\ MaxClock \in Nat \ {0}

Statuses == {"active", "completed", "archived"}

VARIABLES
  clock,      \* the database clock
  members,    \* active users with both memberships and the role's permissions
  status,     \* the status column of every row of the four levels
  phase, cmd, began  \* per transaction: phase, command, now()

scopeVars == <<clock, members, status, phase, cmd, began>>

NoCommand == [op |-> "none", actor |-> None, scope |-> None,
              row |-> None, arg |-> None]

ScopeInit ==
  /\ clock = 1
  /\ members = Users
  /\ status = [n \in Nodes |-> "active"]
  /\ phase = [t \in Txns |-> "idle"]
  /\ cmd = [t \in Txns |-> NoCommand]
  /\ began = [t \in Txns |-> 0]

-----------------------------------------------------------------------------
(* The parent chain. *)

SectionAbove(n) ==
  IF n \in Sections THEN n ELSE IF n \in Items THEN SectionOf[n]
                                ELSE SectionOf[ItemOf[n]]

ProjectAbove(n) == IF n \in Projects THEN n ELSE ProjectOf[SectionAbove(n)]

\* Only the direct section has to be active: an archived ancestor section
\* does not close the work below it.
SectionOpen(s) == status[s] = "active" /\ status[ProjectOf[s]] # "archived"
ItemOpen(i)    == status[i] # "archived" /\ SectionOpen(SectionOf[i])
ProcessOpen(p) == status[p] = "active" /\ ItemOpen(ItemOf[p])

NodeOpen(n) ==
  /\ n \in Items => ItemOpen(n)
  /\ n \in Processes => ProcessOpen(n)

-----------------------------------------------------------------------------
(* Transactions. *)

BeginTx(t, c) ==
  /\ phase[t] = "idle"
  /\ phase' = [phase EXCEPT ![t] = "begun"]
  /\ cmd' = [cmd EXCEPT ![t] = c]
  /\ began' = [began EXCEPT ![t] = clock]

\* Defect: an early return that leaves the transaction open.
LeakTx(t) ==
  /\ phase' = IF phase[t] = "locked" THEN phase ELSE [phase EXCEPT ![t] = "idle"]
  /\ cmd' = IF phase[t] = "locked" THEN cmd ELSE [cmd EXCEPT ![t] = NoCommand]
  /\ began' = IF phase[t] = "locked" THEN began ELSE [began EXCEPT ![t] = 0]

\* Commit or rollback: the connection is free again, every lock is released.
EndTx(t) ==
  /\ phase' = [phase EXCEPT ![t] = "idle"]
  /\ cmd' = [cmd EXCEPT ![t] = NoCommand]
  /\ began' = [began EXCEPT ![t] = 0]

MoveTo(t, to) ==
  /\ phase' = [phase EXCEPT ![t] = to]
  /\ UNCHANGED <<cmd, began>>

Holds(t) == phase[t] \in {"locked", "checked"}

\* Updates of projects and of sections read the actor's authority without a
\* row lock; every command below a section reads it FOR SHARE.
SharesAuthority(c) == c.scope \in Items \cup Processes

\* Defects: the project row locked FOR SHARE, which conflicts with nobody;
\* updates of projects and sections that do not take the lock.
LockShared(p) == TRUE
LockFreeOfWork(p) ==
  \A u \in Txns : Holds(u) /\ SharesAuthority(cmd[u]) => ProjectAbove(cmd[u].scope) # p

LockFree(p) == \A u \in Txns : Holds(u) => ProjectAbove(cmd[u].scope) # p

\* Defect: the assignee's rows are read without a lock.
SharedActorOnly(t) ==
  IF Holds(t) /\ SharesAuthority(cmd[t]) THEN {cmd[t].actor} ELSE {}

\* The users whose membership rows transaction t holds FOR SHARE.  An
\* assignment holds the assignee's rows as well, from its eligibility check on.
Shared(t) ==
  IF Holds(t) /\ SharesAuthority(cmd[t])
  THEN {cmd[t].actor} \cup
       (IF cmd[t].op = "assign" /\ phase[t] = "checked" THEN {cmd[t].arg} ELSE {})
  ELSE {}

\* Defect: the chain is trusted as the request's path resolved it.
AdmittedByPath(c) == c.scope \in Projects \/ c.actor \in members

\* A project update was authorised when its transaction began and is not
\* authorised again after the lock; all others are, under the lock.
Admitted(c) == NodeOpen(c.scope) /\ (c.scope \in Projects \/ c.actor \in members)

\* The lock statements: wait for the project row, then verify.  A transaction
\* that is not admitted is rolled back (404 or 403).
LockParent(t) ==
  /\ phase[t] = "begun"
  /\ LockFree(ProjectAbove(cmd[t].scope))
  /\ IF Admitted(cmd[t]) THEN MoveTo(t, "locked") ELSE EndTx(t)
  /\ UNCHANGED <<clock, members, status>>

-----------------------------------------------------------------------------
(* The environment: time, and the administration of members. *)

Tick ==
  /\ clock < MaxClock
  /\ clock' = clock + 1
  /\ UNCHANGED <<members, status, phase, cmd, began>>

\* Deactivating a membership waits for everyone who holds its row FOR SHARE.
Revoke(u) ==
  /\ u \in members
  /\ \A t \in Txns : u \notin Shared(t)
  /\ members' = members \ {u}
  /\ UNCHANGED <<clock, status, phase, cmd, began>>

Restore(u) ==
  /\ u \in Users \ members
  /\ members' = members \cup {u}
  /\ UNCHANGED <<clock, status, phase, cmd, began>>

-----------------------------------------------------------------------------
(* What all the levels rely on. *)

\* No two transactions hold the same project's row FOR UPDATE, whichever
\* levels of the project their commands address.
ProjectLockIsExclusive ==
  \A t, u \in Txns :
    Holds(t) /\ Holds(u)
      /\ ProjectAbove(cmd[t].scope) = ProjectAbove(cmd[u].scope) => t = u

\* The transactions implement Admission: whoever holds a project lock is admitted
\* there, by the members whose rows it shares.
Admissions == INSTANCE Admission WITH
  Writers <- Txns,
  Rights <- Users,
  inForce <- members,
  place <- [t \in Txns |-> IF Holds(t) THEN ProjectAbove(cmd[t].scope) ELSE None],
  relied <- [t \in Txns |-> Shared(t) \ {None}]

\* A write is alone in its project and authorized by the members it relies on,
\* from its admission to its commit, whatever is revoked or locked meanwhile.
ImplementsAdmission == Admissions!Spec

=============================================================================
