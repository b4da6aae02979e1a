------------------------------ MODULE RowLocks ------------------------------
(***************************************************************************)
(* The row locks of one workspace, statement by statement and row by row:  *)
(* the writes below a project, which lock the project, the actor's         *)
(* memberships, a role assignment and perhaps the assignee's memberships,  *)
(* against the administration of members and the acceptance of             *)
(* invitations, which lock the same rows for other reasons.                *)
(*                                                                         *)
(* A statement determines its rows when it starts and locks them one by    *)
(* one, in an order nobody chooses.  A row that was changed while the      *)
(* statement waited is checked again.  A share lock joins other share      *)
(* locks, also when somebody waits for the row exclusively.  All locks are *)
(* kept to the end of the transaction, where its changes become visible.   *)
(* WorkScope has the outcome of all this as one step per revocation.       *)
(***************************************************************************)
CONSTANTS
  Projects,  \* projects of the workspace
  Users,
  Txns,      \* database connections, at most one transaction each
  Local,     \* the users who have a role for this workspace only
  Commands,  \* the commands issued
  None

Roles == {"owner", "member", "local"}

\* A row is a kind and the project or the user it belongs to.  The slot of a
\* user is the entry of the index that allows one open session per worker.
Rows == {"project"} \X Projects \cup ({"org", "ws", "slot"} \cup Roles) \X Users

WriteOps  == {"write", "work", "assign"}
LeaveOps  == {"leave_org", "leave_ws"}
JoinOps   == {"join_org", "join_ws"}
MemberOps == LeaveOps \cup JoinOps \cup {"accept"}

\* user is the actor of a write and the subject of the other commands.
Command ==
  [op : {"write", "work"}, user : Users, project : Projects, assignee : {None}]
  \cup [op : {"assign"}, user : Users, project : Projects, assignee : Users]
  \cup [op : MemberOps, user : Users, project : {None}, assignee : {None}]

ASSUME LockAssumption ==
  /\ Commands \subseteq Command
  /\ Local \subseteq Users
  /\ None \notin Users /\ None \notin Projects /\ None \notin Rows

VARIABLES
  live,         \* memberships that are active, role assignments that exist
  cmd, stage,   \* per transaction: its command and the statement it is at,
  left, aim,    \* the rows this statement has still to lock, and the next one,
  share, excl   \* and the rows it holds FOR SHARE, and exclusively

txVars == <<cmd, stage, left, aim, share, excl>>
vars == <<live, txVars>>

NoCommand == [op |-> "none", user |-> None, project |-> None, assignee |-> None]

Memberships(u) == {<<"org", u>>, <<"ws", u>>}
OrgRoles(u)    == {<<"owner", u>>, <<"member", u>>}
LocalRole(u)   == {<<"local", u>>}

Init ==
  /\ live = (UNION {Memberships(u) \cup {<<"member", u>>} : u \in Users})
              \cup {<<"local", u>> : u \in Local}
  /\ cmd = [t \in Txns |-> NoCommand]
  /\ stage = [t \in Txns |-> "idle"]
  /\ left = [t \in Txns |-> {}]
  /\ aim = [t \in Txns |-> None]
  /\ share = [t \in Txns |-> {}]
  /\ excl = [t \in Txns |-> {}]

-----------------------------------------------------------------------------
(* The statements of a command, in their order. *)

IsWrite(c) == c.op \in WriteOps

\* Defect: the roles are deleted before the membership is deactivated.
RolesFirst(c, s) ==
  CASE s = "idle" /\ IsWrite(c) -> "project"
    [] s = "idle" /\ c.op = "accept" -> "look"
    [] s = "idle" /\ c.op \in LeaveOps -> "roles"
    [] s = "idle" /\ c.op \in JoinOps -> "membership"
    [] s = "project" -> "members"
    [] s = "members" -> "grant"
    [] s = "grant" /\ c.op = "assign" -> "assignee"
    [] s = "grant" /\ c.op = "work" -> "slot"
    [] s = "membership" /\ c.op = "accept" -> "role"
    [] s = "roles" -> "membership"
    [] OTHER -> "commit"

\* The statement after s; the first one after "idle".
Following(c, s) ==
  CASE s = "idle" /\ IsWrite(c) -> "project"
    [] s = "idle" /\ c.op = "accept" -> "look"
    [] s = "idle" /\ c.op \in LeaveOps \cup JoinOps -> "membership"
    [] s = "project" -> "members"
    [] s = "members" -> "grant"
    [] s = "grant" /\ c.op = "assign" -> "assignee"
    [] s = "grant" /\ c.op = "work" -> "slot"
    [] s = "membership" /\ c.op \in LeaveOps -> "roles"
    [] s = "membership" /\ c.op = "accept" -> "role"
    [] s = "roles" /\ c.op = "accept" -> "membership"
    [] OTHER -> "commit"

\* The role assignments that grant what a command needs.
Supporting(c) ==
  LocalRole(c.user) \cup
  (IF c.op = "assign" THEN {<<"owner", c.user>>} ELSE OrgRoles(c.user))

\* The row a membership statement is about.
Membership(c) == IF c.op \in {"leave_ws", "join_ws"} THEN <<"ws", c.user>> ELSE <<"org", c.user>>

\* The role assignments a command deletes.
Revoked(c) == IF c.op = "leave_ws" THEN LocalRole(c.user) ELSE OrgRoles(c.user) \cup LocalRole(c.user)

\* The rows statement s finds when it starts.
Targets(c, s) ==
  CASE s = "project"    -> {<<"project", c.project>>}
    [] s = "members"    -> Memberships(c.user) \cap live
    [] s = "grant"      -> Supporting(c) \cap live
    [] s = "assignee"   -> Memberships(c.assignee) \cap live
    [] s = "slot"       -> {<<"slot", c.user>>}
    [] s = "membership" -> IF c.op = "accept" THEN {Membership(c)}
                           ELSE IF c.op \in JoinOps THEN {Membership(c)} \ live
                                ELSE {Membership(c)} \cap live
    [] s = "roles"      -> Revoked(c) \cap live
    [] s = "role"       -> {<<"member", c.user>>}
    [] OTHER            -> {}

\* A statement that finds less than this returns no row, and the request fails
\* (404, 403, 422).  The other statements do what there is to do.
Finds(c, s, S) ==
  /\ s = "members" => S = Memberships(c.user)
  /\ s = "assignee" => S = Memberships(c.assignee)
  /\ s = "grant" => S # {}

\* The statements that lock FOR SHARE; the others update, delete or insert.
ShareStages == {"members", "grant", "assignee"}

\* Defect: the statements only read; nobody waits for a reader.
PlainReads(u, t, r) == u # t /\ stage[t] \notin ShareStages /\ r \in excl[u]

\* Transaction u keeps t from row r.  An insertion meets nobody who shares the
\* row: it does nothing when the row exists.
Blocks(u, t, r) ==
  /\ u # t
  /\ r \in excl[u] \/ (stage[t] \notin ShareStages \cup {"role"} /\ r \in share[u])

WaitsFor(t, u) == aim[t] # None /\ Blocks(u, t, aim[t])

-----------------------------------------------------------------------------
(* Transactions. *)

\* S is what the statement has still to lock.
AimAt(t, S) ==
  /\ left' = [left EXCEPT ![t] = S]
  /\ \E r \in IF S = {} THEN {None} ELSE S : aim' = [aim EXCEPT ![t] = r]

\* Defect: a rollback that forgets the locks of a pooled connection.
KeepLocks(t) ==
  /\ cmd' = [cmd EXCEPT ![t] = NoCommand]
  /\ stage' = [stage EXCEPT ![t] = "idle"]
  /\ left' = [left EXCEPT ![t] = {}]
  /\ aim' = [aim EXCEPT ![t] = None]
  /\ UNCHANGED <<share, excl>>

\* The end of a transaction releases all its locks.
EndTx(t) ==
  /\ cmd' = [cmd EXCEPT ![t] = NoCommand]
  /\ stage' = [stage EXCEPT ![t] = "idle"]
  /\ left' = [left EXCEPT ![t] = {}]
  /\ aim' = [aim EXCEPT ![t] = None]
  /\ share' = [share EXCEPT ![t] = {}]
  /\ excl' = [excl EXCEPT ![t] = {}]

Rollback(t) == EndTx(t) /\ UNCHANGED live

Enter(t, s) ==
  LET S == Targets(cmd[t], s) IN
  IF Finds(cmd[t], s, S)
  THEN /\ stage' = [stage EXCEPT ![t] = s]
       /\ AimAt(t, S)
       /\ UNCHANGED <<live, cmd, share, excl>>
  ELSE Rollback(t)

\* A write was resolved along its path before, with both memberships.
Begin(t, c) ==
  /\ stage[t] = "idle"
  /\ IsWrite(c) => Memberships(c.user) \subseteq live
  /\ cmd' = [cmd EXCEPT ![t] = c]
  /\ stage' = [stage EXCEPT ![t] = Following(c, "idle")]
  /\ AimAt(t, Targets(c, Following(c, "idle")))
  /\ UNCHANGED <<live, share, excl>>

\* An acceptance reads, without a lock, whether the user is a member already.
Look(t) ==
  /\ stage[t] = "look"
  /\ Enter(t, IF <<"org", cmd[t].user>> \in live THEN "membership" ELSE "roles")

\* The row is still as the statement found it.
StillThere(t, r) ==
  CASE stage[t] \in ShareStages \cup {"roles"}            -> r \in live
    [] stage[t] = "membership" /\ cmd[t].op \in LeaveOps  -> r \in live
    [] stage[t] = "membership" /\ cmd[t].op \in JoinOps   -> r \notin live
    [] stage[t] = "role"                                  -> r \notin live
    [] OTHER                                              -> TRUE

\* The grant statement needs one row; it skips those that are gone.
Remaining(t, r) ==
  IF stage[t] = "grant" /\ r \in live THEN {} ELSE left[t] \ {r}

\* The statement locks its next row, once nobody keeps it from it.
Take(t) ==
  LET r == aim[t] IN
  /\ r # None
  /\ \A u \in Txns : ~Blocks(u, t, r)
  /\ IF stage[t] \in ShareStages /\ r \notin live
        /\ (stage[t] # "grant" \/ left[t] = {r})
     THEN Rollback(t)
     ELSE /\ AimAt(t, Remaining(t, r))
          /\ share' = IF StillThere(t, r) /\ stage[t] \in ShareStages
                      THEN [share EXCEPT ![t] = @ \cup {r}] ELSE share
          /\ excl' = IF StillThere(t, r) /\ stage[t] \notin ShareStages
                     THEN [excl EXCEPT ![t] = @ \cup {r}] ELSE excl
          /\ UNCHANGED <<live, cmd, stage>>

Proceed(t) ==
  /\ stage[t] \notin {"idle", "look", "commit"} /\ left[t] = {}
  /\ Enter(t, Following(cmd[t], stage[t]))

\* What a transaction changes becomes visible with its commit.
Outcome(t) ==
  LET c == cmd[t] IN
  CASE c.op \in LeaveOps -> live \ excl[t]
    [] c.op \in JoinOps  -> live \cup excl[t]
    [] c.op = "accept"   -> (live \ excl[t]) \cup (excl[t] \cap {<<"org", c.user>>, <<"member", c.user>>})
    [] OTHER             -> live

Commit(t) ==
  /\ stage[t] = "commit"
  /\ live' = Outcome(t)
  /\ EndTx(t)

\* A lost connection or a crash.
Abort(t) == stage[t] # "idle" /\ Rollback(t)

\* Everyone in S waits for somebody in S.
Circle(S) == S # {} /\ \A t \in S : \E u \in S : WaitsFor(t, u)

\* The database finds a circle of waiting transactions and ends one of them.
Detect(t) ==
  /\ \E S \in SUBSET Txns : t \in S /\ Circle(S)
  /\ Rollback(t)

\* An operator makes a user an owner: a statement of its own, which waits for
\* a deletion of the same row.
Appoint(u) ==
  /\ \A t \in Txns : <<"owner", u>> \notin excl[t]
  /\ live' = live \cup {<<"owner", u>>}
  /\ UNCHANGED txVars

Step(t) == Look(t) \/ Proceed(t) \/ Commit(t)

Next ==
  \/ \E u \in Users : Appoint(u)
  \/ \E t \in Txns : \/ \E c \in Commands : Begin(t, c)
                     \/ Take(t) \/ Step(t) \/ Abort(t) \/ Detect(t)

Spec == Init /\ [][Next]_vars

-----------------------------------------------------------------------------
(* Properties. *)

Stages == {"idle", "look", "project", "members", "grant", "assignee", "slot",
           "membership", "roles", "role", "commit"}

\* Every variable has its type; a statement aims at a row it has still to lock,
\* and a connection that is free again holds nothing and waits for nothing.
TypeOK ==
  /\ live \subseteq Rows
  /\ cmd \in [Txns -> Command \cup {NoCommand}]
  /\ stage \in [Txns -> Stages]
  /\ left \in [Txns -> SUBSET Rows]
  /\ share \in [Txns -> SUBSET Rows]
  /\ excl \in [Txns -> SUBSET Rows]
  /\ aim \in [Txns -> Rows \cup {None}]
  /\ \A t \in Txns :
       /\ aim[t] \in IF left[t] = {} THEN {None} ELSE left[t]
       /\ stage[t] = "idle" =>
            cmd[t] = NoCommand /\ left[t] = {} /\ share[t] = {} /\ excl[t] = {}

\* t deletes, or has deleted, the roles of somebody it found not to be a member,
\* and has not locked the membership: an acceptance up to its INSERT of the
\* membership, or a deactivation whose UPDATE found no active membership.
FoundNoMember(t) ==
  /\ excl[t] # {} /\ Membership(cmd[t]) \notin excl[t]
  /\ cmd[t].op = "accept" \/ stage[t] = "roles"

\* "All paths follow the same lock order, so a deadlock is impossible": writes
\* in any number of projects, assignments across each other, deactivations of
\* members and reactivations never wait in a circle.  Whoever deletes the roles
\* of a member has locked the membership first, and so has whoever accepts as
\* one; only a transaction that found no member may close a circle.
CircleNeedsNonmember ==
  \A S \in SUBSET Txns : Circle(S) => \E t \in S : FoundNoMember(t)

\* What a write below a project was allowed by is in force until its commit:
\* the actor's memberships and a role that grants the command, and the
\* assignee's memberships, whatever revocations and acceptances run meanwhile.
AuthorityHolds ==
  \A t \in Txns : stage[t] = "commit" /\ IsWrite(cmd[t]) =>
    /\ Memberships(cmd[t].user) \subseteq live
    /\ Supporting(cmd[t]) \cap live # {}
    /\ cmd[t].op = "assign" => Memberships(cmd[t].assignee) \subseteq live

\* What a user may do: be responsible, write, assign.
Right == {"member", "write", "assign"} \X Users

Entitled(u, right) ==
  /\ Memberships(u) \subseteq live
  /\ right = "write" => (OrgRoles(u) \cup LocalRole(u)) \cap live # {}
  /\ right = "assign" => ({<<"owner", u>>} \cup LocalRole(u)) \cap live # {}

\* A write is admitted when it has passed the statement that finds its role.
IsAdmitted(t) == IsWrite(cmd[t]) /\ stage[t] \in {"assignee", "slot", "commit"}

ReliedOn(t) ==
  IF ~IsAdmitted(t) THEN {}
  ELSE IF cmd[t].op # "assign" THEN {<<"write", cmd[t].user>>}
  ELSE {<<"assign", cmd[t].user>>}
         \cup (IF stage[t] = "commit" THEN {<<"member", cmd[t].assignee>>} ELSE {})

Admissions == INSTANCE Admission WITH
  Writers <- Txns,
  Rights <- Right,
  inForce <- {r \in Right : Entitled(r[2], r[1])},
  place <- [t \in Txns |-> IF IsAdmitted(t) THEN cmd[t].project ELSE None],
  relied <- [t \in Txns |-> ReliedOn(t)]

\* Row by row, the locks come to what WorkScope takes for one step: a revocation
\* happens at its commit and spares whatever an admitted write relies on, and an
\* admitted write is alone in its project.
ImplementsAdmission == Admissions!Spec

=============================================================================
