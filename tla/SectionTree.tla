---------------------------- MODULE SectionTree ----------------------------
(***************************************************************************)
(* The sections of a project: a forest that requests grow, rearrange and   *)
(* archive, while attempts start and end on the work items in its leaves.  *)
(*                                                                         *)
(* A section is created under a parent or as a root, and one update may    *)
(* move it, give it a position among its new siblings and change its       *)
(* status.  All of it happens under the lock of the project's row; only    *)
(* that lock keeps two moves from closing a cycle.                         *)
(***************************************************************************)
EXTENDS WorkScope

CONSTANTS
  Keep,         \* an update's field that is absent from the request
  MaxPosition,  \* the largest position an integer column holds
  Commands      \* the commands clients issue

SectionPatch == [status : {"active", "archived", Keep},
                 position : (0..MaxPosition) \cup {Keep}]

\* row is the parent a section is created under or moved to; None is the root.
Command ==
  [op : {"create"}, actor : Users, scope : Sections, row : Sections \cup {None},
   arg : {None}]
  \cup [op : {"update"}, actor : Users, scope : Sections,
        row : Sections \cup {None, Keep}, arg : SectionPatch]
  \cup [op : {"start", "end"}, actor : Users, scope : Items, row : {None}, arg : {None}]

ASSUME TreeAssumption ==
  /\ Commands \subseteq Command
  /\ Keep \notin Sections \cup {None, "active", "archived"} /\ Keep \notin 0..MaxPosition
  /\ MaxPosition \in Nat

VARIABLES
  created,   \* the sections that exist
  parent,    \* the parent of a section; None for a root
  position,  \* the order among siblings
  working,   \* the work items with an active attempt
  plan       \* per transaction: the section's row as it will be written

treeVars == <<created, parent, position, working>>
vars == <<scopeVars, treeVars, plan>>

NoPlan == [parent |-> None, position |-> 0, status |-> "active"]

Init ==
  /\ ScopeInit
  /\ created = {}
  /\ parent = [s \in Sections |-> None]
  /\ position = [s \in Sections |-> 0]
  /\ working = {}
  /\ plan = [t \in Txns |-> NoPlan]

-----------------------------------------------------------------------------
(* Queries. *)

ChildrenOf(s) == {r \in created : parent[r] = s}

\* Defect: the walk stops at the children.
SelfAndChildren(s) == {s} \cup ChildrenOf(s)

\* The recursive query: the least set with s that holds the children of its
\* members.  It terminates on every parent relation, cyclic ones included.
Descendants(s) ==
  {r \in Sections : \A S \in SUBSET Sections :
     s \in S /\ (\A x \in S : ChildrenOf(x) \subseteq S) => r \in S}

WorkUnder(s) == {i \in working : SectionOf[i] \in Descendants(s)}

Siblings(par, p) == {r \in created : parent[r] = par /\ ProjectOf[r] = p}

\* Defect: the number of siblings, as if positions had no gaps.
CountsSiblings(n, par, p) == n = Cardinality(Siblings(par, p))

\* Defect: the sum is computed in a wider type than the column's.
WiderPositions == 0..(MaxPosition + 1)

\* The positions an integer column holds; past them the statement fails.
Positions == 0..MaxPosition

\* n = COALESCE(max(position), -1) + 1
IsNextPosition(n, par, p) ==
  /\ \A r \in Siblings(par, p) : position[r] < n
  /\ n > 0 => \E r \in Siblings(par, p) : position[r] = n - 1

\* Defect: the parent is looked up as a section of any status.
ParentExists(c) == c.row \in created /\ ProjectOf[c.row] = ProjectOf[c.scope]

\* Defect: the parent is looked up by its id alone.
ParentAnywhere(c) == c.row \in created /\ status[c.row] = "active"

\* The parent candidate is an active section of the same project.
ParentUsable(c) ==
  /\ c.row \in created /\ ProjectOf[c.row] = ProjectOf[c.scope]
  /\ status[c.row] = "active"

-----------------------------------------------------------------------------
(* A request resolves its path; the id of a new section is fresh.          *)

Resolved(c) ==
  CASE c.op = "create" ->
         /\ c.scope \notin created
         /\ \A t \in Txns : phase[t] # "idle" /\ cmd[t].op = "create" =>
              cmd[t].scope # c.scope
    [] c.op = "update" -> c.scope \in created
    [] OTHER -> SectionOf[c.scope] \in created

Begin(t, c) ==
  /\ c.actor \in members
  /\ NodeOpen(c.scope)
  /\ Resolved(c)
  /\ BeginTx(t, c)
  /\ UNCHANGED <<clock, members, status, treeVars, plan>>

Lock(t) == LockParent(t) /\ UNCHANGED <<treeVars, plan>>

\* Defect: only the section itself is refused as its own parent.
NotItself(c) == c.row # c.scope

AcyclicMove(c) == c.row \notin Descendants(c.scope)

Allowed(c) ==
  CASE c.op = "create" -> c.row \in Sections => ParentUsable(c)
    [] c.op = "update" ->
         /\ c.row \in Sections => ParentUsable(c) /\ AcyclicMove(c)
         /\ c.arg.status = "archived" /\ status[c.scope] # "archived" =>
              WorkUnder(c.scope) = {}
    [] c.op = "start" -> c.scope \notin working
    [] c.op = "end" -> c.scope \in working

NewParent(c) == IF c.row = Keep THEN parent[c.scope] ELSE c.row

\* A section that gets a parent is appended; an update may place it instead.
NewPositions(c) ==
  IF c.op = "update" /\ c.arg.position # Keep THEN {c.arg.position}
  ELSE IF c.op = "update" /\ NewParent(c) = parent[c.scope] THEN {position[c.scope]}
  ELSE {n \in Positions : IsNextPosition(n, NewParent(c), ProjectOf[c.scope])}

NewStatus(c) ==
  IF c.op = "create" THEN "active"
  ELSE IF c.arg.status = Keep THEN status[c.scope] ELSE c.arg.status

\* The rows the command may write; none when the positions are exhausted.
Plans(c) ==
  IF c.scope \in Items THEN {NoPlan}
  ELSE {[parent |-> NewParent(c), position |-> n, status |-> NewStatus(c)] :
          n \in NewPositions(c)}

Check(t) ==
  /\ phase[t] = "locked"
  /\ IF Allowed(cmd[t]) /\ Plans(cmd[t]) # {}
     THEN /\ MoveTo(t, "checked")
          /\ \E row \in Plans(cmd[t]) : plan' = [plan EXCEPT ![t] = row]
     ELSE EndTx(t) /\ UNCHANGED plan
  /\ UNCHANGED <<clock, members, status, treeVars>>

-----------------------------------------------------------------------------
(* The writes, each with its commit. *)

Writes(t, op) ==
  /\ phase[t] = "checked"
  /\ cmd[t].op = op
  /\ EndTx(t)
  /\ plan' = [plan EXCEPT ![t] = NoPlan]
  /\ UNCHANGED <<clock, members>>

StoreRow(t) ==
  LET s == cmd[t].scope IN
  /\ parent' = [parent EXCEPT ![s] = plan[t].parent]
  /\ position' = [position EXCEPT ![s] = plan[t].position]
  /\ status' = [status EXCEPT ![s] = plan[t].status]

CreateSection(t) ==
  /\ Writes(t, "create")
  /\ StoreRow(t)
  /\ created' = created \cup {cmd[t].scope}
  /\ UNCHANGED working

UpdateSection(t) ==
  /\ Writes(t, "update")
  /\ StoreRow(t)
  /\ UNCHANGED <<created, working>>

StartAttempt(t) ==
  /\ Writes(t, "start")
  /\ working' = working \cup {cmd[t].scope}
  /\ UNCHANGED <<status, created, parent, position>>

EndAttempt(t) ==
  /\ Writes(t, "end")
  /\ working' = working \ {cmd[t].scope}
  /\ UNCHANGED <<status, created, parent, position>>

\* A taken slug, a lost connection or a crash rolls the transaction back.
Abort(t) ==
  /\ phase[t] # "idle"
  /\ EndTx(t)
  /\ plan' = [plan EXCEPT ![t] = NoPlan]
  /\ UNCHANGED <<clock, members, status, treeVars>>

Environment ==
  /\ \E u \in Users : Revoke(u) \/ Restore(u)
  /\ UNCHANGED <<treeVars, plan>>

Write(t) ==
  CreateSection(t) \/ UpdateSection(t) \/ StartAttempt(t) \/ EndAttempt(t)

Next ==
  \/ Environment
  \/ \E t \in Txns : \/ \E c \in Commands : Begin(t, c)
                     \/ Lock(t) \/ Check(t) \/ Write(t) \/ Abort(t)

Spec == Init /\ [][Next]_vars

-----------------------------------------------------------------------------
(* Properties. *)

PlanRow ==
  [parent : Sections \cup {None}, position : 0..MaxPosition,
   status : {"active", "archived"}]

\* Every variable has its type: a position stays in the range of its column,
\* and a section is never completed (sections_status_check).
TypeOK ==
  /\ members \subseteq Users
  /\ status \in [Nodes -> Statuses]
  /\ \A s \in Sections : status[s] # "completed"
  /\ phase \in [Txns -> {"idle", "begun", "locked", "checked"}]
  /\ cmd \in [Txns -> Command \cup {NoCommand}]
  /\ created \subseteq Sections
  /\ parent \in [Sections -> Sections \cup {None}]
  /\ position \in [Sections -> 0..MaxPosition]
  /\ working \subseteq Items
  /\ plan \in [Txns -> PlanRow]

\* Every parent is an existing section of the same project.
ParentsInProject ==
  \A s \in created : parent[s] # None =>
    parent[s] \in created /\ ProjectOf[parent[s]] = ProjectOf[s]

\* However moves race, the sections never close a cycle: every set of them
\* has a member whose parent is outside the set.
Forest ==
  \A S \in SUBSET created : S # {} => \E s \in S : parent[s] \notin S

Commits(t, s) == phase[t] = "checked" /\ phase'[t] = "idle" /\ cmd[t].scope = s

\* A section is hung only under a section that is active at the commit, also
\* when an archiving of that parent races with it.
HungUnderActive ==
  [][\A s \in created' : parent'[s] # None /\ (s \notin created \/ parent'[s] # parent[s])
       => parent'[s] \in created /\ status'[parent'[s]] = "active"]_vars

\* A section that is created, or moved without a position, comes after all its
\* siblings of that moment, also when several are appended at once.
AppendedLast ==
  [][\A s \in created' :
       /\ s \notin created \/ parent'[s] # parent[s]
       /\ \E t \in Txns : Commits(t, s) /\ (cmd[t].op = "update" => cmd[t].arg.position = Keep)
       => \A r \in Siblings(parent[s], ProjectOf[s])' \ {s} : position'[r] < position'[s]]_vars

\* Section r is at or above section s, looking upwards.
AtOrAbove(r, s) ==
  \A S \in SUBSET created :
    s \in S /\ (\A x \in S : parent[x] # None => parent[x] \in S) => r \in S

\* A section is archived only when no attempt is active in it or below it, in
\* the tree as it is at the commit, however moves and starts race with it.
ArchivedWithoutWork ==
  [][\A s \in created :
       status[s] # "archived" /\ status'[s] = "archived" =>
         \A i \in working' : ~AtOrAbove(s, SectionOf[i])']_vars

-----------------------------------------------------------------------------
(* Refinement. *)

OneByOne == INSTANCE SectionForest WITH
  sections <- created, status <- [s \in Sections |-> status[s]]

\* However transactions interleave, every commit is one request of SectionForest,
\* whole, and what it was allowed by holds at the commit: the walk down the tree
\* that the guards do finds what a walk up finds then.
ImplementsSectionForest == OneByOne!Spec

=============================================================================
