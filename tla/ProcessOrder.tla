---------------------------- MODULE ProcessOrder ----------------------------
(***************************************************************************)
(* The order of the work items of a section and of the processes of a work *)
(* item: creation appends, archiving leaves a gap, and a reorder renumbers *)
(* the active processes of an item.                                        *)
(*                                                                         *)
(* The active processes of an item have distinct positions, which a unique *)
(* index enforces row by row.  A reorder is two UPDATE statements: the     *)
(* first lifts every row above the maximum, the second puts it into its    *)
(* place.  Each statement visits its rows in an order nobody chooses, so a *)
(* reorder is modelled one row at a time, on the transaction's own draft.  *)
(***************************************************************************)
EXTENDS WorkScope, Integers, Sequences

CONSTANTS
  Keep,         \* an update's field that is absent from the request
  MaxPosition,  \* the largest position an integer column holds
  Commands      \* the commands clients issue

Rows == Items \cup Processes
Positions == 0..MaxPosition

ItemPatch == [status : Statuses \cup {Keep}, position : (-1..MaxPosition) \cup {Keep}]

Command ==
  [op : {"create"}, actor : Users, scope : Rows, row : {None}, arg : {None}]
  \cup [op : {"update"}, actor : Users, scope : Items, row : {None}, arg : ItemPatch]
  \cup [op : {"archive", "start", "end"}, actor : Users, scope : Processes,
        row : {None}, arg : {None}]
  \cup [op : {"reorder"}, actor : Users, scope : Items, row : {None},
        arg : Seq(Processes)]
  \cup [op : {"set_section"}, actor : Users, scope : Sections, row : {None},
        arg : {"active", "archived"}]

ASSUME OrderAssumption ==
  /\ Commands \subseteq Command
  /\ MaxPosition \in Nat
  /\ Keep \notin Statuses /\ Keep \notin -1..MaxPosition

VARIABLES
  created,   \* the work items and processes that exist
  position,  \* their position column
  working,   \* the processes with an active attempt
  draft      \* per transaction: the positions it wrote, and what is left to write

orderVars == <<created, position, working>>
vars == <<scopeVars, orderVars, draft>>

\* place: the rows written so far and not yet committed; round and left: the
\* statement a reorder is at and the ordinals whose rows it has not visited.
NoDraft == [place |-> [n \in {} |-> 0], base |-> 0, round |-> 0, left |-> {}]

Init ==
  /\ ScopeInit
  /\ created = {}
  /\ position = [n \in Rows |-> 0]
  /\ working = {}
  /\ draft = [t \in Txns |-> NoDraft]

-----------------------------------------------------------------------------
(* Queries. *)

ProcessesOf(i) == {p \in created \cap Processes : ItemOf[p] = i}

ActiveIn(i) == {p \in ProcessesOf(i) : status[p] = "active"}

ActiveBeside(p) == ActiveIn(ItemOf[p])

\* Defect: the maximum over the visible rows only.
VisibleBeside(n) ==
  {m \in IF n \in Items THEN {i \in created \cap Items : SectionOf[i] = SectionOf[n]}
                        ELSE ProcessesOf(ItemOf[n]) : status[m] = "active"}

\* All stored rows of the same parent, archived ones included.
StoredBeside(n) ==
  IF n \in Items THEN {i \in created \cap Items : SectionOf[i] = SectionOf[n]}
                 ELSE ProcessesOf(ItemOf[n])

\* Defect: the first position that no active row has.
FillsGap(n, S) ==
  LET taken == {position[r] : r \in {m \in S : status[m] = "active"}} IN
  n \notin taken /\ 0..(n - 1) \subseteq taken

\* n = COALESCE(max(position), -1) + 1
IsAfterAll(n, S) ==
  /\ \A r \in S : position[r] < n
  /\ n > 0 => \E r \in S : position[r] = n - 1

\* What transaction t sees in the position column.
Seen(t, n) == IF n \in DOMAIN draft[t].place THEN draft[t].place[n] ELSE position[n]

\* processes_active_position_unique, as t sees it when it writes n into row p.
IndexAccepts(t, p, n) == \A q \in ActiveBeside(p) \ {p} : Seen(t, q) # n

-----------------------------------------------------------------------------
(* A request resolves its path; the id of a new row is fresh.              *)

Pending(t, n) == phase[t] # "idle" /\ cmd[t].op = "create" /\ cmd[t].scope = n

Resolved(c) ==
  /\ c.scope \in Processes => ItemOf[c.scope] \in created
  /\ c.op = "create" => c.scope \notin created /\ \A t \in Txns : ~Pending(t, c.scope)
  /\ c.op \notin {"create", "set_section"} => c.scope \in created

Begin(t, c) ==
  /\ c.actor \in members
  /\ NodeOpen(c.scope)
  /\ Resolved(c)
  /\ BeginTx(t, c)
  /\ UNCHANGED <<clock, members, status, orderVars, draft>>

Lock(t) == LockParent(t) /\ UNCHANGED <<orderVars, draft>>

\* Defect: the request only has to name active processes.
NamesSomeActive(c) ==
  /\ \A j, k \in DOMAIN c.arg : c.arg[j] = c.arg[k] => j = k
  /\ {c.arg[k] : k \in DOMAIN c.arg} \subseteq ActiveIn(c.scope)

\* The request names every active process of the item exactly once.
NamesAllActive(c) ==
  /\ \A j, k \in DOMAIN c.arg : c.arg[j] = c.arg[k] => j = k
  /\ {c.arg[k] : k \in DOMAIN c.arg} = ActiveIn(c.scope)

\* The early returns of the commands.
Allowed(c) ==
  /\ c.op = "reorder" => NamesAllActive(c)
  /\ c.op = "archive" => c.scope \notin working
  /\ c.op = "update" =>
       /\ c.arg.position # Keep => c.arg.position >= 0
       /\ c.arg.status = "archived" => \A p \in working : ItemOf[p] # c.scope
  /\ c.op = "start" => c.scope \notin working
  /\ c.op = "end" => c.scope \in working
  /\ c.op = "set_section" /\ c.arg = "archived" /\ status[c.scope] # "archived" =>
       \A p \in working : SectionAbove(p) # c.scope

\* Defect: only the lowest value of the first statement is known to fit.
BaseFits(b, n) == b \in Positions

\* Both the lowest and the highest value of the first statement fit the column.
RoomAbove(b, n) == b + n \in Positions

One(n, pos) == [place |-> [m \in {n} |-> pos], base |-> 0, round |-> 0, left |-> {}]

\* Defect: the rows go straight to their places.
SecondStatementOnly(c) ==
  {[NoDraft EXCEPT !.base = b, !.round = 2, !.left = DOMAIN c.arg] :
     b \in {m \in Positions : IsAfterAll(m, ActiveIn(c.scope)) /\ RoomAbove(m, Len(c.arg))}}

\* The first statement of a reorder has all its rows to visit.
ReorderDrafts(c) ==
  IF ActiveIn(c.scope) = {} THEN {NoDraft}
  ELSE {[NoDraft EXCEPT !.base = b, !.round = 1, !.left = DOMAIN c.arg] :
          b \in {m \in Positions : IsAfterAll(m, ActiveIn(c.scope)) /\ RoomAbove(m, Len(c.arg))}}

\* What a command is about to write; nothing when the positions are exhausted.
Drafts(c) ==
  CASE c.op = "create" ->
         {One(c.scope, n) : n \in {m \in Positions : IsAfterAll(m, StoredBeside(c.scope))}}
    [] c.op = "update" ->
         {One(c.scope, IF c.arg.position = Keep THEN position[c.scope] ELSE c.arg.position)}
    [] c.op = "reorder" -> ReorderDrafts(c)
    [] OTHER -> {NoDraft}

Check(t) ==
  /\ phase[t] = "locked"
  /\ IF Allowed(cmd[t]) /\ Drafts(cmd[t]) # {}
     THEN MoveTo(t, "checked") /\ \E d \in Drafts(cmd[t]) : draft' = [draft EXCEPT ![t] = d]
     ELSE EndTx(t) /\ UNCHANGED draft
  /\ UNCHANGED <<clock, members, status, orderVars>>

-----------------------------------------------------------------------------
(* A reorder, row by row. *)

\* $6 + ord in the first statement, ord - 1 in the second.
Target(t, k) == IF draft[t].round = 1 THEN draft[t].base + k ELSE k - 1

\* The draft after the row of ordinal k was written.
Visited(t, k) ==
  LET old == draft[t] p == cmd[t].arg[k] IN
  [place |-> [n \in DOMAIN old.place \cup {p} |-> IF n = p THEN Target(t, k) ELSE old.place[n]],
   base  |-> old.base,
   round |-> IF old.left = {k} THEN 2 ELSE old.round,
   left  |-> IF old.left = {k} /\ old.round = 1 THEN DOMAIN cmd[t].arg ELSE old.left \ {k}]

MoveRow(t) ==
  /\ phase[t] = "checked" /\ cmd[t].op = "reorder"
  /\ \E k \in draft[t].left :
       IF IndexAccepts(t, cmd[t].arg[k], Target(t, k))
       THEN draft' = [draft EXCEPT ![t] = Visited(t, k)] /\ UNCHANGED <<phase, cmd, began>>
       ELSE EndTx(t) /\ draft' = [draft EXCEPT ![t] = NoDraft]
  /\ UNCHANGED <<clock, members, status, orderVars>>

-----------------------------------------------------------------------------
(* The writes, each with its commit. *)

Writes(t, op) ==
  /\ phase[t] = "checked" /\ cmd[t].op = op /\ draft[t].left = {}
  /\ EndTx(t)
  /\ draft' = [draft EXCEPT ![t] = NoDraft]
  /\ UNCHANGED <<clock, members>>

Publish(t) == position' = [n \in Rows |-> Seen(t, n)]

InsertRow(t) ==
  /\ Writes(t, "create")
  /\ LET n == cmd[t].scope IN
     IF n \in Processes => IndexAccepts(t, n, Seen(t, n))
     THEN Publish(t) /\ created' = created \cup {n}
     ELSE UNCHANGED <<position, created>>
  /\ UNCHANGED <<status, working>>

UpdateItem(t) ==
  /\ Writes(t, "update")
  /\ Publish(t)
  /\ status' = IF cmd[t].arg.status = Keep THEN status
               ELSE [status EXCEPT ![cmd[t].scope] = cmd[t].arg.status]
  /\ UNCHANGED <<created, working>>

\* The status part of an update; the position is not among its columns.
ArchiveProcess(t) ==
  /\ Writes(t, "archive")
  /\ status' = [status EXCEPT ![cmd[t].scope] = "archived"]
  /\ UNCHANGED orderVars

CommitReorder(t) ==
  /\ Writes(t, "reorder")
  /\ Publish(t)
  /\ UNCHANGED <<status, created, working>>

StartAttempt(t) ==
  /\ Writes(t, "start")
  /\ working' = working \cup {cmd[t].scope}
  /\ UNCHANGED <<status, created, position>>

EndAttempt(t) ==
  /\ Writes(t, "end")
  /\ working' = working \ {cmd[t].scope}
  /\ UNCHANGED <<status, created, position>>

SetSection(t) ==
  /\ Writes(t, "set_section")
  /\ status' = [status EXCEPT ![cmd[t].scope] = cmd[t].arg]
  /\ UNCHANGED orderVars

\* A taken slug, a lost connection or a crash rolls the transaction back.
Abort(t) ==
  /\ phase[t] # "idle"
  /\ EndTx(t)
  /\ draft' = [draft EXCEPT ![t] = NoDraft]
  /\ UNCHANGED <<clock, members, status, orderVars>>

Environment ==
  /\ \E u \in Users : Revoke(u) \/ Restore(u)
  /\ UNCHANGED <<orderVars, draft>>

Write(t) ==
  \/ MoveRow(t) \/ CommitReorder(t)
  \/ InsertRow(t) \/ UpdateItem(t) \/ ArchiveProcess(t)
  \/ StartAttempt(t) \/ EndAttempt(t) \/ SetSection(t)

Next ==
  \/ Environment
  \/ \E t \in Txns : \/ \E c \in Commands : Begin(t, c)
                     \/ Lock(t) \/ Check(t) \/ Write(t) \/ Abort(t)

Spec == Init /\ [][Next]_vars

-----------------------------------------------------------------------------
(* Properties. *)

Draft(d) ==
  /\ d = [place |-> d.place, base |-> d.base, round |-> d.round, left |-> d.left]
  /\ DOMAIN d.place \subseteq Rows
  /\ \A n \in DOMAIN d.place : d.place[n] \in Positions
  /\ d.base \in Positions /\ d.round \in 0..2 /\ d.left \subseteq Nat

\* Every variable has its type: no position leaves the range of its column,
\* neither a stored one nor one on the way, however full the column is.
TypeOK ==
  /\ members \subseteq Users
  /\ status \in [Nodes -> Statuses]
  /\ phase \in [Txns -> {"idle", "begun", "locked", "checked"}]
  /\ cmd \in [Txns -> Command \cup {NoCommand}]
  /\ created \subseteq Rows
  /\ position \in [Rows -> Positions]
  /\ working \subseteq Processes
  /\ \A t \in Txns : Draft(draft[t])

\* The index that keeps the active positions of an item distinct never rejects
\* a row: not a new process, and no row of a reorder, in whatever order the two
\* statements visit them.
IndexNeverRejects ==
  \A t \in Txns : phase[t] = "checked" =>
    /\ cmd[t].op = "reorder" =>
         \A k \in draft[t].left : IndexAccepts(t, cmd[t].arg[k], Target(t, k))
    /\ cmd[t].op = "create" /\ cmd[t].scope \in Processes =>
         IndexAccepts(t, cmd[t].scope, Seen(t, cmd[t].scope))

Commits(t, op) == phase[t] = "checked" /\ phase'[t] = "idle" /\ cmd[t].op = op

\* A reorder that commits leaves exactly the order that was requested, numbered
\* from 0 without gaps, on what is then the full set of active processes, and
\* every other row where it was: a process that was appended or archived
\* meanwhile is never overlooked.
ReorderedAsRequested ==
  [][\A t \in Txns : position' # position /\ Commits(t, "reorder") =>
       LET s == cmd[t].arg IN
       /\ ActiveIn(cmd[t].scope) = {s[k] : k \in DOMAIN s}
       /\ \A k \in DOMAIN s : position'[s[k]] = k - 1
       /\ \A n \in Rows \ {s[k] : k \in DOMAIN s} : position'[n] = position[n]]_vars

SameParent(m, n) ==
  \/ {m, n} \subseteq Items /\ SectionOf[m] = SectionOf[n]
  \/ {m, n} \subseteq Processes /\ ItemOf[m] = ItemOf[n]

\* A new row comes after every row its parent has stored at that moment, the
\* archived ones included, also when several are appended at once or a reorder
\* runs between them.
AppendedLast ==
  [][\A n \in created' \ created :
       \A m \in created' \ {n} : SameParent(m, n) => position'[m] < position'[n]]_vars

ParentOpen(n) == IF n \in Items THEN SectionOpen(SectionOf[n]) ELSE ItemOpen(ItemOf[n])

\* No row is created, moved, archived or reopened below a work item, a section
\* or a project that is closed at the commit.
WrittenUnderOpenParent ==
  [][\A n \in Rows :
       \/ n \in created' \ created
       \/ position'[n] # position[n]
       \/ status'[n] # status[n]
       => ParentOpen(n)]_vars

\* Archiving is final, and an archived row keeps the position it had.
ArchivedIsFinal ==
  [][\A n \in created \cap Rows :
       status[n] = "archived" =>
         n \in created' /\ status'[n] = "archived" /\ position'[n] = position[n]]_vars

-----------------------------------------------------------------------------
(* The order a client sees. *)

Stage == [p \in Processes |-> IF p \notin created THEN "new"
                              ELSE IF status[p] = "active" THEN "listed" ELSE "removed"]

Visible == {p \in created \cap Processes : status[p] = "active"}

Before == {r \in Visible \X Visible : /\ ItemOf[r[1]] = ItemOf[r[2]]
                                      /\ position[r[1]] < position[r[2]]}

List == INSTANCE OrderedSteps
          WITH Steps <- Processes, Lists <- Items, ListOf <- ItemOf,
               stage <- Stage, before <- Before

\* Positions implement an ordered list per work item: whatever creations,
\* archivings and reorders interleave, one step appends, removes or reorders as
\* a whole, and the order of the others is never disturbed.
ImplementsOrderedList == List!Spec

=============================================================================
