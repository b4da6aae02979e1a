------------------------- MODULE ProcessOrderProofs -------------------------
(***************************************************************************)
(* Proofs, for every number of rows, users and transactions and for every  *)
(* width of the position column, that the index never rejects a row, that  *)
(* a reorder that commits leaves the requested order, that a new row comes *)
(* last, and that positions implement an ordered list per work item.       *)
(*                                                                         *)
(* A transaction that passed its checks counts on the rows of the item or  *)
(* section it is about (Ready).  The writes of other lock holders are in   *)
(* other projects, so these rows stay as they are.  The first statement of *)
(* a reorder lifts the n rows to base + 1 .. base + n, above every stored  *)
(* position, and the second brings them down to 0 .. n - 1.  The two       *)
(* ranges do not meet: n rows have n distinct positions below base, so     *)
(* n <= base.                                                              *)
(***************************************************************************)
EXTENDS ProcessOrder, ScopeProofs, FiniteSetTheorems, TLAPS

-----------------------------------------------------------------------------
(* The inductive invariant. *)

\* The rows of a reorder that were visited, and those still to be visited, are
\* where the statement it is at has left them.
Reordering(t) ==
  LET s == cmd[t].arg
      d == draft[t]
  IN /\ NamesAllActive(cmd[t])
     /\ d.round = 0 => d = NoDraft /\ DOMAIN s = {}
     /\ d.round # 0 =>
          /\ Len(s) <= d.base /\ d.base + Len(s) <= MaxPosition
          /\ \A p \in ActiveIn(cmd[t].scope) : position[p] < d.base
          /\ d.left \subseteq DOMAIN s
     /\ d.round = 1 =>
          /\ d.left # {} /\ DOMAIN d.place = {s[k] : k \in DOMAIN s \ d.left}
          /\ \A k \in DOMAIN s \ d.left : d.place[s[k]] = d.base + k
     /\ d.round = 2 =>
          /\ DOMAIN d.place = {s[k] : k \in DOMAIN s}
          /\ \A k \in d.left : d.place[s[k]] = d.base + k
          /\ \A k \in DOMAIN s \ d.left : d.place[s[k]] = k - 1

\* What a checked transaction is about to write.
Ready(t) ==
  LET c == cmd[t]
      d == draft[t]
  IN /\ c.op = "create" =>
          /\ d.left = {} /\ DOMAIN d.place = {c.scope}
          /\ \A m \in StoredBeside(c.scope) : position[m] < d.place[c.scope]
     /\ c.op = "update" => d.left = {} /\ DOMAIN d.place = {c.scope}
     /\ c.op = "reorder" => Reordering(t)
     /\ c.op \notin {"create", "update", "reorder"} => d = NoDraft

\* The row a command names exists, or is new and its own.
Named(t) ==
  LET c == cmd[t] IN
  /\ c \in Command
  /\ c.op = "create" => c.scope \notin created /\ \A u \in Txns \ {t} : ~Pending(u, c.scope)
  /\ c.op \notin {"create", "set_section"} => c.scope \in created

InProgress(t) ==
  /\ phase[t] # "idle" => Named(t)
  /\ Holds(t) => NodeOpen(cmd[t].scope)
  /\ IF phase[t] = "checked" THEN Ready(t) ELSE draft[t] = NoDraft

\* The active processes of a work item have distinct positions.
DistinctPositions ==
  \A p, q \in created \cap Processes :
    /\ ItemOf[p] = ItemOf[q] /\ position[p] = position[q]
    /\ status[p] = "active" /\ status[q] = "active"
    => p = q

RowsOK ==
  /\ DistinctPositions
  /\ \A n \in Rows \ created : status[n] = "active"

OInv ==
  /\ TypeOK /\ draft = [t \in Txns |-> draft[t]]
  /\ RowsOK
  /\ ProjectLockIsExclusive
  /\ \A t \in Txns : InProgress(t)

-----------------------------------------------------------------------------
(* Commands and rows. *)

Ops == {"create", "update", "archive", "start", "end", "reorder", "set_section"}

\* The fields of a command, by its operation.
LEMMA CommandFields ==
  ASSUME NEW c \in Command
  PROVE  /\ c.op \in Ops /\ c.scope \in Nodes
         /\ c.op = "create" => c.scope \in Rows
         /\ c.op \in {"update", "reorder"} => c.scope \in Items
         /\ c.op = "update" => c.arg \in ItemPatch
         /\ c.op = "reorder" => c.arg \in Seq(Processes)
         /\ c.op \in {"archive", "start", "end"} => c.scope \in Processes
         /\ c.op = "set_section" => c.scope \in Sections /\ c.arg \in {"active", "archived"}
  BY DEF Command, Nodes, Rows, Ops

\* An idle transaction's placeholder is no command of a client.
LEMMA NoCommandIsNone == NoCommand \notin Command
  BY DEF Command, NoCommand

\* The four levels.
LEMMA Levels ==
  /\ Rows \subseteq Nodes /\ Items \subseteq Rows /\ Processes \subseteq Rows
  /\ \A s \in Sections : ProjectAbove(s) = ProjectOf[s] /\ ProjectOf[s] \in Projects
  /\ \A i \in Items : SectionOf[i] \in Sections /\ ProjectAbove(i) = ProjectAbove(SectionOf[i])
  /\ \A p \in Processes : ItemOf[p] \in Items /\ ProjectAbove(p) = ProjectAbove(ItemOf[p])
  /\ \A j \in Projects : ProjectAbove(j) = j
  <1>1. Rows \subseteq Nodes /\ Items \subseteq Rows /\ Processes \subseteq Rows
    BY DEF Rows, Nodes
  <1>2. \A s \in Sections : ProjectAbove(s) = ProjectOf[s] /\ ProjectOf[s] \in Projects
    BY ScopeAssumption DEF ProjectAbove, SectionAbove
  <1>3. \A i \in Items : SectionOf[i] \in Sections
    BY ScopeAssumption
  <1>4. \A i \in Items : ProjectAbove(i) = ProjectOf[SectionOf[i]]
    BY ScopeAssumption DEF ProjectAbove, SectionAbove
  <1>5. \A p \in Processes : ItemOf[p] \in Items
    BY ScopeAssumption
  <1>6. \A p \in Processes : ProjectAbove(p) = ProjectOf[SectionOf[ItemOf[p]]]
    BY ScopeAssumption DEF ProjectAbove, SectionAbove
  <1>7. \A j \in Projects : ProjectAbove(j) = j
    BY DEF ProjectAbove
  <1> QED
    BY <1>1, <1>2, <1>3, <1>4, <1>5, <1>6, <1>7

\* The rows of the same parent.
LEMMA Beside ==
  /\ \A i \in Items : ActiveIn(i) = {p \in created \cap Processes : ItemOf[p] = i /\ status[p] = "active"}
  /\ \A p \in Processes : ActiveBeside(p) = ActiveIn(ItemOf[p])
  /\ \A p \in Processes : StoredBeside(p) = {q \in created \cap Processes : ItemOf[q] = ItemOf[p]}
  /\ \A i \in Items :
       StoredBeside(i) = {m \in created \cap Items : SectionOf[m] = SectionOf[i]}
  <1>1. \A p \in Processes : p \notin Items
    BY ScopeAssumption
  <1> QED
    BY <1>1 DEF ActiveIn, ActiveBeside, StoredBeside, ProcessesOf

-----------------------------------------------------------------------------
(* Drafts. *)

\* An empty draft is typed, and holds no row.
LEMMA EmptyDraft ==
  /\ Draft(NoDraft) /\ DOMAIN NoDraft.place = {} /\ NoDraft.round = 0 /\ NoDraft.left = {}
  BY OrderAssumption DEF NoDraft, Draft, Positions

\* A draft of one row.
LEMMA OneRow ==
  ASSUME NEW n \in Rows, NEW v \in Positions
  PROVE  /\ Draft(One(n, v)) /\ DOMAIN One(n, v).place = {n}
         /\ One(n, v).place[n] = v /\ One(n, v).left = {}
  BY OrderAssumption DEF One, Draft, Positions

\* Different numbers below b: there are b of them at most.
LEMMA DistinctBelow ==
  ASSUME NEW b \in Nat, NEW s \in Seq(Processes),
         NEW f \in [Processes -> Nat],
         \A k \in DOMAIN s : f[s[k]] < b,
         \A j, k \in DOMAIN s : f[s[j]] = f[s[k]] => j = k
  PROVE  Len(s) <= b
  <1> DEFINE g == [k \in 1..Len(s) |-> f[s[k]] + 1]
  <1>1. DOMAIN s = 1..Len(s) /\ Len(s) \in Nat
    OBVIOUS
  <1>2. g \in Injection(1..Len(s), 1..b)
    <2>1. \A k \in 1..Len(s) : f[s[k]] \in Nat /\ f[s[k]] < b
      BY <1>1
    <2>2. g \in [1..Len(s) -> 1..b]
      BY <2>1
    <2>3. \A j, k \in 1..Len(s) : g[j] = g[k] => j = k
      <3> SUFFICES ASSUME NEW j \in 1..Len(s), NEW k \in 1..Len(s), g[j] = g[k] PROVE j = k
        OBVIOUS
      <3>1. f[s[j]] + 1 = f[s[k]] + 1 /\ f[s[j]] \in Nat /\ f[s[k]] \in Nat
        BY <2>1
      <3>2. f[s[j]] = f[s[k]]
        BY <3>1
      <3> QED
        BY <1>1, <3>2
    <2> HIDE DEF g
    <2> QED
      BY <2>2, <2>3 DEF Injection, IsInjective
  <1>3. /\ IsFiniteSet(1..b) /\ Cardinality(1..b) = b
        /\ Cardinality(1..Len(s)) = Len(s)
    <2>1. IsFiniteSet(1..b) /\ Cardinality(1..b) = IF 1 > b THEN 0 ELSE b - 1 + 1
      BY FS_Interval
    <2>2. Cardinality(1..Len(s)) = IF 1 > Len(s) THEN 0 ELSE Len(s) - 1 + 1
      BY <1>1, FS_Interval
    <2> QED
      BY <1>1, <2>1, <2>2
  <1> HIDE DEF g
  <1>4. Cardinality(1..Len(s)) <= Cardinality(1..b)
    BY <1>2, <1>3, FS_Injection
  <1> QED
    BY <1>3, <1>4

\* What a command is about to write is typed, and fits the rows it is about.
LEMMA DraftsFit ==
  ASSUME TypeOK, DistinctPositions, NEW t \in Txns, cmd[t] \in Command,
         Allowed(cmd[t]), NEW d \in Drafts(cmd[t]), draft'[t] = d,
         cmd'[t] = cmd[t], UNCHANGED <<status, orderVars>>
  PROVE  Draft(d) /\ Ready(t)'
  <1> DEFINE c == cmd[t]
  <1>0. /\ c \in Command /\ cmd'[t] = c
        /\ status' = status /\ created' = created /\ position' = position
    BY DEF orderVars
  <1>1. CASE c.op = "create"
    <2>1. c.scope \in Rows
      BY <1>1, CommandFields
    <2>2. PICK v \in Positions : IsAfterAll(v, StoredBeside(c.scope)) /\ d = One(c.scope, v)
      BY <1>1 DEF Drafts
    <2>3. StoredBeside(c.scope)' = StoredBeside(c.scope)
      BY <1>0 DEF StoredBeside, ProcessesOf
    <2> QED
      BY <1>0, <1>1, <2>1, <2>2, <2>3, OneRow DEF Ready, IsAfterAll
  <1>2. CASE c.op = "update"
    <2>1. c.scope \in Rows /\ c.arg \in ItemPatch
      BY <1>2, CommandFields, Levels
    <2>2. PICK v : d = One(c.scope, v) /\ v = IF c.arg.position = Keep THEN position[c.scope] ELSE c.arg.position
      BY <1>2 DEF Drafts
    <2>3. v \in Positions
      <3>1. position[c.scope] \in Positions
        BY <2>1 DEF TypeOK
      <3>2. c.arg.position # Keep => c.arg.position \in -1..MaxPosition /\ c.arg.position >= 0
        BY <1>2, <2>1 DEF ItemPatch, Allowed
      <3> QED
        <4>1. CASE c.arg.position = Keep
          BY <2>2, <3>1, <4>1
        <4>2. CASE c.arg.position # Keep
          BY <2>2, <3>2, <4>2, OrderAssumption DEF Positions
        <4> QED
          BY <4>1, <4>2
    <2> QED
      BY <1>0, <1>2, <2>1, <2>2, <2>3, OneRow DEF Ready
  <1>3. CASE c.op = "reorder"
    <2>1. c.scope \in Items /\ c.arg \in Seq(Processes) /\ NamesAllActive(c)
      BY <1>3, CommandFields DEF Allowed
    <2> DEFINE s == c.arg
    <2>2. ActiveIn(c.scope)' = ActiveIn(c.scope) /\ NamesAllActive(c)'
      BY <1>0, <2>1 DEF ActiveIn, ProcessesOf, NamesAllActive
    <2>3. DOMAIN s = 1..Len(s) /\ Len(s) \in Nat
      BY <2>1
    <2>4. CASE ActiveIn(c.scope) = {}
      <3>1. d = NoDraft
        BY <1>3, <2>4 DEF Drafts, ReorderDrafts
      <3>2. DOMAIN s = {}
        BY <2>1, <2>4 DEF NamesAllActive
      <3> QED
        BY <1>0, <1>3, <2>2, <3>1, <3>2, EmptyDraft DEF Ready, Reordering
    <2>5. CASE ActiveIn(c.scope) # {}
      <3>1. PICK b \in Positions : /\ IsAfterAll(b, ActiveIn(c.scope)) /\ RoomAbove(b, Len(s))
                                   /\ d = [NoDraft EXCEPT !.base = b, !.round = 1, !.left = DOMAIN s]
        BY <1>3, <2>5 DEF Drafts, ReorderDrafts
      <3>2. /\ d.base = b /\ d.round = 1 /\ d.left = DOMAIN s /\ DOMAIN d.place = {}
            /\ d = [place |-> d.place, base |-> d.base, round |-> d.round, left |-> d.left]
        <4>1. d = [place |-> NoDraft.place, base |-> b, round |-> 1, left |-> DOMAIN s]
          BY <3>1 DEF NoDraft
        <4> QED
          BY <4>1, EmptyDraft
      <3>3. DOMAIN s # {}
        BY <2>1, <2>5 DEF NamesAllActive
      <3>4. b \in Nat /\ b + Len(s) <= MaxPosition
        BY <3>1, OrderAssumption DEF Positions, RoomAbove
      <3>5. \A k \in DOMAIN s : s[k] \in ActiveIn(c.scope)
        BY <2>1 DEF NamesAllActive
      <3>6. \A j, k \in DOMAIN s : position[s[j]] = position[s[k]] => j = k
        <4>1. \A j, k \in DOMAIN s : s[j] = s[k] => j = k
          BY <2>1 DEF NamesAllActive
        <4>2. \A p, q \in ActiveIn(c.scope) : position[p] = position[q] => p = q
          BY <2>1, Beside DEF DistinctPositions
        <4> QED
          BY <3>5, <4>1, <4>2
      <3>7. Len(s) <= b
        <4> DEFINE f == [p \in Processes |-> position[p]]
        <4>1. f \in [Processes -> Nat] /\ \A p \in Processes : f[p] = position[p]
          BY OrderAssumption DEF TypeOK, Rows, Positions
        <4>2. \A k \in DOMAIN s : s[k] \in Processes /\ position[s[k]] < b
          BY <2>1, <3>1, <3>5 DEF IsAfterAll
        <4> HIDE DEF f
        <4>3. \A k \in DOMAIN s : f[s[k]] < b
          BY <4>1, <4>2
        <4>4. \A j, k \in DOMAIN s : f[s[j]] = f[s[k]] => j = k
          BY <3>6, <4>1, <4>2
        <4> QED
          BY <2>1, <3>4, <4>1, <4>3, <4>4, DistinctBelow
      <3>8. Draft(d)
        BY <2>3, <3>1, <3>2 DEF Draft
      <3>9. Reordering(t)'
        BY <1>0, <2>2, <3>1, <3>2, <3>3, <3>4, <3>7 DEF Reordering, IsAfterAll
      <3> QED
        BY <1>0, <1>3, <3>8, <3>9 DEF Ready
    <2> QED
      BY <2>4, <2>5
  <1>4. CASE c.op \notin {"create", "update", "reorder"}
    <2>1. d = NoDraft
      BY <1>4 DEF Drafts
    <2> QED
      BY <1>0, <1>4, <2>1, EmptyDraft DEF Ready
  <1> QED
    BY <1>1, <1>2, <1>3, <1>4

\* One row further, a reorder is still where its statements have left it.
LEMMA VisitFits ==
  ASSUME TypeOK, NEW t \in Txns, cmd[t] \in Command, cmd[t].op = "reorder", Reordering(t),
         NEW k \in draft[t].left, draft'[t] = Visited(t, k),
         cmd'[t] = cmd[t], UNCHANGED <<status, orderVars>>
  PROVE  Draft(Visited(t, k)) /\ Reordering(t)'
  <1> DEFINE s == cmd[t].arg
             d == draft[t]
             e == Visited(t, k)
             v == Target(t, k)
  <1>1. /\ s \in Seq(Processes) /\ DOMAIN s = 1..Len(s) /\ Len(s) \in Nat
        /\ cmd[t].scope \in Items /\ Draft(d)
    BY CommandFields DEF TypeOK
  <1>2. /\ k \in DOMAIN s /\ k \in Nat /\ 1 <= k /\ k <= Len(s)
        /\ Len(s) <= d.base /\ d.base + Len(s) <= MaxPosition /\ d.base \in Nat
        /\ d.round \in {1, 2} /\ d.left \subseteq DOMAIN s
    BY <1>1, EmptyDraft, OrderAssumption DEF Reordering, Draft, Positions
  <1>3. \A i, j \in DOMAIN s : s[i] = s[j] => i = j
    BY DEF Reordering, NamesAllActive
  <1>4. /\ s[k] \in Rows /\ v \in Positions
        /\ d.round = 1 => v = d.base + k
        /\ d.round = 2 => v = k - 1
    <2>1. v = IF d.round = 1 THEN d.base + k ELSE k - 1
      BY DEF Target
    <2> HIDE DEF v
    <2>2. v \in Nat /\ v <= MaxPosition
      <3>1. CASE d.round = 1
        BY <1>2, <2>1, <3>1, OrderAssumption
      <3>2. CASE d.round = 2
        BY <1>2, <2>1, <3>2, OrderAssumption
      <3> QED
        BY <1>2, <3>1, <3>2
    <2>4. v \in Positions
      BY <2>2, OrderAssumption DEF Positions
    <2>3. s[k] \in Rows
      BY <1>1, <1>2, Levels
    <2> QED
      BY <1>2, <2>1, <2>3, <2>4
  <1>5. /\ DOMAIN e.place = DOMAIN d.place \cup {s[k]} /\ e.place[s[k]] = v
        /\ \A n \in DOMAIN d.place : n # s[k] => e.place[n] = d.place[n]
        /\ e.base = d.base
        /\ e.round = IF d.left = {k} THEN 2 ELSE d.round
        /\ e.left = IF d.left = {k} /\ d.round = 1 THEN DOMAIN s ELSE d.left \ {k}
        /\ e = [place |-> e.place, base |-> e.base, round |-> e.round, left |-> e.left]
    BY DEF Visited
  <1> HIDE DEF e, v
  <1>6. Draft(e)
    BY <1>1, <1>2, <1>4, <1>5 DEF Draft
  <1>7. NamesAllActive(cmd[t])' /\ ActiveIn(cmd[t].scope)' = ActiveIn(cmd[t].scope)
        /\ position' = position
    BY DEF Reordering, NamesAllActive, ActiveIn, ProcessesOf, orderVars
  <1>8. ASSUME e.round = 1
        PROVE  /\ e.left # {} /\ DOMAIN e.place = {s[j] : j \in DOMAIN s \ e.left}
               /\ \A j \in DOMAIN s \ e.left : e.place[s[j]] = e.base + j
    <2>1. d.round = 1 /\ d.left # {k} /\ e.left = d.left \ {k}
      BY <1>2, <1>5, <1>8
    <2>2. /\ DOMAIN d.place = {s[j] : j \in DOMAIN s \ d.left}
          /\ \A j \in DOMAIN s \ d.left : d.place[s[j]] = d.base + j
      BY <2>1 DEF Reordering
    <2>3. DOMAIN s \ e.left = (DOMAIN s \ d.left) \cup {k}
      BY <1>2, <2>1
    <2>4. e.left # {} /\ DOMAIN e.place = {s[j] : j \in DOMAIN s \ e.left}
      BY <1>2, <1>5, <2>1, <2>2, <2>3
    <2>5. ASSUME NEW j \in DOMAIN s \ e.left PROVE e.place[s[j]] = e.base + j
      <3>1. CASE j = k
        BY <1>4, <1>5, <2>1, <3>1
      <3>2. CASE j # k
        <4>1. j \in DOMAIN s \ d.left /\ s[j] # s[k]
          BY <1>2, <1>3, <2>3, <3>2
        <4> QED
          BY <1>5, <2>2, <4>1
      <3> QED
        BY <3>1, <3>2
    <2> QED
      BY <2>4, <2>5
  <1>9. ASSUME e.round = 2
        PROVE  /\ DOMAIN e.place = {s[j] : j \in DOMAIN s}
               /\ \A j \in e.left : e.place[s[j]] = e.base + j
               /\ \A j \in DOMAIN s \ e.left : e.place[s[j]] = j - 1
    <2>1. CASE d.round = 1
      <3>1. /\ d.left = {k} /\ e.left = DOMAIN s
            /\ DOMAIN d.place = {s[j] : j \in DOMAIN s \ {k}}
            /\ \A j \in DOMAIN s \ {k} : d.place[s[j]] = d.base + j
        BY <1>5, <1>9, <2>1 DEF Reordering
      <3>2. DOMAIN e.place = {s[j] : j \in DOMAIN s}
        BY <1>2, <1>5, <3>1
      <3>3. ASSUME NEW j \in e.left PROVE e.place[s[j]] = e.base + j
        <4>1. CASE j = k
          BY <1>4, <1>5, <2>1, <4>1
        <4>2. CASE j # k
          <5>1. j \in DOMAIN s \ {k} /\ s[j] # s[k]
            BY <1>2, <1>3, <3>1, <4>2
          <5> QED
            BY <1>5, <3>1, <5>1
        <4> QED
          BY <4>1, <4>2
      <3> QED
        BY <3>1, <3>2, <3>3
    <2>2. CASE d.round = 2
      <3>1. /\ e.left = d.left \ {k}
            /\ DOMAIN d.place = {s[j] : j \in DOMAIN s}
            /\ \A j \in d.left : d.place[s[j]] = d.base + j
            /\ \A j \in DOMAIN s \ d.left : d.place[s[j]] = j - 1
        BY <1>5, <2>2 DEF Reordering
      <3>2. DOMAIN e.place = {s[j] : j \in DOMAIN s}
        BY <1>2, <1>5, <3>1
      <3>3. ASSUME NEW j \in DOMAIN s, j # k PROVE e.place[s[j]] = d.place[s[j]]
        <4>1. s[j] # s[k] /\ s[j] \in DOMAIN d.place
          BY <1>2, <1>3, <3>1, <3>3
        <4> QED
          BY <1>5, <4>1
      <3>4. ASSUME NEW j \in e.left PROVE e.place[s[j]] = e.base + j
        <4>1. j \in d.left /\ j # k /\ j \in DOMAIN s /\ e.base = d.base
          BY <1>2, <1>5, <3>1
        <4> QED
          BY <3>1, <3>3, <4>1
      <3>5. ASSUME NEW j \in DOMAIN s \ e.left PROVE e.place[s[j]] = j - 1
        <4>1. CASE j = k
          BY <1>4, <1>5, <2>2, <4>1
        <4>2. CASE j # k
          BY <3>1, <3>3, <4>2
        <4> QED
          BY <4>1, <4>2
      <3> QED
        BY <3>2, <3>4, <3>5
    <2> QED
      BY <1>2, <2>1, <2>2
  <1>10. e.round \in {1, 2} /\ e.left \subseteq DOMAIN s
    BY <1>2, <1>5
  <1>11. \A p \in ActiveIn(cmd[t].scope) : position[p] < d.base
    BY <1>2 DEF Reordering
  <1>12. draft'[t] = e
    BY DEF e
  <1>13. Reordering(t)'
    <2>1. cmd'[t].arg = s /\ cmd'[t].scope = cmd[t].scope
      OBVIOUS
    <2>2. e.round # 0 /\ Len(s) <= e.base /\ e.base + Len(s) <= MaxPosition
      BY <1>2, <1>5, <1>10
    <2>3. \A p \in ActiveIn(cmd[t].scope)' : position'[p] < e.base
      BY <1>5, <1>7, <1>11
    <2> HIDE DEF s
    <2> QED
      BY <1>7, <1>8, <1>9, <1>10, <1>12, <2>1, <2>2, <2>3 DEF Reordering
  <1> QED
    BY <1>6, <1>13 DEF e

-----------------------------------------------------------------------------
(* The steps. *)

\* The last step of a command: its write and its commit.
Finish(t) ==
  \/ CommitReorder(t) \/ InsertRow(t) \/ UpdateItem(t) \/ ArchiveProcess(t)
  \/ StartAttempt(t) \/ EndAttempt(t) \/ SetSection(t)

\* What a commit does, of whatever operation.
LEMMA FinishEffect ==
  ASSUME OInv, NEW t \in Txns, Finish(t)
  PROVE  /\ phase[t] = "checked" /\ EndTx(t) /\ members' = members
         /\ draft' = [draft EXCEPT ![t] = NoDraft]
         /\ Named(t) /\ NodeOpen(cmd[t].scope) /\ Ready(t) /\ draft[t].left = {}
         /\ \/ position' = position
            \/ Publish(t) /\ cmd[t].op \in {"create", "update", "reorder"}
         /\ \/ created' = created
            \/ created' = created \cup {cmd[t].scope} /\ cmd[t].op = "create" /\ Publish(t)
         /\ \/ status' = status
            \/ /\ cmd[t].op = "update" /\ cmd[t].arg.status # Keep
               /\ status' = [status EXCEPT ![cmd[t].scope] = cmd[t].arg.status]
            \/ /\ cmd[t].op = "archive"
               /\ status' = [status EXCEPT ![cmd[t].scope] = "archived"]
            \/ /\ cmd[t].op = "set_section"
               /\ status' = [status EXCEPT ![cmd[t].scope] = cmd[t].arg]
         /\ working' \subseteq Processes
         /\ cmd[t].op = "create" => created' = created \/ cmd[t].scope \in created'
  <1>1. PICK op \in Ops : Writes(t, op)
    BY DEF Finish, CommitReorder, InsertRow, UpdateItem, ArchiveProcess, StartAttempt,
       EndAttempt, SetSection, Ops
  <1>2. /\ phase[t] = "checked" /\ EndTx(t) /\ members' = members
        /\ draft' = [draft EXCEPT ![t] = NoDraft] /\ cmd[t].op = op /\ draft[t].left = {}
    BY <1>1 DEF Writes
  <1>3. Named(t) /\ NodeOpen(cmd[t].scope) /\ Ready(t)
    BY <1>2 DEF OInv, InProgress, Holds
  <1>4. cmd[t] \in Command
    BY <1>3 DEF Named
  <1>5. working \subseteq Processes
    BY DEF OInv, TypeOK
  <1>6. CASE CommitReorder(t)
    BY <1>2, <1>3, <1>5, <1>6 DEF CommitReorder, Writes
  <1>7. CASE InsertRow(t)
    BY <1>2, <1>3, <1>5, <1>7 DEF InsertRow, Writes
  <1>8. CASE UpdateItem(t)
    BY <1>2, <1>3, <1>5, <1>8 DEF UpdateItem, Writes
  <1>9. CASE ArchiveProcess(t)
    BY <1>2, <1>3, <1>5, <1>9 DEF ArchiveProcess, Writes, orderVars
  <1>10. CASE StartAttempt(t)
    BY <1>2, <1>3, <1>4, <1>5, <1>10, CommandFields DEF StartAttempt, Writes
  <1>11. CASE EndAttempt(t)
    BY <1>2, <1>3, <1>5, <1>11 DEF EndAttempt, Writes
  <1>12. CASE SetSection(t)
    BY <1>2, <1>3, <1>5, <1>12 DEF SetSection, Writes, orderVars
  <1> QED
    BY <1>6, <1>7, <1>8, <1>9, <1>10, <1>11, <1>12 DEF Finish

\* A step of a reorder: one row further, or the end.
LEMMA MoveRowEffect ==
  ASSUME OInv, NEW t \in Txns, MoveRow(t)
  PROVE  /\ phase[t] = "checked" /\ cmd[t].op = "reorder" /\ Named(t)
         /\ NodeOpen(cmd[t].scope) /\ Reordering(t)
         /\ UNCHANGED <<clock, members, status, orderVars>>
         /\ \/ /\ UNCHANGED <<phase, cmd, began>>
               /\ \E k \in draft[t].left : draft' = [draft EXCEPT ![t] = Visited(t, k)]
            \/ EndTx(t) /\ draft' = [draft EXCEPT ![t] = NoDraft]
  BY DEF MoveRow, OInv, InProgress, Ready, Holds

\* The end of a transaction, by commit, rollback or abort, keeps the types.
LEMMA EndTxTypes ==
  ASSUME TypeOK, NEW t \in Txns, EndTx(t)
  PROVE  /\ phase' \in [Txns -> {"idle", "begun", "locked", "checked"}]
         /\ cmd' \in [Txns -> Command \cup {NoCommand}]
         /\ phase'[t] = "idle"
         /\ \A u \in Txns \ {t} : phase'[u] = phase[u] /\ cmd'[u] = cmd[u]
  BY DEF TypeOK, EndTx

\* Every transaction has a draft of its own.
Drafted == draft = [u \in Txns |-> draft[u]]

LEMMA DraftSet ==
  ASSUME OInv, NEW t \in Txns, NEW d, draft' = [draft EXCEPT ![t] = d]
  PROVE  /\ Drafted' /\ draft'[t] = d
         /\ \A u \in Txns \ {t} : draft'[u] = draft[u]
         /\ Draft(d) => \A u \in Txns : Draft(draft'[u])
  <1>1. draft = [u \in Txns |-> draft[u]] /\ \A u \in Txns : Draft(draft[u])
    BY DEF OInv, TypeOK
  <1>2. Drafted' /\ draft'[t] = d /\ \A u \in Txns \ {t} : draft'[u] = draft[u]
    BY <1>1 DEF Drafted
  <1>3. Draft(d) => \A u \in Txns : Draft(draft'[u])
    BY <1>1, <1>2
  <1> QED
    BY <1>2, <1>3

\* What a transaction publishes has the type of the position column.
LEMMA PublishTypes ==
  ASSUME TypeOK, NEW t \in Txns, Publish(t)
  PROVE  /\ position' \in [Rows -> Positions]
         /\ \A n \in Rows : position'[n] = Seen(t, n)
         /\ \A n \in Rows \ DOMAIN draft[t].place : position'[n] = position[n]
  BY DEF Publish, Seen, TypeOK, Draft

\* Every step keeps the types.
LEMMA StepTypes ==
  ASSUME OInv, [Next]_vars
  PROVE  TypeOK' /\ Drafted'
  <1> DEFINE PhaseTypes == /\ phase' \in [Txns -> {"idle", "begun", "locked", "checked"}]
                           /\ cmd' \in [Txns -> Command \cup {NoCommand}]
  <1>0. TypeOK /\ Drafted
    BY DEF OInv, Drafted
  <1>1. ASSUME NEW t \in Txns, NEW c \in Commands, Begin(t, c) PROVE TypeOK' /\ Drafted'
    BY <1>0, <1>1, OrderAssumption DEF Begin, BeginTx, TypeOK, Drafted, orderVars
  <1>2. ASSUME NEW t \in Txns, Lock(t) PROVE TypeOK' /\ Drafted'
    <2>1. PhaseTypes
      BY <1>0, <1>2, EndTxTypes DEF Lock, LockParent, MoveTo, TypeOK
    <2> QED
      BY <1>0, <1>2, <2>1 DEF Lock, LockParent, TypeOK, Drafted, orderVars
  <1>3. ASSUME NEW t \in Txns, Check(t) PROVE TypeOK' /\ Drafted'
    <2>1. PhaseTypes
      BY <1>0, <1>3, EndTxTypes DEF Check, MoveTo, TypeOK
    <2>2. UNCHANGED <<members, status, orderVars>>
      BY <1>3 DEF Check
    <2>3. CASE draft' = draft
      BY <1>0, <2>1, <2>2, <2>3 DEF TypeOK, Drafted, orderVars
    <2>4. CASE draft' # draft
      <3>1. PICK d \in Drafts(cmd[t]) : draft' = [draft EXCEPT ![t] = d] /\ Allowed(cmd[t]) /\ MoveTo(t, "checked")
        BY <1>3, <2>4 DEF Check
      <3>2. cmd[t] \in Command
        BY <1>3 DEF Check, OInv, InProgress, Named
      <3>3. cmd'[t] = cmd[t] /\ draft'[t] = d /\ Drafted'
        BY <3>1, DraftSet DEF MoveTo
      <3>4. Draft(d)
        BY <1>0, <2>2, <3>1, <3>2, <3>3, DraftsFit DEF OInv, RowsOK
      <3>5. \A u \in Txns : Draft(draft'[u])
        BY <3>1, <3>4, DraftSet
      <3> QED
        BY <1>0, <2>1, <2>2, <3>3, <3>5 DEF TypeOK, orderVars, Draft
    <2> QED
      BY <2>3, <2>4
  <1>4. ASSUME NEW t \in Txns, Abort(t) PROVE TypeOK' /\ Drafted'
    <2>1. PhaseTypes /\ Drafted' /\ \A u \in Txns : Draft(draft'[u])
      BY <1>0, <1>4, EndTxTypes, DraftSet, EmptyDraft DEF Abort
    <2> QED
      BY <1>0, <1>4, <2>1 DEF Abort, TypeOK, orderVars, Draft
  <1>5. ASSUME NEW t \in Txns, MoveRow(t) PROVE TypeOK' /\ Drafted'
    <2>1. PhaseTypes
      BY <1>0, <1>5, MoveRowEffect, EndTxTypes DEF TypeOK
    <2>2. \E d : draft' = [draft EXCEPT ![t] = d] /\ Draft(d)
      <3>1. CASE draft' = [draft EXCEPT ![t] = NoDraft]
        BY <3>1, EmptyDraft
      <3>2. CASE draft' # [draft EXCEPT ![t] = NoDraft]
        <4>1. PICK k \in draft[t].left : draft' = [draft EXCEPT ![t] = Visited(t, k)]
          BY <1>5, <3>2, MoveRowEffect
        <4>2. draft'[t] = Visited(t, k)
          BY <4>1, DraftSet
        <4>3. cmd'[t] = cmd[t]
          BY <1>5, <3>2, MoveRowEffect
        <4>4. Draft(Visited(t, k))
          BY <1>0, <1>5, <4>2, <4>3, MoveRowEffect, VisitFits DEF Named
        <4> QED
          BY <4>1, <4>4
      <3> QED
        BY <3>1, <3>2
    <2>3. Drafted' /\ \A u \in Txns : Draft(draft'[u])
      BY <2>2, DraftSet
    <2> QED
      BY <1>0, <1>5, <2>1, <2>3, MoveRowEffect DEF TypeOK, orderVars, Draft
  <1>6. ASSUME NEW t \in Txns, Finish(t) PROVE TypeOK' /\ Drafted'
    <2>1. PhaseTypes /\ Drafted' /\ \A u \in Txns : Draft(draft'[u])
      BY <1>0, <1>6, EndTxTypes, DraftSet, EmptyDraft, FinishEffect
    <2>2. cmd[t] \in Command
      BY <1>6, FinishEffect DEF Named
    <2>3. position' \in [Rows -> Positions]
      BY <1>0, <1>6, FinishEffect, PublishTypes DEF TypeOK
    <2>4. created' \subseteq Rows
      BY <1>0, <1>6, <2>2, FinishEffect, CommandFields DEF TypeOK
    <2>5. status' \in [Nodes -> Statuses]
      <3>1. cmd[t].op = "update" /\ cmd[t].arg.status # Keep => cmd[t].arg.status \in Statuses
        BY <2>2, CommandFields DEF ItemPatch
      <3>2. cmd[t].op = "set_section" => cmd[t].arg \in Statuses
        BY <2>2, CommandFields DEF Statuses
      <3> QED
        BY <1>0, <1>6, <3>1, <3>2, FinishEffect DEF TypeOK, Statuses
    <2>6. members' \subseteq Users /\ working' \subseteq Processes
      BY <1>0, <1>6, FinishEffect DEF TypeOK
    <2> QED
      BY <2>1, <2>3, <2>4, <2>5, <2>6 DEF TypeOK, Draft
  <1>7. CASE Environment
    BY <1>0, <1>7 DEF Environment, Revoke, Restore, TypeOK, Drafted, orderVars
  <1>8. CASE UNCHANGED vars
    BY <1>0, <1>8 DEF vars, scopeVars, orderVars, TypeOK, Drafted, Draft
  <1> QED
    BY <1>1, <1>2, <1>3, <1>4, <1>5, <1>6, <1>7, <1>8 DEF Next, Write, Finish

\* Only a transaction that finds the lock free takes it.
LEMMA ExclusionKept ==
  ASSUME OInv, [Next]_vars
  PROVE  ProjectLockIsExclusive'
  <1>0. TypeOK /\ ProjectLockIsExclusive
    BY DEF OInv
  <1>1. ASSUME NEW t \in Txns, Lock(t) PROVE ProjectLockIsExclusive'
    <2>1. \A u \in Txns : u # t => phase'[u] = phase[u] /\ cmd'[u] = cmd[u]
      BY <1>0, <1>1 DEF Lock, LockParent, MoveTo, EndTx, TypeOK
    <2>2. ~Holds(t)' \/ cmd'[t] = cmd[t]
      BY <1>0, <1>1 DEF Lock, LockParent, MoveTo, EndTx, TypeOK, Holds
    <2>3. \A u \in Txns : Holds(u) => ProjectAbove(cmd[u].scope) # ProjectAbove(cmd[t].scope)
      BY <1>1 DEF Lock, LockParent, LockFree
    <2> QED
      BY <1>0, <2>1, <2>2, <2>3 DEF ProjectLockIsExclusive, Holds
  <1>2. ASSUME \A u \in Txns : Holds(u)' => Holds(u) /\ cmd'[u] = cmd[u]
        PROVE  ProjectLockIsExclusive'
    BY <1>0, <1>2 DEF ProjectLockIsExclusive
  <1>3. ASSUME NEW t \in Txns, NEW c \in Commands, Begin(t, c)
        PROVE  \A u \in Txns : Holds(u)' => Holds(u) /\ cmd'[u] = cmd[u]
    BY <1>0, <1>3 DEF Begin, BeginTx, TypeOK, Holds
  <1>4. ASSUME NEW t \in Txns, Check(t) \/ Abort(t) \/ Write(t)
        PROVE  \A u \in Txns : Holds(u)' => Holds(u) /\ cmd'[u] = cmd[u]
    <2>1. CASE Check(t)
      BY <1>0, <2>1 DEF Check, MoveTo, EndTx, TypeOK, Holds
    <2>2. CASE Abort(t) \/ Finish(t)
      BY <1>0, <2>2, FinishEffect DEF Abort, EndTx, TypeOK, Holds
    <2>3. CASE MoveRow(t)
      BY <1>0, <2>3, MoveRowEffect DEF EndTx, TypeOK, Holds
    <2> QED
      BY <1>4, <2>1, <2>2, <2>3 DEF Write, Finish
  <1>5. ASSUME Environment \/ UNCHANGED vars
        PROVE  \A u \in Txns : Holds(u)' => Holds(u) /\ cmd'[u] = cmd[u]
    BY <1>5 DEF Environment, Revoke, Restore, vars, scopeVars, Holds
  <1> QED
    BY <1>1, <1>2, <1>3, <1>4, <1>5 DEF Next

-----------------------------------------------------------------------------
(* What a step leaves alone. *)

\* The step changes no row of project j.
KeepsProject(j) ==
  \A n \in Nodes : ProjectAbove(n) = j =>
    /\ status'[n] = status[n]
    /\ n \in Rows => position'[n] = position[n] /\ (n \in created' <=> n \in created)

\* Then the rows beside a row of j, and whether it is open, stay the same.
LEMMA RowsKept ==
  ASSUME TypeOK, TypeOK', NEW j, KeepsProject(j)
  PROVE  /\ \A i \in Items : ProjectAbove(i) = j =>
              /\ ActiveIn(i)' = ActiveIn(i)
              /\ \A p \in ActiveIn(i) : position'[p] = position[p]
         /\ \A n \in Rows : ProjectAbove(n) = j =>
              /\ StoredBeside(n)' = StoredBeside(n)
              /\ \A m \in StoredBeside(n) : position'[m] = position[m]
         /\ \A n \in Nodes : ProjectAbove(n) = j => NodeOpen(n)' = NodeOpen(n)
  <1>1. \A p \in Processes : ProjectAbove(ItemOf[p]) = j =>
          /\ status'[p] = status[p] /\ position'[p] = position[p]
          /\ p \in created' <=> p \in created
    BY Levels DEF KeepsProject
  <1>2. \A i \in Items : ProjectAbove(i) = j =>
          /\ status'[i] = status[i] /\ position'[i] = position[i]
          /\ i \in created' <=> i \in created
    BY Levels DEF KeepsProject
  <1>3. \A i \in Items : ProjectAbove(i) = j =>
          /\ ActiveIn(i)' = ActiveIn(i)
          /\ \A p \in ActiveIn(i) : position'[p] = position[p]
    BY <1>1, Beside DEF ActiveIn, ProcessesOf
  <1>4. ASSUME NEW n \in Rows, ProjectAbove(n) = j
        PROVE  /\ StoredBeside(n)' = StoredBeside(n)
               /\ \A m \in StoredBeside(n) : position'[m] = position[m]
    <2>1. CASE n \in Processes
      <3>1. ProjectAbove(ItemOf[n]) = j /\ n \notin Items
        BY <1>4, <2>1, Levels, ScopeAssumption
      <3> QED
        BY <1>1, <3>1 DEF StoredBeside, ProcessesOf
    <2>2. CASE n \in Items
      <3>1. \A i \in Items : SectionOf[i] = SectionOf[n] => ProjectAbove(i) = j
        BY <1>4, <2>2, Levels
      <3> QED
        BY <1>2, <2>2, <3>1 DEF StoredBeside
    <2> QED
      BY <2>1, <2>2 DEF Rows
  <1>5. ASSUME NEW n \in Nodes, ProjectAbove(n) = j
        PROVE  NodeOpen(n)' = NodeOpen(n)
    <2>1. \A s \in Sections : ProjectAbove(s) = j =>
            status'[s] = status[s] /\ status'[ProjectOf[s]] = status[ProjectOf[s]]
      BY Levels DEF KeepsProject, Nodes
    <2>2. \A i \in Items : ProjectAbove(i) = j => ItemOpen(i)' = ItemOpen(i)
      BY <1>2, <2>1, Levels DEF ItemOpen, SectionOpen
    <2>3. \A p \in Processes : ProjectAbove(p) = j => ProcessOpen(p)' = ProcessOpen(p)
      BY <1>1, <2>2, Levels DEF ProcessOpen
    <2> QED
      BY <1>5, <2>2, <2>3 DEF NodeOpen
  <1> QED
    BY <1>3, <1>4, <1>5

\* What a transaction counts on survives a step that keeps its project.
LEMMA ReadyKept ==
  ASSUME TypeOK, TypeOK', NEW t \in Txns, Named(t), NodeOpen(cmd[t].scope),
         KeepsProject(ProjectAbove(cmd[t].scope)),
         cmd'[t] = cmd[t], draft'[t] = draft[t]
  PROVE  NodeOpen(cmd[t].scope)' /\ (Ready(t) => Ready(t)')
  <1>0. cmd[t] \in Command /\ cmd[t].scope \in Nodes
    BY CommandFields DEF Named
  <1>1. PICK j : j = ProjectAbove(cmd[t].scope) /\ KeepsProject(j)
    OBVIOUS
  <1>2. PICK x \in Nodes : x = cmd[t].scope
    BY <1>0
  <1>3. NodeOpen(x)' = NodeOpen(x)
    BY <1>1, <1>2, RowsKept
  <1>4. ASSUME cmd[t].op = "create", Ready(t) PROVE Ready(t)'
    <2>1. x \in Rows
      BY <1>0, <1>2, <1>4, CommandFields
    <2>2. StoredBeside(x)' = StoredBeside(x) /\ \A m \in StoredBeside(x) : position'[m] = position[m]
      BY <1>1, <1>2, <2>1, RowsKept
    <2> QED
      BY <1>2, <1>4, <2>2 DEF Ready
  <1>5. ASSUME cmd[t].op = "reorder", Ready(t) PROVE Ready(t)'
    <2>1. x \in Items
      BY <1>0, <1>2, <1>5, CommandFields
    <2>2. ActiveIn(x)' = ActiveIn(x) /\ \A p \in ActiveIn(x) : position'[p] = position[p]
      BY <1>1, <1>2, <2>1, RowsKept
    <2>3. Reordering(t)
      BY <1>5 DEF Ready
    <2>4. NamesAllActive(cmd[t]) /\ NamesAllActive(cmd[t])'
      BY <1>2, <2>2, <2>3 DEF Reordering, NamesAllActive
    <2>5. Reordering(t)'
      <3>1. cmd'[t] = cmd[t] /\ draft'[t] = draft[t]
        BY <1>2
      <3>2. /\ ActiveIn(cmd[t].scope)' = ActiveIn(cmd[t].scope)
            /\ \A p \in ActiveIn(cmd[t].scope) : position'[p] = position[p]
        BY <1>2, <2>2
      <3> QED
        BY <2>3, <2>4, <3>1, <3>2, SMTT(30) DEF Reordering
    <2> QED
      BY <1>5, <2>5 DEF Ready
  <1>6. ASSUME cmd[t].op \notin {"create", "reorder"}, Ready(t) PROVE Ready(t)'
    BY <1>6 DEF Ready
  <1> QED
    BY <1>2, <1>3, <1>4, <1>5, <1>6

\* Nothing changes in any project.
LEMMA QuietKeeps ==
  ASSUME UNCHANGED <<status, orderVars>>
  PROVE  \A j : KeepsProject(j)
  BY DEF KeepsProject, orderVars

\* The rows a commit writes belong to the command's own parent.
LEMMA RowsOfDraft ==
  ASSUME OInv, NEW t \in Txns, Named(t), Ready(t), NEW n \in DOMAIN draft[t].place
  PROVE  /\ n \in Rows /\ cmd[t].op \in {"create", "update", "reorder"}
         /\ cmd[t].op # "reorder" => n = cmd[t].scope
         /\ cmd[t].op = "reorder" => /\ cmd[t].scope \in Items /\ n \in ActiveIn(cmd[t].scope)
                                     /\ n \in Processes /\ ItemOf[n] = cmd[t].scope
                                     /\ draft[t].round # 0
  <1>0. n \in Rows /\ cmd[t] \in Command /\ Draft(draft[t])
    BY DEF OInv, TypeOK, Draft, Named
  <1>1. cmd[t].op \in {"create", "update", "reorder"}
    BY EmptyDraft DEF Ready
  <1>2. CASE cmd[t].op = "reorder"
    <2>1. cmd[t].scope \in Items
      BY <1>0, <1>2, CommandFields
    <2>2. Reordering(t)
      BY <1>2 DEF Ready
    <2>3. draft[t].round # 0
      BY <2>2, EmptyDraft DEF Reordering
    <2>4. \E k \in DOMAIN cmd[t].arg : n = cmd[t].arg[k]
      BY <1>0, <2>2, <2>3 DEF Reordering, Draft
    <2>5. n \in ActiveIn(cmd[t].scope)
      BY <2>2, <2>4 DEF Reordering, NamesAllActive
    <2> QED
      BY <1>0, <1>2, <2>1, <2>3, <2>5 DEF ActiveIn, ProcessesOf
  <1>3. CASE cmd[t].op # "reorder"
    BY <1>0, <1>1, <1>3 DEF Ready
  <1> QED
    BY <1>0, <1>1, <1>2, <1>3

\* A commit keeps every project but the writer's.
LEMMA FinishIsElsewhere ==
  ASSUME OInv, NEW t \in Txns, Finish(t), NEW j, j # ProjectAbove(cmd[t].scope)
  PROVE  KeepsProject(j)
  <1> SUFFICES ASSUME NEW n \in Nodes, ProjectAbove(n) = j
               PROVE  /\ status'[n] = status[n]
                      /\ n \in Rows => position'[n] = position[n] /\ (n \in created' <=> n \in created)
    BY DEF KeepsProject
  <1>0. n # cmd[t].scope
    OBVIOUS
  <1>1. status'[n] = status[n]
    BY <1>0, FinishEffect DEF OInv, TypeOK
  <1>2. n \in created' <=> n \in created
    BY <1>0, FinishEffect
  <1>3. n \in DOMAIN draft[t].place => FALSE
    BY <1>0, FinishEffect, RowsOfDraft, Levels
  <1>4. n \in Rows => position'[n] = position[n]
    BY <1>3, FinishEffect, PublishTypes DEF OInv
  <1> QED
    BY <1>1, <1>2, <1>4

-----------------------------------------------------------------------------
(* What is in progress. *)

\* Rows only appear; a transaction that stays keeps its command's row, if no
\* other transaction creates the row it is about to create.
LEMMA NamedKept ==
  ASSUME NEW u \in Txns, Named(u), cmd'[u] = cmd[u], created \subseteq created',
         cmd[u].op = "create" => cmd[u].scope \notin created',
         \A v \in Txns \ {u} : phase'[v] # "idle" /\ cmd'[v].op = "create" =>
           \/ phase[v] # "idle" /\ cmd[v].op = "create" /\ cmd'[v].scope = cmd[v].scope
           \/ cmd[u].op = "create" => cmd'[v].scope # cmd[u].scope
  PROVE  Named(u)'
  BY DEF Named, Pending

\* Steps that write no row leave the other transactions where they were.
LEMMA QuietOthers ==
  ASSUME OInv, TypeOK', UNCHANGED <<status, orderVars>>,
         NEW t \in Txns, cmd'[t] = cmd[t] \/ phase'[t] = "idle",
         phase[t] # "idle",
         NEW u \in Txns \ {t}, phase'[u] = phase[u], cmd'[u] = cmd[u], draft'[u] = draft[u],
         \A v \in Txns \ {t} : phase'[v] = phase[v] /\ cmd'[v] = cmd[v]
  PROVE  InProgress(u)'
  <1>1. InProgress(u) /\ TypeOK
    BY DEF OInv
  <1>2. phase[u] # "idle" => Named(u)'
    BY <1>1, NamedKept DEF InProgress, orderVars, Named
  <1>3. Holds(u) => NodeOpen(cmd[u].scope)' /\ (Ready(u) => Ready(u)')
    BY <1>1, QuietKeeps, ReadyKept DEF InProgress, Holds
  <1> QED
    BY <1>1, <1>2, <1>3 DEF InProgress, Holds

\* A transaction that ended has nothing in progress.
LEMMA EndedQuiet ==
  ASSUME NEW t \in Txns, phase'[t] = "idle", draft'[t] = NoDraft
  PROVE  InProgress(t)'
  BY DEF InProgress, Holds

\* A transaction that begins names a row that exists, or a new one of its own.
LEMMA BeginInProgress ==
  ASSUME OInv, TypeOK', NEW t \in Txns, NEW c \in Commands, Begin(t, c)
  PROVE  \A u \in Txns : InProgress(u)'
  <1>1. /\ Resolved(c) /\ UNCHANGED <<status, orderVars, draft>> /\ c \in Command
        /\ phase' = [phase EXCEPT ![t] = "begun"] /\ cmd' = [cmd EXCEPT ![t] = c]
        /\ phase[t] = "idle" /\ created' = created
    BY OrderAssumption DEF Begin, BeginTx, orderVars
  <1>2. phase'[t] = "begun" /\ cmd'[t] = c
        /\ \A u \in Txns \ {t} : phase'[u] = phase[u] /\ cmd'[u] = cmd[u]
    BY <1>1 DEF OInv, TypeOK
  <1>3. \A u \in Txns : InProgress(u)
    BY DEF OInv
  <1>4. c.op = "create" => c.scope \notin created /\ \A u \in Txns : ~Pending(u, c.scope)
    BY <1>1 DEF Resolved
  <1>5. c.op \notin {"create", "set_section"} => c.scope \in created
    BY <1>1 DEF Resolved
  <1>6. InProgress(t)'
    <2>1. draft'[t] = NoDraft
      BY <1>1, <1>3 DEF InProgress
    <2>2. Named(t)'
      BY <1>1, <1>2, <1>4, <1>5 DEF Named, Pending
    <2> QED
      BY <1>2, <2>1, <2>2 DEF InProgress, Holds
  <1>7. ASSUME NEW u \in Txns \ {t} PROVE InProgress(u)'
    <2>1. phase[u] # "idle" => Named(u)'
      BY <1>1, <1>2, <1>3, <1>4, NamedKept DEF InProgress, Named, Pending
    <2>2. Holds(u) => NodeOpen(cmd[u].scope)' /\ (Ready(u) => Ready(u)')
      BY <1>1, <1>2, <1>3, QuietKeeps, ReadyKept DEF InProgress, Holds, OInv
    <2> QED
      BY <1>1, <1>2, <1>3, <2>1, <2>2 DEF InProgress, Holds
  <1> QED
    BY <1>6, <1>7

\* The lock is taken on an open chain.
LEMMA LockInProgress ==
  ASSUME OInv, TypeOK', NEW t \in Txns, Lock(t)
  PROVE  \A u \in Txns : InProgress(u)'
  <1>0. TypeOK /\ InProgress(t) /\ phase[t] = "begun" /\ UNCHANGED <<status, orderVars, draft>>
    BY DEF OInv, Lock, LockParent
  <1>1. \/ EndTx(t)
        \/ MoveTo(t, "locked") /\ NodeOpen(cmd[t].scope)
    BY DEF Lock, LockParent, Admitted
  <1>2. /\ cmd'[t] = cmd[t] \/ phase'[t] = "idle"
        /\ \A u \in Txns \ {t} : phase'[u] = phase[u] /\ cmd'[u] = cmd[u]
    BY <1>0, <1>1, EndTxTypes DEF MoveTo, TypeOK
  <1>3. \A u \in Txns \ {t} : InProgress(u)'
    BY <1>0, <1>2, QuietOthers
  <1>4. InProgress(t)'
    <2>0. draft'[t] = NoDraft
      BY <1>0 DEF InProgress
    <2>1. CASE EndTx(t)
      BY <1>0, <2>0, <2>1, EndTxTypes, EndedQuiet
    <2>2. CASE MoveTo(t, "locked") /\ NodeOpen(cmd[t].scope)
      <3>1. phase'[t] = "locked" /\ cmd' = cmd
        BY <1>0, <2>2 DEF MoveTo, TypeOK
      <3>2. NodeOpen(cmd[t].scope)' = NodeOpen(cmd[t].scope)
        BY <1>0, <3>1 DEF NodeOpen, ItemOpen, ProcessOpen, SectionOpen
      <3>3. Named(t)'
        BY <1>0, <1>2, <3>1, NamedKept DEF InProgress, Named, orderVars
      <3> QED
        BY <2>0, <2>2, <3>1, <3>2, <3>3 DEF InProgress
    <2> QED
      BY <1>1, <2>1, <2>2
  <1> QED
    BY <1>3, <1>4

\* The checks establish what the transaction counts on.
LEMMA CheckInProgress ==
  ASSUME OInv, TypeOK', NEW t \in Txns, Check(t)
  PROVE  \A u \in Txns : InProgress(u)'
  <1>0. /\ TypeOK /\ DistinctPositions /\ InProgress(t) /\ phase[t] = "locked"
        /\ UNCHANGED <<status, orderVars>>
    BY DEF OInv, RowsOK, Check
  <1>1. \/ EndTx(t) /\ draft' = draft
        \/ /\ MoveTo(t, "checked") /\ Allowed(cmd[t])
           /\ \E d \in Drafts(cmd[t]) : draft' = [draft EXCEPT ![t] = d]
    BY DEF Check
  <1>2. /\ cmd'[t] = cmd[t] \/ phase'[t] = "idle"
        /\ \A u \in Txns \ {t} : phase'[u] = phase[u] /\ cmd'[u] = cmd[u]
    BY <1>0, <1>1, EndTxTypes DEF MoveTo, TypeOK
  <1>3. \A u \in Txns \ {t} : draft'[u] = draft[u]
    BY <1>1, DraftSet
  <1>4. \A u \in Txns \ {t} : InProgress(u)'
    BY <1>0, <1>2, <1>3, QuietOthers
  <1>5. CASE EndTx(t) /\ draft' = draft
    <2>1. InProgress(t)'
      BY <1>0, <1>5, EndTxTypes, EndedQuiet DEF InProgress
    <2> QED
      BY <1>4, <2>1
  <1>6. CASE MoveTo(t, "checked") /\ Allowed(cmd[t])
    <2>1. PICK d \in Drafts(cmd[t]) : draft' = [draft EXCEPT ![t] = d]
      BY <1>0, <1>1, <1>6 DEF EndTx, MoveTo, TypeOK
    <2>2. cmd' = cmd /\ phase'[t] = "checked" /\ draft'[t] = d /\ Named(t)
      BY <1>0, <1>6, <2>1, DraftSet DEF MoveTo, TypeOK, InProgress
    <2>3. Ready(t)'
      BY <1>0, <1>6, <2>2, DraftsFit DEF Named
    <2>4. NodeOpen(cmd[t].scope)'
      BY <1>0, <2>2 DEF NodeOpen, ItemOpen, ProcessOpen, SectionOpen, InProgress, Holds
    <2>5. Named(t)'
      BY <1>0, <1>2, <2>2, NamedKept DEF Named, orderVars
    <2> QED
      BY <1>4, <2>2, <2>3, <2>4, <2>5 DEF InProgress
  <1> QED
    BY <1>1, <1>5, <1>6

\* A reorder goes on where it is.
LEMMA MoveRowInProgress ==
  ASSUME OInv, TypeOK', NEW t \in Txns, MoveRow(t)
  PROVE  \A u \in Txns : InProgress(u)'
  <1>0. /\ TypeOK /\ UNCHANGED <<status, orderVars>> /\ phase[t] = "checked"
        /\ Named(t) /\ NodeOpen(cmd[t].scope) /\ Reordering(t) /\ cmd[t].op = "reorder"
    BY MoveRowEffect DEF OInv
  <1>1. CASE UNCHANGED <<phase, cmd, began>>
    <2>1. \E d : draft' = [draft EXCEPT ![t] = d]
      BY MoveRowEffect
    <2>2. \A u \in Txns \ {t} : draft'[u] = draft[u]
      BY <2>1, DraftSet
    <2>3. \A u \in Txns \ {t} : InProgress(u)'
      BY <1>0, <1>1, <2>2, QuietOthers
    <2>4. \/ \E k \in draft[t].left : draft' = [draft EXCEPT ![t] = Visited(t, k)]
          \/ EndTx(t)
      BY MoveRowEffect
    <2>5. ~EndTx(t)
      BY <1>0, <1>1 DEF EndTx, TypeOK
    <2>6. PICK k \in draft[t].left : draft' = [draft EXCEPT ![t] = Visited(t, k)]
      BY <2>4, <2>5
    <2>7. Reordering(t)'
      <3>1. draft'[t] = Visited(t, k)
        BY <2>6, DraftSet
      <3> QED
        BY <1>0, <1>1, <3>1, VisitFits DEF Named
    <2>8. NodeOpen(cmd[t].scope)'
      BY <1>0, <1>1 DEF NodeOpen, ItemOpen, ProcessOpen, SectionOpen
    <2>9. Named(t)'
      BY <1>0, <1>1, NamedKept DEF Named, orderVars
    <2>10. Ready(t)'
      BY <1>0, <1>1, <2>7 DEF Ready
    <2> QED
      BY <1>0, <1>1, <2>3, <2>8, <2>9, <2>10 DEF InProgress
  <1>2. CASE EndTx(t) /\ draft' = [draft EXCEPT ![t] = NoDraft]
    <2>1. phase'[t] = "idle" /\ \A u \in Txns \ {t} : phase'[u] = phase[u] /\ cmd'[u] = cmd[u]
      BY <1>0, <1>2, EndTxTypes
    <2>2. draft'[t] = NoDraft /\ \A u \in Txns \ {t} : draft'[u] = draft[u]
      BY <1>2, DraftSet
    <2>3. \A u \in Txns \ {t} : InProgress(u)'
      BY <1>0, <2>1, <2>2, QuietOthers
    <2> QED
      BY <2>1, <2>2, <2>3, EndedQuiet
  <1> QED
    BY <1>1, <1>2, MoveRowEffect

\* A rollback leaves no trace.
LEMMA AbortInProgress ==
  ASSUME OInv, TypeOK', NEW t \in Txns, Abort(t)
  PROVE  \A u \in Txns : InProgress(u)'
  <1>0. /\ TypeOK /\ UNCHANGED <<status, orderVars>> /\ phase[t] # "idle"
        /\ EndTx(t) /\ draft' = [draft EXCEPT ![t] = NoDraft]
    BY DEF OInv, Abort
  <1>1. phase'[t] = "idle" /\ \A u \in Txns \ {t} : phase'[u] = phase[u] /\ cmd'[u] = cmd[u]
    BY <1>0, EndTxTypes
  <1>2. draft'[t] = NoDraft /\ \A u \in Txns \ {t} : draft'[u] = draft[u]
    BY <1>0, DraftSet
  <1>3. \A u \in Txns \ {t} : InProgress(u)'
    BY <1>0, <1>1, <1>2, QuietOthers
  <1> QED
    BY <1>1, <1>2, <1>3, EndedQuiet

\* A commit leaves the other transactions what they count on.
LEMMA FinishInProgress ==
  ASSUME OInv, TypeOK', NEW t \in Txns, Finish(t)
  PROVE  \A u \in Txns : InProgress(u)'
  <1>0. /\ TypeOK /\ phase[t] = "checked" /\ EndTx(t) /\ Named(t)
        /\ draft' = [draft EXCEPT ![t] = NoDraft]
    BY FinishEffect DEF OInv
  <1>1. phase'[t] = "idle" /\ \A u \in Txns \ {t} : phase'[u] = phase[u] /\ cmd'[u] = cmd[u]
    BY <1>0, EndTxTypes
  <1>2. draft'[t] = NoDraft /\ \A u \in Txns \ {t} : draft'[u] = draft[u]
    BY <1>0, DraftSet
  <1>3. ASSUME NEW u \in Txns \ {t} PROVE InProgress(u)'
    <2>1. InProgress(u)
      BY DEF OInv
    <2>2. phase[u] # "idle" => Named(u)'
      <3>1. \/ created' = created
            \/ created' = created \cup {cmd[t].scope} /\ cmd[t].op = "create"
        BY FinishEffect
      <3>2. phase[u] # "idle" /\ cmd[u].op = "create" => cmd[u].scope \notin created'
        BY <1>0, <2>1, <3>1 DEF InProgress, Named, Pending
      <3> QED
        BY <1>1, <2>1, <3>1, <3>2, NamedKept DEF InProgress
    <2>3. ASSUME Holds(u) PROVE NodeOpen(cmd[u].scope)' /\ (Ready(u) => Ready(u)')
      <3>1. ProjectAbove(cmd[u].scope) # ProjectAbove(cmd[t].scope)
        BY <1>0, <2>3 DEF OInv, ProjectLockIsExclusive, Holds
      <3>2. KeepsProject(ProjectAbove(cmd[u].scope))
        <4>1. PICK j : j = ProjectAbove(cmd[u].scope)
          OBVIOUS
        <4> QED
          BY <3>1, <4>1, FinishIsElsewhere
      <3> QED
        BY <1>0, <1>1, <1>2, <2>1, <2>3, <3>2, ReadyKept DEF InProgress, Holds
    <2> QED
      BY <1>1, <1>2, <2>1, <2>2, <2>3 DEF InProgress, Holds
  <1> QED
    BY <1>1, <1>2, <1>3, EndedQuiet

-----------------------------------------------------------------------------
(* The rows. *)

\* A reorder that publishes its draft leaves the requested order.
LEMMA ReorderPublished ==
  ASSUME OInv, NEW t \in Txns, Finish(t), cmd[t].op = "reorder", Publish(t)
  PROVE  /\ cmd[t].scope \in Items /\ cmd[t].arg \in Seq(Processes)
         /\ ActiveIn(cmd[t].scope) = {cmd[t].arg[k] : k \in DOMAIN cmd[t].arg}
         /\ \A k \in DOMAIN cmd[t].arg : position'[cmd[t].arg[k]] = k - 1
         /\ \A n \in Rows \ ActiveIn(cmd[t].scope) : position'[n] = position[n]
         /\ created' = created /\ status' = status
  <1> DEFINE s == cmd[t].arg
             d == draft[t]
  <1>0. /\ Reordering(t) /\ cmd[t] \in Command /\ d.left = {} /\ Draft(d) /\ TypeOK
        /\ created' = created /\ status' = status
    BY FinishEffect DEF Ready, Named, OInv, TypeOK
  <1>1. cmd[t].scope \in Items /\ s \in Seq(Processes)
    BY <1>0, CommandFields
  <1>2. ActiveIn(cmd[t].scope) = {s[k] : k \in DOMAIN s}
    BY <1>0 DEF Reordering, NamesAllActive
  <1>3. /\ \A n \in Rows : position'[n] = Seen(t, n)
        /\ \A n \in Rows \ DOMAIN d.place : position'[n] = position[n]
    BY <1>0, PublishTypes
  <1>4. \A k \in DOMAIN s : s[k] \in Rows
    BY <1>1, Levels
  <1>5. CASE d.round = 0
    <2>1. DOMAIN s = {} /\ DOMAIN d.place = {}
      BY <1>0, <1>5, EmptyDraft DEF Reordering
    <2> QED
      BY <1>0, <1>1, <1>2, <1>3, <2>1
  <1>6. CASE d.round = 2
    <2>1. DOMAIN d.place = {s[k] : k \in DOMAIN s} /\ \A k \in DOMAIN s : d.place[s[k]] = k - 1
      BY <1>0, <1>6 DEF Reordering
    <2>2. \A k \in DOMAIN s : position'[s[k]] = k - 1
      BY <1>3, <1>4, <2>1 DEF Seen
    <2> QED
      BY <1>0, <1>1, <1>2, <1>3, <2>1, <2>2
  <1> QED
    BY <1>0, <1>5, <1>6 DEF Reordering, Draft

\* A new process, and every other row, after the commit of a creation.
LEMMA CreatePublished ==
  ASSUME OInv, NEW t \in Txns, Finish(t), cmd[t].op = "create", Publish(t)
  PROVE  /\ cmd[t].scope \in Rows \ created
         /\ \A m \in StoredBeside(cmd[t].scope) : position[m] < position'[cmd[t].scope]
         /\ \A n \in Rows \ {cmd[t].scope} : position'[n] = position[n]
         /\ status' = status
  <1>1. /\ TypeOK /\ Ready(t) /\ cmd[t].scope \in Rows \ created /\ status' = status
    BY FinishEffect, CommandFields DEF Named, OInv
  <1>2. /\ DOMAIN draft[t].place = {cmd[t].scope}
        /\ \A m \in StoredBeside(cmd[t].scope) : position[m] < draft[t].place[cmd[t].scope]
    BY <1>1 DEF Ready
  <1>3. /\ \A n \in Rows : position'[n] = Seen(t, n)
        /\ \A n \in Rows \ DOMAIN draft[t].place : position'[n] = position[n]
    BY <1>1, PublishTypes
  <1>4. position'[cmd[t].scope] = draft[t].place[cmd[t].scope]
    BY <1>1, <1>2, <1>3 DEF Seen
  <1> QED
    BY <1>1, <1>2, <1>3, <1>4

\* No process changes its status but by archiving.
LEMMA ProcessStatus ==
  ASSUME OInv, NEW t \in Txns, Finish(t), NEW p \in Processes
  PROVE  /\ status'[p] = "active" => status[p] = "active"
         /\ cmd[t].op # "archive" => status'[p] = status[p]
         /\ p # cmd[t].scope => status'[p] = status[p]
  <1>1. cmd[t] \in Command /\ status \in [Nodes -> Statuses] /\ p \in Nodes
    BY FinishEffect, Levels DEF Named, OInv, TypeOK
  <1>2. cmd[t].op \in {"update", "set_section"} => p # cmd[t].scope
    BY <1>1, CommandFields, ScopeAssumption
  <1> QED
    BY <1>1, <1>2, FinishEffect

\* A commit leaves distinct positions, and new rows active.
LEMMA FinishKeepsRows ==
  ASSUME OInv, TypeOK', NEW t \in Txns, Finish(t)
  PROVE  RowsOK'
  <1>0. TypeOK /\ RowsOK /\ Named(t) /\ cmd[t] \in Command /\ created \subseteq created'
    BY FinishEffect DEF OInv, Named
  <1>1. ASSUME NEW n \in Rows, n \notin created' PROVE status'[n] = "active"
    <2>1. n \notin created /\ status[n] = "active" /\ n \in Nodes
      BY <1>0, <1>1, Levels DEF RowsOK
    <2>2. cmd[t].op \in {"update", "archive"} => n # cmd[t].scope
      BY <1>0, <2>1 DEF Named
    <2>3. cmd[t].op = "set_section" => n # cmd[t].scope
      BY <1>0, CommandFields, ScopeAssumption DEF Rows
    <2> QED
      BY <1>0, <2>1, <2>2, <2>3, FinishEffect DEF TypeOK
  <1>2. ASSUME NEW p \in created' \cap Processes, NEW q \in created' \cap Processes,
               ItemOf[p] = ItemOf[q], position'[p] = position'[q],
               status'[p] = "active", status'[q] = "active"
        PROVE  p = q
    <2>0. status[p] = "active" /\ status[q] = "active" /\ p \in Rows /\ q \in Rows
      BY <1>2, ProcessStatus, Levels
    <2>1. CASE position' = position /\ created' = created
      BY <1>0, <1>2, <2>0, <2>1 DEF RowsOK, DistinctPositions
    <2>2. CASE Publish(t) /\ cmd[t].op = "create"
      <3> DEFINE n == cmd[t].scope
      <3>1. /\ n \in Rows \ created /\ \A m \in Rows \ {n} : position'[m] = position[m]
            /\ \A m \in StoredBeside(n) : position[m] < position'[n]
            /\ created' \subseteq created \cup {n}
        BY <2>2, CreatePublished, FinishEffect
      <3>2. \A m \in Processes : m = n => StoredBeside(n) = {r \in created \cap Processes : ItemOf[r] = ItemOf[m]}
        BY Beside
      <3>3. \A m \in Rows : position[m] \in Nat /\ position'[m] \in Nat
        BY <1>0, OrderAssumption DEF TypeOK, Positions
      <3> HIDE DEF n
      <3>4. CASE p # n /\ q # n
        BY <1>0, <1>2, <2>0, <3>1, <3>4 DEF RowsOK, DistinctPositions
      <3>5. CASE p = n /\ q # n
        <4>1. q \in StoredBeside(n)
          BY <1>2, <3>1, <3>2, <3>5
        <4> QED
          BY <1>2, <2>0, <3>1, <3>3, <3>5, <4>1
      <3>6. CASE q = n /\ p # n
        <4>1. p \in StoredBeside(n)
          BY <1>2, <3>1, <3>2, <3>6
        <4> QED
          BY <1>2, <2>0, <3>1, <3>3, <3>6, <4>1
      <3> QED
        BY <3>4, <3>5, <3>6
    <2>3. CASE Publish(t) /\ cmd[t].op = "update"
      <3>1. created' = created
        BY <2>3, FinishEffect
      <3>2. cmd[t].scope \in Items
        BY <1>0, <2>3, CommandFields
      <3>3. p \notin DOMAIN draft[t].place /\ q \notin DOMAIN draft[t].place
        BY <2>3, <3>2, FinishEffect, RowsOfDraft, ScopeAssumption
      <3>4. position'[p] = position[p] /\ position'[q] = position[q]
        BY <1>0, <2>0, <2>3, <3>3, PublishTypes
      <3> QED
        BY <1>0, <1>2, <2>0, <3>1, <3>4 DEF RowsOK, DistinctPositions
    <2>4. CASE Publish(t) /\ cmd[t].op = "reorder"
      <3> DEFINE s == cmd[t].arg
                 i == cmd[t].scope
      <3>1. /\ i \in Items /\ created' = created /\ s \in Seq(Processes)
            /\ ActiveIn(i) = {s[k] : k \in DOMAIN s}
            /\ \A k \in DOMAIN s : position'[s[k]] = k - 1
            /\ \A n \in Rows \ ActiveIn(i) : position'[n] = position[n]
        BY <2>4, ReorderPublished
      <3> HIDE DEF s, i
      <3>2. \A r \in created \cap Processes : status[r] = "active" /\ ItemOf[r] = i => r \in ActiveIn(i)
        BY DEF ActiveIn, ProcessesOf
      <3>3. CASE ItemOf[p] = i
        <4>1. PICK j \in DOMAIN s, k \in DOMAIN s : p = s[j] /\ q = s[k]
          BY <1>2, <2>0, <3>1, <3>2, <3>3
        <4>2. j - 1 = k - 1 /\ j \in Nat /\ k \in Nat
          BY <1>2, <3>1, <4>1
        <4> QED
          BY <4>1, <4>2
      <3>4. CASE ItemOf[p] # i
        <4>1. p \notin ActiveIn(i) /\ q \notin ActiveIn(i)
          BY <1>2, <3>4 DEF ActiveIn, ProcessesOf
        <4> QED
          BY <1>0, <1>2, <2>0, <3>1, <4>1 DEF RowsOK, DistinctPositions
      <3> QED
        BY <3>3, <3>4
    <2> QED
      BY <2>1, <2>2, <2>3, <2>4, FinishEffect
  <1> QED
    BY <1>1, <1>2 DEF RowsOK, DistinctPositions

-----------------------------------------------------------------------------
(* The invariant. *)

\* The invariant holds initially.
LEMMA InitOInv == Init => OInv
  <1> SUFFICES ASSUME Init PROVE OInv
    OBVIOUS
  <1>1. TypeOK
    BY EmptyDraft, OrderAssumption, Levels
    DEF Init, ScopeInit, TypeOK, Statuses, Positions, Draft
  <1>2. RowsOK
    BY Levels DEF Init, ScopeInit, RowsOK, DistinctPositions
  <1>3. \A t \in Txns : phase[t] = "idle" /\ draft[t] = NoDraft
    BY DEF Init, ScopeInit
  <1>4. draft = [t \in Txns |-> draft[t]]
    BY DEF Init
  <1> QED
    BY <1>1, <1>2, <1>3, <1>4 DEF OInv, InProgress, Holds, ProjectLockIsExclusive

\* Rows change only by the commit of a transaction.
LEMMA OnlyFinishChanges ==
  ASSUME OInv, [Next]_vars
  PROVE  UNCHANGED <<status, orderVars>> \/ \E t \in Txns : Finish(t)
  BY MoveRowEffect DEF Next, Write, Finish, Environment, Revoke, Restore, Begin, Lock,
     LockParent, Check, Abort, vars, scopeVars

\* Every step preserves the invariant.
LEMMA NextOInv == OInv /\ [Next]_vars => OInv'
  <1> SUFFICES ASSUME OInv, [Next]_vars PROVE OInv'
    OBVIOUS
  <1>1. TypeOK' /\ Drafted' /\ ProjectLockIsExclusive'
    BY StepTypes, ExclusionKept
  <1>2. RowsOK'
    <2>1. CASE UNCHANGED <<status, orderVars>>
      BY <2>1 DEF OInv, RowsOK, DistinctPositions, orderVars
    <2>2. CASE \E t \in Txns : Finish(t)
      BY <1>1, <2>2, FinishKeepsRows
    <2> QED
      BY <2>1, <2>2, OnlyFinishChanges
  <1>3. \A u \in Txns : InProgress(u)'
    <2>1. ASSUME NEW t \in Txns, NEW c \in Commands, Begin(t, c)
          PROVE  \A u \in Txns : InProgress(u)'
      BY <1>1, <2>1, BeginInProgress
    <2>2. ASSUME NEW t \in Txns, Lock(t) \/ Check(t) \/ Write(t) \/ Abort(t)
          PROVE  \A u \in Txns : InProgress(u)'
      BY <1>1, <2>2, LockInProgress, CheckInProgress, MoveRowInProgress, AbortInProgress,
         FinishInProgress DEF Write, Finish
    <2>3. ASSUME Environment \/ UNCHANGED vars
          PROVE  \A u \in Txns : InProgress(u)'
      <3>1. UNCHANGED <<status, created, position, phase, cmd, draft>>
        BY <2>3 DEF Environment, Revoke, Restore, vars, scopeVars, orderVars
      <3>2. UNCHANGED <<status, orderVars>> /\ TypeOK
        BY <2>3 DEF Environment, Revoke, Restore, vars, scopeVars, orderVars, OInv
      <3> SUFFICES ASSUME NEW u \in Txns PROVE InProgress(u)'
        OBVIOUS
      <3>3. InProgress(u)
        BY DEF OInv
      <3>4. phase[u] # "idle" => Named(u)'
        BY <3>1, <3>3, NamedKept DEF InProgress, Named
      <3>5. Holds(u) => NodeOpen(cmd[u].scope)' /\ (Ready(u) => Ready(u)')
        BY <1>1, <3>1, <3>2, <3>3, QuietKeeps, ReadyKept DEF InProgress, Holds
      <3> QED
        BY <3>1, <3>3, <3>4, <3>5 DEF InProgress, Holds
    <2> QED
      BY <2>1, <2>2, <2>3 DEF Next
  <1> QED
    BY <1>1, <1>2, <1>3 DEF OInv, Drafted

\* The inductive invariant: rows, lock and what every transaction counts on.
THEOREM Invariance == Spec => []OInv
  BY InitOInv, NextOInv, PTL DEF Spec

\* Every position stays in the range of its column, for a column of any width
\* and any number of rows: a reorder's first statement never overflows it.
THEOREM TypeCorrectness == Spec => []TypeOK
  BY Invariance, PTL DEF OInv

\* Whatever the order in which the two statements of a reorder visit their rows,
\* and whatever was appended or archived before, the unique index accepts each.
THEOREM IndexIsNeverHit == Spec => []IndexNeverRejects
  <1>1. ASSUME OInv PROVE IndexNeverRejects
    <2> SUFFICES ASSUME NEW t \in Txns, phase[t] = "checked"
                 PROVE  /\ cmd[t].op = "reorder" =>
                             \A k \in draft[t].left : IndexAccepts(t, cmd[t].arg[k], Target(t, k))
                        /\ cmd[t].op = "create" /\ cmd[t].scope \in Processes =>
                             IndexAccepts(t, cmd[t].scope, Seen(t, cmd[t].scope))
      BY DEF IndexNeverRejects
    <2>0. TypeOK /\ Draft(draft[t]) /\ Ready(t) /\ Named(t) /\ cmd[t] \in Command
      BY <1>1 DEF OInv, TypeOK, InProgress, Named
    <2>1. ASSUME cmd[t].op = "reorder", NEW k \in draft[t].left
          PROVE  IndexAccepts(t, cmd[t].arg[k], Target(t, k))
      <3> DEFINE s == cmd[t].arg
                 d == draft[t]
      <3>0. /\ Reordering(t) /\ cmd[t].scope \in Items /\ s \in Seq(Processes)
            /\ DOMAIN s = 1..Len(s) /\ Len(s) \in Nat
        BY <2>0, <2>1, CommandFields DEF Ready
      <3>1. /\ d.round \in {1, 2} /\ d.left \subseteq DOMAIN s /\ d.base \in Nat
            /\ Len(s) <= d.base
        BY <2>0, <2>1, <3>0, EmptyDraft, OrderAssumption DEF Reordering, Draft, Positions
      <3>2. ActiveBeside(s[k]) = {s[j] : j \in DOMAIN s}
        <4>1. s[k] \in ActiveIn(cmd[t].scope) /\ ActiveIn(cmd[t].scope) = {s[j] : j \in DOMAIN s}
          BY <2>1, <3>0, <3>1 DEF Reordering, NamesAllActive
        <4> QED
          BY <4>1 DEF ActiveBeside, ActiveIn, ProcessesOf
      <3> SUFFICES ASSUME NEW j \in DOMAIN s, s[j] # s[k]
                   PROVE  Seen(t, s[j]) # Target(t, k)
        BY <3>2 DEF IndexAccepts
      <3>3. j # k /\ j \in Nat /\ k \in Nat /\ 1 <= j /\ 1 <= k /\ k <= Len(s)
        BY <2>1, <3>0, <3>1
      <3>4. \A i \in DOMAIN s : s[i] = s[j] => i = j
        BY <3>0 DEF Reordering, NamesAllActive
      <3>5. position[s[j]] \in Nat /\ position[s[j]] < d.base
        <4>1. s[j] \in ActiveIn(cmd[t].scope) /\ s[j] \in Rows
          BY <3>0, Levels DEF Reordering, NamesAllActive
        <4>2. position[s[j]] \in Nat
          BY <2>0, <4>1, OrderAssumption DEF TypeOK, Positions
        <4> QED
          BY <3>0, <3>1, <4>1, <4>2 DEF Reordering
      <3>6. CASE d.round = 1
        <4>1. Target(t, k) = d.base + k
          BY <3>6 DEF Target
        <4>2. CASE j \in d.left
          <5>1. s[j] \notin DOMAIN d.place
            BY <3>0, <3>4, <3>6, <4>2 DEF Reordering
          <5> QED
            BY <3>1, <3>3, <3>5, <4>1, <5>1 DEF Seen
        <4>3. CASE j \notin d.left
          <5>1. s[j] \in DOMAIN d.place /\ d.place[s[j]] = d.base + j
            BY <3>0, <3>6, <4>3 DEF Reordering
          <5>2. Seen(t, s[j]) = d.base + j
            BY <5>1 DEF Seen
          <5> QED
            BY <3>1, <3>3, <4>1, <5>2
        <4> QED
          BY <4>2, <4>3
      <3>7. CASE d.round = 2
        <4>1. Target(t, k) = k - 1
          BY <3>7 DEF Target
        <4>2. s[j] \in DOMAIN d.place
          BY <3>0, <3>7 DEF Reordering
        <4>3. Seen(t, s[j]) = d.place[s[j]]
          BY <4>2 DEF Seen
        <4>4. CASE j \in d.left
          <5>1. d.place[s[j]] = d.base + j
            BY <3>0, <3>7, <4>4 DEF Reordering
          <5>2. Len(s) \in Nat /\ d.base \in Nat
            BY <3>0, <3>1
          <5> HIDE DEF s, d
          <5>3. d.base + j # k - 1
            BY <3>1, <3>3, <5>2
          <5> QED
            BY <4>1, <4>3, <5>1, <5>3
        <4>5. CASE j \notin d.left
          <5>1. d.place[s[j]] = j - 1
            BY <3>0, <3>7, <4>5 DEF Reordering
          <5>2. j - 1 # k - 1
            BY <3>3
          <5> QED
            BY <4>1, <4>3, <5>1, <5>2
        <4> QED
          BY <4>4, <4>5
      <3> QED
        BY <3>1, <3>6, <3>7
    <2>2. ASSUME cmd[t].op = "create", cmd[t].scope \in Processes
          PROVE  IndexAccepts(t, cmd[t].scope, Seen(t, cmd[t].scope))
      <3> DEFINE n == cmd[t].scope
      <3>1. /\ DOMAIN draft[t].place = {n} /\ n \in Rows
            /\ \A m \in StoredBeside(n) : position[m] < draft[t].place[n]
        BY <2>0, <2>2, Levels DEF Ready
      <3>2. Seen(t, n) = draft[t].place[n] /\ draft[t].place[n] \in Nat
        BY <2>0, <3>1, OrderAssumption DEF Seen, Draft, Positions
      <3>3. ActiveBeside(n) \subseteq StoredBeside(n) /\ ActiveBeside(n) \subseteq Rows
        BY <2>2, Levels, ScopeAssumption DEF StoredBeside, ActiveBeside, ActiveIn, ProcessesOf
      <3>4. \A q \in Rows : position[q] \in Nat
        BY <2>0, OrderAssumption DEF TypeOK, Positions
      <3> HIDE DEF n
      <3>5. \A q \in ActiveBeside(n) \ {n} : Seen(t, q) # Seen(t, n)
        <4> SUFFICES ASSUME NEW q \in ActiveBeside(n) \ {n} PROVE Seen(t, q) # Seen(t, n)
          OBVIOUS
        <4>1. Seen(t, q) = position[q]
          BY <3>1 DEF Seen
        <4>2. position[q] < draft[t].place[n] /\ position[q] \in Nat
          BY <3>1, <3>3, <3>4
        <4> QED
          BY <3>2, <4>1, <4>2
      <3> QED
        BY <3>5 DEF IndexAccepts, n
    <2> QED
      BY <2>1, <2>2
  <1> QED
    BY <1>1, Invariance, PTL

\* The transaction whose commit a step is.
LEMMA Committer ==
  ASSUME OInv, [Next]_vars, NEW t \in Txns, phase[t] = "checked", phase'[t] = "idle"
  PROVE  Finish(t) \/ UNCHANGED <<status, orderVars>>
  <1>1. ASSUME NEW u \in Txns, Finish(u) PROVE u = t
    BY <1>1, FinishEffect, EndTxTypes DEF OInv
  <1> QED
    BY <1>1, OnlyFinishChanges

\* A reorder that commits leaves the requested order, without gaps, on what is
\* then the full set of active processes, and moves no other row.
THEOREM ReordersAsRequested == Spec => ReorderedAsRequested
  <1> DEFINE Requested == \A t \in Txns : position' # position /\ Commits(t, "reorder") =>
        LET s == cmd[t].arg IN
        /\ ActiveIn(cmd[t].scope) = {s[k] : k \in DOMAIN s}
        /\ \A k \in DOMAIN s : position'[s[k]] = k - 1
        /\ \A n \in Rows \ {s[k] : k \in DOMAIN s} : position'[n] = position[n]
  <1>1. ASSUME OInv, [Next]_vars PROVE Requested
    <2> SUFFICES ASSUME NEW t \in Txns, position' # position, Commits(t, "reorder")
                 PROVE  LET s == cmd[t].arg IN
                        /\ ActiveIn(cmd[t].scope) = {s[k] : k \in DOMAIN s}
                        /\ \A k \in DOMAIN s : position'[s[k]] = k - 1
                        /\ \A n \in Rows \ {s[k] : k \in DOMAIN s} : position'[n] = position[n]
      OBVIOUS
    <2>1. Finish(t) /\ cmd[t].op = "reorder"
      BY <1>1, Committer DEF Commits, orderVars
    <2>2. Publish(t)
      BY <1>1, <2>1, FinishEffect
    <2> QED
      BY <1>1, <2>1, <2>2, ReorderPublished
  <1> HIDE DEF Requested
  <1>2. OInv /\ [Next]_vars => [Requested]_vars
    BY <1>1
  <1> USE DEF Requested
  <1> QED
    BY <1>2, Invariance, PTL DEF Spec, ReorderedAsRequested

\* A new row comes after every row its parent has stored, archived ones included.
THEOREM AppendsGoLast == Spec => AppendedLast
  <1> DEFINE Last == \A n \in created' \ created :
        \A m \in created' \ {n} : SameParent(m, n) => position'[m] < position'[n]
  <1>1. ASSUME OInv, [Next]_vars PROVE Last
    <2> SUFFICES ASSUME NEW n \in created' \ created, NEW m \in created' \ {n}, SameParent(m, n)
                 PROVE  position'[m] < position'[n]
      OBVIOUS
    <2>1. PICK t \in Txns : Finish(t)
      BY <1>1, OnlyFinishChanges DEF orderVars
    <2>2. cmd[t].op = "create" /\ Publish(t) /\ created' = created \cup {cmd[t].scope}
      BY <1>1, <2>1, FinishEffect
    <2>3. n = cmd[t].scope /\ m \in created /\ m \in Rows
      BY <1>1, <2>2 DEF OInv, TypeOK
    <2>4. m \in StoredBeside(n)
      <3>1. CASE {m, n} \subseteq Items /\ SectionOf[m] = SectionOf[n]
        BY <2>3, <3>1, Beside
      <3>2. CASE {m, n} \subseteq Processes /\ ItemOf[m] = ItemOf[n]
        BY <2>3, <3>2, Beside
      <3> QED
        BY <3>1, <3>2 DEF SameParent
    <2>5. position[m] < position'[n] /\ position'[m] = position[m]
      BY <1>1, <2>1, <2>2, <2>3, <2>4, CreatePublished
    <2> QED
      BY <2>5
  <1> HIDE DEF Last
  <1>2. OInv /\ [Next]_vars => [Last]_vars
    BY <1>1
  <1> USE DEF Last
  <1> QED
    BY <1>2, Invariance, PTL DEF Spec, AppendedLast

\* No row is created, moved, archived or reopened below a closed parent.
THEOREM ParentsAreOpen == Spec => WrittenUnderOpenParent
  <1> DEFINE Under == \A n \in Rows :
       \/ n \in created' \ created
       \/ position'[n] # position[n]
       \/ status'[n] # status[n]
       => ParentOpen(n)
  <1>1. ASSUME OInv, [Next]_vars PROVE Under
    <2> SUFFICES ASSUME NEW n \in Rows,
                        \/ n \in created' \ created
                        \/ position'[n] # position[n]
                        \/ status'[n] # status[n]
                 PROVE  ParentOpen(n)
      OBVIOUS
    <2>1. PICK t \in Txns : Finish(t)
      BY <1>1, OnlyFinishChanges DEF orderVars
    <2>2. /\ Named(t) /\ Ready(t) /\ NodeOpen(cmd[t].scope) /\ cmd[t] \in Command /\ TypeOK
      BY <1>1, <2>1, FinishEffect DEF Named, OInv
    <2>3. n = cmd[t].scope \/ (cmd[t].op = "reorder" /\ n \in DOMAIN draft[t].place)
      <3>1. CASE n \in created' \ created
        BY <1>1, <2>1, <3>1, FinishEffect
      <3>2. CASE status'[n] # status[n]
        BY <1>1, <2>1, <2>2, <3>2, FinishEffect, Levels DEF TypeOK
      <3>3. CASE position'[n] # position[n]
        <4>1. n \in DOMAIN draft[t].place
          BY <1>1, <2>1, <2>2, <3>3, FinishEffect, PublishTypes
        <4> QED
          BY <1>1, <2>2, <4>1, RowsOfDraft
      <3> QED
        BY <3>1, <3>2, <3>3
    <2>4. CASE n = cmd[t].scope
      BY <2>2, <2>4, ScopeAssumption DEF NodeOpen, ItemOpen, ProcessOpen, ParentOpen, Rows
    <2>5. CASE cmd[t].op = "reorder" /\ n \in DOMAIN draft[t].place
      <3>1. n \in Processes /\ ItemOf[n] = cmd[t].scope /\ cmd[t].scope \in Items
        BY <1>1, <2>2, <2>5, RowsOfDraft
      <3> QED
        BY <2>2, <3>1, ScopeAssumption DEF NodeOpen, ParentOpen
    <2> QED
      BY <2>3, <2>4, <2>5
  <1> HIDE DEF Under
  <1>2. OInv /\ [Next]_vars => [Under]_vars
    BY <1>1
  <1> USE DEF Under
  <1> QED
    BY <1>2, Invariance, PTL DEF Spec, WrittenUnderOpenParent

\* An archived row stays, stays archived and keeps its position.
THEOREM ArchivingIsFinal == Spec => ArchivedIsFinal
  <1> DEFINE Final == \A n \in created \cap Rows :
        status[n] = "archived" =>
          n \in created' /\ status'[n] = "archived" /\ position'[n] = position[n]
  <1>1. ASSUME OInv, [Next]_vars PROVE Final
    <2> SUFFICES ASSUME NEW n \in created \cap Rows, status[n] = "archived"
                 PROVE  n \in created' /\ status'[n] = "archived" /\ position'[n] = position[n]
      OBVIOUS
    <2>1. CASE UNCHANGED <<status, orderVars>>
      BY <2>1 DEF orderVars
    <2>2. ASSUME NEW t \in Txns, Finish(t)
          PROVE  n \in created' /\ status'[n] = "archived" /\ position'[n] = position[n]
      <3>1. Named(t) /\ Ready(t) /\ NodeOpen(cmd[t].scope) /\ cmd[t] \in Command /\ TypeOK
        BY <1>1, <2>2, FinishEffect DEF Named, OInv
      <3>2. n # cmd[t].scope
        <4>1. CASE n \in Items
          BY <3>1, <4>1 DEF NodeOpen, ItemOpen
        <4>2. CASE n \in Processes
          BY <3>1, <4>2 DEF NodeOpen, ProcessOpen
        <4> QED
          BY <4>1, <4>2 DEF Rows
      <3>3. n \notin DOMAIN draft[t].place
        BY <1>1, <3>1, <3>2, RowsOfDraft DEF ActiveIn
      <3> QED
        BY <1>1, <2>2, <3>1, <3>2, <3>3, FinishEffect, PublishTypes, Levels DEF TypeOK
    <2> QED
      BY <1>1, <2>1, <2>2, OnlyFinishChanges
  <1> HIDE DEF Final
  <1>2. OInv /\ [Next]_vars => [Final]_vars
    BY <1>1
  <1> USE DEF Final
  <1> QED
    BY <1>2, Invariance, PTL DEF Spec, ArchivedIsFinal

-----------------------------------------------------------------------------
(* The order a client sees. *)

\* Which processes are listed, and in which order, before and after a step.
LEMMA ListIs ==
  /\ \A i \in Items : List!Listed(i) = ActiveIn(i)
  /\ Before \subseteq Processes \X Processes /\ Before' \subseteq Processes \X Processes
  /\ \A p, q \in Processes : <<p, q>> \in Before <=>
       /\ p \in created /\ q \in created /\ status[p] = "active" /\ status[q] = "active"
       /\ ItemOf[p] = ItemOf[q] /\ position[p] < position[q]
  /\ \A p, q \in Processes : <<p, q>> \in Before' <=>
       /\ p \in created' /\ q \in created' /\ status'[p] = "active" /\ status'[q] = "active"
       /\ ItemOf[p] = ItemOf[q] /\ position'[p] < position'[q]
  <1>1. \A i \in Items : List!Listed(i) = ActiveIn(i)
    BY DEF List!Listed, Stage, ActiveIn, ProcessesOf
  <1>2. Before \subseteq Processes \X Processes /\ Before' \subseteq Processes \X Processes
    BY DEF Before, Visible
  <1>3. \A p, q \in Processes : <<p, q>> \in Before <=>
          /\ p \in created /\ q \in created /\ status[p] = "active" /\ status[q] = "active"
          /\ ItemOf[p] = ItemOf[q] /\ position[p] < position[q]
    BY DEF Before, Visible
  <1>4. \A p, q \in Processes : <<p, q>> \in Before' <=>
          /\ p \in created' /\ q \in created' /\ status'[p] = "active" /\ status'[q] = "active"
          /\ ItemOf[p] = ItemOf[q] /\ position'[p] < position'[q]
    BY DEF Before, Visible
  <1> QED
    BY <1>1, <1>2, <1>3, <1>4

\* Sets of pairs of processes are equal when they have the same pairs.
LEMMA SamePairs ==
  ASSUME NEW A, NEW B, A \subseteq Processes \X Processes, B \subseteq Processes \X Processes,
         \A p, q \in Processes : <<p, q>> \in A <=> <<p, q>> \in B
  PROVE  A = B
  <1>1. \A r \in Processes \X Processes : r \in A <=> r \in B
    OBVIOUS
  <1> QED
    BY <1>1

\* A step that leaves the processes alone is none of the list.
LEMMA SameProcesses ==
  ASSUME \A p \in Processes : /\ p \in created' <=> p \in created
                              /\ status'[p] = status[p] /\ position'[p] = position[p]
  PROVE  UNCHANGED <<Stage, Before>>
  <1>1. Stage' = Stage
    BY DEF Stage
  <1>2. Before' = Before
    BY ListIs, SamePairs
  <1> QED
    BY <1>1, <1>2

\* A creation appends.
LEMMA CreateAppends ==
  ASSUME OInv, NEW t \in Txns, Finish(t), cmd[t].op = "create", Publish(t),
         created' = created \cup {cmd[t].scope}
  PROVE  UNCHANGED <<Stage, Before>> \/ \E p \in Processes : List!Append(p)
  <1>1. PICK n \in Rows : n = cmd[t].scope
    BY CreatePublished
  <1>2. /\ n \notin created /\ created' = created \cup {n} /\ status' = status
        /\ \A m \in StoredBeside(n) : position[m] < position'[n]
        /\ \A m \in Rows \ {n} : position'[m] = position[m]
    BY <1>1, CreatePublished
  <1>3. CASE n \notin Processes
    <2>1. \A p \in Processes : /\ p \in created' <=> p \in created
                               /\ status'[p] = status[p] /\ position'[p] = position[p]
      BY <1>2, <1>3, Levels
    <2> QED
      BY <2>1, SameProcesses
  <1>4. CASE n \in Processes
    <2>1. status[n] = "active" /\ \A m \in Rows : position[m] \in Nat
      BY <1>2, <1>4, Levels, OrderAssumption DEF OInv, RowsOK, TypeOK, Positions
    <2>2. Stage[n] = "new" /\ Stage' = [Stage EXCEPT ![n] = "listed"]
      BY <1>2, <1>4, <2>1 DEF Stage
    <2> DEFINE L == ActiveIn(ItemOf[n])
    <2>3. L = {p \in created \cap Processes : ItemOf[p] = ItemOf[n] /\ status[p] = "active"}
      BY <1>4, Levels, Beside
    <2>4. \A p \in created \cap Processes : ItemOf[p] = ItemOf[n] =>
            position[p] < position'[n] /\ position'[p] = position[p] /\ ~(position'[n] < position[p])
      <3> SUFFICES ASSUME NEW p \in created \cap Processes, ItemOf[p] = ItemOf[n]
                   PROVE  /\ position[p] < position'[n] /\ position'[p] = position[p]
                          /\ ~(position'[n] < position[p])
        OBVIOUS
      <3>1. p \in StoredBeside(n) /\ p \in Rows /\ p # n
        BY <1>2, <1>4, Beside, Levels
      <3>2. position'[n] \in Nat
        <4>1. position' \in [Rows -> Positions]
          BY PublishTypes DEF OInv
        <4> QED
          BY <4>1, OrderAssumption DEF Positions
      <3> QED
        BY <1>2, <2>1, <3>1, <3>2
    <2>5. ~(position'[n] < position'[n])
      <3>1. position'[n] \in Nat
        BY PublishTypes, OrderAssumption DEF OInv, Positions
      <3> QED
        BY <3>1
    <2> HIDE DEF L
    <2>6. \A p, q \in Processes : <<p, q>> \in Before' <=> <<p, q>> \in Before \cup (L \X {n})
      <3> SUFFICES ASSUME NEW p \in Processes, NEW q \in Processes
                   PROVE  <<p, q>> \in Before' <=> <<p, q>> \in Before \/ (p \in L /\ q = n)
        OBVIOUS
      <3>1. p # n => position'[p] = position[p]
        BY <1>2, Levels
      <3>2. q # n => position'[q] = position[q]
        BY <1>2, Levels
      <3> QED
        BY <1>2, <2>1, <2>3, <2>4, <2>5, <3>1, <3>2, ListIs
    <2>7. Before \cup (L \X {n}) \subseteq Processes \X Processes
      BY <1>4, <2>3, ListIs
    <2>8. Before' = Before \cup (L \X {n})
      BY <2>6, <2>7, ListIs, SamePairs
    <2>9. List!Listed(ItemOf[n]) = L
      BY <1>4, ListIs, Levels DEF L
    <2>10. List!Append(n)
      BY <2>2, <2>8, <2>9 DEF List!Append
    <2> QED
      BY <1>4, <2>10
  <1> QED
    BY <1>3, <1>4

\* Archiving removes.
LEMMA ArchiveRemoves ==
  ASSUME OInv, NEW t \in Txns, ArchiveProcess(t)
  PROVE  \E p \in Processes : List!Remove(p)
  <1>1. /\ Named(t) /\ NodeOpen(cmd[t].scope) /\ cmd[t] \in Command /\ TypeOK
        /\ cmd[t].op = "archive"
    BY FinishEffect DEF Finish, Named, OInv, ArchiveProcess, Writes
  <1>2. PICK n \in Processes : n = cmd[t].scope
    BY <1>1, CommandFields
  <1>3. n \in created /\ status[n] = "active"
    BY <1>1, <1>2 DEF Named, NodeOpen, ProcessOpen
  <1>4. /\ status' = [status EXCEPT ![n] = "archived"] /\ created' = created
        /\ position' = position
    BY <1>2 DEF ArchiveProcess, orderVars
  <1>5. \A p \in Processes : status'[p] = IF p = n THEN "archived" ELSE status[p]
    BY <1>1, <1>4, Levels DEF TypeOK
  <1>6. Stage[n] = "listed" /\ Stage' = [Stage EXCEPT ![n] = "removed"]
    <2>1. \A p \in Processes : status'[p] = "active" <=> p # n /\ status[p] = "active"
      BY <1>3, <1>5
    <2>2. \A p \in Processes : Stage'[p] = IF p = n THEN "removed" ELSE Stage[p]
      BY <1>3, <1>4, <2>1 DEF Stage
    <2>3. Stage[n] = "listed"
      BY <1>3 DEF Stage
    <2>4. Stage' = [p \in Processes |-> Stage'[p]] /\ Stage = [p \in Processes |-> Stage[p]]
      BY DEF Stage
    <2> QED
      BY <2>2, <2>3, <2>4
  <1> DEFINE B == {r \in Before : n \notin {r[1], r[2]}}
  <1>7. B \subseteq Processes \X Processes
    BY ListIs
  <1>8. \A p, q \in Processes : <<p, q>> \in B <=> <<p, q>> \in Before /\ p # n /\ q # n
    OBVIOUS
  <1> HIDE DEF B
  <1>9. \A p, q \in Processes : <<p, q>> \in Before' <=> <<p, q>> \in B
    <2> SUFFICES ASSUME NEW p \in Processes, NEW q \in Processes
                 PROVE  <<p, q>> \in Before' <=> <<p, q>> \in B
      OBVIOUS
    <2>1. \A r \in Processes : status'[r] = "active" <=> r # n /\ status[r] = "active"
      BY <1>3, <1>5
    <2>2. <<p, q>> \in Before' <=>
            /\ p \in created /\ q \in created /\ status'[p] = "active" /\ status'[q] = "active"
            /\ ItemOf[p] = ItemOf[q] /\ position[p] < position[q]
      BY <1>4, ListIs
    <2>3. <<p, q>> \in Before <=>
            /\ p \in created /\ q \in created /\ status[p] = "active" /\ status[q] = "active"
            /\ ItemOf[p] = ItemOf[q] /\ position[p] < position[q]
      BY ListIs
    <2> QED
      BY <1>8, <2>1, <2>2, <2>3
  <1>10. Before' = B
    BY <1>7, <1>9, ListIs, SamePairs
  <1>11. List!Remove(n)
    BY <1>6, <1>10 DEF List!Remove, B
  <1> QED
    BY <1>11

\* A reorder permutes one list.
LEMMA ReorderPermutes ==
  ASSUME OInv, OInv', NEW t \in Txns, Finish(t), cmd[t].op = "reorder", Publish(t)
  PROVE  UNCHANGED <<Stage, Before>> \/ \E i \in Items : List!Permute(i)
  <1>1. PICK i \in Items : i = cmd[t].scope
    BY ReorderPublished
  <1>2. /\ \A n \in Rows \ ActiveIn(i) : position'[n] = position[n]
        /\ created' = created /\ status' = status
    BY <1>1, ReorderPublished
  <1>3. Stage' = Stage
    BY <1>2 DEF Stage
  <1> DEFINE L == ActiveIn(i)
  <1>4. L = {p \in created \cap Processes : ItemOf[p] = i /\ status[p] = "active"}
        /\ List!Listed(i) = L
    BY ListIs, Beside
  <1>5. \A p \in Processes : position'[p] \in Nat
    BY Levels, OrderAssumption DEF OInv, TypeOK, Positions
  <1> HIDE DEF L
  <1>6. \A p \in Processes \ L : position'[p] = position[p]
    BY <1>2, Levels DEF L
  <1>7. Before' \subseteq Before \cup (L \X L)
    <2>1. ASSUME NEW p \in Processes, NEW q \in Processes, <<p, q>> \in Before'
          PROVE  <<p, q>> \in Before \/ (p \in L /\ q \in L)
      <3>1. /\ p \in created' /\ q \in created' /\ ItemOf[p] = ItemOf[q]
            /\ status'[p] = "active" /\ status'[q] = "active" /\ position'[p] < position'[q]
        BY <2>1, ListIs
      <3>2. p \in L <=> q \in L
        BY <1>2, <1>4, <3>1
      <3>3. p \notin L => position'[p] = position[p] /\ position'[q] = position[q]
        BY <1>6, <3>2
      <3> QED
        BY <1>2, <3>1, <3>2, <3>3, ListIs
    <2> QED
      BY <2>1, ListIs
  <1>8. {r \in Before : ItemOf[r[1]] # i} \subseteq Before'
    <2>1. \A p, q \in Processes : <<p, q>> \in Before /\ ItemOf[p] # i => <<p, q>> \in Before'
      BY <1>2, <1>4, <1>6, ListIs
    <2> QED
      BY <2>1, ListIs
  <1>9. List!Orders(Before', L)
    <2>0. \A p \in L : p \in Processes /\ p \in created' /\ status'[p] = "active" /\ ItemOf[p] = i
      BY <1>2, <1>4
    <2>1. ASSUME NEW p \in L, NEW q \in L
          PROVE  <<p, q>> \in Before' <=> position'[p] < position'[q]
      <3>1. /\ p \in Processes /\ p \in created' /\ status'[p] = "active" /\ ItemOf[p] = i
            /\ q \in Processes /\ q \in created' /\ status'[q] = "active" /\ ItemOf[q] = i
        BY <2>0
      <3> QED
        BY <3>1, ListIs
    <2>2. \A p, q \in L : position'[p] = position'[q] => p = q
      BY <2>0 DEF OInv, RowsOK, DistinctPositions
    <2>3. \A p \in L : position'[p] \in Nat
      BY <1>5, <2>0
    <2> QED
      BY <2>1, <2>2, <2>3 DEF List!Orders
  <1>10. Before' # Before => List!Permute(i)
    BY <1>3, <1>4, <1>7, <1>8, <1>9 DEF List!Permute
  <1> QED
    BY <1>3, <1>10

\* Every step is a step of the list, or none.
LEMMA StepsOfList ==
  ASSUME OInv, OInv', [Next]_vars
  PROVE  [List!Next]_<<Stage, Before>>
  <1>1. CASE UNCHANGED <<status, orderVars>>
    BY <1>1, SameProcesses DEF orderVars
  <1>2. ASSUME NEW t \in Txns, Finish(t) PROVE [List!Next]_<<Stage, Before>>
    <2>1. CASE ArchiveProcess(t)
      BY <2>1, ArchiveRemoves DEF List!Next
    <2>2. CASE Publish(t) /\ cmd[t].op = "create" /\ created' = created \cup {cmd[t].scope}
      BY <1>2, <2>2, CreateAppends DEF List!Next
    <2>3. CASE Publish(t) /\ cmd[t].op = "reorder"
      BY <1>2, <2>3, ReorderPermutes DEF List!Next
    <2>4. ASSUME ~ArchiveProcess(t), position' = position \/ cmd[t].op = "update",
                 created' = created
          PROVE  UNCHANGED <<Stage, Before>>
      <3>1. cmd[t].op # "archive"
        BY <1>2, <2>4 DEF Finish, CommitReorder, InsertRow, UpdateItem, StartAttempt, EndAttempt,
           SetSection, Writes
      <3>2. \A p \in Processes : status'[p] = status[p]
        BY <1>2, <3>1, ProcessStatus
      <3>3. \A p \in Processes : position'[p] = position[p]
        <4>1. CASE position' = position
          BY <4>1
        <4>2. CASE Publish(t) /\ cmd[t].op = "update"
          <5>1. \A p \in Processes : p \notin DOMAIN draft[t].place
            <6>1. Named(t) /\ Ready(t) /\ cmd[t] \in Command
              BY <1>2, FinishEffect DEF Named
            <6>2. cmd[t].scope \in Items
              BY <4>2, <6>1, CommandFields
            <6> QED
              BY <4>2, <6>1, <6>2, RowsOfDraft, ScopeAssumption
          <5> QED
            BY <4>2, <5>1, PublishTypes, Levels DEF OInv
        <4> QED
          BY <1>2, <2>4, <4>1, <4>2, FinishEffect
      <3> QED
        BY <2>4, <3>2, <3>3, SameProcesses
    <2>5. \/ position' = position \/ cmd[t].op = "update"
          \/ Publish(t) /\ cmd[t].op \in {"create", "reorder"}
      BY <1>2, FinishEffect
    <2>6. ASSUME Publish(t), cmd[t].op = "create", position' # position
          PROVE  created' = created \cup {cmd[t].scope}
      BY <1>2, <2>6 DEF Finish, CommitReorder, InsertRow, UpdateItem, ArchiveProcess,
         StartAttempt, EndAttempt, SetSection, Writes, orderVars
    <2> QED
      BY <1>2, <2>1, <2>2, <2>3, <2>4, <2>5, <2>6, FinishEffect
  <1> QED
    BY <1>1, <1>2, OnlyFinishChanges

\* Positions implement an ordered list per work item: a creation appends,
\* archiving removes one entry, a reorder permutes one list, nothing else shows.
THEOREM PositionsImplementList == Spec => ImplementsOrderedList
  <1>1. Init => List!Init
    BY DEF Init, ScopeInit, List!Init, Stage, Before, Visible
  <1>2. OInv /\ OInv' /\ [Next]_vars => [List!Next]_<<Stage, Before>>
    BY StepsOfList
  <1> QED
    BY <1>1, <1>2, Invariance, PTL DEF Spec, ImplementsOrderedList, List!Spec

-----------------------------------------------------------------------------
(* The refinement of Admission. *)

\* Every step treats members and transactions in one of the ways of WorkScope.
LEMMA StepsAreScopeSteps ==
  ASSUME OInv, [Next]_vars
  PROVE  ScopeStep
  <1>1. ASSUME NEW t \in Txns, NEW c \in Commands, Begin(t, c) PROVE ScopeStep
    <2>1. c.scope \in Nodes
      BY CommandFields, OrderAssumption
    <2> QED
      BY <1>1, <2>1 DEF Begin, ScopeStep
  <1>2. ASSUME NEW t \in Txns, Lock(t) PROVE ScopeStep
    BY <1>2 DEF Lock, ScopeStep
  <1>3. ASSUME NEW t \in Txns, Check(t) PROVE ScopeStep
    <2>1. cmd[t].op # "assign"
      <3>1. cmd[t] \in Command \cup {NoCommand}
        BY DEF OInv, TypeOK
      <3> QED
        BY <3>1, CommandFields DEF NoCommand, Ops
    <2> QED
      BY <1>3, <2>1 DEF Check, ScopeStep
  <1>4. ASSUME NEW t \in Txns, Write(t) \/ Abort(t) PROVE ScopeStep
    <2>1. UNCHANGED <<members, phase, cmd>> \/ (UNCHANGED members /\ EndTx(t))
      BY <1>4 DEF Write, Writes, MoveRow, CommitReorder, InsertRow, UpdateItem, ArchiveProcess,
         StartAttempt, EndAttempt, SetSection, Abort
    <2> QED
      BY <2>1 DEF ScopeStep
  <1>5. CASE Environment
    BY <1>5 DEF Environment, ScopeStep
  <1>6. CASE UNCHANGED vars
    BY <1>6 DEF vars, scopeVars, ScopeStep
  <1> QED
    BY <1>1, <1>2, <1>3, <1>4, <1>5, <1>6 DEF Next

\* The transactions on items and processes implement Admission: a write is alone in its
\* project and authorized by active members from its admission to its commit.
THEOREM WritesAreAdmitted == Spec => ImplementsAdmission
  <1>1. Init => Admissions!Init /\ Sheltered
    BY ScopeInitRefines, ScopeInitShelters DEF Init
  <1>2. OInv /\ Sheltered /\ [Next]_vars => Sheltered'
    BY StepsAreScopeSteps, StepsShelter
  <1>3. OInv /\ Sheltered /\ [Next]_vars => [Admissions!Next]_<<members, Place, Relied>>
    BY StepsAreScopeSteps, ScopeStepsRefine
  <1> QED
    BY <1>1, <1>2, <1>3, Invariance, PTL
    DEF Spec, ImplementsAdmission, Admissions!Spec, Place, Relied

=============================================================================
