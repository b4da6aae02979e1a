-------------------------- MODULE SectionTreeProofs --------------------------
(***************************************************************************)
(* Proofs, for every number of sections, items, users and transactions,    *)
(* that the sections of a project stay a forest whatever moves race, that  *)
(* a section is hung only under an active one, and that archiving never    *)
(* takes a subtree in which an attempt is active.                          *)
(*                                                                         *)
(* A transaction that passed its checks makes claims about the tree of the *)
(* project it has locked (Fits).  The writes of other lock holders are in  *)
(* other projects, and no parent link leads out of a project, so they do   *)
(* not change the subtrees the claims are about.                           *)
(***************************************************************************)
EXTENDS SectionTree, ScopeProofs, TLAPS

-----------------------------------------------------------------------------
(* The inductive invariant. *)

\* What a checked transaction will write fits into the tree as it is now.
Fits(t) ==
  LET s == cmd[t].scope
      p == plan[t].parent
  IN /\ p # None => /\ p \in created /\ ProjectOf[p] = ProjectOf[s]
                    /\ cmd[t].op = "create" \/ p # parent[s] => status[p] = "active"
     /\ (cmd[t].op = "update" => cmd[t].arg.position = Keep /\ p # parent[s]) =>
          \A r \in Siblings(p, ProjectOf[s]) : position[r] < plan[t].position
     /\ cmd[t].op = "update" =>
          /\ p \in {None, parent[s]} \/ p \notin Descendants(s)
          /\ plan[t].status = "archived" /\ status[s] # "archived" => WorkUnder(s) = {}
     /\ cmd[t].op = "create" => plan[t].status = "active"

\* The section a command names exists, or is new and its own.
Named(t) ==
  LET c == cmd[t] IN
  /\ c \in Command
  /\ c.op = "create" =>
       /\ c.scope \notin created
       /\ \A u \in Txns \ {t} :
            phase[u] # "idle" /\ cmd[u].op = "create" => cmd[u].scope # c.scope
  /\ c.op = "update" => c.scope \in created
  /\ c.scope \in Items => SectionOf[c.scope] \in created

Pending(t) ==
  /\ phase[t] # "idle" => Named(t)
  /\ phase[t] = "checked" /\ cmd[t].scope \in Sections => Fits(t)

TreeOK ==
  /\ ParentsInProject /\ Forest
  /\ \A i \in working : SectionOf[i] \in created

TInv ==
  /\ TypeOK /\ TreeOK
  /\ ProjectLockIsExclusive
  /\ \A t \in Txns : Pending(t)

-----------------------------------------------------------------------------
(* Commands and rows. *)

\* The fields of a command, by its operation.
LEMMA CommandFields ==
  ASSUME NEW c \in Command
  PROVE  /\ c.op \in {"create", "update", "start", "end"}
         /\ c.op = "create" => c.scope \in Sections /\ c.row \in Sections \cup {None}
         /\ c.op = "update" => /\ c.scope \in Sections /\ c.row \in Sections \cup {None, Keep}
                               /\ c.arg \in SectionPatch
         /\ c.op \in {"start", "end"} => c.scope \in Items
         /\ c.scope \in Nodes
         /\ c.scope \in Sections <=> c.op \in {"create", "update"}
  BY ScopeAssumption DEF Command, Nodes

\* An idle transaction's placeholder is no command of a client.
LEMMA NoCommandIsNone == NoCommand \notin Command
  BY DEF Command, NoCommand

\* The project of a section command is its section's.
LEMMA ScopeProject ==
  /\ \A s \in Sections : ProjectAbove(s) = ProjectOf[s]
  /\ \A i \in Items : SectionOf[i] \in Sections /\ ProjectAbove(i) = ProjectOf[SectionOf[i]]
  BY ScopeAssumption DEF SectionAbove, ProjectAbove

\* The rows a command may write have their type.
LEMMA PlanTypes ==
  ASSUME TypeOK, NEW c \in Command
  PROVE  Plans(c) \subseteq PlanRow
  <1>0. NoPlan \in PlanRow
    BY TreeAssumption DEF NoPlan, PlanRow
  <1>1. CASE c.scope \in Items
    BY <1>0, <1>1 DEF Plans
  <1>2. CASE c.op = "create"
    <2>1. NewParent(c) \in Sections \cup {None} /\ NewStatus(c) = "active"
      BY <1>2, CommandFields, TreeAssumption DEF NewParent, NewStatus
    <2>2. NewPositions(c) \subseteq 0..MaxPosition
      BY <1>2 DEF NewPositions, Positions
    <2> QED
      BY <1>0, <2>1, <2>2 DEF Plans, PlanRow
  <1>3. CASE c.op = "update"
    <2>0. c.scope \in Sections /\ c.row \in Sections \cup {None, Keep} /\ c.arg \in SectionPatch
      BY <1>3, CommandFields
    <2>1. NewParent(c) \in Sections \cup {None}
      BY <2>0 DEF NewParent, TypeOK
    <2>2. NewPositions(c) \subseteq 0..MaxPosition
      BY <1>3, <2>0 DEF NewPositions, Positions, SectionPatch, TypeOK
    <2>3. NewStatus(c) \in {"active", "archived"}
      BY <1>3, <2>0 DEF NewStatus, SectionPatch, TypeOK, Statuses, Nodes
    <2> QED
      BY <1>0, <2>1, <2>2, <2>3 DEF Plans, PlanRow
  <1> QED
    BY <1>1, <1>2, <1>3, CommandFields

-----------------------------------------------------------------------------
(* Subtrees. *)

\* Whatever is not below s is outside some set that holds s and is closed
\* under children.
LEMMA Separation ==
  ASSUME NEW s, NEW r \in Sections, r \notin Descendants(s)
  PROVE  \E S \in SUBSET Sections :
           /\ s \in S /\ r \notin S
           /\ \A x \in S : ChildrenOf(x) \subseteq S
  BY DEF Descendants

\* A section is in its own subtree.
LEMMA SelfIsDescendant ==
  ASSUME NEW s \in Sections
  PROVE  s \in Descendants(s)
  BY DEF Descendants

\* A subtree lies in one project.
LEMMA SubtreeInProject ==
  ASSUME TypeOK, ParentsInProject, NEW s \in Sections, NEW r \in Descendants(s)
  PROVE  r \in Sections /\ ProjectOf[r] = ProjectOf[s]
  <1> DEFINE S == {x \in Sections : ProjectOf[x] = ProjectOf[s]}
  <1>1. \A x \in S : ChildrenOf(x) \subseteq S
    BY ScopeAssumption DEF ChildrenOf, ParentsInProject, TypeOK, Nodes
  <1>2. s \in S /\ S \in SUBSET Sections
    OBVIOUS
  <1> HIDE DEF S
  <1>3. r \in S
    BY <1>1, <1>2 DEF Descendants
  <1> QED
    BY <1>3 DEF S

-----------------------------------------------------------------------------
(* Type correctness. *)

\* The initial state is typed.
LEMMA InitTypes == Init => TypeOK
  BY ScopeAssumption, TreeAssumption
  DEF Init, ScopeInit, TypeOK, Statuses, Nodes, NoPlan, PlanRow

\* The end of a transaction, by commit, rollback or abort, keeps the types.
LEMMA EndTxTypes ==
  ASSUME TypeOK, NEW t \in Txns, EndTx(t)
  PROVE  /\ phase' \in [Txns -> {"idle", "begun", "locked", "checked"}]
         /\ cmd' \in [Txns -> Command \cup {NoCommand}]
  BY DEF TypeOK, EndTx

\* Every step keeps the types.
LEMMA StepTypes ==
  ASSUME TypeOK, \A t \in Txns : Pending(t), [Next]_vars
  PROVE  TypeOK'
  <1> DEFINE PhaseTypes == /\ phase' \in [Txns -> {"idle", "begun", "locked", "checked"}]
                           /\ cmd' \in [Txns -> Command \cup {NoCommand}]
  <1>0. NoPlan \in PlanRow
    BY TreeAssumption DEF NoPlan, PlanRow
  <1>1. ASSUME NEW t \in Txns, NEW c \in Commands, Begin(t, c) PROVE TypeOK'
    BY <1>1, TreeAssumption DEF Begin, BeginTx, TypeOK, treeVars
  <1>2. ASSUME NEW t \in Txns, Lock(t) PROVE TypeOK'
    <2>1. PhaseTypes
      BY <1>2, EndTxTypes DEF Lock, LockParent, MoveTo, TypeOK
    <2> QED
      BY <1>2, <2>1 DEF Lock, LockParent, TypeOK, treeVars
  <1>3. ASSUME NEW t \in Txns, Check(t) PROVE TypeOK'
    <2>1. PhaseTypes
      BY <1>3, EndTxTypes DEF Check, MoveTo, TypeOK
    <2>2. cmd[t] \in Command
      BY <1>3 DEF Check, Pending, Named
    <2>3. plan' = plan \/ \E row \in Plans(cmd[t]) : plan' = [plan EXCEPT ![t] = row]
      BY <1>3 DEF Check
    <2>4. plan' \in [Txns -> PlanRow]
      BY <2>2, <2>3, PlanTypes DEF TypeOK
    <2> QED
      BY <1>3, <2>1, <2>4 DEF Check, TypeOK, treeVars
  <1>4. ASSUME NEW t \in Txns, Abort(t) PROVE TypeOK'
    BY <1>0, <1>4, EndTxTypes DEF Abort, TypeOK, treeVars
  <1>5. ASSUME NEW t \in Txns, Write(t) PROVE TypeOK'
    <2>1. \E op \in {"create", "update", "start", "end"} : Writes(t, op)
      BY <1>5 DEF Write, CreateSection, UpdateSection, StartAttempt, EndAttempt
    <2>2. /\ PhaseTypes /\ members' = members /\ plan' \in [Txns -> PlanRow]
          /\ cmd[t] \in Command
      BY <1>0, <2>1, EndTxTypes DEF Writes, TypeOK, Pending, Named
    <2>3. ASSUME StoreRow(t), cmd[t].scope \in Sections
          PROVE  /\ parent' \in [Sections -> Sections \cup {None}]
                 /\ position' \in [Sections -> 0..MaxPosition]
                 /\ status' \in [Nodes -> Statuses]
                 /\ \A s \in Sections : status'[s] # "completed"
      <3>1. plan[t] \in PlanRow
        BY DEF TypeOK
      <3> QED
        BY <2>3, <3>1 DEF StoreRow, TypeOK, PlanRow, Nodes, Statuses
    <2>4. CASE CreateSection(t)
      <3>1. cmd[t].scope \in Sections
        BY <2>2, <2>4, CommandFields DEF CreateSection, Writes
      <3> QED
        BY <2>2, <2>3, <2>4, <3>1 DEF CreateSection, TypeOK
    <2>5. CASE UpdateSection(t)
      <3>1. cmd[t].scope \in Sections
        BY <2>2, <2>5, CommandFields DEF UpdateSection, Writes
      <3> QED
        BY <2>2, <2>3, <2>5, <3>1 DEF UpdateSection, TypeOK
    <2>6. CASE StartAttempt(t)
      <3>1. cmd[t].scope \in Items
        BY <2>2, <2>6, CommandFields DEF StartAttempt, Writes
      <3> QED
        BY <2>2, <2>6, <3>1 DEF StartAttempt, TypeOK
    <2>7. CASE EndAttempt(t)
      BY <2>2, <2>7 DEF EndAttempt, TypeOK
    <2> QED
      BY <1>5, <2>4, <2>5, <2>6, <2>7 DEF Write
  <1>6. CASE Environment
    BY <1>6 DEF Environment, Revoke, Restore, TypeOK, treeVars
  <1>7. CASE UNCHANGED vars
    BY <1>7 DEF vars, scopeVars, treeVars, TypeOK
  <1> QED
    BY <1>1, <1>2, <1>3, <1>4, <1>5, <1>6, <1>7 DEF Next


-----------------------------------------------------------------------------
(* What a step leaves alone. *)

\* The step changes nothing in project p.
KeepsProject(p) ==
  /\ \A x \in Sections : ProjectOf[x] = p =>
       /\ parent'[x] = parent[x] /\ position'[x] = position[x] /\ status'[x] = status[x]
       /\ x \in created' <=> x \in created
  /\ \A i \in Items : ProjectOf[SectionOf[i]] = p => (i \in working' <=> i \in working)

\* Then no subtree of p grows, and no work appears in one.
LEMMA SubtreeKept ==
  ASSUME TypeOK, TypeOK', ParentsInProject, ParentsInProject',
         NEW s \in Sections, KeepsProject(ProjectOf[s])
  PROVE  Descendants(s)' \subseteq Descendants(s) /\ WorkUnder(s)' \subseteq WorkUnder(s)
  <1>1. ASSUME NEW r \in Descendants(s)', r \notin Descendants(s) PROVE FALSE
    <2>1. r \in Sections
      BY <1>1 DEF Descendants
    <2>2. PICK S \in SUBSET Sections : /\ s \in S /\ r \notin S
                                       /\ \A x \in S : ChildrenOf(x) \subseteq S
      BY <1>1, <2>1, Separation
    <2> DEFINE R == {x \in S : ProjectOf[x] = ProjectOf[s]}
    <2>3. \A x \in R : ChildrenOf(x)' \subseteq R
      <3> SUFFICES ASSUME NEW x \in R, NEW y \in ChildrenOf(x)' PROVE y \in R
        OBVIOUS
      <3>1. y \in Sections /\ y \in created' /\ parent'[y] = x /\ x \in Sections /\ x # None
        BY ScopeAssumption DEF ChildrenOf, TypeOK, Nodes
      <3>2. ProjectOf[y] = ProjectOf[s]
        BY <3>1 DEF ParentsInProject
      <3>3. y \in ChildrenOf(x)
        BY <3>1, <3>2 DEF KeepsProject, ChildrenOf
      <3> QED
        BY <2>2, <3>2, <3>3
    <2>4. s \in R /\ R \in SUBSET Sections
      BY <2>2
    <2> HIDE DEF R
    <2>5. r \in R
      BY <1>1, <2>3, <2>4 DEF Descendants
    <2> QED
      BY <2>2, <2>5 DEF R
  <1>2. ASSUME NEW i \in WorkUnder(s)' PROVE i \in WorkUnder(s)
    <2>1. i \in working' /\ i \in Items /\ SectionOf[i] \in Descendants(s)'
      BY DEF WorkUnder, TypeOK
    <2>2. ProjectOf[SectionOf[i]] = ProjectOf[s]
      BY <1>1, <2>1, SubtreeInProject
    <2> QED
      BY <1>1, <2>1, <2>2 DEF KeepsProject, WorkUnder
  <1> QED
    BY <1>1, <1>2

\* A claim on a project survives a step that keeps the project.
LEMMA FitsKept ==
  ASSUME TypeOK, TypeOK', ParentsInProject, ParentsInProject', NEW t \in Txns,
         cmd[t].scope \in Sections, Fits(t), Named(t),
         cmd'[t] = cmd[t], plan'[t] = plan[t],
         KeepsProject(ProjectOf[cmd[t].scope])
  PROVE  Fits(t)'
  <1> DEFINE s == cmd[t].scope
             p == plan[t].parent
  <1>1. s \in Sections /\ Descendants(s)' \subseteq Descendants(s)
                       /\ WorkUnder(s)' \subseteq WorkUnder(s)
    BY SubtreeKept
  <1>2. parent'[s] = parent[s] /\ status'[s] = status[s]
    BY DEF KeepsProject
  <1>3. p # None => p \in Sections /\ p \in created' /\ status'[p] = status[p]
    BY DEF Fits, KeepsProject, TypeOK
  <1>4. s' = s /\ p' = p /\ plan'[t] = plan[t] /\ cmd'[t] = cmd[t]
    OBVIOUS
  <1>5. p # None => /\ p \in created' /\ ProjectOf[p] = ProjectOf[s]
                    /\ cmd[t].op = "create" \/ p # parent'[s] => status'[p] = "active"
    BY <1>2, <1>3 DEF Fits
  <1>6. cmd[t].op = "update" =>
          /\ p \in {None, parent'[s]} \/ p \notin Descendants(s)'
          /\ plan[t].status = "archived" /\ status'[s] # "archived" => WorkUnder(s)' = {}
    BY <1>1, <1>2 DEF Fits
  <1>7. \A r \in Siblings(p, ProjectOf[s])' :
          r \in Siblings(p, ProjectOf[s]) /\ position'[r] = position[r]
    BY DEF Siblings, KeepsProject, TypeOK
  <1>8. (cmd[t].op = "update" => cmd[t].arg.position = Keep /\ p # parent'[s]) =>
          \A r \in Siblings(p, ProjectOf[s])' : position'[r] < plan[t].position
    BY <1>2, <1>7 DEF Fits
  <1>9. cmd[t].op = "create" => plan[t].status = "active"
    BY DEF Fits
  <1> QED
    BY <1>4, <1>5, <1>6, <1>8, <1>9 DEF Fits

\* Steps that write no row change no subtree, no work and no siblings.
LEMMA SameTree ==
  ASSUME UNCHANGED treeVars
  PROVE  /\ \A s : Descendants(s)' = Descendants(s) /\ WorkUnder(s)' = WorkUnder(s)
         /\ \A q, j : Siblings(q, j)' = Siblings(q, j)
         /\ created' = created /\ parent' = parent /\ position' = position
  BY DEF Descendants, WorkUnder, ChildrenOf, Siblings, treeVars

\* They leave what fits fitting.
LEMMA FitsUnchanged ==
  ASSUME UNCHANGED <<treeVars, status>>, NEW t \in Txns,
         cmd'[t] = cmd[t], plan'[t] = plan[t]
  PROVE  Fits(t)' <=> Fits(t)
  BY SameTree DEF Fits

\* What a write does, of whatever operation.
LEMMA WriteEffect ==
  ASSUME TInv, NEW t \in Txns, Write(t)
  PROVE  /\ phase[t] = "checked" /\ cmd[t] \in Command /\ EndTx(t)
         /\ plan' = [plan EXCEPT ![t] = NoPlan] /\ members' = members
         /\ \/ cmd[t].op = "create" /\ StoreRow(t) /\ UNCHANGED working
               /\ created' = created \cup {cmd[t].scope} /\ cmd[t].scope \in Sections
            \/ cmd[t].op = "update" /\ StoreRow(t) /\ UNCHANGED <<created, working>>
               /\ cmd[t].scope \in Sections
            \/ /\ cmd[t].op \in {"start", "end"} /\ cmd[t].scope \in Items
               /\ UNCHANGED <<status, created, parent, position>>
               /\ working' \in {working \cup {cmd[t].scope}, working \ {cmd[t].scope}}
  <1>1. \E op \in {"create", "update", "start", "end"} : Writes(t, op)
    BY DEF Write, CreateSection, UpdateSection, StartAttempt, EndAttempt
  <1>2. cmd[t] \in Command
    BY <1>1 DEF Writes, TInv, Pending, Named
  <1>3. CASE CreateSection(t)
    BY <1>2, <1>3, CommandFields DEF CreateSection, Writes
  <1>4. CASE UpdateSection(t)
    BY <1>2, <1>4, CommandFields DEF UpdateSection, Writes
  <1>5. CASE StartAttempt(t)
    BY <1>2, <1>5, CommandFields DEF StartAttempt, Writes
  <1>6. CASE EndAttempt(t)
    BY <1>2, <1>6, CommandFields DEF EndAttempt, Writes
  <1> QED
    BY <1>3, <1>4, <1>5, <1>6 DEF Write

\* A write keeps every project but the writer's.
LEMMA WriteIsElsewhere ==
  ASSUME TInv, NEW t \in Txns, Write(t), NEW p \in Projects, p # ProjectAbove(cmd[t].scope)
  PROVE  KeepsProject(p)
  <1>1. CASE cmd[t].op \in {"create", "update"}
    <2>1. /\ StoreRow(t) /\ UNCHANGED working /\ cmd[t].scope \in Sections
          /\ created' \in {created, created \cup {cmd[t].scope}}
      BY <1>1, WriteEffect
    <2>2. ProjectOf[cmd[t].scope] # p
      BY <2>1, ScopeProject
    <2> QED
      BY <2>1, <2>2 DEF StoreRow, KeepsProject, TInv, TypeOK, Nodes
  <1>2. CASE cmd[t].op \in {"start", "end"}
    <2>1. /\ UNCHANGED <<status, created, parent, position>> /\ cmd[t].scope \in Items
          /\ working' \in {working \cup {cmd[t].scope}, working \ {cmd[t].scope}}
      BY <1>2, WriteEffect
    <2>2. ProjectOf[SectionOf[cmd[t].scope]] # p
      BY <2>1, ScopeProject
    <2> QED
      BY <2>1, <2>2 DEF KeepsProject
  <1> QED
    BY <1>1, <1>2, WriteEffect

-----------------------------------------------------------------------------
(* The tree. *)

\* The heart of the matter: hanging s under a section outside its subtree
\* closes no cycle.  Otherwise take what lies on the cycle and is not below s:
\* it would have been closed under parents before.
LEMMA MoveKeepsForest ==
  ASSUME TypeOK, ParentsInProject, Forest, NEW s \in created, NEW p \in Sections \cup {None},
         p \in {None, parent[s]} \/ p \notin Descendants(s),
         parent' = [parent EXCEPT ![s] = p], created' = created
  PROVE  Forest'
  <1> SUFFICES ASSUME NEW T \in SUBSET created, T # {}, \A x \in T : parent'[x] \in T
               PROVE  FALSE
    BY DEF Forest
  <1>0. /\ \A x \in T : x \in Sections
        /\ None \notin Sections /\ s \in Sections
        /\ parent'[s] = p /\ \A x \in T : x # s => parent'[x] = parent[x]
    BY ScopeAssumption DEF TypeOK, Nodes
  <1>1. CASE s \notin T \/ p = parent[s]
    <2>1. \A x \in T : parent[x] \in T
      BY <1>0, <1>1
    <2> QED
      BY <2>1 DEF Forest
  <1>2. CASE s \in T /\ p # parent[s]
    <2>1. p \in T /\ p \notin Descendants(s)
      BY <1>0, <1>2
    <2>2. PICK S \in SUBSET Sections : /\ s \in S /\ p \notin S
                                       /\ \A x \in S : ChildrenOf(x) \subseteq S
      BY <1>0, <2>1, Separation
    <2>3. ASSUME NEW x \in T \ S PROVE parent[x] \in T \ S
      BY <1>0, <2>2, <2>3 DEF ChildrenOf
    <2>4. T \ S \in SUBSET created /\ T \ S # {}
      BY <2>1, <2>2
    <2> QED
      BY <2>3, <2>4 DEF Forest
  <1> QED
    BY <1>1, <1>2

\* A new section is nobody's parent yet.
LEMMA CreateKeepsForest ==
  ASSUME TypeOK, ParentsInProject, Forest, NEW s \in Sections \ created,
         NEW p \in created \cup {None},
         parent' = [parent EXCEPT ![s] = p], created' = created \cup {s}
  PROVE  Forest'
  <1> SUFFICES ASSUME NEW T \in SUBSET created', T # {}, \A x \in T : parent'[x] \in T
               PROVE  FALSE
    BY DEF Forest
  <1>0. /\ None \notin Sections /\ created \subseteq Sections
        /\ parent'[s] = p /\ \A x \in T : x # s => x \in created /\ parent'[x] = parent[x]
    BY ScopeAssumption DEF TypeOK, Nodes
  <1>1. \A x \in T : x # s => parent[x] \in T \ {s}
    BY <1>0 DEF ParentsInProject
  <1>2. T \ {s} # {}
    <2>1. CASE s \in T
      BY <1>0, <2>1
    <2> QED
      BY <2>1
  <1>3. T \ {s} \in SUBSET created
    BY <1>0
  <1> QED
    BY <1>1, <1>2, <1>3 DEF Forest

\* Every write keeps a forest within the projects.
LEMMA WriteKeepsTree ==
  ASSUME TInv, NEW t \in Txns, Write(t)
  PROVE  TreeOK'
  <1> DEFINE s == cmd[t].scope
             p == plan[t].parent
  <1> USE DEF TInv, TreeOK
  <1>0. Named(t) /\ plan[t] \in PlanRow /\ (s \in Sections => Fits(t))
    BY WriteEffect DEF Pending, TypeOK
  <1>1. CASE cmd[t].op = "create"
    <2>1. /\ s \in Sections \ created /\ created' = created \cup {s} /\ working' = working
          /\ parent' = [parent EXCEPT ![s] = p]
      BY <1>0, <1>1, WriteEffect DEF StoreRow, Named
    <2>2. p \in created \cup {None} /\ (p # None => ProjectOf[p] = ProjectOf[s])
      BY <1>0, <2>1 DEF Fits
    <2>3. Forest'
      BY <2>1, <2>2, CreateKeepsForest
    <2>4. ParentsInProject'
      BY <2>1, <2>2 DEF ParentsInProject, TypeOK
    <2> QED
      BY <2>1, <2>3, <2>4
  <1>2. CASE cmd[t].op = "update"
    <2>1. /\ s \in created /\ s \in Sections /\ created' = created /\ working' = working
          /\ parent' = [parent EXCEPT ![s] = p]
      BY <1>0, <1>2, WriteEffect DEF StoreRow, Named
    <2>2. /\ p \in {None, parent[s]} \/ p \notin Descendants(s)
          /\ p # None => p \in created /\ ProjectOf[p] = ProjectOf[s]
          /\ p \in Sections \cup {None}
      BY <1>0, <1>2, <2>1 DEF Fits, PlanRow
    <2>3. Forest'
      BY <2>1, <2>2, MoveKeepsForest
    <2>4. ParentsInProject'
      BY <2>1, <2>2 DEF ParentsInProject, TypeOK
    <2> QED
      BY <2>1, <2>3, <2>4
  <1>3. CASE cmd[t].op \in {"start", "end"}
    <2>1. /\ UNCHANGED <<created, parent>> /\ s \in Items
          /\ working' \subseteq working \cup {s}
      BY <1>3, WriteEffect
    <2>2. SectionOf[s] \in created
      BY <1>0, <2>1 DEF Named
    <2> QED
      BY <2>1, <2>2 DEF ParentsInProject, Forest
  <1> QED
    BY <1>1, <1>2, <1>3, WriteEffect


-----------------------------------------------------------------------------
(* The claims. *)

\* Rows only appear; a transaction that stays keeps its command's section, if
\* no other transaction creates the section it is about to create.
LEMMA NamedKept ==
  ASSUME NEW u \in Txns, Named(u), cmd'[u] = cmd[u], created \subseteq created',
         cmd[u].op = "create" => cmd[u].scope \notin created',
         \A v \in Txns \ {u} : phase'[v] # "idle" /\ cmd'[v].op = "create" =>
           \/ phase[v] # "idle" /\ cmd[v].op = "create" /\ cmd'[v].scope = cmd[v].scope
           \/ cmd[u].op = "create" => cmd'[v].scope # cmd[u].scope
  PROVE  Named(u)'
  BY DEF Named

\* A step that leaves tables, command and plan alone keeps what is pending.
LEMMA PendingKept ==
  ASSUME TInv, NEW u \in Txns, UNCHANGED <<treeVars, status>>,
         phase'[u] # "idle" =>
           /\ phase[u] # "idle" /\ cmd'[u] = cmd[u] /\ plan'[u] = plan[u]
           /\ phase'[u] = "checked" => phase[u] = "checked",
         \A v \in Txns \ {u} : phase'[v] # "idle" =>
           \/ phase[v] # "idle" /\ cmd'[v] = cmd[v]
           \/ phase[u] # "idle" /\ cmd[u].op = "create" => cmd'[v].scope # cmd[u].scope
  PROVE  Pending(u)'
  <1> SUFFICES ASSUME phase'[u] # "idle" PROVE Pending(u)'
    BY DEF Pending
  <1>1. Named(u) /\ cmd'[u] = cmd[u] /\ plan'[u] = plan[u] /\ created' = created
    BY DEF TInv, Pending, treeVars
  <1>2. Named(u)'
    BY <1>1, NamedKept DEF Named
  <1>3. phase'[u] = "checked" /\ cmd[u].scope \in Sections => Fits(u)'
    BY <1>1, FitsUnchanged DEF TInv, Pending
  <1> QED
    BY <1>1, <1>2, <1>3 DEF Pending

\* A transaction that begins names an existing section, or a new one of its own.
LEMMA BeginPending ==
  ASSUME TInv, NEW t \in Txns, NEW c \in Commands, Begin(t, c)
  PROVE  \A u \in Txns : Pending(u)'
  <1>1. /\ Resolved(c) /\ UNCHANGED <<treeVars, status, plan>> /\ c \in Command
        /\ phase' = [phase EXCEPT ![t] = "begun"] /\ cmd' = [cmd EXCEPT ![t] = c]
        /\ phase[t] = "idle"
    BY TreeAssumption DEF Begin, BeginTx
  <1>2. phase'[t] = "begun" /\ cmd'[t] = c
        /\ \A u \in Txns \ {t} : phase'[u] = phase[u] /\ cmd'[u] = cmd[u]
    BY <1>1 DEF TInv, TypeOK
  <1>3. Pending(t)'
    <2>1. c.op = "create" => \A u \in Txns \ {t} :
            phase[u] # "idle" /\ cmd[u].op = "create" => cmd[u].scope # c.scope
      BY <1>1 DEF Resolved
    <2>2. /\ c.op = "create" => c.scope \notin created
          /\ c.op = "update" => c.scope \in created
          /\ c.scope \in Items => SectionOf[c.scope] \in created
      BY <1>1, CommandFields, ScopeAssumption DEF Resolved
    <2> QED
      BY <1>1, <1>2, <2>1, <2>2 DEF Pending, Named, treeVars
  <1>4. ASSUME NEW u \in Txns \ {t} PROVE Pending(u)'
    <2>1. phase[u] # "idle" /\ cmd[u].op = "create" /\ c.op = "create" => c.scope # cmd[u].scope
      BY <1>1 DEF Resolved
    <2>2. phase[u] # "idle" => Named(u)
      BY DEF TInv, Pending
    <2>3. phase[u] # "idle" => Named(u)'
      BY <1>1, <1>2, <2>1, <2>2, NamedKept DEF treeVars, Named
    <2>4. phase'[u] = phase[u] /\ cmd'[u] = cmd[u] /\ plan'[u] = plan[u]
      BY <1>1, <1>2
    <2>5. Fits(u) => Fits(u)'
      BY <1>1, <2>4, FitsUnchanged
    <2> QED
      BY <2>3, <2>4, <2>5 DEF TInv, Pending
  <1> QED
    BY <1>3, <1>4

\* The transactions that stay after a step of the others keep their claims.
LEMMA QuietPending ==
  ASSUME TInv, NEW t \in Txns, Lock(t) \/ Abort(t)
  PROVE  \A u \in Txns : Pending(u)'
  <1> SUFFICES ASSUME NEW u \in Txns PROVE Pending(u)'
    OBVIOUS
  <1>1. UNCHANGED <<treeVars, status>>
    BY DEF Lock, LockParent, Abort
  <1>2. EndTx(t) \/ (MoveTo(t, "locked") /\ phase[t] = "begun")
    BY DEF Lock, LockParent, Abort
  <1>3. \A v \in Txns : phase'[v] # "idle" =>
          /\ phase[v] # "idle" /\ cmd'[v] = cmd[v]
          /\ phase'[v] = "checked" => phase[v] = "checked"
    BY <1>2 DEF EndTx, MoveTo, TInv, TypeOK
  <1>4. phase'[u] # "idle" => plan'[u] = plan[u]
    BY DEF Lock, Abort, EndTx, TInv, TypeOK
  <1> QED
    BY <1>1, <1>3, <1>4, PendingKept

\* The checks establish the claim.
LEMMA CheckPending ==
  ASSUME TInv, NEW t \in Txns, Check(t)
  PROVE  \A u \in Txns : Pending(u)'
  <1> DEFINE c == cmd[t]
             s == cmd[t].scope
  <1>0. phase[t] = "locked" /\ UNCHANGED <<treeVars, status>> /\ Named(t)
    BY DEF Check, TInv, Pending
  <1>1. \A v \in Txns : phase'[v] # "idle" => phase[v] # "idle" /\ cmd'[v] = cmd[v]
    BY <1>0 DEF Check, EndTx, MoveTo, TInv, TypeOK
  <1>2. ASSUME NEW u \in Txns, u # t PROVE Pending(u)'
    <2>1. phase'[u] = phase[u] /\ plan'[u] = plan[u]
      BY <1>2 DEF Check, EndTx, MoveTo, TInv, TypeOK
    <2> QED
      BY <1>0, <1>1, <2>1, PendingKept
  <1>3. CASE phase'[t] = "idle"
    BY <1>0, <1>1, <1>2, <1>3, PendingKept
  <1>4. CASE phase'[t] # "idle"
    <2>1. Allowed(c) /\ plan'[t] \in Plans(c) /\ cmd'[t] = c
      BY <1>1, <1>4 DEF Check, EndTx, TInv, TypeOK
    <2>2. Named(t)'
      BY <1>0, <1>1, <2>1, NamedKept DEF Named, treeVars
    <2>3. ASSUME s \in Sections PROVE Fits(t)'
      <3> DEFINE p == NewParent(c)
      <3>1. /\ plan'[t].parent = p /\ plan'[t].status = NewStatus(c)
            /\ plan'[t].position \in NewPositions(c)
            /\ c \in Command /\ s \notin Items
        BY <1>0, <2>1, <2>3, ScopeAssumption DEF Plans, Named
      <3>2. CASE c.op = "create"
        <4>1. p = c.row /\ c.row \in Sections \cup {None} /\ (p \in Sections => ParentUsable(c))
          BY <2>1, <3>1, <3>2, CommandFields, TreeAssumption DEF NewParent, Allowed
        <4> HIDE DEF p
        <4>2. p # None => p \in created /\ ProjectOf[p] = ProjectOf[s] /\ status[p] = "active"
          BY <4>1 DEF ParentUsable
        <4>3. \A r \in Siblings(p, ProjectOf[s]) : position[r] < plan'[t].position
          BY <3>1, <3>2, <4>1 DEF NewPositions, IsNextPosition, p
        <4> QED
          BY <1>0, <2>1, <3>1, <3>2, <4>2, <4>3, SameTree DEF Fits, NewStatus, treeVars
      <3>3. CASE c.op = "update"
        <4>0. s \in created /\ c.row \in Sections \cup {None, Keep} /\ c.arg \in SectionPatch
          BY <1>0, <3>1, <3>3, CommandFields DEF Named
        <4>1. c.row \in Sections => ParentUsable(c) /\ AcyclicMove(c)
          BY <2>1, <3>3 DEF Allowed
        <4>2. \/ p = parent[s]
              \/ p = None
              \/ p \in Sections /\ p = c.row
          BY <4>0 DEF NewParent
        <4>3. NewStatus(c) = "archived" /\ status[s] # "archived" => WorkUnder(s) = {}
          BY <2>1, <3>3 DEF NewStatus, Allowed
        <4> HIDE DEF p
        <4>4. /\ p # None => /\ p \in created /\ ProjectOf[p] = ProjectOf[s]
                             /\ p # parent[s] => status[p] = "active"
              /\ p \in {None, parent[s]} \/ p \notin Descendants(s)
          BY <4>0, <4>1, <4>2 DEF ParentUsable, AcyclicMove, TInv, TreeOK, ParentsInProject
        <4>5. Descendants(s)' = Descendants(s) /\ WorkUnder(s)' = WorkUnder(s)
          BY <1>0, <2>1, SameTree
        <4>6. c.arg.position = Keep /\ p # parent[s] =>
                \A r \in Siblings(p, ProjectOf[s]) : position[r] < plan'[t].position
          BY <3>1, <3>3 DEF NewPositions, IsNextPosition, p
        <4>7. \A q, j : Siblings(q, j)' = Siblings(q, j)
          BY <1>0, SameTree
        <4> QED
          BY <1>0, <2>1, <3>1, <3>3, <4>3, <4>4, <4>5, <4>6, <4>7 DEF Fits, treeVars
      <3> QED
        BY <2>3, <3>1, <3>2, <3>3, CommandFields
    <2>4. Pending(t)'
      BY <2>1, <2>2, <2>3 DEF Pending
    <2> QED
      BY <1>2, <2>4
  <1> QED
    BY <1>2, <1>3, <1>4

\* A write leaves what the others are about to write fitting.
LEMMA WritePending ==
  ASSUME TInv, TypeOK', TreeOK', NEW t \in Txns, Write(t)
  PROVE  \A u \in Txns : Pending(u)'
  <1>0. /\ phase[t] = "checked" /\ EndTx(t) /\ plan' = [plan EXCEPT ![t] = NoPlan]
        /\ phase'[t] = "idle"
        /\ \A v \in Txns \ {t} : phase'[v] = phase[v] /\ cmd'[v] = cmd[v] /\ plan'[v] = plan[v]
    BY WriteEffect DEF EndTx, TInv, TypeOK
  <1>1. ASSUME NEW u \in Txns \ {t}, phase[u] # "idle" PROVE Named(u)'
    <2>1. Named(u) /\ Named(t)
      BY <1>0, <1>1 DEF TInv, Pending
    <2>2. \/ created' = created
          \/ created' = created \cup {cmd[t].scope} /\ cmd[t].op = "create"
      BY WriteEffect
    <2>3. cmd[u].op = "create" => cmd[u].scope \notin created'
      BY <1>0, <1>1, <2>1, <2>2 DEF Named
    <2> QED
      BY <1>0, <1>1, <2>1, <2>2, <2>3, NamedKept
  <1>2. ASSUME NEW u \in Txns \ {t}, phase[u] = "checked", cmd[u].scope \in Sections
        PROVE  Fits(u)'
    <2>1. Holds(t) /\ Holds(u) /\ Fits(u) /\ Named(u)
      BY <1>0, <1>2 DEF Holds, TInv, Pending
    <2>2. ProjectAbove(cmd[u].scope) # ProjectAbove(cmd[t].scope)
      BY <2>1 DEF TInv, ProjectLockIsExclusive
    <2>3. KeepsProject(ProjectOf[cmd[u].scope])
      <3>1. ProjectAbove(cmd[u].scope) = ProjectOf[cmd[u].scope]
            /\ ProjectOf[cmd[u].scope] \in Projects
        BY <1>2, ScopeProject, ScopeAssumption
      <3> QED
        BY <2>2, <3>1, WriteIsElsewhere
    <2> QED
      BY <1>0, <1>2, <2>1, <2>3, FitsKept DEF TInv, TreeOK
  <1> QED
    BY <1>0, <1>1, <1>2 DEF Pending

-----------------------------------------------------------------------------
(* The theorems. *)

\* Only a transaction that finds the lock free takes it.
LEMMA ExclusionKept ==
  ASSUME TInv, [Next]_vars
  PROVE  ProjectLockIsExclusive'
  <1>1. ASSUME NEW t \in Txns, Lock(t) PROVE ProjectLockIsExclusive'
    <2>1. \A u \in Txns : u # t => phase'[u] = phase[u] /\ cmd'[u] = cmd[u]
      BY <1>1 DEF Lock, LockParent, MoveTo, EndTx, TInv, TypeOK
    <2>2. ~Holds(t)' \/ cmd'[t] = cmd[t]
      BY <1>1 DEF Lock, LockParent, MoveTo, EndTx, TInv, TypeOK, Holds
    <2>3. \A u \in Txns : Holds(u) => ProjectAbove(cmd[u].scope) # ProjectAbove(cmd[t].scope)
      BY <1>1 DEF Lock, LockParent, LockFree
    <2> QED
      BY <2>1, <2>2, <2>3 DEF ProjectLockIsExclusive, TInv, Holds
  <1>2. ASSUME \A u \in Txns : Holds(u)' => Holds(u) /\ cmd'[u] = cmd[u]
        PROVE  ProjectLockIsExclusive'
    BY <1>2 DEF ProjectLockIsExclusive, TInv
  <1>3. ASSUME NEW t \in Txns, NEW c \in Commands, Begin(t, c)
        PROVE  \A u \in Txns : Holds(u)' => Holds(u) /\ cmd'[u] = cmd[u]
    BY <1>3 DEF Begin, BeginTx, TInv, TypeOK, Holds
  <1>4. ASSUME NEW t \in Txns, Check(t) \/ Abort(t) \/ Write(t)
        PROVE  \A u \in Txns : Holds(u)' => Holds(u) /\ cmd'[u] = cmd[u]
    BY <1>4, WriteEffect DEF Check, Abort, MoveTo, EndTx, TInv, TypeOK, Holds
  <1>5. ASSUME Environment \/ UNCHANGED vars
        PROVE  \A u \in Txns : Holds(u)' => Holds(u) /\ cmd'[u] = cmd[u]
    BY <1>5 DEF Environment, Revoke, Restore, vars, scopeVars, Holds
  <1> QED
    BY <1>1, <1>2, <1>3, <1>4, <1>5 DEF Next

\* The invariant holds initially.
LEMMA InitTInv == Init => TInv
  BY InitTypes DEF Init, ScopeInit, TInv, TreeOK, ParentsInProject, Forest,
     ProjectLockIsExclusive, Pending, Holds

\* Every step preserves the invariant.
LEMMA NextTInv == TInv /\ [Next]_vars => TInv'
  <1> SUFFICES ASSUME TInv, [Next]_vars PROVE TInv'
    OBVIOUS
  <1>1. TypeOK' /\ ProjectLockIsExclusive'
    BY StepTypes, ExclusionKept DEF TInv
  <1>2. ASSUME UNCHANGED <<treeVars, status>> PROVE TreeOK'
    BY <1>2 DEF TInv, TreeOK, ParentsInProject, Forest, treeVars
  <1>3. ASSUME NEW t \in Txns, NEW c \in Commands, Begin(t, c)
        PROVE  TreeOK' /\ \A u \in Txns : Pending(u)'
    BY <1>2, <1>3, BeginPending DEF Begin
  <1>4. ASSUME NEW t \in Txns, Lock(t) \/ Abort(t)
        PROVE  TreeOK' /\ \A u \in Txns : Pending(u)'
    BY <1>2, <1>4, QuietPending DEF Lock, LockParent, Abort
  <1>5. ASSUME NEW t \in Txns, Check(t)
        PROVE  TreeOK' /\ \A u \in Txns : Pending(u)'
    BY <1>2, <1>5, CheckPending DEF Check
  <1>6. ASSUME NEW t \in Txns, Write(t)
        PROVE  TreeOK' /\ \A u \in Txns : Pending(u)'
    BY <1>1, <1>6, WriteKeepsTree, WritePending
  <1>7. ASSUME Environment \/ UNCHANGED vars
        PROVE  TreeOK' /\ \A u \in Txns : Pending(u)'
    <2>1. UNCHANGED <<treeVars, plan, status, phase, cmd>>
      BY <1>7 DEF Environment, Revoke, Restore, vars, scopeVars
    <2> QED
      BY <1>2, <2>1, PendingKept
  <1> QED
    BY <1>1, <1>3, <1>4, <1>5, <1>6, <1>7 DEF TInv, Next

\* The inductive invariant: tree, lock and what every transaction will write.
THEOREM Invariance == Spec => []TInv
  BY InitTInv, NextTInv, PTL DEF Spec

\* Every variable keeps its type; what a transaction plans to write does too.
THEOREM TypeCorrectness == Spec => []TypeOK
  BY Invariance, PTL DEF TInv

\* However creations and moves race, the sections never form a cycle.
THEOREM SectionsFormAForest == Spec => []Forest
  BY Invariance, PTL DEF TInv, TreeOK

\* No parent link ever leads to another project.
THEOREM ParentsStayInProject == Spec => []ParentsInProject
  BY Invariance, PTL DEF TInv, TreeOK

\* The tree changes only by the write of a transaction.
LEMMA OnlyWritesChange ==
  ASSUME [Next]_vars
  PROVE  UNCHANGED <<treeVars, status>> \/ \E t \in Txns : Write(t)
  BY DEF Next, Environment, Revoke, Restore, Begin, Lock, LockParent, Check, Abort,
     vars, scopeVars, treeVars

\* A section is hung only under a section that is active at the commit.
THEOREM ParentsAreActive == Spec => HungUnderActive
  <1> DEFINE Hung == \A s \in created' :
        parent'[s] # None /\ (s \notin created \/ parent'[s] # parent[s])
          => parent'[s] \in created /\ status'[parent'[s]] = "active"
  <1>1. ASSUME TInv, TInv', [Next]_vars PROVE Hung
    <2> SUFFICES ASSUME NEW s \in created', parent'[s] # None,
                        s \notin created \/ parent'[s] # parent[s]
                 PROVE  parent'[s] \in created /\ status'[parent'[s]] = "active"
      OBVIOUS
    <2>0. s \in Sections /\ created \subseteq Sections
      BY <1>1 DEF TInv, TypeOK
    <2>1. PICK t \in Txns : Write(t)
      BY <1>1, OnlyWritesChange DEF treeVars
    <2>2. /\ cmd[t].op \in {"create", "update"} /\ StoreRow(t) /\ cmd[t].scope \in Sections
          /\ created' = created \/ created' = created \cup {cmd[t].scope}
      BY <1>1, <2>1, WriteEffect
    <2> DEFINE p == plan[t].parent
    <2>3. s = cmd[t].scope /\ parent'[s] = p
      BY <1>1, <2>0, <2>2 DEF StoreRow, TInv, TypeOK
    <2>4. Named(t) /\ Fits(t)
      BY <1>1, <2>1, <2>2, WriteEffect DEF TInv, Pending
    <2>5. p # s
      <3>1. CASE cmd[t].op = "create"
        BY <2>3, <2>4, <3>1 DEF Named, Fits
      <3>2. CASE cmd[t].op = "update"
        <4>1. s \in created
          BY <2>3, <2>4, <3>2 DEF Named
        <4> QED
          BY <2>0, <2>3, <2>4, <3>2, <4>1, SelfIsDescendant DEF Fits
      <3> QED
        BY <2>2, <3>1, <3>2
    <2>6. p \in created /\ status[p] = "active"
      <3>1. CASE cmd[t].op = "create"
        BY <2>3, <2>4, <3>1 DEF Fits
      <3>2. CASE cmd[t].op = "update"
        BY <2>3, <2>4, <3>2 DEF Fits, Named
      <3> QED
        BY <2>2, <3>1, <3>2
    <2> QED
      BY <1>1, <2>0, <2>2, <2>3, <2>5, <2>6 DEF StoreRow, TInv, TypeOK, Nodes
  <1> HIDE DEF Hung
  <1>2. TInv /\ TInv' /\ [Next]_vars => [Hung]_vars
    BY <1>1
  <1> USE DEF Hung
  <1> QED
    BY <1>2, Invariance, PTL DEF Spec, HungUnderActive


\* A section appended among its new siblings comes after all of them: nobody
\* is appended between the read of the maximum and the write.
THEOREM AppendsGoLast == Spec => AppendedLast
  <1> DEFINE Last == \A s \in created' :
       /\ s \notin created \/ parent'[s] # parent[s]
       /\ \E t \in Txns : Commits(t, s) /\ (cmd[t].op = "update" => cmd[t].arg.position = Keep)
       => \A r \in Siblings(parent[s], ProjectOf[s])' \ {s} : position'[r] < position'[s]
  <1>1. ASSUME TInv, TInv', [Next]_vars PROVE Last
    <2> SUFFICES ASSUME NEW s \in created', s \notin created \/ parent'[s] # parent[s],
                        NEW u \in Txns, Commits(u, s),
                        cmd[u].op = "update" => cmd[u].arg.position = Keep,
                        NEW r \in Siblings(parent[s], ProjectOf[s])' \ {s}
                 PROVE  position'[r] < position'[s]
      OBVIOUS
    <2>0. s \in Sections /\ created \subseteq Sections
      BY <1>1 DEF TInv, TypeOK
    <2>1. PICK t \in Txns : Write(t)
      BY <1>1, OnlyWritesChange DEF treeVars
    <2>2. /\ cmd[t].op \in {"create", "update"} /\ StoreRow(t) /\ cmd[t].scope \in Sections
          /\ created' = created \/ created' = created \cup {cmd[t].scope}
          /\ phase[t] = "checked"
      BY <1>1, <2>1, WriteEffect
    <2> DEFINE p == plan[t].parent
    <2>3. s = cmd[t].scope
      BY <1>1, <2>0, <2>2 DEF StoreRow, TInv, TypeOK
    <2>4. u = t
      BY <1>1, <2>1, WriteEffect DEF Commits, EndTx, TInv, TypeOK
    <2>5. parent'[s] = p /\ position'[s] = plan[t].position
      BY <1>1, <2>0, <2>2, <2>3 DEF StoreRow, TInv, TypeOK
    <2>6. Named(t) /\ Fits(t)
      BY <1>1, <2>2 DEF TInv, Pending
    <2>7. cmd[t].op = "update" => cmd[t].arg.position = Keep /\ p # parent[s]
      BY <2>3, <2>4, <2>5, <2>6 DEF Named
    <2>8. r \in Siblings(p, ProjectOf[s]) /\ position'[r] = position[r]
      <3>1. r \in created' /\ parent'[r] = p /\ ProjectOf[r] = ProjectOf[s] /\ r # s
        BY <2>5 DEF Siblings
      <3> QED
        BY <1>1, <2>2, <2>3, <3>1 DEF Siblings, StoreRow, TInv, TypeOK
    <2> QED
      BY <2>3, <2>5, <2>6, <2>7, <2>8 DEF Fits
  <1> HIDE DEF Last
  <1>2. TInv /\ TInv' /\ [Next]_vars => [Last]_vars
    BY <1>1
  <1> USE DEF Last
  <1> QED
    BY <1>2, Invariance, PTL DEF Spec, AppendedLast

\* Looking upwards agrees with looking downwards: what is not below s has
\* no s above it, also once s itself has moved.
LEMMA NotBelowNotAbove ==
  ASSUME TypeOK, ParentsInProject, NEW s \in Sections, NEW r \in created,
         r \notin Descendants(s), created' = created,
         \A x \in created \ {s} : parent'[x] = parent[x]
  PROVE  ~AtOrAbove(s, r)'
  <1>1. PICK S \in SUBSET Sections : /\ s \in S /\ r \notin S
                                     /\ \A x \in S : ChildrenOf(x) \subseteq S
    BY Separation DEF TypeOK
  <1>2. ASSUME NEW x \in created \ S, parent'[x] # None
        PROVE  parent'[x] \in created \ S
    BY <1>1, <1>2 DEF ParentsInProject, ChildrenOf
  <1>3. r \in created \ S /\ s \notin created \ S
    BY <1>1
  <1> DEFINE C == created \ S
  <1>4. C \in SUBSET created' /\ \A x \in C : parent'[x] # None => parent'[x] \in C
    BY <1>2
  <1> HIDE DEF C
  <1> QED
    BY <1>3, <1>4 DEF C, AtOrAbove

\* Archiving a section finds no active attempt in its whole subtree.
THEOREM ArchivingSparesTheSubtree == Spec => ArchivedWithoutWork
  <1> DEFINE Spares == \A s \in created :
       status[s] # "archived" /\ status'[s] = "archived" =>
         \A i \in working' : ~AtOrAbove(s, SectionOf[i])'
  <1>1. ASSUME TInv, TInv', [Next]_vars PROVE Spares
    <2> SUFFICES ASSUME NEW s \in created, status[s] # "archived", status'[s] = "archived",
                        NEW i \in working'
                 PROVE  ~AtOrAbove(s, SectionOf[i])'
      OBVIOUS
    <2>0. s \in Sections /\ s \in Nodes
      BY <1>1 DEF TInv, TypeOK, Nodes
    <2>1. PICK t \in Txns : Write(t)
      BY <1>1, OnlyWritesChange DEF treeVars
    <2>2. /\ StoreRow(t) /\ cmd[t].scope = s /\ plan[t].status = "archived"
          /\ working' = working /\ phase[t] = "checked"
          /\ cmd[t].op = "create" \/ (cmd[t].op = "update" /\ created' = created)
      BY <1>1, <2>0, <2>1, WriteEffect DEF StoreRow, TInv, TypeOK
    <2>3. Named(t) /\ Fits(t)
      BY <1>1, <2>0, <2>2 DEF TInv, Pending
    <2>4. cmd[t].op = "update" /\ created' = created /\ WorkUnder(s) = {}
      BY <2>2, <2>3 DEF Named, Fits
    <2>5. SectionOf[i] \in created /\ SectionOf[i] \notin Descendants(s)
      BY <1>1, <2>2, <2>4 DEF WorkUnder, TInv, TreeOK
    <2>6. \A x \in created \ {s} : parent'[x] = parent[x]
      BY <1>1, <2>2 DEF StoreRow, TInv, TypeOK
    <2> QED
      BY <1>1, <2>0, <2>4, <2>5, <2>6, NotBelowNotAbove DEF TInv, TreeOK
  <1> HIDE DEF Spares
  <1>2. TInv /\ TInv' /\ [Next]_vars => [Spares]_vars
    BY <1>1
  <1> USE DEF Spares
  <1> QED
    BY <1>2, Invariance, PTL DEF Spec, ArchivedWithoutWork

-----------------------------------------------------------------------------
(* The refinement of Admission. *)

\* Every step treats members and transactions in one of the ways of WorkScope.
LEMMA StepsAreScopeSteps ==
  ASSUME TInv, [Next]_vars
  PROVE  ScopeStep
  <1>1. ASSUME NEW t \in Txns, NEW c \in Commands, Begin(t, c) PROVE ScopeStep
    <2>1. c.scope \in Nodes
      BY CommandFields, TreeAssumption
    <2> QED
      BY <1>1, <2>1 DEF Begin, ScopeStep
  <1>2. ASSUME NEW t \in Txns, Lock(t) PROVE ScopeStep
    BY <1>2 DEF Lock, ScopeStep
  <1>3. ASSUME NEW t \in Txns, Check(t) PROVE ScopeStep
    <2>1. cmd[t].op # "assign"
      <3>1. cmd[t] \in Command \cup {NoCommand}
        BY DEF TInv, TypeOK
      <3> QED
        BY <3>1, CommandFields DEF NoCommand
    <2> QED
      BY <1>3, <2>1 DEF Check, ScopeStep
  <1>4. ASSUME NEW t \in Txns, Write(t) \/ Abort(t) PROVE ScopeStep
    <2>1. UNCHANGED members /\ EndTx(t)
      BY <1>4 DEF Write, Writes, CreateSection, UpdateSection, StartAttempt, EndAttempt, Abort
    <2> QED
      BY <2>1 DEF ScopeStep
  <1>5. CASE Environment
    BY <1>5 DEF Environment, ScopeStep
  <1>6. CASE UNCHANGED vars
    BY <1>6 DEF vars, scopeVars, ScopeStep
  <1> QED
    BY <1>1, <1>2, <1>3, <1>4, <1>5, <1>6 DEF Next

\* The transactions on sections implement Admission: a write is alone in its
\* project and authorized by active members from its admission to its commit.
THEOREM WritesAreAdmitted == Spec => ImplementsAdmission
  <1>1. Init => Admissions!Init /\ Sheltered
    BY ScopeInitRefines, ScopeInitShelters DEF Init
  <1>2. TInv /\ Sheltered /\ [Next]_vars => Sheltered'
    BY StepsAreScopeSteps, StepsShelter
  <1>3. TInv /\ Sheltered /\ [Next]_vars => [Admissions!Next]_<<members, Place, Relied>>
    BY StepsAreScopeSteps, ScopeStepsRefine
  <1> QED
    BY <1>1, <1>2, <1>3, Invariance, PTL
    DEF Spec, ImplementsAdmission, Admissions!Spec, Place, Relied

-----------------------------------------------------------------------------
(* The refinement of SectionForest. *)

\* What was found about the work item of a transaction still holds: its section
\* is active, and it has an attempt if it is to be ended, none if to be started.
WorkClaim(t) ==
  /\ Holds(t) /\ cmd[t].scope \in Items => status[SectionOf[cmd[t].scope]] = "active"
  /\ phase[t] = "checked" /\ cmd[t].op = "start" => cmd[t].scope \notin working
  /\ phase[t] = "checked" /\ cmd[t].op = "end" => cmd[t].scope \in working

\* The statuses of the sections alone.
SectionStatus == [s \in Sections |-> status[s]]

\* The children that the guards collect on the way down are those from which
\* the section is found on the way up.
LEMMA WalksAgree ==
  ASSUME TypeOK, ParentsInProject, NEW s \in created, NEW r \in created
  PROVE  r \in Descendants(s) <=> r \in OneByOne!Below(s)
  <1>0. /\ created \subseteq Sections /\ None \notin Sections
        /\ \A x \in created : parent[x] # None => parent[x] \in created
    BY ScopeAssumption DEF TypeOK, Nodes, ParentsInProject
  <1>1. ASSUME r \notin Descendants(s) PROVE r \notin OneByOne!Below(s)
    <2>1. PICK S \in SUBSET Sections : /\ s \in S /\ r \notin S
                                       /\ \A x \in S : ChildrenOf(x) \subseteq S
      BY <1>0, <1>1, Separation
    <2> DEFINE C == created \ S
    <2>2. \A x \in C : parent[x] # None => parent[x] \in C
      BY <1>0, <2>1 DEF ChildrenOf
    <2>3. C \in SUBSET created /\ r \in C /\ s \notin C
      BY <2>1
    <2> HIDE DEF C
    <2>4. C \in OneByOne!UpwardClosed
      BY <2>2, <2>3 DEF OneByOne!UpwardClosed
    <2> QED
      BY <2>3, <2>4 DEF OneByOne!Below
  <1>2. ASSUME r \notin OneByOne!Below(s) PROVE r \notin Descendants(s)
    <2>1. PICK U \in OneByOne!UpwardClosed : r \in U /\ s \notin U
      BY <1>2 DEF OneByOne!Below
    <2>2. U \in SUBSET created /\ \A x \in U : parent[x] # None => parent[x] \in U
      BY <2>1 DEF OneByOne!UpwardClosed
    <2> DEFINE S == Sections \ U
    <2>3. \A x \in S : ChildrenOf(x) \subseteq S
      BY <1>0, <2>2 DEF ChildrenOf
    <2>4. S \in SUBSET Sections /\ s \in S /\ r \notin S
      BY <1>0, <2>1
    <2> HIDE DEF S
    <2> QED
      BY <2>3, <2>4 DEF Descendants
  <1> QED
    BY <1>1, <1>2

\* Nothing lies below a section that does not exist.
LEMMA NothingBelowTheNew ==
  ASSUME ParentsInProject, NEW s, s \notin created
  PROVE  OneByOne!Below(s) = {}
  <1>1. created \in OneByOne!UpwardClosed
    BY DEF OneByOne!UpwardClosed, ParentsInProject
  <1> QED
    BY <1>1 DEF OneByOne!Below

\* The claim about a work item survives what keeps its project.
LEMMA WorkClaimKept ==
  ASSUME NEW t \in Txns, WorkClaim(t), Holds(t)' => Holds(t),
         phase'[t] = "checked" => phase[t] = "checked", Holds(t)' => cmd'[t] = cmd[t],
         cmd[t].scope \in Items => KeepsProject(ProjectOf[SectionOf[cmd[t].scope]]),
         Holds(t) /\ cmd[t].op \in {"start", "end"} => cmd[t].scope \in Items
  PROVE  WorkClaim(t)'
  <1>1. CASE ~Holds(t)'
    BY <1>1 DEF WorkClaim, Holds
  <1>2. CASE Holds(t)' /\ cmd[t].scope \in Items
    <2>1. SectionOf[cmd[t].scope] \in Sections
      BY <1>2, ScopeAssumption
    <2> QED
      BY <1>2, <2>1 DEF WorkClaim, KeepsProject
  <1>3. CASE Holds(t)' /\ cmd[t].scope \notin Items
    BY <1>3 DEF WorkClaim, Holds
  <1> QED
    BY <1>1, <1>2, <1>3

\* Every step keeps the claims about work items: the lock statements and the
\* checks establish them, and the writes of others are in other projects.
LEMMA WorkClaimsKept ==
  ASSUME TInv, \A t \in Txns : WorkClaim(t), [Next]_vars
  PROVE  \A t \in Txns : WorkClaim(t)'
  <1> SUFFICES ASSUME NEW u \in Txns PROVE WorkClaim(u)'
    OBVIOUS
  <1>0. Holds(u) => /\ cmd[u] \in Command
                    /\ cmd[u].op \in {"start", "end"} <=> cmd[u].scope \in Items
    BY CommandFields, ScopeAssumption DEF TInv, Pending, Named, Holds
  <1>1. ASSUME UNCHANGED <<treeVars, status>>,
               Holds(u)' => Holds(u) /\ cmd'[u] = cmd[u],
               phase'[u] = "checked" => phase[u] = "checked"
        PROVE  WorkClaim(u)'
    BY <1>1 DEF WorkClaim, Holds, treeVars
  <1>2. ASSUME NEW t \in Txns, NEW c \in Commands, Begin(t, c) PROVE WorkClaim(u)'
    BY <1>1, <1>2 DEF Begin, BeginTx, Holds, TInv, TypeOK
  <1>3. ASSUME NEW t \in Txns, Lock(t) PROVE WorkClaim(u)'
    <2>1. CASE u = t /\ Admitted(cmd[t]) /\ MoveTo(t, "locked")
      BY <1>3, <2>1 DEF Lock, LockParent, MoveTo, WorkClaim, Admitted, NodeOpen,
         ItemOpen, SectionOpen, TInv, TypeOK
    <2>2. CASE u # t \/ EndTx(t)
      BY <1>1, <1>3, <2>2 DEF Lock, LockParent, MoveTo, EndTx, Holds, TInv, TypeOK
    <2> QED
      BY <1>3, <2>1, <2>2 DEF Lock, LockParent
  <1>4. ASSUME NEW t \in Txns, Check(t) PROVE WorkClaim(u)'
    <2>1. CASE u = t /\ Allowed(cmd[t]) /\ MoveTo(t, "checked")
      <3>1. Holds(t) /\ cmd' = cmd /\ UNCHANGED <<treeVars, status>>
        BY <1>4, <2>1 DEF Check, MoveTo, Holds
      <3>2. /\ cmd[t].op = "start" => cmd[t].scope \notin working
            /\ cmd[t].op = "end" => cmd[t].scope \in working
        BY <2>1 DEF Allowed
      <3> QED
        BY <2>1, <3>1, <3>2 DEF WorkClaim, treeVars
    <2>2. CASE u # t \/ EndTx(t)
      BY <1>1, <1>4, <2>2 DEF Check, MoveTo, EndTx, Holds, TInv, TypeOK
    <2> QED
      BY <1>4, <2>1, <2>2 DEF Check
  <1>5. ASSUME NEW t \in Txns, Abort(t) PROVE WorkClaim(u)'
    BY <1>1, <1>5 DEF Abort, EndTx, Holds, TInv, TypeOK
  <1>6. ASSUME NEW t \in Txns, Write(t) PROVE WorkClaim(u)'
    <2>1. /\ phase[t] = "checked" /\ phase'[t] = "idle"
          /\ \A v \in Txns \ {t} : phase'[v] = phase[v] /\ cmd'[v] = cmd[v]
      BY <1>6, WriteEffect DEF EndTx, TInv, TypeOK
    <2>2. CASE u = t
      BY <2>1, <2>2 DEF WorkClaim, Holds
    <2>3. CASE u # t /\ ~Holds(u)
      BY <2>1, <2>3 DEF WorkClaim, Holds
    <2>4. CASE u # t /\ Holds(u)
      <3>1. ProjectAbove(cmd[u].scope) # ProjectAbove(cmd[t].scope)
        BY <2>1, <2>4 DEF Holds, TInv, ProjectLockIsExclusive
      <3>2. ASSUME cmd[u].scope \in Items
            PROVE  KeepsProject(ProjectOf[SectionOf[cmd[u].scope]])
        <4>1. /\ ProjectAbove(cmd[u].scope) = ProjectOf[SectionOf[cmd[u].scope]]
              /\ ProjectOf[SectionOf[cmd[u].scope]] \in Projects
          BY <3>2, ScopeProject, ScopeAssumption
        <4> QED
          BY <1>6, <3>1, <4>1, WriteIsElsewhere
      <3> QED
        BY <1>0, <2>1, <2>4, <3>2, WorkClaimKept DEF Holds
    <2> QED
      BY <2>2, <2>3, <2>4
  <1>7. CASE Environment \/ UNCHANGED vars
    BY <1>1, <1>7 DEF Environment, Revoke, Restore, vars, scopeVars, Holds
  <1> QED
    BY <1>2, <1>3, <1>4, <1>5, <1>6, <1>7 DEF Next

\* A commit is one request of SectionForest, and is allowed at its moment.
LEMMA WriteIsRequest ==
  ASSUME TInv, NEW t \in Txns, WorkClaim(t), Write(t)
  PROVE  OneByOne!Next
  <1> DEFINE s == cmd[t].scope
             p == plan[t].parent
             to == plan[t].status
  <1>0. /\ phase[t] = "checked" /\ Holds(t) /\ Named(t) /\ (s \in Sections => Fits(t))
        /\ TypeOK /\ ParentsInProject /\ plan[t] \in PlanRow
        /\ \A i \in working : SectionOf[i] \in created
    BY WriteEffect DEF Holds, TInv, TreeOK, Pending, TypeOK
  <1>1. p \in Sections \cup {None} /\ to \in {"active", "archived"}
    BY <1>0 DEF PlanRow
  <1>2. \A x \in Sections : SectionStatus[x] = status[x]
    BY DEF SectionStatus
  <1>3. ASSUME StoreRow(t), s \in Sections
        PROVE  SectionStatus' = [SectionStatus EXCEPT ![s] = to]
               /\ parent' = [parent EXCEPT ![s] = p]
    BY <1>0, <1>3 DEF StoreRow, SectionStatus, TypeOK, Nodes
  <1>4. CASE CreateSection(t)
    <2>1. /\ s \in Sections /\ s \notin created /\ StoreRow(t) /\ cmd[t].op = "create"
          /\ created' = created \cup {s} /\ working' = working
      BY <1>0, <1>4, CommandFields DEF CreateSection, Writes, Named
    <2>2. p # None => /\ p \in created /\ ProjectOf[p] = ProjectOf[s]
                      /\ SectionStatus[p] = "active" /\ p \notin OneByOne!Below(s)
      BY <1>0, <1>1, <1>2, <2>1, NothingBelowTheNew DEF Fits
    <2>3. to = "active"
      BY <1>0, <2>1 DEF Fits
    <2>4. PICK x \in Sections, y \in Sections \cup {None} : x = s /\ y = p
      BY <1>1, <2>1
    <2>5. OneByOne!Create(x, y)
      BY <1>3, <2>1, <2>2, <2>3, <2>4 DEF OneByOne!Create, OneByOne!MayHang, SectionStatus
    <2> QED
      BY <2>5 DEF OneByOne!Next
  <1>5. CASE UpdateSection(t)
    <2>1. /\ s \in Sections /\ s \in created /\ StoreRow(t) /\ cmd[t].op = "update"
          /\ created' = created /\ working' = working
      BY <1>0, <1>5, CommandFields DEF UpdateSection, Writes, Named
    <2>2. p = parent[s] \/ OneByOne!MayHang(s, p)
      <3>1. p # None /\ p # parent[s] =>
              /\ p \in created /\ ProjectOf[p] = ProjectOf[s]
              /\ SectionStatus[p] = "active" /\ p \notin Descendants(s)
        BY <1>0, <1>1, <1>2, <2>1 DEF Fits
      <3> QED
        BY <1>0, <2>1, <3>1, WalksAgree DEF OneByOne!MayHang, SectionStatus
    <2>3. to = "archived" /\ SectionStatus[s] # "archived" => OneByOne!MayArchive(s)
      <3>1. to = "archived" /\ SectionStatus[s] # "archived" =>
              \A i \in working : SectionOf[i] \notin Descendants(s)
        BY <1>0, <1>2, <2>1 DEF Fits, WorkUnder
      <3> QED
        BY <1>0, <2>1, <3>1, WalksAgree DEF OneByOne!MayArchive
    <2>4. PICK x \in Sections, y \in Sections \cup {None}, z \in {"active", "archived"} :
            x = s /\ y = p /\ z = to
      BY <1>1, <2>1
    <2>5. OneByOne!Update(x, y, z)
      <3>1. OneByOne!MayHang(s, p) = OneByOne!MayHang(x, y)
            /\ OneByOne!MayArchive(s) = OneByOne!MayArchive(x)
        BY <2>4
      <3> QED
        BY <1>3, <2>1, <2>2, <2>3, <2>4, <3>1 DEF OneByOne!Update, SectionStatus
    <2> QED
      BY <2>5 DEF OneByOne!Next
  <1>6. CASE StartAttempt(t)
    <2>1. s \in Items /\ SectionOf[s] \in Sections /\ cmd[t].op = "start"
      BY <1>0, <1>6, CommandFields, ScopeAssumption DEF StartAttempt, Writes, Named
    <2>2. s \notin working /\ SectionOf[s] \in created /\ SectionStatus[SectionOf[s]] = "active"
      BY <1>0, <1>2, <2>1 DEF WorkClaim, Named
    <2>3. OneByOne!Start(s)
      BY <1>6, <2>2 DEF StartAttempt, OneByOne!Start, SectionStatus
    <2> QED
      BY <2>1, <2>3 DEF OneByOne!Next
  <1>7. CASE EndAttempt(t)
    <2>1. s \in Items /\ s \in working
      BY <1>0, <1>7, CommandFields DEF EndAttempt, Writes, Named, WorkClaim
    <2>2. OneByOne!End(s)
      BY <1>7, <2>1 DEF EndAttempt, OneByOne!End, SectionStatus
    <2> QED
      BY <2>1, <2>2 DEF OneByOne!Next
  <1> QED
    BY <1>4, <1>5, <1>6, <1>7 DEF Write

\* However transactions interleave, the sections develop as if the requests
\* came one after the other, each allowed at the moment it takes effect.
THEOREM RequestsOneByOne == Spec => ImplementsSectionForest
  <1>1. Init => OneByOne!Init /\ \A t \in Txns : WorkClaim(t)
    BY DEF Init, ScopeInit, OneByOne!Init, WorkClaim, Holds, Nodes
  <1>2. TInv /\ (\A t \in Txns : WorkClaim(t)) /\ [Next]_vars
          => (\A t \in Txns : WorkClaim(t))'
    BY WorkClaimsKept
  <1>3. TInv /\ (\A t \in Txns : WorkClaim(t)) /\ [Next]_vars
          => [OneByOne!Next]_<<created, parent, SectionStatus, working>>
    <2> SUFFICES ASSUME TInv, \A t \in Txns : WorkClaim(t), [Next]_vars
                 PROVE  OneByOne!Next \/ UNCHANGED <<created, parent, SectionStatus, working>>
      OBVIOUS
    <2>1. ASSUME NEW t \in Txns, Write(t) PROVE OneByOne!Next
      BY <2>1, WriteIsRequest
    <2>2. CASE UNCHANGED <<treeVars, status>>
      BY <2>2 DEF treeVars, SectionStatus
    <2> QED
      BY <2>1, <2>2, OnlyWritesChange
  <1> QED
    BY <1>1, <1>2, <1>3, Invariance, PTL
    DEF Spec, ImplementsSectionForest, OneByOne!Spec, OneByOne!vars, SectionStatus

=============================================================================
