---------------------------- MODULE ScopeProofs ----------------------------
(***************************************************************************)
(* Proofs about the transactions of WorkScope that hold for every module   *)
(* that extends it: each of their steps is one step of Admission or none.  *)
(*                                                                         *)
(* What a module has to supply is that its steps treat the members and the *)
(* transactions in the ways of ScopeStep.  These keep whom a transaction   *)
(* relies on among the members (Sheltered).                                *)
(***************************************************************************)
EXTENDS WorkScope, TLAPS

\* A transaction has a command in one project, and relies on active members.
Sheltered ==
  /\ members \in SUBSET Users
  /\ phase = [t \in Txns |-> phase[t]] /\ cmd = [t \in Txns |-> cmd[t]]
  /\ \A t \in Txns : phase[t] # "idle" => cmd[t].scope \in Nodes
  /\ \A t \in Txns : Shared(t) \subseteq members \cup {None}

Place  == [t \in Txns |-> IF Holds(t) THEN ProjectAbove(cmd[t].scope) ELSE None]
Relied == [t \in Txns |-> Shared(t) \ {None}]

\* Every row is in one of the projects.
LEMMA ProjectOfNode ==
  ASSUME NEW n \in Nodes
  PROVE  ProjectAbove(n) \in Projects
<1>1. n \notin Projects => SectionAbove(n) \in Sections
  BY ScopeAssumption DEF SectionAbove, Nodes
<1> QED
  BY <1>1, ScopeAssumption DEF ProjectAbove

\* So a transaction that holds a lock holds it in a project.
LEMMA HeldIsProject ==
  ASSUME Sheltered, NEW t \in Txns, Holds(t)
  PROVE  ProjectAbove(cmd[t].scope) \in Projects /\ ProjectAbove(cmd[t].scope) # None
<1>1. cmd[t].scope \in Nodes
  BY DEF Sheltered, Holds
<1> QED
  BY <1>1, ProjectOfNode, ScopeAssumption DEF Nodes

\* Nothing that matters to others happens.
LEMMA QuietStutters ==
  ASSUME UNCHANGED members, \A t \in Txns : Holds(t)' = Holds(t),
         \A t \in Txns : Holds(t) => cmd'[t] = cmd[t] /\ Shared(t)' = Shared(t)
  PROVE  UNCHANGED <<members, Place, Relied>>
<1>1. \A t \in Txns : Shared(t)' = Shared(t)
  BY DEF Shared
<1>2. \A t \in Txns : Holds(t) => (ProjectAbove(cmd[t].scope))' = ProjectAbove(cmd[t].scope)
  BY DEF ProjectAbove, SectionAbove
<1> QED
  BY <1>1, <1>2 DEF Place, Relied

\* The lock statements admit the transaction, or roll it back.
LEMMA LockAdmits ==
  ASSUME Sheltered, Sheltered', NEW t \in Txns, LockParent(t)
  PROVE  \/ UNCHANGED <<members, Place, Relied>>
         \/ \E p \in Projects : Admissions!Admit(t, p)
<1>0. /\ phase[t] = "begun" /\ members' = members
      /\ \A u \in Txns \ {t} : phase'[u] = phase[u] /\ cmd'[u] = cmd[u]
  BY DEF LockParent, MoveTo, EndTx, Sheltered
<1>1. ~Holds(t) /\ \A u \in Txns \ {t} : Holds(u)' = Holds(u) /\ Shared(u)' = Shared(u)
  BY <1>0 DEF Holds, Shared
<1>2. CASE EndTx(t)
  <2>1. phase'[t] = "idle"
    BY <1>2 DEF EndTx, Sheltered
  <2>2. \A u \in Txns : Holds(u)' = Holds(u)
    BY <1>1, <2>1 DEF Holds
  <2> QED
    BY <1>0, <1>1, <2>2, QuietStutters
<1>3. CASE MoveTo(t, "locked")
  <2> DEFINE p == ProjectAbove(cmd[t].scope)
  <2>1. Holds(t)' /\ cmd' = cmd
    BY <1>3 DEF MoveTo, Holds, Sheltered
  <2>2. (ProjectAbove(cmd[t].scope))' = p /\ p \in Projects
    <3>1. p \in Projects
      BY <1>0, ProjectOfNode DEF Sheltered
    <3> QED
      BY <2>1, <3>1 DEF ProjectAbove, SectionAbove
  <2>3. p # None
    BY <2>2, ScopeAssumption DEF Nodes
  <2>4. Place[t] = None /\ \A u \in Txns : Place[u] # p
    BY <1>1, <2>3 DEF Place, LockParent, LockFree
  <2>5. Place' = [Place EXCEPT ![t] = p]
    <3>1. \A u \in Txns \ {t} : (ProjectAbove(cmd[u].scope))' = ProjectAbove(cmd[u].scope)
      BY <1>0 DEF ProjectAbove, SectionAbove
    <3> HIDE DEF p
    <3> QED
      BY <1>1, <2>1, <2>2, <3>1 DEF Place
  <2>6. Relied' = [Relied EXCEPT ![t] = Shared(t)' \ {None}]
    BY <1>1 DEF Relied
  <2>7. Shared(t)' \ {None} \in SUBSET members
    BY <1>0 DEF Sheltered
  <2> HIDE DEF p
  <2>8. Admissions!Admit(t, p)
    BY <1>0, <2>4, <2>5, <2>6, <2>7 DEF Admissions!Admit, Place, Relied
  <2> QED
    BY <2>2, <2>8
<1> QED
  BY <1>2, <1>3 DEF LockParent

\* A check may rely on one more member, the assignee.
LEMMA CheckRelies ==
  ASSUME Sheltered, Sheltered', NEW t \in Txns, UNCHANGED members,
         phase[t] = "locked", MoveTo(t, "checked")
  PROVE  \/ UNCHANGED <<members, Place, Relied>>
         \/ Admissions!Rely(t)
<1>1. /\ phase'[t] = "checked" /\ cmd' = cmd
      /\ \A u \in Txns \ {t} : phase'[u] = phase[u]
  BY DEF MoveTo, Sheltered
<1>2. \A u \in Txns : Holds(u)' = Holds(u)
  BY <1>1 DEF Holds
<1>3. \A u \in Txns \ {t} : Shared(u)' = Shared(u)
  BY <1>1, <1>2 DEF Shared
<1>4. CASE SharesAuthority(cmd[t]) /\ cmd[t].op = "assign"
  <2> DEFINE r == cmd[t].arg
  <2>1. Shared(t)' = Shared(t) \cup {r}
    BY <1>1, <1>2, <1>4 DEF Shared, Holds
  <2>2. Place[t] # None /\ Place' = Place
    <3>1. Holds(t) /\ ProjectAbove(cmd[t].scope) # None
      BY HeldIsProject DEF Holds
    <3>2. \A u \in Txns : (ProjectAbove(cmd[u].scope))' = ProjectAbove(cmd[u].scope)
      BY <1>1 DEF ProjectAbove, SectionAbove
    <3> QED
      BY <1>2, <3>1, <3>2 DEF Place
  <2>3. CASE r = None
    <3>1. Relied' = Relied
      BY <1>3, <2>1, <2>3 DEF Relied
    <3> QED
      BY <2>2, <3>1
  <2>4. CASE r # None
    <3>1. r \in members
      BY <2>1, <2>4 DEF Sheltered
    <3>2. Relied' = [Relied EXCEPT ![t] = Relied[t] \cup {r}]
      BY <1>3, <2>1, <2>4 DEF Relied
    <3> HIDE DEF r
    <3>3. Admissions!Rely(t)
      BY <2>2, <3>1, <3>2 DEF Admissions!Rely, Place, Relied
    <3> QED
      BY <3>3
  <2> QED
    BY <2>3, <2>4
<1>5. CASE ~(SharesAuthority(cmd[t]) /\ cmd[t].op = "assign")
  <2>1. Shared(t)' = Shared(t)
    BY <1>1, <1>2, <1>5 DEF Shared
  <2> QED
    BY <1>1, <1>2, <1>3, <2>1, QuietStutters
<1> QED
  BY <1>4, <1>5

\* The end of a transaction.
LEMMA EndFinishes ==
  ASSUME Sheltered, NEW t \in Txns, EndTx(t), UNCHANGED members
  PROVE  \/ UNCHANGED <<members, Place, Relied>>
         \/ Admissions!Finish(t)
<1>1. /\ phase'[t] = "idle"
      /\ \A u \in Txns \ {t} : phase'[u] = phase[u] /\ cmd'[u] = cmd[u]
  BY DEF EndTx, Sheltered
<1>2. ~Holds(t)' /\ \A u \in Txns \ {t} : Holds(u)' = Holds(u) /\ Shared(u)' = Shared(u)
  BY <1>1 DEF Holds, Shared
<1>3. CASE Holds(t)
  <2>1. Place[t] # None
    BY <1>3, HeldIsProject DEF Place
  <2>2. Place' = [Place EXCEPT ![t] = None]
    <3>1. \A u \in Txns \ {t} : (ProjectAbove(cmd[u].scope))' = ProjectAbove(cmd[u].scope)
      BY <1>1 DEF ProjectAbove, SectionAbove
    <3> QED
      BY <1>2, <3>1 DEF Place
  <2>3. Relied' = [Relied EXCEPT ![t] = {}]
    <3>1. Shared(t)' = {}
      BY <1>2 DEF Shared
    <3> QED
      BY <1>2, <3>1 DEF Relied
  <2>4. Admissions!Finish(t)
    BY <2>1, <2>2, <2>3 DEF Admissions!Finish, Place, Relied
  <2> QED
    BY <2>4
<1>4. CASE ~Holds(t)
  <2>1. \A u \in Txns : Holds(u)' = Holds(u)
    BY <1>1, <1>4 DEF Holds
  <2> QED
    BY <1>1, <1>2, <1>4, <2>1, QuietStutters
<1> QED
  BY <1>3, <1>4

\* A request that begins holds nothing yet.
LEMMA BeginStutters ==
  ASSUME Sheltered, NEW t \in Txns, NEW c, BeginTx(t, c), UNCHANGED members
  PROVE  UNCHANGED <<members, Place, Relied>>
<1>1. /\ phase[t] = "idle" /\ phase'[t] = "begun"
      /\ \A u \in Txns \ {t} : phase'[u] = phase[u] /\ cmd'[u] = cmd[u]
  BY DEF BeginTx, Sheltered
<1>2. \A u \in Txns : Holds(u)' = Holds(u) /\ (Holds(u) => u # t)
  BY <1>1 DEF Holds
<1> QED
  BY <1>1, <1>2, QuietStutters DEF Shared

\* A revocation spares whom a transaction relies on.
LEMMA RightsChange ==
  ASSUME Sheltered, Sheltered', NEW u \in Users, Revoke(u) \/ Restore(u)
  PROVE  Admissions!ChangeRights
<1>1. UNCHANGED <<phase, cmd>>
  BY DEF Revoke, Restore
<1>2. \A t \in Txns : Holds(t)' = Holds(t) /\ Shared(t)' = Shared(t)
  BY <1>1 DEF Holds, Shared
<1>3. UNCHANGED <<Place, Relied>>
  <2>1. \A t \in Txns : (ProjectAbove(cmd[t].scope))' = ProjectAbove(cmd[t].scope)
    BY <1>1 DEF ProjectAbove, SectionAbove
  <2> QED
    BY <1>2, <2>1 DEF Place, Relied
<1>4. \A t \in Txns : Shared(t) \ {None} \subseteq members'
  BY <1>2 DEF Sheltered
<1> QED
  BY <1>3, <1>4 DEF Admissions!ChangeRights, Place, Relied, Sheltered

\* The steps a module's transactions are made of.
ScopeStep ==
  \/ UNCHANGED <<members, phase, cmd>>
  \/ \E u \in Users : Revoke(u) \/ Restore(u)
  \/ \E t \in Txns : \/ LockParent(t)
                     \/ /\ UNCHANGED members
                        /\ \/ \E c : c.scope \in Nodes /\ BeginTx(t, c)
                           \/ /\ phase[t] = "locked" /\ MoveTo(t, "checked")
                              /\ cmd[t].op = "assign" => cmd[t].arg \in members \cup {None}
                           \/ EndTx(t)

\* These steps keep whom a transaction relies on among the members.
LEMMA StepsShelter ==
  ASSUME Sheltered, ScopeStep
  PROVE  Sheltered'
<1>1. CASE UNCHANGED <<members, phase, cmd>>
  BY <1>1 DEF Sheltered, Shared, Holds
<1>2. ASSUME NEW u \in Users, Revoke(u) \/ Restore(u)
      PROVE  Sheltered'
  <2>1. UNCHANGED <<phase, cmd>> /\ members' \in SUBSET Users
    BY <1>2 DEF Revoke, Restore, Sheltered
  <2>2. \A t \in Txns : Shared(t)' = Shared(t)
    BY <2>1 DEF Shared, Holds
  <2>3. \A t \in Txns : Shared(t) \subseteq members' \cup {None}
    BY <1>2 DEF Revoke, Restore, Sheltered
  <2> QED
    BY <2>1, <2>2, <2>3 DEF Sheltered
<1>3. ASSUME NEW t \in Txns, UNCHANGED members,
             /\ phase' = [phase EXCEPT ![t] = phase'[t]]
             /\ cmd' = [cmd EXCEPT ![t] = cmd'[t]],
             phase'[t] # "idle" => cmd'[t].scope \in Nodes,
             Shared(t)' \subseteq members \cup {None}
      PROVE  Sheltered'
  <2>1. \A u \in Txns \ {t} : phase'[u] = phase[u] /\ cmd'[u] = cmd[u]
    BY <1>3 DEF Sheltered
  <2>2. \A u \in Txns \ {t} : Shared(u)' = Shared(u)
    BY <2>1 DEF Shared, Holds
  <2>3. phase' = [u \in Txns |-> phase'[u]] /\ cmd' = [u \in Txns |-> cmd'[u]]
    BY <1>3 DEF Sheltered
  <2> QED
    BY <1>3, <2>1, <2>2, <2>3 DEF Sheltered
<1>4. ASSUME NEW t \in Txns, UNCHANGED members, EndTx(t)
      PROVE  Sheltered'
  <2>1. phase'[t] = "idle" /\ Shared(t)' = {}
    BY <1>4 DEF EndTx, Sheltered, Shared, Holds
  <2> QED
    BY <1>3, <1>4, <2>1 DEF EndTx, Sheltered
<1>5. ASSUME NEW t \in Txns, NEW c, UNCHANGED members, c.scope \in Nodes, BeginTx(t, c)
      PROVE  Sheltered'
  <2>1. phase'[t] = "begun" /\ cmd'[t] = c /\ Shared(t)' = {}
    BY <1>5 DEF BeginTx, Sheltered, Shared, Holds
  <2> QED
    BY <1>3, <1>5, <2>1 DEF BeginTx, Sheltered
<1>6. ASSUME NEW t \in Txns, UNCHANGED members, phase[t] = "begun", MoveTo(t, "locked"),
             Admitted(cmd[t])
      PROVE  Sheltered'
  <2>1. phase'[t] = "locked" /\ cmd' = cmd /\ cmd[t].scope \in Nodes
    BY <1>6 DEF MoveTo, Sheltered
  <2>2. SharesAuthority(cmd[t]) => cmd[t].actor \in members
    BY <1>6, ScopeAssumption DEF Admitted, SharesAuthority
  <2>3. Shared(t)' \subseteq members \cup {None}
    BY <2>1, <2>2 DEF Shared, SharesAuthority
  <2> QED
    BY <1>3, <1>6, <2>1, <2>3 DEF MoveTo, Sheltered
<1>7. ASSUME NEW t \in Txns, UNCHANGED members, phase[t] = "locked", MoveTo(t, "checked"),
             cmd[t].op = "assign" => cmd[t].arg \in members \cup {None}
      PROVE  Sheltered'
  <2>1. phase'[t] = "checked" /\ cmd' = cmd /\ cmd[t].scope \in Nodes
    BY <1>7 DEF MoveTo, Sheltered
  <2>2. SharesAuthority(cmd[t]) => cmd[t].actor \in members \cup {None}
    BY <1>7 DEF Sheltered, Shared, Holds
  <2>3. Shared(t)' \subseteq members \cup {None}
    BY <1>7, <2>1, <2>2 DEF Shared, SharesAuthority
  <2> QED
    BY <1>3, <1>7, <2>1, <2>3 DEF MoveTo, Sheltered
<1>8. ASSUME NEW t \in Txns, LockParent(t)
      PROVE  Sheltered'
  BY <1>4, <1>6, <1>8 DEF LockParent
<1> QED
  BY <1>1, <1>2, <1>4, <1>5, <1>7, <1>8 DEF ScopeStep

\* Every step of such a transaction is one of Admission.
LEMMA ScopeStepsRefine ==
  ASSUME Sheltered, ScopeStep
  PROVE  Admissions!Next \/ UNCHANGED <<members, Place, Relied>>
<1>0. Sheltered'
  BY StepsShelter
<1>1. CASE UNCHANGED <<members, phase, cmd>>
  <2>1. \A t \in Txns : Holds(t)' = Holds(t) /\ Shared(t)' = Shared(t)
    BY <1>1 DEF Holds, Shared
  <2> QED
    BY <1>1, <2>1, QuietStutters
<1>2. ASSUME NEW u \in Users, Revoke(u) \/ Restore(u)
      PROVE  Admissions!Next
  BY <1>0, <1>2, RightsChange DEF Admissions!Next
<1>3. ASSUME NEW t \in Txns, LockParent(t)
      PROVE  Admissions!Next \/ UNCHANGED <<members, Place, Relied>>
  BY <1>0, <1>3, LockAdmits DEF Admissions!Next
<1>4. ASSUME NEW t \in Txns, UNCHANGED members, phase[t] = "locked", MoveTo(t, "checked")
      PROVE  Admissions!Next \/ UNCHANGED <<members, Place, Relied>>
  BY <1>0, <1>4, CheckRelies DEF Admissions!Next
<1>5. ASSUME NEW t \in Txns, UNCHANGED members, EndTx(t)
      PROVE  Admissions!Next \/ UNCHANGED <<members, Place, Relied>>
  BY <1>5, EndFinishes DEF Admissions!Next
<1>6. ASSUME NEW t \in Txns, UNCHANGED members, NEW c, BeginTx(t, c)
      PROVE  UNCHANGED <<members, Place, Relied>>
  BY <1>6, BeginStutters
<1> QED
  BY <1>1, <1>2, <1>3, <1>4, <1>5, <1>6 DEF ScopeStep

\* Nobody is admitted at the beginning, and nobody is relied on.
LEMMA ScopeInitShelters == ScopeInit => Sheltered
  BY DEF ScopeInit, Sheltered, Shared, Holds

LEMMA ScopeInitRefines == ScopeInit => Admissions!Init
<1> SUFFICES ASSUME ScopeInit PROVE Admissions!Init
  OBVIOUS
<1>1. \A t \in Txns : ~Holds(t) /\ Shared(t) = {}
  BY DEF ScopeInit, Holds, Shared
<1> QED
  BY <1>1 DEF Admissions!Init, ScopeInit

=============================================================================
