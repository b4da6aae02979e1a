------------------------------ MODULE Admission ------------------------------
(***************************************************************************)
(* What admits a write below a project, without rows, statements and       *)
(* locks.  A writer is admitted to one project by rights that are in       *)
(* force, and it is alone there until it finishes.  Whoever changes the    *)
(* rights does so in one step, and leaves those in force that an admitted  *)
(* writer relies on.                                                       *)
(***************************************************************************)
CONSTANTS Writers, Projects, Rights, None

VARIABLES
  inForce,  \* the rights in force
  place,    \* the project a writer is admitted to, or None
  relied    \* the rights it was admitted by

Init ==
  /\ inForce \in SUBSET Rights
  /\ place = [w \in Writers |-> None]
  /\ relied = [w \in Writers |-> {}]

Admit(w, p) ==
  /\ place[w] = None
  /\ \A v \in Writers : place[v] # p
  /\ place' = [place EXCEPT ![w] = p]
  /\ \E R \in SUBSET inForce : relied' = [relied EXCEPT ![w] = R]
  /\ UNCHANGED inForce

\* An admitted writer needs a further right.
Rely(w) ==
  /\ place[w] # None
  /\ UNCHANGED <<inForce, place>>
  /\ \E r \in inForce : relied' = [relied EXCEPT ![w] = @ \cup {r}]

Finish(w) ==
  /\ place[w] # None
  /\ place' = [place EXCEPT ![w] = None]
  /\ relied' = [relied EXCEPT ![w] = {}]
  /\ UNCHANGED inForce

ChangeRights ==
  /\ UNCHANGED <<place, relied>>
  /\ inForce' \in SUBSET Rights
  /\ \A w \in Writers : relied[w] \subseteq inForce'

Next ==
  \/ ChangeRights
  \/ \E w \in Writers : \/ Rely(w) \/ Finish(w)
                        \/ \E p \in Projects : Admit(w, p)

Spec == Init /\ [][Next]_<<inForce, place, relied>>

=============================================================================
