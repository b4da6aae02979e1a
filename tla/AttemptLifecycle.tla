-------------------------- MODULE AttemptLifecycle --------------------------
(***************************************************************************)
(* What the executions of processes promise, without transactions, locks   *)
(* and rows: the attempts of a process follow each other, one at a time,   *)
(* and a user works on at most one process, only while it is ongoing.      *)
(* Ending an attempt sends everybody home in the same step.                *)
(***************************************************************************)
EXTENDS Naturals

CONSTANTS Processes, Users, Numbers, None

VARIABLES
  attempts, \* the state of every numbered attempt of every process
  working   \* the process a user works on, or None

Init ==
  /\ attempts = [p \in Processes |-> [n \in Numbers |-> "none"]]
  /\ working = [u \in Users |-> None]

Ended == {"completed", "cancelled"}

Ongoing(p) == \E n \in Numbers : attempts[p][n] = "active"

Start(p) ==
  \E n \in Numbers :
    /\ attempts[p][n] = "none"
    /\ \A m \in Numbers : m < n => attempts[p][m] \in Ended
    /\ attempts' = [attempts EXCEPT ![p][n] = "active"]
    /\ UNCHANGED working

End(p, outcome) ==
  \E n \in Numbers :
    /\ attempts[p][n] = "active"
    /\ attempts' = [attempts EXCEPT ![p][n] = outcome]
    /\ working' = [u \in Users |-> IF working[u] = p THEN None ELSE working[u]]

BeginWork(u, p) ==
  /\ Ongoing(p) /\ working[u] = None
  /\ working' = [working EXCEPT ![u] = p]
  /\ UNCHANGED attempts

EndWork(u) ==
  /\ working[u] # None
  /\ working' = [working EXCEPT ![u] = None]
  /\ UNCHANGED attempts

Next ==
  \/ \E p \in Processes : \/ Start(p)
                          \/ \E outcome \in Ended : End(p, outcome)
                          \/ \E u \in Users : BeginWork(u, p)
  \/ \E u \in Users : EndWork(u)

Spec == Init /\ [][Next]_<<attempts, working>>

=============================================================================
