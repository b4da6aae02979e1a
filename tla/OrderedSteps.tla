---------------------------- MODULE OrderedSteps ----------------------------
(***************************************************************************)
(* What the clients of a work item's processes rely on: each item has one  *)
(* ordered list.  A new process goes to its end, removing one leaves the   *)
(* order of the others alone, and a reorder replaces the order of one list *)
(* as a whole.  A removed process never returns.                           *)
(***************************************************************************)
CONSTANTS
  Steps,   \* the processes
  Lists,   \* the work items
  ListOf   \* the item of a process

VARIABLES
  stage,   \* whether a step is new, listed or removed
  before   \* the pairs of listed steps of one list, the earlier one first

Listed(l) == {p \in Steps : stage[p] = "listed" /\ ListOf[p] = l}

\* r orders the members of S strictly and totally.
Orders(r, S) ==
  /\ \A p \in S : <<p, p>> \notin r
  /\ \A p, q \in S : p = q \/ <<p, q>> \in r \/ <<q, p>> \in r
  /\ \A p, q, s \in S : <<p, q>> \in r /\ <<q, s>> \in r => <<p, s>> \in r

Init ==
  /\ stage = [p \in Steps |-> "new"]
  /\ before = {}

Append(p) ==
  /\ stage[p] = "new"
  /\ stage' = [stage EXCEPT ![p] = "listed"]
  /\ before' = before \cup (Listed(ListOf[p]) \X {p})

Remove(p) ==
  /\ stage[p] = "listed"
  /\ stage' = [stage EXCEPT ![p] = "removed"]
  /\ before' = {r \in before : p \notin {r[1], r[2]}}

\* The new order of list l; the other lists keep theirs.
Permute(l) ==
  /\ UNCHANGED stage /\ before' # before
  /\ before' \subseteq before \cup (Listed(l) \X Listed(l))
  /\ {r \in before : ListOf[r[1]] # l} \subseteq before'
  /\ Orders(before', Listed(l))

Next ==
  \/ \E p \in Steps : Append(p) \/ Remove(p)
  \/ \E l \in Lists : Permute(l)

Spec == Init /\ [][Next]_<<stage, before>>

=============================================================================
