----------------------------- MODULE MCRowLocks -----------------------------
(* Instances of RowLocks for TLC. *)
EXTENDS RowLocks, TLC

CONSTANTS prj, prj2, a, b

Do(op, user) == [op |-> op, user |-> user, project |-> None, assignee |-> None]

\* Two workers in two projects make each other responsible and work, while one
\* of them leaves, comes back and is invited again.
LockCommands ==
  {[op |-> "work", user |-> b, project |-> prj2, assignee |-> None],
   [op |-> "assign", user |-> a, project |-> prj, assignee |-> b],
   [op |-> "assign", user |-> b, project |-> prj2, assignee |-> a],
   Do("leave_org", b), Do("leave_ws", b), Do("join_org", b),
   Do("join_ws", b), Do("accept", b)}

TxnSymmetry == Permutations(Txns)
============================================================================
