--------------------------- MODULE MCProcessOrder ---------------------------
(* Instances of ProcessOrder for TLC. *)
EXTENDS ProcessOrder, TLC

CONSTANTS prj, sec, itm, itm2, a, b, c, d, u1

OneProjectOf == [s \in Sections |-> prj]
OneSectionOf == [i \in Items |-> sec]
OneItemOf == [p \in Processes |-> itm]

Do(op, scope, arg) ==
  [op |-> op, actor |-> u1, scope |-> scope, row |-> None, arg |-> arg]

OrderCommands ==
  {Do("create", n, None) : n \in {itm, itm2, a, b, c, d}}
  \cup {Do(op, a, None) : op \in {"archive", "start", "end"}}
  \cup {Do("reorder", itm, s) : s \in {<<>>, <<b, a>>, <<a, a>>, <<c, b, d>>}}
  \cup {Do("set_section", sec, to) : to \in {"active", "archived"}}
  \cup {Do("update", itm, [status |-> "archived", position |-> MaxPosition]),
        Do("update", itm, [status |-> Keep, position |-> -1])}

TxnSymmetry == Permutations(Txns)
=============================================================================
