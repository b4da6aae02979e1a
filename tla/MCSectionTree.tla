--------------------------- MODULE MCSectionTree ---------------------------
(* Instances of SectionTree for TLC. *)
EXTENDS SectionTree, TLC

CONSTANTS prj, prj2, a, b, c, d, itm, u1

OneProjectOf == [s \in Sections |-> prj]
TwoProjectOf == [s \in Sections |-> IF s = d THEN prj2 ELSE prj]
ItemInC == [i \in Items |-> c]
NoItems == [i \in Items |-> c]
NoProcesses == [p \in Processes |-> itm]

\* Growing and rearranging, with the positions appended.
MoveCommands ==
  {k \in Command : \/ k.op = "create"
                   \/ /\ k.op = "update" /\ k.arg.position = Keep
                      /\ \/ k.row # Keep /\ k.arg.status = Keep
                         \/ k.row = Keep /\ k.arg.status # Keep}

\* A chain grows, breaks and is archived around the attempt in its last
\* section; a section of another project tries to join it.
SubtreeCommands ==
  {k \in Command :
     \/ k.op \in {"start", "end"}
     \/ k.op = "create" /\ <<k.scope, k.row>> \in {<<a, None>>, <<b, a>>, <<c, b>>, <<d, a>>}
     \/ /\ k.op = "update" /\ k.scope = c /\ k.row \in {b, None}
        /\ k.arg.status = Keep /\ k.arg.position \in {0, Keep}
     \/ /\ k.op = "update" /\ k.scope \in {a, b} /\ k.row = Keep
        /\ k.arg.position = Keep /\ k.arg.status # Keep}

SectionSymmetry == Permutations(Sections) \cup Permutations(Txns)
TxnSymmetry == Permutations(Txns)
=============================================================================
