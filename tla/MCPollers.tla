------------------------------ MODULE MCPollers ------------------------------
(* Constants of Pollers for TLC: the followed poller beside one other program, *)
(* whose build embeds other migrations.                                        *)
EXTENDS Pollers, TLC

CONSTANTS poller, indexer   \* model values

TwoPrograms  == {poller, indexer}
ThreeVersions == {1, 2, 3}
TwoBuilds    == poller :> {1, 2, 3} @@ indexer :> {1, 3}
AllKinds     == {"difficulty", "template", "mempool"}
TwoAlgos     == {"RXM", "SHA3X"}
MappingOrder == [RXM |-> 1, SHA3X |-> 2]
=============================================================================
