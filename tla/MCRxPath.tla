------------------------------ MODULE MCRxPath ------------------------------
(***************************************************************************)
(* Instances of RxPath for TLC.                                            *)
(***************************************************************************)
EXTENDS RxPath

Good  == [len |-> 4, size |-> 2, ok |-> TRUE,  seed |-> 1]
Short == [len |-> 6, size |-> 2, ok |-> TRUE,  seed |-> 1]
Bad   == [len |-> 4, size |-> 2, ok |-> FALSE, seed |-> 0]
Empty == [len |-> 4, size |-> 0, ok |-> TRUE,  seed |-> 0]

\* Every kind of packet, and the one that is simply forwarded.
AllKinds == {Good, Short, Bad, Empty}
GoodKind == {Good}

AllCmds  == {"RX_AUTO", "RX_FLOOD", "RX_READY", "RX_READ", "RX_NEXT",
             "RX_CHECK", "MEM_DUMP", "SCRAMBLER_READ"}
AutoCmd  == {"RX_AUTO"}
=============================================================================
