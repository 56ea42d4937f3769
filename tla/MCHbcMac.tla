------------------------------ MODULE MCHbcMac ------------------------------
(***************************************************************************)
(* An instance of HbcMac for TLC: packets long enough to be read in two    *)
(* interrupts, against frames of both branches.                            *)
(***************************************************************************)
EXTENDS HbcMac

Long  == [len |-> 6, size |-> 3, ok |-> TRUE,  seed |-> 1]

AirKinds == {Long}
HostCmds == {"AUTO", "PACKET", "TRIGGER", "LOOPBACK"}
RxHostCmds == {"RX_AUTO", "RX_FLOOD", "RX_READY", "RX_READ", "RX_NEXT", "RX_CHECK",
               "MEM_READ", "MEM_DUMP", "SCRAMBLER_READ"}

\* The addresses and the states of the scrambler the receive path may leave.
RxAddrs == {4} \cup {TxBytes + 4 * k : k \in 0..(TxBytes \div 4 + 4)}
RxKeys  == [seed : {0, 1}, pos : -1..8]
=============================================================================
