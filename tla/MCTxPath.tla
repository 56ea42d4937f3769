------------------------------ MODULE MCTxPath ------------------------------
(***************************************************************************)
(* Instances of TxPath for TLC.  A ring of 16 bytes holds two packets of 4 *)
(* bytes or one of 12, each with its length word, so both sides go round   *)
(* it within the bound on commands.                                        *)
(***************************************************************************)
EXTENDS TxPath

\* Everything the host may use.
PathCmds == {"AUTO", "PACKET", "WR_ADDR", "TRIGGER", "SEED", "SPREAD_FACTOR",
             "LOOPBACK", "FLOOD", "MEM_LOAD", "ADDR"}

\* A read pointer in the receive half.  That the receive path uses the
\* scrambler too is left to MCHbcMac.
RxAddr == {TxBytes + 4}

\* As little as a queued packet, and an acknowledged trigger, can be lost with.
QueueCmds   == {"AUTO", "PACKET", "WR_ADDR"}
TriggerCmds == {"TRIGGER"}
=============================================================================
