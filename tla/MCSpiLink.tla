----------------------------- MODULE MCSpiLink ------------------------------
(***************************************************************************)
(* Instances of SpiLink for TLC.  A packet has 2 bytes after its header    *)
(* (bytes 1 and 2); one command's load has its CRC and its one byte of     *)
(* data, 2 and 3, look like a header.                                      *)
(***************************************************************************)
EXTENDS SpiLink

Command(k, size, m) == [kind |-> k, n |-> size, marks |-> m]

Reply  == Command("reply", 0, {})
Dump   == Command("dump", 3, {})
Packet == Command("packet", 3, {})
Load   == Command("load", 1, {2, 3})

AllCommands == {Reply, Dump, Packet, Load}
=============================================================================
