------------------------------ MODULE MCBuildTx ------------------------------
(***************************************************************************)
(* Instances of BuildTx for TLC.  With codes of one bit a frame without    *)
(* payload is 15 words, which fit into a FIFO of 16, and one of 5 bytes is *)
(* 17 words, which do not; with the code's 32 bits the window of the       *)
(* delimiter has its real place.                                           *)
(***************************************************************************)
EXTENDS BuildTx
=============================================================================
