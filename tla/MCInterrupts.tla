---------------------------- MODULE MCInterrupts ----------------------------
(***************************************************************************)
(* An instance of Interrupts for TLC: four lines have handlers, as in      *)
(* main, which are not added in the order of priority, and one has none.   *)
(***************************************************************************)
EXTENDS Interrupts

AddedLines == <<2, 0, 4, 3>>
=============================================================================
