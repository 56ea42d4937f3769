------------------------------ MODULE MCFlash ------------------------------
(***************************************************************************)
(* An instance of Flash for TLC: three sectors of two pages of two words,  *)
(* and a DRAM whose halves are a little larger.  Writes start at a sector, *)
(* at a page inside one and inside a page, and are empty, odd, as long as  *)
(* a sector and longer.                                                    *)
(***************************************************************************)
EXTENDS Flash

SomeFaults == {{}, {1, 20}, {0, 9, 31}}
=============================================================================
