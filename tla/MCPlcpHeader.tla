---------------------------- MODULE MCPlcpHeader ----------------------------
(***************************************************************************)
(* An instance of PlcpHeader for TLC.                                      *)
(***************************************************************************)
EXTENDS PlcpHeader

Header(rate, seed, length) ==
  [data_rate |-> rate, pilot_info |-> 6, burst_mode |-> 0,
   scrambler_seed |-> seed, PDSU_length |-> length]

\* Every length with either seed at every rate, undamaged; and some headers
\* with every burst of at most eight bits.
Undamaged ==
  {[fields |-> Header(r, s, n), error |-> {}] :
     r \in 0..3, s \in {0, 1}, n \in 0..255}

Bursts ==
  {{first} \cup {b \in (first + 1)..31 : b - first \in rest} :
     first \in 0..31, rest \in SUBSET (1..7)}

Damaged ==
  {[fields |-> f, error |-> e] :
     f \in {Header(0, 1, 0), Header(1, 0, 4), Header(3, 1, 255)}, e \in Bursts}

AllCases == Undamaged \cup Damaged
=============================================================================
