------------------------------ MODULE DramPort ------------------------------
(***************************************************************************)
(* The DRAM port (mem.c): a read and a write pointer that step with each   *)
(* access, two flags that keep a pointer inside its 16M half, and the      *)
(* memory test of CMD_MEM_TEST, one step per access.                       *)
(*                                                                         *)
(* External: the memory.  A faulty word does not read as it was written.   *)
(* Commands run with interrupts disabled, so nothing comes in between.     *)
(***************************************************************************)
EXTENDS Integers, FiniteSets

CONSTANTS
  MEM_SIZE,    \* bytes of DRAM
  MAX_ERRORS,  \* 0xff, the most mem_test replies
  Images,      \* what the host loads into DRAM
  Faults       \* the sets of words that may be faulty

ASSUME DramAssumption ==
  /\ MEM_SIZE \in Nat /\ MEM_SIZE > 0 /\ MEM_SIZE % 8 = 0
  /\ MAX_ERRORS \in Nat
  /\ \A f \in Faults : f \subseteq 0..(MEM_SIZE \div 4 - 1)

VARIABLES
  mem, faulty,        \* the memory
  rd_p, wr_p, flags,  \* the port
  scr,                \* position in the keystream of seed 0
  pc,                 \* the command in progress
  i, errors, saved,   \* mem_test's registers
  reply

port == <<rd_p, wr_p, flags>>
test == <<scr, i, errors, saved>>
dramvars == <<mem, faulty, port, test>>

-----------------------------------------------------------------------------
(* A word is the set of data and-ed into it, {} for all bits set.          *)

HALF      == MEM_SIZE \div 2
Words     == 0..(MEM_SIZE \div 4 - 1)
Word(p)   == (p % MEM_SIZE) \div 4
Key(k)    == {<<"key", k>>}

\* What a word reads as.
Stored(w) == IF w \in faulty THEN {<<"broken", w>>} ELSE mem[w]

\* A pointer n accesses on.
StepBy(p, n, wraps) == IF wraps THEN (p \div HALF) * HALF + ((p + 4 * n) % HALF)
                       ELSE (p + 4 * n) % MEM_SIZE

ReadOn(n)  == StepBy(rd_p, n, "READ_WRAP_16M" \in flags)
WriteOn(n) == StepBy(wr_p, n, "WRITE_WRAP_16M" \in flags)

BothWraps == {"READ_WRAP_16M", "WRITE_WRAP_16M"}

\* After mem_set_flags in main; pointers as after mem_set_*_p(0).
DramInit ==
  /\ mem = [w \in Words |-> {<<"junk", w>>}] /\ faulty \in Faults
  /\ rd_p = 0 /\ wr_p = 0 /\ flags = BothWraps
  /\ scr = 0 /\ i = 0 /\ errors = 0 /\ saved = {}
  /\ pc = "idle" /\ reply = 0

\* A MEM_LOAD of an image to address 0, with all its bytes: the write pointer is
\* set before each word and left after the last.
Load(image) ==
  /\ mem' = [w \in Words |-> IF 4 * w < HALF THEN {<<image, w>>} ELSE mem[w]]
  /\ wr_p' = StepBy(HALF - 4, 1, "WRITE_WRAP_16M" \in flags)
  /\ UNCHANGED <<faulty, rd_p, flags, test, pc, reply>>

-----------------------------------------------------------------------------
(* mem_test(MEM_SIZE)                                                      *)

TestBeginWith(f) ==
  /\ pc = "idle" /\ pc' = "Fill"
  /\ saved' = flags /\ flags' = f /\ wr_p' = 0 /\ scr' = 0 /\ i' = 0
  /\ UNCHANGED <<mem, faulty, rd_p, errors, reply>>

\* Mutant: the pointers go on wrapping.
TestBeginWrapped == TestBeginWith(flags)

\* mem_set_flags(0)
TestBegin == TestBeginWith({})

\* The compare loop's keystream begins at "key".
FillThen(key) ==
  /\ pc = "Fill"
  /\ IF i < MEM_SIZE \div 4
     THEN /\ mem' = [mem EXCEPT ![Word(wr_p)] = Key(scr)]
          /\ wr_p' = WriteOn(1) /\ scr' = scr + 1 /\ i' = i + 1
          /\ UNCHANGED <<pc, rd_p, errors>>
     ELSE /\ pc' = "Compare" /\ rd_p' = 0 /\ wr_p' = 0 /\ scr' = key /\ i' = 0
          /\ errors' = 0
          /\ UNCHANGED mem
  /\ UNCHANGED <<faulty, flags, saved, reply>>

\* Mutant: the scrambler is not reseeded between the loops.
FillUnseeded == FillThen(scr)

\* scrambler_reseed(0)
Fill == FillThen(0)

Compare ==
  /\ pc = "Compare" /\ i < MEM_SIZE \div 4
  /\ errors' = errors + (IF Stored(Word(rd_p)) = Key(scr) THEN 0 ELSE 1)
  /\ rd_p' = ReadOn(1) /\ scr' = scr + 1 /\ i' = i + 1
  /\ UNCHANGED <<mem, faulty, wr_p, flags, saved, pc, reply>>

Limited(n) == IF n > MAX_ERRORS THEN MAX_ERRORS ELSE n

TestEnd ==
  /\ pc = "Compare" /\ i = MEM_SIZE \div 4 /\ pc' = "idle"
  /\ rd_p' = 0 /\ wr_p' = 0 /\ scr' = 0 /\ flags' = saved
  /\ reply' = Limited(errors)
  /\ UNCHANGED <<mem, faulty, i, errors, saved>>
=============================================================================
