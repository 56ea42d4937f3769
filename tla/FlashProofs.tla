---------------------------- MODULE FlashProofs ----------------------------
(***************************************************************************)
(* Theorems about Flash, for every size of the DRAM, of the flash and of   *)
(* its pages and sectors, and every sequence of commands.                  *)
(***************************************************************************)
EXTENDS Flash, FiniteSetTheorems, TLAPS

-----------------------------------------------------------------------------
(* The chip is ready, and write enabled, whenever it is given a command.   *)

\* The chip is busy only while the firmware polls it.
ChipInv ==
  /\ ~ignored
  /\ pc \in {"SectorErase", "PageProgram"} => wel /\ ~wip
  /\ wip => pc \in {"PollErase", "PollProgram"}

\* The chip starts idle.
LEMMA ChipInit == Init => ChipInv
BY DEF Init, DramInit, ChipInv

\* A new command finds the chip ready, because the last one has waited.
LEMMA ChipCtrlCmd ==
  ASSUME ChipInv, CtrlCmd
  PROVE  ChipInv'
<1> USE DEF ChipInv, Command, chip
<1>1. ASSUME NEW v \in Images, HostLoad(v) PROVE ChipInv'
  BY <1>1 DEF HostLoad, Load
<1>2. ASSUME MemTest PROVE ChipInv'
  BY <1>2 DEF MemTest, TestBegin, TestBeginWith
<1>3. ASSUME FlashRead PROVE ChipInv'
  BY <1>3 DEF FlashRead, FlashReadFrom, ChipTakes
<1>4. ASSUME NEW a \in Addrs, FlashWriteAddr(a) PROVE ChipInv'
  BY <1>4 DEF FlashWriteAddr
<1>5. ASSUME NEW n \in Sizes, FlashWrite(n) PROVE ChipInv'
  BY <1>5 DEF FlashWrite
<1> QED
  BY <1>1, <1>2, <1>3, <1>4, <1>5 DEF CtrlCmd

\* The firmware enables each erase and program and waits for its end.
LEMMA ChipProcessor ==
  ASSUME ChipInv, Processor
  PROVE  ChipInv'
<1> USE DEF ChipInv, Goto, chip, write, history
<1>1. CASE EraseEnable
  BY <1>1 DEF EraseEnable, Enable, ChipEnable, ChipTakes
<1>2. CASE SectorErase
  BY <1>2 DEF SectorErase, ChipChange, ChipTakes
<1>3. CASE PollErase
  BY <1>3 DEF PollErase, Poll
<1>4. CASE EraseDone
  BY <1>4 DEF EraseDone
<1>5. CASE ProgramEnable
  BY <1>5 DEF ProgramEnable, Enable, ChipEnable, ChipTakes
<1>6. CASE PageProgram
  BY <1>6 DEF PageProgram, ChipChange, ChipTakes
<1>7. CASE PollProgram
  BY <1>7 DEF PollProgram, Poll
<1>8. CASE Verify
  BY <1>8 DEF Verify, ChipTakes
<1>9. CASE MemTestStep
  BY <1>9 DEF MemTestStep, Fill, FillThen, Compare, TestEnd
<1> QED
  BY <1>1, <1>2, <1>3, <1>4, <1>5, <1>6, <1>7, <1>8, <1>9 DEF Processor

\* Every step leaves the chip ready for the next command.
LEMMA ChipStep ==
  ASSUME ChipInv, [Next]_vars
  PROVE  ChipInv'
<1>1. CASE ChipDone
  BY <1>1 DEF ChipDone, ChipInv, history
<1>2. CASE UNCHANGED vars
  BY <1>2 DEF vars, chip, history, ChipInv
<1> QED
  BY <1>1, <1>2, ChipCtrlCmd, ChipProcessor DEF Next

\* Each erase and program is enabled anew and waited for, so the chip ignores
\* no command of the firmware, however long it is busy.
THEOREM ChipTakesAll == Spec => []NothingIgnored
<1>1. ChipInv => NothingIgnored
  BY DEF ChipInv, NothingIgnored
<1> QED
  BY <1>1, ChipInit, ChipStep, PTL DEF Spec

-----------------------------------------------------------------------------
(* Division, which turns addresses into pages and sectors.                 *)

\* What a quotient and a remainder are.
LEMMA DivOf ==
  ASSUME NEW a \in Nat, NEW d \in Nat, d > 0
  PROVE  /\ a \div d \in Nat
         /\ (a \div d) * d <= a /\ a < (a \div d) * d + d
         /\ a % d = a - (a \div d) * d
BY SMT

\* Multiplication is monotonic.
LEMMA TimesMonotonic ==
  ASSUME NEW a \in Int, NEW b \in Int, NEW d \in Nat, a <= b
  PROVE  a * d <= b * d
BY SMT

\* A number between two multiples has the lower one's quotient.
LEMMA DivIs ==
  ASSUME NEW a \in Nat, NEW d \in Nat, d > 0, NEW q \in Nat,
         q * d <= a, a < q * d + d
  PROVE  a \div d = q
<1>1. /\ a \div d \in Nat
      /\ (a \div d) * d <= a /\ a < (a \div d) * d + d
  BY DivOf
<1>2. CASE a \div d < q
  <2>1. (a \div d + 1) * d <= q * d
    BY <1>1, <1>2, TimesMonotonic
  <2> QED
    BY <1>1, <2>1
<1>3. CASE q < a \div d
  <2>1. (q + 1) * d <= (a \div d) * d
    BY <1>1, <1>3, TimesMonotonic
  <2> QED
    BY <1>1, <2>1
<1> QED
  BY <1>1, <1>2, <1>3

\* How many blocks of d bytes n bytes need: the sectors or pages of a write.
Blocks(n, d) == n \div d + (IF n % d = 0 THEN 0 ELSE 1)

\* Block s of d bytes holds one of the n bytes from a on, and two bytes are in
\* the same block.
Holds(s, d, a, n)  == \E b \in a..(a + n - 1) : b \div d = s
SameBlock(x, y, d) == x \div d = y \div d

\* As many blocks of d bytes as n bytes need, counted from the block of byte a,
\* each hold one of the n bytes from a on.
LEMMA BlocksAreTouched ==
  ASSUME NEW a \in Nat, NEW n \in Nat, NEW d \in Nat, d > 0, NEW s \in Nat,
         a \div d <= s,
         s < a \div d + Blocks(n, d)
  PROVE  Holds(s, d, a, n)
<1> USE DEF Holds
<1> DEFINE q == a \div d
           num == n \div d + (IF n % d = 0 THEN 0 ELSE 1)
<1>0. s < q + num
  BY DEF Blocks
<1>1. /\ q \in Nat /\ q * d <= a /\ a < q * d + d
      /\ n \div d \in Nat /\ (n \div d) * d <= n
      /\ n % d = n - (n \div d) * d
  BY DivOf
<1>2. (num - 1) * d <= n - 1
  <2>1. CASE n % d = 0
    <3>1. (num - 1) * d = (n \div d) * d - d
      BY <1>1, <2>1
    <3> QED
      BY <1>1, <3>1
  <2>2. CASE n % d # 0
    BY <1>1, <2>2
  <2> QED
    BY <2>1, <2>2
<1>3. CASE s = q
  <2>1. n >= 1
    <3>1. SUFFICES ASSUME n = 0 PROVE FALSE
      OBVIOUS
    <3>2. n \div d = 0 /\ n % d = 0
      BY <3>1, DivIs, <1>1
    <3> QED
      BY <1>0, <1>1, <1>3, <3>2
  <2>2. a \in a..(a + n - 1)
    BY <2>1
  <2> QED
    BY <1>3, <2>2
<1>4. CASE s > q
  <2>1. s - q <= num - 1 /\ num - 1 \in Int /\ s - q \in Int
    BY <1>0, <1>1
  <2>2. (s - q) * d <= (num - 1) * d
    BY <2>1, TimesMonotonic
  <2>3. (s - q) * d = s * d - q * d /\ s * d \in Nat
    BY <1>1
  <2>4. (q + 1) * d <= s * d
    BY <1>1, <1>4, TimesMonotonic
  <2>5. (q + 1) * d = q * d + d
    BY <1>1
  <2>6. s * d \in a..(a + n - 1)
    BY <1>1, <1>2, <2>2, <2>3, <2>4, <2>5
  <2>7. (s * d) \div d = s
    BY <2>3, DivIs
  <2> QED
    BY <2>6, <2>7
<1> QED
  BY <1>1, <1>3, <1>4

\* Bytes of one page are in one sector, since pages do not cross sectors.
LEMMA PagesInSectors ==
  ASSUME NEW p \in Nat, p > 0, NEW s \in Nat, s > 0, s % p = 0,
         NEW x \in Nat, NEW y \in Nat, SameBlock(x, y, p)
  PROVE  SameBlock(x, y, s)
<1> USE DEF SameBlock
<1> DEFINE k == s \div p
           q == x \div s
           c == x \div p
<1>1. k \in Nat /\ s = k * p
  BY DivOf
<1>2. q \in Nat /\ q * s <= x /\ x < q * s + s
  BY DivOf
<1>3. c \in Nat /\ c * p <= x /\ x < c * p + p /\ c * p <= y /\ y < c * p + p
  BY DivOf
<1>4. q * k \in Nat /\ (q * k) * p = q * s
  BY <1>1, <1>2
<1>5. q * k <= c
  <2>1. SUFFICES ASSUME c + 1 <= q * k PROVE FALSE
    BY <1>3, <1>4
  <2>2. (c + 1) * p <= (q * k) * p
    BY <1>3, <1>4, <2>1, TimesMonotonic
  <2> QED
    BY <1>2, <1>3, <1>4, <2>2
<1>6. c + 1 <= q * k + k
  <2>1. SUFFICES ASSUME q * k + k <= c PROVE FALSE
    BY <1>1, <1>3, <1>4
  <2>2. (q * k + k) * p <= c * p
    BY <1>1, <1>3, <1>4, <2>1, TimesMonotonic
  <2>3. (q * k + k) * p = q * s + s
    BY <1>1, <1>4
  <2> QED
    BY <1>2, <1>3, <2>2, <2>3
<1>7. q * s <= c * p
  BY <1>3, <1>4, <1>5, TimesMonotonic
<1>8. c * p + p <= q * s + s
  <2>1. (c + 1) * p <= (q * k + k) * p
    BY <1>1, <1>3, <1>4, <1>6, TimesMonotonic
  <2>2. (q * k + k) * p = q * s + s /\ (c + 1) * p = c * p + p
    BY <1>1, <1>3, <1>4
  <2> QED
    BY <2>1, <2>2
<1>9. q * s <= y /\ y < q * s + s
  BY <1>2, <1>3, <1>7, <1>8
<1> QED
  BY <1>2, <1>9, DivIs

-----------------------------------------------------------------------------
(* A write erases and programs only what it touches.                       *)

Erasing     == pc \in {"Erase", "SectorErase", "PollErase"}
Programming == pc \in {"Program", "PageProgram", "PollProgram"}

\* How many of the blocks left are still to be erased or programmed from at
\* on: left was counted down when the chip was enabled.
ToDo == left + (IF pc \in {"SectorErase", "PageProgram"} THEN 1 ELSE 0)

\* The loops go through the sectors and the pages of the write.
RangeInv ==
  /\ flash_addr \in Nat /\ size \in Nat /\ left \in Nat /\ at \in Nat
  /\ Erasing =>
       /\ flash_addr \div SECTOR_SIZE <= at
       /\ at + ToDo = flash_addr \div SECTOR_SIZE + flash_num_sectors(size)
  /\ Programming =>
       /\ flash_addr \div PAGE_SIZE <= at
       /\ at + ToDo = flash_addr \div PAGE_SIZE + flash_num_pages(size)

\* Some byte of the write is in the sector of word w.
Touched(w) ==
  \E b \in flash_addr..(flash_addr + size - 1) : b \div SECTOR_SIZE = SectorOf(w)

\* The counts of sectors and pages are natural numbers.
LEMMA CountsAreNat ==
  ASSUME NEW n \in Nat
  PROVE  /\ flash_num_sectors(n) \in Nat /\ flash_num_pages(n) \in Nat
         /\ n \div SECTOR_SIZE \in Nat /\ n \div PAGE_SIZE \in Nat
BY FlashAssumption, DivOf DEF flash_num_sectors, flash_num_pages

\* Nothing is being written at the start.
LEMMA RangeInit == Init => RangeInv
BY DEF Init, DramInit, RangeInv, Erasing, Programming

\* A command sets the range of a write or changes neither address nor size
\* while one is going on.
LEMMA RangeCtrlCmd ==
  ASSUME RangeInv, CtrlCmd
  PROVE  RangeInv'
<1> USE DEF RangeInv, Erasing, Programming, ToDo, Command, write
<1>1. ASSUME NEW v \in Images, HostLoad(v) PROVE RangeInv'
  BY <1>1 DEF HostLoad, Load
<1>2. ASSUME MemTest PROVE RangeInv'
  BY <1>2 DEF MemTest, TestBegin, TestBeginWith
<1>3. ASSUME FlashRead PROVE RangeInv'
  BY <1>3 DEF FlashRead, FlashReadFrom
<1>4. ASSUME NEW a \in Addrs, FlashWriteAddr(a) PROVE RangeInv'
  BY <1>4, FlashAssumption DEF FlashWriteAddr
<1>5. ASSUME NEW n \in Sizes, FlashWrite(n) PROVE RangeInv'
  <2>1. n \in Nat /\ flash_num_sectors(n) \in Nat
        /\ flash_addr \div SECTOR_SIZE \in Nat
    BY FlashAssumption, CountsAreNat
  <2> QED
    BY <1>5, <2>1 DEF FlashWrite
<1> QED
  BY <1>1, <1>2, <1>3, <1>4, <1>5 DEF CtrlCmd

\* Both loops count up as they count down.
LEMMA RangeProcessor ==
  ASSUME RangeInv, Processor
  PROVE  RangeInv'
<1>0. /\ flash_num_sectors(size) \in Nat /\ flash_num_pages(size) \in Nat
      /\ flash_addr \div SECTOR_SIZE \in Nat /\ flash_addr \div PAGE_SIZE \in Nat
  BY CountsAreNat DEF RangeInv
<1> USE <1>0 DEF RangeInv, Erasing, Programming, ToDo, Goto, write
<1>1. CASE EraseEnable
  BY <1>1 DEF EraseEnable, Enable
<1>2. CASE SectorErase
  BY <1>2 DEF SectorErase
<1>3. CASE PollErase
  BY <1>3 DEF PollErase, Poll
<1>4. CASE EraseDone
  BY <1>4 DEF EraseDone
<1>5. CASE ProgramEnable
  BY <1>5 DEF ProgramEnable, Enable
<1>6. CASE PageProgram
  BY <1>6 DEF PageProgram
<1>7. CASE PollProgram
  BY <1>7 DEF PollProgram, Poll
<1>8. CASE Verify
  BY <1>8 DEF Verify
<1>9. CASE MemTestStep
  BY <1>9 DEF MemTestStep, Fill, FillThen, Compare, TestEnd
<1> QED
  BY <1>1, <1>2, <1>3, <1>4, <1>5, <1>6, <1>7, <1>8, <1>9 DEF Processor

\* Every step keeps the loops in their range.
LEMMA RangeStep ==
  ASSUME RangeInv, [Next]_vars
  PROVE  RangeInv'
<1>1. CASE ChipDone
  BY <1>1 DEF ChipDone, RangeInv, Erasing, Programming, ToDo, write
<1>2. CASE UNCHANGED vars
  BY <1>2 DEF vars, write, RangeInv, Erasing, Programming, ToDo
<1> QED
  BY <1>1, <1>2, RangeCtrlCmd, RangeProcessor DEF Next

\* What the chip changes, the write touches.
LEMMA ChangesAreTouched ==
  ASSUME RangeInv, Processor, NEW w \in FlashWords, flash'[w] # flash[w]
  PROVE  Touched(w)
<1>0. /\ w \in Nat /\ 4 * w \in Nat /\ flash_addr \in Nat /\ size \in Nat
      /\ at \in Nat /\ left \in Nat
      /\ PAGE_SIZE \in Nat /\ PAGE_SIZE > 0 /\ SECTOR_SIZE \in Nat
      /\ SECTOR_SIZE > 0 /\ SECTOR_SIZE % PAGE_SIZE = 0
  BY FlashAssumption DEF RangeInv, FlashWords
<1>1. CASE SectorErase
  <2>1. SectorOf(w) = at
    BY <1>1 DEF SectorErase, ChipChange
  <2>2. /\ flash_addr \div SECTOR_SIZE <= at
        /\ at < flash_addr \div SECTOR_SIZE + flash_num_sectors(size)
    BY <1>0, <1>1, CountsAreNat
    DEF SectorErase, Goto, RangeInv, Erasing, ToDo
  <2>3. Holds(at, SECTOR_SIZE, flash_addr, size)
    <3>1. at < flash_addr \div SECTOR_SIZE + Blocks(size, SECTOR_SIZE)
      BY <2>2 DEF flash_num_sectors, Blocks
    <3> QED
      BY <1>0, <2>2, <3>1, BlocksAreTouched
  <2> QED
    BY <2>1, <2>3 DEF Touched, Holds
<1>2. CASE PageProgram
  <2>1. PageOf(w) = at
    BY <1>2 DEF PageProgram, ChipChange
  <2>2. /\ flash_addr \div PAGE_SIZE <= at
        /\ at < flash_addr \div PAGE_SIZE + flash_num_pages(size)
    BY <1>0, <1>2, CountsAreNat
    DEF PageProgram, Goto, RangeInv, Programming, ToDo
  <2>3. Holds(at, PAGE_SIZE, flash_addr, size)
    <3>1. at < flash_addr \div PAGE_SIZE + Blocks(size, PAGE_SIZE)
      BY <2>2 DEF flash_num_pages, Blocks
    <3> QED
      BY <1>0, <2>2, <3>1, BlocksAreTouched
  <2>4. PICK b \in flash_addr..(flash_addr + size - 1) : b \div PAGE_SIZE = at
    BY <2>3 DEF Holds
  <2>5. b \in Nat /\ SameBlock(b, 4 * w, PAGE_SIZE)
    BY <1>0, <2>1, <2>4 DEF PageOf, SameBlock
  <2>6. SameBlock(b, 4 * w, SECTOR_SIZE)
    BY <1>0, <2>5, PagesInSectors
  <2> QED
    BY <2>4, <2>6 DEF Touched, SectorOf, SameBlock
<1>3. CASE ~SectorErase /\ ~PageProgram
  <2>1. UNCHANGED flash
    BY <1>3 DEF Processor, EraseEnable, ProgramEnable, Enable, ChipEnable,
       PollErase, PollProgram, Poll, EraseDone, Verify, MemTestStep, chip
  <2> QED
    BY <2>1
<1> QED
  BY <1>1, <1>2, <1>3

\* Between two commands the history and the write's range stand still.
LEMMA ProcessorKeeps ==
  ASSUME Processor
  PROVE  UNCHANGED <<asked, before, flash_addr, size>>
BY DEF Processor, EraseEnable, ProgramEnable, Enable, SectorErase, PollErase,
   PollProgram, Poll, EraseDone, PageProgram, Verify, MemTestStep, history, write

\* A command starts from the flash it finds.
LEMMA CtrlCmdKeeps ==
  ASSUME CtrlCmd
  PROVE  UNCHANGED flash /\ before' = flash
BY DEF CtrlCmd, Command, HostLoad, MemTest, FlashRead, FlashReadFrom,
   FlashWriteAddr, FlashWrite, chip

\* No step disturbs what the command in progress does not touch.
LEMMA OthersStep ==
  ASSUME RangeInv, OthersKept, [Next]_vars
  PROVE  OthersKept'
<1>1. CASE CtrlCmd
  BY <1>1, CtrlCmdKeeps DEF OthersKept, FlashWords
<1>2. CASE Processor
  <2>1. SUFFICES ASSUME asked' = "FLASH_WRITE", NEW w \in FlashWords,
                        flash'[w] # before'[w]
                 PROVE  Touched(w)'
    BY DEF OthersKept, Touched, FlashWords, SectorOf
  <2>2. UNCHANGED <<asked, before, flash_addr, size>>
    BY <1>2, ProcessorKeeps
  <2>3. Touched(w)
    <3>1. CASE flash'[w] # flash[w]
      BY <1>2, <3>1, ChangesAreTouched
    <3>2. CASE flash'[w] = flash[w]
      BY <2>1, <2>2, <3>2 DEF OthersKept, Touched
    <3> QED
      BY <3>1, <3>2
  <2> QED
    BY <2>2, <2>3 DEF Touched, SectorOf
<1>3. CASE ChipDone
  BY <1>3 DEF ChipDone, OthersKept, FlashWords, SectorOf, write, history
<1>4. CASE UNCHANGED vars
  BY <1>4 DEF vars, chip, write, history, OthersKept, FlashWords, SectorOf
<1> QED
  BY <1>1, <1>2, <1>3, <1>4 DEF Next

\* Wherever a write starts and however long it is, no sector changes but those
\* of its bytes: the FPGA's configuration survives a write of the PSoC's.
THEOREM OtherSectorsSurvive == Spec => []OthersKept
<1>1. Init => OthersKept
  BY DEF Init, OthersKept
<1>2. RangeInv /\ OthersKept /\ [Next]_vars => (RangeInv /\ OthersKept)'
  BY RangeStep, OthersStep
<1> QED
  BY <1>1, <1>2, RangeInit, PTL DEF Spec

-----------------------------------------------------------------------------
(* The DRAM port.                                                          *)

LEMMA ModOf ==
  ASSUME NEW a \in Nat, NEW d \in Nat, d > 0
  PROVE  a % d \in 0..(d - 1) /\ (a < d => a % d = a)
<1>1. a < d => a \div d = 0
  BY DivIs
<1> QED BY <1>1, DivOf

\* The halves of the memory, and its words.
LEMMA MemorySizes ==
  /\ HALF \in Nat /\ HALF > 0 /\ MEM_SIZE = 2 * HALF /\ HALF % 4 = 0
  /\ MEM_SIZE \div 4 \in Nat /\ 4 * (MEM_SIZE \div 4) = MEM_SIZE
  /\ MEM_SIZE \in Nat /\ MEM_SIZE > 0
BY DramAssumption DEF HALF

\* However far it steps, a pointer stays in the memory.
LEMMA StepInMemory ==
  ASSUME NEW p \in 0..(MEM_SIZE - 1), NEW n \in Nat, NEW wraps
  PROVE  StepBy(p, n, wraps) \in 0..(MEM_SIZE - 1)
<1>1. /\ HALF \in Nat /\ HALF > 0 /\ MEM_SIZE = 2 * HALF
      /\ MEM_SIZE \in Nat /\ MEM_SIZE > 0
  BY MemorySizes
<1>2. p + 4 * n \in Nat
  OBVIOUS
<1>3. (p + 4 * n) % MEM_SIZE \in 0..(MEM_SIZE - 1)
  BY <1>1, <1>2, ModOf
<1>4. (p + 4 * n) % HALF \in 0..(HALF - 1)
  BY <1>1, <1>2, ModOf
<1>5. p \div HALF \in {0, 1}
  <2>1. p < HALF => p \div HALF = 0
    BY <1>1, DivIs
  <2>2. p >= HALF => p \div HALF = 1
    BY <1>1, DivIs
  <2> QED BY <1>1, <2>1, <2>2
<1>6. (p \div HALF) * HALF + ((p + 4 * n) % HALF) \in 0..(MEM_SIZE - 1)
  BY <1>1, <1>4, <1>5
<1> QED BY <1>3, <1>6 DEF StepBy

\* Without wrapping a pointer goes through the words one by one.
LEMMA StepOverWord ==
  ASSUME NEW k \in Nat, k < MEM_SIZE \div 4, NEW p, p = (4 * k) % MEM_SIZE
  PROVE  Word(p) = k /\ StepBy(p, 1, FALSE) = (4 * (k + 1)) % MEM_SIZE
<1>1. 4 * k \in Nat /\ 4 * k < MEM_SIZE /\ MEM_SIZE \in Nat /\ MEM_SIZE > 0
  BY MemorySizes
<1>2. p = 4 * k
  BY <1>1, ModOf
<1>3. p % MEM_SIZE = p
  BY <1>1, <1>2, ModOf
<1>4. Word(p) = k
  BY <1>2, <1>3 DEF Word
<1>5. p + 4 * 1 = 4 * (k + 1)
  BY <1>2
<1> QED BY <1>4, <1>5 DEF StepBy

-----------------------------------------------------------------------------
(* Types.                                                                  *)

\* Every variable is in the range of its type; what a memory test counts is
\* no more than it has looked at.
PortInv ==
  /\ DOMAIN mem = Words /\ DOMAIN flash = FlashWords
  /\ rd_p \in 0..(MEM_SIZE - 1) /\ wr_p \in 0..(MEM_SIZE - 1)
  /\ flags \subseteq BothWraps /\ saved \subseteq BothWraps
  /\ scr \in 0..(MEM_SIZE \div 4) /\ i \in 0..(MEM_SIZE \div 4)
  /\ errors \in 0..(MEM_SIZE \div 4)
  /\ pc \in {"Fill", "Compare"} => scr = i
  /\ pc = "Compare" => errors <= i
  /\ reply \in -1..MAX_ERRORS

Pcs == {"idle", "Erase", "SectorErase", "PollErase", "Program",
        "PageProgram", "PollProgram", "Fill", "Compare"}

SignalInv == pc \in Pcs /\ wel \in BOOLEAN /\ wip \in BOOLEAN

LEMMA PortInit == Init => PortInv /\ SignalInv
<1> SUFFICES ASSUME Init PROVE PortInv /\ SignalInv
  OBVIOUS
<1>1. SignalInv
  BY DEF Init, DramInit, SignalInv, Pcs
<1>2. PortInv
  <2>1. DOMAIN mem = Words /\ DOMAIN flash = FlashWords
    BY DEF Init, DramInit
  <2>2. flags \subseteq BothWraps /\ saved \subseteq BothWraps
    BY DEF Init, DramInit
  <2>3. rd_p = 0 /\ wr_p = 0 /\ scr = 0 /\ i = 0 /\ errors = 0 /\ reply = 0
        /\ pc = "idle"
    BY DEF Init, DramInit
  <2> QED BY <2>1, <2>2, <2>3, MemorySizes, DramAssumption DEF PortInv
<1> QED BY <1>1, <1>2

LEMMA SignalStep ==
  ASSUME SignalInv, [Next]_vars
  PROVE  SignalInv'
<1>1. wel' \in BOOLEAN /\ wip' \in BOOLEAN
  BY DEF SignalInv, Next, CtrlCmd, HostLoad, MemTest, FlashRead, FlashReadFrom,
     FlashWriteAddr, FlashWrite, Processor, EraseEnable, ProgramEnable, Enable,
     ChipEnable, SectorErase, PageProgram, ChipChange, PollErase, PollProgram,
     Poll, EraseDone, Verify, MemTestStep, ChipDone, chip, vars
<1>2. pc' \in Pcs
  BY DEF SignalInv, Pcs, Next, CtrlCmd, HostLoad, Load, MemTest, TestBegin,
     TestBeginWith, FlashRead, FlashReadFrom, FlashWriteAddr, FlashWrite,
     Processor, EraseEnable, ProgramEnable, Enable, Goto, SectorErase,
     PageProgram, PollErase, PollProgram, Poll, EraseDone, Verify, MemTestStep,
     Fill, FillThen, Compare, TestEnd, ChipDone, vars
<1> QED BY <1>1, <1>2 DEF SignalInv

\* Any number of accesses leaves both pointers in the memory.
LEMMA PointersStay ==
  ASSUME PortInv, NEW n \in Nat
  PROVE  ReadOn(n) \in 0..(MEM_SIZE - 1) /\ WriteOn(n) \in 0..(MEM_SIZE - 1)
BY StepInMemory DEF PortInv, ReadOn, WriteOn

\* The commands keep the port in range.
LEMMA PortCtrlCmd ==
  ASSUME PortInv, CtrlCmd
  PROVE  PortInv'
<1>0. HALF \div 4 \in Nat /\ FLASH_SIZE \div 4 \in Nat /\ 0 \in 0..(MEM_SIZE - 1)
      /\ MEM_SIZE \div 4 \in Nat
  BY MemorySizes, FlashAssumption, DivOf
<1> USE DEF PortInv, Command, write, chip, port, test, dramvars
<1>1. ASSUME NEW v \in Images, HostLoad(v) PROVE PortInv'
  <2>1. StepBy(HALF - 4, 1, "WRITE_WRAP_16M" \in flags) \in 0..(MEM_SIZE - 1)
    <3>1. HALF - 4 \in 0..(MEM_SIZE - 1)
      BY DramAssumption DEF HALF
    <3> QED
      BY <3>1, StepInMemory
  <2>2. (DOMAIN mem = Words)'
    BY <1>1 DEF HostLoad, Load, Words
  <2> QED
    BY <1>1, <2>1, <2>2 DEF HostLoad, Load, FlashWords
<1>2. ASSUME MemTest PROVE PortInv'
  BY <1>0, <1>2 DEF MemTest, TestBegin, TestBeginWith, Words, FlashWords
<1>3. ASSUME FlashRead PROVE PortInv'
  <2>1. wr_p' \in 0..(MEM_SIZE - 1)
    BY <1>0, <1>3, StepInMemory DEF FlashRead, FlashReadFrom
  <2>2. (DOMAIN mem = Words)'
    BY <1>3 DEF FlashRead, FlashReadFrom, Words
  <2>3. UNCHANGED <<flash, rd_p, flags, saved, scr, i, errors, reply, pc>>
    BY <1>3 DEF FlashRead, FlashReadFrom
  <2> QED
    BY <2>1, <2>2, <2>3 DEF FlashWords
<1>4. ASSUME NEW a \in Addrs, FlashWriteAddr(a) PROVE PortInv'
  BY <1>4 DEF FlashWriteAddr, Words, FlashWords
<1>5. ASSUME NEW n \in Sizes, FlashWrite(n) PROVE PortInv'
  BY <1>5 DEF FlashWrite, Words, FlashWords
<1> QED
  BY <1>1, <1>2, <1>3, <1>4, <1>5 DEF CtrlCmd

\* Programming and verifying leave the read pointer in the memory, the test its
\* counts in their range.
LEMMA PortProcessor ==
  ASSUME PortInv, RangeInv, Processor
  PROVE  PortInv'
<1>0. /\ PAGE_SIZE \div 4 \in Nat /\ size \div 4 \in Nat /\ MAX_ERRORS \in Nat
      /\ MEM_SIZE \div 4 \in Nat /\ 0 \in 0..(MEM_SIZE - 1)
  BY MemorySizes, FlashAssumption, DramAssumption, DivOf DEF RangeInv
<1> USE DEF PortInv, Goto, write, history, chip, port, test, dramvars
<1>1. CASE EraseEnable \/ ProgramEnable
  BY <1>1 DEF EraseEnable, ProgramEnable, Enable, ChipEnable, Words, FlashWords
<1>2. CASE SectorErase
  <2>1. (DOMAIN flash = FlashWords)'
    BY <1>2 DEF SectorErase, ChipChange, FlashWords
  <2> QED
    BY <1>2, <2>1 DEF SectorErase, Words
<1>3. CASE PollErase \/ PollProgram
  BY <1>3 DEF PollErase, PollProgram, Poll, Words, FlashWords
<1>4. CASE EraseDone
  BY <1>0, <1>4 DEF EraseDone, Words, FlashWords
<1>5. CASE PageProgram
  <2>1. (DOMAIN flash = FlashWords)'
    BY <1>5 DEF PageProgram, ChipChange, FlashWords
  <2>2. rd_p' \in 0..(MEM_SIZE - 1)
    BY <1>0, <1>5, PointersStay DEF PageProgram
  <2>3. UNCHANGED <<mem, wr_p, flags, saved, scr, i, errors, reply>>
        /\ pc' = "PollProgram"
    BY <1>5 DEF PageProgram
  <2> QED
    BY <2>1, <2>2, <2>3 DEF Words
<1>6. CASE Verify
  <2>1. rd_p' \in 0..(MEM_SIZE - 1)
    BY <1>0, <1>6, StepInMemory DEF Verify
  <2>2. reply' \in -1..MAX_ERRORS
    BY <1>0, <1>6 DEF Verify
  <2>3. UNCHANGED <<mem, flash, wr_p, flags, saved, scr, i, errors>>
        /\ pc' = "idle"
    BY <1>6 DEF Verify
  <2> QED
    BY <2>1, <2>2, <2>3 DEF Words, FlashWords
<1>7. CASE MemTestStep
  <2>0. UNCHANGED flash
    BY <1>7 DEF MemTestStep
  <2>1. CASE Fill /\ i < MEM_SIZE \div 4
    <3>1. (DOMAIN mem = Words)'
      BY <2>1 DEF Fill, FillThen, Words
    <3>2. wr_p' \in 0..(MEM_SIZE - 1)
      BY <2>1, PointersStay DEF Fill, FillThen
    <3>3. scr' = scr + 1 /\ i' = i + 1 /\ pc = "Fill"
          /\ UNCHANGED <<rd_p, flags, saved, errors, pc, reply>>
      BY <2>1 DEF Fill, FillThen
    <3> QED
      BY <1>0, <2>0, <2>1, <3>1, <3>2, <3>3 DEF FlashWords
  <2>2. CASE Fill /\ ~(i < MEM_SIZE \div 4)
    BY <1>0, <2>0, <2>2 DEF Fill, FillThen, Words, FlashWords
  <2>3. CASE Compare
    <3>1. rd_p' \in 0..(MEM_SIZE - 1)
      BY <2>3, PointersStay DEF Compare
    <3>2. errors' = errors \/ errors' = errors + 1
      BY <2>3 DEF Compare
    <3>3. /\ scr' = scr + 1 /\ i' = i + 1 /\ i < MEM_SIZE \div 4 /\ pc = "Compare"
          /\ UNCHANGED <<mem, wr_p, flags, saved, pc, reply>>
      BY <2>3 DEF Compare
    <3> QED
      BY <1>0, <2>0, <3>1, <3>2, <3>3 DEF Words, FlashWords
  <2>4. CASE TestEnd
    <3>1. reply' \in -1..MAX_ERRORS
      BY <1>0, <2>4 DEF TestEnd, Limited
    <3> QED
      BY <1>0, <2>0, <2>4, <3>1 DEF TestEnd, Words, FlashWords
  <2> QED
    BY <1>7, <2>1, <2>2, <2>3, <2>4 DEF MemTestStep
<1> QED
  BY <1>1, <1>2, <1>3, <1>4, <1>5, <1>6, <1>7 DEF Processor

\* Every step keeps the port in range.
LEMMA PortStep ==
  ASSUME PortInv, RangeInv, [Next]_vars
  PROVE  PortInv'
<1>1. CASE ChipDone
  BY <1>1 DEF ChipDone, PortInv, port, test, dramvars, Words, FlashWords
<1>2. CASE UNCHANGED vars
  BY <1>2 DEF vars, port, test, dramvars, chip, PortInv, Words, FlashWords
<1> QED
  BY <1>1, <1>2, PortCtrlCmd, PortProcessor DEF Next

\* Whatever the host asks for, both pointers stay in the DRAM, the counters in
\* their range, and a reply is a byte or -1.
THEOREM FlashTyped == Spec => []TypeOK
<1>1. RangeInv /\ PortInv /\ SignalInv => TypeOK
  BY DEF RangeInv, PortInv, SignalInv, Pcs, TypeOK
<1>2. RangeInv /\ PortInv /\ SignalInv /\ [Next]_vars
      => (RangeInv /\ PortInv /\ SignalInv)'
  BY RangeStep, PortStep, SignalStep
<1> QED
  BY <1>1, <1>2, RangeInit, PortInit, PTL DEF Spec

-----------------------------------------------------------------------------
(* The memory test.                                                        *)

Testing == pc \in {"Fill", "Compare"}
Writing == Erasing \/ Programming

\* The words that hold the keystream once it has filled k of them, and the
\* faulty words among the first k.
FilledTo(m, k)   == \A w \in Words : w < k => m[w] = Key(w)
FaultsBefore(f, k) == f \cap 0..(k - 1)

\* Only the test takes the wrapping away, and it gives it back; meanwhile the
\* pointers, the keystream and the count of errors go through the words
\* together.
TestInv ==
  /\ faulty \in Faults
  /\ Testing => asked = "MEM_TEST" /\ flags = {} /\ saved = BothWraps
  /\ ~Testing => flags = BothWraps
  /\ Writing => asked = "FLASH_WRITE"
  /\ pc = "Fill" => wr_p = (4 * i) % MEM_SIZE /\ FilledTo(mem, i)
  /\ pc = "Compare" =>
       /\ rd_p = (4 * i) % MEM_SIZE /\ FilledTo(mem, MEM_SIZE \div 4)
       /\ errors = Cardinality(FaultsBefore(faulty, i))
  /\ Answered("MEM_TEST") => reply = Limited(Cardinality(faulty))

\* One word more is one fault more, if it is faulty.
LEMMA OneMoreFault ==
  ASSUME NEW f \in Faults, NEW k \in Nat
  PROVE  Cardinality(FaultsBefore(f, k + 1))
           = Cardinality(FaultsBefore(f, k)) + (IF k \in f THEN 1 ELSE 0)
<1>1. IsFiniteSet(FaultsBefore(f, k))
  <2>1. IsFiniteSet(0..(k - 1))
    BY FS_Interval
  <2> QED
    BY <2>1, FS_Subset DEF FaultsBefore
<1>2. CASE k \in f
  <2>1. FaultsBefore(f, k + 1) = FaultsBefore(f, k) \cup {k}
        /\ k \notin FaultsBefore(f, k)
    BY <1>2 DEF FaultsBefore
  <2> QED
    BY <1>1, <1>2, <2>1, FS_AddElement
<1>3. CASE k \notin f
  <2>1. FaultsBefore(f, k + 1) = FaultsBefore(f, k)
    BY <1>3 DEF FaultsBefore
  <2>2. Cardinality(FaultsBefore(f, k)) \in Nat
    BY <1>1, FS_CardinalityType
  <2> QED
    BY <1>3, <2>1, <2>2
<1> QED
  BY <1>2, <1>3

\* No faults before the first word, all of them before the end.
LEMMA FaultsAtEnds ==
  ASSUME NEW f \in Faults
  PROVE  Cardinality(FaultsBefore(f, 0)) = 0 /\ FaultsBefore(f, MEM_SIZE \div 4) = f
<1>1. FaultsBefore(f, 0) = {}
  BY DEF FaultsBefore
<1>2. FaultsBefore(f, MEM_SIZE \div 4) = f
  BY DramAssumption DEF FaultsBefore
<1> QED
  BY <1>1, <1>2, FS_EmptySet

LEMMA TestInit == Init => TestInv
BY DEF Init, DramInit, TestInv, Testing, Writing, Erasing, Programming, Answered

\* Only MEM_TEST touches the wrapping, and it starts at the first word.
LEMMA TestCtrlCmd ==
  ASSUME PortInv, TestInv, CtrlCmd
  PROVE  TestInv'
<1>0. flags = BothWraps
  BY DEF CtrlCmd, HostLoad, MemTest, FlashRead, FlashReadFrom, FlashWriteAddr,
     FlashWrite, Command, TestInv, Testing
<1> USE DEF TestInv, Testing, Writing, Erasing, Programming, Answered, Command,
            port, test, dramvars
<1>1. ASSUME NEW v \in Images, HostLoad(v) PROVE TestInv'
  BY <1>1 DEF HostLoad, Load
<1>2. ASSUME MemTest PROVE TestInv'
  <2>1. /\ pc' = "Fill" /\ asked' = "MEM_TEST" /\ flags' = {} /\ saved' = flags
        /\ wr_p' = 0 /\ i' = 0 /\ UNCHANGED faulty
    BY <1>2 DEF MemTest, TestBegin, TestBeginWith
  <2>2. (wr_p = (4 * i) % MEM_SIZE)'
    BY <2>1, MemorySizes, ModOf
  <2>3. FilledTo(mem, i)'
    BY <2>1 DEF FilledTo, Words
  <2> QED
    BY <1>0, <2>1, <2>2, <2>3
<1>3. ASSUME FlashRead PROVE TestInv'
  BY <1>3 DEF FlashRead, FlashReadFrom
<1>4. ASSUME NEW a \in Addrs, FlashWriteAddr(a) PROVE TestInv'
  BY <1>4 DEF FlashWriteAddr
<1>5. ASSUME NEW n \in Sizes, FlashWrite(n) PROVE TestInv'
  BY <1>5 DEF FlashWrite
<1> QED
  BY <1>1, <1>2, <1>3, <1>4, <1>5 DEF CtrlCmd

\* The keystream fills word after word.
LEMMA TestFill ==
  ASSUME PortInv, TestInv, Fill, UNCHANGED asked
  PROVE  TestInv'
<1> USE DEF TestInv, Testing, Writing, Erasing, Programming, Answered
<1>0. i \in Nat /\ scr = i /\ i <= MEM_SIZE \div 4 /\ MEM_SIZE \div 4 \in Nat
  BY MemorySizes DEF PortInv, Fill, FillThen
<1>1. /\ asked' = "MEM_TEST" /\ flags' = {} /\ saved' = BothWraps
      /\ faulty' \in Faults
  BY DEF Fill, FillThen
<1>2. CASE i < MEM_SIZE \div 4
  <2>1. Word(wr_p) = i /\ WriteOn(1) = (4 * (i + 1)) % MEM_SIZE
    <3>1. WriteOn(1) = StepBy(wr_p, 1, FALSE)
      BY DEF Fill, FillThen, WriteOn, StepBy
    <3> QED
      BY <1>0, <1>2, <3>1, StepOverWord DEF Fill, FillThen
  <2>2. /\ pc' = "Fill" /\ i' = i + 1 /\ wr_p' = (4 * (i + 1)) % MEM_SIZE
        /\ mem' = [mem EXCEPT ![i] = Key(i)]
    BY <1>0, <1>2, <2>1 DEF Fill, FillThen
  <2>3. FilledTo(mem, i)'
    BY <1>0, <1>2, <2>2 DEF FilledTo, Words, PortInv, Fill, FillThen
  <2> QED
    BY <1>1, <2>2, <2>3
<1>3. CASE ~(i < MEM_SIZE \div 4)
  <2>1. pc' = "Compare" /\ rd_p' = 0 /\ i' = 0 /\ errors' = 0 /\ UNCHANGED mem
    BY <1>3 DEF Fill, FillThen
  <2>2. (rd_p = (4 * i) % MEM_SIZE)'
    BY <2>1, MemorySizes, ModOf
  <2>3. i = MEM_SIZE \div 4
    BY <1>0, <1>3
  <2>4. FilledTo(mem, MEM_SIZE \div 4)'
    BY <2>1, <2>3 DEF FilledTo, Words, Fill, FillThen
  <2>5. (errors = Cardinality(FaultsBefore(faulty, i)))'
    BY <1>1, <2>1, FaultsAtEnds
  <2> QED
    BY <1>1, <2>1, <2>2, <2>4, <2>5
<1> QED
  BY <1>2, <1>3

\* A word that reads as it was filled is not faulty, and the other way round.
LEMMA TestCompare ==
  ASSUME PortInv, TestInv, Compare, UNCHANGED asked
  PROVE  TestInv'
<1> USE DEF TestInv, Testing, Writing, Erasing, Programming, Answered
<1>0. i \in Nat /\ scr = i /\ i < MEM_SIZE \div 4 /\ MEM_SIZE \div 4 \in Nat
      /\ pc = "Compare"
  BY MemorySizes DEF PortInv, Compare
<1>1. /\ asked' = "MEM_TEST" /\ flags' = {} /\ saved' = BothWraps /\ i' = i + 1
      /\ faulty' = faulty /\ faulty \in Faults /\ pc' = "Compare" /\ mem' = mem
  BY DEF Compare
<1>2. Word(rd_p) = i /\ ReadOn(1) = (4 * (i + 1)) % MEM_SIZE
  <2>1. ReadOn(1) = StepBy(rd_p, 1, FALSE)
    BY <1>0 DEF ReadOn, StepBy
  <2> QED
    BY <1>0, <2>1, StepOverWord
<1>3. Stored(i) = Key(i) <=> i \notin faulty
  <2>1. mem[i] = Key(i)
    BY <1>0 DEF FilledTo, Words
  <2>2. {<<"broken", i>>} # Key(i)
    <3>1. <<"broken", i>>[1] # <<"key", i>>[1]
      OBVIOUS
    <3>2. <<"broken", i>> # <<"key", i>>
      BY <3>1
    <3> QED
      BY <3>2 DEF Key
  <2> QED
    BY <2>1, <2>2 DEF Stored
<1>4. errors' = Cardinality(FaultsBefore(faulty, i + 1))
  <2>1. errors' = errors + (IF i \in faulty THEN 1 ELSE 0)
    BY <1>0, <1>2, <1>3 DEF Compare
  <2> QED
    BY <1>0, <1>1, <2>1, OneMoreFault
<1>5. rd_p' = (4 * (i + 1)) % MEM_SIZE
  BY <1>2 DEF Compare
<1>6. FilledTo(mem', MEM_SIZE \div 4)
  BY <1>0, <1>1
<1> QED
  BY <1>1, <1>4, <1>5, <1>6 DEF FilledTo, Words

\* Past the last word every fault is counted.
LEMMA TestTestEnd ==
  ASSUME PortInv, TestInv, TestEnd, UNCHANGED asked
  PROVE  TestInv'
<1> USE DEF TestInv, Testing, Writing, Erasing, Programming, Answered
<1>1. errors = Cardinality(faulty)
  BY FaultsAtEnds DEF TestEnd
<1> QED
  BY <1>1 DEF TestEnd

\* The steps of a write leave the test alone.
LEMMA TestProcessor ==
  ASSUME PortInv, TestInv, Processor
  PROVE  TestInv'
<1>1. CASE MemTestStep
  BY <1>1, TestFill, TestCompare, TestTestEnd DEF MemTestStep, history
<1> USE DEF TestInv, Testing, Writing, Erasing, Programming, Answered, Goto,
            write, history, port, test, dramvars
<1>2. CASE EraseEnable \/ ProgramEnable
  BY <1>2 DEF EraseEnable, ProgramEnable, Enable
<1>3. CASE SectorErase
  BY <1>3 DEF SectorErase
<1>4. CASE PollErase \/ PollProgram
  BY <1>4 DEF PollErase, PollProgram, Poll
<1>5. CASE EraseDone
  BY <1>5 DEF EraseDone
<1>6. CASE PageProgram
  BY <1>6 DEF PageProgram
<1>7. CASE Verify
  BY <1>7 DEF Verify
<1> QED
  BY <1>1, <1>2, <1>3, <1>4, <1>5, <1>6, <1>7 DEF Processor

LEMMA TestStep ==
  ASSUME PortInv, TestInv, [Next]_vars
  PROVE  TestInv'
<1>1. CASE ChipDone
  BY <1>1 DEF ChipDone, TestInv, Testing, Writing, Erasing, Programming,
     Answered, port, test, dramvars, history, FilledTo, Words, FaultsBefore
<1>2. CASE UNCHANGED vars
  BY <1>2 DEF vars, TestInv, Testing, Writing, Erasing, Programming, Answered,
     port, test, dramvars, history, FilledTo, Words, FaultsBefore
<1> QED
  BY <1>1, <1>2, TestCtrlCmd, TestProcessor DEF Next

\* Whatever words are faulty, MEM_TEST counts each of them once, as far as its
\* reply goes, and leaves the wrapping of both pointers as it found it.
THEOREM MemTestCounts == Spec => []TestTellsFaults
<1>1. TestInv => TestTellsFaults
  BY DEF TestInv, TestTellsFaults, Answered, Testing
<1>2. RangeInv /\ PortInv /\ TestInv /\ [Next]_vars => (RangeInv /\ PortInv /\ TestInv)'
  BY RangeStep, PortStep, TestStep
<1> QED
  BY <1>1, <1>2, RangeInit, PortInit, TestInit, PTL DEF Spec

-----------------------------------------------------------------------------
(* Reading the flash back.                                                 *)

\* A word of the flash is a number, and has a word of the DRAM.
LEMMA FlashWordFits ==
  ASSUME NEW k \in FlashWords
  PROVE  k \in Nat /\ 4 * k < FLASH_SIZE /\ 4 * k < HALF /\ k \in Words
<1>1. /\ FLASH_SIZE \in Nat /\ FLASH_SIZE <= HALF
      /\ 4 * (FLASH_SIZE \div 4) <= FLASH_SIZE /\ FLASH_SIZE \div 4 \in Nat
  BY FlashAssumption, DivOf
<1> QED
  BY <1>1, MemorySizes DEF FlashWords, Words

\* From address 0 the wrapping pointer is at word k after k accesses, as long
\* as it does not leave the half.
LEMMA WordFromZero ==
  ASSUME NEW k \in Nat, 4 * k < HALF
  PROVE  StepBy(0, k, TRUE) = 4 * k /\ Word(4 * k) = k
<1>1. 0 \div HALF = 0
  BY MemorySizes, DivIs
<1>2. (0 + 4 * k) % HALF = 4 * k
  BY MemorySizes, ModOf
<1>3. StepBy(0, k, TRUE) = 4 * k
  BY <1>1, <1>2, MemorySizes DEF StepBy
<1>4. (4 * k) % MEM_SIZE = 4 * k
  BY MemorySizes, ModOf
<1>5. (4 * k) \div 4 = k
  BY DivIs
<1> QED
  BY <1>3, <1>4, <1>5 DEF Word

\* FLASH_READ copies each word of the flash to its place.
LEMMA ReadCopies ==
  ASSUME FlashRead, flags = BothWraps
  PROVE  \A k \in FlashWords : mem'[k] = flash[k]
<1> SUFFICES ASSUME NEW k \in FlashWords PROVE mem'[k] = flash[k]
  OBVIOUS
<1> DEFINE to(j) == Word(StepBy(0, j, "WRITE_WRAP_16M" \in flags))
<1>1. ASSUME NEW j \in FlashWords PROVE to(j) = j
  <2>1. ("WRITE_WRAP_16M" \in flags) = TRUE
    BY DEF BothWraps
  <2> QED
    BY <2>1, FlashWordFits, WordFromZero
<1>2. mem' = [w \in Words |->
                IF \E j \in FlashWords : to(j) = w
                THEN flash[CHOOSE j \in FlashWords : to(j) = w] ELSE mem[w]]
  BY DEF FlashRead, FlashReadFrom
<1> HIDE DEF to
<1>3. (CHOOSE j \in FlashWords : to(j) = k) = k
  <2>1. \E j \in FlashWords : to(j) = k
    BY <1>1
  <2> QED
    BY <1>1, <2>1
<1> QED
  BY <1>1, <1>2, <1>3, FlashWordFits

\* Until the next command nothing touches what has been read.
LEMMA ReadStep ==
  ASSUME TestInv, ReadsBack, [Next]_vars
  PROVE  ReadsBack'
<1>1. CASE FlashRead
  <2>1. flags = BothWraps /\ UNCHANGED flash
    BY <1>1 DEF FlashRead, FlashReadFrom, Command, TestInv, Testing, chip
  <2> QED
    BY <1>1, <2>1, ReadCopies DEF ReadsBack, FlashWords
<1>2. CASE CtrlCmd /\ ~FlashRead
  BY <1>2 DEF CtrlCmd, HostLoad, MemTest, FlashWriteAddr, FlashWrite, Command,
     ReadsBack, Answered
<1>3. CASE Processor
  <2>1. asked' # "FLASH_READ"
    BY <1>3, ProcessorKeeps
    DEF Processor, EraseEnable, ProgramEnable, Enable, SectorErase, PageProgram,
        PollErase, PollProgram, Poll, EraseDone, Verify, Goto, MemTestStep, Fill,
        FillThen, Compare, TestEnd, TestInv, Testing, Writing, Erasing, Programming
  <2> QED
    BY <2>1 DEF ReadsBack, Answered
<1>4. CASE ChipDone
  BY <1>4 DEF ChipDone, ReadsBack, Answered, FlashWords, dramvars, history
<1>5. CASE UNCHANGED vars
  BY <1>5 DEF vars, ReadsBack, Answered, FlashWords, dramvars, chip, history
<1> QED
  BY <1>1, <1>2, <1>3, <1>4, <1>5 DEF Next

\* Wherever earlier commands left the pointers, FLASH_READ brings every word of
\* the flash to its place in the DRAM.
THEOREM ReadBackIsWhole == Spec => []ReadsBack
<1>1. Init => ReadsBack
  BY DEF Init, ReadsBack, Answered
<1>2. RangeInv /\ PortInv /\ TestInv /\ ReadsBack /\ [Next]_vars
      => (RangeInv /\ PortInv /\ TestInv /\ ReadsBack)'
  BY RangeStep, PortStep, TestStep, ReadStep
<1> QED
  BY <1>1, <1>2, RangeInit, PortInit, TestInit, PTL DEF Spec

-----------------------------------------------------------------------------
(* A write that starts at a sector.                                        *)

\* The bytes written from a multiple of d on lie in the blocks counted for
\* them and in no other.
LEMMA BlocksHoldAll ==
  ASSUME NEW a \in Nat, NEW n \in Nat, NEW d \in Nat, d > 0, a % d = 0,
         NEW b \in a..(a + n - 1)
  PROVE  a \div d <= b \div d /\ b \div d < a \div d + Blocks(n, d)
<1> DEFINE q == a \div d
           c == b \div d
           m == Blocks(n, d)
<1>1. q \in Nat /\ a = q * d
  BY DivOf
<1>2. b \in Nat /\ c \in Nat /\ c * d <= b /\ b < c * d + d
  BY DivOf
<1>3. m \in Nat /\ n <= m * d
  <2>1. n \div d \in Nat /\ n < (n \div d) * d + d /\ n % d = n - (n \div d) * d
    BY DivOf
  <2>2. CASE n % d = 0
    <3>1. m = n \div d
      BY <2>1, <2>2 DEF Blocks
    <3> QED
      BY <2>1, <2>2, <3>1
  <2>3. CASE n % d # 0
    <3>1. m = n \div d + 1
      BY <2>3 DEF Blocks
    <3>2. (n \div d + 1) * d = (n \div d) * d + d
      BY <2>1
    <3> QED
      BY <2>1, <3>1, <3>2
  <2> QED
    BY <2>2, <2>3
<1> HIDE DEF q, c, m
<1>4. q <= c
  <2>1. SUFFICES ASSUME c + 1 <= q PROVE FALSE
    BY <1>1, <1>2
  <2>2. (c + 1) * d <= q * d
    BY <1>1, <1>2, <2>1, TimesMonotonic
  <2>3. (c + 1) * d = c * d + d
    BY <1>2
  <2> QED
    BY <1>1, <1>2, <2>2, <2>3
<1>5. c < q + m
  <2>1. SUFFICES ASSUME q + m <= c PROVE FALSE
    BY <1>1, <1>2, <1>3
  <2>2. (q + m) * d <= c * d
    BY <1>1, <1>2, <1>3, <2>1, TimesMonotonic
  <2>3. (q + m) * d = q * d + m * d
    BY <1>1, <1>3
  <2>4. b < a + n
    OBVIOUS
  <2> QED
    BY <1>1, <1>2, <1>3, <2>2, <2>3, <2>4
<1> QED
  BY <1>4, <1>5 DEF q, c, m

\* Two steps of a wrapping pointer are one step of their sum.
LEMMA ModAdds ==
  ASSUME NEW x \in Nat, NEW y \in Nat, NEW d \in Nat, d > 0
  PROVE  ((x % d) + y) % d = (x + y) % d
<1> DEFINE q == x \div d
           r == x % d
           c == (r + y) \div d
<1>1. q \in Nat /\ r \in Nat /\ x = q * d + r
  BY DivOf, ModOf
<1>2. c \in Nat /\ c * d <= r + y /\ r + y < c * d + d /\ (r + y) % d = r + y - c * d
  BY <1>1, DivOf
<1> HIDE DEF q, r, c
<1>3. (q + c) * d = q * d + c * d
  BY <1>1, <1>2
<1>4. (x + y) \div d = q + c
  <2>1. (q + c) * d <= x + y /\ x + y < (q + c) * d + d
    BY <1>1, <1>2, <1>3
  <2> QED
    BY <1>1, <1>2, <2>1, DivIs
<1>5. (x + y) % d = x + y - (q + c) * d
  <2>1. x + y \in Nat
    OBVIOUS
  <2>2. (x + y) % d = x + y - ((x + y) \div d) * d
    BY <2>1, DivOf
  <2> QED
    BY <1>4, <2>2
<1> QED
  BY <1>1, <1>2, <1>3, <1>5 DEF r

FirstSector == flash_addr \div SECTOR_SIZE
FirstPage   == flash_addr \div PAGE_SIZE
PageWords   == PAGE_SIZE \div 4
Contents    == [x \in Words |-> Stored(x)]

\* Words lo to hi are erased; of the n pages from lo on those before a hold the
\* data d, and the others are erased.
ErasedFor(f, lo, hi) == \A w \in FlashWords : SectorOf(w) \in lo..(hi - 1) => f[w] = {}
PagesHold(f, d, lo, n, a) ==
  \A w \in FlashWords :
    PageOf(w) \in lo..(lo + n - 1) =>
      f[w] = IF PageOf(w) < a THEN d[w - lo * PageWords] ELSE {}

\* The firmware erases the sectors one after another, then programs the pages
\* of the erased sectors, and the read pointer goes along with the pages.
WriteInv ==
  /\ Writing => flash_addr + size <= FLASH_SIZE
  /\ Erasing => ErasedFor(flash, FirstSector, at)
  /\ Programming =>
       /\ rd_p = ((at - FirstPage) * PAGE_SIZE) % HALF
       /\ flash_addr % SECTOR_SIZE = 0 =>
            PagesHold(flash, Contents, FirstPage, flash_num_pages(size), at)
  /\ WriteVerified

\* A page is a number of words.
LEMMA PageSizes ==
  /\ PAGE_SIZE \in Nat /\ PAGE_SIZE > 0 /\ SECTOR_SIZE \in Nat /\ SECTOR_SIZE > 0
  /\ SECTOR_SIZE % PAGE_SIZE = 0
  /\ PageWords \in Nat /\ PAGE_SIZE = 4 * PageWords
<1>1. PAGE_SIZE \div 4 \in Nat /\ PAGE_SIZE = 4 * (PAGE_SIZE \div 4)
  BY FlashAssumption, DivOf
<1> QED
  BY <1>1, FlashAssumption DEF PageWords

\* A page the write reaches is in a sector that has been erased.
LEMMA PagesAreErased ==
  ASSUME NEW a \in Nat, NEW n \in Nat, a % SECTOR_SIZE = 0, NEW w \in FlashWords,
         PageOf(w) \in (a \div PAGE_SIZE)..(a \div PAGE_SIZE + flash_num_pages(n) - 1)
  PROVE  SectorOf(w) \in (a \div SECTOR_SIZE)
                         ..(a \div SECTOR_SIZE + flash_num_sectors(n) - 1)
<1>0. /\ w \in Nat /\ 4 * w \in Nat /\ a \div PAGE_SIZE \in Nat
      /\ flash_num_pages(n) \in Nat /\ flash_num_sectors(n) \in Nat
      /\ a \div SECTOR_SIZE \in Nat
  BY FlashWordFits, CountsAreNat
<1>1. Holds(PageOf(w), PAGE_SIZE, a, n)
  <2>1. PageOf(w) \in Nat /\ PageOf(w) < a \div PAGE_SIZE + Blocks(n, PAGE_SIZE)
        /\ a \div PAGE_SIZE <= PageOf(w)
    BY <1>0 DEF flash_num_pages, Blocks
  <2> QED
    BY <2>1, PageSizes, BlocksAreTouched
<1>2. PICK b \in a..(a + n - 1) : b \div PAGE_SIZE = PageOf(w)
  BY <1>1 DEF Holds
<1>3. b \in Nat /\ SameBlock(b, 4 * w, PAGE_SIZE)
  BY <1>0, <1>2 DEF PageOf, SameBlock
<1>4. SameBlock(b, 4 * w, SECTOR_SIZE)
  BY <1>0, <1>3, PageSizes, PagesInSectors
<1>5. /\ a \div SECTOR_SIZE <= b \div SECTOR_SIZE
      /\ b \div SECTOR_SIZE < a \div SECTOR_SIZE + Blocks(n, SECTOR_SIZE)
  BY PageSizes, BlocksHoldAll
<1>6. SectorOf(w) = b \div SECTOR_SIZE /\ SectorOf(w) \in Nat
  BY <1>0, <1>3, <1>4, PageSizes, DivOf DEF SectorOf, SameBlock
<1>7. flash_num_sectors(n) = Blocks(n, SECTOR_SIZE)
  BY DEF flash_num_sectors, Blocks
<1> HIDE DEF flash_num_sectors
<1> QED
  BY <1>0, <1>5, <1>6, <1>7

\* While a page is programmed, each of its words is read from the word of the
\* DRAM that is as far from the start as it is from the start of the write.
LEMMA PageReadsOn ==
  ASSUME flags = BothWraps, NEW p \in Nat, at \in Nat, p <= at,
         rd_p = ((at - p) * PAGE_SIZE) % HALF
  PROVE  /\ ReadOn(PageWords) = ((at + 1 - p) * PAGE_SIZE) % HALF
         /\ \A w \in FlashWords : PageOf(w) = at =>
              /\ Word(ReadOn(w - at * PageWords)) = w - p * PageWords
              /\ w - p * PageWords \in Words
<1>0. HALF \in Nat /\ HALF > 0
  BY MemorySizes
<1>1. (at - p) * PAGE_SIZE \in Nat
  BY PageSizes
<1>2. rd_p \in 0..(HALF - 1) /\ rd_p \div HALF = 0
  BY <1>0, <1>1, ModOf, DivIs
<1>3. ASSUME NEW n \in Int PROVE ReadOn(n) = (rd_p + 4 * n) % HALF
  <2>1. ("READ_WRAP_16M" \in flags) = TRUE
    BY DEF BothWraps
  <2>2. ReadOn(n) = (rd_p \div HALF) * HALF + ((rd_p + 4 * n) % HALF)
    BY <2>1 DEF ReadOn, StepBy
  <2>3. (rd_p + 4 * n) % HALF \in Int
    BY <1>0, <1>2
  <2> QED
    BY <1>0, <1>2, <2>2, <2>3
<1>4. ReadOn(PageWords) = ((at + 1 - p) * PAGE_SIZE) % HALF
  <2>1. ReadOn(PageWords) = (rd_p + PAGE_SIZE) % HALF
    BY <1>3, PageSizes
  <2>2. (rd_p + PAGE_SIZE) % HALF = ((at - p) * PAGE_SIZE + PAGE_SIZE) % HALF
    BY <1>0, <1>1, PageSizes, ModAdds
  <2>3. (at - p) * PAGE_SIZE + PAGE_SIZE = (at + 1 - p) * PAGE_SIZE
    BY PageSizes
  <2> QED
    BY <2>1, <2>2, <2>3
<1>5. ASSUME NEW w \in FlashWords, PageOf(w) = at
      PROVE  Word(ReadOn(w - at * PageWords)) = w - p * PageWords
             /\ w - p * PageWords \in Words
  <2> DEFINE x == at * PageWords
             y == p * PageWords
  <2>1. w \in Nat /\ 4 * w < HALF
    BY <1>5, FlashWordFits
  <2>2. /\ x \in Nat /\ y \in Nat /\ at * PAGE_SIZE = 4 * x
        /\ (at - p) * PAGE_SIZE = 4 * x - 4 * y
    BY PageSizes
  <2>3. 4 * x <= 4 * w
    BY <1>5, <2>1, <2>2, PageSizes, DivOf DEF PageOf
  <2> HIDE DEF x, y
  <2>4. rd_p = 4 * x - 4 * y
    BY <1>0, <1>1, <2>1, <2>2, <2>3, ModOf
  <2>5. rd_p + 4 * (w - x) = 4 * (w - y) /\ w - y \in Nat /\ 4 * (w - y) < HALF
    <3>1. x \in Nat /\ y \in Nat /\ 4 * x - 4 * y \in Nat
      BY <1>1, <2>2
    <3> QED
      BY ONLY <1>0, <2>1, <2>3, <2>4, <3>1
  <2>6. ReadOn(w - x) = 4 * (w - y)
    <3>1. ReadOn(w - x) = (rd_p + 4 * (w - x)) % HALF
      BY <1>3, <2>1, <2>2
    <3>2. 4 * (w - y) \in Nat
      BY <2>5
    <3> QED
      BY <1>0, <2>5, <3>1, <3>2, ModOf
  <2>7. Word(4 * (w - y)) = w - y
    BY <2>5, WordFromZero
  <2>8. w - y \in Words
    BY <2>5, MemorySizes DEF Words
  <2> QED
    BY <2>6, <2>7, <2>8 DEF x, y
<1> QED
  BY <1>4, <1>5

\* Every word is in a page and in a sector.
LEMMA BlocksOfWords ==
  ASSUME NEW w \in FlashWords
  PROVE  PageOf(w) \in Nat /\ SectorOf(w) \in Nat
<1>1. 4 * w \in Nat
  BY FlashWordFits
<1> QED
  BY <1>1, PageSizes, DivOf DEF PageOf, SectorOf

LEMMA WriteInit == Init => WriteInv
BY DEF Init, DramInit, WriteInv, Writing, Erasing, Programming, WriteVerified, Answered

\* A write starts with no sector erased and inside the flash.
LEMMA WriteCtrlCmd ==
  ASSUME RangeInv, CtrlCmd
  PROVE  WriteInv'
<1> USE DEF WriteInv, Writing, Erasing, Programming, WriteVerified, Answered, Command
<1>1. CASE CtrlCmd /\ ~\E n \in Sizes : FlashWrite(n)
  <2>1. pc' \in {"idle", "Fill"} /\ asked' # "FLASH_WRITE"
    BY <1>1 DEF CtrlCmd, HostLoad, Load, MemTest, TestBegin, TestBeginWith,
       FlashRead, FlashReadFrom, FlashWriteAddr
  <2> QED
    BY <2>1
<1>2. ASSUME NEW n \in Sizes, FlashWrite(n) PROVE WriteInv'
  <2>1. /\ pc' = "Erase" /\ flash_addr' = flash_addr /\ size' = n
        /\ at' = FirstSector /\ flash_addr + n <= FLASH_SIZE
    BY <1>2 DEF FlashWrite, FirstSector
  <2>2. FirstSector \in Nat
    BY PageSizes, DivOf DEF RangeInv, FirstSector
  <2>3. ErasedFor(flash, FirstSector, at)'
    BY <2>1, <2>2 DEF ErasedFor, FirstSector
  <2> QED
    BY <2>1, <2>3
<1> QED
  BY <1>1, <1>2

\* One sector more is erased.
LEMMA WriteErase ==
  ASSUME ChipInv, RangeInv, WriteInv, SectorErase
  PROVE  WriteInv'
<1>1. /\ pc = "SectorErase" /\ pc' = "PollErase" /\ at' = at + 1
      /\ flash' = [w \in FlashWords |-> IF SectorOf(w) = at THEN {} ELSE flash[w]]
      /\ UNCHANGED <<flash_addr, size>>
  BY DEF SectorErase, Goto, ChipChange, ChipInv
<1>2. FirstSector \in Nat /\ at \in Nat /\ FirstSector' = FirstSector
      /\ \A w \in FlashWords : SectorOf(w) \in Nat
  BY <1>1, PageSizes, FlashWordFits, DivOf DEF RangeInv, FirstSector, SectorOf
<1>3. ErasedFor(flash, FirstSector, at)
  BY <1>1 DEF WriteInv, Erasing
<1>4. ErasedFor(flash', FirstSector, at + 1)
  BY <1>1, <1>2, <1>3 DEF ErasedFor
<1>5. ErasedFor(flash, FirstSector, at)'
  BY <1>1, <1>2, <1>4 DEF ErasedFor, FlashWords, SectorOf
<1> QED
  BY <1>1, <1>5
  DEF WriteInv, Writing, Erasing, Programming, WriteVerified, Answered

\* With the sectors, all pages are erased.
LEMMA WriteEraseDone ==
  ASSUME RangeInv, WriteInv, EraseDone
  PROVE  WriteInv'
<1>1. /\ pc = "Erase" /\ pc' = "Program" /\ left = 0 /\ at' = FirstPage /\ rd_p' = 0
      /\ UNCHANGED <<flash, flash_addr, size, mem, faulty>>
  BY DEF EraseDone, Goto, chip, FirstPage
<1>2. /\ flash_addr \in Nat /\ size \in Nat /\ FirstPage \in Nat /\ FirstSector \in Nat
      /\ FirstPage' = FirstPage /\ flash_num_sectors(size) \in Nat
      /\ \A w \in FlashWords : PageOf(w) \in Nat
  BY <1>1, PageSizes, BlocksOfWords, CountsAreNat, DivOf
  DEF RangeInv, FirstSector, FirstPage
<1>3. at = FirstSector + flash_num_sectors(size)
  BY <1>1, <1>2 DEF RangeInv, Erasing, ToDo, FirstSector
<1>4. (rd_p = ((at - FirstPage) * PAGE_SIZE) % HALF)'
  <2>1. (FirstPage - FirstPage) * PAGE_SIZE = 0
    BY <1>2, PageSizes
  <2> QED
    BY <1>1, <1>2, <2>1, MemorySizes, ModOf
<1>5. ASSUME flash_addr % SECTOR_SIZE = 0
      PROVE  PagesHold(flash, Contents', FirstPage, flash_num_pages(size), FirstPage)
  <2>1. SUFFICES ASSUME NEW w \in FlashWords,
                        PageOf(w) \in FirstPage..(FirstPage + flash_num_pages(size) - 1)
                 PROVE  flash[w] = {} /\ ~(PageOf(w) < FirstPage)
    BY DEF PagesHold
  <2>2. SectorOf(w) \in FirstSector..(at - 1)
    BY <1>2, <1>3, <1>5, <2>1, PagesAreErased DEF FirstPage, FirstSector
  <2> QED
    BY <1>1, <1>2, <2>1, <2>2 DEF WriteInv, Erasing, ErasedFor
<1>6. (flash_addr % SECTOR_SIZE = 0 =>
         PagesHold(flash, Contents, FirstPage, flash_num_pages(size), at))'
  BY <1>1, <1>2, <1>5
  DEF PagesHold, FlashWords, PageOf, PageWords, flash_num_pages
<1> QED
  BY <1>1, <1>4, <1>6
  DEF WriteInv, Writing, Erasing, Programming, WriteVerified, Answered

\* One page more holds its words of the DRAM.
LEMMA WriteProgram ==
  ASSUME ChipInv, RangeInv, TestInv, WriteInv, PageProgram
  PROVE  WriteInv'
<1> DEFINE datum(w) == Stored(Word(ReadOn(w - at * PageWords)))
<1>1. /\ pc = "PageProgram" /\ pc' = "PollProgram" /\ at' = at + 1
      /\ rd_p' = ReadOn(PageWords)
      /\ flash' = [w \in FlashWords |->
                     IF PageOf(w) = at THEN flash[w] \cup datum(w) ELSE flash[w]]
      /\ UNCHANGED <<flash_addr, size, mem, faulty>>
  BY DEF PageProgram, Goto, ChipChange, ChipInv, PageWords
<1>2. /\ flags = BothWraps /\ rd_p = ((at - FirstPage) * PAGE_SIZE) % HALF
      /\ flash_addr % SECTOR_SIZE = 0 =>
           PagesHold(flash, Contents, FirstPage, flash_num_pages(size), at)
      /\ flash_addr + size <= FLASH_SIZE
  BY <1>1 DEF TestInv, Testing, WriteInv, Writing, Programming
<1>3. /\ FirstPage \in Nat /\ at \in Nat /\ FirstPage <= at
      /\ FirstPage' = FirstPage /\ Contents' = Contents
      /\ \A w \in FlashWords : PageOf(w) \in Nat
  BY <1>1, PageSizes, BlocksOfWords, DivOf
  DEF RangeInv, Programming, FirstPage, Contents, Stored, Words
<1>4. /\ ReadOn(PageWords) = ((at + 1 - FirstPage) * PAGE_SIZE) % HALF
      /\ \A w \in FlashWords : PageOf(w) = at =>
           /\ Word(ReadOn(w - at * PageWords)) = w - FirstPage * PageWords
           /\ w - FirstPage * PageWords \in Words
  BY <1>2, <1>3, PageReadsOn
<1>5. ASSUME NEW w \in FlashWords, PageOf(w) = at
      PROVE  datum(w) = Contents[w - FirstPage * PageWords]
  BY <1>4, <1>5 DEF Contents
<1> HIDE DEF datum
<1>6. ASSUME flash_addr % SECTOR_SIZE = 0
      PROVE  PagesHold(flash', Contents, FirstPage, flash_num_pages(size), at + 1)
  <2>1. SUFFICES ASSUME NEW w \in FlashWords,
                        PageOf(w) \in FirstPage..(FirstPage + flash_num_pages(size) - 1)
                 PROVE  flash'[w] = IF PageOf(w) < at + 1
                                    THEN Contents[w - FirstPage * PageWords] ELSE {}
    BY DEF PagesHold
  <2>2. flash[w] = IF PageOf(w) < at THEN Contents[w - FirstPage * PageWords] ELSE {}
    BY <1>2, <1>6, <2>1 DEF PagesHold
  <2>3. CASE PageOf(w) = at
    <3>1. flash[w] = {} /\ PageOf(w) < at + 1
      BY <1>3, <2>2, <2>3
    <3>2. flash'[w] = {} \cup datum(w)
      BY <1>1, <2>3, <3>1
    <3> QED
      BY <1>5, <2>3, <3>1, <3>2
  <2>4. CASE PageOf(w) # at
    <3>1. flash'[w] = flash[w] /\ (PageOf(w) < at + 1 <=> PageOf(w) < at)
      BY <1>1, <1>3, <2>4
    <3> QED
      BY <2>2, <3>1
  <2> QED
    BY <2>3, <2>4
<1>7. (flash_addr % SECTOR_SIZE = 0 =>
         PagesHold(flash, Contents, FirstPage, flash_num_pages(size), at))'
  BY <1>1, <1>3, <1>6
  DEF PagesHold, FlashWords, PageOf, PageWords, flash_num_pages
<1>8. (rd_p = ((at - FirstPage) * PAGE_SIZE) % HALF)'
  BY <1>1, <1>3, <1>4
<1> QED
  BY <1>1, <1>2, <1>7, <1>8
  DEF WriteInv, Writing, Erasing, Programming, WriteVerified, Answered

\* When all pages are programmed, every word that has a byte of the write holds
\* its word of the DRAM.
LEMMA WrittenIsThere ==
  ASSUME RangeInv, TestInv, WriteInv, pc = "Program", left = 0,
         flash_addr % SECTOR_SIZE = 0, NEW k \in 0..((size + 3) \div 4 - 1)
  PROVE  There(k)
<1> DEFINE w == FirstPage * PageWords + k
<1>0. flash_addr \in Nat /\ size \in Nat /\ FirstPage \in Nat /\ at \in Nat
      /\ flash_num_pages(size) \in Nat
  BY PageSizes, CountsAreNat, DivOf DEF RangeInv, FirstPage
<1>1. flash_addr = FirstPage * PAGE_SIZE /\ flash_addr % PAGE_SIZE = 0
  <2>1. (0 \div SECTOR_SIZE) * SECTOR_SIZE = 0 /\ SameBlock(0, 0, PAGE_SIZE)
    BY PageSizes, DivIs DEF SameBlock
  <2>2. flash_addr = (flash_addr \div SECTOR_SIZE) * (SECTOR_SIZE \div PAGE_SIZE) * PAGE_SIZE
    BY <1>0, PageSizes, DivOf
  <2>3. (flash_addr \div SECTOR_SIZE) * (SECTOR_SIZE \div PAGE_SIZE) \in Nat
    BY <1>0, PageSizes, DivOf
  <2>4. FirstPage = (flash_addr \div SECTOR_SIZE) * (SECTOR_SIZE \div PAGE_SIZE)
    BY <1>0, <2>2, <2>3, PageSizes, DivIs DEF FirstPage
  <2>5. flash_addr = FirstPage * PAGE_SIZE
    BY <2>2, <2>4
  <2> QED
    BY <1>0, <2>5, PageSizes, DivOf DEF FirstPage
<1>2. flash_addr = 4 * (FirstPage * PageWords) /\ FirstPage * PageWords \in Nat
  BY <1>0, <1>1, PageSizes
<1>3. k \in Nat /\ 4 * k < size /\ w \in Nat /\ 4 * w = flash_addr + 4 * k
  <2>1. (size + 3) \div 4 \in Nat /\ 4 * ((size + 3) \div 4) <= size + 3
    BY <1>0, DivOf
  <2> QED
    BY <1>0, <1>2, <2>1
<1> HIDE DEF w
<1>4. w \in FlashWords
  <2>1. 4 * w < FLASH_SIZE
    BY <1>0, <1>3, FlashAssumption DEF WriteInv, Writing, Programming
  <2>2. FLASH_SIZE \in Nat /\ FLASH_SIZE = 4 * (FLASH_SIZE \div 4)
        /\ FLASH_SIZE \div 4 \in Nat
    <3>1. FLASH_SIZE = (FLASH_SIZE \div SECTOR_SIZE) * SECTOR_SIZE
          /\ FLASH_SIZE \div SECTOR_SIZE \in Nat /\ FLASH_SIZE \in Nat
      BY FlashAssumption, DivOf
    <3>2. SECTOR_SIZE = (SECTOR_SIZE \div PAGE_SIZE) * PAGE_SIZE
          /\ SECTOR_SIZE \div PAGE_SIZE \in Nat
      BY PageSizes, DivOf
    <3> DEFINE x == (FLASH_SIZE \div SECTOR_SIZE)
               y == (SECTOR_SIZE \div PAGE_SIZE)
    <3>3. x * y * PageWords \in Nat /\ FLASH_SIZE = (x * y * PageWords) * 4
      BY <3>1, <3>2, PageSizes
    <3>4. FLASH_SIZE \div 4 = x * y * PageWords
      BY <3>1, <3>3, DivIs
    <3> QED
      BY <3>1, <3>3, <3>4
  <2> QED
    BY <1>3, <2>1, <2>2 DEF FlashWords
<1>5. PageOf(w) \in FirstPage..(FirstPage + flash_num_pages(size) - 1)
  <2>1. 4 * w \in flash_addr..(flash_addr + size - 1)
    BY <1>0, <1>3
  <2>2. /\ flash_addr \div PAGE_SIZE <= (4 * w) \div PAGE_SIZE
        /\ (4 * w) \div PAGE_SIZE < flash_addr \div PAGE_SIZE + Blocks(size, PAGE_SIZE)
    BY <1>0, <1>1, <2>1, PageSizes, BlocksHoldAll
  <2>3. (4 * w) \div PAGE_SIZE \in Nat
    BY <1>3, PageSizes, DivOf
  <2>4. Blocks(size, PAGE_SIZE) = flash_num_pages(size)
    BY DEF Blocks, flash_num_pages
  <2> HIDE DEF flash_num_pages
  <2> QED
    BY <1>0, <2>2, <2>3, <2>4 DEF PageOf, FirstPage
<1>6. at = FirstPage + flash_num_pages(size)
  BY <1>0 DEF RangeInv, Programming, ToDo, FirstPage
<1>7. flash[w] = Contents[w - FirstPage * PageWords]
  BY <1>0, <1>4, <1>5, <1>6 DEF WriteInv, Programming, PagesHold
<1>8. w - FirstPage * PageWords = k /\ flash_addr \div 4 + k = w
  BY <1>0, <1>2, <1>3, DivIs DEF w
<1>9. Wanted(k) = Stored(k) /\ k \in Words
  <2>1. ("READ_WRAP_16M" \in flags) = TRUE
    BY DEF TestInv, Testing, BothWraps
  <2>2. 4 * k < HALF
    <3>1. 4 * w < HALF
      BY <1>4, FlashWordFits
    <3> QED
      BY <1>0, <1>3, <3>1, MemorySizes
  <2> QED
    <3>1. StepBy(0, k, TRUE) = 4 * k /\ Word(4 * k) = k
      BY <1>3, <2>2, WordFromZero
    <3>2. k \in Words
      BY <1>3, <2>2, MemorySizes DEF Words
    <3> QED
      BY <2>1, <3>1, <3>2 DEF Wanted
<1> QED
  BY <1>7, <1>8, <1>9 DEF There, Contents

\* The reply tells what there is in the flash.
LEMMA WriteVerify ==
  ASSUME RangeInv, TestInv, WriteInv, Verify
  PROVE  WriteInv'
<1>1. /\ pc = "Program" /\ pc' = "idle" /\ left = 0
      /\ reply' = IF \A k \in 0..(size \div 4 - 1) : There(k) THEN 0 ELSE -1
      /\ UNCHANGED <<flash, flash_addr, size, mem, faulty, flags>>
  BY DEF Verify, Goto, chip, write
<1>2. ASSUME NEW k PROVE There(k)' <=> There(k)
  BY <1>1 DEF There, Wanted, Stored
<1>3. ASSUME flash_addr % SECTOR_SIZE = 0
      PROVE  reply' = 0 /\ \A k \in 0..((size + 3) \div 4 - 1) : There(k)
  <2>1. \A k \in 0..((size + 3) \div 4 - 1) : There(k)
    BY <1>1, <1>3, WrittenIsThere
  <2>2. 0..(size \div 4 - 1) \subseteq 0..((size + 3) \div 4 - 1)
    BY DEF RangeInv
  <2> QED
    BY <1>1, <2>1, <2>2
<1>4. ASSUME reply' = 0 PROVE \A k \in 0..(size \div 4 - 1) : There(k)
  BY <1>1, <1>4
<1> HIDE DEF There
<1>5. WriteVerified'
  BY <1>1, <1>2, <1>3, <1>4 DEF WriteVerified
<1> QED
  BY <1>1, <1>5 DEF WriteInv, Writing, Erasing, Programming

\* The other steps leave flash, DRAM and range alone.
LEMMA WriteSame ==
  ASSUME WriteInv, pc' \in Pcs, Erasing' <=> Erasing, Programming' <=> Programming,
         pc' = "idle" <=> pc = "idle",
         UNCHANGED <<flash, flash_addr, size, at, mem, faulty, flags, rd_p, reply, asked>>
  PROVE  WriteInv'
<1>1. Contents' = Contents /\ FirstPage' = FirstPage /\ FirstSector' = FirstSector
  BY DEF Contents, Stored, Words, FirstPage, FirstSector
<1>2. ASSUME NEW k PROVE There(k)' <=> There(k)
  BY DEF There, Wanted, Stored
<1>3. WriteVerified'
  BY <1>2 DEF WriteInv, WriteVerified, Answered
<1> QED
  BY <1>1, <1>3 DEF WriteInv, Writing, ErasedFor, PagesHold, FlashWords, SectorOf,
     PageOf, PageWords, flash_num_pages

\* The loops erase, program and verify, and nothing else touches a write.
LEMMA WriteProcessor ==
  ASSUME ChipInv, RangeInv, SignalInv, TestInv, WriteInv, Processor, SignalInv'
  PROVE  WriteInv'
<1>0. pc' \in Pcs
  BY DEF SignalInv
<1>1. CASE SectorErase
  BY <1>1, WriteErase
<1>2. CASE EraseDone
  BY <1>2, WriteEraseDone
<1>3. CASE PageProgram
  BY <1>3, WriteProgram
<1>4. CASE Verify
  BY <1>4, WriteVerify
<1>5. CASE MemTestStep
  <2>1. asked' = "MEM_TEST" /\ pc' \in {"Fill", "Compare", "idle"}
    BY <1>5 DEF MemTestStep, Fill, FillThen, Compare, TestEnd, history, TestInv,
       Testing
  <2> QED
    BY <2>1 DEF WriteInv, Writing, Erasing, Programming, WriteVerified, Answered
<1>6. CASE EraseEnable \/ ProgramEnable \/ PollErase \/ PollProgram
  <2>1. /\ Erasing' <=> Erasing
        /\ Programming' <=> Programming
        /\ pc' = "idle" <=> pc = "idle"
    BY <1>6 DEF EraseEnable, ProgramEnable, Enable, PollErase, PollProgram, Poll,
       Goto, Erasing, Programming
  <2>2. UNCHANGED <<flash, flash_addr, size, at, mem, faulty, flags, rd_p, reply, asked>>
    BY <1>6 DEF EraseEnable, ProgramEnable, Enable, ChipEnable, PollErase,
       PollProgram, Poll, dramvars, port, chip, write, history
  <2> QED
    BY <1>0, <2>1, <2>2, WriteSame
<1> QED
  BY <1>1, <1>2, <1>3, <1>4, <1>5, <1>6 DEF Processor

LEMMA WriteStep ==
  ASSUME ChipInv, RangeInv, SignalInv, TestInv, WriteInv, [Next]_vars, SignalInv'
  PROVE  WriteInv'
<1>1. CASE ChipDone \/ UNCHANGED vars
  <2>1. UNCHANGED <<pc, flash, flash_addr, size, at, mem, faulty, flags, rd_p, reply,
                    asked>>
    BY <1>1 DEF ChipDone, vars, dramvars, port, chip, write, history
  <2> QED
    BY <2>1, WriteSame DEF SignalInv, Erasing, Programming
<1> QED
  BY <1>1, WriteCtrlCmd, WriteProcessor DEF Next

\* A write from the start of a sector always succeeds, to its last byte and
\* whatever was in the flash, and a write of whole words that is answered by 0
\* is in the flash wherever it starts.
THEOREM WritesVerified == Spec => []WriteVerified
<1> DEFINE Inv == ChipInv /\ RangeInv /\ SignalInv /\ PortInv /\ TestInv /\ WriteInv
<1>1. Init => Inv
  BY ChipInit, RangeInit, PortInit, TestInit, WriteInit
<1>2. Inv /\ [Next]_vars => Inv'
  BY ChipStep, RangeStep, SignalStep, PortStep, TestStep, WriteStep
<1>3. Inv => WriteVerified
  BY DEF WriteInv
<1> QED
  BY <1>1, <1>2, <1>3, PTL DEF Spec
=============================================================================
