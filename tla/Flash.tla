------------------------------- MODULE Flash -------------------------------
(***************************************************************************)
(* The commands that write and read the configuration flash (flash.c) and  *)
(* test the DRAM (mem.c), which the host gives one after another.          *)
(*                                                                         *)
(* External: the flash chip.  It erases whole sectors, programs a page by  *)
(* clearing bits, only after a write enable, is busy meanwhile (WIP) and   *)
(* then ignores every command but a read of its status.  The firmware      *)
(* takes one step per chip command.                                        *)
(***************************************************************************)
EXTENDS DramPort

CONSTANTS
  PAGE_SIZE, SECTOR_SIZE, FLASH_SIZE,  \* in bytes
  Addrs, Sizes,                        \* what the host writes
  MaxCmds                              \* bound on the number of commands

\* FLASH_READ stays inside the half the write pointer is kept in.
ASSUME FlashAssumption ==
  /\ PAGE_SIZE \in Nat /\ PAGE_SIZE > 0 /\ PAGE_SIZE % 4 = 0
  /\ SECTOR_SIZE \in Nat /\ SECTOR_SIZE > 0 /\ SECTOR_SIZE % PAGE_SIZE = 0
  /\ FLASH_SIZE \in Nat /\ FLASH_SIZE % SECTOR_SIZE = 0 /\ FLASH_SIZE <= HALF
  /\ Addrs \subseteq Nat /\ \A a \in Addrs : a % 4 = 0
  /\ Sizes \subseteq Nat /\ MaxCmds \in Nat

VARIABLES
  flash, wel, wip,    \* the chip: contents, write enable latch, busy
  flash_addr,         \* the address of FLASH_WRITE_ADDR
  size, left, at,     \* the write's size, sectors or pages left, and the next
  \* History.
  asked,   \* the command in progress or answered last
  before,  \* the flash before it
  ignored, \* the chip ignored a command
  cmds

chip     == <<flash, wel, wip>>
write    == <<size, left, at>>
history  == <<asked, before, ignored, cmds>>
vars     == <<dramvars, pc, reply, chip, flash_addr, write, history>>

-----------------------------------------------------------------------------
FlashWords == 0..(FLASH_SIZE \div 4 - 1)
PageOf(w)   == (4 * w) \div PAGE_SIZE
SectorOf(w) == (4 * w) \div SECTOR_SIZE

\* Mutants: no rounding up, and always one more.
SectorsRoundedDown(n) == n \div SECTOR_SIZE
SectorsOneMore(n) == n \div SECTOR_SIZE + 1

flash_num_sectors(n) == n \div SECTOR_SIZE + (IF n % SECTOR_SIZE = 0 THEN 0 ELSE 1)

flash_num_pages(n) == n \div PAGE_SIZE + (IF n % PAGE_SIZE = 0 THEN 0 ELSE 1)

Init ==
  /\ DramInit
  /\ flash = [w \in FlashWords |-> {<<"old", w>>}] /\ wel = FALSE /\ wip = FALSE
  /\ flash_addr = 0 /\ size = 0 /\ left = 0 /\ at = 0
  /\ asked = "none" /\ before = flash /\ ignored = FALSE /\ cmds = 0

-----------------------------------------------------------------------------
(* The chip.                                                               *)

\* A command that needs the chip ready.
ChipTakes(ready) == ignored' = (ignored \/ ~ready)

ChipEnable ==
  /\ ChipTakes(~wip)
  /\ wel' = (wel \/ ~wip) /\ UNCHANGED <<flash, wip>>

\* An erase or a page program: the contents become new.
ChipChange(new) ==
  /\ ChipTakes(wel /\ ~wip)
  /\ IF wel /\ ~wip
     THEN flash' = new /\ wip' = TRUE
     ELSE UNCHANGED <<flash, wip>>
  /\ UNCHANGED wel

ChipDone ==
  /\ wip
  /\ wip' = FALSE /\ wel' = FALSE
  /\ UNCHANGED <<dramvars, pc, reply, flash, flash_addr, write, history>>

-----------------------------------------------------------------------------
(* The commands.                                                           *)

Command(c) ==
  /\ pc = "idle" /\ cmds < MaxCmds
  /\ cmds' = cmds + 1 /\ asked' = c /\ before' = flash

HostLoad(image) ==
  /\ Command("MEM_LOAD") /\ Load(image)
  /\ UNCHANGED <<chip, flash_addr, write, ignored>>

MemTest ==
  /\ Command("MEM_TEST") /\ TestBegin
  /\ UNCHANGED <<chip, flash_addr, write, ignored>>

FlashWriteAddr(a) ==
  /\ Command("FLASH_WRITE_ADDR")
  /\ flash_addr' = a
  /\ UNCHANGED <<dramvars, pc, reply, chip, write, ignored>>

FlashReadFrom(p) ==
  LET wraps == "WRITE_WRAP_16M" \in flags
      to(k) == Word(StepBy(p, k, wraps))
  IN  /\ Command("FLASH_READ")
      /\ ChipTakes(~wip)
      /\ mem' = [w \in Words |->
                   IF \E k \in FlashWords : to(k) = w
                   THEN flash[CHOOSE k \in FlashWords : to(k) = w] ELSE mem[w]]
      /\ wr_p' = StepBy(p, FLASH_SIZE \div 4, wraps)
      /\ UNCHANGED <<faulty, rd_p, flags, test, pc, reply, chip, flash_addr, write>>

\* Mutant: the write pointer stays where it was.
FlashReadOn == FlashReadFrom(wr_p)

\* flash_read(0, FLASH_SIZE, 0)
FlashRead == FlashReadFrom(0)

\* flash_write(0, n, flash_addr).  Host discipline: inside the flash.
FlashWrite(n) ==
  /\ Command("FLASH_WRITE")
  /\ flash_addr + n <= FLASH_SIZE
  /\ size' = n /\ at' = flash_addr \div SECTOR_SIZE /\ left' = flash_num_sectors(n)
  /\ pc' = "Erase"
  /\ UNCHANGED <<dramvars, reply, chip, flash_addr, ignored>>

-----------------------------------------------------------------------------
(* flash_sector_erase, the page loop of flash_write, and flash_verify.     *)

Goto(from, to) == pc = from /\ pc' = to

\* flash_write_enable at the head of both loops
Enable(from, to) ==
  /\ left > 0 /\ Goto(from, to)
  /\ left' = left - 1
  /\ ChipEnable
  /\ UNCHANGED <<dramvars, reply, flash_addr, size, at, asked, before, cmds>>

EraseEnable   == Enable("Erase", "SectorErase")
ProgramEnable == Enable("Program", "PageProgram")

SectorErase ==
  /\ Goto("SectorErase", "PollErase")
  /\ ChipChange([w \in FlashWords |-> IF SectorOf(w) = at THEN {} ELSE flash[w]])
  /\ at' = at + 1
  /\ UNCHANGED <<dramvars, reply, flash_addr, size, left, asked, before, cmds>>

\* Mutants: no wait, and a wait for a chip ready and still write enabled.
PollNot(from, to) ==
  /\ Goto(from, to)
  /\ UNCHANGED <<dramvars, reply, chip, flash_addr, write, history>>

PollEnabled(from, to) == wel /\ ~wip /\ PollNot(from, to)

\* while (flash_read_status() & FLASH_STATUS_WIP) {}
Poll(from, to) ==
  /\ ~wip /\ Goto(from, to)
  /\ UNCHANGED <<dramvars, reply, chip, flash_addr, write, history>>

PollErase   == Poll("PollErase", "Erase")
PollProgram == Poll("PollProgram", "Program")

\* The sectors are erased: on to the pages.
EraseDone ==
  /\ left = 0 /\ Goto("Erase", "Program")
  /\ left' = flash_num_pages(size) /\ at' = flash_addr \div PAGE_SIZE
  /\ rd_p' = 0
  /\ UNCHANGED <<mem, faulty, wr_p, flags, test, reply, chip, flash_addr, size, history>>

\* A whole page, whatever is left of size.
PageProgram ==
  LET datum(w) == Stored(Word(ReadOn(w - at * (PAGE_SIZE \div 4))))
      programmed == [w \in FlashWords |->
                       IF PageOf(w) = at THEN flash[w] \cup datum(w) ELSE flash[w]]
  IN  /\ Goto("PageProgram", "PollProgram")
      /\ ChipChange(programmed)
      /\ at' = at + 1 /\ rd_p' = ReadOn(PAGE_SIZE \div 4)
      /\ UNCHANGED <<mem, faulty, wr_p, flags, test, reply, flash_addr, size, left,
                     asked, before, cmds>>

\* The word of DRAM that belongs at word k of the address written.
Wanted(k) == Stored(Word(StepBy(0, k, "READ_WRAP_16M" \in flags)))
There(k)  == flash[flash_addr \div 4 + k] = Wanted(k)

\* flash_verify(0, size, flash_addr): whole words only.
Verify ==
  /\ left = 0 /\ Goto("Program", "idle")
  /\ ChipTakes(~wip)
  /\ reply' = IF \A k \in 0..(size \div 4 - 1) : There(k) THEN 0 ELSE -1
  /\ rd_p' = StepBy(0, size \div 4, "READ_WRAP_16M" \in flags)
  /\ UNCHANGED <<mem, faulty, wr_p, flags, test, chip, flash_addr, write, asked,
                 before, cmds>>

MemTestStep ==
  /\ Fill \/ Compare \/ TestEnd
  /\ UNCHANGED <<chip, flash_addr, write, history>>

CtrlCmd ==
  \/ \E v \in Images : HostLoad(v)
  \/ MemTest \/ FlashRead
  \/ \E a \in Addrs : FlashWriteAddr(a)
  \/ \E n \in Sizes : FlashWrite(n)

Processor ==
  \/ EraseEnable \/ SectorErase \/ PollErase \/ EraseDone
  \/ ProgramEnable \/ PageProgram \/ PollProgram \/ Verify
  \/ MemTestStep

Next == CtrlCmd \/ Processor \/ ChipDone

Spec == Init /\ [][Next]_vars

\* The processor runs on, with interrupts disabled; the chip gets ready.
FairSpec == Spec /\ WF_vars(Processor) /\ WF_vars(ChipDone)

-----------------------------------------------------------------------------
(* Properties.                                                             *)

\* Every variable holds a value of its type in the code, the memory test takes
\* no more words of the keystream than there are, and replies are bytes or -1.
TypeOK ==
  /\ pc \in {"idle", "Erase", "SectorErase", "PollErase", "Program",
             "PageProgram", "PollProgram", "Fill", "Compare"}
  /\ DOMAIN mem = Words /\ DOMAIN flash = FlashWords
  /\ rd_p \in 0..(MEM_SIZE - 1) /\ wr_p \in 0..(MEM_SIZE - 1)
  /\ flags \subseteq BothWraps /\ saved \subseteq BothWraps
  /\ {scr, i, errors} \subseteq 0..(MEM_SIZE \div 4)
  /\ reply \in -1..MAX_ERRORS
  /\ wel \in BOOLEAN /\ wip \in BOOLEAN
  /\ flash_addr \in Nat /\ {size, left, at} \subseteq Nat

Answered(c) == pc = "idle" /\ asked = c

\* A write to the start of a sector always succeeds, to its last odd byte,
\* whatever was in the flash before; any other write of whole words that did
\* not succeed is told by its reply (flash_write and flash_verify agree).
WriteVerified ==
  Answered("FLASH_WRITE") =>
    /\ flash_addr % SECTOR_SIZE = 0 =>
         reply = 0 /\ \A k \in 0..((size + 3) \div 4 - 1) : There(k)
    /\ reply = 0 /\ size % 4 = 0 => \A k \in 0..(size \div 4 - 1) : There(k)

\* A write leaves the sectors alone that none of its bytes is in, also while
\* it runs: the FPGA and the PSoC configuration of flash.h do not disturb each
\* other.
OthersKept ==
  asked = "FLASH_WRITE" =>
    \A w \in FlashWords :
      \/ \E b \in flash_addr..(flash_addr + size - 1) : b \div SECTOR_SIZE = SectorOf(w)
      \/ flash[w] = before[w]

\* The chip ignores no command: each finds it ready and write enabled.
NothingIgnored == ~ignored

\* FLASH_READ brings the whole flash to the start of the DRAM, wherever
\* earlier commands left the pointers.
ReadsBack ==
  Answered("FLASH_READ") => \A k \in FlashWords : mem[k] = flash[k]

\* MEM_TEST counts every faulty word of both halves and no other, and leaves
\* the wrapping on which the rings rely.
TestTellsFaults ==
  Answered("MEM_TEST") =>
    reply = Limited(Cardinality(faulty)) /\ flags = BothWraps

\* Every command is answered.
CommandsEnd == pc # "idle" ~> pc = "idle"
=============================================================================
