------------------------------- MODULE TxPath -------------------------------
(***************************************************************************)
(* The transmit path of hbc_mac: the two transmit branches of the main     *)
(* loop (main.c), the HBC_TX and memory-load commands of the control       *)
(* interrupt (ctrl_cmd) and the byte loader behind it (spi.c).             *)
(*                                                                         *)
(* The main loop is a thread that interrupt handlers preempt wherever      *)
(* interrupts are enabled; a handler runs to completion.  So a handler is  *)
(* one action guarded by irq_on, and the main loop takes one step per      *)
(* access to a variable a handler shares, x-- and x &= m being a load and  *)
(* a store.  Addresses are in bytes; the DRAM holds 32-bit words.          *)
(***************************************************************************)
EXTENDS Integers, Sequences

CONSTANTS
  TxBytes,     \* MEM_RX_BUF: the transmit half is the bytes 0..TxBytes-1
  Lens,        \* lengths the host gives to TX_PACKET and MEM_LOAD
  TriggerLens, \* lengths the host gives to TX_TRIGGER
  FloodArgs,   \* arguments the host gives to TX_FLOOD, each a uint32_t
  IntLimit,    \* an int is -IntLimit..IntLimit-1: 2^31 in the code
  Cmds,        \* the commands the host uses
  OtherAddrs,  \* where the receive path and the dump leave the read pointer,
  OtherKeys,   \* and the receive path the scrambler
  MaxCmds      \* bound on the number of commands

ASSUME TxAssumption ==
  /\ TxBytes \in Nat /\ TxBytes > 4 /\ TxBytes % 4 = 0
  /\ \A n \in Lens : n \in 1..255 /\ n % 4 = 0
  /\ TriggerLens \subseteq Nat
  /\ FloodArgs \subseteq Nat /\ IntLimit \in Nat \ {0}
  /\ OtherAddrs \subseteq Nat
  /\ MaxCmds \in Nat

VARIABLES
  irq_on,                                   \* MSR[IE]
  pc, mode, tmp, num_words,                 \* the main loop and its registers
  send_packet, tx_flood, tx_auto, tx_pending, loopback, pkt_addr,
  PDSU_length, data_rate, scrambler_seed,   \* header_info
  load_addr, loading_mem, load_index, rd_data,
  mem, rd_p,                                \* DRAM and its read pointer
  scr,                                      \* scrambler: seed and position
  rx_enabled,                               \* GPO HBC_RX_ENABLE
  \* History: what the host asked for and what was modulated.
  queued,       \* lengths of the packets queued by TX_PACKET, in order
  load_pkt,     \* the packet being loaded, 0 for a MEM_LOAD
  taken,        \* how many queued packets have been transmitted
  room,         \* bytes of the transmit half that hold no unsent packet
  frame, last,  \* the frame being built, and the one transmitted before it
  owed,         \* a TRIGGER was acknowledged and no frame begun since
  reseeded,     \* a SCRAMBLER_SEED command took effect after the last header
  endless,      \* a TX_FLOOD that the countdown cannot end
  addr_lost,    \* a TX_ADDR came between load and store of pkt_addr &= mask
  cmds          \* commands given so far

cpu     == <<irq_on, pc, mode, tmp, num_words>>
flags   == <<send_packet, tx_flood, tx_auto, loopback>>
header  == <<PDSU_length, data_rate, scrambler_seed>>
loader  == <<load_addr, loading_mem, load_index, rd_data>>
dram    == <<mem, rd_p>>
history == <<queued, load_pkt, taken, room, frame, last, owed, reseeded,
             endless, addr_lost, cmds>>
notes   == <<owed, reseeded, endless, addr_lost>>
vars    == <<cpu, flags, tx_pending, pkt_addr, header, loader, dram, scr,
             rx_enabled, history>>

-----------------------------------------------------------------------------
(* Data.  The DRAM controller takes an address modulo its size.  A word is *)
(* a length or the set of payload bytes or-ed into it; byte b of queued    *)
(* packet i is the pair <<i, b>>.                                          *)

Word(a)      == (a % (2 * TxBytes)) \div 4
Junk         == [len |-> 0, src |-> {}]
LengthOf(n)  == [len |-> n, src |-> {}]
Payload(src) == [len |-> 0, src |-> src]
Words        == 0..((2 * TxBytes) \div 4 - 1)

\* The pointer steps by a word and wraps inside its 16M half, as
\* mem_set_flags(MEM_READ_WRAP_16M | MEM_WRITE_WRAP_16M) asks.
Step(a) == IF (a + 4) % TxBytes = 0 THEN a + 4 - TxBytes ELSE a + 4

\* What an int can hold, and a uint32_t as the int it is stored into.
Ints     == -IntLimit .. (IntLimit - 1)
AsInt(n) == ((n + IntLimit) % (2 * IntLimit)) - IntLimit

WordCount(n) == n \div 4 + (IF n % 4 = 0 THEN 0 ELSE 1)

NoFrame == [mode |-> "none", pkt |-> 0, len |-> 0, rate |-> 0, seed |-> 0,
            reseeded |-> FALSE, sf |-> 0, words |-> <<>>]

Init ==
  /\ irq_on = TRUE /\ pc = "TestSend" /\ mode = "single" /\ tmp = 0
  /\ num_words = 0
  /\ send_packet = 0 /\ tx_flood = 0 /\ tx_auto = 0 /\ loopback = 0
  /\ tx_pending = 0 /\ pkt_addr = 0
  /\ PDSU_length = 0 /\ data_rate = 0 /\ scrambler_seed = 0
  /\ load_addr = 0 /\ loading_mem = 0 /\ load_index = 0 /\ rd_data = {}
  /\ mem = [w \in Words |-> Junk] /\ rd_p = 0
  /\ scr = [seed |-> 0, pos |-> 0]
  /\ rx_enabled = TRUE
  /\ queued = <<>> /\ load_pkt = 0 /\ taken = 0 /\ room = TxBytes
  /\ frame = NoFrame /\ last = NoFrame
  /\ owed = FALSE /\ reseeded = FALSE /\ endless = FALSE
  /\ addr_lost = FALSE /\ cmds = 0

-----------------------------------------------------------------------------
(* The control interrupt: a whole command (ctrl_cmd) or one loaded byte.   *)

Command(c) ==
  /\ c \in Cmds /\ cmds < MaxCmds
  /\ irq_on /\ loading_mem = 0
  /\ cmds' = cmds + 1
  /\ UNCHANGED <<cpu, rd_p, scr, rx_enabled, taken, frame, last>>

TxTrigger(n) ==
  /\ Command("TRIGGER")
  /\ PDSU_length' = n % 256 /\ send_packet' = 1 /\ owed' = TRUE
  /\ UNCHANGED <<tx_flood, tx_auto, loopback, tx_pending, pkt_addr, data_rate,
                 scrambler_seed, loader, mem, queued, load_pkt, room, reseeded,
                 endless, addr_lost>>

\* Host discipline: a rate of the enumeration, of which two are enough here.
TxSpreadFactor(r) ==
  /\ Command("SPREAD_FACTOR")
  /\ data_rate' = r
  /\ UNCHANGED <<flags, tx_pending, pkt_addr, PDSU_length, scrambler_seed,
                 loader, mem, queued, load_pkt, room, notes>>

TxScramblerSeed(s) ==
  /\ Command("SEED")
  /\ scrambler_seed' = s
  /\ reseeded' = (reseeded \/ pc # "SeedStore")
  /\ UNCHANGED <<flags, tx_pending, pkt_addr, PDSU_length, data_rate, loader, mem,
                 queued, load_pkt, room, owed, endless, addr_lost>>

TxAuto(b) ==
  /\ Command("AUTO")
  /\ tx_auto' = b
  /\ UNCHANGED <<send_packet, tx_flood, loopback, tx_pending, pkt_addr, header,
                 loader, mem, queued, load_pkt, room, notes>>

TxLoopback(b) ==
  /\ Command("LOOPBACK")
  /\ loopback' = b
  /\ UNCHANGED <<send_packet, tx_flood, tx_auto, tx_pending, pkt_addr, header,
                 loader, mem, queued, load_pkt, room, notes>>

\* It replaces the count unless the countdown's store comes after it; a count
\* below 0, and one of 0 between the test and the decrement, has no end.
TxFlood(n) ==
  /\ Command("FLOOD")
  /\ tx_flood' = AsInt(n)
  /\ endless' = IF pc = "FloodStore" THEN endless
                ELSE AsInt(n) < 0 \/ (pc = "FloodLoad" /\ AsInt(n) = 0)
  /\ UNCHANGED <<send_packet, tx_auto, loopback, tx_pending, pkt_addr, header,
                 loader, mem, queued, load_pkt, room, owed, reseeded, addr_lost>>

\* Host discipline: the address is set while no packet waits to be sent.
TxAddr(a) ==
  /\ Command("ADDR")
  /\ taken = Len(queued)
  /\ pkt_addr' = a /\ load_addr' = a
  /\ addr_lost' = (addr_lost \/ pc = "MaskStore")
  /\ UNCHANGED <<flags, tx_pending, header, loading_mem, load_index, rd_data,
                 mem, queued, load_pkt, room, owed, reseeded, endless>>

\* hbc_spi_load_bytes(arg, 1): the length word, then arg bytes to come.
\* Host discipline: the first packet goes where TX_ADDR points, an unsent one is
\* not overwritten, and a packet ends inside the transmit half, which load_addr
\* is never masked into.
TxPacket(n) ==
  /\ Command("PACKET")
  /\ queued = <<>> => load_addr = pkt_addr
  /\ n + 4 <= room
  /\ load_addr + 4 + n <= TxBytes
  /\ mem' = [mem EXCEPT ![Word(load_addr)] = LengthOf(n)]
  /\ load_addr' = load_addr + 4
  /\ load_index' = 0 /\ loading_mem' = n
  /\ tx_pending' = tx_pending + 1
  /\ queued' = Append(queued, n) /\ load_pkt' = Len(queued) + 1
  /\ room' = room - (n + 4)
  /\ UNCHANGED <<flags, pkt_addr, header, rd_data, notes>>

\* hbc_spi_load_addr.  Host discipline: one that has queued a packet moves the
\* load address only from the ring's end, and back to 0.
MemWrAddr(a) ==
  /\ Command("WR_ADDR")
  /\ queued # <<>> => load_addr = TxBytes /\ a = 0
  /\ load_addr' = a
  /\ UNCHANGED <<flags, tx_pending, pkt_addr, header, loading_mem, load_index,
                 rd_data, mem, queued, load_pkt, room, notes>>

\* hbc_spi_load_bytes(arg, 0).  Host discipline: the packet of a TX_TRIGGER is
\* loaded before any packet is queued, and inside the transmit half.
MemLoad(n) ==
  /\ Command("MEM_LOAD")
  /\ queued = <<>> /\ load_addr + n <= TxBytes
  /\ load_index' = 0 /\ loading_mem' = n /\ load_pkt' = 0
  /\ UNCHANGED <<flags, tx_pending, pkt_addr, header, load_addr, rd_data, mem,
                 queued, room, notes>>

\* hbc_ctrl_irq while a load is in progress.
LoadByte ==
  LET byte == <<load_pkt, IF load_pkt = 0 THEN 0
                          ELSE queued[load_pkt] - loading_mem>>
      data == rd_data \cup {byte}
  IN  /\ irq_on /\ loading_mem > 0
      /\ loading_mem' = loading_mem - 1
      /\ IF load_index + 1 = 4
         THEN /\ mem' = [mem EXCEPT ![Word(load_addr)] = Payload(data)]
              /\ load_addr' = load_addr + 4
              /\ load_index' = 0 /\ rd_data' = {}
         ELSE /\ load_index' = load_index + 1 /\ rd_data' = data
              /\ UNCHANGED <<mem, load_addr>>
      /\ UNCHANGED <<cpu, flags, tx_pending, pkt_addr, header, rd_p, scr,
                     rx_enabled, history>>

\* What the receive path and the dumps do to the state they share with the
\* transmit path: they read from DRAM, and a received packet reseeds the
\* scrambler and reads from it (HbcMac shows that they do nothing else).
OtherHandlers ==
  /\ irq_on
  /\ rd_p' \in {rd_p} \cup OtherAddrs /\ scr' \in {scr} \cup OtherKeys
  /\ UNCHANGED <<cpu, flags, tx_pending, pkt_addr, header, loader, mem,
                 rx_enabled, history>>

CtrlIrq ==
  \/ \E n \in TriggerLens : TxTrigger(n)
  \/ \E b \in {0, 1} : TxScramblerSeed(b) \/ TxSpreadFactor(b)
                      \/ TxAuto(b) \/ TxLoopback(b)
  \/ \E n \in FloodArgs : TxFlood(n)
  \/ \E a \in {0, 4} : TxAddr(a)
  \/ MemWrAddr(0)
  \/ \E n \in Lens : TxPacket(n) \/ MemLoad(n)

-----------------------------------------------------------------------------
(* The main loop.  "single" is the branch for send_packet and tx_flood,    *)
(* "queue" the branch for tx_auto.                                         *)

Goto(from, to) == pc = from /\ pc' = to

\* A step that only reads shared state and moves on.
Test(from, to) ==
  /\ Goto(from, to)
  /\ UNCHANGED <<irq_on, tmp, num_words, flags, tx_pending, pkt_addr, header,
                 loader, dram, scr, rx_enabled, history>>

\* if (send_packet || tx_flood)
TestSend ==
  \/ send_packet # 0 /\ mode' = "single" /\ Test("TestSend", "RxOff")
  \/ send_packet = 0 /\ mode' = mode /\ Test("TestSend", "TestFlood")

TestFlood ==
  \/ tx_flood # 0 /\ mode' = "single" /\ Test("TestFlood", "RxOff")
  \/ tx_flood = 0 /\ mode' = mode /\ Test("TestFlood", "TestAuto")

\* if (tx_auto && (tx_pending > 1 || (tx_pending == 1 && !load_busy)))
TestAuto ==
  /\ mode' = mode
  /\ Test("TestAuto", IF tx_auto # 0 THEN "TestMany" ELSE "TestSend")

TestMany ==
  \/ tx_pending > 1 /\ mode' = "queue" /\ Test("TestMany", "RxOff")
  \/ tx_pending <= 1 /\ mode' = mode /\ Test("TestMany", "TestOne")

\* Mutant: the last packet is left to the next one's arrival.
TestOneNever == mode' = mode /\ Test("TestOne", "TestSend")

TestOne ==
  /\ mode' = mode
  /\ Test("TestOne", IF tx_pending = 1 THEN "TestBusy" ELSE "TestSend")

\* Mutant: a single packet is taken without asking whether it is loading.
TestBusyTrue == mode' = "queue" /\ Test("TestBusy", "RxOff")

TestBusy ==
  \/ loading_mem = 0 /\ mode' = "queue" /\ Test("TestBusy", "RxOff")
  \/ loading_mem # 0 /\ mode' = mode /\ Test("TestBusy", "TestSend")

\* if (!loopback) rx_disable()
RxOff ==
  /\ Goto("RxOff", "Disable")
  /\ rx_enabled' = (rx_enabled /\ loopback # 0)
  /\ UNCHANGED <<irq_on, mode, tmp, num_words, flags, tx_pending, pkt_addr,
                 header, loader, dram, scr, history>>

\* Mutant: the frame is built with interrupts on.
DisableNothing ==
  /\ mode' = mode
  /\ Test("Disable", "SetPointer")

\* disable_interrupts()
Disable ==
  /\ Goto("Disable", "SetPointer")
  /\ irq_on' = FALSE
  /\ UNCHANGED <<mode, tmp, num_words, flags, tx_pending, pkt_addr, header,
                 loader, dram, scr, rx_enabled, history>>

\* Mutant: the queue branch reads from 0 as the other does.
FrameAtZero == 0

FrameAt == IF mode = "queue" THEN pkt_addr ELSE 0

\* mem_set_rd_p
SetPointer ==
  /\ Goto("SetPointer", IF mode = "queue" THEN "Length" ELSE "Header")
  /\ rd_p' = FrameAt
  /\ UNCHANGED <<irq_on, mode, tmp, num_words, flags, tx_pending, pkt_addr,
                 header, loader, mem, scr, rx_enabled, history>>

\* header_info.PDSU_length = mem_read(), truncated to a byte
Length ==
  /\ Goto("Length", "Header")
  /\ PDSU_length' = mem[Word(rd_p)].len % 256
  /\ rd_p' = Step(rd_p)
  /\ UNCHANGED <<irq_on, mode, tmp, num_words, flags, tx_pending, pkt_addr,
                 data_rate, scrambler_seed, loader, mem, scr, rx_enabled, history>>

\* build_tx_plcp_header: the header announces length, rate and scrambler seed.
Header ==
  /\ Goto("Header", "Payload")
  /\ frame' = [mode |-> mode, pkt |-> IF mode = "queue" THEN taken + 1 ELSE 0,
               len |-> PDSU_length, rate |-> data_rate, seed |-> scrambler_seed,
               reseeded |-> reseeded, sf |-> 0, words |-> <<>>]
  /\ owed' = (owed /\ mode = "queue") /\ reseeded' = FALSE
  /\ UNCHANGED <<irq_on, mode, tmp, num_words, flags, tx_pending, pkt_addr,
                 header, loader, dram, scr, rx_enabled,
                 queued, load_pkt, taken, room, last, endless, addr_lost, cmds>>

\* build_tx_payload: word count, scrambler_reseed and fifo_set_rate
Payload0 ==
  /\ Goto("Payload", "Modulate")
  /\ num_words' = WordCount(PDSU_length)
  /\ scr' = [seed |-> scrambler_seed, pos |-> 0]
  /\ frame' = [frame EXCEPT !.sf = data_rate]
  /\ UNCHANGED <<irq_on, mode, tmp, flags, tx_pending, pkt_addr, header,
                 loader, dram, rx_enabled,
                 queued, load_pkt, taken, room, last, notes, cmds>>

\* One turn of the payload loop: a DRAM word xor a scrambler word.
Modulate ==
  /\ pc = "Modulate" /\ num_words > 0
  /\ frame' = [frame EXCEPT !.words = Append(@,
                 [at |-> rd_p, src |-> mem[Word(rd_p)].src, key |-> scr])]
  /\ num_words' = num_words - 1
  /\ rd_p' = Step(rd_p) /\ scr' = [scr EXCEPT !.pos = @ + 1]
  /\ UNCHANGED <<irq_on, pc, mode, tmp, flags, tx_pending, pkt_addr, header,
                 loader, mem, rx_enabled,
                 queued, load_pkt, taken, room, last, notes, cmds>>

\* The end of the section: the queue branch moves pkt_addr past the packet,
\* then enable_interrupts().
Enable ==
  /\ num_words = 0
  /\ Goto("Modulate", IF mode = "queue" THEN "MaskLoad" ELSE "SeedLoad")
  /\ irq_on' = TRUE
  /\ last' = frame /\ frame' = NoFrame
  /\ IF mode = "queue"
     THEN /\ pkt_addr' = pkt_addr + (PDSU_length \div 4) * 4 + 4
          /\ taken' = taken + 1 /\ room' = room + PDSU_length + 4
     ELSE UNCHANGED <<pkt_addr, taken, room>>
  /\ UNCHANGED <<mode, tmp, num_words, flags, tx_pending, header, loader, dram,
                 scr, rx_enabled, queued, load_pkt, notes, cmds>>

\* A load of a shared variable into a register, and the store back.
Load(from, to, value) ==
  /\ Goto(from, to)
  /\ tmp' = value
  /\ UNCHANGED <<irq_on, mode, num_words, flags, tx_pending, pkt_addr, header,
                 loader, dram, scr, rx_enabled, history>>

\* pkt_addr &= MEM_TX_MASK
MaskLoad == Load("MaskLoad", "MaskStore", pkt_addr % TxBytes)

MaskStore ==
  /\ Goto("MaskStore", "SeedLoad")
  /\ pkt_addr' = tmp
  /\ UNCHANGED <<irq_on, mode, tmp, num_words, flags, tx_pending, header,
                 loader, dram, scr, rx_enabled, history>>

\* Mutants: ~ for !, and no toggle.
SeedComplement == Load("SeedLoad", "SeedStore", -1 - scrambler_seed)
SeedKept == Load("SeedLoad", "SeedStore", scrambler_seed)

\* header_info.scrambler_seed = !header_info.scrambler_seed
SeedLoad == Load("SeedLoad", "SeedStore", 1 - scrambler_seed)

SeedStore ==
  /\ Goto("SeedStore", "RxOn")
  /\ scrambler_seed' = tmp
  /\ UNCHANGED <<irq_on, mode, tmp, num_words, flags, tx_pending, pkt_addr,
                 PDSU_length, data_rate, loader, dram, scr, rx_enabled, history>>

\* Mutant: the queue branch forgets it.
RxOnSingle ==
  /\ mode' = mode
  /\ Test("RxOn", IF mode = "queue" THEN "PendLoad" ELSE "FloodTest")

\* if (!loopback) rx_enable()
RxOn ==
  /\ Goto("RxOn", IF mode = "queue" THEN "PendLoad" ELSE "FloodTest")
  /\ rx_enabled' = (rx_enabled \/ loopback = 0)
  /\ UNCHANGED <<irq_on, mode, tmp, num_words, flags, tx_pending, pkt_addr,
                 header, loader, dram, scr, history>>

\* Mutant: the packet stays counted.
PendKept == Load("PendLoad", "PendStore", tx_pending)

\* tx_pending--
PendLoad == Load("PendLoad", "PendStore", tx_pending - 1)

PendStore ==
  /\ Goto("PendStore", "TestSend")
  /\ tx_pending' = tmp
  /\ UNCHANGED <<irq_on, mode, tmp, num_words, flags, pkt_addr, header,
                 loader, dram, scr, rx_enabled, history>>

\* Mutant: the decrement without its test.
FloodUntested == mode' = mode /\ Test("FloodTest", "FloodLoad")

\* if (tx_flood) tx_flood--
FloodTest ==
  /\ mode' = mode
  /\ Test("FloodTest", IF tx_flood # 0 THEN "FloodLoad" ELSE "Clear")

FloodLoad == Load("FloodLoad", "FloodStore", AsInt(tx_flood - 1))

FloodStore ==
  /\ Goto("FloodStore", "Clear")
  /\ tx_flood' = tmp
  /\ UNCHANGED <<irq_on, mode, tmp, num_words, send_packet, tx_auto, loopback,
                 tx_pending, pkt_addr, header, loader, dram, scr, rx_enabled,
                 history>>

\* send_packet = 0
Clear ==
  /\ Goto("Clear", "TestAuto")
  /\ send_packet' = 0
  /\ UNCHANGED <<irq_on, mode, tmp, num_words, tx_flood, tx_auto, loopback,
                 tx_pending, pkt_addr, header, loader, dram, scr, rx_enabled,
                 history>>

Main ==
  \/ TestSend \/ TestFlood \/ TestAuto \/ TestMany \/ TestOne \/ TestBusy
  \/ RxOff \/ Disable \/ SetPointer \/ Length \/ Header \/ Payload0
  \/ Modulate \/ Enable \/ MaskLoad \/ MaskStore \/ SeedLoad \/ SeedStore
  \/ RxOn \/ PendLoad \/ PendStore \/ FloodTest \/ FloodLoad \/ FloodStore
  \/ Clear

Next == Main \/ CtrlIrq \/ LoadByte \/ OtherHandlers

Spec == Init /\ [][Next]_vars

\* main() never blocks outside the driver calls, so the loop keeps running;
\* the host delivers the bytes of a load it has announced.
FairSpec == Spec /\ WF_vars(Main) /\ WF_vars(LoadByte)

-----------------------------------------------------------------------------
(* Properties.                                                             *)

\* Every variable holds a value of its type in the code.
ScalarsOK ==
  /\ irq_on \in BOOLEAN /\ rx_enabled \in BOOLEAN
  /\ pc \in {"TestSend", "TestFlood", "TestAuto", "TestMany", "TestOne",
             "TestBusy", "RxOff", "Disable", "SetPointer", "Length", "Header",
             "Payload", "Modulate", "MaskLoad", "MaskStore", "SeedLoad",
             "SeedStore", "RxOn", "PendLoad", "PendStore", "FloodTest",
             "FloodLoad", "FloodStore", "Clear"}
  /\ mode \in {"single", "queue"} /\ tmp \in Int /\ num_words \in 0..64
  /\ send_packet \in {0, 1} /\ tx_auto \in {0, 1} /\ loopback \in {0, 1}
  /\ tx_flood \in Ints /\ tx_pending \in Int /\ taken \in Nat
  /\ pkt_addr \in Nat /\ load_addr \in Nat /\ rd_p \in Nat
  /\ PDSU_length \in 0..255 /\ data_rate \in {0, 1} /\ scrambler_seed \in {0, 1}
  /\ loading_mem \in 0..255 /\ load_index \in 0..3

DataOK ==
  /\ mem \in [Words -> [len : 0..255, src : SUBSET (Nat \X Nat)]]
  /\ rd_data \subseteq Nat \X Nat
  /\ queued \in Seq(Lens) /\ load_pkt \in 0..Len(queued)

TypeOK == ScalarsOK /\ DataOK

\* How many queued packets lie complete in DRAM, and how many of them are
\* still to be sent.
Loaded  == Len(queued) - (IF load_pkt # 0 /\ loading_mem > 0 THEN 1 ELSE 0)
Waiting == Len(queued) - taken

QueueSection ==
  /\ mode = "queue"
  /\ pc \in {"RxOff", "Disable", "SetPointer", "Length", "Header", "Payload",
             "Modulate"}

\* The queue frame has left but tx_pending-- is not done.
BeforeDecrement ==
  /\ mode = "queue"
  /\ pc \in {"MaskLoad", "MaskStore", "SeedLoad", "SeedStore", "RxOn",
             "PendLoad", "PendStore"}

\* The queue branch never starts on a packet whose bytes the host is still
\* delivering, and never on one that was not queued: what the test of
\* tx_pending and hbc_spi_load_busy (main.c:363) is for, although a handler
\* may change both between the test and the section.
NeverSendsUnloaded == QueueSection => taken < Loaded

\* tx_pending never counts more packets than are queued and unsent, whatever
\* the handler's tx_pending++ does to the main loop's tx_pending--.
NeverOvercounts ==
  tx_pending <= Waiting + (IF BeforeDecrement THEN 1 ELSE 0)

\* Queue frame i carries exactly the bytes the host loaded for packet i, in
\* order, with the length it announced: pkt_addr and load_addr stay in step
\* over the ring's end and a change of address, and no load disturbs a packet
\* that waits.  Only a TX_ADDR that the main loop's pkt_addr &= MEM_TX_MASK
\* (main.c:375) undoes ends it.
QueueInOrder ==
  last.mode = "queue" /\ ~addr_lost =>
    /\ last.pkt \in DOMAIN queued /\ last.pkt = taken /\ last.len = queued[taken]
    /\ \A k \in DOMAIN last.words :
         last.words[k].src = {<<taken, b>> : b \in 4 * k - 4 .. 4 * k - 1}

\* A frame is whole although handlers share the scrambler and the DRAM read
\* pointer with it: as many words as its header announces, at the rate it
\* announces, word k xored with word k of the keystream of the seed it
\* announces, and a single frame read from address 0.
FramesIntact ==
  last # NoFrame =>
    /\ last.sf = last.rate
    /\ Len(last.words) = WordCount(last.len)
    /\ \A k \in DOMAIN last.words :
         /\ last.words[k].key = [seed |-> last.seed, pos |-> k - 1]
         /\ last.mode = "single" => last.words[k].at = 4 * (k - 1)

\* Consecutive frames use different scrambler seeds (10.7.1) unless the host
\* set the seed between their headers, whichever branches build them.  A seed
\* set while the main loop toggles it (main.c:357) is lost and excuses nothing.
SeedAlternates ==
  frame # NoFrame /\ last # NoFrame /\ ~frame.reseeded => frame.seed # last.seed

\* A flood counts down to 0 and no further although a command may replace the
\* count around the test and the decrement (main.c:359), unless the host asks
\* for a count that is negative as an int, or stops a flood just between the
\* two: a count that the store is about to undo does neither.
FloodNeverUnderflows == tx_flood < 0 /\ pc # "FloodStore" => endless

\* While the queue is on, what tx_pending counts is sent: the counter drains
\* although loads, other commands, single frames and floods, also one without
\* end, keep interrupting.
Drains == <>[](tx_auto = 1) => <>[](tx_pending = 0)

-----------------------------------------------------------------------------
(* Inductive invariants, for the proofs.                                   *)

\* What a register holds between the load and the store, and that the host
\* is not asked for more bytes than the packet has.
RegisterInv ==
  /\ pc = "MaskStore" => tmp \in Nat
  /\ pc = "SeedStore" => tmp \in {0, 1}
  /\ pc = "FloodStore" => tmp \in Ints

LoadInv == load_pkt # 0 => loading_mem <= queued[load_pkt]

ScalarsInv == ScalarsOK /\ RegisterInv
DataInv    == DataOK /\ LoadInv
TypeInv    == ScalarsInv /\ DataInv

\* tx_pending may lag behind the queue but never leads it, also in the middle
\* of the test and of the decrement.
CounterInv ==
  /\ NeverOvercounts
  /\ NeverSendsUnloaded
  /\ pc = "TestBusy" => Waiting >= 1
  /\ pc = "PendStore" => tmp <= Waiting
  /\ pc \in {"MaskLoad", "MaskStore", "PendLoad", "PendStore"} => mode = "queue"

-----------------------------------------------------------------------------
(* What the comments say of the program and the code does not do.          *)

\* main.c:367, "Check TX circular buffer for a packet to send": every queued
\* packet is sent once the queue stays on.
EveryPacketSent == <>[](tx_auto = 1) => <>[](taken = Len(queued))

\* main.c:273, "Acknowledge successful packet", and 347, "Send a single
\* packet": a frame is begun after every acknowledged TRIGGER.
EveryTriggerSends == owed ~> ~owed
=============================================================================
