------------------------------- MODULE RxPath -------------------------------
(***************************************************************************)
(* The receive path of hbc_mac: the two receive interrupts that write the  *)
(* ring in the upper half of the DRAM and the operations that read it      *)
(* (extract_rx.c), the receive branch of the main loop (hbc_to_spi), the   *)
(* HBC_RX commands (ctrl_cmd) and the dump to the host (spi.c).            *)
(*                                                                         *)
(* A handler and hbc_to_spi, which keeps interrupts disabled, are one      *)
(* action each; the loop's tests before the call are steps of their own.   *)
(* The receiver in the FPGA is external: it fills a FIFO with the words of *)
(* a packet, raises IRQ_RX_FIFO_ALMOST_FULL and at the packet's end        *)
(* IRQ_RX_PKT_READY, and receives no other packet before HBC_RX_PKT_ACK.   *)
(***************************************************************************)
EXTENDS Integers, Sequences

CONSTANTS
  RingBytes,   \* MEM_RX_BUF: the receive half is RingBytes..2*RingBytes-1
  Packets,     \* the packets that may be received (see air)
  AlmostFull,  \* FIFO fill that raises IRQ_RX_FIFO_ALMOST_FULL
  Cmds,        \* the commands the host uses
  MaxPackets, MaxCmds  \* bounds on packets received and commands given

MEM_RX_BUF == RingBytes
MEM_SIZE   == 2 * RingBytes

ASSUME RxAssumption ==
  /\ RingBytes \in Nat /\ RingBytes > 0 /\ RingBytes % 4 = 0
  /\ Packets \subseteq [len : 0..255, size : Nat, ok : BOOLEAN, seed : {0, 1}]
  /\ \A p \in Packets : 4 * (p.size + 1) <= RingBytes
  /\ AlmostFull \in Nat \ {0}
  /\ MaxPackets \in Nat /\ MaxCmds \in Nat

VARIABLES
  mem,                                        \* DRAM
  rd_buf_addr, wr_buf_addr, wr_bytes, rx_state,
  packet_ready, rd_packet_addr, wr_packet_addr,
  rd_packet_header, rd_packet_marker,
  scr,                                        \* scrambler: seed and position
  pc, forward, rx_auto, rx_flood,             \* the main loop
  dumping_mem, dump_hbc_rx,                   \* words left to dump, and source
  fifo, pushed, almost_full, pkt_ready,       \* the receiver
  \* History.
  air,       \* every packet received: announced length, words received with
             \* the header word, header CRC, scrambler seed
  dumped,    \* the packet being dumped and the words dumped so far
  crossed,   \* the host has read or flooded the ring during that dump
  served,    \* the packet taken last and its fate, as in PacketQueue
  polled,    \* the host's last RX_READY found a packet it has not taken,
  found,     \* and the main loop has not taken it either
  stale,     \* the host took a packet with RX_NEXT that the loop had taken
  cmds

ring     == <<rd_buf_addr, rd_packet_addr, rd_packet_header, rd_packet_marker>>
writer   == <<wr_buf_addr, wr_bytes, rx_state, wr_packet_addr>>
loop     == <<pc, forward>>
dump     == <<dumping_mem, dump_hbc_rx, dumped, crossed>>
host     == <<polled, found, stale>>
receiver == <<fifo, pushed, almost_full, pkt_ready, air>>
vars     == <<mem, ring, writer, packet_ready, scr, loop, rx_auto, rx_flood,
              dump, receiver, served, host, cmds>>

-----------------------------------------------------------------------------
(* Data.  A DRAM word is a packet marker, or word i of packet pkt: the     *)
(* header for i = 0, else payload xored with a word of the keystream.      *)

Plain        == [seed |-> 0, pos |-> 0]
Junk         == [kind |-> "junk", n |-> 0, pkt |-> 0, key |-> Plain]
Marker(n)    == [kind |-> "marker", n |-> n, pkt |-> 0, key |-> Plain]
Header(p)    == [kind |-> "header", n |-> 0, pkt |-> p, key |-> Plain]
Data(p, i, k) == [kind |-> "data", n |-> i, pkt |-> p, key |-> k]

Word(a) == (a % MEM_SIZE) \div 4
Words   == 0..(MEM_SIZE \div 4 - 1)

\* The DRAM pointers wrap inside their 16M half (mem_set_flags).
Step(a) == IF (a + 4) % RingBytes = 0 THEN a + 4 - RingBytes ELSE a + 4

\* What the fields of a header word are; no code reads them from another word
\* while packet_ready counts rightly.
MarkerOf(w) == IF w.kind = "marker" THEN w.n ELSE 0
LengthOf(w) == IF w.kind = "header" THEN air[w.pkt].len ELSE 0
CrcOk(w)    == w.kind = "header" /\ air[w.pkt].ok

\* inc_rd_buf and inc_wr_buf, n times (fewer than the ring holds)
\* Mutant: no wrap.
IncByStraight(a, n) == a + 4 * n

Inc(a)      == IF a + 4 = MEM_SIZE THEN MEM_RX_BUF ELSE a + 4
IncBy(a, n) == IF a < MEM_SIZE /\ a + 4 * n >= MEM_SIZE
               THEN a + 4 * n - RingBytes ELSE a + 4 * n

\* Mutant: the length is not checked.
AcceptedShort(header, marker) == CrcOk(header)

\* rx_check_crc_ok() && rx_bytes_read() >= rx_packet_length(); the number of
\* bytes read is unsigned, so a marker below 8 stands for a huge one.
Accepted(header, marker) ==
  CrcOk(header) /\ (marker < 8 \/ marker - 8 >= LengthOf(header))

\* What PacketQueue knows of packet i.
Packet(i) == [id |-> i, good |-> air[i].ok /\ 4 * (air[i].size - 1) >= air[i].len]

\* A dump is the packet, its header and RX_PAD bytes.
DumpWords(len) == (len + 4 + 4 + 3) \div 4

Init ==
  /\ mem = [w \in Words |-> Junk]
  /\ rd_buf_addr = MEM_RX_BUF /\ wr_buf_addr = MEM_RX_BUF /\ wr_bytes = 0
  /\ rx_state = "init" /\ packet_ready = 0
  /\ rd_packet_addr = MEM_RX_BUF /\ wr_packet_addr = 0
  /\ rd_packet_header = Junk /\ rd_packet_marker = 0
  /\ scr = Plain
  /\ pc = "TestFlood" /\ forward = FALSE /\ rx_auto = 0 /\ rx_flood = 0
  /\ dumping_mem = 0 /\ dump_hbc_rx = FALSE
  /\ fifo = <<>> /\ pushed = 0 /\ almost_full = FALSE /\ pkt_ready = FALSE
  /\ air = <<>> /\ dumped = [pkt |-> 0, words |-> <<>>]
  /\ served = [pkt |-> [id |-> 0, good |-> FALSE], fate |-> "none"]
  /\ crossed = FALSE /\ polled = FALSE /\ found = FALSE /\ stale = FALSE
  /\ cmds = 0

-----------------------------------------------------------------------------
(* The receiver.  pushed counts the words of the current packet already in *)
(* the FIFO; the packet is over when its interrupt is acknowledged.        *)

Receiving == air # <<>> /\ pushed <= air[Len(air)].size

AirStart(p) ==
  /\ ~Receiving /\ Len(air) < MaxPackets
  /\ air' = Append(air, p) /\ pushed' = 0
  /\ UNCHANGED <<mem, ring, writer, packet_ready, scr, loop, rx_auto, rx_flood,
                 dump, fifo, almost_full, pkt_ready, served, host, cmds>>

AirWord ==
  /\ Receiving /\ pushed < air[Len(air)].size
  /\ fifo' = Append(fifo, [pkt |-> Len(air), i |-> pushed])
  /\ pushed' = pushed + 1
  /\ almost_full' = (almost_full \/ Len(fifo') >= AlmostFull)
  /\ UNCHANGED <<mem, ring, writer, packet_ready, scr, loop, rx_auto, rx_flood,
                 dump, pkt_ready, air, served, host, cmds>>

AirEnd ==
  /\ Receiving /\ pushed = air[Len(air)].size /\ ~pkt_ready
  /\ pkt_ready' = TRUE
  /\ UNCHANGED <<mem, ring, writer, packet_ready, scr, loop, rx_auto, rx_flood,
                 dump, fifo, pushed, almost_full, air, served, host, cmds>>

-----------------------------------------------------------------------------
(* The receive interrupts.                                                 *)

\* The scrambler n words later.
Later(key, n) == [seed |-> key.seed, pos |-> key.pos + n]

\* The keystream before a handler's first FIFO word: a packet's header reseeds
\* it and takes no word of it.
\* Mutant: no reseed.
KeystreamKept(starts) == IF starts THEN Later(scr, -1) ELSE scr

Keystream(starts) ==
  IF starts THEN [seed |-> air[fifo[1].pkt].seed, pos |-> -1] ELSE scr

\* The state rx_data_int_func leaves: the FIFO is empty and its words are in
\* the ring, a packet's first word after a marker of -1.
Drained ==
  LET starts == rx_state = "init" /\ fifo # <<>>
      keys   == Keystream(starts)
      payload(j) == Data(fifo[j].pkt, fifo[j].i, Later(keys, j - 1))
      words  == IF starts
                THEN <<Marker(-1), Header(fifo[1].pkt)>> \o
                     [j \in 1..(Len(fifo) - 1) |-> payload(j + 1)]
                ELSE [j \in 1..Len(fifo) |-> payload(j)]
      index(w) == ((4 * w - wr_buf_addr) % RingBytes) \div 4 + 1
  IN  [mem   |-> [w \in Words |->
                    IF 4 * w >= MEM_RX_BUF /\ index(w) \in DOMAIN words
                    THEN words[index(w)] ELSE mem[w]],
       at    |-> IncBy(wr_buf_addr, Len(words)),
       start |-> IF starts THEN wr_buf_addr ELSE wr_packet_addr,
       bytes |-> wr_bytes + 4 * Len(words),
       state |-> IF starts THEN "reading" ELSE rx_state,
       scr   |-> Later(keys, Len(fifo))]

RxData ==
  /\ almost_full
  /\ almost_full' = FALSE /\ fifo' = <<>>
  /\ LET d == Drained
     IN  /\ mem' = d.mem /\ wr_buf_addr' = d.at /\ wr_packet_addr' = d.start
         /\ wr_bytes' = d.bytes /\ rx_state' = d.state /\ scr' = d.scr
  /\ UNCHANGED <<ring, packet_ready, loop, rx_auto, rx_flood, dump, pushed,
                 pkt_ready, air, served, host, cmds>>

\* The rest of the packet, then its marker, if any word of it was written.
RxReady ==
  /\ pkt_ready
  /\ pkt_ready' = FALSE /\ fifo' = <<>> /\ pushed' = pushed + 1
  /\ LET d == Drained
     IN  /\ wr_buf_addr' = d.at /\ wr_packet_addr' = d.start
         /\ scr' = d.scr /\ wr_bytes' = 0
         /\ IF d.bytes # 0
            THEN /\ mem' = [d.mem EXCEPT ![Word(d.start)] = Marker(d.bytes)]
                 /\ rx_state' = "init" /\ packet_ready' = packet_ready + 1
            ELSE UNCHANGED <<mem, rx_state, packet_ready>>
  /\ UNCHANGED <<ring, loop, rx_auto, rx_flood, dump, almost_full, air, served,
                 host, cmds>>

-----------------------------------------------------------------------------
(* Reading the ring.                                                       *)

\* The marker and the header read_headers finds at rd_packet_addr.
HeadMarker == MarkerOf(mem[Word(rd_packet_addr)])
HeadHeader == mem[Word(Step(rd_packet_addr % MEM_SIZE))]

\* rx_packet_ready() leaves the read position at the packet; "skip" words are
\* read after it.
ReadHeaders(skip) ==
  /\ rd_packet_marker' = HeadMarker /\ rd_packet_header' = HeadHeader
  /\ rd_buf_addr' = IF skip = 0 THEN rd_packet_addr ELSE IncBy(rd_packet_addr, skip)

\* A command that reads the ring during the dump of a packet moves rd_buf_addr,
\* from which it is dumped, and so does the flood mode.
Cross ==
  /\ crossed' = (crossed \/ (dumping_mem > 0 /\ dump_hbc_rx))
  /\ UNCHANGED <<dumping_mem, dump_hbc_rx, dumped>>

\* rx_packet_next(), for the marker and header read last
PacketNext(marker, header, fate) ==
  IF marker = -1
  THEN UNCHANGED <<rd_packet_addr, packet_ready, served>>
  ELSE /\ rd_packet_addr' = rd_packet_addr + marker
       /\ packet_ready' = packet_ready - 1
       /\ served' = [pkt |-> IF header.kind = "header" THEN Packet(header.pkt)
                             ELSE [id |-> 0, good |-> FALSE],
                     fate |-> fate]

\* hbc_to_spi(forward_packet), interrupts disabled throughout
HbcToSpi ==
  /\ pc = "HbcToSpi" /\ pc' = "TestFlood" /\ ~stale
  /\ LET accepted == packet_ready # 0 /\ Accepted(HeadHeader, HeadMarker)
     IN  /\ IF accepted /\ forward
            THEN /\ dumping_mem' = DumpWords(LengthOf(HeadHeader))
                 /\ dump_hbc_rx' = TRUE
                 /\ dumped' = [pkt |-> HeadHeader.pkt, words |-> <<>>]
                 /\ crossed' = FALSE
                 /\ ReadHeaders(1)
            ELSE UNCHANGED dump /\ ReadHeaders(0)
         /\ IF packet_ready = 0
            THEN UNCHANGED <<rd_packet_addr, packet_ready, served>>
            ELSE PacketNext(HeadMarker, HeadHeader,
                            IF ~accepted THEN "discard"
                            ELSE IF forward THEN "forward" ELSE "flood")
         /\ found' = FALSE
  /\ UNCHANGED <<mem, writer, scr, forward, rx_auto, rx_flood, receiver, polled,
                 stale, cmds>>

\* if (rx_flood || (rx_auto && !hbc_spi_dump_busy())) hbc_to_spi(!rx_flood)
Test(from, to) ==
  /\ pc = from /\ pc' = to
  /\ forward' = IF from = "Argument" THEN rx_flood = 0 ELSE forward
  /\ UNCHANGED <<mem, ring, writer, packet_ready, scr, rx_auto, rx_flood, receiver,
                 served, host, cmds>>

\* The flood mode does not wait for a dump to end.
TestFlood ==
  /\ Test("TestFlood", IF rx_flood # 0 THEN "Argument" ELSE "TestAuto")
  /\ IF rx_flood # 0 THEN Cross ELSE UNCHANGED dump

\* Mutants: the automatic mode forgotten, a dump in progress overlooked.
TestAutoNever == Test("TestAuto", "TestFlood") /\ UNCHANGED dump
TestBusyNever == Test("TestBusy", "Argument") /\ UNCHANGED dump

TestAuto ==
  Test("TestAuto", IF rx_auto # 0 THEN "TestBusy" ELSE "TestFlood") /\ UNCHANGED dump
TestBusy ==
  /\ Test("TestBusy", IF dumping_mem = 0 THEN "Argument" ELSE "TestFlood")
  /\ UNCHANGED dump
Argument == Test("Argument", "HbcToSpi") /\ UNCHANGED dump

\* After a late RX_NEXT the readers take arbitrary words for markers: neither
\* what the loop takes then is modelled nor what the host asks.
Lost == stale /\ Test("HbcToSpi", "TestFlood") /\ UNCHANGED dump

\* hbc_data_irq on the first byte of a dumped word; the other bytes touch no
\* state of the receive path.
DumpWord ==
  /\ dumping_mem > 0
  /\ dumping_mem' = dumping_mem - 1
  /\ IF dump_hbc_rx
     THEN /\ dumped' = [dumped EXCEPT !.words = Append(@, mem[Word(rd_buf_addr)])]
          /\ rd_buf_addr' = Inc(rd_buf_addr)
     ELSE UNCHANGED <<dumped, rd_buf_addr>>
  /\ UNCHANGED <<mem, rd_packet_addr, rd_packet_header, rd_packet_marker,
                 writer, packet_ready, scr, loop, rx_auto, rx_flood,
                 dump_hbc_rx, crossed, receiver, served, host, cmds>>

-----------------------------------------------------------------------------
(* The commands of ctrl_cmd that touch the receive path.  RX_LENGTH,       *)
(* RX_BYTES_READ, RX_CRC_OK and the two address queries only reply.        *)

Command(c) ==
  /\ c \in Cmds /\ cmds < MaxCmds /\ ~stale
  /\ cmds' = cmds + 1
  /\ UNCHANGED <<mem, writer, loop, receiver>>

RxAuto(b) ==
  /\ Command("RX_AUTO") /\ rx_auto' = b
  /\ UNCHANGED <<ring, packet_ready, scr, rx_flood, dump, served, host>>

RxFlood(b) ==
  /\ Command("RX_FLOOD") /\ rx_flood' = b
  /\ UNCHANGED <<ring, packet_ready, scr, rx_auto, dump, served, host>>

RxPacketReady ==
  /\ Command("RX_READY")
  /\ ReadHeaders(0) /\ rd_packet_addr' = rd_packet_addr /\ Cross
  /\ polled' = (packet_ready # 0) /\ found' = (packet_ready # 0)
  /\ UNCHANGED <<packet_ready, scr, rx_auto, rx_flood, served, stale>>

RxRead ==
  /\ Command("RX_READ")
  /\ rd_buf_addr' = Inc(rd_buf_addr) /\ Cross
  /\ UNCHANGED <<rd_packet_addr, rd_packet_header, rd_packet_marker,
                 packet_ready, scr, rx_auto, rx_flood, served, host>>

\* Host discipline: RX_NEXT takes what RX_READY found.  The main loop may have
\* taken it meanwhile, which the host cannot see: then it is taken twice.
RxPacketNext ==
  /\ Command("RX_NEXT") /\ polled
  /\ PacketNext(rd_packet_marker, rd_packet_header, "host")
  /\ polled' = FALSE /\ found' = FALSE /\ stale' = ~found
  /\ UNCHANGED <<rd_buf_addr, rd_packet_header, rd_packet_marker,
                 scr, rx_auto, rx_flood, dump>>

\* How many words rx_check_packet() reads of a packet it accepts.
CheckWords ==
  LET len == LengthOf(HeadHeader)
  IN  3 + IF len = 0 THEN 0 ELSE (len - 1) \div 4

\* rx_check_packet(): marker, header and payload are read, the packet taken.
RxCheck ==
  /\ Command("RX_CHECK")
  /\ LET good == Accepted(HeadHeader, HeadMarker)
     IN  IF packet_ready = 0
         THEN /\ ReadHeaders(0)
              /\ UNCHANGED <<rd_packet_addr, packet_ready, served>>
         ELSE /\ ReadHeaders(IF good THEN CheckWords ELSE 0)
              /\ PacketNext(HeadMarker, HeadHeader,
                            IF good THEN "host" ELSE "discard")
  /\ Cross
  /\ polled' = FALSE /\ found' = FALSE
  /\ UNCHANGED <<scr, rx_auto, rx_flood, stale>>

\* hbc_spi_dump_bytes(arg, 0)
MemDump(n) ==
  /\ Command("MEM_DUMP")
  /\ dumping_mem' = n /\ dump_hbc_rx' = FALSE
  /\ UNCHANGED <<ring, packet_ready, scr, rx_auto, rx_flood, dumped, crossed,
                 served, host>>

\* CMD_SCRAMBLER_READ
ScramblerRead ==
  /\ Command("SCRAMBLER_READ")
  /\ scr' = Later(scr, 1)
  /\ UNCHANGED <<ring, packet_ready, rx_auto, rx_flood, dump, served, host>>

Main == TestFlood \/ TestAuto \/ TestBusy \/ Argument \/ HbcToSpi \/ Lost

CtrlIrq ==
  \/ \E b \in {0, 1} : RxAuto(b) \/ RxFlood(b)
  \/ RxPacketReady \/ RxRead \/ RxPacketNext \/ RxCheck
  \/ MemDump(1) \/ ScramblerRead

Receiver == (\E p \in Packets : AirStart(p)) \/ AirWord \/ AirEnd

Handlers == RxData \/ RxReady \/ DumpWord

Next == Receiver \/ Handlers \/ CtrlIrq \/ Main

Spec == Init /\ [][Next]_vars

HandlerDue == almost_full \/ pkt_ready \/ dumping_mem > 0

\* The main loop keeps running, and while an interrupt is pending some handler
\* runs: a host that has asked for packets reads out the bytes it is offered.
\* This is weak fairness of Main and Handlers with the ENABLED written out:
\* Main always is enabled, Handlers when HandlerDue.
FairSpec ==
  /\ Spec
  /\ []<><<Main>>_vars
  /\ []<>~HandlerDue \/ []<><<Handlers>>_vars

-----------------------------------------------------------------------------
(* Properties.                                                             *)

\* Every variable holds a value of its type in the code, the ring's write
\* address one of the receive half.
TypeOK ==
  /\ DOMAIN mem = Words
  /\ \A w \in Words : mem[w].kind \in {"junk", "marker", "header", "data"}
  /\ wr_buf_addr \in MEM_RX_BUF..(MEM_SIZE - 4) /\ wr_buf_addr % 4 = 0
  /\ wr_packet_addr \in {0} \cup MEM_RX_BUF..(MEM_SIZE - 4)
  /\ rd_buf_addr \in Nat /\ rd_packet_addr \in Nat /\ rd_packet_marker \in Int
  /\ wr_bytes \in Nat /\ rx_state \in {"init", "reading"}
  /\ packet_ready \in Int /\ (~stale => packet_ready \in 0..Len(air))
  /\ pc \in {"TestFlood", "TestAuto", "TestBusy", "Argument", "HbcToSpi"}
  /\ forward \in BOOLEAN /\ rx_auto \in {0, 1} /\ rx_flood \in {0, 1}
  /\ dumping_mem \in Nat /\ dump_hbc_rx \in BOOLEAN

\* The packets in the ring: packet_ready of them, one marker after another
\* from rd_packet_addr on.
PacketAddr ==
  LET at[k \in 1..(packet_ready + 1)] ==
        IF k = 1 THEN rd_packet_addr
        ELSE at[k - 1] + MarkerOf(mem[Word(at[k - 1])])
  IN  at

Waiting ==
  [k \in 1..packet_ready |->
     LET header == mem[Word(Step(PacketAddr[k]))]
     IN  IF header.kind = "header" THEN Packet(header.pkt)
         ELSE [id |-> 0, good |-> FALSE]]

Queue == INSTANCE PacketQueue WITH Ids <- 1..MaxPackets, waiting <- Waiting

\* The ring, its markers and packet_ready are a queue of whole packets: they
\* are taken in the order they came, each once, good ones forwarded and bad
\* ones discarded, whatever the host asks and however the interrupts fall.
\* So it is on the writer's first round (see ReaderStaysInRing for the second)
\* and until an RX_NEXT comes too late: that takes a packet nobody looked at.
QueueSpec ==
  Queue!Init /\ [][Queue!Next \/ stale']_<<Waiting, served>>

\* A forwarded packet reaches the host as it was received: the words dumped
\* are its header and payload in order, though the packet was already taken
\* from the queue (rx_packet_next) and others arrive meanwhile.  Only if the
\* host reads the ring in the middle of the dump, or has it flooded, may it not.
DumpIntact ==
  ~crossed /\ ~stale =>
    \A k \in DOMAIN dumped.words :
      k <= air[dumped.pkt].size =>
        IF k = 1 THEN dumped.words[k] = Header(dumped.pkt)
        ELSE /\ dumped.words[k].kind = "data"
             /\ dumped.words[k].pkt = dumped.pkt /\ dumped.words[k].n = k - 1

\* In automatic mode packets do not stay in the ring, whatever is wrong with
\* them and whatever else the host asks, short of a late RX_NEXT.
PacketsLeave == <>[](rx_auto = 1) => []<>(packet_ready = 0 \/ stale)

-----------------------------------------------------------------------------
(* What the comments say of the program and the code does not do.          *)

\* The behaviours in which every packet is taken before the next is complete,
\* so that none is overwritten.
TimelySpec == Init /\ [][Next /\ packet_ready' <= 1]_vars

\* main.c:330, "Divide memory into RX and TX circular buffers": what is read as
\* the oldest packet is in the receive half, as what was written is.
ReaderStaysInRing ==
  packet_ready > 0 => rd_packet_addr % MEM_SIZE \in MEM_RX_BUF..(MEM_SIZE - 4)
=============================================================================
