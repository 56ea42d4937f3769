---------------------------- MODULE HbcMacProofs ----------------------------
(***************************************************************************)
(* Proofs about the whole firmware: it implements TxPath, whose theorems   *)
(* so hold of it, its receiver listens, what it receives is descrambled    *)
(* with the right keystream, and what it forwards is what it received.     *)
(***************************************************************************)
EXTENDS HbcMac, TxPathProofs

\* The proofs about RxPath, at the receiver this module composes.
RP == INSTANCE RxPathProofs WITH RingBytes <- TxBytes, Cmds <- RxCmds,
        MaxCmds <- RxMaxCmds, mem <- rx_mem, pc <- rx_pc, cmds <- rx_cmds

-----------------------------------------------------------------------------
(* RP is R with its proofs: what R does, RP does.                          *)

LEMMA SameAssumption == RP!RxAssumption
BY MacAssumption DEF R!RxAssumption, RP!RxAssumption

LEMMA SameInit == R!Init => RP!Init
BY Zenon DEF R!Init, RP!Init, R!MEM_RX_BUF, RP!MEM_RX_BUF, R!Words, RP!Words,
   R!MEM_SIZE, RP!MEM_SIZE, R!Junk, RP!Junk, R!Plain, RP!Plain

LEMMA SameAir ==
  ASSUME NEW p
  PROVE  /\ R!Receiving <=> RP!Receiving
         /\ R!AirStart(p) => RP!AirStart(p)
         /\ R!AirWord => RP!AirWord
         /\ R!AirEnd => RP!AirEnd
<1> USE DEF R!Receiving, RP!Receiving, R!ring, RP!ring, R!writer, RP!writer, R!loop,
            RP!loop, R!dump, RP!dump, R!host, RP!host
<1>1. R!Receiving <=> RP!Receiving
  BY Zenon
<1>2. R!AirStart(p) => RP!AirStart(p)
  BY Zenon DEF R!AirStart, RP!AirStart
<1>3. R!AirWord => RP!AirWord
  BY Zenon DEF R!AirWord, RP!AirWord
<1>4. R!AirEnd => RP!AirEnd
  BY Zenon DEF R!AirEnd, RP!AirEnd
<1> QED
  BY <1>1, <1>2, <1>3, <1>4

LEMMA SameInterrupts == R!RxData \/ R!RxReady => RP!RxData \/ RP!RxReady
<1> USE DEF R!Drained, RP!Drained, R!Keystream, RP!Keystream, R!Data, RP!Data,
            R!Later, RP!Later, R!Marker, RP!Marker, R!Header, RP!Header, R!Plain,
            RP!Plain, R!MEM_RX_BUF, RP!MEM_RX_BUF, R!Words, RP!Words, R!MEM_SIZE,
            RP!MEM_SIZE, R!IncBy, RP!IncBy, R!Word, RP!Word, R!ring, RP!ring,
            R!loop, RP!loop, R!dump, RP!dump, R!host, RP!host
<1>1. R!RxData => RP!RxData
  BY Zenon DEF R!RxData, RP!RxData
<1>2. R!RxReady => RP!RxReady
  BY Zenon DEF R!RxReady, RP!RxReady
<1> QED
  BY <1>1, <1>2

\* What the readers of the ring are made of.
LEMMA SameHead ==
  /\ R!HeadHeader = RP!HeadHeader /\ R!HeadMarker = RP!HeadMarker
  /\ \A h, m : R!Accepted(h, m) <=> RP!Accepted(h, m)
  /\ \A skip : R!ReadHeaders(skip) <=> RP!ReadHeaders(skip)
  /\ \A m, h, fate : R!PacketNext(m, h, fate) <=> RP!PacketNext(m, h, fate)
  /\ \A h : R!LengthOf(h) = RP!LengthOf(h)
  /\ \A a, n : R!IncBy(a, n) = RP!IncBy(a, n)
<1> USE DEF R!Word, RP!Word, R!MEM_SIZE, RP!MEM_SIZE, R!Step, RP!Step, R!MarkerOf,
            RP!MarkerOf, R!LengthOf, RP!LengthOf, R!CrcOk, RP!CrcOk, R!IncBy, RP!IncBy
<1>1. R!HeadHeader = RP!HeadHeader /\ R!HeadMarker = RP!HeadMarker
  BY Zenon DEF R!HeadHeader, RP!HeadHeader, R!HeadMarker, RP!HeadMarker
<1>2. \A h, m : R!Accepted(h, m) <=> RP!Accepted(h, m)
  BY Zenon DEF R!Accepted, RP!Accepted
<1>3. \A skip : R!ReadHeaders(skip) <=> RP!ReadHeaders(skip)
  BY <1>1, Zenon DEF R!ReadHeaders, RP!ReadHeaders
<1>4. \A m, h, fate : R!PacketNext(m, h, fate) <=> RP!PacketNext(m, h, fate)
  BY Zenon DEF R!PacketNext, RP!PacketNext, R!Packet, RP!Packet
<1> QED
  BY <1>1, <1>2, <1>3, <1>4, Zenon

LEMMA SameLoop ==
  /\ R!Main => RP!Main
  /\ R!DumpWord => RP!DumpWord
<1> USE DEF R!ring, RP!ring, R!writer, RP!writer, R!loop, RP!loop, R!dump, RP!dump,
            R!receiver, RP!receiver, R!host, RP!host
<1>1. R!HbcToSpi => RP!HbcToSpi
  BY SameHead, Zenon DEF R!HbcToSpi, RP!HbcToSpi, R!DumpWords, RP!DumpWords
<1>2. /\ R!TestFlood => RP!TestFlood
      /\ R!TestAuto => RP!TestAuto
      /\ R!TestBusy => RP!TestBusy
      /\ R!Argument => RP!Argument
      /\ R!Lost => RP!Lost
  BY Zenon DEF R!TestFlood, RP!TestFlood, R!TestAuto, RP!TestAuto, R!TestBusy,
     RP!TestBusy, R!Argument, RP!Argument, R!Lost, RP!Lost, R!Test, RP!Test, R!Cross,
     RP!Cross
<1>3. R!Main => RP!Main
  BY <1>1, <1>2, Zenon DEF R!Main, RP!Main
<1>4. R!DumpWord => RP!DumpWord
  BY Zenon DEF R!DumpWord, RP!DumpWord, R!Inc, RP!Inc, R!MEM_RX_BUF, RP!MEM_RX_BUF,
     R!Word, RP!Word, R!MEM_SIZE, RP!MEM_SIZE
<1> QED
  BY <1>3, <1>4

LEMMA SameCommands ==
  /\ \A v : R!RxAuto(v) => RP!RxAuto(v)
  /\ \A v : R!RxFlood(v) => RP!RxFlood(v)
  /\ R!RxPacketReady => RP!RxPacketReady
  /\ R!RxRead => RP!RxRead
  /\ R!RxPacketNext => RP!RxPacketNext
  /\ R!RxCheck => RP!RxCheck
  /\ R!MemDump(1) => RP!MemDump(1)
  /\ R!ScramblerRead => RP!ScramblerRead
<1> USE DEF R!ring, RP!ring, R!writer, RP!writer, R!loop, RP!loop, R!dump, RP!dump,
            R!receiver, RP!receiver, R!host, RP!host, R!Command, RP!Command, R!Cross,
            RP!Cross
<1>1. /\ \A v : R!RxAuto(v) => RP!RxAuto(v)
      /\ \A v : R!RxFlood(v) => RP!RxFlood(v)
  BY Zenon DEF R!RxAuto, RP!RxAuto, R!RxFlood, RP!RxFlood
<1>2. R!RxPacketReady => RP!RxPacketReady
  BY SameHead, Zenon DEF R!RxPacketReady, RP!RxPacketReady
<1>3. R!RxRead => RP!RxRead
  BY Zenon DEF R!RxRead, RP!RxRead, R!Inc, RP!Inc, R!MEM_RX_BUF, RP!MEM_RX_BUF,
     R!MEM_SIZE, RP!MEM_SIZE
<1>4. R!RxPacketNext => RP!RxPacketNext
  BY SameHead, Zenon DEF R!RxPacketNext, RP!RxPacketNext
<1>5. R!RxCheck => RP!RxCheck
  <2>1. R!CheckWords = RP!CheckWords
    BY SameHead, Zenon DEF R!CheckWords, RP!CheckWords
  <2> QED
    BY <2>1, SameHead, Zenon DEF R!RxCheck, RP!RxCheck
<1>6. R!MemDump(1) => RP!MemDump(1)
  BY Zenon DEF R!MemDump, RP!MemDump
<1>7. R!ScramblerRead => RP!ScramblerRead
  BY Zenon DEF R!ScramblerRead, RP!ScramblerRead, R!Later, RP!Later
<1> QED
  BY <1>1, <1>2, <1>3, <1>4, <1>5, <1>6, <1>7, Zenon

\* A command of the host is one of RxPath, or reads the DRAM elsewhere.
LEMMA SameHost ==
  ASSUME RP!LoopInv, RxCommands
  PROVE  RP!CtrlIrq \/ (UNCHANGED rxvars /\ UNCHANGED scr)
<1>1. 1 - rx_auto \in {0, 1} /\ 1 - rx_flood \in {0, 1}
  BY DEF RP!LoopInv
<1>2. CASE HostReads
  BY <1>2, SameCommands DEF HostReads, RP!CtrlIrq
<1>3. CASE HostAsks
  <2>1. \/ RP!RxAuto(1 - rx_auto) \/ RP!RxFlood(1 - rx_flood)
        \/ RP!RxPacketNext \/ RP!MemDump(1) \/ RP!ScramblerRead
    BY <1>3, SameCommands, Zenon DEF HostAsks
  <2> QED
    BY <1>1, <2>1 DEF RP!CtrlIrq
<1>4. CASE MemRead
  BY <1>4 DEF MemRead
<1> QED
  BY <1>2, <1>3, <1>4 DEF RxCommands

-----------------------------------------------------------------------------
(* The two halves.                                                         *)

\* The receive half of the main loop runs between two rounds of the other.
TurnInv == turn \in {"tx", "rx"} /\ (turn = "rx" => pc = "TestSend")

MacInv ==
  TypeInv /\ SectionInv /\ RP!RxInv /\ scr \in RP!Keys /\ TurnInv

\* The steps of the transmit side, and those of the receive side.
TxStep == TxMain \/ TxCommands \/ TxLoadByte

RxStep == RxMain \/ RxInterrupts \/ DataIrq \/ RxCommands \/ AirStart
            \/ AirGoesOn \/ AirCut

LEMMA RxUnchanged ==
  ASSUME UNCHANGED rxvars
  PROVE  UNCHANGED <<rx_mem, RP!ring, RP!writer, packet_ready, RP!loop, rx_auto,
                     rx_flood, RP!dump, RP!receiver, served, found, stale>>
BY DEF rxvars, RP!ring, RP!writer, RP!loop, RP!dump, RP!receiver

\* The receive side changes nothing of the transmit path but the read pointer
\* and the scrambler, and those only with interrupts on.
LEMMA RxKeeps ==
  ASSUME MacInv, RxStep
  PROVE  /\ UNCHANGED <<txvars, toggled>> /\ (RxCommands \/ UNCHANGED disturbed)
         /\ scr' \in RP!Keys /\ RP!RxInv'
<1> USE SameAssumption DEF MacInv, RxRest
<1>1. CASE RxMain
  <2>1. RP!Main /\ UNCHANGED <<txvars, disturbed, toggled>>
    BY <1>1, SameLoop DEF RxMain
  <2>2. UNCHANGED scr
    BY <2>1, Zenon DEF RP!Main, RP!TestFlood, RP!TestAuto, RP!TestBusy, RP!Argument,
       RP!Lost, RP!Test, RP!HbcToSpi
  <2>3. RP!RxInv'
    BY <2>1, RP!LoopTests, RP!PacketForwarded DEF RP!Main
  <2> QED
    BY <2>1, <2>2, <2>3
<1>2. CASE RxInterrupts
  <2>1. (RP!RxData \/ RP!RxReady) /\ UNCHANGED <<txvars, disturbed, toggled>>
    BY <1>2, SameInterrupts DEF RxInterrupts
  <2> QED
    BY <2>1, RP!DataTaken, RP!PacketTaken
<1>3. CASE DataIrq
  <2>1. RP!DumpWord /\ UNCHANGED <<txvars, disturbed, toggled>>
    BY <1>3, SameLoop DEF DataIrq
  <2>2. UNCHANGED scr
    BY <2>1 DEF RP!DumpWord
  <2> QED
    BY <2>1, <2>2, RP!WordDumped
<1>4. CASE RxCommands
  <2>1. UNCHANGED <<txvars, toggled>>
    BY <1>4 DEF RxCommands
  <2>2. CASE RP!CtrlIrq
    BY <1>4, <2>1, <2>2, RP!CommandDone
  <2>3. CASE UNCHANGED rxvars /\ UNCHANGED scr
    <3>1. RP!RxInv'
      BY <2>3, RxUnchanged, RP!RxStutter
    <3> QED
      BY <1>4, <2>1, <2>3, <3>1
  <2> QED
    BY <1>4, <2>2, <2>3, SameHost DEF RP!RxInv
<1>5. CASE AirStart
  <2>1. PICK p \in Packets : RP!AirStart(p)
    BY <1>5, SameAir DEF AirStart
  <2>2. UNCHANGED <<txvars, disturbed, toggled>>
    BY <1>5 DEF AirStart
  <2>3. UNCHANGED scr
    BY <2>1 DEF RP!AirStart
  <2> QED
    BY <2>1, <2>2, <2>3, RP!PacketArrives
<1>6. CASE AirGoesOn
  <2>1. (RP!AirWord \/ RP!AirEnd) /\ UNCHANGED <<txvars, disturbed, toggled>>
    BY <1>6, SameAir DEF AirGoesOn
  <2>2. UNCHANGED scr
    BY <2>1 DEF RP!AirWord, RP!AirEnd
  <2> QED
    BY <2>1, <2>2, RP!WordArrives, RP!PacketEnds
<1>7. CASE AirCut
  <2>1. /\ RP!Receiving /\ pushed < air[Len(air)].size
        /\ air' = [air EXCEPT ![Len(air)].size = pushed]
        /\ UNCHANGED <<rx_mem, RP!ring, RP!writer, packet_ready, RP!loop, rx_auto,
                        rx_flood, RP!dump, fifo, pushed, almost_full, pkt_ready, found,
                        stale>>
    BY <1>7, SameAir DEF AirCut, RP!ring, RP!writer, RP!loop, RP!dump
  <2>2. UNCHANGED <<vars, disturbed, toggled>>
    BY <1>7 DEF AirCut
  <2>3. UNCHANGED <<txvars, scr>>
    BY <2>2 DEF txvars, vars, dram
  <2> QED
    BY <2>1, <2>2, <2>3, RP!PacketCut
<1> QED
  BY <1>1, <1>2, <1>3, <1>4, <1>5, <1>6, <1>7 DEF RxStep

\* Where the receive side leaves the read pointer.
LEMMA RxPointer ==
  ASSUME MacInv, RxStep
  PROVE  UNCHANGED <<rd_p, scr>> \/ (irq_on /\ rd_p' \in Nat)
<1>1. rd_p \in Nat /\ rd_packet_addr \in Nat /\ rd_buf_addr \in Nat
      /\ HeadersRead \in Nat /\ ReadAddrs \subseteq Nat
  <2>1. rd_p \in Nat /\ rd_packet_addr \in Nat /\ rd_buf_addr \in Nat
    BY DEF MacInv, TypeInv, ScalarsInv, ScalarsOK, RP!RxInv, RP!ReaderInv
  <2> QED
    BY <2>1, MacAssumption, StepIsAddress DEF HeadersRead
<1>2. CASE RxMain
  <2>1. irq_on
    BY <1>2 DEF RxMain, MacInv, TurnInv, SectionInv, Section
  <2>2. Step(rd_packet_addr) \in Nat
    BY <1>1, StepIsAddress
  <2>3. UNCHANGED scr
    BY <1>2, Zenon DEF RxMain, R!Main, R!TestFlood, R!TestAuto, R!TestBusy, R!Argument,
       R!Lost, R!Test, R!HbcToSpi
  <2> QED
    BY <1>1, <1>2, <2>1, <2>2 DEF RxMain
<1>3. CASE RxInterrupts \/ DataIrq
  BY <1>1, <1>3, StepIsAddress DEF RxInterrupts, DataIrq
<1>4. CASE AirStart \/ AirGoesOn \/ AirCut
  <2>1. UNCHANGED rd_p
    BY <1>4 DEF AirStart, AirGoesOn, AirCut, vars, dram
  <2>2. UNCHANGED scr
    BY <1>4, Zenon DEF AirStart, AirGoesOn, AirCut, vars, R!AirStart, R!AirWord, R!AirEnd
  <2> QED
    BY <2>1, <2>2
<1>5. CASE RxCommands
  <2>1. irq_on
    BY <1>5 DEF RxCommands
  <2>2. CASE HostReads
    <3>1. Step(R!IncBy(rd_packet_addr, R!CheckWords - 1)) \in Nat
      <4>1. RP!CheckWords \in Nat /\ RP!CheckWords >= 1
        BY SameAssumption, RP!CheckReads DEF MacInv
      <4>2. RP!CheckWords - 1 \in Nat
        BY <4>1
      <4>3. RP!IncBy(rd_packet_addr, RP!CheckWords - 1) \in Nat
        BY <1>1, <4>2, SameAssumption, RP!PointersStep
      <4>4. R!CheckWords = RP!CheckWords
        BY SameHead, Zenon DEF R!CheckWords, RP!CheckWords
      <4> QED
        BY <4>3, <4>4, SameHead, StepIsAddress
    <3>2. rd_p' \in {HeadersRead, Step(rd_buf_addr),
                     Step(R!IncBy(rd_packet_addr, R!CheckWords - 1))}
      BY <2>2, Zenon DEF HostReads
    <3> QED
      BY <1>1, <2>1, <3>1, <3>2, StepIsAddress
  <2>3. CASE HostAsks /\ UNCHANGED rd_p
    BY <1>1, <2>1, <2>3
  <2>4. CASE MemRead
    BY <1>1, <2>1, <2>4, StepIsAddress DEF MemRead
  <2> QED
    BY <1>5, <2>2, <2>3, <2>4 DEF RxCommands
<1> QED
  BY <1>2, <1>3, <1>4, <1>5 DEF RxStep

\* The transmit side changes nothing of the receive path but the scrambler.
LEMMA TxKeeps ==
  ASSUME MacInv, TxStep
  PROVE  /\ Main \/ CtrlIrq \/ LoadByte
         /\ UNCHANGED rxvars /\ RP!RxInv' /\ scr' \in RP!Keys
<1>1. (Main \/ CtrlIrq \/ LoadByte) /\ UNCHANGED rxvars
  BY DEF TxStep, TxMain, TxCommands, TxLoadByte, TxRest
<1>2. RP!RxInv'
  BY <1>1, RxUnchanged, SameAssumption, RP!RxStutter DEF MacInv
<1>3. scr' \in RP!Keys
  <2>1. CASE Payload0
    BY <2>1 DEF Payload0, RP!Keys, MacInv, TypeInv, ScalarsInv, ScalarsOK
  <2>2. CASE Modulate
    <3>1. scr' = [scr EXCEPT !.pos = @ + 1] /\ scr \in [seed : {0, 1}, pos : Int]
      BY <2>2 DEF Modulate, MacInv, RP!Keys
    <3> QED
      BY <3>1 DEF RP!Keys
  <2>3. CASE ~Payload0 /\ ~Modulate
    <3>1. UNCHANGED scr
      BY <1>1, <2>3 DEF Main, CtrlIrq, LoadByte, Command, TxTrigger, TxScramblerSeed,
         TxSpreadFactor, TxAuto, TxLoopback, TxFlood, TxAddr, MemWrAddr, TxPacket,
         MemLoad, TestSend, TestFlood, TestAuto, TestMany, TestOne, TestBusy, RxOff,
         Disable, SetPointer, Length, Header, Enable, MaskLoad, MaskStore, SeedLoad,
         SeedStore, RxOn, PendLoad, PendStore, FloodTest, FloodLoad, FloodStore,
         Clear, Test, Load
    <3> QED
      BY <3>1 DEF MacInv
  <2> QED
    BY <2>1, <2>2, <2>3
<1> QED
  BY <1>1, <1>2, <1>3

LEMMA MacStarts ==
  ASSUME MacInit
  PROVE  MacInv
<1>1. TypeInv
  BY TypeInit DEF MacInit
<1>2. SectionInv /\ TurnInv
  BY DEF MacInit, Init, SectionInv, Section, Building, TurnInv
<1>3. RP!RxInv
  BY SameAssumption, SameInit, RP!RxInit DEF MacInit
<1>4. scr \in RP!Keys
  BY DEF MacInit, Init, RP!Keys
<1> QED
  BY <1>1, <1>2, <1>3, <1>4 DEF MacInv

LEMMA MacStep ==
  ASSUME MacInv, [MacNext]_macvars
  PROVE  MacInv'
<1>1. CASE UNCHANGED macvars
  <2>1. UNCHANGED vars /\ UNCHANGED rxvars /\ UNCHANGED turn
    BY <1>1 DEF macvars
  <2>2. TypeInv'
    BY <2>1, TypeStep DEF MacInv
  <2>3. SectionInv' /\ TurnInv' /\ scr' = scr
    BY <2>1 DEF MacInv, SectionInv, TurnInv, FrameOf, vars, cpu, header, history
  <2>4. RP!RxInv'
    BY <2>1, RxUnchanged, SameAssumption, RP!RxStutter DEF MacInv
  <2> QED
    BY <2>2, <2>3, <2>4 DEF MacInv
<1>2. CASE TxStep
  <2>1. TypeInv' /\ SectionInv'
    BY <1>2, TxKeeps, TypeStep, SectionHandler, SectionMain DEF MacInv, Next
  <2>2. TurnInv'
    <3>1. CASE TxMain
      BY <3>1 DEF TxMain, TurnInv
    <3>2. CASE TxCommands \/ TxLoadByte
      <4>1. UNCHANGED <<pc, turn>>
        BY <1>2, <3>2, SectionHandler DEF TxCommands, TxLoadByte, MacInv
      <4> QED
        BY <4>1 DEF MacInv, TurnInv
    <3> QED
      BY <1>2, <3>1, <3>2 DEF TxStep
  <2> QED
    BY <1>2, <2>1, <2>2, TxKeeps DEF MacInv
<1>3. CASE RxStep
  <2>1. UNCHANGED txvars /\ scr' \in RP!Keys /\ RP!RxInv'
    BY <1>3, RxKeeps
  <2>2. rd_p' \in Nat
    BY <1>3, RxPointer DEF MacInv, TypeInv, ScalarsInv, ScalarsOK
  <2>3. UNCHANGED <<cpu, flags, tx_pending, pkt_addr, header, loader, mem, rx_enabled,
                    history>>
    BY <2>1 DEF txvars
  <2>4. ScalarsInv'
    BY <2>2, <2>3 DEF MacInv, TypeInv, ScalarsInv, ScalarsOK, RegisterInv, cpu, flags,
       header, loader, history
  <2>5. DataInv'
    BY <2>3 DEF MacInv, TypeInv, DataInv, DataOK, LoadInv, loader, history
  <2>6. SectionInv'
    BY <2>3 DEF MacInv, SectionInv, FrameOf, cpu, header, history
  <2>7. TurnInv'
    <3>1. UNCHANGED pc
      BY <2>3 DEF cpu
    <3>2. turn' \in {"tx", "rx"} /\ (turn' = "rx" => turn = "rx")
      BY <1>3 DEF RxStep, RxMain, RxInterrupts, DataIrq, RxCommands, AirStart,
         AirGoesOn, AirCut, MacInv, TurnInv
    <3> QED
      BY <3>1, <3>2 DEF MacInv, TurnInv
  <2> QED
    BY <2>1, <2>4, <2>5, <2>6, <2>7 DEF MacInv, TypeInv
<1> QED
  BY <1>1, <1>2, <1>3 DEF MacNext, MacMain, Handlers, TxStep, RxStep

-----------------------------------------------------------------------------
(* The firmware implements the transmit path.                              *)

\* Every step of the firmware is one of TxPath: the receive path's are its
\* OtherHandlers, or do nothing it can see.
LEMMA Implements ==
  ASSUME MacInv, [MacNext]_macvars,
         Nat \subseteq OtherAddrs, RP!Keys \subseteq OtherKeys
  PROVE  [Next]_vars
<1>1. CASE UNCHANGED macvars
  BY <1>1 DEF macvars
<1>2. CASE TxStep
  BY <1>2, TxKeeps DEF Next
<1>3. CASE RxStep
  <2>1. UNCHANGED <<cpu, flags, tx_pending, pkt_addr, header, loader, mem, rx_enabled,
                    history>> /\ scr' \in OtherKeys
    BY <1>3, RxKeeps DEF txvars
  <2>2. CASE UNCHANGED <<rd_p, scr>>
    BY <2>1, <2>2 DEF vars, dram
  <2>3. CASE irq_on /\ rd_p' \in Nat
    BY <2>1, <2>3 DEF OtherHandlers, Next
  <2> QED
    BY <1>3, <2>2, <2>3, RxPointer
<1> QED
  BY <1>1, <1>2, <1>3 DEF MacNext, MacMain, Handlers, TxStep, RxStep

\* What TxPath takes for granted of the receive path, the real one keeps:
\* it touches the scrambler and the read pointer only, and never inside the
\* section that builds a frame.  Every safety theorem of TxPath holds of the
\* whole firmware.
THEOREM ImplementsTxPath ==
  ASSUME Nat \subseteq OtherAddrs, RP!Keys \subseteq OtherKeys
  PROVE  MacSpec => TxSpec
<1>1. MacInit => MacInv /\ Init
  BY MacStarts DEF MacInit
<1>2. MacInv /\ [MacNext]_macvars => MacInv' /\ [Next]_vars
  BY MacStep, Implements
<1> QED
  BY <1>1, <1>2, PTL DEF MacSpec, TxSpec, Spec

\* Frames stay whole in the real firmware.
THEOREM FirmwareFrames ==
  ASSUME Nat \subseteq OtherAddrs, RP!Keys \subseteq OtherKeys, TxBytes > 256
  PROVE  MacSpec => []FramesIntact
BY ImplementsTxPath, FramesAreIntact DEF TxSpec

\* And its queue is sent in order.
THEOREM FirmwareQueue ==
  ASSUME Nat \subseteq OtherAddrs, RP!Keys \subseteq OtherKeys
  PROVE  MacSpec => []QueueInOrder
BY ImplementsTxPath, QueueIsSentInOrder DEF TxSpec

-----------------------------------------------------------------------------
(* The receiver's enable.                                                  *)

FrameSteps ==
  {"Disable", "SetPointer", "Length", "Header", "Payload", "Modulate", "MaskLoad",
   "MaskStore", "SeedLoad", "SeedStore", "RxOn"}

\* The receiver is off for a frame that found loopback off, unless loopback
\* was changed since.
ListenInv == ~rx_enabled => toggled \/ (loopback = 0 /\ pc \in FrameSteps)

LEMMA ListenMain ==
  ASSUME MacInv, ListenInv, TxMain
  PROVE  ListenInv'
<1>1. Main /\ toggled' = (~rx_enabled' /\ (toggled \/ loopback' # loopback))
      /\ rx_enabled \in BOOLEAN
  BY DEF TxMain, TxRest, MacInv, TypeInv, ScalarsInv, ScalarsOK
<1>2. UNCHANGED loopback
  BY <1>1 DEF Main, TestSend, TestFlood, TestAuto, TestMany, TestOne, TestBusy, RxOff,
     Disable, SetPointer, Length, Header, Payload0, Modulate, Enable, MaskLoad,
     MaskStore, SeedLoad, SeedStore, RxOn, PendLoad, PendStore, FloodTest, FloodLoad,
     FloodStore, Clear, Test, Load, flags
<1>3. CASE RxOff
  BY <1>1, <1>2, <1>3 DEF RxOff, Goto, ListenInv, FrameSteps
<1>4. CASE RxOn
  BY <1>1, <1>2, <1>4 DEF RxOn, Goto, ListenInv, FrameSteps
<1>5. CASE ~RxOff /\ ~RxOn
  <2>1. UNCHANGED rx_enabled
    BY <1>1, <1>5 DEF Main, TestSend, TestFlood, TestAuto, TestMany, TestOne, TestBusy,
       Disable, SetPointer, Length, Header, Payload0, Modulate, Enable, MaskLoad,
       MaskStore, SeedLoad, SeedStore, PendLoad, PendStore, FloodTest, FloodLoad,
       FloodStore, Clear, Test, Load
  <2>2. pc \in FrameSteps => pc' \in FrameSteps
    BY <1>1, <1>5 DEF FrameSteps, Main, TestSend, TestFlood, TestAuto, TestMany,
       TestOne, TestBusy, Disable, SetPointer, Length, Header, Payload0, Modulate,
       Enable, MaskLoad, MaskStore, SeedLoad, SeedStore, PendLoad, PendStore,
       FloodTest, FloodLoad, FloodStore, Clear, Test, Load, Goto
  <2> QED
    BY <1>1, <1>2, <2>1, <2>2 DEF ListenInv
<1> QED
  BY <1>3, <1>4, <1>5

\* A TX_LOOPBACK is noted if the receiver is off.
LEMMA ListenHandler ==
  ASSUME MacInv, ListenInv, TxCommands \/ TxLoadByte
  PROVE  ListenInv'
<1>1. CtrlIrq \/ LoadByte
  BY DEF TxCommands, TxLoadByte
<1>2. UNCHANGED <<pc, rx_enabled>>
  BY <1>1 DEF CtrlIrq, Command, TxTrigger, TxScramblerSeed, TxSpreadFactor, TxAuto,
     TxLoopback, TxFlood, TxAddr, MemWrAddr, TxPacket, MemLoad, LoadByte, cpu
<1>3. toggled' = (~rx_enabled' /\ (toggled \/ loopback' # loopback))
  BY DEF TxCommands, TxLoadByte, TxRest
<1> QED
  BY <1>2, <1>3 DEF ListenInv

\* Whatever branch built a frame, after it the receiver listens again, unless
\* the host switched loopback in the middle.
THEOREM Listens == MacSpec => []ReceiverListens
<1> DEFINE IInv == MacInv /\ ListenInv
<1>1. MacInit => IInv
  BY MacStarts DEF MacInit, Init, ListenInv
<1>2. IInv /\ [MacNext]_macvars => IInv'
  <2> SUFFICES ASSUME MacInv, ListenInv, [MacNext]_macvars PROVE ListenInv'
    BY MacStep
  <2>1. CASE UNCHANGED macvars
    BY <2>1 DEF macvars, vars, cpu, flags, ListenInv
  <2>2. CASE TxStep
    BY <2>2, ListenMain, ListenHandler DEF TxStep
  <2>3. CASE RxStep
    BY <2>3, RxKeeps DEF txvars, cpu, flags, ListenInv
  <2> QED
    BY <2>1, <2>2, <2>3 DEF MacNext, MacMain, Handlers, TxStep, RxStep
<1>3. IInv => ReceiverListens
  BY DEF ListenInv, ReceiverListens, FrameSteps
<1> QED
  BY <1>1, <1>2, <1>3, PTL DEF MacSpec

-----------------------------------------------------------------------------
(* The scrambler, which frames and received packets share.                 *)

\* A payload word in the ring has the key its header announces.
KeyOK(w) ==
  rx_mem[w].kind = "data" /\ rx_mem[w].pkt \notin disturbed =>
    rx_mem[w].key = RP!KeyDue(rx_mem[w].pkt, rx_mem[w].n)

\* Between two handlers the scrambler waits at the packet's next word, unless
\* a frame was built or the host has read a word of it, which counts the packet
\* as disturbed.
KeysInv ==
  /\ \A w \in RP!Words : KeyOK(w)
  /\ Len(air) \in disturbed \/ RP!InStep
  /\ pc = "Modulate" /\ rx_state = "reading" => Len(air) \in disturbed

\* A frame that reseeds the scrambler inside a packet disturbs it.
LEMMA KeysTx ==
  ASSUME MacInv, KeysInv, TxStep
  PROVE  KeysInv'
<1>1. (Main \/ CtrlIrq \/ LoadByte) /\ UNCHANGED rxvars
  BY TxKeeps
<1>2. UNCHANGED <<rx_mem, rx_state, air, pushed, fifo>>
  BY <1>1 DEF rxvars
<1>3. disturbed' = IF Disturbs THEN disturbed \cup {Len(air)} ELSE disturbed
  BY DEF TxStep, TxMain, TxCommands, TxLoadByte, TxRest
<1>4. \A w \in RP!Words : KeyOK(w)'
  BY <1>2, <1>3 DEF KeysInv, KeyOK, RP!KeyDue
<1>5. CASE rx_state # "reading"
  BY <1>2, <1>4, <1>5 DEF KeysInv, RP!InStep
<1>6. CASE Len(air) \in disturbed
  BY <1>2, <1>3, <1>4, <1>6 DEF KeysInv
<1>7. CASE rx_state = "reading" /\ Len(air) \notin disturbed
  <2>1. pc # "Modulate"
    BY <1>7 DEF KeysInv
  <2>2. CASE Payload0
    <3>1. Disturbs
      BY <1>7, <2>2 DEF Payload0, Goto, Disturbs
    <3> QED
      BY <1>2, <1>3, <1>4, <3>1 DEF KeysInv
  <2>3. CASE ~Payload0
    <3>1. UNCHANGED scr /\ pc' # "Modulate"
      BY <1>1, <2>1, <2>3 DEF Main, CtrlIrq, LoadByte, Command, TxTrigger,
         TxScramblerSeed, TxSpreadFactor, TxAuto, TxLoopback, TxFlood, TxAddr,
         MemWrAddr, TxPacket, MemLoad, TestSend, TestFlood, TestAuto, TestMany,
         TestOne, TestBusy, RxOff, Disable, SetPointer, Length, Header, Modulate,
         Enable, MaskLoad, MaskStore, SeedLoad, SeedStore, RxOn, PendLoad,
         PendStore, FloodTest, FloodLoad, FloodStore, Clear, Test, Load, Goto, cpu
    <3>2. RP!InStep'
      BY <1>2, <1>7, <3>1 DEF KeysInv, RP!InStep, RP!KeyDue, RP!Taken
    <3> QED
      BY <1>4, <3>1, <3>2 DEF KeysInv
  <2> QED
    BY <2>2, <2>3
<1> QED
  BY <1>5, <1>6, <1>7

\* The receive interrupts are off while a frame is modulated.
LEMMA KeysInterrupts ==
  ASSUME MacInv, KeysInv, RxInterrupts
  PROVE  KeysInv'
<1> USE SameAssumption DEF MacInv
<1>1. (RP!RxData \/ RP!RxReady) /\ UNCHANGED <<txvars, disturbed>> /\ irq_on
  BY SameInterrupts DEF RxInterrupts, RxRest
<1>2. pc # "Modulate" /\ UNCHANGED pc
  BY <1>1 DEF SectionInv, Section, txvars, cpu
<1>3. UNCHANGED air
  BY <1>1 DEF RP!RxData, RP!RxReady
<1>4. RP!AirInv /\ RP!CellsInv /\ RP!WriterInv
  BY DEF RP!RxInv
<1> DEFINE new == RP!Drained
<1>5. ASSUME Len(air) \notin disturbed
      PROVE  /\ new.state = "reading" => new.scr = RP!KeyDue(Len(air), pushed)
             /\ \A w \in RP!Words :
                  \/ new.mem[w] = rx_mem[w]
                  \/ new.mem[w].kind # "data"
                  \/ new.mem[w].key = RP!KeyDue(Len(air), new.mem[w].n)
  BY <1>5, RP!DrainedKeys DEF KeysInv
<1>6. \A w \in RP!Words : \/ new.mem[w] = rx_mem[w]
                            \/ new.mem[w].kind # "data"
                            \/ new.mem[w].pkt = Len(air)
  BY RP!DrainedOfLast
<1> HIDE DEF new
<1>7. ASSUME NEW w \in RP!Words
      PROVE  new.mem[w].kind = "data" /\ new.mem[w].pkt \notin disturbed =>
               new.mem[w].key = RP!KeyDue(new.mem[w].pkt, new.mem[w].n)
  <2>1. CASE new.mem[w] = rx_mem[w]
    BY <2>1 DEF KeysInv, KeyOK
  <2>2. CASE new.mem[w] # rx_mem[w]
    BY <1>5, <1>6, <2>2
  <2> QED
    BY <2>1, <2>2
<1>8. CASE RP!RxData
  <2>1. /\ rx_mem' = new.mem /\ rx_state' = new.state /\ scr' = new.scr /\ fifo' = <<>>
        /\ UNCHANGED pushed
    BY <1>8 DEF RP!RxData, new
  <2>2. \A w \in RP!Words : KeyOK(w)'
    BY <1>1, <1>3, <1>7, <2>1 DEF KeyOK, RP!KeyDue
  <2>3. Len(air) \in disturbed \/ RP!InStep'
    <3>1. RP!Taken' = pushed
      <4>1. Len(fifo') = 0 /\ pushed \in Nat
        BY <2>1 DEF RP!RxInv, RP!AirInv
      <4> QED
        BY <2>1, <4>1 DEF RP!Taken
    <3> QED
      BY <1>3, <1>5, <2>1, <3>1 DEF RP!InStep, RP!KeyDue
  <2> QED
    BY <1>1, <1>2, <1>3, <2>2, <2>3 DEF KeysInv
<1>9. CASE RP!RxReady
  <2>1. /\ \A w \in RP!Words : \/ rx_mem'[w] \in {new.mem[w], rx_mem[w]}
                                \/ rx_mem'[w].kind = "marker"
        /\ rx_state' = "init"
    <3>1. CASE new.bytes # 0
      <4>1. /\ rx_mem' = [new.mem EXCEPT ![RP!Word(new.start)] = RP!Marker(new.bytes)]
            /\ rx_state' = "init"
        BY <1>9, <3>1 DEF RP!RxReady, new
      <4>2. \A n : RP!Marker(n).kind = "marker"
        BY DEF RP!Marker
      <4>3. new.mem = [w \in RP!Words |-> new.mem[w]]
        BY <1>4, RP!DrainedWords DEF new
      <4> QED
        BY <4>1, <4>2, <4>3
    <3>2. CASE new.bytes = 0
      <4>1. UNCHANGED <<rx_mem, rx_state>>
        BY <1>9, <3>2 DEF RP!RxReady, new
      <4>2. rx_state = "init"
        BY <1>4, <3>2, RP!BeforeDrain DEF RP!WriterInv, new
      <4> QED
        BY <4>1, <4>2
    <3> QED
      BY <3>1, <3>2
  <2>2. \A w \in RP!Words : KeyOK(w)'
    <3> SUFFICES ASSUME NEW w \in RP!Words PROVE KeyOK(w)'
      OBVIOUS
    <3>1. CASE rx_mem'[w] = new.mem[w]
      BY <1>1, <1>3, <1>7, <3>1 DEF KeyOK, RP!KeyDue
    <3>2. CASE rx_mem'[w] = rx_mem[w]
      BY <1>1, <1>3, <3>2 DEF KeysInv, KeyOK, RP!KeyDue
    <3>3. CASE rx_mem'[w].kind = "marker"
      BY <3>3 DEF KeyOK
    <3> QED
      BY <2>1, <3>1, <3>2, <3>3
  <2> QED
    BY <2>1, <2>2 DEF KeysInv, RP!InStep
<1> QED
  BY <1>1, <1>8, <1>9

\* A packet that arrives has no words in the ring, and one that is cut keeps
\* its seed.
LEMMA KeysAir ==
  ASSUME MacInv, KeysInv, AirStart \/ AirGoesOn \/ AirCut
  PROVE  KeysInv'
<1> USE SameAssumption DEF MacInv
<1>1. UNCHANGED <<pc, disturbed, rx_mem, rx_state, scr>>
  <2>1. UNCHANGED <<pc, disturbed>>
    BY RxKeeps DEF RxStep, AirStart, AirGoesOn, AirCut, RxRest, txvars, cpu
  <2>2. CASE AirStart \/ AirGoesOn
    BY <2>1, <2>2 DEF AirStart, AirGoesOn, R!AirStart, R!AirWord, R!AirEnd, R!writer
  <2>3. CASE AirCut
    BY <2>1, <2>3 DEF AirCut, vars
  <2> QED
    BY <2>1, <2>2, <2>3
<1>2. /\ RP!AirInv /\ \A w \in RP!Words : RP!OfReceived(rx_mem[w])
      /\ rx_state = "reading" => RP!Receiving
  BY DEF RP!RxInv, RP!CellsInv, RP!WriterInv
<1>3. CASE AirStart
  <2>1. PICK p \in Packets : RP!AirStart(p)
    BY <1>3, SameAir DEF AirStart
  <2>2. air' = Append(air, p) /\ ~RP!Receiving
    BY <2>1 DEF RP!AirStart
  <2>3. rx_state # "reading"
    BY <1>2, <2>2
  <2>4. \A k \in 1..Len(air) : air'[k] = air[k]
    BY <1>2, <2>2 DEF RP!AirInv
  <2>5. \A w \in RP!Words : KeyOK(w)'
    BY <1>1, <1>2, <2>4 DEF KeysInv, KeyOK, RP!KeyDue, RP!OfReceived
  <2> QED
    BY <1>1, <2>3, <2>5 DEF KeysInv, RP!InStep
<1>4. CASE AirGoesOn
  <2>1. UNCHANGED air /\ RP!Taken' = RP!Taken
    <3>1. CASE RP!AirEnd
      BY <3>1 DEF RP!AirEnd, RP!Taken
    <3>2. CASE RP!AirWord
      BY <3>2, RP!WordArrives DEF RP!AirWord
    <3> QED
      BY <1>4, <3>1, <3>2, SameAir DEF AirGoesOn
  <2> QED
    BY <1>1, <2>1 DEF KeysInv, KeyOK, RP!KeyDue, RP!InStep
<1>5. CASE AirCut
  <2>1. /\ RP!Receiving /\ pushed < air[Len(air)].size /\ UNCHANGED <<fifo, pushed>>
        /\ air' = [air EXCEPT ![Len(air)].size = pushed]
    BY <1>5, SameAir DEF AirCut
  <2>2. /\ Len(air') = Len(air) /\ Len(air) \in 1..Len(air)
        /\ \A k \in 1..Len(air) : air'[k].seed = air[k].seed
    BY <1>2, <2>1, RP!CutPacket
  <2>3. \A w \in RP!Words : KeyOK(w)'
    BY <1>1, <1>2, <2>2 DEF KeysInv, KeyOK, RP!KeyDue, RP!OfReceived
  <2> QED
    BY <1>1, <2>1, <2>2, <2>3 DEF KeysInv, RP!KeyDue, RP!InStep, RP!Taken
<1> QED
  BY <1>3, <1>4, <1>5

\* A SCRAMBLER_READ in the middle of a packet disturbs it, and no other command
\* of the receive side does.
LEMMA KeysCommands ==
  ASSUME MacInv, KeysInv, RxCommands
  PROVE  KeysInv'
<1>1. UNCHANGED <<pc, rx_mem, rx_state, air, fifo, pushed>>
  <2>1. UNCHANGED pc
    BY DEF RxCommands, txvars, cpu
  <2>2. CASE HostReads \/ HostAsks
    <3>1. UNCHANGED <<rx_mem, R!writer, R!receiver>>
      BY <2>2, Zenon DEF HostReads, HostAsks, R!RxPacketReady, R!RxRead, R!RxCheck,
         R!RxAuto, R!RxFlood, R!RxPacketNext, R!MemDump, R!ScramblerRead, R!Command
    <3> QED
      BY <2>1, <3>1 DEF R!writer, R!receiver
  <2>3. CASE MemRead
    BY <2>1, <2>3 DEF MemRead, rxvars
  <2> QED
    BY <2>2, <2>3 DEF RxCommands
<1>2. disturbed' = IF scr' # scr /\ rx_state = "reading"
                   THEN disturbed \cup {Len(air)} ELSE disturbed
  BY DEF RxCommands
<1>3. \A w \in RP!Words : KeyOK(w)'
  BY <1>1, <1>2 DEF KeysInv, KeyOK, RP!KeyDue
<1>4. CASE scr' = scr
  BY <1>1, <1>2, <1>3, <1>4 DEF KeysInv, RP!KeyDue, RP!InStep, RP!Taken
<1>5. CASE rx_state = "reading" /\ scr' # scr
  BY <1>1, <1>2, <1>3, <1>5 DEF KeysInv
<1>6. CASE rx_state # "reading"
  BY <1>1, <1>2, <1>3, <1>6 DEF KeysInv, RP!InStep
<1> QED
  BY <1>4, <1>5, <1>6

\* Whatever frames are built between and inside received packets, and whenever
\* the host reads the scrambler, a payload word in the ring was descrambled
\* with its own word of the keystream its header announces, unless a frame or
\* a SCRAMBLER_READ came in the middle of its packet.
THEOREM PayloadsDescrambled == MacSpec => []Descrambled
<1> DEFINE IInv == MacInv /\ KeysInv
<1>1. MacInit => IInv
  <2> SUFFICES ASSUME MacInit PROVE KeysInv
    BY MacStarts
  <2>1. rx_state = "init" /\ \A w \in RP!Words : rx_mem[w].kind = "junk"
    BY SameInit DEF MacInit, RP!Init, RP!Junk
  <2> QED
    BY <2>1 DEF KeysInv, KeyOK, RP!InStep
<1>2. IInv /\ [MacNext]_macvars => IInv'
  <2> SUFFICES ASSUME MacInv, KeysInv, [MacNext]_macvars PROVE KeysInv'
    BY MacStep
  <2>1. CASE UNCHANGED macvars \/ RxMain \/ DataIrq
    <3>1. UNCHANGED <<pc, disturbed, rx_mem, rx_state, scr, air, fifo, pushed>>
      <4>1. CASE UNCHANGED macvars
        BY <4>1 DEF macvars, vars, rxvars, cpu
      <4>2. CASE RxMain \/ DataIrq
        <5>1. UNCHANGED <<pc, disturbed>>
          BY <4>2 DEF RxMain, DataIrq, RxRest, txvars, cpu
        <5>2. UNCHANGED <<rx_mem, R!writer, R!receiver, scr>>
          BY <4>2, Zenon DEF RxMain, DataIrq, R!Main, R!TestFlood, R!TestAuto, R!TestBusy,
             R!Argument, R!Lost, R!Test, R!HbcToSpi, R!DumpWord
        <5> QED
          BY <5>1, <5>2 DEF R!writer, R!receiver
      <4> QED
        BY <2>1, <4>1, <4>2
    <3> QED
      BY <3>1 DEF KeysInv, KeyOK, RP!KeyDue, RP!InStep, RP!Taken
  <2>2. CASE TxStep
    BY <2>2, KeysTx
  <2>3. CASE RxInterrupts
    BY <2>3, KeysInterrupts
  <2>4. CASE AirStart \/ AirGoesOn \/ AirCut
    BY <2>4, KeysAir
  <2>5. CASE RxCommands
    BY <2>5, KeysCommands
  <2> QED
    BY <2>1, <2>2, <2>3, <2>4, <2>5 DEF MacNext, MacMain, Handlers, TxStep
<1>3. IInv => Descrambled
  <2> SUFFICES ASSUME MacInv, KeysInv PROVE Descrambled
    OBVIOUS
  <2>1. DOMAIN rx_mem = RP!Words
    BY DEF MacInv, RP!RxInv, RP!CellsInv
  <2> QED
    BY <2>1 DEF KeysInv, KeyOK, RP!KeyDue, Descrambled
<1> QED
  BY <1>1, <1>2, <1>3, PTL DEF MacSpec

-----------------------------------------------------------------------------
(* Forwarding a packet, although frames and loads move the read pointer.   *)

\* Frames and loads touch neither the ring nor the dump.
LEMMA KeptTx ==
  ASSUME NEW b, RP!RoomFor(b), MacInv, MacInv', RP!Kept(b),
         TxStep \/ UNCHANGED macvars
  PROVE  RP!Kept(b)' /\ RP!Queues
<1>1. UNCHANGED rxvars
  BY TxKeeps DEF macvars
<1> QED
  BY <1>1, RxUnchanged, SameAssumption, RP!KeptStutter DEF MacInv

\* The receive side keeps both, until an RX_NEXT comes too late.
LEMMA KeptRx ==
  ASSUME NEW b, RP!RoomFor(b), MacInv, MacInv', RP!Kept(b), RxStep
  PROVE  stale' \/ (RP!Kept(b)' /\ RP!Queues)
<1> USE SameAssumption DEF MacInv
<1>1. CASE RxInterrupts
  <2>1. RP!RxData \/ RP!RxReady
    BY <1>1, SameInterrupts DEF RxInterrupts
  <2> QED
    BY <2>1, RP!KeptReceiving
<1>2. CASE AirStart \/ AirGoesOn
  <2>1. RP!Receiver
    BY <1>2, SameAir DEF AirStart, AirGoesOn, RP!Receiver
  <2> QED
    BY <2>1, RP!KeptReceiving
<1>3. CASE RxMain \/ DataIrq \/ RxCommands
  <2>1. CASE UNCHANGED rxvars
    BY <2>1, RxUnchanged, RP!KeptStutter
  <2>2. CASE ~UNCHANGED rxvars
    <3>1. RP!Main \/ RP!DumpWord \/ RP!CtrlIrq
      BY <1>3, <2>2, SameLoop, SameHost DEF RxMain, DataIrq, RP!RxInv
    <3> QED
      BY <3>1, RP!KeptReading
  <2> QED
    BY <2>1, <2>2
<1>4. CASE AirCut
  <2>1. /\ RP!Receiving /\ pushed < air[Len(air)].size
        /\ air' = [air EXCEPT ![Len(air)].size = pushed]
        /\ UNCHANGED <<fifo, pushed>>
        /\ UNCHANGED <<rx_mem, RP!writer, RP!ring, packet_ready, RP!loop, RP!dump,
                       pushed, served, found, stale>>
    BY <1>4, SameAir DEF AirCut, RP!writer, RP!ring, RP!loop, RP!dump
  <2>2. RP!Taken' = RP!Taken
    BY <2>1 DEF RP!Taken
  <2> QED
    BY <2>1, <2>2, RP!KeptCut
<1> QED
  BY <1>1, <1>2, <1>3, <1>4 DEF RxStep

\* Once it came, there is no way back.
LEMMA StaysStale ==
  ASSUME RP!LoopInv, stale, [MacNext]_macvars
  PROVE  stale'
<1>1. CASE UNCHANGED rxvars
  BY <1>1 DEF rxvars
<1>2. CASE RxMain \/ DataIrq \/ RxInterrupts
  <2>1. RP!Main \/ RP!DumpWord \/ RP!RxData \/ RP!RxReady
    BY <1>2, SameLoop, SameInterrupts DEF RxMain, DataIrq, RxInterrupts
  <2> QED
    BY <2>1, SameAssumption, RP!StaleStays DEF RP!Next, RP!Handlers
<1>3. CASE RxCommands
  <2>1. RP!CtrlIrq \/ UNCHANGED rxvars
    BY <1>3, SameHost
  <2>2. CASE RP!CtrlIrq
    BY <2>2, SameAssumption, RP!StaleStays DEF RP!Next
  <2> QED
    BY <1>1, <2>1, <2>2
<1>4. CASE AirStart \/ AirGoesOn
  <2>1. RP!Receiver
    BY <1>4, SameAir DEF AirStart, AirGoesOn, RP!Receiver
  <2> QED
    BY <2>1, SameAssumption, RP!StaleStays DEF RP!Next
<1>5. CASE AirCut
  BY <1>5 DEF AirCut
<1>6. CASE TxStep \/ UNCHANGED macvars
  BY <1>1, <1>6 DEF TxStep, TxMain, TxCommands, TxLoadByte, TxRest, macvars
<1> QED
  BY <1>2, <1>3, <1>4, <1>5, <1>6 DEF MacNext, MacMain, Handlers, TxStep

LEMMA KeptStep ==
  ASSUME NEW b, RP!RoomFor(b), MacInv, stale \/ RP!Kept(b), [MacNext]_macvars
  PROVE  MacInv' /\ (stale' \/ (RP!Kept(b)' /\ RP!Queues))
<1>1. MacInv'
  BY MacStep
<1>2. CASE stale
  BY <1>1, <1>2, StaysStale DEF MacInv, RP!RxInv
<1>3. CASE RP!Kept(b) /\ (TxStep \/ UNCHANGED macvars)
  BY <1>1, <1>3, KeptTx
<1>4. CASE RP!Kept(b) /\ RxStep
  BY <1>1, <1>4, KeptRx
<1> QED
  BY <1>2, <1>3, <1>4 DEF MacNext, MacMain, Handlers, TxStep, RxStep

LEMMA KeptStarts ==
  ASSUME NEW b, RP!RoomFor(b), MacInit
  PROVE  MacInv /\ RP!Kept(b) /\ RP!Queue!Init
<1>1. RP!Init
  BY SameInit DEF MacInit
<1> QED
  BY <1>1, MacStarts, SameAssumption, RP!KeptInit

\* A forwarded packet reaches the host word by word as it was received, though
\* it has left the queue by then and interrupts, frames and loads come between
\* its words, as long as the ring has room for every packet received.  (Not if
\* the host reads the ring for something else meanwhile: see DumpIntact.)
THEOREM ForwardedAsReceived ==
  ASSUME RP!FirstRound
  PROVE  MacSpec => []ForwardedIntact
<1>1. PICK b : RP!RoomFor(b)
  BY DEF RP!FirstRound
<1> DEFINE IInv == MacInv /\ (stale \/ RP!Kept(b))
<1>2. MacInit => IInv
  BY <1>1, KeptStarts
<1>3. IInv /\ [MacNext]_macvars => IInv'
  BY <1>1, KeptStep
<1>4. IInv => ForwardedIntact
  <2> SUFFICES ASSUME stale \/ RP!Kept(b) PROVE ForwardedIntact
    OBVIOUS
  <2>1. RP!DumpIntact
    <3>1. CASE stale
      BY <3>1 DEF RP!DumpIntact
    <3>2. CASE RP!Kept(b)
      BY <3>2, SameAssumption, RP!DumpedIntact DEF RP!Kept
    <3> QED
      BY <3>1, <3>2
  <2> QED
    BY <2>1, Zenon DEF RP!DumpIntact, ForwardedIntact, R!DumpIntact, R!Header, RP!Header,
       R!Plain, RP!Plain
<1> QED
  BY <1>2, <1>3, <1>4, PTL DEF MacSpec

\* The ring is a queue of whole packets in the real firmware, too, where a
\* packet may be cut short when a frame turns the receiver off, until an
\* RX_NEXT comes too late.
THEOREM FirmwareQueuesPackets ==
  ASSUME RP!FirstRound
  PROVE  MacSpec => RP!QueueSpec
<1>1. PICK b : RP!RoomFor(b)
  BY DEF RP!FirstRound
<1> DEFINE IInv == MacInv /\ (stale \/ RP!Kept(b))
<1>2. MacInit => IInv /\ RP!Queue!Init
  BY <1>1, KeptStarts
<1>3. IInv /\ [MacNext]_macvars =>
        IInv' /\ [RP!Queue!Next \/ stale']_<<RP!Waiting, served>>
  BY <1>1, KeptStep DEF RP!Queues
<1> QED
  BY <1>2, <1>3, PTL DEF MacSpec, RP!QueueSpec
=============================================================================
