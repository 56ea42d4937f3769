------------------------------- MODULE HbcMac -------------------------------
(***************************************************************************)
(* The whole firmware: TxPath and RxPath as the two halves of one main     *)
(* loop, sharing the interrupt enable, the scrambler, the DRAM read        *)
(* pointer and the receiver's enable, each the other half's real handlers  *)
(* in place of TxPath's OtherHandlers.                                     *)
(*                                                                         *)
(* External: the receiver.  It starts on a packet only while enabled; one  *)
(* it is receiving when rx_disable comes, it may finish or cut short.      *)
(***************************************************************************)
EXTENDS TxPath

CONSTANTS
  Packets, AlmostFull,              \* the receiver, as in RxPath
  RxCmds, MaxPackets, RxMaxCmds,    \* what uses RxPath, and its bounds
  MaxEvents,                        \* bound on packets and commands together
  ReadAddrs                         \* where the host reads the DRAM

VARIABLES
  rx_mem,                           \* the receive half of the DRAM
  rd_buf_addr, wr_buf_addr, wr_bytes, rx_state,
  packet_ready, rd_packet_addr, wr_packet_addr,
  rd_packet_header, rd_packet_marker,
  rx_pc, forward, rx_auto, rx_flood,
  dumping_mem, dump_hbc_rx,
  fifo, pushed, almost_full, pkt_ready,
  air, dumped, crossed, served, polled, found, stale, rx_cmds,
  turn,       \* the branches of the main loop being run, "tx" or "rx"
  \* History.
  disturbed,  \* packets in the middle of reading which a frame was built or
              \* SCRAMBLER_READ came
  toggled     \* TX_LOOPBACK came inside a frame; the receiver is off since

rxvars  == <<rx_mem, rd_buf_addr, wr_buf_addr, wr_bytes, rx_state, packet_ready,
             rd_packet_addr, wr_packet_addr, rd_packet_header, rd_packet_marker,
             rx_pc, forward, rx_auto, rx_flood, dumping_mem, dump_hbc_rx, fifo,
             pushed, almost_full, pkt_ready, air, dumped, crossed, served, polled,
             found, stale, rx_cmds>>
txvars  == <<cpu, flags, tx_pending, pkt_addr, header, loader, mem, rx_enabled,
             history>>
macvars == <<vars, rxvars, turn, disturbed, toggled>>

R == INSTANCE RxPath WITH RingBytes <- TxBytes, Cmds <- RxCmds,
       MaxCmds <- RxMaxCmds, mem <- rx_mem, pc <- rx_pc, cmds <- rx_cmds

ASSUME MacAssumption == R!RxAssumption /\ ReadAddrs \subseteq Nat

Bounded == Len(air) + cmds + rx_cmds < MaxEvents

MacInit ==
  /\ Init /\ R!Init
  /\ turn = "tx" /\ disturbed = {} /\ toggled = FALSE

-----------------------------------------------------------------------------
(* The transmit side.                                                      *)

\* A frame reseeds the scrambler at its payload, while a packet may be half
\* read.
Disturbs == pc = "Payload" /\ pc' # pc /\ rx_state = "reading"

TxRest ==
  /\ toggled' = (~rx_enabled' /\ (toggled \/ loopback' # loopback))
  /\ disturbed' = IF Disturbs THEN disturbed \cup {Len(air)} ELSE disturbed
  /\ UNCHANGED rxvars

TxMain ==
  /\ turn = "tx"
  /\ Main /\ TxRest
  /\ turn' = IF pc # "TestSend" /\ pc' = "TestSend" THEN "rx" ELSE "tx"

\* A command that sets what is set already is left out.
TxCommands ==
  /\ Bounded
  /\ CtrlIrq /\ TxRest /\ UNCHANGED turn
  /\ <<flags, tx_pending, header, loader>>' # <<flags, tx_pending, header, loader>>

TxLoadByte == LoadByte /\ TxRest /\ UNCHANGED turn

-----------------------------------------------------------------------------
(* The receive side.  rd_p is left where the last mem_read stopped.        *)

RxRest == UNCHANGED <<txvars, disturbed, toggled>>

HeadersRead == Step(Step(rd_packet_addr))

RxMain ==
  /\ turn = "rx"
  /\ R!Main /\ RxRest
  /\ rd_p' = IF rx_pc # "HbcToSpi" THEN rd_p
             ELSE IF rd_buf_addr' # rd_packet_addr THEN Step(rd_packet_addr)
             ELSE HeadersRead
  /\ turn' = IF rx_pc # "TestFlood" /\ rx_pc' = "TestFlood" THEN "tx" ELSE "rx"

\* Mutant: disable_interrupts() leaves the receive interrupts on.
RxInterruptsUnmasked ==
  /\ (R!RxData \/ R!RxReady) /\ RxRest
  /\ UNCHANGED <<rd_p, turn>>

RxInterrupts ==
  /\ irq_on
  /\ (R!RxData \/ R!RxReady) /\ RxRest
  /\ UNCHANGED <<rd_p, turn>>

\* A word of a received packet, or of the memory a MEM_DUMP asked for.
DataIrq ==
  /\ irq_on
  /\ R!DumpWord /\ RxRest
  /\ IF dump_hbc_rx THEN rd_p' = Step(rd_buf_addr)
     ELSE \E a \in ReadAddrs : rd_p' = Step(a)
  /\ UNCHANGED turn

\* What a command's own mem_reads leave in rd_p.
HostReads ==
  \/ /\ R!RxPacketReady
     /\ rd_p' = HeadersRead
  \/ /\ R!RxRead
     /\ rd_p' = Step(rd_buf_addr)
  \/ /\ R!RxCheck
     /\ rd_p' = IF rd_buf_addr' = rd_packet_addr THEN HeadersRead
                ELSE Step(R!IncBy(rd_packet_addr, R!CheckWords - 1))

\* As for TxCommands, not what is set already.
HostAsks ==
  \/ R!RxAuto(1 - rx_auto) \/ R!RxFlood(1 - rx_flood)
  \/ R!RxPacketNext \/ R!MemDump(1) \/ R!ScramblerRead

\* CMD_MEM_READ
MemRead ==
  /\ "MEM_READ" \in RxCmds
  /\ \E a \in ReadAddrs : rd_p' = Step(a)
  /\ UNCHANGED rxvars /\ UNCHANGED scr

\* Host discipline: MEM_TEST, which overwrites the DRAM, and the flash commands
\* come on an idle device; DramPort is about them.
RxCommands ==
  /\ irq_on /\ loading_mem = 0 /\ Bounded
  /\ HostReads \/ (HostAsks /\ UNCHANGED rd_p) \/ MemRead
  /\ disturbed' = IF scr' # scr /\ rx_state = "reading"
                  THEN disturbed \cup {Len(air)} ELSE disturbed
  /\ UNCHANGED <<txvars, toggled, turn>>

-----------------------------------------------------------------------------
(* The receiver.                                                           *)

AirStart ==
  /\ rx_enabled /\ Bounded
  /\ (\E p \in Packets : R!AirStart(p)) /\ RxRest
  /\ UNCHANGED <<rd_p, turn>>

AirGoesOn ==
  /\ (R!AirWord \/ R!AirEnd) /\ RxRest
  /\ UNCHANGED <<rd_p, turn>>

\* The packet ends with the word received last.
AirCut ==
  /\ ~rx_enabled /\ R!Receiving /\ pushed < air[Len(air)].size
  /\ air' = [air EXCEPT ![Len(air)].size = pushed]
  /\ UNCHANGED <<vars, rx_mem, rd_buf_addr, wr_buf_addr, wr_bytes, rx_state,
                 packet_ready, rd_packet_addr, wr_packet_addr, rd_packet_header,
                 rd_packet_marker, rx_pc, forward, rx_auto, rx_flood, dumping_mem,
                 dump_hbc_rx, fifo, pushed, almost_full, pkt_ready, dumped,
                 crossed, served, polled, found, stale, rx_cmds, turn, disturbed,
                 toggled>>

MacMain == TxMain \/ RxMain

Handlers == RxInterrupts \/ DataIrq \/ TxLoadByte

MacNext ==
  \/ MacMain \/ Handlers \/ TxCommands \/ RxCommands
  \/ AirStart \/ AirGoesOn \/ AirCut

MacSpec == MacInit /\ [][MacNext]_macvars

\* What Handlers waits for.
HandlerDue == irq_on /\ (almost_full \/ pkt_ready \/ dumping_mem > 0 \/ loading_mem > 0)

\* Weak fairness of MacMain, which is always enabled, and of Handlers, which
\* is enabled when HandlerDue, with the ENABLED written out: one loop runs both
\* halves and is never blocked for ever; while interrupts stay on, some handler
\* whose event is pending runs (the host delivers the bytes it announced and
\* takes the bytes it is offered).
MacFairSpec ==
  /\ MacSpec
  /\ []<><<MacMain>>_macvars
  /\ []<>~HandlerDue \/ []<><<Handlers>>_macvars

-----------------------------------------------------------------------------
(* Properties.                                                             *)

\* What TxPath assumes of the receive path holds of the real one: HbcMac
\* implements TxPath, whose theorems so hold of the whole firmware.
TxSpec == Spec

\* A payload is descrambled with the keystream its header announces, although
\* frames reseed the scrambler and SCRAMBLER_READ takes words of it between
\* packets: only a packet in the middle of which one of them came can come out
\* wrong.
Descrambled ==
  \A w \in DOMAIN rx_mem :
    rx_mem[w].kind = "data" /\ rx_mem[w].pkt \notin disturbed =>
      rx_mem[w].key = [seed |-> air[rx_mem[w].pkt].seed, pos |-> rx_mem[w].n - 1]

\* A forwarded packet reaches the host word by word as it was received,
\* although frames, loads and other reads of the DRAM move the read pointer
\* between its words; only another read of the ring can spoil it.
ForwardedIntact == R!DumpIntact

\* Outside a frame the receiver listens, after either transmit branch; it is
\* off only if a TX_LOOPBACK came between the two tests of loopback.
ReceiverListens ==
  ~rx_enabled =>
    \/ toggled
    \/ pc \in {"Disable", "SetPointer", "Length", "Header", "Payload", "Modulate",
               "MaskLoad", "MaskStore", "SeedLoad", "SeedStore", "RxOn"}

\* Frames and loads do not keep received packets in the ring.
PacketsLeave == R!PacketsLeave
=============================================================================
