---------------------------- MODULE TxPathProofs ----------------------------
(***************************************************************************)
(* Proofs about TxPath, for every size of the ring and every use the host  *)
(* makes of the commands: types and the packet counter; then floods,       *)
(* scrambler seeds, whole frames and the order of the queue, whatever the  *)
(* handlers do to the state they share with a frame's construction.        *)
(***************************************************************************)
EXTENDS TxPath, TLAPS

-----------------------------------------------------------------------------
(* Addresses.                                                              *)

\* An address of the DRAM names one of its words.
LEMMA WordInWords ==
  ASSUME NEW a \in Nat
  PROVE  Word(a) \in Words
<1> DEFINE q == TxBytes \div 4
<1>1. q \in Nat /\ TxBytes = 4 * q /\ q > 0
  BY TxAssumption
<1> HIDE DEF q
<1>2. a % (2 * TxBytes) \in 0..(2 * TxBytes - 1)
  BY TxAssumption
<1>3. a % (2 * TxBytes) \in 0..(8 * q - 1)
  BY <1>1, <1>2
<1> QED
  BY <1>1, <1>3 DEF Word, Words

\* The wrapping pointer stays an address.
LEMMA StepIsAddress ==
  ASSUME NEW a \in Nat
  PROVE  Step(a) \in Nat
<1>1. a + 4 < TxBytes => (a + 4) % TxBytes = a + 4
  BY TxAssumption
<1> QED
  BY <1>1, TxAssumption DEF Step

\* The mask brings an address into the transmit half.
LEMMA MaskIsAddress ==
  ASSUME NEW a \in Nat
  PROVE  a % TxBytes \in 0..(TxBytes - 1)
BY TxAssumption

\* A number kept as an int is one, and itself if it is one already.
LEMMA AsIntIsInt ==
  ASSUME NEW n \in Int
  PROVE  AsInt(n) \in Ints /\ (n \in Ints => AsInt(n) = n)
<1>1. PICK k \in Nat : k = 2 * IntLimit /\ k > 0
  BY TxAssumption
<1>2. (n + IntLimit) % k \in 0..(k - 1)
  BY <1>1, TxAssumption
<1>3. AsInt(n) \in Ints
  BY <1>1, <1>2, TxAssumption DEF AsInt, Ints
<1>4. ASSUME n \in Ints PROVE AsInt(n) = n
  <2>1. n + IntLimit \in 0..(k - 1)
    BY <1>1, <1>4, TxAssumption DEF Ints
  <2>2. (n + IntLimit) % k = n + IntLimit
    BY <1>1, <2>1
  <2> QED
    BY <1>1, <2>2, TxAssumption DEF AsInt
<1> QED
  BY <1>3, <1>4

\* A store keeps a memory's type.
LEMMA StoreTyped ==
  ASSUME NEW S, NEW V, NEW f \in [S -> V], NEW x, NEW v \in V
  PROVE  [f EXCEPT ![x] = v] \in [S -> V]
OBVIOUS

\* A load has between 1 and 255 bytes.
LEMMA LensAreBytes == \A n \in Lens : n \in 1..255
BY TxAssumption

-----------------------------------------------------------------------------
(* Type correctness.  The numbers and the structured data are typed apart: *)
(* the main loop does not touch the latter.                                *)

\* The main loop starts with every variable zero, and a DRAM of junk.
LEMMA TypeInit == Init => TypeInv
<1> SUFFICES ASSUME Init PROVE TypeInv
  OBVIOUS
<1>1. ScalarsInv
  BY TxAssumption DEF Init, ScalarsInv, ScalarsOK, RegisterInv, Ints
<1>2. DataInv
  BY DEF Init, DataInv, DataOK, LoadInv, Junk
<1> QED
  BY <1>1, <1>2 DEF TypeInv

\* A handler leaves the main loop's registers and the frame alone.
LEMMA ScalarsHandler ==
  ASSUME TypeInv, CtrlIrq \/ LoadByte \/ OtherHandlers
  PROVE  ScalarsInv'
<1> USE DEF TypeInv, ScalarsInv, ScalarsOK, RegisterInv, Command, cpu, flags,
            header, loader, history
<1>1. ASSUME NEW n \in TriggerLens, TxTrigger(n) PROVE ScalarsInv'
  BY <1>1, TxAssumption DEF TxTrigger
<1>2. ASSUME NEW b \in {0, 1}, TxScramblerSeed(b) PROVE ScalarsInv'
  BY <1>2 DEF TxScramblerSeed
<1>3. ASSUME NEW b \in {0, 1}, TxAuto(b) PROVE ScalarsInv'
  BY <1>3 DEF TxAuto
<1>4. ASSUME NEW b \in {0, 1}, TxLoopback(b) PROVE ScalarsInv'
  BY <1>4 DEF TxLoopback
<1>5. ASSUME NEW n \in FloodArgs, TxFlood(n) PROVE ScalarsInv'
  <2>1. n \in Int
    BY TxAssumption
  <2>2. tx_flood' \in Ints
    BY <1>5, <2>1, AsIntIsInt DEF TxFlood
  <2> QED
    BY <1>5, <2>2 DEF TxFlood
<1>6. ASSUME NEW a \in {0, 4}, TxAddr(a) PROVE ScalarsInv'
  BY <1>6 DEF TxAddr
<1>7. ASSUME MemWrAddr(0) PROVE ScalarsInv'
  BY <1>7 DEF MemWrAddr
<1>8. ASSUME NEW n \in Lens, TxPacket(n) PROVE ScalarsInv'
  BY <1>8, LensAreBytes DEF TxPacket
<1>9. ASSUME NEW n \in Lens, MemLoad(n) PROVE ScalarsInv'
  <2>1. /\ loading_mem' = n /\ load_index' = 0 /\ UNCHANGED load_addr
        /\ UNCHANGED <<flags, tx_pending, pkt_addr, header>>
        /\ UNCHANGED <<cpu, rd_p, rx_enabled, taken>>
    BY <1>9 DEF MemLoad
  <2>2. n \in 1..255
    BY LensAreBytes
  <2> QED
    BY <2>1, <2>2
<1>10. ASSUME LoadByte PROVE ScalarsInv'
  BY <1>10 DEF LoadByte
<1>11. ASSUME OtherHandlers PROVE ScalarsInv'
  BY <1>11, TxAssumption DEF OtherHandlers
<1>12. ASSUME NEW r \in {0, 1}, TxSpreadFactor(r) PROVE ScalarsInv'
  BY <1>12 DEF TxSpreadFactor
<1> QED
  BY <1>1, <1>2, <1>3, <1>4, <1>5, <1>6, <1>7, <1>8, <1>9, <1>10, <1>11,
     <1>12 DEF CtrlIrq

\* A command stores words, lengths and bytes into the DRAM and the queue.
LEMMA DataHandler ==
  ASSUME TypeInv, CtrlIrq \/ LoadByte \/ OtherHandlers
  PROVE  DataInv'
<1> USE DEF TypeInv, DataInv, DataOK, LoadInv, Command, loader, history
<1>1. ASSUME NEW n \in TriggerLens, TxTrigger(n) PROVE DataInv'
  BY <1>1 DEF TxTrigger
<1>2. ASSUME NEW b \in {0, 1}, TxScramblerSeed(b) PROVE DataInv'
  BY <1>2 DEF TxScramblerSeed
<1>3. ASSUME NEW b \in {0, 1}, TxAuto(b) PROVE DataInv'
  BY <1>3 DEF TxAuto
<1>4. ASSUME NEW b \in {0, 1}, TxLoopback(b) PROVE DataInv'
  BY <1>4 DEF TxLoopback
<1>5. ASSUME NEW n \in FloodArgs, TxFlood(n) PROVE DataInv'
  BY <1>5 DEF TxFlood
<1>6. ASSUME NEW a \in {0, 4}, TxAddr(a) PROVE DataInv'
  BY <1>6 DEF TxAddr
<1>7. ASSUME MemWrAddr(0) PROVE DataInv'
  BY <1>7 DEF MemWrAddr
<1>8. ASSUME NEW n \in Lens, TxPacket(n) PROVE DataInv'
  <2>1. n \in 1..255 /\ Len(queued) \in Nat
    BY LensAreBytes
  <2>2. queued' = Append(queued, n) /\ queued' \in Seq(Lens)
        /\ Len(queued') = Len(queued) + 1 /\ queued'[Len(queued) + 1] = n
    BY <1>8 DEF TxPacket
  <2>3. load_pkt' = Len(queued) + 1 /\ loading_mem' = n /\ rd_data' = rd_data
    BY <1>8 DEF TxPacket
  <2>4. LengthOf(n) \in [len : 0..255, src : SUBSET (Nat \X Nat)]
    BY <2>1 DEF LengthOf
  <2>5. mem' \in [Words -> [len : 0..255, src : SUBSET (Nat \X Nat)]]
    BY <1>8, <2>4 DEF TxPacket
  <2> QED
    BY <2>1, <2>2, <2>3, <2>5
<1>9. ASSUME NEW n \in Lens, MemLoad(n) PROVE DataInv'
  <2>1. UNCHANGED <<mem, rd_data, queued>> /\ load_pkt' = 0
    BY <1>9 DEF MemLoad
  <2>2. load_pkt' \in 0..Len(queued')
    BY <2>1
  <2>3. LoadInv'
    BY <2>1
  <2> QED
    BY <2>1, <2>2, <2>3
<1>10. ASSUME LoadByte PROVE DataInv'
  <2> DEFINE i == IF load_pkt = 0 THEN 0 ELSE queued[load_pkt] - loading_mem
             byte == <<load_pkt, i>>
             data == rd_data \cup {byte}
  <2>1. UNCHANGED <<queued, load_pkt>> /\ loading_mem' = loading_mem - 1
    BY <1>10 DEF LoadByte
  <2>2. loading_mem \in Nat
    BY DEF ScalarsInv, ScalarsOK
  <2>3. ASSUME load_pkt # 0 PROVE queued[load_pkt] \in Nat
    <3>1. load_pkt \in 1..Len(queued) /\ queued \in Seq(Lens)
      BY <2>3
    <3>2. queued[load_pkt] \in Lens
      BY <3>1
    <3> QED
      BY ONLY <3>2, LensAreBytes
  <2>4. i \in Nat /\ load_pkt \in Nat
    BY <2>2, <2>3
  <2>5. data \in SUBSET (Nat \X Nat) /\ rd_data' \in {{}, data}
    <3>1. data \in SUBSET (Nat \X Nat)
      BY <2>4
    <3> QED
      BY <1>10, <3>1 DEF LoadByte
  <2>6. mem' \in [Words -> [len : 0..255, src : SUBSET (Nat \X Nat)]]
    <3>1. Payload(data) \in [len : 0..255, src : SUBSET (Nat \X Nat)]
      BY <2>5 DEF Payload
    <3>2. mem' = mem \/ mem' = [mem EXCEPT ![Word(load_addr)] = Payload(data)]
      BY <1>10 DEF LoadByte
    <3>3. mem \in [Words -> [len : 0..255, src : SUBSET (Nat \X Nat)]]
      OBVIOUS
    <3> HIDE DEF data
    <3> QED
      BY ONLY <3>1, <3>2, <3>3, StoreTyped
  <2>7. LoadInv'
    BY <2>1, <2>2, <2>3
  <2> QED
    BY <2>1, <2>5, <2>6, <2>7
<1>11. ASSUME OtherHandlers PROVE DataInv'
  BY <1>11 DEF OtherHandlers
<1>12. ASSUME NEW r \in {0, 1}, TxSpreadFactor(r) PROVE DataInv'
  BY <1>12 DEF TxSpreadFactor
<1> QED
  BY <1>1, <1>2, <1>3, <1>4, <1>5, <1>6, <1>7, <1>8, <1>9, <1>10, <1>11,
     <1>12 DEF CtrlIrq

\* The main loop computes with the lengths and addresses it reads.
LEMMA ScalarsMain ==
  ASSUME TypeInv, Main
  PROVE  ScalarsInv'
<1> USE DEF TypeInv, ScalarsInv, ScalarsOK, RegisterInv, Goto, Test, Load,
            flags, header, loader, dram, history
<1>1. CASE TestSend
  BY <1>1 DEF TestSend
<1>2. CASE TestFlood
  BY <1>2 DEF TestFlood
<1>3. CASE TestAuto
  BY <1>3 DEF TestAuto
<1>4. CASE TestMany
  BY <1>4 DEF TestMany
<1>5. CASE TestOne
  BY <1>5 DEF TestOne
<1>6. CASE TestBusy
  BY <1>6 DEF TestBusy
<1>7. CASE RxOff
  BY <1>7 DEF RxOff
<1>8. CASE Disable
  BY <1>8 DEF Disable
<1>9. CASE SetPointer
  BY <1>9 DEF SetPointer, FrameAt
<1>10. CASE Length
  <2>1. mem[Word(rd_p)] \in [len : 0..255, src : SUBSET (Nat \X Nat)]
    BY WordInWords DEF DataInv, DataOK
  <2>2. PDSU_length' \in 0..255 /\ rd_p' \in Nat
    BY <1>10, <2>1, StepIsAddress DEF Length
  <2> QED
    BY <1>10, <2>2 DEF Length
<1>11. CASE Header
  BY <1>11 DEF Header
<1>12. CASE Payload0
  BY <1>12 DEF Payload0, WordCount
<1>13. CASE Modulate
  BY <1>13, StepIsAddress DEF Modulate
<1>14. CASE Enable
  BY <1>14 DEF Enable
<1>15. CASE MaskLoad
  BY <1>15, MaskIsAddress DEF MaskLoad
<1>16. CASE MaskStore
  BY <1>16 DEF MaskStore
<1>17. CASE SeedLoad
  BY <1>17 DEF SeedLoad
<1>18. CASE SeedStore
  BY <1>18 DEF SeedStore
<1>19. CASE RxOn
  BY <1>19 DEF RxOn
<1>20. CASE PendLoad
  BY <1>20 DEF PendLoad
<1>21. CASE PendStore
  BY <1>21 DEF PendStore
<1>22. CASE FloodTest
  BY <1>22 DEF FloodTest
<1>23. CASE FloodLoad
  <2>1. tx_flood - 1 \in Int
    BY TxAssumption DEF Ints
  <2>2. tmp' \in Ints /\ tmp' \in Int
    BY <1>23, <2>1, TxAssumption, AsIntIsInt DEF FloodLoad, Ints
  <2> QED
    BY <1>23, <2>2 DEF FloodLoad
<1>24. CASE FloodStore
  BY <1>24 DEF FloodStore
<1>25. CASE Clear
  BY <1>25 DEF Clear
<1> QED
  BY <1>1, <1>2, <1>3, <1>4, <1>5, <1>6, <1>7, <1>8, <1>9, <1>10, <1>11,
     <1>12, <1>13, <1>14, <1>15, <1>16, <1>17, <1>18, <1>19, <1>20, <1>21,
     <1>22, <1>23, <1>24, <1>25 DEF Main

\* The main loop reads the DRAM and the queue but never writes them.
LEMMA DataMain ==
  ASSUME TypeInv, Main
  PROVE  DataInv'
<1>1. UNCHANGED <<mem, rd_data, queued, load_pkt, loading_mem>>
  BY DEF Main, TestSend, TestFlood, TestAuto, TestMany, TestOne, TestBusy,
     RxOff, Disable, SetPointer, Length, Header, Payload0, Modulate, Enable,
     MaskLoad, MaskStore, SeedLoad, SeedStore, RxOn, PendLoad, PendStore,
     FloodTest, FloodLoad, FloodStore, Clear, Goto, Test, Load, flags,
     header, loader, dram, history
<1> QED
  BY <1>1 DEF TypeInv, DataInv, DataOK, LoadInv

\* Every step, a handler's or the main loop's, keeps the types.
LEMMA TypeStep ==
  ASSUME TypeInv, [Next]_vars
  PROVE  TypeInv'
<1>1. CASE UNCHANGED vars
  <2>1. ScalarsInv'
    BY <1>1 DEF TypeInv, ScalarsInv, ScalarsOK, RegisterInv, vars, cpu, flags,
                header, loader, dram, history
  <2>2. DataInv'
    BY <1>1 DEF TypeInv, DataInv, DataOK, LoadInv, vars, loader, dram, history
  <2> QED
    BY <2>1, <2>2 DEF TypeInv
<1>2. CASE CtrlIrq \/ LoadByte \/ OtherHandlers
  BY <1>2, ScalarsHandler, DataHandler DEF TypeInv
<1>3. CASE Main
  BY <1>3, ScalarsMain, DataMain DEF TypeInv
<1> QED
  BY <1>1, <1>2, <1>3 DEF Next

\* Every variable keeps to its type: no register value or address the main
\* loop computes leaves its range, for every ring and every host.
THEOREM TypeCorrect == Spec => []TypeOK
<1>1. TypeInv => TypeOK
  BY DEF TypeInv, ScalarsInv, DataInv, TypeOK
<1> QED
  BY <1>1, TypeInit, TypeStep, PTL DEF Spec
-----------------------------------------------------------------------------
(* The packet counter.  tx_pending is shared between the main loop, which tests *)
(* it and counts it down, and the handler of TX_PACKET, which counts it up *)
(* in between.  It may fall short of the packets waiting (a lost update)   *)
(* but never exceeds them, and this is what keeps the queue branch from    *)
(* sending a packet that is not there.                                     *)

\* A handler adds packets to the queue and bytes to the last of them, and
\* counts what it adds.
LEMMA HandlersQueue ==
  ASSUME TypeInv, CtrlIrq \/ LoadByte \/ OtherHandlers
  PROVE  /\ UNCHANGED <<pc, mode, tmp, taken>>
         /\ tx_pending' = tx_pending + (Waiting' - Waiting)
         /\ Waiting' >= Waiting /\ Loaded' >= Loaded
<1> DEFINE Goal == /\ UNCHANGED <<pc, mode, tmp, taken>>
                   /\ tx_pending' = tx_pending + (Waiting' - Waiting)
                   /\ Waiting' >= Waiting /\ Loaded' >= Loaded
<1>0. /\ tx_pending \in Int /\ taken \in Nat /\ Len(queued) \in Nat
      /\ loading_mem \in Nat /\ queued \in Seq(Lens) /\ load_pkt \in Nat
  BY DEF TypeInv, ScalarsInv, ScalarsOK, DataInv, DataOK
<1> USE <1>0 DEF Waiting, Loaded, Command, cpu
<1>1. ASSUME NEW n \in TriggerLens, TxTrigger(n) PROVE Goal
  BY <1>1 DEF TxTrigger, loader
<1>2. ASSUME NEW b \in {0, 1}, TxScramblerSeed(b) PROVE Goal
  BY <1>2 DEF TxScramblerSeed, loader
<1>3. ASSUME NEW b \in {0, 1}, TxAuto(b) PROVE Goal
  BY <1>3 DEF TxAuto, loader
<1>4. ASSUME NEW b \in {0, 1}, TxLoopback(b) PROVE Goal
  BY <1>4 DEF TxLoopback, loader
<1>5. ASSUME NEW n \in FloodArgs, TxFlood(n) PROVE Goal
  BY <1>5 DEF TxFlood, loader
<1>6. ASSUME NEW a \in {0, 4}, TxAddr(a) PROVE Goal
  BY <1>6 DEF TxAddr
<1>7. ASSUME MemWrAddr(0) PROVE Goal
  BY <1>7 DEF MemWrAddr
<1>8. ASSUME NEW n \in Lens, TxPacket(n) PROVE Goal
  BY <1>8, LensAreBytes DEF TxPacket
<1>9. ASSUME NEW n \in Lens, MemLoad(n) PROVE Goal
  BY <1>9, LensAreBytes DEF MemLoad
<1>10. ASSUME LoadByte PROVE Goal
  BY <1>10 DEF LoadByte, history
<1>11. ASSUME OtherHandlers PROVE Goal
  BY <1>11 DEF OtherHandlers, loader, history
<1>12. ASSUME NEW r \in {0, 1}, TxSpreadFactor(r) PROVE Goal
  BY <1>12 DEF TxSpreadFactor, loader
<1> HIDE DEF Goal
<1>13. Goal
  BY <1>1, <1>2, <1>3, <1>4, <1>5, <1>6, <1>7, <1>8, <1>9, <1>10, <1>11, <1>12
  DEF CtrlIrq
<1> QED
  BY <1>13 DEF Goal

\* A counter that moves with what it counts keeps its lead.
LEMMA SameLead ==
  ASSUME NEW a \in Int, NEW b \in Int, NEW c \in Int, NEW d \in Int,
         NEW k \in Int, b = a + (d - c), a <= c + k
  PROVE  b <= d + k
OBVIOUS

\* A handler keeps the counter where it was with respect to the queue.
LEMMA CounterHandler ==
  ASSUME TypeInv, CounterInv, CtrlIrq \/ LoadByte \/ OtherHandlers
  PROVE  CounterInv'
<1>1. /\ tx_pending \in Int /\ Waiting \in Int /\ Loaded \in Int
      /\ tx_pending' \in Int /\ Waiting' \in Int /\ Loaded' \in Int
      /\ tmp \in Int /\ taken \in Nat
  <2>1. TypeInv /\ TypeInv'
    BY TypeStep DEF Next
  <2> QED
    BY <2>1 DEF TypeInv, ScalarsInv, ScalarsOK, DataInv, DataOK, Waiting, Loaded
<1>2. /\ UNCHANGED <<pc, mode, tmp, taken>>
      /\ tx_pending' = tx_pending + (Waiting' - Waiting)
      /\ Waiting' >= Waiting /\ Loaded' >= Loaded
  BY HandlersQueue
<1>3. BeforeDecrement' = BeforeDecrement /\ QueueSection' = QueueSection
  BY <1>2 DEF BeforeDecrement, QueueSection
<1>4. NeverOvercounts'
  <2>1. CASE BeforeDecrement
    <3>1. tx_pending <= Waiting + 1 /\ BeforeDecrement'
      BY <1>3, <2>1 DEF CounterInv, NeverOvercounts
    <3>2. tx_pending' <= Waiting' + 1
      BY <1>1, <1>2, <3>1, SameLead DEF Waiting
    <3> QED
      BY <3>1, <3>2 DEF NeverOvercounts
  <2>2. CASE ~BeforeDecrement
    <3>1. tx_pending <= Waiting + 0 /\ ~BeforeDecrement'
      BY <1>3, <2>2 DEF CounterInv, NeverOvercounts
    <3>2. tx_pending' <= Waiting' + 0
      BY <1>1, <1>2, <3>1, SameLead DEF Waiting
    <3> QED
      BY <3>1, <3>2 DEF NeverOvercounts
  <2> QED
    BY <2>1, <2>2
<1>5. NeverSendsUnloaded'
  BY <1>1, <1>2, <1>3 DEF CounterInv, NeverSendsUnloaded
<1> QED
  BY <1>1, <1>2, <1>4, <1>5 DEF CounterInv

\* The main loop never adds to the queue, and takes a packet only when it has
\* been sent; the test's last read of tx_pending is still good when it ends.
LEMMA CounterMain ==
  ASSUME TypeInv, CounterInv, Main
  PROVE  CounterInv'
<1>0. /\ tx_pending \in Int /\ taken \in Nat /\ Len(queued) \in Nat /\ tmp \in Int
      /\ loading_mem \in Nat /\ mode \in {"single", "queue"}
  BY DEF TypeInv, ScalarsInv, ScalarsOK, DataInv, DataOK
<1> USE <1>0 DEF CounterInv, NeverOvercounts, NeverSendsUnloaded, Waiting,
    Loaded, BeforeDecrement, QueueSection, Goto, Test, Load, loader, history
<1>1. CASE TestSend
  BY <1>1 DEF TestSend
<1>2. CASE TestFlood
  BY <1>2 DEF TestFlood
<1>3. CASE TestAuto
  BY <1>3 DEF TestAuto
<1>4. CASE TestMany
  BY <1>4 DEF TestMany
<1>5. CASE TestOne
  BY <1>5 DEF TestOne
<1>6. CASE TestBusy
  BY <1>6 DEF TestBusy
<1>7. CASE RxOff
  BY <1>7 DEF RxOff
<1>8. CASE Disable
  BY <1>8 DEF Disable
<1>9. CASE SetPointer
  BY <1>9 DEF SetPointer, FrameAt
<1>10. CASE Length
  BY <1>10 DEF Length
<1>11. CASE Header
  BY <1>11 DEF Header
<1>12. CASE Payload0
  BY <1>12 DEF Payload0
<1>13. CASE Modulate
  BY <1>13 DEF Modulate
<1>14. CASE Enable
  BY <1>14 DEF Enable
<1>15. CASE MaskLoad
  BY <1>15 DEF MaskLoad
<1>16. CASE MaskStore
  BY <1>16 DEF MaskStore
<1>17. CASE SeedLoad
  BY <1>17 DEF SeedLoad
<1>18. CASE SeedStore
  BY <1>18 DEF SeedStore
<1>19. CASE RxOn
  BY <1>19 DEF RxOn
<1>20. CASE PendLoad
  BY <1>20 DEF PendLoad
<1>21. CASE PendStore
  BY <1>21 DEF PendStore
<1>22. CASE FloodTest
  BY <1>22 DEF FloodTest
<1>23. CASE FloodLoad
  BY <1>23 DEF FloodLoad
<1>24. CASE FloodStore
  BY <1>24 DEF FloodStore
<1>25. CASE Clear
  BY <1>25 DEF Clear
<1> QED
  BY <1>1, <1>2, <1>3, <1>4, <1>5, <1>6, <1>7, <1>8, <1>9, <1>10, <1>11,
     <1>12, <1>13, <1>14, <1>15, <1>16, <1>17, <1>18, <1>19, <1>20, <1>21,
     <1>22, <1>23, <1>24, <1>25 DEF Main

\* Every step keeps the counter behind the queue.
LEMMA CounterStep ==
  ASSUME TypeInv, CounterInv, [Next]_vars
  PROVE  CounterInv'
<1>1. CASE UNCHANGED vars
  BY <1>1 DEF CounterInv, NeverOvercounts, NeverSendsUnloaded, Waiting, Loaded,
     BeforeDecrement, QueueSection, vars, cpu, loader, history
<1> QED
  BY <1>1, CounterHandler, CounterMain DEF Next

\* Nothing is queued or counted at the start.
LEMMA CounterInit == Init => CounterInv
BY DEF Init, CounterInv, NeverOvercounts, NeverSendsUnloaded, Waiting, Loaded,
   BeforeDecrement, QueueSection

\* Both invariants hold of every behaviour.
LEMMA CounterCorrect == Spec => [](TypeInv /\ CounterInv)
<1>1. Init => TypeInv /\ CounterInv
  BY TypeInit, CounterInit
<1>2. TypeInv /\ CounterInv /\ [Next]_vars => (TypeInv /\ CounterInv)'
  BY TypeStep, CounterStep
<1> QED
  BY <1>1, <1>2, PTL DEF Spec

\* However the handler's tx_pending++ falls between the load and the store of
\* the main loop's tx_pending--, no packet is counted twice.
THEOREM CounterNeverLeads == Spec => []NeverOvercounts
<1>1. CounterInv => NeverOvercounts
  BY DEF CounterInv
<1> QED
  BY <1>1, CounterCorrect, PTL

\* A packet's frame is begun only when all of its bytes are in DRAM, although
\* the queue grows and a load starts between the test and the frame.
THEOREM QueueSendsLoadedPackets == Spec => []NeverSendsUnloaded
<1>1. CounterInv => NeverSendsUnloaded
  BY DEF CounterInv
<1> QED
  BY <1>1, CounterCorrect, PTL

-----------------------------------------------------------------------------
(* Floods.                                                                 *)

\* A count that can end is not below 0, and there is something to count when
\* it is decremented; what the store is about to undo does not matter.
FloodInv ==
  \/ endless
  \/ /\ pc = "FloodLoad" => tx_flood > 0
     /\ pc = "FloodStore" => tmp >= 0
     /\ pc # "FloodStore" => tx_flood >= 0

\* A handler leaves tx_flood alone, or sets it and says whether it can end.
LEMMA FloodHandler ==
  ASSUME TypeInv, FloodInv, CtrlIrq \/ LoadByte \/ OtherHandlers
  PROVE  FloodInv'
<1>1. UNCHANGED <<pc, tmp>>
  BY DEF CtrlIrq, Command, TxTrigger, TxScramblerSeed, TxSpreadFactor, TxAuto,
     TxLoopback, TxFlood, TxAddr, MemWrAddr, TxPacket, MemLoad, LoadByte,
     OtherHandlers, cpu
<1>2. CASE \E n \in FloodArgs : TxFlood(n)
  <2>1. PICK n \in FloodArgs : TxFlood(n)
    BY <1>2
  <2>2. AsInt(n) \in Int /\ tx_flood' = AsInt(n)
    BY <2>1, TxAssumption, AsIntIsInt DEF TxFlood, Ints
  <2>3. CASE pc = "FloodStore"
    <3>1. UNCHANGED endless
      BY <2>1, <2>3 DEF TxFlood
    <3> QED
      BY <1>1, <2>3, <3>1 DEF FloodInv
  <2>4. CASE pc # "FloodStore"
    <3>1. endless' = (AsInt(n) < 0 \/ (pc = "FloodLoad" /\ AsInt(n) = 0))
      BY <2>1, <2>4 DEF TxFlood
    <3>2. CASE AsInt(n) < 0 \/ (pc = "FloodLoad" /\ AsInt(n) = 0)
      BY <3>1, <3>2 DEF FloodInv
    <3>3. CASE ~(AsInt(n) < 0) /\ ~(pc = "FloodLoad" /\ AsInt(n) = 0)
      BY <1>1, <2>2, <2>4, <3>3 DEF FloodInv
    <3> QED
      BY <3>2, <3>3
  <2> QED
    BY <2>3, <2>4
<1>3. CASE ~ \E n \in FloodArgs : TxFlood(n)
  <2>1. UNCHANGED <<tx_flood, endless>>
    BY <1>3 DEF CtrlIrq, Command, TxTrigger, TxScramblerSeed, TxSpreadFactor, TxAuto,
       TxLoopback, TxAddr, MemWrAddr, TxPacket, MemLoad, LoadByte,
       OtherHandlers, flags, notes, history
  <2> QED
    BY <1>1, <2>1 DEF FloodInv
<1> QED
  BY <1>2, <1>3

\* The main loop counts down what it has tested.
LEMMA FloodMain ==
  ASSUME TypeInv, FloodInv, Main
  PROVE  FloodInv'
<1> USE DEF Goto, Test, Load, flags, notes, history
<1>1. CASE FloodTest
  <2>1. UNCHANGED <<tx_flood, endless>> /\ pc = "FloodTest"
        /\ pc' = IF tx_flood # 0 THEN "FloodLoad" ELSE "Clear"
    BY <1>1 DEF FloodTest
  <2>2. tx_flood \in Int
    BY TxAssumption DEF TypeInv, ScalarsInv, ScalarsOK, Ints
  <2> QED
    BY <2>1, <2>2 DEF FloodInv
<1>2. CASE FloodLoad
  <2>1. UNCHANGED <<tx_flood, endless>> /\ pc = "FloodLoad" /\ pc' = "FloodStore"
        /\ tmp' = AsInt(tx_flood - 1)
    BY <1>2 DEF FloodLoad
  <2>2. ASSUME tx_flood > 0 PROVE tmp' >= 0
    <3>1. tx_flood - 1 \in Ints /\ tx_flood - 1 \in Int /\ tx_flood - 1 >= 0
      BY <2>2, TxAssumption DEF TypeInv, ScalarsInv, ScalarsOK, Ints
    <3> QED
      BY <2>1, <3>1, AsIntIsInt
  <2> QED
    BY <2>1, <2>2 DEF FloodInv
<1>3. CASE FloodStore
  <2>1. UNCHANGED endless /\ pc = "FloodStore" /\ pc' = "Clear" /\ tx_flood' = tmp
    BY <1>3 DEF FloodStore
  <2> QED
    BY <2>1 DEF FloodInv
<1>4. CASE ~FloodTest /\ ~FloodLoad /\ ~FloodStore
  <2>1. UNCHANGED <<tx_flood, endless>> /\ pc' \notin {"FloodLoad", "FloodStore"}
        /\ pc # "FloodStore"
    BY <1>4 DEF Main, TestSend, TestFlood, TestAuto, TestMany, TestOne, TestBusy,
       RxOff, Disable, SetPointer, Length, Header, Payload0, Modulate, Enable,
       MaskLoad, MaskStore, SeedLoad, SeedStore, RxOn, PendLoad, PendStore, Clear
  <2> QED
    BY <2>1 DEF FloodInv
<1> QED
  BY <1>1, <1>2, <1>3, <1>4

\* For every host and every width of an int: wherever a FLOOD command falls
\* into the test and the decrement, the count goes below 0 only if it was given
\* as one that is negative, or as 0 between the two.
THEOREM FloodsEnd == Spec => []FloodNeverUnderflows
<1>1. Init => TypeInv /\ FloodInv
  BY TypeInit DEF Init, FloodInv
<1>2. TypeInv /\ FloodInv /\ [Next]_vars => (TypeInv /\ FloodInv)'
  <2>1. ASSUME FloodInv, UNCHANGED vars PROVE FloodInv'
    BY <2>1 DEF vars, cpu, flags, history, FloodInv
  <2> QED
    BY <2>1, TypeStep, FloodHandler, FloodMain DEF Next
<1>3. TypeInv /\ FloodInv => FloodNeverUnderflows
  BY TxAssumption DEF TypeInv, ScalarsInv, ScalarsOK, Ints, FloodInv, FloodNeverUnderflows
<1> QED
  BY <1>1, <1>2, <1>3, PTL DEF Spec

-----------------------------------------------------------------------------
(* The frame under construction.  A frame is built with interrupts off, so *)
(* the header, the scrambler and the read pointer stay what the section    *)
(* made them.                                                              *)

Section  == {"SetPointer", "Length", "Header", "Payload", "Modulate"}
Building == {"Payload", "Modulate"}

Keys == [seed : {0, 1}, pos : Nat]
Modulated == [at : Nat, src : SUBSET (Nat \X Nat), key : Keys]

\* The frame of the current header.
FrameOf(pkt, set, sf, words) ==
  [mode |-> mode, pkt |-> pkt, len |-> PDSU_length, rate |-> data_rate,
   seed |-> scrambler_seed, reseeded |-> set, sf |-> sf, words |-> words]

SectionInv ==
  /\ irq_on = (pc \notin Section)
  /\ pc = "Length" => mode = "queue"
  /\ pc \notin Building => frame = NoFrame
  /\ pc \in Building =>
       frame = FrameOf(frame.pkt, frame.reseeded, frame.sf, frame.words)

\* Nothing but the section touches its state, which handlers cannot enter.
LEMMA SectionHandler ==
  ASSUME SectionInv, CtrlIrq \/ LoadByte \/ OtherHandlers
  PROVE  /\ SectionInv'
         /\ pc \notin Section /\ UNCHANGED <<pc, mode, tmp, frame, last>>
<1>1. irq_on /\ UNCHANGED <<irq_on, pc, mode, tmp, frame, last>>
  BY DEF CtrlIrq, Command, TxTrigger, TxScramblerSeed, TxSpreadFactor, TxAuto,
     TxLoopback, TxFlood, TxAddr, MemWrAddr, TxPacket, MemLoad, LoadByte,
     OtherHandlers, cpu, history
<1> QED
  BY <1>1 DEF SectionInv, Section, Building

\* The other steps of the main loop are outside the section.
Outside ==
  \/ TestSend \/ TestFlood \/ TestAuto \/ TestMany \/ TestOne \/ TestBusy
  \/ RxOff \/ MaskLoad \/ MaskStore \/ SeedLoad \/ SeedStore
  \/ RxOn \/ PendLoad \/ PendStore \/ FloodTest \/ FloodLoad \/ FloodStore
  \/ Clear

LEMMA OutsideSection ==
  ASSUME Outside
  PROVE  /\ pc \notin Section /\ pc' \notin Section
         /\ UNCHANGED <<irq_on, frame, last, reseeded>>
BY DEF Outside, Section, TestSend, TestFlood, TestAuto, TestMany, TestOne,
   TestBusy, RxOff, MaskLoad, MaskStore, SeedLoad, SeedStore, RxOn, PendLoad,
   PendStore, FloodTest, FloodLoad, FloodStore, Clear, Goto, Test, Load, history

\* A word is added to a frame.
LEMMA SetWords ==
  ASSUME NEW pkt, NEW set, NEW sf, NEW old, NEW new,
         frame = FrameOf(pkt, set, sf, old)
  PROVE  [frame EXCEPT !.words = new] = FrameOf(pkt, set, sf, new)
BY DEF FrameOf

\* The section is entered with interrupts off and left with the frame sent.
LEMMA SectionMain ==
  ASSUME TypeInv, SectionInv, Main
  PROVE  SectionInv'
<1> USE DEF SectionInv, Section, Building, FrameOf, Goto, header, history
<1>1. CASE Outside
  BY <1>1, OutsideSection
<1>2. CASE Disable
  BY <1>2 DEF Disable
<1>3. CASE SetPointer
  BY <1>3 DEF SetPointer, TypeInv, ScalarsInv, ScalarsOK
<1>4. CASE Length
  BY <1>4 DEF Length
<1>5. CASE Header
  BY <1>5 DEF Header
<1>6. CASE Payload0
  BY <1>6 DEF Payload0
<1>7. CASE Modulate
  <2> DEFINE words == Append(frame.words,
                [at |-> rd_p, src |-> mem[Word(rd_p)].src, key |-> scr])
  <2>1. /\ UNCHANGED <<irq_on, pc, mode, PDSU_length, data_rate, scrambler_seed>>
        /\ pc = "Modulate" /\ frame' = [frame EXCEPT !.words = words]
    BY <1>7 DEF Modulate
  <2> HIDE DEF words
  <2>2. frame' = FrameOf(frame.pkt, frame.reseeded, frame.sf, words)
    BY <2>1, SetWords
  <2> QED
    BY <2>1, <2>2
<1>8. CASE Enable
  BY <1>8 DEF Enable
<1> QED
  BY <1>1, <1>2, <1>3, <1>4, <1>5, <1>6, <1>7, <1>8 DEF Main, Outside

-----------------------------------------------------------------------------
(* Scrambler seeds.  The toggle is a load and a store with interrupts on,  *)
(* which only a SCRAMBLER_SEED command can disturb.                        *)

Sent == {"MaskLoad", "MaskStore", "SeedLoad"}

SeedInv ==
  /\ pc \in Building =>
       /\ ~reseeded
       /\ last = NoFrame \/ frame.reseeded \/ frame.seed # last.seed
  /\ pc \in Sent => reseeded \/ scrambler_seed = last.seed
  /\ pc = "SeedStore" => reseeded \/ tmp # last.seed
  /\ pc \notin Building \cup Sent \cup {"SeedStore"} =>
       last = NoFrame \/ reseeded \/ scrambler_seed # last.seed

\* A handler that sets the seed says so, or the toggle's store undoes it.
LEMMA SeedHandler ==
  ASSUME SectionInv, SeedInv, CtrlIrq \/ LoadByte \/ OtherHandlers
  PROVE  SeedInv'
<1>1. \/ reseeded'
      \/ UNCHANGED <<scrambler_seed, reseeded>>
      \/ pc = "SeedStore" /\ (reseeded => reseeded')
  <2>1. CASE \E b \in {0, 1} : TxScramblerSeed(b)
    <3>1. reseeded' = (reseeded \/ pc # "SeedStore")
      BY <2>1 DEF TxScramblerSeed
    <3>2. CASE pc # "SeedStore"
      BY <3>1, <3>2
    <3>3. CASE pc = "SeedStore"
      BY <3>1, <3>3
    <3> QED
      BY <3>2, <3>3
  <2>2. CASE ~ \E b \in {0, 1} : TxScramblerSeed(b)
    BY <2>2 DEF CtrlIrq, Command, TxTrigger, TxSpreadFactor, TxAuto,
       TxLoopback, TxFlood, TxAddr, MemWrAddr, TxPacket, MemLoad, LoadByte,
       OtherHandlers, header, notes, history
  <2> QED
    BY <2>1, <2>2
<1>2. pc \notin Section /\ UNCHANGED <<pc, tmp, last>>
  BY SectionHandler
<1> QED
  BY <1>1, <1>2 DEF SeedInv, Section, Building, Sent

\* The main loop toggles the seed once between two frames.
LEMMA SeedMain ==
  ASSUME TypeInv, SectionInv, SeedInv, Main
  PROVE  SeedInv'
<1> USE DEF SeedInv, Section, Building, Sent, Goto, header, notes, history
<1>0. /\ scrambler_seed \in {0, 1}
      /\ pc \in Building =>
           frame.seed = scrambler_seed /\ frame = FrameOf(frame.pkt, frame.reseeded,
                                                          frame.sf, frame.words)
  BY DEF TypeInv, ScalarsInv, ScalarsOK, SectionInv, FrameOf
<1>1. CASE Outside
  <2>1. UNCHANGED <<last, reseeded>>
    BY <1>1, OutsideSection
  <2>2. CASE SeedLoad
    BY <1>0, <2>1, <2>2 DEF SeedLoad, Load
  <2>3. CASE SeedStore
    BY <2>1, <2>3 DEF SeedStore
  <2>4. CASE MaskLoad \/ MaskStore
    BY <2>1, <2>4 DEF MaskLoad, MaskStore, Load
  <2>5. CASE ~SeedLoad /\ ~SeedStore /\ ~MaskLoad /\ ~MaskStore
    <3>1. /\ UNCHANGED scrambler_seed
          /\ pc \notin Building \cup Sent \cup {"SeedStore"}
          /\ pc' \notin Building \cup Sent \cup {"SeedStore"}
      BY <1>1, <2>5 DEF Outside, TestSend, TestFlood, TestAuto, TestMany,
         TestOne, TestBusy, RxOff, RxOn, PendLoad, PendStore, FloodTest,
         FloodLoad, FloodStore, Clear, Test, Load
    <3> QED
      BY <2>1, <3>1
  <2> QED
    BY <2>2, <2>3, <2>4, <2>5
<1>2. CASE Disable \/ SetPointer \/ Length
  BY <1>2 DEF Disable, SetPointer, Length
<1>3. CASE Header
  BY <1>3 DEF Header
<1>4. CASE Payload0
  <2>1. frame'.seed = frame.seed /\ frame'.reseeded = frame.reseeded
    BY <1>0, <1>4 DEF Payload0, FrameOf
  <2> QED
    BY <1>4, <2>1 DEF Payload0
<1>5. CASE Modulate
  <2>1. frame'.seed = frame.seed /\ frame'.reseeded = frame.reseeded
        /\ pc = "Modulate" /\ UNCHANGED <<pc, last, reseeded>>
    BY <1>0, <1>5 DEF Modulate, FrameOf
  <2> QED
    BY <2>1
<1>6. CASE Enable
  BY <1>0, <1>6 DEF Enable
<1> QED
  BY <1>1, <1>2, <1>3, <1>4, <1>5, <1>6 DEF Main, Outside

\* Consecutive frames use different seeds (10.7.1) unless the host sets the
\* seed between them, wherever its command falls into the toggle.
THEOREM SeedsAlternate == Spec => []SeedAlternates
<1> DEFINE IInv == TypeInv /\ SectionInv /\ SeedInv
<1>1. Init => IInv
  BY TypeInit DEF Init, SectionInv, SeedInv, Section, Building, Sent
<1>2. IInv /\ [Next]_vars => IInv'
  <2>1. ASSUME SectionInv, SeedInv, UNCHANGED vars PROVE SectionInv' /\ SeedInv'
    BY <2>1 DEF vars, cpu, header, history, SectionInv, SeedInv, FrameOf
  <2> QED
    BY <2>1, TypeStep, SectionHandler, SectionMain, SeedHandler, SeedMain DEF Next
<1>3. IInv => SeedAlternates
  BY DEF SectionInv, SeedInv, SeedAlternates
<1> QED
  BY <1>1, <1>2, <1>3, PTL DEF Spec

-----------------------------------------------------------------------------
(* The words of a frame.  The scrambler and the read pointer are shared    *)
(* with the handlers, and set for each frame inside the section.           *)

WordOK(word, k, seed, from) ==
  /\ word.key = [seed |-> seed, pos |-> k - 1]
  /\ from = "single" /\ TxBytes > 256 => word.at = 4 * (k - 1)

WordsInv ==
  /\ pc = "Header" /\ mode = "single" => rd_p = 0
  /\ pc = "Payload" => frame.words = <<>> /\ (mode = "single" => rd_p = 0)
  /\ pc = "Modulate" =>
       /\ frame.sf = data_rate
       /\ frame.words \in Seq(Modulated)
       /\ Len(frame.words) + num_words = WordCount(PDSU_length)
       /\ scr = [seed |-> scrambler_seed, pos |-> Len(frame.words)]
       /\ mode = "single" /\ TxBytes > 256 => rd_p = 4 * Len(frame.words)
       /\ \A k \in 1..Len(frame.words) :
            WordOK(frame.words[k], k, scrambler_seed, mode)

\* The longest payload is 64 words: a single frame does not reach the wrap.
LEMMA PayloadFits ==
  ASSUME TxBytes > 256, NEW n \in 0..63
  PROVE  Step(4 * n) = 4 * (n + 1)
<1>1. 4 * n + 4 \in 1..(TxBytes - 1)
  BY TxAssumption
<1>2. (4 * n + 4) % TxBytes = 4 * n + 4
  BY <1>1, TxAssumption
<1> QED
  BY <1>1, <1>2 DEF Step

LEMMA FewWords ==
  ASSUME NEW n \in 0..255
  PROVE  WordCount(n) \in 0..64
BY DEF WordCount

\* A handler is kept out of the section.
LEMMA WordsHandler ==
  ASSUME SectionInv, CtrlIrq \/ LoadByte \/ OtherHandlers
  PROVE  WordsInv' /\ (FramesIntact => FramesIntact')
<1>1. pc \notin Section /\ UNCHANGED <<pc, last>>
  BY SectionHandler
<1> QED
  BY <1>1 DEF WordsInv, FramesIntact, Section

\* One more word is the next one.
LEMMA WordsModulate ==
  ASSUME TypeInv, SectionInv, WordsInv, Modulate
  PROVE  WordsInv'
<1> DEFINE old == frame.words
           word == [at |-> rd_p, src |-> mem[Word(rd_p)].src, key |-> scr]
           new == Append(old, word)
<1>1. /\ pc = "Modulate" /\ num_words > 0 /\ num_words' = num_words - 1
      /\ UNCHANGED <<pc, mode, PDSU_length, data_rate, scrambler_seed>>
      /\ rd_p' = Step(rd_p) /\ scr' = [scr EXCEPT !.pos = @ + 1]
      /\ frame' = [frame EXCEPT !.words = new]
  BY DEF Modulate, header
<1>2. /\ num_words \in 0..64 /\ rd_p \in Nat /\ PDSU_length \in 0..255
      /\ scrambler_seed \in {0, 1}
      /\ mem \in [Words -> [len : 0..255, src : SUBSET (Nat \X Nat)]]
  BY DEF TypeInv, ScalarsInv, ScalarsOK, DataInv, DataOK
<1>3. /\ old \in Seq(Modulated) /\ frame.sf = data_rate
      /\ Len(old) + num_words = WordCount(PDSU_length)
      /\ scr = [seed |-> scrambler_seed, pos |-> Len(old)]
      /\ mode = "single" /\ TxBytes > 256 => rd_p = 4 * Len(old)
      /\ \A k \in 1..Len(old) : WordOK(old[k], k, scrambler_seed, mode)
  BY <1>1 DEF WordsInv
<1>4. word \in Modulated /\ word.key = scr /\ word.at = rd_p
  <2>1. mem[Word(rd_p)].src \in SUBSET (Nat \X Nat)
    BY <1>2, WordInWords
  <2>2. scr \in Keys
    BY <1>2, <1>3 DEF Keys
  <2> QED
    BY <1>2, <2>1, <2>2 DEF Modulated
<1>5. frame'.words = new /\ frame'.sf = frame.sf
  <2> HIDE DEF new
  <2>1. frame = FrameOf(frame.pkt, frame.reseeded, frame.sf, old)
    BY <1>1 DEF SectionInv, Building
  <2> QED
    BY <1>1, <2>1, SetWords DEF FrameOf
<1> HIDE DEF word, old
<1>6. /\ new \in Seq(Modulated) /\ Len(new) = Len(old) + 1
      /\ \A k \in 1..Len(old) : new[k] = old[k]
      /\ new[Len(old) + 1] = word
  BY <1>3, <1>4
<1> HIDE DEF new
<1>7. Len(old) \in 0..63 /\ Len(old) + 1 + num_words' = WordCount(PDSU_length)
  <2>1. num_words \in 0..64 /\ num_words > 0 /\ num_words' = num_words - 1
    BY ONLY <1>1, <1>2
  <2>2. Len(old) + num_words = WordCount(PDSU_length)
    BY ONLY <1>3
  <2>3. WordCount(PDSU_length) \in 0..64
    BY ONLY <1>2, FewWords
  <2>4. Len(old) \in Nat
    BY ONLY <1>3
  <2>5. ASSUME NEW done \in Nat, NEW all \in 0..64, done + num_words = all
        PROVE  done \in 0..63 /\ done + 1 + num_words' = all
    BY ONLY <2>1, <2>5
  <2> QED
    BY ONLY <2>2, <2>3, <2>4, <2>5
<1>8. \A k \in 1..Len(new) : WordOK(new[k], k, scrambler_seed, mode)
  <2> SUFFICES ASSUME NEW k \in 1..Len(new)
               PROVE  WordOK(new[k], k, scrambler_seed, mode)
    OBVIOUS
  <2>1. CASE k = Len(old) + 1
    BY <1>3, <1>4, <1>6, <1>7, <2>1 DEF WordOK
  <2>2. CASE k # Len(old) + 1
    <3>1. k \in 1..Len(old)
      BY <1>6, <1>7, <2>2
    <3> QED
      BY <1>3, <1>6, <3>1
  <2> QED
    BY <2>1, <2>2
<1>9. mode = "single" /\ TxBytes > 256 => rd_p' = 4 * Len(new)
  BY <1>1, <1>3, <1>6, <1>7, PayloadFits
<1>10. scr' = [seed |-> scrambler_seed, pos |-> Len(new)]
  BY <1>1, <1>3, <1>6
<1>11. Len(new) + num_words' = WordCount(PDSU_length)
  BY <1>6, <1>7
<1> QED
  BY <1>1, <1>3, <1>5, <1>6, <1>8, <1>9, <1>10, <1>11 DEF WordsInv

\* The section sets the pointer and the key, and counts the words down to 0.
LEMMA WordsMain ==
  ASSUME TypeInv, SectionInv, WordsInv, Main
  PROVE  WordsInv' /\ (TxBytes > 256 /\ FramesIntact => FramesIntact')
<1> USE DEF Goto
<1>1. CASE Outside
  BY <1>1, OutsideSection DEF WordsInv, FramesIntact, Section
<1>2. CASE Disable
  BY <1>2 DEF Disable, WordsInv, FramesIntact, history
<1>3. CASE SetPointer
  BY <1>3 DEF SetPointer, FrameAt, WordsInv, FramesIntact, history
<1>4. CASE Length
  BY <1>4 DEF Length, SectionInv, WordsInv, FramesIntact, history
<1>5. CASE Header
  BY <1>5 DEF Header, WordsInv, FramesIntact, dram
<1>6. CASE Payload0
  <2>1. /\ pc = "Payload" /\ pc' = "Modulate" /\ UNCHANGED <<mode, last, rd_p>>
        /\ UNCHANGED <<PDSU_length, data_rate, scrambler_seed>>
        /\ num_words' = WordCount(PDSU_length)
        /\ scr' = [seed |-> scrambler_seed, pos |-> 0]
        /\ frame' = [frame EXCEPT !.sf = data_rate]
    BY <1>6 DEF Payload0, header, dram
  <2>2. frame'.sf = data_rate /\ frame'.words = <<>>
    BY <2>1 DEF SectionInv, WordsInv, FrameOf, Building
  <2>3. WordCount(PDSU_length) \in 0..64
    BY FewWords DEF TypeInv, ScalarsInv, ScalarsOK
  <2>4. WordsInv'
    <3>1. frame'.words \in Seq(Modulated) /\ Len(frame'.words) = 0
      BY ONLY <2>2
    <3>2. 0 + num_words' = WordCount(PDSU_length') /\ UNCHANGED rd_p
      BY <2>1, <2>3
    <3>3. mode' = "single" /\ TxBytes > 256 => rd_p' = 4 * 0
      BY <2>1 DEF WordsInv
    <3> QED
      BY <2>1, <2>2, <3>1, <3>2, <3>3 DEF WordsInv
  <2> QED
    BY <2>1, <2>4 DEF FramesIntact
<1>7. CASE Modulate
  <2>1. UNCHANGED last
    BY <1>7 DEF Modulate
  <2> QED
    BY <1>7, <2>1, WordsModulate DEF FramesIntact
<1>8. CASE Enable
  <2>1. /\ pc = "Modulate" /\ num_words = 0 /\ last' = frame
        /\ pc' \in {"MaskLoad", "SeedLoad"}
    BY <1>8 DEF Enable
  <2>2. /\ frame.mode = mode /\ frame.len = PDSU_length
        /\ frame.rate = data_rate /\ frame.seed = scrambler_seed
    BY <2>1 DEF SectionInv, FrameOf, Building
  <2>3. /\ frame.sf = data_rate /\ frame.words \in Seq(Modulated)
        /\ Len(frame.words) = WordCount(PDSU_length)
        /\ \A k \in DOMAIN frame.words :
             WordOK(frame.words[k], k, scrambler_seed, mode)
    <3>1. WordCount(PDSU_length) \in 0..64
      BY FewWords DEF TypeInv, ScalarsInv, ScalarsOK
    <3> QED
      BY <2>1, <3>1 DEF WordsInv
  <2>4. TxBytes > 256 => FramesIntact'
    BY <2>1, <2>2, <2>3 DEF FramesIntact, WordOK
  <2> QED
    BY <2>1, <2>4 DEF WordsInv
<1> QED
  BY <1>1, <1>2, <1>3, <1>4, <1>5, <1>6, <1>7, <1>8 DEF Main, Outside

\* Every frame is what its header announces, for every ring that holds the
\* longest payload, whatever handlers leave in the scrambler and the pointer.
THEOREM FramesAreIntact ==
  ASSUME TxBytes > 256
  PROVE  Spec => []FramesIntact
<1> DEFINE IInv == TypeInv /\ SectionInv /\ WordsInv /\ FramesIntact
<1>1. Init => IInv
  BY TypeInit DEF Init, SectionInv, WordsInv, FramesIntact, Section, Building
<1>2. IInv /\ [Next]_vars => IInv'
  <2>1. ASSUME SectionInv, WordsInv, FramesIntact, UNCHANGED vars
        PROVE  SectionInv' /\ WordsInv' /\ FramesIntact'
    BY <2>1 DEF vars, cpu, header, dram, history, SectionInv, WordsInv, FramesIntact,
                FrameOf
  <2> QED
    BY <2>1, TypeStep, SectionHandler, SectionMain, WordsHandler, WordsMain DEF Next
<1> QED
  BY <1>1, <1>2, PTL DEF Spec

-----------------------------------------------------------------------------
(* The queue in the transmit half.  Packets are given positions on a line  *)
(* without an end, of which the ring keeps the remainder.                  *)

Slot(y)          == Word(y % TxBytes)
Bytes(j, lo, hi) == {<<j, b>> : b \in lo..(hi - 1)}

\* Packet j, unsent, starts at v[j], and the next one to come at the last of v.
\* No packet crosses the end of the ring.
Positions(v, q, sent) ==
  /\ v \in [1..(Len(q) + 1) -> Nat]
  /\ \A j \in (sent + 1)..Len(q) : /\ v[j + 1] = v[j] + q[j] + 4
                                   /\ (v[j] % TxBytes) + q[j] + 4 <= TxBytes
  /\ \A j, k \in (sent + 1)..(Len(q) + 1) : j < k => v[j] < v[k]
  /\ \A j \in (sent + 1)..(Len(q) + 1) : v[j] % 4 = 0

\* The length word of packet j and the words of its first n bytes are in the
\* memory m.
InPlace(m, v, q, j, n) ==
  /\ m[Slot(v[j])].len = q[j]
  /\ \A i \in Nat : 4 * i + 4 <= n =>
       m[Slot(v[j] + 4 + 4 * i)].src = Bytes(j, 4 * i, 4 * i + 4)

\* Multiplication is monotonic.
LEMMA TimesMonotonic ==
  ASSUME NEW a \in Int, NEW b \in Int, NEW d \in Nat, a <= b
  PROVE  a * d <= b * d
BY SMT

\* A remainder is what is left of a multiple, if it is less than the divisor.
LEMMA RemainderIs ==
  ASSUME NEW q \in Nat, NEW d \in Nat, NEW r \in Nat, r < d,
         NEW a \in Nat, a = q * d + r
  PROVE  a % d = r
<1> DEFINE p == a \div d
<1>2. p \in Nat /\ p * d <= a /\ a < p * d + d /\ a % d = a - p * d
  OBVIOUS
<1> HIDE DEF p
<1>3. CASE p < q
  <2>1. (p + 1) * d <= q * d /\ (p + 1) * d = p * d + d
    BY <1>2, <1>3, TimesMonotonic
  <2> QED
    BY <1>2, <2>1
<1>4. CASE q < p
  <2>1. (q + 1) * d <= p * d /\ (q + 1) * d = q * d + d
    BY <1>2, <1>4, TimesMonotonic
  <2> QED
    BY <1>2, <2>1
<1> QED
  BY <1>2, <1>3, <1>4

\* A step of k bytes inside the ring.
LEMMA InsideRing ==
  ASSUME NEW y \in Nat, NEW k \in Nat
  PROVE  /\ y % TxBytes \in 0..(TxBytes - 1)
         /\ (y % TxBytes) + k < TxBytes => (y + k) % TxBytes = (y % TxBytes) + k
         /\ (y % TxBytes) + k = TxBytes => (y + k) % TxBytes = 0
<1> DEFINE q == y \div TxBytes
           r == y % TxBytes
<1>1. q \in Nat /\ r \in 0..(TxBytes - 1) /\ y = q * TxBytes + r
  BY TxAssumption
<1> HIDE DEF q, r
<1>2. (q + 1) * TxBytes = q * TxBytes + TxBytes /\ q * TxBytes \in Nat
  BY <1>1, TxAssumption
<1>3. ASSUME r + k < TxBytes PROVE (y + k) % TxBytes = r + k
  <2>1. y + k = q * TxBytes + (r + k) /\ r + k \in 0..(TxBytes - 1)
    BY <1>1, <1>2, <1>3, TxAssumption
  <2> QED
    BY <1>1, <2>1, TxAssumption, RemainderIs
<1>4. ASSUME r + k = TxBytes PROVE (y + k) % TxBytes = 0
  <2>1. PICK p \in Nat, z \in 0..(TxBytes - 1) : p = q + 1 /\ z = 0
    BY <1>1, TxAssumption
  <2>2. y + k = p * TxBytes + z
    BY <1>1, <1>2, <1>4, <2>1, TxAssumption
  <2>3. PICK a \in Nat : a = y + k
    OBVIOUS
  <2>4. a % TxBytes = z
    <3>1. /\ p \in Nat /\ TxBytes \in Nat /\ z \in Nat /\ a \in Nat
          /\ z < TxBytes /\ a = p * TxBytes + z
      BY <2>1, <2>2, <2>3, TxAssumption
    <3> QED
      BY ONLY <3>1, RemainderIs
  <2> QED
    BY <2>1, <2>3, <2>4
<1> QED
  BY <1>1, <1>3, <1>4 DEF r

\* A word's place is its address by four.
LEMMA WordOfAddress ==
  ASSUME NEW a \in 0..(TxBytes - 1)
  PROVE  Word(a) = a \div 4
<1>1. a % (2 * TxBytes) = a
  BY TxAssumption
<1> QED
  BY <1>1 DEF Word

\* Two words less than a ring apart are in different places.
LEMMA SlotsDiffer ==
  ASSUME NEW y \in Nat, NEW z \in Nat, y % 4 = 0, z % 4 = 0,
         y < z, z < y + TxBytes
  PROVE  Slot(y) # Slot(z)
<1> DEFINE p == y \div TxBytes
           q == z \div TxBytes
           a == y % TxBytes
           b == z % TxBytes
<1>1. /\ p \in Nat /\ a \in 0..(TxBytes - 1) /\ y = p * TxBytes + a
      /\ q \in Nat /\ b \in 0..(TxBytes - 1) /\ z = q * TxBytes + b
  BY TxAssumption
<1>2. Slot(y) = a \div 4 /\ Slot(z) = b \div 4
  BY <1>1, WordOfAddress DEF Slot
<1>3. PICK t \in Nat : TxBytes = 4 * t
  <2>1. TxBytes \div 4 \in Nat /\ TxBytes = 4 * (TxBytes \div 4)
    BY TxAssumption
  <2> QED
    BY <2>1
<1> HIDE DEF p, q, a, b
<1>4. a % 4 = 0 /\ b % 4 = 0
  <2>1. p * t \in Nat /\ q * t \in Nat
    BY <1>1, <1>3
  <2>2. p * TxBytes = 4 * (p * t) /\ q * TxBytes = 4 * (q * t)
    BY <1>1, <1>3
  <2> QED
    BY <1>1, <2>1, <2>2
<1>5. SUFFICES ASSUME a = b PROVE FALSE
  BY <1>1, <1>2, <1>4
<1>6. CASE q <= p
  <2>1. q * TxBytes <= p * TxBytes
    BY <1>1, <1>6, TxAssumption
  <2> QED
    BY <1>1, <1>5, <2>1, TxAssumption
<1>7. CASE p + 1 <= q
  <2>1. (p + 1) * TxBytes <= q * TxBytes /\ (p + 1) * TxBytes = p * TxBytes + TxBytes
    BY <1>1, <1>7, TxAssumption
  <2> QED
    BY <1>1, <1>5, <2>1, TxAssumption
<1> QED
  BY <1>1, <1>6, <1>7

\* What is in place stays so when a word elsewhere, less than a ring away, is
\* written.
LEMMA InPlaceKept ==
  ASSUME NEW m, NEW v, NEW q, NEW j, NEW n \in Nat, NEW z \in Nat, NEW x,
         v[j] \in Nat, v[j] % 4 = 0, z % 4 = 0, InPlace(m, v, q, j, n),
         v[j] + 4 + n <= z, z < v[j] + TxBytes
  PROVE  InPlace([m EXCEPT ![Slot(z)] = x], v, q, j, n)
<1> DEFINE m2 == [m EXCEPT ![Slot(z)] = x]
<1>1. m2[Slot(v[j])] = m[Slot(v[j])]
  <2>1. Slot(v[j]) # Slot(z)
    BY SlotsDiffer
  <2> QED
    BY <2>1
<1>2. ASSUME NEW i \in Nat, 4 * i + 4 <= n
      PROVE  m2[Slot(v[j] + 4 + 4 * i)] = m[Slot(v[j] + 4 + 4 * i)]
  <2> DEFINE y == v[j] + 4 + 4 * i
  <2>1. y \in Nat /\ y % 4 = 0 /\ y < z /\ z < y + TxBytes
    BY <1>2, TxAssumption
  <2>2. Slot(y) # Slot(z)
    BY <2>1, SlotsDiffer
  <2> QED
    BY <2>2
<1> QED
  BY <1>1, <1>2 DEF InPlace

\* What is in place depends on the packet's position and length alone.
LEMMA InPlaceSame ==
  ASSUME NEW m, NEW v, NEW q, NEW j, NEW n, NEW v2, NEW q2,
         InPlace(m, v, q, j, n), v2[j] = v[j], q2[j] = q[j]
  PROVE  InPlace(m, v2, q2, j, n)
BY DEF InPlace

Masking == {"MaskLoad", "MaskStore"}
Newest  == Len(queued)

\* How many bytes of the newest packet are not in the DRAM yet.
ToLoad == loading_mem + load_index

\* How many bytes of packet j are.
Delivered(j) == queued[j] - (IF j = Newest THEN ToLoad ELSE 0)

\* The main loop reads the first unsent packet, the host's bytes complete the
\* newest, and the unsent packets and the room make up the ring.
ReaderAt(v) ==
  /\ pc \notin Masking => pkt_addr = v[taken + 1] % TxBytes
  /\ pc \in Masking => pkt_addr % TxBytes = v[taken + 1] % TxBytes
  /\ pc = "MaskStore" => tmp = v[taken + 1] % TxBytes
WriterAt(v) ==
  \/ load_addr + ToLoad = v[Newest + 1] % TxBytes
  \/ load_addr + ToLoad = TxBytes /\ v[Newest + 1] % TxBytes = 0
RoomAfter(v) == room + v[Newest + 1] - v[taken + 1] = TxBytes
Unsent(v)    == \A j \in (taken + 1)..Newest : InPlace(mem, v, queued, j, Delivered(j))
Layout(v) ==
  /\ Positions(v, queued, taken) /\ ReaderAt(v) /\ RoomAfter(v) /\ Unsent(v)
  /\ Newest > 0 => WriterAt(v)

\* Loads come in whole words, of which rd_data holds what has arrived.
LoaderInv ==
  /\ ToLoad % 4 = 0
  /\ loading_mem = 0 => load_index = 0
  /\ load_index = 0 => rd_data = {}

\* The host loads nothing but the newest packet once there is one.
NewestInv ==
  /\ load_pkt = Newest /\ ToLoad <= queued[Newest]
  /\ rd_data = Bytes(Newest, queued[Newest] - ToLoad, queued[Newest] - loading_mem)

QueueInv ==
  /\ LoaderInv
  /\ taken <= Newest /\ room \in Nat
  /\ Newest = 0 => pc \notin Masking
  /\ Newest > 0 => NewestInv /\ (ToLoad > 0 => taken < Newest)
  /\ \E v : Layout(v)

LEMMA QueueInit == Init => QueueInv
<1> SUFFICES ASSUME Init PROVE QueueInv
  OBVIOUS
<1>1. LoaderInv /\ Newest = 0 /\ taken = 0 /\ room = TxBytes /\ pc \notin Masking
  BY DEF Init, LoaderInv, ToLoad, Masking, Newest
<1>2. PICK v : v = [k \in 1..1 |-> 0]
  OBVIOUS
<1>3. v \in [1..1 -> Nat] /\ v[1] = 0 /\ 0 % TxBytes = 0 /\ 0 % 4 = 0
  BY <1>2, TxAssumption
<1>4. Len(queued) = 0
  BY <1>1 DEF Newest
<1>5. Positions(v, queued, taken)
  BY <1>1, <1>3, <1>4 DEF Positions
<1>6. ReaderAt(v) /\ RoomAfter(v) /\ Unsent(v)
  BY <1>1, <1>3, TxAssumption DEF Init, ReaderAt, RoomAfter, Unsent, Masking
<1>7. Layout(v)
  BY <1>1, <1>5, <1>6 DEF Layout
<1> QED
  BY <1>1, <1>7, TxAssumption DEF QueueInv

\* The types these proofs need.
LEMMA QueueTypes ==
  ASSUME TypeInv
  PROVE  /\ taken \in Nat /\ load_addr \in Nat /\ loading_mem \in Nat /\ load_index \in 0..3
         /\ pkt_addr \in Nat /\ queued \in Seq(Lens) /\ Newest \in Nat
         /\ mem \in [Words -> [len : 0..255, src : SUBSET (Nat \X Nat)]]
         /\ queued = <<>> <=> Newest = 0
         /\ \A j \in 1..Newest : queued[j] \in 1..255 /\ queued[j] % 4 = 0
         /\ TxBytes \in Nat /\ TxBytes > 0 /\ TxBytes % 4 = 0
<1>1. queued \in Seq(Lens)
  BY DEF TypeInv, DataInv, DataOK
<1>2. \A j \in 1..Newest : queued[j] \in Lens
  BY <1>1 DEF Newest
<1>3. \A j \in 1..Newest : queued[j] \in 1..255 /\ queued[j] % 4 = 0
  BY <1>2, TxAssumption
<1>4. Newest \in Nat /\ (queued = <<>> <=> Newest = 0)
  BY <1>1 DEF Newest
<1> QED
  BY <1>1, <1>3, <1>4, TxAssumption DEF TypeInv, ScalarsInv, ScalarsOK, DataInv, DataOK

\* A step that does not touch the queue.
LEMMA QueueSame ==
  ASSUME QueueInv,
         UNCHANGED <<queued, load_pkt, taken, room, pkt_addr, load_addr, loading_mem,
                     load_index, rd_data, mem>>,
         pc \in Masking \/ pc' \in Masking => UNCHANGED <<pc, tmp>>
  PROVE  QueueInv'
<1>1. ASSUME NEW v, Layout(v) PROVE Layout(v)'
  BY <1>1 DEF Layout, ReaderAt, WriterAt, RoomAfter, Unsent, Positions, InPlace, Slot,
     Word, Bytes, Delivered, ToLoad, Newest, Masking
<1> QED
  BY <1>1 DEF QueueInv, LoaderInv, NewestInv, ToLoad, Newest, Masking, Bytes

\* What positions are, packet by packet.
LEMMA PositionFacts ==
  ASSUME TypeInv, taken <= Newest, NEW v, Positions(v, queued, taken)
  PROVE  /\ \A j \in (taken + 1)..(Newest + 1) : v[j] \in Nat /\ v[j] % 4 = 0
         /\ \A j \in (taken + 1)..Newest :
              /\ v[j + 1] = v[j] + (queued[j] + 4)
              /\ (v[j] % TxBytes) + (queued[j] + 4) <= TxBytes
         /\ \A j, k \in (taken + 1)..(Newest + 1) : j <= k => v[j] <= v[k]
<1>1. /\ v \in [1..(Newest + 1) -> Nat]
      /\ \A j \in (taken + 1)..Newest : /\ v[j + 1] = v[j] + queued[j] + 4
                                        /\ (v[j] % TxBytes) + queued[j] + 4 <= TxBytes
      /\ \A j, k \in (taken + 1)..(Newest + 1) : j < k => v[j] < v[k]
      /\ \A j \in (taken + 1)..(Newest + 1) : v[j] % 4 = 0
  BY DEF Positions, Newest
<1>3. /\ Newest \in Nat /\ taken \in Nat
      /\ \A j \in (taken + 1)..Newest : queued[j] \in 1..255
  BY QueueTypes
<1>2. \A j \in (taken + 1)..(Newest + 1) : v[j] \in Nat /\ v[j] % 4 = 0
  BY <1>1, <1>3
<1>4. ASSUME NEW j \in (taken + 1)..Newest
      PROVE  /\ v[j + 1] = v[j] + (queued[j] + 4)
             /\ (v[j] % TxBytes) + (queued[j] + 4) <= TxBytes
  <2>1. v[j] \in Nat /\ queued[j] \in 1..255
    BY <1>2, <1>3
  <2>2. v[j] % TxBytes \in 0..(TxBytes - 1)
    BY <2>1, InsideRing
  <2>3. v[j + 1] = v[j] + queued[j] + 4 /\ (v[j] % TxBytes) + queued[j] + 4 <= TxBytes
    BY <1>1
  <2> QED
    BY <2>1, <2>2, <2>3
<1>5. ASSUME NEW j \in (taken + 1)..(Newest + 1), NEW k \in (taken + 1)..(Newest + 1),
             j <= k
      PROVE  v[j] <= v[k]
  <2>1. CASE j = k
    BY <1>2, <2>1
  <2>2. CASE j < k
    <3>1. v[j] < v[k] /\ v[j] \in Nat /\ v[k] \in Nat
      BY <1>1, <1>2, <2>2
    <3> QED
      BY <3>1
  <2> QED
    BY <1>3, <1>5, <2>1, <2>2
<1> QED
  BY <1>2, <1>4, <1>5

\* The next packet follows the newest, in room that no unsent packet needs; the
\* first one goes where the main loop will look for it.
LEMMA NextPacket ==
  ASSUME TypeInv, QueueInv, NEW n \in Lens, TxPacket(n)
  PROVE  QueueInv'
<1>0. /\ n \in 1..255 /\ n % 4 = 0 /\ TxBytes \in Nat /\ TxBytes > 0 /\ TxBytes % 4 = 0
      /\ Newest \in Nat /\ load_addr \in Nat /\ taken \in Nat
  BY TxAssumption, QueueTypes
<1>1. /\ Newest' = Newest + 1
      /\ queued'[Newest + 1] = n /\ \A j \in 1..Newest : queued'[j] = queued[j]
  BY QueueTypes DEF TxPacket, Newest
<1>2. /\ load_addr' = load_addr + 4 /\ load_index' = 0 /\ loading_mem' = n
      /\ load_pkt' = Newest + 1 /\ room' = room - (n + 4)
      /\ UNCHANGED <<pkt_addr, pc, tmp, rd_data, taken>>
      /\ mem' = [mem EXCEPT ![Word(load_addr)] = LengthOf(n)]
      /\ loading_mem = 0 /\ n + 4 <= room /\ load_addr + 4 + n <= TxBytes
  BY DEF TxPacket, Command, Newest, cpu
<1>20. queued = <<>> => load_addr = pkt_addr
  BY DEF TxPacket
<1>3. /\ room \in Nat /\ taken <= Newest /\ rd_data = {} /\ load_index = 0
      /\ ToLoad = 0 /\ ToLoad' = n
  BY <1>0, <1>2, <1>0 DEF QueueInv, LoaderInv, ToLoad
<1>4. PICK v : Layout(v)
  BY <1>0 DEF QueueInv
<1>5. /\ \A j \in (taken + 1)..(Newest + 1) : v[j] \in Nat /\ v[j] % 4 = 0
      /\ \A j \in (taken + 1)..Newest :
           /\ v[j + 1] = v[j] + (queued[j] + 4)
           /\ (v[j] % TxBytes) + (queued[j] + 4) <= TxBytes
      /\ \A j, k \in (taken + 1)..(Newest + 1) : j <= k => v[j] <= v[k]
  BY <1>3, <1>4, PositionFacts DEF Layout
<1>19. v \in [1..(Newest + 1) -> Nat]
  BY <1>4 DEF Layout, Positions, Newest
<1> DEFINE e == v[Newest + 1]
<1>6. /\ e \in Nat /\ e % 4 = 0 /\ v[taken + 1] \in Nat
      /\ room + e - v[taken + 1] = TxBytes
  BY <1>0, <1>3, <1>4, <1>5 DEF Layout, RoomAfter
<1>7. load_addr = e % TxBytes
  <2>1. CASE Newest = 0
    <3>1. load_addr = pkt_addr /\ taken = 0 /\ pc \notin Masking
      BY <1>0, <1>3, <1>20, <2>1, QueueTypes DEF QueueInv
    <3> QED
      BY <1>4, <2>1, <3>1 DEF Layout, ReaderAt, e
  <2>2. CASE Newest > 0
    <3>1. WriterAt(v)
      BY <1>4, <2>2 DEF Layout
    <3> QED
      BY <1>0, <1>2, <1>3, <3>1 DEF WriterAt, e
  <2> QED
    BY <1>0, <2>1, <2>2
<1> HIDE DEF e
<1>8. PICK w : w = [k \in 1..(Newest + 2) |-> IF k = Newest + 2 THEN e + n + 4 ELSE v[k]]
  OBVIOUS
<1>9. /\ w \in [1..(Newest + 2) -> Nat] /\ w[Newest + 2] = e + n + 4
      /\ \A k \in 1..(Newest + 1) : w[k] = v[k]
  <2>1. \A k \in 1..(Newest + 1) : k \in 1..(Newest + 2) /\ k # Newest + 2
    BY <1>0
  <2>2. e + n + 4 \in Nat /\ Newest + 2 \in 1..(Newest + 2)
    BY <1>0, <1>6
  <2>3. \A k \in 1..(Newest + 2) : k # Newest + 2 => k \in 1..(Newest + 1)
    BY <1>0
  <2> QED
    BY <1>8, <1>19, <2>1, <2>2, <2>3
<1>10. Positions(w, queued', taken)
  <2>0. Len(queued') = Newest + 1
    BY <1>1 DEF Newest
  <2>1. ASSUME NEW j \in (taken + 1)..(Newest + 1)
        PROVE  /\ w[j + 1] = w[j] + queued'[j] + 4
               /\ (w[j] % TxBytes) + queued'[j] + 4 <= TxBytes
    <3>1. CASE j = Newest + 1
      <4>1. w[j] = e /\ queued'[j] = n /\ w[j + 1] = e + n + 4
        BY <1>0, <1>1, <1>9, <3>1 DEF e
      <4> QED
        BY <1>0, <1>2, <1>7, <4>1
    <3>2. CASE j \in (taken + 1)..Newest
      <4>1. w[j] = v[j] /\ w[j + 1] = v[j + 1] /\ queued'[j] = queued[j]
        BY <1>0, <1>1, <1>9, <3>2
      <4>2. v[j] \in Nat /\ queued[j] \in 1..255
        BY <1>0, <1>5, <3>2, QueueTypes
      <4>3. v[j] % TxBytes \in 0..(TxBytes - 1)
        BY <4>2, InsideRing
      <4> QED
        BY <1>5, <3>2, <4>1, <4>2, <4>3
    <3> QED
      BY <1>0, <3>1, <3>2
  <2>2. ASSUME NEW j \in (taken + 1)..(Newest + 2),
               NEW k \in (taken + 1)..(Newest + 2), j < k
        PROVE  w[j] < w[k]
    <3>1. CASE k = Newest + 2
      <4>0. j \in (taken + 1)..(Newest + 1) /\ j \in 1..(Newest + 1)
        BY <1>0, <2>2, <3>1
      <4>2. v[j] <= v[Newest + 1] /\ v[j] \in Nat
        BY <1>0, <1>5, <4>0
      <4>1. w[j] = v[j] /\ v[j] <= e /\ w[k] = e + n + 4 /\ v[j] \in Nat
        BY <1>9, <3>1, <4>0, <4>2 DEF e
      <4> QED
        BY <1>0, <1>6, <4>1
    <3>2. CASE k \in (taken + 1)..(Newest + 1)
      <4>1. j \in (taken + 1)..(Newest + 1) /\ w[j] = v[j] /\ w[k] = v[k]
        BY <1>0, <1>9, <2>2, <3>2
      <4> QED
        BY <1>4, <2>2, <3>2, <4>1 DEF Layout, Positions, Newest
    <3> QED
      BY <1>0, <3>1, <3>2
  <2>3. ASSUME NEW j \in (taken + 1)..(Newest + 2) PROVE w[j] % 4 = 0
    <3>1. CASE j = Newest + 2
      <4>1. (e + n + 4) % 4 = 0
        BY <1>0, <1>6
      <4> QED
        BY <1>9, <3>1, <4>1
    <3>2. CASE j \in (taken + 1)..(Newest + 1)
      BY <1>0, <1>5, <1>9, <3>2
    <3> QED
      BY <1>0, <3>1, <3>2
  <2>4. Len(queued') + 1 = Newest + 2
    BY <1>0, <2>0
  <2> QED
    BY <1>9, <2>0, <2>1, <2>2, <2>3, <2>4 DEF Positions
<1>11. ReaderAt(w)'
  <2>1. w[taken + 1] = v[taken + 1]
    BY <1>0, <1>3, <1>9
  <2> QED
    BY <1>2, <1>4, <2>1 DEF Layout, ReaderAt, Masking
<1>12. WriterAt(w)'
  <2>1. PICK k \in Nat : k = n + 4
    BY <1>0
  <2>2. load_addr' + ToLoad' = (e % TxBytes) + k /\ (e % TxBytes) + k <= TxBytes
    BY <1>0, <1>2, <1>3, <1>7, <2>1
  <2>3. w[Newest' + 1] = e + k
    BY <1>0, <1>1, <1>6, <1>9, <2>1
  <2>4. /\ e % TxBytes \in 0..(TxBytes - 1)
        /\ (e % TxBytes) + k < TxBytes => (e + k) % TxBytes = (e % TxBytes) + k
        /\ (e % TxBytes) + k = TxBytes => (e + k) % TxBytes = 0
    BY <1>6, <2>1, InsideRing
  <2> QED
    BY <1>0, <2>1, <2>2, <2>3, <2>4 DEF WriterAt
<1>13. RoomAfter(w)'
  <2>1. w[taken + 1] = v[taken + 1]
    BY <1>0, <1>3, <1>9
  <2>2. w[Newest' + 1] = e + n + 4
    BY <1>0, <1>1, <1>9
  <2> QED
    BY <1>0, <1>2, <1>3, <1>6, <2>1, <2>2 DEF RoomAfter
<1>14. Unsent(w)'
  <2>1. SUFFICES ASSUME NEW j \in (taken + 1)..(Newest + 1)
                 PROVE  InPlace(mem', w, queued', j, Delivered(j)')
    BY <1>1, <1>2 DEF Unsent, Delivered
  <2>2. Word(load_addr) = Slot(e) /\ Slot(e) \in DOMAIN mem
    BY <1>0, <1>7, WordInWords, QueueTypes DEF Slot
  <2>3. CASE j = Newest + 1
    <3>1. Delivered(j)' = 0
      BY <1>0, <1>1, <1>3, <2>3 DEF Delivered
    <3>2. w[j] = e /\ queued'[j] = n
      BY <1>0, <1>1, <1>9, <2>3 DEF e
    <3>3. mem'[Slot(e)].len = n
      BY <1>2, <2>2 DEF LengthOf
    <3> QED
      BY <3>1, <3>2, <3>3 DEF InPlace
  <2>4. CASE j \in (taken + 1)..Newest
    <3>0. j \in 1..Newest /\ w[j] = v[j] /\ queued'[j] = queued[j] /\ queued[j] \in 1..255
      BY <1>0, <1>1, <1>9, <2>4, QueueTypes
    <3>1. Delivered(j) = queued[j] /\ Delivered(j)' = queued[j]
      BY <1>0, <1>1, <1>3, <2>4, <3>0 DEF Delivered
    <3>2. InPlace(mem, v, queued, j, queued[j])
      BY <1>4, <2>4, <3>1 DEF Layout, Unsent
    <3>3. v[j] \in Nat /\ v[j] % 4 = 0 /\ v[j] + 4 + queued[j] <= e /\ e < v[j] + TxBytes
      <4>1. v[j] \in Nat /\ v[j] % 4 = 0 /\ v[j + 1] = v[j] + (queued[j] + 4)
        BY <1>0, <1>5, <3>0
      <4>2. v[j + 1] <= e /\ v[taken + 1] <= v[j] /\ v[j + 1] \in Nat
        BY <1>0, <1>3, <1>5, <2>4, <3>0 DEF e
      <4> QED
        BY <1>0, <1>2, <1>3, <1>6, <3>0, <4>1, <4>2
    <3>4. InPlace([mem EXCEPT ![Slot(e)] = LengthOf(n)], v, queued, j, queued[j])
      <4>1. queued[j] \in Nat /\ e \in Nat /\ e % 4 = 0
        BY <1>6, <3>0
      <4> QED
        BY ONLY <3>2, <3>3, <4>1, InPlaceKept
    <3>5. InPlace(mem', v, queued, j, queued[j])
      BY <1>2, <2>2, <3>4
    <3> QED
      BY <3>0, <3>1, <3>5, InPlaceSame
  <2> QED
    BY <1>0, <1>3, <2>3, <2>4
<1>15. NewestInv'
  <2>1. Bytes(Newest + 1, 0, 0) = {}
    BY DEF Bytes
  <2>2. queued'[Newest'] = n /\ n - ToLoad' = 0 /\ n - loading_mem' = 0
    BY <1>0, <1>1, <1>2, <1>3
  <2> QED
    BY <1>0, <1>1, <1>2, <1>3, <2>1, <2>2 DEF NewestInv, Bytes
<1>16. LoaderInv'
  BY <1>0, <1>2, <1>3 DEF LoaderInv
<1>17. room' \in Nat /\ taken' < Newest' /\ taken' <= Newest' /\ Newest' > 0
  BY <1>0, <1>1, <1>2, <1>3
<1>18. Layout(w)'
  <2>1. UNCHANGED taken
    BY <1>2
  <2> QED
    BY <1>10, <1>11, <1>12, <1>13, <1>14, <2>1 DEF Layout
<1> QED
  BY <1>0, <1>1, <1>15, <1>16, <1>17, <1>18 DEF QueueInv

\* A byte that arrives completes no word, or a word of the load.
LEMMA LoadByteKeepsLoader ==
  ASSUME TypeInv, QueueInv, LoadByte
  PROVE  /\ LoaderInv'
         /\ load_index + 1 = 4 => ToLoad' = ToLoad - 4 /\ ToLoad = loading_mem + 3
         /\ load_index + 1 # 4 => ToLoad' = ToLoad
<1>1. loading_mem \in Nat /\ load_index \in 0..3 /\ loading_mem > 0
      /\ loading_mem' = loading_mem - 1 /\ ToLoad % 4 = 0
  BY QueueTypes DEF LoadByte, QueueInv, LoaderInv
<1>2. CASE load_index + 1 = 4
  <2>1. load_index' = 0 /\ rd_data' = {}
    BY <1>2 DEF LoadByte
  <2> QED
    BY <1>1, <1>2, <2>1 DEF LoaderInv, ToLoad
<1>3. CASE load_index + 1 # 4
  <2>1. load_index' = load_index + 1
    BY <1>3 DEF LoadByte
  <2> QED
    BY <1>1, <1>3, <2>1 DEF LoaderInv, ToLoad
<1> QED
  BY <1>2, <1>3

\* A run of bytes grows by the next one.
LEMMA OneByteMore ==
  ASSUME NEW j, NEW lo \in Nat, NEW hi \in Nat, lo <= hi
  PROVE  Bytes(j, lo, hi + 1) = Bytes(j, lo, hi) \cup {<<j, hi>>}
<1>1. lo..(hi + 1 - 1) = lo..(hi - 1) \cup {hi}
  OBVIOUS
<1> QED
  BY <1>1 DEF Bytes

\* A word that is complete goes to its place in the newest packet, and to
\* nobody else's.
LEMMA WordLoaded ==
  ASSUME TypeInv, QueueInv, LoadByte, Newest > 0, load_index + 1 = 4,
         NEW v, Layout(v)
  PROVE  WriterAt(v)' /\ Unsent(v)'
<1> DEFINE q == queued[Newest]
           y == v[Newest]
           n == q - ToLoad
           z == y + 4 + n
           data == Bytes(Newest, n, n + 4)
<1>0. /\ Newest \in Nat /\ Newest > 0 /\ Newest \in 1..Newest /\ taken \in Nat
      /\ TxBytes \in Nat /\ TxBytes > 0 /\ TxBytes % 4 = 0
      /\ load_addr \in Nat /\ loading_mem \in Nat /\ loading_mem > 0
  BY QueueTypes DEF LoadByte
<1>1. q \in 1..255 /\ q % 4 = 0
  BY <1>0, QueueTypes
<1>2. /\ ToLoad \in Nat /\ ToLoad % 4 = 0 /\ ToLoad >= 4 /\ ToLoad = loading_mem + 3
      /\ ToLoad' = ToLoad - 4 /\ ToLoad <= q
  BY <1>0, LoadByteKeepsLoader DEF QueueInv, LoaderInv, NewestInv
<1>3. n \in Nat /\ n % 4 = 0 /\ n + 4 <= q
  BY <1>1, <1>2
<1>4. /\ taken < Newest /\ Newest \in (taken + 1)..Newest
      /\ \A j \in (taken + 1)..(Newest + 1) : v[j] \in Nat /\ v[j] % 4 = 0
      /\ \A j \in (taken + 1)..Newest :
           /\ v[j + 1] = v[j] + (queued[j] + 4)
           /\ (v[j] % TxBytes) + (queued[j] + 4) <= TxBytes
      /\ \A j, k \in (taken + 1)..(Newest + 1) : j <= k => v[j] <= v[k]
  <2>1. taken < Newest
    BY <1>0, <1>2 DEF QueueInv
  <2> QED
    BY <1>0, <2>1, PositionFacts DEF Layout
<1>5. /\ y \in Nat /\ y % 4 = 0 /\ v[Newest + 1] = y + (q + 4)
      /\ (y % TxBytes) + (q + 4) <= TxBytes
      /\ y % TxBytes \in 0..(TxBytes - 1)
  <2>1. y \in Nat /\ y % 4 = 0 /\ v[Newest + 1] = y + (q + 4)
        /\ (y % TxBytes) + (q + 4) <= TxBytes
    BY <1>0, <1>4
  <2> QED
    BY <2>1, InsideRing
<1>6. /\ UNCHANGED <<queued, taken, Newest>> /\ load_addr' = load_addr + 4
      /\ mem' = [mem EXCEPT ![Word(load_addr)] = Payload(rd_data \cup
                   {<<load_pkt, q - loading_mem>>})]
  <2>1. load_pkt = Newest
    BY <1>0 DEF QueueInv, NewestInv
  <2>2. UNCHANGED <<queued, taken>> /\ load_addr' = load_addr + 4
    BY DEF LoadByte, history
  <2>3. UNCHANGED Newest
    BY <2>2 DEF Newest
  <2>4. mem' = [mem EXCEPT ![Word(load_addr)] = Payload(rd_data \cup
                  {<<load_pkt, queued[load_pkt] - loading_mem>>})]
    <3>1. load_pkt # 0
      BY <1>0, <2>1
    <3> QED
      BY <3>1, Zenon DEF LoadByte
  <2> QED
    BY <2>1, <2>2, <2>3, <2>4
<1>7. rd_data \cup {<<load_pkt, q - loading_mem>>} = data
  <2>1. load_pkt = Newest /\ rd_data = Bytes(Newest, n, q - loading_mem)
    BY <1>0 DEF QueueInv, NewestInv
  <2>2. q - loading_mem = n + 3
    BY <1>0, <1>1, <1>2
  <2> HIDE DEF n
  <2>3. Bytes(Newest, n, n + 3 + 1) = Bytes(Newest, n, n + 3) \cup {<<Newest, n + 3>>}
    BY <1>3, OneByteMore
  <2>4. n + 3 + 1 = n + 4
    BY <1>3
  <2> QED
    BY <2>1, <2>2, <2>3, <2>4
<1> HIDE DEF q, y, n, data
<1>8. load_addr = (y % TxBytes) + (4 + n)
  <2>1. WriterAt(v)
    BY <1>0 DEF Layout
  <2>2. PICK k \in Nat : k = q + 4
    BY <1>1
  <2>3. /\ v[Newest + 1] = y + k /\ (y % TxBytes) + k <= TxBytes
        /\ (y % TxBytes) + k < TxBytes => (y + k) % TxBytes = (y % TxBytes) + k
        /\ (y % TxBytes) + k = TxBytes => (y + k) % TxBytes = 0
    BY <1>5, <2>2, InsideRing
  <2>4. load_addr + ToLoad = (y % TxBytes) + k
    <3>1. CASE (y % TxBytes) + k < TxBytes
      BY <1>0, <1>1, <1>5, <2>1, <2>2, <2>3, <3>1 DEF WriterAt
    <3>2. CASE (y % TxBytes) + k = TxBytes
      BY <1>0, <1>2, <2>1, <2>3, <3>2 DEF WriterAt
    <3> QED
      BY <1>0, <1>5, <2>2, <2>3, <3>1, <3>2
  <2> QED
    BY <1>0, <1>1, <1>2, <1>5, <2>2, <2>4 DEF n
<1>9. /\ z \in Nat /\ z % 4 = 0 /\ z = y + (4 + n) /\ Word(load_addr) = Slot(z)
  <2>1. z = y + (4 + n) /\ z \in Nat /\ z % 4 = 0 /\ 4 + n \in Nat
    BY <1>3, <1>5
  <2>2. (y % TxBytes) + (4 + n) < TxBytes
    BY <1>0, <1>1, <1>3, <1>5
  <2>3. PICK k \in Nat : k = 4 + n
    BY <2>1
  <2>4. (y + k) % TxBytes = (y % TxBytes) + k
    BY <1>5, <2>2, <2>3, InsideRing
  <2> QED
    BY <1>8, <2>1, <2>3, <2>4 DEF Slot
<1> HIDE DEF z
<1>10. mem' = [mem EXCEPT ![Slot(z)] = Payload(data)]
  BY <1>6, <1>7, <1>9
<1>11. mem'[Slot(z)].src = data
  <2>1. Slot(z) \in DOMAIN mem
    BY <1>0, <1>9, WordInWords, QueueTypes
  <2> QED
    BY <1>10, <2>1 DEF Payload
<1>12. WriterAt(v)'
  <2>1. load_addr' + ToLoad' = load_addr + ToLoad /\ WriterAt(v)
    BY <1>0, <1>2, <1>6 DEF Layout
  <2> QED
    BY <1>6, <2>1 DEF WriterAt
<1>13. z < v[taken + 1] + TxBytes
  <2>1. room \in Nat /\ room + v[Newest + 1] - v[taken + 1] = TxBytes
        /\ taken <= Newest
    BY <1>0 DEF QueueInv, Layout, RoomAfter
  <2>2. v[taken + 1] \in Nat
    BY <1>0, <1>4, <2>1
  <2> QED
    BY <1>0, <1>1, <1>3, <1>5, <1>9, <2>1, <2>2
<1>14. ASSUME NEW j \in (taken + 1)..Newest
       PROVE  InPlace(mem', v, queued, j, Delivered(j)')
  <2>0. j \in 1..Newest /\ v[j] \in Nat /\ v[j] % 4 = 0 /\ queued[j] \in 1..255
    <3>1. j \in 1..Newest
      BY <1>0
    <3> QED
      BY <1>0, <1>4, <3>1, QueueTypes
  <2>1. InPlace(mem, v, queued, j, Delivered(j))
    BY DEF Layout, Unsent
  <2>2. z < v[j] + TxBytes
    <3>1. v[taken + 1] <= v[j] /\ v[taken + 1] \in Nat
      BY <1>0, <1>4, <2>0
    <3> QED
      BY <1>0, <1>9, <1>13, <2>0, <3>1
  <2>3. ASSUME NEW d \in Nat, Delivered(j) = d, v[j] + 4 + d <= z
        PROVE  InPlace(mem', v, queued, j, d)
    <3>1. InPlace(mem, v, queued, j, d)
      BY <2>1, <2>3
    <3>2. InPlace([mem EXCEPT ![Slot(z)] = Payload(data)], v, queued, j, d)
      BY ONLY <1>9, <2>0, <2>2, <2>3, <3>1, InPlaceKept
    <3> QED
      BY <1>10, <3>2
  <2>4. CASE j # Newest
    <3>1. Delivered(j) = queued[j] /\ Delivered(j)' = queued[j]
      BY <1>6, <2>0, <2>4 DEF Delivered
    <3>2. v[j] + 4 + queued[j] <= z
      <4>1. v[j + 1] = v[j] + (queued[j] + 4) /\ v[j + 1] <= y /\ v[j + 1] \in Nat
        BY <1>0, <1>4, <2>0, <2>4 DEF y
      <4> QED
        BY <1>3, <1>5, <1>9, <2>0, <4>1
    <3> QED
      BY <2>0, <2>3, <3>1, <3>2
  <2>5. CASE j = Newest
    <3>1. Delivered(j) = n /\ Delivered(j)' = n + 4
      BY <1>1, <1>2, <1>6, <2>5 DEF Delivered, n, q
    <3>2. v[j] = y /\ queued[j] = q
      BY <2>5 DEF y, q
    <3>3. v[j] + 4 + n <= z
      BY <1>3, <1>5, <1>9, <3>2
    <3>4. InPlace(mem', v, queued, j, n)
      BY <1>3, <2>3, <3>1, <3>3
    <3>5. ASSUME NEW i \in Nat, 4 * i + 4 <= n + 4
          PROVE  mem'[Slot(v[j] + 4 + 4 * i)].src = Bytes(j, 4 * i, 4 * i + 4)
      <4>1. CASE 4 * i + 4 <= n
        BY <3>4, <4>1 DEF InPlace
      <4>2. CASE ~(4 * i + 4 <= n)
        <5>1. 4 * i = n
          BY <1>3, <3>5, <4>2
        <5>2. v[j] + 4 + 4 * i = z
          BY <1>3, <1>5, <1>9, <3>2, <5>1
        <5> QED
          BY <1>11, <2>5, <5>1, <5>2 DEF data
      <4> QED
        BY <4>1, <4>2
    <3>6. InPlace(mem', v, queued, j, n + 4)
      BY <3>4, <3>5 DEF InPlace
    <3> QED
      BY <3>1, <3>6
  <2> QED
    BY <2>4, <2>5
<1>15. Unsent(v)'
  BY <1>6, <1>14 DEF Unsent, Delivered
<1> QED
  BY <1>12, <1>15

LEMMA QueueLoadByte ==
  ASSUME TypeInv, QueueInv, LoadByte
  PROVE  QueueInv'
<1>0. /\ Newest \in Nat /\ loading_mem \in Nat /\ loading_mem > 0 /\ load_index \in 0..3
      /\ load_addr \in Nat /\ LoaderInv' /\ ToLoad = loading_mem + load_index
  BY QueueTypes, LoadByteKeepsLoader DEF LoadByte, ToLoad
<1>1. /\ UNCHANGED <<queued, taken, room, pkt_addr, pc, tmp, load_pkt>>
      /\ UNCHANGED Newest
  BY DEF LoadByte, history, cpu, Newest
<1>2. CASE Newest = 0
  <2>1. PICK v : Layout(v)
    BY DEF QueueInv
  <2>2. taken = 0
    BY <1>2, QueueTypes DEF QueueInv
  <2>3. Layout(v)'
    BY <1>1, <1>2, <2>1, <2>2 DEF Layout, ReaderAt, RoomAfter, Masking, Unsent, Positions
  <2> QED
    BY <1>0, <1>1, <1>2, <2>3 DEF QueueInv, Masking
<1>3. CASE Newest > 0
  <2>0. ToLoad > 0 /\ taken < Newest
    <3>1. ToLoad > 0
      BY <1>0
    <3> QED
      BY <1>3, <3>1 DEF QueueInv
  <2>1. PICK v : Layout(v)
    BY <1>3 DEF QueueInv
  <2>2. /\ load_pkt = Newest /\ queued[Newest] \in 1..255 /\ ToLoad <= queued[Newest]
        /\ rd_data = Bytes(Newest, queued[Newest] - ToLoad, queued[Newest] - loading_mem)
    <3>1. queued[Newest] \in 1..255
      BY <1>0, <1>3, QueueTypes
    <3> QED
      BY <1>3, <3>1 DEF QueueInv, NewestInv
  <2>3. CASE load_index + 1 = 4
    <3>1. /\ ToLoad' = ToLoad - 4 /\ loading_mem' = loading_mem - 1 /\ load_index' = 0
          /\ rd_data' = {}
      BY <2>3, LoadByteKeepsLoader DEF LoadByte
    <3>2. WriterAt(v)' /\ Unsent(v)'
      BY <1>3, <2>1, <2>3, WordLoaded
    <3>3. Layout(v)'
      BY <1>1, <2>1, <3>2 DEF Layout, Positions, ReaderAt, RoomAfter, Masking
    <3>4. NewestInv'
      <4>1. ToLoad' = loading_mem' /\ ToLoad' <= queued[Newest]
        BY <1>0, <2>2, <2>3, <3>1
      <4>2. ASSUME NEW b \in Int PROVE Bytes(Newest, b, b) = {}
        BY DEF Bytes
      <4>3. queued[Newest] - ToLoad' \in Int
        BY <1>0, <2>2, <3>1
      <4> QED
        BY <1>1, <2>2, <3>1, <4>1, <4>2, <4>3 DEF NewestInv, Bytes
    <3> QED
      BY <1>0, <1>1, <1>3, <2>0, <3>3, <3>4 DEF QueueInv
  <2>4. CASE load_index + 1 # 4
    <3>1. /\ ToLoad' = ToLoad /\ loading_mem' = loading_mem - 1
          /\ UNCHANGED <<mem, load_addr>>
          /\ rd_data' = rd_data \cup {<<load_pkt, queued[load_pkt] - loading_mem>>}
      <4>1. load_pkt # 0
        BY <1>3, <2>2
      <4>2. ToLoad' = ToLoad
        BY <2>4, LoadByteKeepsLoader
      <4> QED
        BY <2>4, <4>1, <4>2, Zenon DEF LoadByte
    <3>2. Layout(v)'
      BY <1>1, <2>1, <3>1 DEF Layout, ReaderAt, WriterAt, RoomAfter, Masking, Unsent,
         Delivered, Positions, InPlace, Slot, Word, Bytes
    <3>3. NewestInv'
      <4> DEFINE lo == queued[Newest] - ToLoad
                 hi == queued[Newest] - loading_mem
      <4>1. lo \in Nat /\ hi \in Nat /\ lo <= hi
        BY <1>0, <2>2, <2>4
      <4>2. queued[Newest] - loading_mem' = hi + 1
        BY <1>0, <2>2, <3>1
      <4>3. rd_data' = Bytes(Newest, lo, hi) \cup {<<Newest, hi>>}
        BY <2>2, <3>1
      <4>4. rd_data' = Bytes(Newest, lo, hi + 1)
        <5> HIDE DEF lo, hi
        <5> QED
          BY <1>0, <4>1, <4>3, OneByteMore
      <4> QED
        BY <1>1, <2>2, <3>1, <4>2, <4>4 DEF NewestInv, Bytes
    <3> QED
      BY <1>0, <1>1, <1>3, <2>0, <3>2, <3>3 DEF QueueInv
  <2> QED
    BY <2>3, <2>4
<1> QED
  BY <1>0, <1>2, <1>3
\* A host that loads nothing goes back to the ring's start only from its end.
LEMMA QueueWrAddr ==
  ASSUME TypeInv, QueueInv, MemWrAddr(0)
  PROVE  QueueInv'
<1>0. /\ Newest \in Nat /\ TxBytes \in Nat /\ TxBytes > 0
      /\ (queued = <<>> <=> Newest = 0)
  BY QueueTypes
<1>1. /\ UNCHANGED <<queued, load_pkt, taken, room, pkt_addr, loading_mem>>
      /\ UNCHANGED <<load_index, rd_data, mem, pc, tmp>>
      /\ loading_mem = 0 /\ load_addr' = 0 /\ (queued # <<>> => load_addr = TxBytes)
  BY DEF MemWrAddr, Command, cpu
<1>2. UNCHANGED <<Newest, ToLoad>> /\ ToLoad = 0
  BY <1>1 DEF Newest, ToLoad, QueueInv, LoaderInv
<1>3. LoaderInv' /\ (Newest > 0 => NewestInv')
  BY <1>1, <1>2 DEF QueueInv, LoaderInv, NewestInv, Bytes
<1>4. ASSUME NEW v, Layout(v) PROVE Layout(v)'
  <2>1. ASSUME Newest > 0 PROVE WriterAt(v)'
    <3>1. load_addr = TxBytes /\ WriterAt(v)
      BY <1>0, <1>1, <1>4, <2>1 DEF Layout
    <3>2. v[Newest + 1] \in Nat
      BY <1>0, <1>4 DEF Layout, Positions, Newest
    <3>3. v[Newest + 1] % TxBytes = 0
      BY <1>0, <1>2, <3>1, <3>2, InsideRing DEF WriterAt
    <3> QED
      BY <1>1, <1>2, <3>3 DEF WriterAt
  <2> QED
    BY <1>1, <1>2, <1>4, <2>1 DEF Layout, ReaderAt, RoomAfter, Masking, Unsent, Delivered,
       Positions, InPlace, Slot, Word, Bytes
<1> QED
  BY <1>1, <1>2, <1>3, <1>4 DEF QueueInv, Masking

\* A change of address, which the mask does not undo, takes the reader and the
\* writer along when the ring is empty.
LEMMA QueueAddr ==
  ASSUME TypeInv, QueueInv, NEW a \in {0, 4}, TxAddr(a), ~addr_lost'
  PROVE  QueueInv'
<1>0. /\ Newest \in Nat /\ TxBytes \in Nat /\ TxBytes > 4 /\ a \in Nat
      /\ a % TxBytes = a /\ a % 4 = 0
  <2>1. TxBytes \in Nat /\ TxBytes > 4 /\ Newest \in Nat
    BY TxAssumption, QueueTypes
  <2>2. 0 % TxBytes = 0 /\ 4 % TxBytes = 4
    BY ONLY <2>1
  <2> QED
    BY <2>1, <2>2
<1>1. /\ UNCHANGED <<queued, load_pkt, taken, room, loading_mem, load_index>>
      /\ UNCHANGED <<rd_data, mem, pc, tmp>>
      /\ loading_mem = 0 /\ load_addr' = a /\ pkt_addr' = a /\ taken = Newest
      /\ pc # "MaskStore"
  BY DEF TxAddr, Command, cpu, Newest
<1>2. UNCHANGED <<Newest, ToLoad>> /\ ToLoad = 0
  BY <1>1 DEF Newest, ToLoad, QueueInv, LoaderInv
<1>3. LoaderInv' /\ (Newest > 0 => NewestInv')
  BY <1>1, <1>2 DEF QueueInv, LoaderInv, NewestInv, Bytes
<1>4. room = TxBytes
  <2>1. PICK u : Layout(u)
    BY DEF QueueInv
  <2>2. u[Newest + 1] \in Nat
    BY <1>0, <2>1 DEF Layout, Positions, Newest
  <2>3. room \in Nat /\ room + u[Newest + 1] - u[Newest + 1] = TxBytes
    BY <1>1, <2>1 DEF Layout, RoomAfter, QueueInv
  <2> QED
    BY <1>0, <2>2, <2>3
<1>5. PICK v : v = [k \in 1..(Newest + 1) |-> a]
  OBVIOUS
<1>6. v \in [1..(Newest + 1) -> Nat] /\ v[Newest + 1] = a
  BY <1>0, <1>5
<1>7. Positions(v, queued', taken')
  <2>1. Len(queued') = Newest /\ taken' = Newest
    BY <1>1 DEF Newest
  <2>2. \A j \in (Newest + 1)..(Newest + 1) : j = Newest + 1
    BY <1>0
  <2>3. \A j \in (Newest + 1)..Newest : FALSE
    BY <1>0
  <2> QED
    BY <1>0, <1>6, <2>1, <2>2, <2>3 DEF Positions
<1>8. ReaderAt(v)' /\ RoomAfter(v)' /\ WriterAt(v)'
  BY <1>0, <1>1, <1>2, <1>4, <1>6 DEF ReaderAt, RoomAfter, WriterAt, Masking
<1>9. Unsent(v)'
  <2>1. (taken' + 1)..Newest' = {}
    BY <1>0, <1>1, <1>2
  <2> QED
    BY <2>1 DEF Unsent
<1>10. Layout(v)'
  BY <1>7, <1>8, <1>9 DEF Layout
<1> QED
  BY <1>1, <1>2, <1>3, <1>10 DEF QueueInv, Masking

\* The host's commands and the bytes it loads keep the queue in its place.
LEMMA QueueHandler ==
  ASSUME TypeInv, QueueInv, CtrlIrq \/ LoadByte \/ OtherHandlers, ~addr_lost'
  PROVE  QueueInv'
<1>1. ASSUME NEW n \in TriggerLens, TxTrigger(n) PROVE QueueInv'
  BY <1>1, QueueSame DEF TxTrigger, Command, cpu, loader
<1>2. ASSUME NEW b \in {0, 1}, TxScramblerSeed(b) PROVE QueueInv'
  BY <1>2, QueueSame DEF TxScramblerSeed, Command, cpu, loader
<1>3. ASSUME NEW b \in {0, 1}, TxAuto(b) PROVE QueueInv'
  BY <1>3, QueueSame DEF TxAuto, Command, cpu, loader
<1>4. ASSUME NEW b \in {0, 1}, TxLoopback(b) PROVE QueueInv'
  BY <1>4, QueueSame DEF TxLoopback, Command, cpu, loader
<1>5. ASSUME NEW n \in FloodArgs, TxFlood(n) PROVE QueueInv'
  BY <1>5, QueueSame DEF TxFlood, Command, cpu, loader
<1>6. ASSUME NEW a \in {0, 4}, TxAddr(a) PROVE QueueInv'
  BY <1>6, QueueAddr
<1>7. ASSUME NEW n \in Lens, MemLoad(n) PROVE QueueInv'
  <2>1. /\ UNCHANGED <<queued, taken, room, pc, tmp, pkt_addr, rd_data, mem>>
        /\ queued = <<>> /\ load_index' = 0 /\ loading_mem' = n /\ loading_mem = 0
    BY <1>7 DEF MemLoad, Command, cpu
  <2>2. Newest = 0 /\ Newest' = 0 /\ n \in 1..255 /\ n % 4 = 0
    BY <2>1, TxAssumption DEF Newest
  <2>3. LoaderInv'
    <3>1. rd_data = {}
      BY <2>1 DEF QueueInv, LoaderInv
    <3> QED
      BY <2>1, <2>2, <3>1 DEF LoaderInv, ToLoad
  <2>4. PICK v : Layout(v)
    BY DEF QueueInv
  <2>5. taken = 0
    BY <2>2, QueueTypes DEF QueueInv
  <2>6. Layout(v)'
    BY <2>1, <2>2, <2>4, <2>5 DEF Layout, ReaderAt, RoomAfter, Masking, Unsent, Positions
  <2> QED
    BY <2>1, <2>2, <2>3, <2>6 DEF QueueInv, Masking
<1>8. ASSUME NEW n \in Lens, TxPacket(n) PROVE QueueInv'
  BY <1>8, NextPacket
<1>9. ASSUME OtherHandlers PROVE QueueInv'
  BY <1>9, QueueSame DEF OtherHandlers, cpu, loader, history
<1>10. ASSUME NEW r \in {0, 1}, TxSpreadFactor(r) PROVE QueueInv'
  BY <1>10, QueueSame DEF TxSpreadFactor, Command, cpu, loader
<1> QED
  BY <1>1, <1>2, <1>3, <1>4, <1>5, <1>6, <1>7, <1>8, <1>9, <1>10,
     QueueWrAddr, QueueLoadByte DEF CtrlIrq

-----------------------------------------------------------------------------
(* The main loop's side: what the queue branch finds where pkt_addr points *)
(* is the next packet, whole.                                              *)

LEMMA NextFrame ==
  ASSUME TypeInv, CounterInv, QueueInv, QueueSection
  PROVE  /\ Newest \in Nat /\ taken \in Nat /\ pkt_addr \in Nat /\ TxBytes \in Nat
         /\ TxBytes > 0 /\ taken + 1 \in 1..Newest
         /\ taken + 1 = Newest => ToLoad = 0
         /\ queued[taken + 1] \in 1..255 /\ queued[taken + 1] % 4 = 0
         /\ pkt_addr + (queued[taken + 1] + 4) <= TxBytes
         /\ mem[Word(pkt_addr)].len = queued[taken + 1]
         /\ \A i \in Nat : 4 * i + 4 <= queued[taken + 1] =>
              mem[Word(pkt_addr + 4 + 4 * i)].src = Bytes(taken + 1, 4 * i, 4 * i + 4)
<1> DEFINE q == queued[taken + 1]
<1>0. /\ Newest \in Nat /\ taken \in Nat /\ pkt_addr \in Nat /\ TxBytes \in Nat
      /\ TxBytes > 0 /\ loading_mem \in Nat
  BY QueueTypes
<1>1. taken < Newest /\ (taken + 1 = Newest /\ load_pkt = Newest => loading_mem = 0)
  <2>1. taken < Loaded
    BY DEF CounterInv, NeverSendsUnloaded
  <2>2. Loaded = Newest - (IF load_pkt # 0 /\ loading_mem > 0 THEN 1 ELSE 0)
    BY DEF Loaded, Newest
  <2>3. CASE load_pkt # 0 /\ loading_mem > 0
    BY <1>0, <2>1, <2>2, <2>3
  <2>4. CASE ~(load_pkt # 0 /\ loading_mem > 0)
    BY <1>0, <2>1, <2>2, <2>4
  <2> QED
    BY <2>3, <2>4
<1>2. taken + 1 \in 1..Newest /\ taken + 1 \in (taken + 1)..Newest /\ Newest > 0
  BY <1>0, <1>1
<1>3. q \in 1..255 /\ q % 4 = 0
  BY <1>2, QueueTypes
<1>4. PICK v : Layout(v)
  BY <1>2 DEF QueueInv
<1>5. /\ v[taken + 1] \in Nat /\ (v[taken + 1] % TxBytes) + (q + 4) <= TxBytes
  <2>1. taken <= Newest /\ taken + 1 \in (taken + 1)..(Newest + 1)
    BY <1>0, <1>1
  <2> QED
    BY <1>2, <1>4, <2>1, PositionFacts DEF Layout
<1>6. pkt_addr = v[taken + 1] % TxBytes
  BY <1>4 DEF Layout, ReaderAt, QueueSection, Masking
<1>11. taken + 1 = Newest => ToLoad = 0
  <2>1. load_pkt = Newest /\ (loading_mem = 0 => load_index = 0)
    BY <1>2 DEF QueueInv, NewestInv, LoaderInv
  <2> QED
    BY <1>1, <2>1 DEF ToLoad
<1>7. Delivered(taken + 1) = q
  BY <1>3, <1>11 DEF Delivered
<1>8. InPlace(mem, v, queued, taken + 1, q)
  BY <1>2, <1>4, <1>7 DEF Layout, Unsent
<1> DEFINE y == v[taken + 1]
<1> HIDE DEF q, y
<1>9. mem[Word(pkt_addr)].len = q
  BY <1>6, <1>8 DEF InPlace, Slot, q
<1>10. ASSUME NEW i \in Nat, 4 * i + 4 <= q
       PROVE  mem[Word(pkt_addr + 4 + 4 * i)].src = Bytes(taken + 1, 4 * i, 4 * i + 4)
  <2>1. PICK k \in Nat : k = 4 + 4 * i
    OBVIOUS
  <2>2. y \in Nat /\ (y % TxBytes) + k < TxBytes /\ y + 4 + 4 * i = y + k
    <3>1. y \in Nat /\ (y % TxBytes) + (q + 4) <= TxBytes
      BY <1>5 DEF y
    <3>2. y % TxBytes \in Nat
      BY <3>1, InsideRing
    <3> QED
      BY <1>0, <1>3, <1>10, <2>1, <3>1, <3>2
  <2>3. (y + k) % TxBytes = (y % TxBytes) + k
    BY <2>2, InsideRing
  <2>4. (y + 4 + 4 * i) % TxBytes = pkt_addr + 4 + 4 * i
    <3>1. pkt_addr = y % TxBytes
      BY <1>6 DEF y
    <3> QED
      BY <1>0, <2>1, <2>2, <2>3, <3>1
  <2>5. mem[Slot(y + 4 + 4 * i)].src = Bytes(taken + 1, 4 * i, 4 * i + 4)
    BY <1>8, <1>10 DEF InPlace, y
  <2> QED
    BY <2>4, <2>5 DEF Slot
<1> QED
  BY <1>0, <1>2, <1>3, <1>5, <1>6, <1>9, <1>10, <1>11 DEF q

\* The pointer inside the half.
LEMMA StepInside ==
  ASSUME NEW a \in Nat, a + 4 < TxBytes
  PROVE  Step(a) = a + 4
<1>1. a + 4 \in 1..(TxBytes - 1)
  BY TxAssumption
<1>2. (a + 4) % TxBytes = a + 4
  BY <1>1, TxAssumption
<1> QED
  BY <1>1, <1>2 DEF Step
\* The end of the section: the packet is taken, and pkt_addr moves past it.
LEMMA QueueEnable ==
  ASSUME TypeInv, CounterInv, QueueInv, Enable, mode = "queue",
         PDSU_length = queued[taken + 1]
  PROVE  QueueInv'
<1> DEFINE q == queued[taken + 1]
<1>0. /\ Newest \in Nat /\ taken \in Nat /\ pkt_addr \in Nat /\ TxBytes \in Nat
      /\ TxBytes > 0 /\ taken + 1 \in 1..Newest
      /\ taken + 1 = Newest => ToLoad = 0
      /\ q \in 1..255 /\ q % 4 = 0 /\ pkt_addr + (q + 4) <= TxBytes
  <2>1. QueueSection
    BY DEF Enable, Goto, QueueSection
  <2> QED
    BY <2>1, NextFrame
<1>1. /\ UNCHANGED <<queued, load_pkt, load_addr, loading_mem, load_index, rd_data, mem>>
      /\ pc = "Modulate" /\ pc' = "MaskLoad"
      /\ pkt_addr' = pkt_addr + (PDSU_length \div 4) * 4 + 4
      /\ taken' = taken + 1 /\ room' = room + PDSU_length + 4
  BY DEF Enable, Goto, loader, dram
<1>2. UNCHANGED <<Newest, ToLoad>>
  BY <1>1 DEF Newest, ToLoad
<1>3. Newest > 0 /\ taken' <= Newest /\ room \in Nat
  BY <1>0, <1>1 DEF QueueInv
<1>4. PDSU_length = q
  OBVIOUS
<1> HIDE DEF q
<1>5. pkt_addr' = pkt_addr + (q + 4) /\ room' = room + (q + 4) /\ room' \in Nat
  BY <1>0, <1>1, <1>3, <1>4
<1>6. PICK v : Layout(v)
  BY <1>3 DEF QueueInv
<1> DEFINE y == v[taken + 1]
<1>7. /\ y \in Nat /\ v[taken + 2] = y + (q + 4) /\ v[Newest + 1] \in Nat
      /\ (y % TxBytes) + (q + 4) <= TxBytes
  <2>1. /\ v[taken + 1] \in Nat /\ v[Newest + 1] \in Nat
        /\ v[(taken + 1) + 1] = v[taken + 1] + (queued[taken + 1] + 4)
        /\ (v[taken + 1] % TxBytes) + (queued[taken + 1] + 4) <= TxBytes
    <3>1. /\ taken <= Newest /\ taken + 1 \in (taken + 1)..Newest
          /\ taken + 1 \in (taken + 1)..(Newest + 1)
          /\ Newest + 1 \in (taken + 1)..(Newest + 1)
      BY <1>0
    <3> QED
      BY <1>6, <3>1, PositionFacts DEF Layout
  <2>2. (taken + 1) + 1 = taken + 2
    BY <1>0
  <2> QED
    BY <2>1, <2>2 DEF q
<1>8. pkt_addr = y % TxBytes
  BY <1>1, <1>6 DEF Layout, ReaderAt, Masking
<1>9. room' + v[Newest + 1] - v[taken + 2] = TxBytes
  <2>1. room + v[Newest + 1] - y = TxBytes
    BY <1>6 DEF Layout, RoomAfter
  <2> HIDE DEF y
  <2> QED
    BY <1>0, <1>3, <1>5, <1>7, <2>1
<1> HIDE DEF y
<1>10. pkt_addr' % TxBytes = (y + (q + 4)) % TxBytes
  <2>1. PICK k \in Nat : k = q + 4
    BY <1>0
  <2>2. pkt_addr' = (y % TxBytes) + k /\ (y % TxBytes) + k <= TxBytes
    BY <1>5, <1>7, <1>8, <2>1
  <2>3. /\ (y % TxBytes) \in Nat
        /\ (y % TxBytes) + k < TxBytes => (y + k) % TxBytes = (y % TxBytes) + k
        /\ (y % TxBytes) + k = TxBytes => (y + k) % TxBytes = 0
    BY <1>7, InsideRing
  <2>4. CASE pkt_addr' < TxBytes
    <3>1. pkt_addr' % TxBytes = pkt_addr'
      BY <1>0, <2>1, <2>2, <2>3, <2>4
    <3> QED
      BY <2>1, <2>2, <2>3, <2>4, <3>1
  <2>5. CASE pkt_addr' = TxBytes
    <3>1. TxBytes % TxBytes = 0
      BY <1>0
    <3> QED
      BY <2>1, <2>2, <2>3, <2>5, <3>1
  <2> QED
    BY <1>0, <2>1, <2>2, <2>3, <2>4, <2>5
<1>11. taken' + 1 = taken + 2
  BY <1>0, <1>1
<1>12. ReaderAt(v)' /\ RoomAfter(v)'
  BY <1>1, <1>2, <1>7, <1>9, <1>10, <1>11 DEF ReaderAt, RoomAfter, Masking
<1>13. Unsent(v)'
  <2>1. (taken' + 1)..Newest \subseteq (taken + 1)..Newest
    BY <1>0, <1>11
  <2>2. \A j \in (taken' + 1)..Newest : InPlace(mem, v, queued, j, Delivered(j))
    BY <1>6, <2>1 DEF Layout, Unsent
  <2> QED
    BY <1>1, <1>2, <2>2 DEF Unsent, Delivered
<1>14. Positions(v, queued', taken') /\ WriterAt(v)'
  <2>1. Positions(v, queued, taken) /\ WriterAt(v)
    BY <1>3, <1>6 DEF Layout
  <2>2. \A j : /\ j \in (taken' + 1)..Newest => j \in (taken + 1)..Newest
               /\ j \in (taken' + 1)..(Newest + 1) => j \in (taken + 1)..(Newest + 1)
    BY <1>0, <1>11
  <2>3. Positions(v, queued, taken')
    <3> DEFINE t == taken'
    <3>1. \A j : /\ j \in (t + 1)..Newest => j \in (taken + 1)..Newest
                 /\ j \in (t + 1)..(Newest + 1) => j \in (taken + 1)..(Newest + 1)
      BY <2>2
    <3> HIDE DEF t
    <3>2. Positions(v, queued, t)
      BY <2>1, <3>1, Zenon DEF Positions, Newest
    <3> QED
      BY <3>2 DEF t
  <2> QED
    BY <1>1, <1>2, <2>1, <2>3 DEF WriterAt
<1>15. LoaderInv' /\ NewestInv'
  BY <1>1, <1>2, <1>3 DEF QueueInv, LoaderInv, NewestInv, Bytes
<1> QED
  <2>1. ToLoad > 0 => taken' < Newest
    BY <1>0, <1>1
  <2> QED
    BY <1>2, <1>3, <1>5, <1>12, <1>13, <1>14, <1>15, <2>1 DEF QueueInv, Layout

\* pkt_addr &= MEM_TX_MASK, a load and a store that no command comes between.
LEMMA QueueMask ==
  ASSUME TypeInv, CounterInv, QueueInv, MaskLoad \/ MaskStore
  PROVE  QueueInv'
<1>1. /\ UNCHANGED <<queued, load_pkt, taken, room, load_addr, loading_mem, load_index>>
      /\ UNCHANGED <<rd_data, mem>> /\ pc \in Masking
  BY DEF MaskLoad, MaskStore, Load, Goto, loader, dram, history, Masking
<1>2. UNCHANGED <<Newest, ToLoad>> /\ Newest > 0
  <2>1. UNCHANGED <<Newest, ToLoad>> /\ Newest # 0
    BY <1>1 DEF QueueInv, Newest, ToLoad
  <2> QED
    BY <2>1, QueueTypes
<1>3. LoaderInv' /\ NewestInv'
  BY <1>1, <1>2 DEF QueueInv, LoaderInv, NewestInv, Bytes
<1>4. PICK v : Layout(v)
  BY <1>2 DEF QueueInv
<1>5. ReaderAt(v)'
  <2>1. CASE MaskLoad
    BY <1>1, <1>4, <2>1 DEF MaskLoad, Load, Goto, Layout, ReaderAt, Masking
  <2>2. CASE MaskStore
    BY <1>1, <1>4, <2>2 DEF MaskStore, Goto, Layout, ReaderAt, Masking
  <2> QED
    BY <2>1, <2>2
<1>6. Layout(v)'
  BY <1>1, <1>2, <1>4, <1>5 DEF Layout, WriterAt, RoomAfter, Unsent, Delivered,
     Positions, InPlace, Slot, Word, Bytes
<1> QED
  BY <1>1, <1>2, <1>3, <1>6 DEF QueueInv

\* What the queue branch has read so far is the next packet.
TakingInv ==
  mode = "queue" =>
    /\ pc = "Length" => rd_p = pkt_addr
    /\ pc \in {"Header", "Payload"} => rd_p = pkt_addr + 4
    /\ pc \in {"Header", "Payload", "Modulate"} => PDSU_length = queued[taken + 1]
    /\ pc \in Building => frame.pkt = taken + 1
    /\ pc = "Modulate" =>
         /\ num_words > 0 => rd_p = pkt_addr + 4 + 4 * Len(frame.words)
         /\ \A k \in 1..Len(frame.words) :
              frame.words[k].src = Bytes(taken + 1, 4 * k - 4, 4 * k)

\* The main loop leaves the queue alone but for the end of the section.
LEMMA QueueMain ==
  ASSUME TypeInv, CounterInv, QueueInv, TakingInv, Main
  PROVE  QueueInv'
<1> USE DEF Goto
<1>1. CASE MaskLoad \/ MaskStore
  BY <1>1, QueueMask
<1>2. CASE Enable
  <2>1. CASE mode = "queue"
    <3>1. PDSU_length = queued[taken + 1]
      BY <1>2, <2>1 DEF Enable, TakingInv
    <3> QED
      BY <1>2, <2>1, <3>1, QueueEnable
  <2>2. CASE mode # "queue"
    BY <1>2, <2>2, QueueSame DEF Enable, loader, dram, Masking
  <2> QED
    BY <2>1, <2>2
<1>3. CASE \/ TestSend \/ TestFlood \/ TestAuto \/ TestMany \/ TestOne \/ TestBusy
           \/ RxOff \/ Disable \/ SetPointer \/ Length \/ Header \/ Payload0
           \/ Modulate \/ SeedLoad \/ SeedStore \/ RxOn \/ PendLoad \/ PendStore
           \/ FloodTest \/ FloodLoad \/ FloodStore \/ Clear
  <2>1. /\ UNCHANGED <<queued, load_pkt, taken, room, pkt_addr, load_addr>>
        /\ UNCHANGED <<loading_mem, load_index, rd_data, mem>>
        /\ pc \notin Masking /\ pc' \notin Masking
    BY <1>3 DEF TestSend, TestFlood, TestAuto, TestMany, TestOne, TestBusy, RxOff,
       Disable, SetPointer, Length, Header, Payload0, Modulate, SeedLoad, SeedStore,
       RxOn, PendLoad, PendStore, FloodTest, FloodLoad, FloodStore, Clear, Test, Load,
       loader, dram, history, Masking
  <2> QED
    BY <2>1, QueueSame
<1> QED
  BY <1>1, <1>2, <1>3 DEF Main
LEMMA TakingHandler ==
  ASSUME SectionInv, TakingInv, CtrlIrq \/ LoadByte \/ OtherHandlers
  PROVE  TakingInv'
<1>1. pc \notin Section /\ UNCHANGED <<pc, mode>>
  BY SectionHandler
<1> QED
  BY <1>1 DEF TakingInv, Section, Building

\* The length word is at pkt_addr, and the first word of the payload after it.
LEMMA TakingLength ==
  ASSUME TypeInv, CounterInv, QueueInv, TakingInv, Length
  PROVE  TakingInv'
<1> SUFFICES ASSUME mode' = "queue"
             PROVE  PDSU_length' = queued[taken + 1] /\ rd_p' = pkt_addr + 4
  BY DEF TakingInv, Length, Goto, loader, history, Building
<1>1. /\ pc = "Length" /\ mode = "queue" /\ rd_p = pkt_addr
      /\ PDSU_length' = mem[Word(rd_p)].len % 256 /\ rd_p' = Step(rd_p)
  BY DEF TakingInv, Length, Goto
<1>2. /\ pkt_addr \in Nat /\ TxBytes \in Nat
      /\ queued[taken + 1] \in 1..255 /\ queued[taken + 1] % 4 = 0
      /\ pkt_addr + (queued[taken + 1] + 4) <= TxBytes
      /\ mem[Word(pkt_addr)].len = queued[taken + 1]
  BY <1>1, NextFrame DEF QueueSection
<1> DEFINE q == queued[taken + 1]
<1> HIDE DEF q
<1>3. q \in 1..255 /\ pkt_addr + (q + 4) <= TxBytes /\ mem[Word(pkt_addr)].len = q
  BY <1>2 DEF q
<1>4. PDSU_length' = q
  BY <1>1, <1>3
<1>5. rd_p' = pkt_addr + 4
  <2>1. pkt_addr + 4 < TxBytes
    BY <1>2, <1>3
  <2> QED
    BY <1>1, <1>2, <2>1, StepInside
<1> QED
  BY <1>4, <1>5 DEF q

\* Each turn of the loop takes the next four bytes of the packet.
LEMMA TakingModulate ==
  ASSUME TypeInv, CounterInv, SectionInv, WordsInv, QueueInv, TakingInv, Modulate,
         mode = "queue"
  PROVE  TakingInv'
<1> DEFINE q == queued[taken + 1]
           old == frame.words
           n == Len(old)
           word == [at |-> rd_p, src |-> mem[Word(rd_p)].src, key |-> scr]
           new == Append(old, word)
<1>1. /\ pc = "Modulate" /\ num_words > 0 /\ num_words' = num_words - 1
      /\ UNCHANGED <<pc, mode, pkt_addr, PDSU_length, taken, queued>>
      /\ rd_p' = Step(rd_p) /\ frame' = [frame EXCEPT !.words = new]
  BY DEF Modulate, header
<1>2. /\ pkt_addr \in Nat /\ taken \in Nat /\ TxBytes \in Nat
      /\ q \in 1..255 /\ q % 4 = 0 /\ pkt_addr + (q + 4) <= TxBytes
      /\ \A i \in Nat : 4 * i + 4 <= q =>
           mem[Word(pkt_addr + 4 + 4 * i)].src = Bytes(taken + 1, 4 * i, 4 * i + 4)
  <2>1. QueueSection
    BY <1>1 DEF QueueSection
  <2> QED
    BY <2>1, NextFrame
<1>3. /\ PDSU_length = q /\ frame.pkt = taken + 1 /\ rd_p = pkt_addr + 4 + 4 * n
      /\ \A k \in 1..n : old[k].src = Bytes(taken + 1, 4 * k - 4, 4 * k)
  BY <1>1 DEF TakingInv, Building
<1>4. old \in Seq(Modulated) /\ n + num_words = WordCount(q)
  BY <1>1, <1>3 DEF WordsInv
<1>5. frame = FrameOf(frame.pkt, frame.reseeded, frame.sf, old)
  BY <1>1 DEF SectionInv, Building
<1>6. word \in Modulated /\ word.src = mem[Word(rd_p)].src
  <2>1. rd_p \in Nat /\ mem \in [Words -> [len : 0..255, src : SUBSET (Nat \X Nat)]]
        /\ scrambler_seed \in {0, 1}
    BY DEF TypeInv, ScalarsInv, ScalarsOK, DataInv, DataOK
  <2>2. mem[Word(rd_p)].src \in SUBSET (Nat \X Nat)
    BY <2>1, WordInWords
  <2>3. scr \in Keys
    BY <1>1, <1>4, <2>1 DEF Keys, WordsInv
  <2> QED
    BY <2>1, <2>2, <2>3 DEF Modulated
<1> HIDE DEF word
<1>7. /\ Len(new) = n + 1 /\ \A k \in 1..n : new[k] = old[k]
      /\ new[n + 1] = word /\ n \in Nat
  BY <1>4, <1>6
<1> HIDE DEF new
<1>8. frame'.words = new /\ frame'.pkt = frame.pkt
  BY <1>1, <1>5, SetWords DEF FrameOf
<1> HIDE DEF q, n, old
<1>9. /\ num_words \in Nat /\ num_words' \in Nat /\ 4 * n + 4 * num_words = q
      /\ 4 * n + 4 <= q
  <2>1. num_words \in Nat
    BY DEF TypeInv, ScalarsInv, ScalarsOK
  <2>2. 4 * WordCount(q) = q /\ WordCount(q) \in Nat
    BY <1>2 DEF WordCount
  <2> HIDE DEF WordCount
  <2> QED
    BY <1>1, <1>4, <1>7, <2>1, <2>2
<1>10. num_words' > 0 => rd_p' = pkt_addr + 4 + 4 * Len(new)
  <2>1. num_words' = num_words - 1
    BY <1>1
  <2>2. num_words' > 0 => 4 * n + 8 <= q
    BY <1>2, <1>7, <1>9, <2>1
  <2>3. pkt_addr \in Nat /\ q \in 1..255 /\ pkt_addr + (q + 4) <= TxBytes /\ TxBytes \in Nat
    BY <1>2
  <2>4. rd_p \in Nat /\ (num_words' > 0 => rd_p + 4 < TxBytes)
    BY ONLY <1>3, <1>7, <2>2, <2>3
  <2> QED
    BY <1>1, <1>2, <1>3, <1>7, <2>4, StepInside
<1>11. word.src = Bytes(taken + 1, 4 * n, 4 * n + 4)
  BY <1>2, <1>3, <1>6, <1>7, <1>9
<1>12. \A k \in 1..Len(new) : new[k].src = Bytes(taken + 1, 4 * k - 4, 4 * k)
  <2> SUFFICES ASSUME NEW k \in 1..Len(new)
               PROVE  new[k].src = Bytes(taken + 1, 4 * k - 4, 4 * k)
    OBVIOUS
  <2>1. CASE k = n + 1
    <3>1. 4 * k - 4 = 4 * n /\ 4 * k = 4 * n + 4
      BY <1>7, <2>1
    <3> QED
      BY <1>7, <1>11, <2>1, <3>1
  <2>2. CASE k # n + 1
    <3>1. k \in 1..n
      BY <1>7, <2>2
    <3> QED
      BY <1>3, <1>7, <3>1
  <2> QED
    BY <2>1, <2>2
<1> QED
  BY <1>1, <1>3, <1>8, <1>10, <1>12 DEF TakingInv, q, Building

LEMMA TakingMain ==
  ASSUME TypeInv, CounterInv, SectionInv, WordsInv, QueueInv, TakingInv, Main
  PROVE  TakingInv'
<1> USE DEF Goto
<1>1. CASE Outside
  BY <1>1, OutsideSection DEF TakingInv, Section, Building
<1>2. CASE Disable
  BY <1>2 DEF Disable, TakingInv, Building
<1>3. CASE SetPointer
  BY <1>3 DEF SetPointer, FrameAt, TakingInv, Building
<1>4. CASE Length
  BY <1>4, TakingLength
<1>5. CASE Header
  <2>1. /\ pc = "Header" /\ pc' = "Payload"
        /\ UNCHANGED <<mode, rd_p, pkt_addr, PDSU_length, taken, queued>>
        /\ mode = "queue" => frame'.pkt = taken + 1
    BY <1>5 DEF Header, dram, header
  <2> QED
    BY <2>1 DEF TakingInv, Building
<1>6. CASE Payload0
  <2>1. /\ pc = "Payload" /\ pc' = "Modulate"
        /\ UNCHANGED <<mode, rd_p, pkt_addr, PDSU_length, taken, queued>>
        /\ frame' = [frame EXCEPT !.sf = data_rate]
    BY <1>6 DEF Payload0, dram, header
  <2>2. frame'.pkt = frame.pkt /\ frame'.words = <<>>
    BY <2>1 DEF SectionInv, WordsInv, FrameOf, Building
  <2>3. pkt_addr \in Nat /\ Len(<<>>) = 0
    BY QueueTypes
  <2> QED
    BY <2>1, <2>2, <2>3 DEF TakingInv, Building
<1>7. CASE Modulate
  <2>1. UNCHANGED mode
    BY <1>7 DEF Modulate
  <2> QED
    BY <1>7, <2>1, TakingModulate DEF TakingInv
<1>8. CASE Enable
  BY <1>8 DEF Enable, TakingInv, Building
<1> QED
  BY <1>1, <1>2, <1>3, <1>4, <1>5, <1>6, <1>7, <1>8 DEF Main, Outside

\* What has been sent stays as it was queued.
LEMMA OrderHandler ==
  ASSUME TypeInv, SectionInv, QueueInOrder, CtrlIrq \/ LoadByte \/ OtherHandlers,
         ~addr_lost
  PROVE  QueueInOrder'
<1>1. UNCHANGED <<last, taken>>
  BY SectionHandler, HandlersQueue
<1>2. ASSUME NEW j \in DOMAIN queued
      PROVE  j \in DOMAIN queued' /\ queued'[j] = queued[j]
  <2>0. queued \in Seq(Lens)
    BY QueueTypes
  <2>1. CASE UNCHANGED queued
    BY <1>2, <2>1
  <2>2. CASE \E n \in Lens : queued' = Append(queued, n)
    BY <1>2, <2>0, <2>2
  <2>3. UNCHANGED queued \/ \E n \in Lens : queued' = Append(queued, n)
    BY DEF CtrlIrq, Command, TxTrigger, TxScramblerSeed, TxSpreadFactor, TxAuto,
       TxLoopback, TxFlood, TxAddr, MemWrAddr, TxPacket, MemLoad, LoadByte,
       OtherHandlers, history
  <2> QED
    BY <2>1, <2>2, <2>3
<1> QED
  BY <1>1, <1>2 DEF QueueInOrder

\* The frame that is sent is the packet that is taken.
LEMMA OrderMain ==
  ASSUME TypeInv, CounterInv, SectionInv, WordsInv, QueueInv, TakingInv, QueueInOrder,
         ~addr_lost, Main
  PROVE  QueueInOrder'
<1>1. CASE Enable
  <2>1. /\ pc = "Modulate" /\ last' = frame /\ UNCHANGED queued
        /\ mode = "queue" => taken' = taken + 1
    BY <1>1 DEF Enable, Goto
  <2>2. frame.mode = mode /\ frame.len = PDSU_length
    BY <2>1 DEF SectionInv, FrameOf, Building
  <2>3. SUFFICES ASSUME mode = "queue" PROVE QueueInOrder'
    BY <2>1, <2>2 DEF QueueInOrder
  <2>4. /\ PDSU_length = queued[taken + 1] /\ frame.pkt = taken + 1
        /\ \A k \in 1..Len(frame.words) :
             frame.words[k].src = Bytes(taken + 1, 4 * k - 4, 4 * k)
    BY <2>1, <2>3 DEF TakingInv, Building
  <2>5. taken + 1 \in DOMAIN queued
    <3>1. taken + 1 \in 1..Newest
      BY <2>1, <2>3, NextFrame DEF QueueSection
    <3> QED
      BY <3>1, QueueTypes DEF Newest
  <2>6. DOMAIN frame.words = 1..Len(frame.words)
    BY <2>1 DEF WordsInv
  <2> QED
    BY <2>1, <2>2, <2>3, <2>4, <2>5, <2>6 DEF QueueInOrder, Bytes
<1>2. CASE ~Enable
  <2>1. UNCHANGED <<last, taken, queued>>
    BY <1>2 DEF Main, TestSend, TestFlood, TestAuto, TestMany, TestOne, TestBusy, RxOff,
       Disable, SetPointer, Length, Header, Payload0, Modulate, MaskLoad, MaskStore,
       SeedLoad, SeedStore, RxOn, PendLoad, PendStore, FloodTest, FloodLoad, FloodStore,
       Clear, Test, Load, history
  <2> QED
    BY <2>1 DEF QueueInOrder
<1> QED
  BY <1>1, <1>2

\* The queue is in order until a TX_ADDR is lost.
OrderInv == ~addr_lost => QueueInv /\ TakingInv /\ QueueInOrder

\* What is lost stays lost.
LEMMA LostForGood ==
  ASSUME [Next]_vars, addr_lost
  PROVE  addr_lost'
<1>1. CASE \E a \in {0, 4} : TxAddr(a)
  BY <1>1 DEF TxAddr
<1>2. CASE UNCHANGED vars
  BY <1>2 DEF vars, history
<1>3. CASE (CtrlIrq /\ ~ \E a \in {0, 4} : TxAddr(a)) \/ LoadByte \/ OtherHandlers
  BY <1>3 DEF CtrlIrq, TxTrigger, TxScramblerSeed, TxSpreadFactor, TxAuto, TxLoopback,
     TxFlood, MemWrAddr, TxPacket, MemLoad, LoadByte, OtherHandlers, notes, history
<1>4. CASE Main
  BY <1>4 DEF Main, TestSend, TestFlood, TestAuto, TestMany, TestOne, TestBusy, RxOff,
     Disable, SetPointer, Length, Header, Payload0, Modulate, Enable, MaskLoad,
     MaskStore, SeedLoad, SeedStore, RxOn, PendLoad, PendStore, FloodTest, FloodLoad,
     FloodStore, Clear, Test, Load, notes, history
<1> QED
  BY <1>1, <1>2, <1>3, <1>4 DEF Next

\* Packets leave in the order in which they were queued, each with the bytes
\* the host loaded for it, for every size of the ring and of the packets,
\* however often they go round it, wherever the host moves the empty ring and
\* whatever it does in between; until the main loop undoes a TX_ADDR.
THEOREM QueueIsSentInOrder == Spec => []QueueInOrder
<1> DEFINE IInv == TypeInv /\ CounterInv /\ SectionInv /\ WordsInv /\ OrderInv
<1>1. Init => IInv
  <2>1. Init => SectionInv /\ WordsInv /\ TakingInv /\ QueueInOrder
    <3>1. Init => SectionInv /\ WordsInv
      BY DEF Init, SectionInv, WordsInv, Section, Building
    <3>2. Init => TakingInv /\ last.mode # "queue"
      BY DEF Init, TakingInv, NoFrame, Building
    <3> QED
      BY <3>1, <3>2 DEF QueueInOrder
  <2> QED
    BY <2>1, TypeInit, CounterInit, QueueInit DEF OrderInv
<1>2. IInv /\ [Next]_vars => IInv'
  <2> SUFFICES ASSUME IInv, [Next]_vars PROVE IInv'
    OBVIOUS
  <2>1. TypeInv' /\ CounterInv'
    BY TypeStep, CounterStep
  <2>2. SectionInv' /\ WordsInv'
    <3>1. CASE UNCHANGED vars
      BY <3>1 DEF vars, cpu, header, dram, history, SectionInv, WordsInv, FrameOf
    <3>2. CASE Main
      BY <3>2, SectionMain, WordsMain
    <3>3. CASE CtrlIrq \/ LoadByte \/ OtherHandlers
      BY <3>3, SectionHandler, WordsHandler
    <3> QED
      BY <3>1, <3>2, <3>3 DEF Next
  <2>3. ASSUME ~addr_lost' PROVE QueueInv' /\ TakingInv' /\ QueueInOrder'
    <3>1. ~addr_lost /\ QueueInv /\ TakingInv /\ QueueInOrder
      BY <2>3, LostForGood DEF OrderInv
    <3>2. CASE UNCHANGED vars
      <4>1. TakingInv' /\ QueueInOrder'
        BY <3>1, <3>2 DEF vars, cpu, header, dram, history, TakingInv, QueueInOrder
      <4>2. QueueInv'
        BY <3>1, <3>2, QueueSame DEF vars, cpu, loader, dram, history
      <4> QED
        BY <4>1, <4>2
    <3>3. CASE Main
      BY <3>1, <3>3, QueueMain, TakingMain, OrderMain
    <3>4. CASE CtrlIrq \/ LoadByte \/ OtherHandlers
      BY <2>3, <3>1, <3>4, QueueHandler, TakingHandler, OrderHandler
    <3> QED
      BY <3>2, <3>3, <3>4 DEF Next
  <2> QED
    BY <2>1, <2>2, <2>3 DEF OrderInv
<1>3. IInv => QueueInOrder
  BY DEF OrderInv, QueueInOrder
<1> QED
  BY <1>1, <1>2, <1>3, PTL DEF Spec
=============================================================================
