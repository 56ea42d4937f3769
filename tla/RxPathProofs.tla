---------------------------- MODULE RxPathProofs ----------------------------
(***************************************************************************)
(* Proofs about the receive path: what its state consists of, whatever is  *)
(* received and whatever the host asks; that its ring is a queue of whole  *)
(* packets on the writer's first round; and that a packet is then dumped   *)
(* as it was received.                                                     *)
(***************************************************************************)
EXTENDS RxPath, SequenceTheorems, WellFoundedInduction, TLAPS

Keys  == [seed : {0, 1}, pos : Int]
Cells == [kind : {"junk", "marker", "header", "data"}, n : {-1} \cup Nat,
          pkt : Nat, key : Keys]

\* A packet fits into the ring.
Arrived == {p \in [len : 0..255, size : Nat, ok : BOOLEAN, seed : {0, 1}] :
              4 * (p.size + 1) <= RingBytes}
FifoWords == [pkt : Nat, i : Nat]

\* Words taken from the FIFO of the packet being received.
Taken == pushed - Len(fifo)

\* The receiver: the FIFO holds the last words of the packet being received,
\* and between packets it is empty.
AirInv ==
  /\ air \in Seq(Arrived)
  /\ pushed \in Nat /\ fifo \in Seq(FifoWords)
  /\ Taken \in Nat
  /\ \A j \in 1..Len(fifo) : fifo[j] = [pkt |-> Len(air), i |-> Taken + j - 1]
  /\ fifo # <<>> => Receiving
  /\ pkt_ready \in BOOLEAN
  /\ pkt_ready => Receiving /\ pushed = air[Len(air)].size
  /\ almost_full \in BOOLEAN

\* The writer: it is in the middle of a packet from the first word taken of
\* it to its end, and writes in the receive half.
Ring == {a \in MEM_RX_BUF..(MEM_SIZE - 4) : a % 4 = 0}

WriterInv ==
  /\ rx_state = IF Receiving /\ Taken > 0 THEN "reading" ELSE "init"
  /\ wr_bytes \in Nat /\ (wr_bytes = 0 <=> rx_state = "init")
  /\ wr_buf_addr \in Ring /\ wr_packet_addr \in {0} \cup Ring

\* The ring: markers count bytes, or are -1 until they do, and headers are
\* of packets that were received.
OfReceived(cell) == cell.kind \in {"header", "data"} => cell.pkt \in 1..Len(air)

CellsInv ==
  /\ mem \in [Words -> Cells]
  /\ \A w \in Words : OfReceived(mem[w])

\* The reader: until an RX_NEXT comes too late, it counts no packet that is
\* not there.
CountInv ==
  /\ packet_ready \in Nat
  /\ packet_ready + (IF Receiving THEN 1 ELSE 0) <= Len(air)
  /\ found => packet_ready > 0

ReaderInv ==
  /\ rd_buf_addr \in Nat /\ rd_packet_addr \in Nat
  /\ rd_packet_marker \in {-1} \cup Nat
  /\ packet_ready \in Int /\ found \in BOOLEAN /\ stale \in BOOLEAN
  /\ stale \/ CountInv
  /\ dumping_mem \in Nat /\ dump_hbc_rx \in BOOLEAN

LoopInv ==
  /\ pc \in {"TestFlood", "TestAuto", "TestBusy", "Argument", "HbcToSpi"}
  /\ forward \in BOOLEAN /\ rx_auto \in {0, 1} /\ rx_flood \in {0, 1}

RxInv == AirInv /\ WriterInv /\ CellsInv /\ ReaderInv /\ LoopInv

-----------------------------------------------------------------------------
(* Addresses.                                                              *)

LEMMA Sizes ==
  /\ MEM_RX_BUF = RingBytes /\ MEM_SIZE = 2 * RingBytes
  /\ RingBytes \in Nat /\ RingBytes > 0 /\ RingBytes % 4 = 0
BY RxAssumption DEF MEM_RX_BUF, MEM_SIZE

\* An address of the DRAM names one of its words.
LEMMA WordInWords ==
  ASSUME NEW a \in Nat
  PROVE  Word(a) \in Words
<1> DEFINE q == RingBytes \div 4
<1>1. q \in Nat /\ RingBytes = 4 * q /\ q > 0
  BY RxAssumption
<1> HIDE DEF q
<1>2. a % (2 * RingBytes) \in 0..(8 * q - 1)
  BY <1>1
<1> QED
  BY <1>1, <1>2 DEF Word, Words, MEM_SIZE

\* The pointers stay addresses.
LEMMA PointersStep ==
  ASSUME NEW a \in Nat
  PROVE  /\ Step(a) \in Nat /\ Inc(a) \in Nat
         /\ \A n \in Nat : IncBy(a, n) \in Nat
<1>1. a + 4 < RingBytes => (a + 4) % RingBytes = a + 4
  BY RxAssumption
<1>2. Step(a) \in Nat
  BY <1>1, RxAssumption DEF Step
<1>3. Inc(a) \in Nat
  BY RxAssumption DEF Inc, MEM_RX_BUF
<1>4. ASSUME NEW n \in Nat PROVE IncBy(a, n) \in Nat
  BY RxAssumption DEF IncBy, MEM_SIZE
<1> QED
  BY <1>2, <1>3, <1>4

-----------------------------------------------------------------------------
(* Taking the FIFO's words.                                                *)

LEMMA NonEmpty ==
  ASSUME NEW S, NEW s \in Seq(S), s # <<>>
  PROVE  Len(s) \in Nat \ {0} /\ 1 \in 1..Len(s) /\ Len(s) \in 1..Len(s)
OBVIOUS

\* A word in the FIFO is one of the packet received last.
LEMMA FifoOfLast ==
  ASSUME AirInv, fifo # <<>>
  PROVE  /\ air # <<>> /\ Len(air) \in 1..Len(air) /\ Len(fifo) \in Nat \ {0}
         /\ fifo[1] = [pkt |-> Len(air), i |-> Taken]
<1>1. Len(fifo) \in Nat \ {0}
  BY NonEmpty DEF AirInv
<1>2. air # <<>> /\ air \in Seq(Arrived) /\ Taken \in Nat
  BY DEF AirInv, Receiving
<1>3. Len(air) \in 1..Len(air)
  BY ONLY <1>2, NonEmpty
<1>4. fifo[1] = [pkt |-> Len(air), i |-> Taken + 1 - 1]
  BY <1>1 DEF AirInv
<1> QED
  BY <1>1, <1>2, <1>3, <1>4

\* The keystream starts before the payload, or goes on.
LEMMA KeystreamTyped ==
  ASSUME AirInv, scr \in Keys, NEW starts \in BOOLEAN, starts => fifo # <<>>
  PROVE  Keystream(starts) \in Keys
<1>1. CASE starts
  <2>1. fifo[1].pkt = Len(air) /\ Len(air) \in 1..Len(air)
    BY <1>1, FifoOfLast
  <2>2. air[Len(air)] \in Arrived
    BY <2>1 DEF AirInv
  <2>3. air[Len(air)].seed \in {0, 1}
    BY <2>2 DEF Arrived
  <2> QED
    BY <1>1, <2>1, <2>3 DEF Keystream, Keys
<1>2. CASE ~starts
  BY <1>2 DEF Keystream
<1> QED
  BY <1>1, <1>2

\* What a handler writes: a marker and the header if a packet starts, and the
\* payload words with their keys.
Starts == rx_state = "init" /\ fifo # <<>>
Shift  == IF Starts THEN 1 ELSE 0

\* Word j of what is written.
Written(j) ==
  IF Starts /\ j = 1 THEN Marker(-1)
  ELSE IF Starts /\ j = 2 THEN Header(Len(air))
  ELSE Data(Len(air), Taken + j - Shift - 1,
            Later(Keystream(Starts), j - Shift - 1))

LEMMA TwoFirst ==
  ASSUME NEW S, NEW two \in Seq(S), NEW rest \in Seq(S), Len(two) = 2
  PROVE  /\ two \o rest \in Seq(S) /\ Len(two \o rest) = 2 + Len(rest)
         /\ (two \o rest)[1] = two[1] /\ (two \o rest)[2] = two[2]
         /\ \A j \in 3..Len(two \o rest) : (two \o rest)[j] = rest[j - 2]
<1>1. Len(rest) \in Nat
  BY LenProperties
<1> DEFINE s == two \o rest
<1>2. /\ s \in Seq(S) /\ Len(s) = 2 + Len(rest)
      /\ \A i \in 1..(2 + Len(rest)) : s[i] = IF i <= 2 THEN two[i] ELSE rest[i - 2]
  <2>1. /\ two \o rest \in Seq(S) /\ Len(two \o rest) = Len(two) + Len(rest)
        /\ \A i \in 1..Len(two) + Len(rest) :
              (two \o rest)[i] = IF i <= Len(two) THEN two[i] ELSE rest[i - Len(two)]
    BY ONLY ConcatProperties, Zenon, two \in Seq(S), rest \in Seq(S)
  <2> QED
    BY ONLY <2>1, Zenon, Len(two) = 2
<1> HIDE DEF s
<1>3. /\ s[1] = two[1] /\ s[2] = two[2]
      /\ \A j \in 3..Len(s) : s[j] = rest[j - 2]
  BY ONLY <1>1, <1>2
<1> QED
  BY ONLY <1>2, <1>3 DEF s

\* The word that is written into word w of the ring.
Index(w) == ((4 * w - wr_buf_addr) % RingBytes) \div 4 + 1

LEMMA DrainedWords ==
  ASSUME AirInv
  PROVE  /\ \A w \in Words :
              \/ Drained.mem[w] = mem[w]
              \/ \E j \in 1..(Len(fifo) + Shift) : Drained.mem[w] = Written(j)
         /\ \A w \in Words :
              Drained.mem[w] = IF /\ 4 * w >= MEM_RX_BUF
                                 /\ Index(w) \in 1..(Len(fifo) + Shift)
                              THEN Written(Index(w)) ELSE mem[w]
         /\ Drained.at = IncBy(wr_buf_addr, Len(fifo) + Shift)
         /\ Drained.start = IF Starts THEN wr_buf_addr ELSE wr_packet_addr
         /\ Drained.bytes = wr_bytes + 4 * (Len(fifo) + Shift)
         /\ Drained.state = IF Starts THEN "reading" ELSE rx_state
         /\ Drained.scr = Later(Keystream(Starts), Len(fifo))
         /\ Drained.mem = [w \in Words |-> Drained.mem[w]]
<1> DEFINE keys == Keystream(Starts)
           payload(j) == Data(fifo[j].pkt, fifo[j].i, Later(keys, j - 1))
           words == IF Starts
                    THEN <<Marker(-1), Header(fifo[1].pkt)>> \o
                         [j \in 1..(Len(fifo) - 1) |-> payload(j + 1)]
                    ELSE [j \in 1..Len(fifo) |-> payload(j)]
           new == [w \in Words |->
                    IF 4 * w >= MEM_RX_BUF /\ Index(w) \in DOMAIN words
                    THEN words[Index(w)] ELSE mem[w]]
<1>1. Drained = [mem |-> new, at |-> IncBy(wr_buf_addr, Len(words)),
                 start |-> IF Starts THEN wr_buf_addr ELSE wr_packet_addr,
                 bytes |-> wr_bytes + 4 * Len(words),
                 state |-> IF Starts THEN "reading" ELSE rx_state,
                 scr |-> Later(keys, Len(fifo))]
  BY Zenon DEF Drained, Starts, Index
<1>2. Len(fifo) \in Nat
  BY DEF AirInv
<1> HIDE DEF keys
<1>3. \A j \in 1..Len(fifo) :
         payload(j) = Data(Len(air), Taken + j - 1, Later(keys, j - 1))
  <2> SUFFICES ASSUME NEW j \in 1..Len(fifo)
               PROVE  payload(j) = Data(Len(air), Taken + j - 1, Later(keys, j - 1))
    OBVIOUS
  <2>1. fifo[j] = [pkt |-> Len(air), i |-> Taken + j - 1]
    BY DEF AirInv
  <2> QED
    BY <2>1
<1>4. Taken \in Int
  BY DEF AirInv
<1> HIDE DEF payload
<1>5. /\ words \in Seq({words[j] : j \in DOMAIN words})
      /\ Len(words) = Len(fifo) + Shift
      /\ \A j \in 1..Len(words) : words[j] = Written(j)
  <2>1. CASE Starts
    <3>1. Len(fifo) \in Nat \ {0} /\ fifo[1].pkt = Len(air)
      BY <2>1, FifoOfLast DEF Starts
    <3> DEFINE rest == [j \in 1..(Len(fifo) - 1) |-> payload(j + 1)]
               two == <<Marker(-1), Header(Len(air))>>
               S == {Marker(-1), Header(Len(air))} \cup {payload(j) : j \in 1..Len(fifo)}
    <3>2. words = two \o rest
      BY <2>1, <3>1
    <3>3. /\ rest \in Seq(S) /\ Len(rest) = Len(fifo) - 1
          /\ \A j \in 1..(Len(fifo) - 1) : rest[j] = payload(j + 1)
      BY <3>1
    <3>4. /\ two \in Seq(S) /\ Len(two) = 2
          /\ two[1] = Marker(-1) /\ two[2] = Header(Len(air))
      OBVIOUS
    <3> HIDE DEF rest, two, S, words
    <3>5. /\ words \in Seq(S) /\ Len(words) = Len(fifo) + 1
          /\ words[1] = Marker(-1) /\ words[2] = Header(Len(air))
          /\ \A j \in 3..Len(words) : words[j] = rest[j - 2]
      <4>1. words = two \o rest /\ Len(words) = 2 + Len(rest)
        BY <3>2, <3>3, <3>4, TwoFirst
      <4> QED
        BY ONLY <3>1, <3>3, <3>4, <4>1, TwoFirst
    <3>6. \A j \in 3..Len(words) :
            words[j] = Data(Len(air), Taken + j - 2, Later(keys, j - 2))
      <4> SUFFICES ASSUME NEW j \in 3..Len(words)
                   PROVE  words[j] = Data(Len(air), Taken + j - 2, Later(keys, j - 2))
        OBVIOUS
      <4>1. j - 2 \in 1..(Len(fifo) - 1) /\ j - 1 \in 1..Len(fifo)
            /\ (j - 2) + 1 = j - 1 /\ Taken + (j - 1) - 1 = Taken + j - 2
            /\ (j - 1) - 1 = j - 2
        BY <3>1, <3>5, <1>4
      <4>2. words[j] = payload(j - 1)
        BY <3>3, <3>5, <4>1
      <4> QED
        BY <1>3, <4>1, <4>2
    <3>7. \A j \in 1..Len(words) : words[j] = Written(j)
      <4> SUFFICES ASSUME NEW j \in 1..Len(words) PROVE words[j] = Written(j)
        OBVIOUS
      <4>1. CASE j = 1
        BY <2>1, <3>5, <4>1 DEF Written
      <4>2. CASE j = 2
        BY <2>1, <3>5, <4>2 DEF Written
      <4>3. CASE j # 1 /\ j # 2
        <5>1. j \in 3..Len(words) /\ Shift = 1
              /\ Taken + j - 1 - 1 = Taken + j - 2 /\ j - 1 - 1 = j - 2
          BY <2>1, <3>1, <3>5, <4>3, <1>4 DEF Shift
        <5> QED
          BY <2>1, <3>6, <4>3, <5>1 DEF Written, keys
      <4> QED
        BY <4>1, <4>2, <4>3
    <3>8. Shift = 1
      BY <2>1 DEF Shift
    <3> QED
      BY <3>5, <3>7, <3>8, <1>2
  <2>2. CASE ~Starts
    <3>1. words = [j \in 1..Len(fifo) |-> payload(j)] /\ Shift = 0
      BY <2>2 DEF Shift
    <3> HIDE DEF words
    <3>2. /\ Len(words) = Len(fifo)
          /\ \A j \in 1..Len(fifo) : words[j] = payload(j)
      BY <1>2, <3>1
    <3>3. \A j \in 1..Len(words) : words[j] = Written(j)
      <4> SUFFICES ASSUME NEW j \in 1..Len(words) PROVE words[j] = Written(j)
        OBVIOUS
      <4>1. Taken + j - Shift - 1 = Taken + j - 1 /\ j - Shift - 1 = j - 1
        BY <3>1, <3>2, <1>2, <1>4
      <4> QED
        BY <2>2, <1>3, <3>2, <4>1 DEF Written, keys
    <3>4. words \in Seq({words[j] : j \in DOMAIN words})
      BY <3>1, <1>2
    <3> QED
      BY <3>1, <3>2, <3>3, <3>4, <1>2
  <2> QED
    BY <2>1, <2>2
<1> HIDE DEF words
<1>6. DOMAIN words = 1..Len(words)
  BY <1>5
<1>7. \A w \in Words :
        /\ new[w] = mem[w] \/ \E j \in 1..(Len(fifo) + Shift) : new[w] = Written(j)
        /\ new[w] = IF 4 * w >= MEM_RX_BUF /\ Index(w) \in 1..(Len(fifo) + Shift)
                    THEN Written(Index(w)) ELSE mem[w]
  BY <1>5, <1>6
<1>8. new = [w \in Words |-> new[w]]
  OBVIOUS
<1> HIDE DEF new
<1>9. /\ Drained.mem = new /\ Drained.at = IncBy(wr_buf_addr, Len(words))
      /\ Drained.start = IF Starts THEN wr_buf_addr ELSE wr_packet_addr
      /\ Drained.bytes = wr_bytes + 4 * Len(words)
      /\ Drained.state = IF Starts THEN "reading" ELSE rx_state
      /\ Drained.scr = Later(keys, Len(fifo))
  BY ONLY <1>1
<1> QED
  BY <1>5, <1>7, <1>8, <1>9 DEF keys

\* Every word a handler writes is one of the packet received last.
LEMMA DrainedCells ==
  ASSUME AirInv, CellsInv, scr \in Keys
  PROVE  /\ Drained.mem \in [Words -> Cells]
         /\ \A w \in Words : OfReceived(Drained.mem[w])
         /\ Drained.scr \in Keys
<1>1. Keystream(Starts) \in Keys
  BY KeystreamTyped DEF Starts
<1>2. \A n \in Int : Later(Keystream(Starts), n) \in Keys
  BY <1>1 DEF Later, Keys
<1>3. Len(fifo) \in Nat /\ Taken \in Nat /\ Len(air) \in Nat /\ Shift \in {0, 1}
      /\ (fifo # <<>> => Len(air) \in 1..Len(air))
      /\ (fifo = <<>> => Len(fifo) + Shift = 0)
  BY FifoOfLast DEF AirInv, Shift, Starts
<1>4. ASSUME NEW j \in 1..(Len(fifo) + Shift)
      PROVE  Written(j) \in Cells /\ OfReceived(Written(j))
  <2>1. Len(air) \in 1..Len(air) /\ j - Shift - 1 \in Int
        /\ Taken + j - Shift - 1 \in {-1} \cup Nat
    BY <1>3
  <2>2. Later(Keystream(Starts), j - Shift - 1) \in Keys
    BY <1>2, <2>1
  <2>3. Plain \in Keys
    BY DEF Plain, Keys
  <2> HIDE DEF Cells, Keys
  <2>4. \A n \in {-1} \cup Nat, k \in Keys :
           /\ Data(Len(air), n, k) \in Cells /\ OfReceived(Data(Len(air), n, k))
           /\ Marker(-1) \in Cells /\ OfReceived(Marker(-1))
           /\ Header(Len(air)) \in Cells /\ OfReceived(Header(Len(air)))
    BY <1>3, <2>1, <2>3 DEF Cells, Data, Marker, Header, OfReceived
  <2> QED
    BY <1>3, <2>1, <2>2, <2>4 DEF Written
<1>5. \A w \in Words : Drained.mem[w] \in Cells /\ OfReceived(Drained.mem[w])
  BY <1>4, DrainedWords DEF CellsInv
<1>6. Drained.mem \in [Words -> Cells]
  BY <1>5, DrainedWords
<1>7. Drained.scr \in Keys
  BY <1>2, <1>3, DrainedWords
<1> QED
  BY <1>5, <1>6, <1>7

\* The write pointer stays in the receive half, a multiple of 4, however many
\* words of a packet the ring holds are written at once.
LEMMA WriterStep ==
  ASSUME NEW a \in Ring, NEW n \in Nat, 4 * n <= RingBytes
  PROVE  IncBy(a, n) \in Ring
<1> DEFINE q == RingBytes \div 4
<1>1. q \in Nat /\ q > 0 /\ RingBytes = 4 * q
  BY RxAssumption
<1> HIDE DEF q
<1>2. PICK b \in Nat : a = 4 * b
  <2>1. a \in Nat /\ a % 4 = 0
    BY RxAssumption DEF Ring, MEM_RX_BUF, MEM_SIZE
  <2>2. a = 4 * (a \div 4) /\ a \div 4 \in Nat
    BY <2>1
  <2> QED
    BY <2>2
<1>3. b \in q..(2 * q - 1) /\ n <= q
  BY <1>1, <1>2 DEF Ring, MEM_RX_BUF, MEM_SIZE
<1> DEFINE c == IF b + n >= 2 * q THEN b + n - q ELSE b + n
<1>4. IncBy(a, n) = 4 * c /\ c \in q..(2 * q - 1)
  BY <1>1, <1>2, <1>3 DEF IncBy, MEM_SIZE
<1> HIDE DEF c
<1>5. 4 * c \in Ring
  BY <1>1, <1>4 DEF Ring, MEM_RX_BUF, MEM_SIZE
<1> QED
  BY <1>4, <1>5

\* What a handler takes from the FIFO, with the marker, fits into the ring.
LEMMA DrainedFits ==
  ASSUME AirInv, WriterInv
  PROVE  /\ Len(fifo) + Shift \in Nat /\ Drained.at \in Ring
         /\ Drained.start \in {0} \cup Ring
<1>1. Len(fifo) + Shift \in Nat /\ 4 * (Len(fifo) + Shift) <= RingBytes
  <2>1. CASE fifo = <<>>
    BY <2>1, RxAssumption DEF Shift, Starts
  <2>2. CASE fifo # <<>>
    <3>1. Len(air) \in 1..Len(air) /\ Receiving /\ Len(fifo) \in Nat
      BY <2>2, FifoOfLast DEF AirInv
    <3>2. air[Len(air)] \in Arrived
      BY <3>1 DEF AirInv
    <3>3. air[Len(air)].size \in Nat /\ 4 * (air[Len(air)].size + 1) <= RingBytes
      BY <3>2 DEF Arrived
    <3>4. Len(fifo) <= air[Len(air)].size /\ Shift \in {0, 1}
      BY <3>1, <3>3 DEF AirInv, Receiving, Taken, Shift
    <3> QED
      BY <3>1, <3>3, <3>4, RxAssumption
  <2> QED
    BY <2>1, <2>2
<1>2. Drained.at \in Ring
  BY <1>1, DrainedWords, WriterStep DEF WriterInv
<1> QED
  BY <1>1, <1>2, DrainedWords DEF WriterInv

-----------------------------------------------------------------------------
(* The receiver's steps.                                                   *)

LEMMA LastOf ==
  ASSUME NEW S, NEW s \in Seq(S), NEW x \in S
  PROVE  /\ Append(s, x) \in Seq(S) /\ Append(s, x) # <<>>
         /\ Len(Append(s, x)) = Len(s) + 1 /\ Append(s, x)[Len(s) + 1] = x
         /\ Len(s) \in Nat
         /\ \A j \in 1..Len(s) : Append(s, x)[j] = s[j]
BY AppendProperties, LenProperties

\* What comes in leaves the reader alone, and a packet is counted when it is
\* there.
LEMMA ReaderKept ==
  ASSUME RxInv, UNCHANGED <<ring, dump, found, stale>>,
         packet_ready' \in {packet_ready, packet_ready + 1},
         ASSUME CountInv
         PROVE  packet_ready' + (IF Receiving' THEN 1 ELSE 0) <= Len(air')
  PROVE  ReaderInv'
<1>1. /\ packet_ready \in Int /\ found \in BOOLEAN /\ stale \in BOOLEAN
      /\ stale \/ CountInv
  BY DEF RxInv, ReaderInv
<1>2. packet_ready' \in Int
  BY <1>1
<1>3. stale' \/ CountInv'
  <2>1. CASE stale
    BY <2>1
  <2>2. CASE CountInv
    <3>1. packet_ready' + (IF Receiving' THEN 1 ELSE 0) <= Len(air')
      BY <2>2
    <3>2. packet_ready \in Nat /\ (found => packet_ready > 0)
      BY <2>2 DEF CountInv
    <3>3. packet_ready' \in Nat /\ (found' => packet_ready' > 0)
      BY <3>2
    <3> QED
      BY <3>1, <3>3 DEF CountInv
  <2> QED
    BY <1>1, <2>1, <2>2
<1>4. found' \in BOOLEAN /\ stale' \in BOOLEAN
  BY <1>1
<1>5. /\ rd_buf_addr' \in Nat /\ rd_packet_addr' \in Nat
      /\ rd_packet_marker' \in {-1} \cup Nat
      /\ dumping_mem' \in Nat /\ dump_hbc_rx' \in BOOLEAN
  BY DEF RxInv, ReaderInv, ring, dump
<1> QED
  BY <1>2, <1>3, <1>4, <1>5 DEF ReaderInv

LEMMA PacketArrives ==
  ASSUME RxInv, NEW p \in Packets, AirStart(p)
  PROVE  RxInv'
<1>1. /\ ~Receiving /\ air' = Append(air, p) /\ pushed' = 0 /\ fifo' = fifo
      /\ pkt_ready' = pkt_ready /\ almost_full' = almost_full
  BY DEF AirStart
<1>2. UNCHANGED <<mem, ring, writer, packet_ready, loop, rx_auto, rx_flood, dump,
                    found, stale>>
  BY DEF AirStart, host
<1>3. p \in Arrived
  BY RxAssumption DEF Arrived
<1>4. /\ air \in Seq(Arrived) /\ fifo = <<>> /\ pkt_ready = FALSE
      /\ almost_full \in BOOLEAN /\ pushed \in Nat
  BY <1>1 DEF RxInv, AirInv
<1>5. /\ air' \in Seq(Arrived) /\ air' # <<>> /\ Len(air) \in Nat
      /\ Len(air') = Len(air) + 1 /\ air'[Len(air')] = p
  BY <1>1, <1>3, <1>4, LastOf
<1>6. Receiving' /\ Taken' = 0
  <2>1. Len(fifo') = 0
    BY <1>1, <1>4
  <2>2. p.size \in Nat
    BY <1>3 DEF Arrived
  <2>3. air'[Len(air')].size = p.size /\ pushed' = 0 /\ air' # <<>>
    BY ONLY <1>1, <1>5
  <2>4. Receiving'
    BY ONLY <2>2, <2>3 DEF Receiving
  <2> QED
    BY ONLY <2>1, <2>3, <2>4 DEF Taken
<1>7. AirInv'
  <2>1. fifo' = <<>> /\ Len(fifo') = 0 /\ fifo' \in Seq(FifoWords)
    BY <1>1, <1>4
  <2>2. pushed' \in Nat /\ almost_full' \in BOOLEAN /\ pkt_ready' = FALSE
        /\ Taken' \in Nat
    BY ONLY <1>1, <1>4, <1>6
  <2>3. \A j \in 1..Len(fifo') : fifo'[j] = [pkt |-> Len(air'), i |-> Taken' + j - 1]
    BY ONLY <2>1
  <2> HIDE DEF Taken, Arrived, FifoWords
  <2> QED
    BY ONLY <1>5, <1>6, <2>1, <2>2, <2>3 DEF AirInv
<1>8. WriterInv'
  BY <1>1, <1>2, <1>6 DEF RxInv, WriterInv, writer
<1>9. CellsInv'
  BY <1>2, <1>5 DEF RxInv, CellsInv, OfReceived
<1>10. ReaderInv'
  <2>1. /\ UNCHANGED <<ring, dump, found, stale>>
        /\ packet_ready' \in {packet_ready, packet_ready + 1}
    BY <1>1, <1>5, <1>6, <1>2
  <2>2. ASSUME CountInv
      PROVE  packet_ready' + (IF Receiving' THEN 1 ELSE 0) <= Len(air')
    BY <1>1, <1>5, <1>6, <1>2, <2>2 DEF CountInv
  <2> QED
    BY <2>1, <2>2, ReaderKept
<1> QED
  BY <1>2, <1>7, <1>8, <1>9, <1>10 DEF RxInv, LoopInv, loop

\* One more word of the packet, after those already in the FIFO.
LEMMA WordArrives ==
  ASSUME RxInv, AirWord
  PROVE  RxInv' /\ Taken' = Taken
<1>1. /\ Receiving /\ pushed < air[Len(air)].size
      /\ fifo' = Append(fifo, [pkt |-> Len(air), i |-> pushed])
      /\ pushed' = pushed + 1
      /\ almost_full' = (almost_full \/ Len(fifo') >= AlmostFull)
      /\ UNCHANGED <<air, pkt_ready>>
  BY DEF AirWord
<1>2. UNCHANGED <<mem, ring, writer, packet_ready, loop, rx_auto, rx_flood, dump,
                    found, stale>>
  BY DEF AirWord, host
<1> DEFINE word == [pkt |-> Len(air), i |-> pushed]
<1>3. /\ air \in Seq(Arrived) /\ Len(air) \in 1..Len(air) /\ pushed \in Nat
      /\ fifo \in Seq(FifoWords) /\ Taken \in Nat /\ almost_full \in BOOLEAN
      /\ pkt_ready \in BOOLEAN
      /\ \A j \in 1..Len(fifo) : fifo[j] = [pkt |-> Len(air), i |-> Taken + j - 1]
  BY <1>1, NonEmpty DEF RxInv, AirInv, Receiving
<1>4. word \in FifoWords
  BY <1>3 DEF FifoWords
<1>5. air[Len(air)].size \in Nat
  BY <1>3 DEF Arrived
<1> HIDE DEF word
<1>6. /\ fifo' \in Seq(FifoWords) /\ Len(fifo') = Len(fifo) + 1 /\ Len(fifo) \in Nat
      /\ fifo'[Len(fifo) + 1] = word
      /\ \A j \in 1..Len(fifo) : fifo'[j] = fifo[j]
  BY <1>1, <1>3, <1>4, LastOf DEF word
<1>7. Receiving' /\ Taken' = Taken /\ pushed = Taken + Len(fifo)
  BY <1>1, <1>3, <1>5, <1>6 DEF Receiving, Taken
<1>8. ASSUME NEW j \in 1..Len(fifo')
      PROVE  fifo'[j] = [pkt |-> Len(air'), i |-> Taken' + j - 1]
  <2>1. CASE j = Len(fifo) + 1
    <3>1. pushed = Taken' + j - 1
      BY <1>3, <1>6, <1>7, <2>1
    <3> QED
      BY <1>1, <1>6, <2>1, <3>1 DEF word
  <2>2. CASE j # Len(fifo) + 1
    <3>1. j \in 1..Len(fifo)
      BY <1>6, <2>2
    <3> QED
      BY <1>1, <1>3, <1>6, <1>7, <3>1
  <2> QED
    BY <2>1, <2>2
<1>9. AirInv'
  <2>1. pushed' \in Nat /\ almost_full' \in BOOLEAN
    BY <1>1, <1>3
  <2>2. ~pkt_ready
    BY <1>1, <1>3, <1>5 DEF RxInv, AirInv
  <2> QED
    BY <1>1, <1>3, <1>6, <1>7, <1>8, <2>1, <2>2 DEF AirInv
<1>10. WriterInv'
  BY <1>1, <1>2, <1>7 DEF RxInv, WriterInv, writer
<1>11. CellsInv'
  BY <1>1, <1>2 DEF RxInv, CellsInv, OfReceived
<1>12. ReaderInv'
  <2>1. /\ UNCHANGED <<ring, dump, found, stale>>
        /\ packet_ready' \in {packet_ready, packet_ready + 1}
    BY <1>1, <1>7, <1>2
  <2>2. ASSUME CountInv
      PROVE  packet_ready' + (IF Receiving' THEN 1 ELSE 0) <= Len(air')
    BY <1>1, <1>7, <1>2, <2>2 DEF CountInv
  <2> QED
    BY <2>1, <2>2, ReaderKept
<1> QED
  BY <1>2, <1>7, <1>9, <1>10, <1>11, <1>12 DEF RxInv, LoopInv, loop

LEMMA PacketEnds ==
  ASSUME RxInv, AirEnd
  PROVE  RxInv'
<1>1. /\ Receiving /\ pushed = air[Len(air)].size /\ pkt_ready' = TRUE
      /\ UNCHANGED <<fifo, pushed, almost_full, air>>
  BY DEF AirEnd
<1>2. UNCHANGED <<mem, ring, writer, packet_ready, loop, rx_auto, rx_flood, dump,
                    found, stale>>
  BY DEF AirEnd, host
<1>3. Receiving' /\ Taken' = Taken
  BY <1>1 DEF Receiving, Taken
<1>4. AirInv'
  BY <1>1, <1>3 DEF RxInv, AirInv
<1>5. WriterInv'
  BY <1>1, <1>2, <1>3 DEF RxInv, WriterInv, writer
<1>6. CellsInv'
  BY <1>1, <1>2 DEF RxInv, CellsInv, OfReceived
<1>7. ReaderInv'
  <2>1. /\ UNCHANGED <<ring, dump, found, stale>>
        /\ packet_ready' \in {packet_ready, packet_ready + 1}
    BY <1>1, <1>3, <1>2
  <2>2. ASSUME CountInv
      PROVE  packet_ready' + (IF Receiving' THEN 1 ELSE 0) <= Len(air')
    BY <1>1, <1>3, <1>2, <2>2 DEF CountInv
  <2> QED
    BY <2>1, <2>2, ReaderKept
<1> QED
  BY <1>2, <1>4, <1>5, <1>6, <1>7 DEF RxInv, LoopInv, loop

-----------------------------------------------------------------------------
(* The receive interrupts.                                                 *)

\* What the handlers find: a packet in the FIFO starts if no word of it was
\* taken before.
LEMMA BeforeDrain ==
  ASSUME AirInv, WriterInv
  PROVE  /\ Len(fifo) \in Nat /\ Taken \in Nat /\ Len(air) \in Nat
         /\ pushed = Taken + Len(fifo)
         /\ fifo = <<>> <=> Len(fifo) = 0
         /\ Len(fifo) > 0 => Receiving
         /\ Starts <=> Len(fifo) > 0 /\ Taken = 0
         /\ rx_state = "reading" <=> Receiving /\ Taken > 0
         /\ Drained.state = IF Receiving /\ pushed > 0 THEN "reading" ELSE "init"
         /\ Drained.bytes \in Nat /\ (Drained.bytes = 0 <=> Drained.state = "init")
<1>1. /\ Len(fifo) \in Nat /\ Taken \in Nat /\ Len(air) \in Nat
      /\ fifo = <<>> <=> Len(fifo) = 0
      /\ Len(fifo) > 0 => Receiving
  BY EmptySeq, LenProperties DEF AirInv
<1>2. pushed = Taken + Len(fifo)
  BY <1>1 DEF AirInv, Taken
<1>3. Starts <=> Len(fifo) > 0 /\ Taken = 0
  BY <1>1 DEF WriterInv, Starts
<1>4. rx_state = "reading" <=> Receiving /\ Taken > 0
  BY DEF WriterInv
<1>5. Drained.state = IF Receiving /\ pushed > 0 THEN "reading" ELSE "init"
  BY <1>1, <1>2, <1>3, DrainedWords DEF WriterInv
<1>6. Drained.bytes = wr_bytes + 4 * (Len(fifo) + Shift) /\ wr_bytes \in Nat
      /\ (wr_bytes = 0 <=> rx_state = "init")
  BY DrainedWords DEF WriterInv
<1>7. Shift = IF Len(fifo) > 0 /\ Taken = 0 THEN 1 ELSE 0
  BY <1>3 DEF Shift
<1>8. rx_state \in {"init", "reading"}
  BY DEF WriterInv
<1>9. Drained.bytes \in Nat /\ (Drained.bytes = 0 <=> Drained.state = "init")
  BY ONLY <1>1, <1>2, <1>4, <1>5, <1>6, <1>7, <1>8
<1> QED
  BY <1>1, <1>2, <1>3, <1>4, <1>5, <1>9

LEMMA DataTaken ==
  ASSUME RxInv, scr \in Keys, RxData
  PROVE  RxInv' /\ scr' \in Keys
<1>1. /\ almost_full' = FALSE /\ fifo' = <<>> /\ mem' = Drained.mem
      /\ wr_buf_addr' = Drained.at /\ wr_packet_addr' = Drained.start
      /\ wr_bytes' = Drained.bytes /\ rx_state' = Drained.state
      /\ scr' = Drained.scr /\ UNCHANGED <<pushed, pkt_ready, air>>
  BY DEF RxData
<1>2. UNCHANGED <<ring, packet_ready, loop, rx_auto, rx_flood, dump, found, stale>>
  BY DEF RxData, host
<1> USE DEF RxInv
<1>3. Len(fifo') = 0 /\ fifo' \in Seq(FifoWords)
  BY <1>1
<1>4. Receiving' = Receiving /\ Taken' = pushed /\ pushed \in Nat
  BY <1>1, <1>3, BeforeDrain DEF Receiving, Taken
<1>5. AirInv'
  <2>1. /\ air' \in Seq(Arrived) /\ pushed' \in Nat /\ almost_full' \in BOOLEAN
        /\ pkt_ready' \in BOOLEAN /\ (fifo' # <<>> => Receiving')
        /\ (pkt_ready' => Receiving' /\ pushed' = air'[Len(air')].size)
    BY <1>1, <1>4 DEF AirInv
  <2>2. \A j \in 1..Len(fifo') : fifo'[j] = [pkt |-> Len(air'), i |-> Taken' + j - 1]
    BY ONLY <1>3
  <2> QED
    BY ONLY <1>3, <1>4, <2>1, <2>2 DEF AirInv
<1>6. WriterInv'
  BY <1>1, <1>4, BeforeDrain, DrainedFits DEF WriterInv
<1>7. CellsInv' /\ scr' \in Keys
  BY <1>1, DrainedCells DEF CellsInv, OfReceived
<1>8. ReaderInv'
  <2>1. /\ UNCHANGED <<ring, dump, found, stale>>
        /\ packet_ready' \in {packet_ready, packet_ready + 1}
    BY <1>1, <1>4, <1>2
  <2>2. ASSUME CountInv
      PROVE  packet_ready' + (IF Receiving' THEN 1 ELSE 0) <= Len(air')
    BY <1>1, <1>4, <1>2, <2>2 DEF CountInv
  <2> QED
    BY <2>1, <2>2, ReaderKept
<1> QED
  BY <1>2, <1>5, <1>6, <1>7, <1>8 DEF LoopInv, loop

LEMMA PacketTaken ==
  ASSUME RxInv, scr \in Keys, RxReady
  PROVE  RxInv' /\ scr' \in Keys
<1>1. /\ pkt_ready /\ pkt_ready' = FALSE /\ fifo' = <<>> /\ pushed' = pushed + 1
      /\ wr_buf_addr' = Drained.at /\ wr_packet_addr' = Drained.start
      /\ wr_bytes' = 0 /\ scr' = Drained.scr /\ UNCHANGED <<almost_full, air>>
      /\ IF Drained.bytes # 0
         THEN /\ mem' = [Drained.mem EXCEPT ![Word(Drained.start)] = Marker(Drained.bytes)]
              /\ rx_state' = "init" /\ packet_ready' = packet_ready + 1
         ELSE UNCHANGED <<mem, rx_state, packet_ready>>
  BY DEF RxReady
<1>2. UNCHANGED <<ring, loop, rx_auto, rx_flood, dump, found, stale>>
  BY DEF RxReady, host
<1> USE DEF RxInv
<1>3. Len(fifo') = 0 /\ fifo' \in Seq(FifoWords)
  BY <1>1
<1>4. Receiving /\ ~Receiving' /\ Taken' = pushed + 1 /\ pushed \in Nat
  BY <1>1, <1>3, BeforeDrain DEF AirInv, Receiving, Taken
<1>5. AirInv'
  <2>1. /\ air' \in Seq(Arrived) /\ pushed' \in Nat /\ almost_full' \in BOOLEAN
        /\ pkt_ready' = FALSE /\ Taken' \in Nat /\ ~(fifo' # <<>>)
    BY <1>1, <1>4 DEF AirInv
  <2>2. \A j \in 1..Len(fifo') : fifo'[j] = [pkt |-> Len(air'), i |-> Taken' + j - 1]
    BY ONLY <1>3
  <2> QED
    BY ONLY <1>3, <2>1, <2>2 DEF AirInv
<1>6. WriterInv'
  <2>1. rx_state' = "init"
    BY <1>1, BeforeDrain, DrainedWords DEF WriterInv, Starts
  <2> QED
    BY <1>1, <1>4, <2>1, DrainedFits DEF WriterInv
<1>7. CellsInv' /\ scr' \in Keys
  <2>1. CASE Drained.bytes # 0
    <3>1. Marker(Drained.bytes) \in Cells /\ OfReceived(Marker(Drained.bytes))
      BY BeforeDrain DEF Marker, Cells, Plain, Keys, OfReceived
    <3> HIDE DEF Cells
    <3>2. mem' \in [Words -> Cells] /\ \A w \in Words : OfReceived(mem'[w])
      BY <1>1, <2>1, <3>1, DrainedCells
    <3> QED
      BY <1>1, <3>2, DrainedCells DEF CellsInv, OfReceived
  <2>2. CASE Drained.bytes = 0
    BY <1>1, <2>2, DrainedCells DEF CellsInv, OfReceived
  <2> QED
    BY <2>1, <2>2
<1>8. ReaderInv'
  <2>1. Len(air) \in Nat /\ packet_ready' \in {packet_ready, packet_ready + 1}
    BY <1>1, BeforeDrain
  <2> QED
    <3>1. /\ UNCHANGED <<ring, dump, found, stale>>
          /\ packet_ready' \in {packet_ready, packet_ready + 1}
      BY <1>1, <1>4, <2>1, <1>2
    <3>2. ASSUME CountInv
        PROVE  packet_ready' + (IF Receiving' THEN 1 ELSE 0) <= Len(air')
      BY <1>1, <1>4, <2>1, <1>2, <3>2 DEF CountInv
    <3> QED
      BY <3>1, <3>2, ReaderKept
<1> QED
  BY <1>2, <1>5, <1>6, <1>7, <1>8 DEF LoopInv, loop

-----------------------------------------------------------------------------
(* The main loop, the dump and the commands: they leave the writer alone.  *)

LEMMA WriterAlone ==
  ASSUME RxInv, UNCHANGED <<mem, writer, receiver>>
  PROVE  AirInv' /\ WriterInv' /\ CellsInv' /\ Receiving' = Receiving
                 /\ air' = air
<1>1. UNCHANGED <<mem, wr_buf_addr, wr_bytes, rx_state, wr_packet_addr, fifo,
                  pushed, almost_full, pkt_ready, air>>
  BY DEF writer, receiver
<1>2. Receiving' = Receiving /\ Taken' = Taken
  BY <1>1 DEF Receiving, Taken
<1> QED
  BY <1>1, <1>2 DEF RxInv, AirInv, WriterInv, CellsInv, OfReceived

\* What a reader finds at the head of the ring.
LEMMA HeadTyped ==
  ASSUME RxInv
  PROVE  /\ HeadMarker \in {-1} \cup Nat
         /\ LengthOf(HeadHeader) \in 0..255
         /\ \A n \in Nat : DumpWords(n) \in Nat
<1>1. rd_packet_addr \in Nat /\ mem \in [Words -> Cells]
      /\ \A w \in Words : OfReceived(mem[w])
  BY DEF RxInv, ReaderInv, CellsInv
<1>2. rd_packet_addr % MEM_SIZE \in Nat
  BY <1>1, RxAssumption DEF MEM_SIZE
<1>3. Step(rd_packet_addr % MEM_SIZE) \in Nat
  BY <1>2, PointersStep
<1>4. mem[Word(rd_packet_addr)] \in Cells
  BY <1>1, WordInWords
<1>5. HeadHeader \in Cells /\ OfReceived(HeadHeader)
  BY <1>1, <1>3, WordInWords DEF HeadHeader
<1> HIDE DEF HeadHeader
<1>6. HeadMarker \in {-1} \cup Nat
  BY <1>4 DEF HeadMarker, MarkerOf, Cells
<1>7. LengthOf(HeadHeader) \in 0..255
  <2>1. CASE HeadHeader.kind = "header"
    <3>1. HeadHeader.pkt \in 1..Len(air)
      BY <1>5, <2>1 DEF OfReceived
    <3>2. air[HeadHeader.pkt] \in Arrived
      BY <3>1 DEF RxInv, AirInv
    <3> QED
      BY <2>1, <3>2 DEF LengthOf, Arrived
  <2> QED
    BY <2>1 DEF LengthOf
<1>8. \A n \in Nat : DumpWords(n) \in Nat
  BY DEF DumpWords
<1> QED
  BY <1>6, <1>7, <1>8

\* Taking a packet, if there is one or not.
LEMMA NextTaken ==
  ASSUME RxInv, NEW marker \in {-1} \cup Nat, NEW head, NEW fate,
         PacketNext(marker, head, fate)
  PROVE  rd_packet_addr' \in Nat /\ packet_ready' \in {packet_ready, packet_ready - 1}
<1>1. \/ UNCHANGED <<rd_packet_addr, packet_ready>>
      \/ /\ marker \in Nat /\ rd_packet_addr' = rd_packet_addr + marker
         /\ packet_ready' = packet_ready - 1
  BY DEF PacketNext
<1> QED
  BY <1>1 DEF RxInv, ReaderInv

LEMMA HeadersRead ==
  ASSUME RxInv, NEW skip \in Nat, ReadHeaders(skip)
  PROVE  rd_packet_marker' \in {-1} \cup Nat /\ rd_buf_addr' \in Nat
<1>1. rd_packet_addr \in Nat
  BY DEF RxInv, ReaderInv
<1> QED
  BY <1>1, HeadTyped, PointersStep DEF ReadHeaders

\* Who leaves the counts alone leaves them right.
LEMMA CountsStay ==
  ASSUME RxInv, air' = air, Receiving' = Receiving,
         UNCHANGED <<packet_ready, found, stale>>
  PROVE  /\ packet_ready' \in Int /\ found' \in BOOLEAN /\ stale' \in BOOLEAN
         /\ stale' \/ CountInv'
<1>1. packet_ready \in Int /\ found \in BOOLEAN /\ stale \in BOOLEAN
  BY DEF RxInv, ReaderInv
<1>2. CASE stale
  BY <1>1, <1>2
<1>3. CASE ~stale
  <2>1. CountInv
    BY <1>3 DEF RxInv, ReaderInv
  <2> QED
    BY <1>1, <2>1 DEF CountInv
<1> QED
  BY <1>2, <1>3

\* A reader leaves ReaderInv if it takes at most one packet that is there.
LEMMA ReaderStep ==
  ASSUME RxInv, air' = air, Receiving' = Receiving,
         rd_buf_addr' \in Nat, rd_packet_addr' \in Nat,
         rd_packet_marker' \in {-1} \cup Nat,
         \/ UNCHANGED <<packet_ready, found, stale>>
         \/ ~stale /\ ~stale' /\ packet_ready' = packet_ready /\ found' = FALSE
         \/ ~stale /\ ~stale' /\ packet_ready' = packet_ready
              /\ found' = (packet_ready # 0)
         \/ ~stale /\ ~stale' /\ packet_ready > 0 /\ packet_ready' = packet_ready - 1
              /\ found' = FALSE,
         stale' \in BOOLEAN, dumping_mem' \in Nat, dump_hbc_rx' \in BOOLEAN
  PROVE  ReaderInv'
<1>1. /\ packet_ready' \in Int /\ found' \in BOOLEAN /\ stale' \in BOOLEAN
      /\ stale' \/ CountInv'
  <2>1. CASE UNCHANGED <<packet_ready, found, stale>>
    BY <2>1, CountsStay
  <2>2. CASE ~stale /\ ~stale' /\ ~UNCHANGED <<packet_ready, found, stale>>
    <3>1. CountInv /\ Len(air) \in Nat
      BY <2>2, LenProperties DEF RxInv, ReaderInv, AirInv
    <3>2. CASE packet_ready' = packet_ready /\ found' = FALSE
      <4>1. found' \in BOOLEAN /\ ~found'
        BY <3>2, Zenon
      <4> QED
        BY <2>2, <3>1, <3>2, <4>1 DEF CountInv
    <3>3. CASE packet_ready' = packet_ready /\ found' = (packet_ready # 0)
      <4>1. found' \in BOOLEAN /\ (found' => packet_ready # 0)
        BY <3>3, Zenon
      <4> QED
        BY <2>2, <3>1, <3>3, <4>1 DEF CountInv
    <3>4. CASE packet_ready > 0 /\ packet_ready' = packet_ready - 1 /\ found' = FALSE
      <4>1. found' \in BOOLEAN /\ ~found'
        BY <3>4, Zenon
      <4> QED
        BY <2>2, <3>1, <3>4, <4>1 DEF CountInv
    <3> QED
      BY <2>2, <3>2, <3>3, <3>4
  <2> QED
    BY <2>1, <2>2
<1> QED
  BY <1>1 DEF ReaderInv

LEMMA PacketForwarded ==
  ASSUME RxInv, HbcToSpi
  PROVE  RxInv'
<1> DEFINE accepted == packet_ready # 0 /\ Accepted(HeadHeader, HeadMarker)
           fate == IF ~accepted THEN "discard" ELSE IF forward THEN "forward" ELSE "flood"
<1>1. /\ pc' = "TestFlood"
      /\ IF accepted /\ forward
         THEN /\ dumping_mem' = DumpWords(LengthOf(HeadHeader))
              /\ dump_hbc_rx' = TRUE /\ ReadHeaders(1)
         ELSE UNCHANGED <<dumping_mem, dump_hbc_rx>> /\ ReadHeaders(0)
      /\ IF packet_ready = 0
         THEN UNCHANGED <<rd_packet_addr, packet_ready>>
         ELSE PacketNext(HeadMarker, HeadHeader, fate)
      /\ found' = FALSE /\ ~stale /\ stale' = stale
      /\ UNCHANGED <<mem, writer, scr, forward, rx_auto, rx_flood, receiver, cmds>>
  BY DEF HbcToSpi, dump
<1> HIDE DEF accepted, fate
<1>2. rd_packet_marker' \in {-1} \cup Nat /\ rd_buf_addr' \in Nat
  BY <1>1, HeadersRead
<1>3. dumping_mem' \in Nat /\ dump_hbc_rx' \in BOOLEAN
  <2>1. CASE accepted /\ forward
    <3>1. dumping_mem' = DumpWords(LengthOf(HeadHeader)) /\ dump_hbc_rx' = TRUE
      BY <1>1, <2>1
    <3>2. LengthOf(HeadHeader) \in Nat
      BY HeadTyped
    <3> QED
      BY <3>1, <3>2, HeadTyped
  <2>2. CASE ~(accepted /\ forward)
    BY <1>1, <2>2 DEF RxInv, ReaderInv
  <2> QED
    BY <2>1, <2>2
<1>4. /\ rd_packet_addr' \in Nat
      /\ \/ packet_ready' = packet_ready
         \/ packet_ready > 0 /\ packet_ready' = packet_ready - 1
  <2>1. CASE packet_ready = 0
    BY <1>1, <2>1 DEF RxInv, ReaderInv
  <2>2. CASE packet_ready # 0
    <3>1. packet_ready > 0
      BY <1>1, <2>2 DEF RxInv, ReaderInv, CountInv
    <3> QED
      BY <1>1, <2>2, <3>1, HeadTyped, NextTaken
  <2> QED
    BY <2>1, <2>2
<1>5. ReaderInv'
  <2>1. stale' \in BOOLEAN
    BY <1>1 DEF RxInv, ReaderInv
  <2> QED
    BY <1>1, <1>2, <1>3, <1>4, <2>1, WriterAlone, ReaderStep
<1>6. LoopInv'
  BY <1>1 DEF RxInv, LoopInv
<1> QED
  BY <1>1, <1>5, <1>6, WriterAlone DEF RxInv

\* The tests before it only move on.
LEMMA LoopTests ==
  ASSUME RxInv, TestFlood \/ TestAuto \/ TestBusy \/ Argument \/ Lost
  PROVE  RxInv'
<1>1. UNCHANGED <<mem, ring, writer, packet_ready, rx_auto, rx_flood, dumping_mem,
                  dump_hbc_rx, receiver, found, stale>>
  BY DEF TestFlood, TestAuto, TestBusy, Argument, Lost, Test, Cross, dump, host
<1>2. pc' \in {"TestFlood", "TestAuto", "TestBusy", "Argument", "HbcToSpi"}
      /\ forward' \in BOOLEAN
  BY DEF TestFlood, TestAuto, TestBusy, Argument, Lost, Test, RxInv, LoopInv
<1>3. ReaderInv'
  BY <1>1, WriterAlone, ReaderStep DEF RxInv, ReaderInv, ring
<1> QED
  BY <1>1, <1>2, <1>3, WriterAlone DEF RxInv, LoopInv

LEMMA WordDumped ==
  ASSUME RxInv, DumpWord
  PROVE  RxInv'
<1>1. UNCHANGED <<mem, rd_packet_addr, rd_packet_marker, writer, packet_ready, loop,
                  rx_auto, rx_flood, dump_hbc_rx, receiver, found, stale>>
  BY DEF DumpWord, host
<1>2. rd_buf_addr' \in Nat /\ dumping_mem' \in Nat
  BY PointersStep DEF DumpWord, RxInv, ReaderInv
<1>3. ReaderInv'
  BY <1>1, <1>2, WriterAlone, ReaderStep DEF RxInv, ReaderInv
<1> QED
  BY <1>1, <1>3, WriterAlone DEF RxInv, LoopInv, loop

LEMMA CheckReads ==
  ASSUME RxInv
  PROVE  CheckWords \in Nat /\ CheckWords >= 1
<1>1. LengthOf(HeadHeader) \in 0..255
  BY HeadTyped
<1>2. PICK len \in 0..255 : len = LengthOf(HeadHeader)
  BY <1>1
<1>3. CheckWords = 3 + IF len = 0 THEN 0 ELSE (len - 1) \div 4
  BY <1>2 DEF CheckWords
<1> QED
  BY <1>3

LEMMA CommandDone ==
  ASSUME RxInv, scr \in Keys, CtrlIrq
  PROVE  RxInv' /\ scr' \in Keys
<1>1. UNCHANGED <<mem, writer, loop, receiver>>
  BY DEF CtrlIrq, RxAuto, RxFlood, RxPacketReady, RxRead, RxPacketNext, RxCheck,
     MemDump, ScramblerRead, Command
<1>2. scr' \in Keys
  BY DEF CtrlIrq, RxAuto, RxFlood, RxPacketReady, RxRead, RxPacketNext, RxCheck,
     MemDump, ScramblerRead, Later, Keys
<1>3. rx_auto' \in {0, 1} /\ rx_flood' \in {0, 1}
  BY DEF CtrlIrq, RxAuto, RxFlood, RxPacketReady, RxRead, RxPacketNext, RxCheck,
     MemDump, ScramblerRead, RxInv, LoopInv
<1>4. ReaderInv'
  <2>1. /\ rd_buf_addr \in Nat /\ rd_packet_addr \in Nat
        /\ rd_packet_marker \in {-1} \cup Nat /\ dumping_mem \in Nat
        /\ dump_hbc_rx \in BOOLEAN /\ stale \in BOOLEAN /\ packet_ready \in Int
    BY DEF RxInv, ReaderInv
  <2>2. CASE ScramblerRead \/ \E b \in {0, 1} : RxAuto(b) \/ RxFlood(b)
    <3>1. UNCHANGED <<ring, packet_ready, dump, found, stale>>
      BY <2>2 DEF ScramblerRead, RxAuto, RxFlood, host
    <3>2. UNCHANGED <<rd_buf_addr, rd_packet_addr, rd_packet_marker, dumping_mem,
                      dump_hbc_rx>>
      BY <3>1 DEF ring, dump
    <3> QED
      BY <1>1, <2>1, <3>1, <3>2, WriterAlone, ReaderStep
  <2>3. CASE RxPacketReady
    <3>1. /\ ReadHeaders(0) /\ ~stale
          /\ found' = (packet_ready # 0)
          /\ UNCHANGED <<rd_packet_addr, packet_ready, dumping_mem, dump_hbc_rx, stale>>
      BY <2>3 DEF RxPacketReady, Command, Cross
    <3>2. rd_packet_marker' \in {-1} \cup Nat /\ rd_buf_addr' \in Nat
      BY <3>1, HeadersRead
    <3> QED
      BY <1>1, <2>1, <3>1, <3>2, WriterAlone, ReaderStep
  <2>4. CASE RxRead
    <3>1. /\ rd_buf_addr' = Inc(rd_buf_addr)
          /\ UNCHANGED <<rd_packet_addr, rd_packet_marker, packet_ready, found, stale,
                         dumping_mem, dump_hbc_rx>>
      BY <2>4 DEF RxRead, Cross, host
    <3> QED
      BY <1>1, <2>1, <3>1, WriterAlone, ReaderStep, PointersStep
  <2>5. CASE RxPacketNext
    <3>1. /\ found' = FALSE /\ stale' = ~found /\ ~stale
          /\ PacketNext(rd_packet_marker, rd_packet_header, "host")
          /\ UNCHANGED <<rd_buf_addr, rd_packet_marker, dumping_mem, dump_hbc_rx>>
      BY <2>5 DEF RxPacketNext, Command, dump
    <3>2. /\ rd_packet_addr' \in Nat
          /\ packet_ready' \in {packet_ready, packet_ready - 1}
      BY <2>1, <3>1, NextTaken
    <3>3. CASE found
      <4>1. packet_ready > 0 /\ ~stale' /\ stale' \in BOOLEAN
        BY <3>1, <3>3 DEF RxInv, ReaderInv, CountInv
      <4> QED
        BY <1>1, <2>1, <3>1, <3>2, <4>1, WriterAlone, ReaderStep
    <3>4. CASE ~found
      <4>1. stale' /\ stale' \in BOOLEAN /\ found' \in BOOLEAN
        BY <3>1, <3>4, Zenon
      <4>2. packet_ready' \in Int
        BY <2>1, <3>2
      <4> QED
        BY <2>1, <3>1, <3>2, <4>1, <4>2 DEF ReaderInv
    <3> QED
      BY <3>3, <3>4
  <2>6. CASE RxCheck
    <3> DEFINE good == Accepted(HeadHeader, HeadMarker)
               fate == IF good THEN "host" ELSE "discard"
    <3>1. /\ IF packet_ready = 0
             THEN ReadHeaders(0) /\ UNCHANGED <<rd_packet_addr, packet_ready>>
             ELSE /\ ReadHeaders(IF good THEN CheckWords ELSE 0)
                  /\ PacketNext(HeadMarker, HeadHeader, fate)
          /\ found' = FALSE /\ ~stale /\ UNCHANGED <<dumping_mem, dump_hbc_rx, stale>>
      BY <2>6 DEF RxCheck, Command, Cross
    <3>2. CheckWords \in Nat
      BY CheckReads
    <3> HIDE DEF good, fate
    <3>3. rd_packet_marker' \in {-1} \cup Nat /\ rd_buf_addr' \in Nat
      BY <3>1, <3>2, HeadersRead
    <3>4. /\ rd_packet_addr' \in Nat
          /\ \/ packet_ready' = packet_ready
             \/ packet_ready > 0 /\ packet_ready' = packet_ready - 1
      <4>1. CASE packet_ready = 0
        BY <2>1, <3>1, <4>1
      <4>2. CASE packet_ready # 0
        <5>1. packet_ready > 0
          BY <3>1, <4>2 DEF RxInv, ReaderInv, CountInv
        <5> QED
          BY <3>1, <4>2, <5>1, HeadTyped, NextTaken
      <4> QED
        BY <4>1, <4>2
    <3> QED
      BY <1>1, <2>1, <3>1, <3>3, <3>4, WriterAlone, ReaderStep
  <2>7. CASE MemDump(1)
    <3>1. /\ UNCHANGED <<ring, packet_ready, found, stale>>
          /\ dumping_mem' = 1 /\ dump_hbc_rx' = FALSE
      BY <2>7 DEF MemDump, host
    <3>2. UNCHANGED <<rd_buf_addr, rd_packet_addr, rd_packet_marker>>
      BY <3>1 DEF ring
    <3> QED
      BY <1>1, <2>1, <3>1, <3>2, WriterAlone, ReaderStep
  <2> QED
    BY <2>2, <2>3, <2>4, <2>5, <2>6, <2>7 DEF CtrlIrq
<1> QED
  BY <1>1, <1>2, <1>3, <1>4, WriterAlone DEF RxInv, LoopInv, loop

-----------------------------------------------------------------------------
(* For a receiver that is part of more: nothing happens to it, or it is    *)
(* switched off in the middle of a packet.                                 *)

LEMMA RxStutter ==
  ASSUME RxInv, UNCHANGED <<mem, ring, writer, packet_ready, loop, rx_auto, rx_flood,
                            dump, receiver, found, stale>>
  PROVE  RxInv'
<1>1. ReaderInv'
  BY WriterAlone, ReaderStep DEF RxInv, ReaderInv, ring, dump
<1> QED
  BY <1>1, WriterAlone DEF RxInv, LoopInv, loop

LEMMA SetSize ==
  ASSUME NEW A, NEW B, NEW C, NEW D, NEW size,
         NEW p \in [len : A, size : B, ok : C, seed : D]
  PROVE  [p EXCEPT !.size = size]
           = [len |-> p.len, size |-> size, ok |-> p.ok, seed |-> p.seed]
OBVIOUS

\* Cutting a packet changes its size only.
LEMMA CutPacket ==
  ASSUME AirInv, Receiving, pushed < air[Len(air)].size,
         air' = [air EXCEPT ![Len(air)].size = pushed]
  PROVE  /\ air' \in Seq(Arrived) /\ Len(air') = Len(air) /\ Len(air) \in 1..Len(air)
         /\ air'[Len(air)].size = pushed
         /\ \A k \in 1..Len(air) : air'[k].seed = air[k].seed
         /\ \A k \in 1..Len(air) : k # Len(air) => air'[k] = air[k]
<1> DEFINE old == air[Len(air)]
           new == [old EXCEPT !.size = pushed]
<1>1. air \in Seq(Arrived) /\ Len(air) \in 1..Len(air) /\ pushed \in Nat
  BY NonEmpty DEF AirInv, Receiving
<1>2. old \in Arrived
  BY <1>1
<1>3. new \in Arrived /\ new.size = pushed /\ new.seed = old.seed
  <2>0. old.size \in Nat /\ 4 * (old.size + 1) <= RingBytes /\ pushed < old.size
    BY <1>2 DEF Arrived
  <2> HIDE DEF old
  <2>1. old \in [len : 0..255, size : Nat, ok : BOOLEAN, seed : {0, 1}]
    BY <1>2 DEF Arrived
  <2>2. new = [len |-> old.len, size |-> pushed, ok |-> old.ok, seed |-> old.seed]
    BY <2>1, SetSize DEF new
  <2> HIDE DEF new
  <2>3. 4 * (pushed + 1) <= RingBytes
    BY <1>1, <2>0, RxAssumption
  <2> QED
    BY <1>1, <2>1, <2>2, <2>3 DEF Arrived
<1> HIDE DEF old
<1> HIDE DEF new
<1>4. air' = [air EXCEPT ![Len(air)] = new]
  BY DEF new, old
<1>5. /\ air' \in Seq(Arrived) /\ Len(air') = Len(air)
      /\ \A k \in 1..Len(air) : air'[k] = IF k = Len(air) THEN new ELSE air[k]
  BY <1>1, <1>3, <1>4, ExceptSeq
<1> QED
  BY <1>1, <1>3, <1>5 DEF old

LEMMA PacketCut ==
  ASSUME RxInv, Receiving, pushed < air[Len(air)].size,
         air' = [air EXCEPT ![Len(air)].size = pushed],
         UNCHANGED <<mem, ring, writer, packet_ready, loop, rx_auto, rx_flood, dump,
                     fifo, pushed, almost_full, pkt_ready, found, stale>>
  PROVE  RxInv' /\ Taken' = Taken
<1>1. /\ air' \in Seq(Arrived) /\ Len(air') = Len(air) /\ Len(air) \in 1..Len(air)
      /\ air'[Len(air)].size = pushed
  BY CutPacket DEF RxInv
<1>2. Receiving' /\ Taken' = Taken
  <2>1. air' # <<>> /\ pushed' \in Nat
    BY <1>1 DEF RxInv, AirInv
  <2> QED
    BY <1>1, <2>1 DEF Receiving, Taken
<1>3. AirInv'
  <2>1. ~pkt_ready
    BY DEF RxInv, AirInv
  <2> QED
    BY <1>1, <1>2, <2>1 DEF RxInv, AirInv
<1>4. WriterInv'
  BY <1>2 DEF RxInv, WriterInv, writer
<1>5. CellsInv'
  BY <1>1 DEF RxInv, CellsInv, OfReceived
<1>6. ReaderInv'
  <2>1. /\ UNCHANGED <<ring, dump, found, stale>>
        /\ packet_ready' \in {packet_ready, packet_ready + 1}
    BY <1>1, <1>2
  <2>2. ASSUME CountInv
      PROVE  packet_ready' + (IF Receiving' THEN 1 ELSE 0) <= Len(air')
    BY <1>1, <1>2, <2>2 DEF CountInv
  <2> QED
    BY <2>1, <2>2, ReaderKept
<1> QED
  BY <1>2, <1>3, <1>4, <1>5, <1>6 DEF RxInv, LoopInv, loop

\* Payload words written are of the packet received last.
LEMMA DrainedOfLast ==
  ASSUME RxInv
  PROVE  \A w \in Words : \/ Drained.mem[w] = mem[w]
                          \/ Drained.mem[w].kind # "data"
                          \/ Drained.mem[w].pkt = Len(air)
<1>1. \A j \in 1..(Len(fifo) + Shift) : Written(j).kind # "data" \/ Written(j).pkt = Len(air)
  BY DEF Written, Data, Marker, Header
<1> QED
  BY <1>1, DrainedWords DEF RxInv

\* The key that descrambles word n of packet pkt: its header announces the
\* seed, and the keystream starts at the first payload word.
KeyDue(pkt, n) == [seed |-> air[pkt].seed, pos |-> n - 1]

\* In the middle of a packet the scrambler is at the next word of it.
InStep == rx_state = "reading" => scr = KeyDue(Len(air), Taken)

\* Handlers descramble every word with its key and stay in step, if they find
\* the scrambler where the handler before left it.
LEMMA DrainedKeys ==
  ASSUME RxInv, InStep
  PROVE  /\ \A w \in Words :
              \/ Drained.mem[w] = mem[w]
              \/ Drained.mem[w].kind # "data"
              \/ Drained.mem[w].key = KeyDue(Len(air), Drained.mem[w].n)
         /\ Drained.state = "reading" => Drained.scr = KeyDue(Len(air), pushed)
<1> USE DEF RxInv
<1>1. /\ Len(fifo) \in Nat /\ Taken \in Nat /\ pushed = Taken + Len(fifo)
      /\ Len(fifo) = 0 => ~Starts
      /\ Starts => Taken = 0 /\ fifo # <<>>
      /\ Len(fifo) > 0 /\ ~Starts => rx_state = "reading"
  BY BeforeDrain
<1>2. Shift = (IF Starts THEN 1 ELSE 0) /\ Shift \in {0, 1}
  BY DEF Shift
<1>3. ASSUME Len(fifo) > 0 \/ rx_state = "reading", NEW j \in Int
      PROVE  Later(Keystream(Starts), j - Shift - 1)
               = KeyDue(Len(air), Taken + j - Shift - 1)
  <2>1. CASE Starts
    <3>1. Keystream(Starts) = [seed |-> air[Len(air)].seed, pos |-> -1]
      BY <1>1, <2>1, FifoOfLast DEF Keystream
    <3>2. -1 + (j - Shift - 1) = (Taken + j - Shift - 1) - 1
      BY <1>1, <1>2, <2>1
    <3> QED
      BY <3>1, <3>2 DEF Later, KeyDue
  <2>2. CASE ~Starts
    <3>1. Keystream(Starts) = [seed |-> air[Len(air)].seed, pos |-> Taken - 1]
      BY <1>1, <1>3, <2>2 DEF Keystream, InStep, KeyDue
    <3>2. (Taken - 1) + (j - Shift - 1) = (Taken + j - Shift - 1) - 1
      BY <1>1, <1>2
    <3> QED
      BY <3>1, <3>2 DEF Later, KeyDue
  <2> QED
    BY <2>1, <2>2
<1>4. ASSUME NEW j \in 1..(Len(fifo) + Shift)
      PROVE  Written(j).kind # "data" \/ Written(j).key = KeyDue(Len(air), Written(j).n)
  <2>1. Len(fifo) > 0
    BY <1>1, <1>2
  <2>2. CASE Starts /\ j \in {1, 2}
    BY <2>2 DEF Written, Marker, Header
  <2>3. CASE ~(Starts /\ j \in {1, 2})
    <3>1. Written(j) = Data(Len(air), Taken + j - Shift - 1,
                            Later(Keystream(Starts), j - Shift - 1))
      BY <2>3 DEF Written
    <3>2. /\ Written(j).key = Later(Keystream(Starts), j - Shift - 1)
          /\ Written(j).n = Taken + j - Shift - 1
      BY <3>1 DEF Data
    <3> QED
      BY <1>3, <2>1, <3>2
  <2> QED
    BY <2>2, <2>3
<1>5. ASSUME Drained.state = "reading"
      PROVE  Drained.scr = KeyDue(Len(air), pushed)
  <2>1. Len(fifo) > 0 \/ rx_state = "reading"
    BY <1>5, BeforeDrain
  <2> DEFINE j == Len(fifo) + Shift + 1
  <2>2. j \in Int /\ j - Shift - 1 = Len(fifo) /\ Taken + j - Shift - 1 = pushed
    BY <1>1, <1>2
  <2> HIDE DEF j
  <2> QED
    BY <1>3, <2>1, <2>2, DrainedWords
<1> QED
  BY <1>4, <1>5, DrainedWords

-----------------------------------------------------------------------------
(* The theorem.                                                            *)

LEMMA RxInit ==
  ASSUME Init
  PROVE  RxInv /\ scr \in Keys
<1>1. MEM_RX_BUF \in Nat /\ MEM_RX_BUF \in Ring
  BY RxAssumption DEF Ring, MEM_RX_BUF, MEM_SIZE
<1>2. Junk \in Cells /\ OfReceived(Junk) /\ Plain \in Keys
  BY DEF Junk, Plain, Cells, Keys, OfReceived
<1>3. air = <<>> /\ Len(air) = 0 /\ Len(fifo) = 0 /\ pushed = 0
  BY DEF Init
<1>4. ~Receiving /\ Taken = 0
  <2>1. ~Receiving
    BY <1>3 DEF Receiving
  <2>2. Taken = 0
    BY ONLY <1>3 DEF Taken
  <2> QED
    BY <2>1, <2>2
<1>5. AirInv
  <2>1. /\ air \in Seq(Arrived) /\ fifo \in Seq(FifoWords)
        /\ fifo = <<>> /\ pkt_ready = FALSE /\ almost_full \in BOOLEAN
    BY EmptySeq, Zenon DEF Init
  <2>2. \A j \in 1..Len(fifo) : fifo[j] = [pkt |-> Len(air), i |-> Taken + j - 1]
    BY ONLY <1>3
  <2> HIDE DEF Taken
  <2> QED
    BY ONLY <1>3, <1>4, <2>1, <2>2 DEF AirInv
<1>6. WriterInv
  BY <1>1, <1>4 DEF Init, WriterInv
<1> HIDE DEF Cells, Keys
<1>7. CellsInv
  BY <1>2 DEF Init, CellsInv
<1>8. ReaderInv
  <2>1. packet_ready = 0 /\ dumping_mem = 0 /\ rd_packet_marker = 0
        /\ rd_buf_addr \in Nat /\ rd_packet_addr \in Nat
    BY <1>1 DEF Init
  <2>2. found \in BOOLEAN /\ ~found /\ dump_hbc_rx \in BOOLEAN /\ stale \in BOOLEAN
    BY Zenon DEF Init
  <2> QED
    BY ONLY <1>3, <1>4, <2>1, <2>2 DEF ReaderInv, CountInv
<1> QED
  BY <1>2, <1>5, <1>6, <1>7, <1>8 DEF Init, RxInv, LoopInv

LEMMA RxStep ==
  ASSUME RxInv, scr \in Keys, [Next]_vars
  PROVE  RxInv' /\ scr' \in Keys
<1>1. CASE UNCHANGED vars
  <2>1. UNCHANGED <<mem, ring, writer, packet_ready, scr, loop, rx_auto, rx_flood,
                    dump, receiver, found, stale>>
    BY <1>1 DEF vars, host
  <2>2. ReaderInv'
    BY <2>1, WriterAlone, ReaderStep DEF RxInv, ReaderInv, ring, dump
  <2> QED
    BY <2>1, <2>2, WriterAlone DEF RxInv, LoopInv, loop
<1>2. CASE Receiver
  <2>1. scr' = scr
    BY <1>2 DEF Receiver, AirStart, AirWord, AirEnd
  <2> QED
    BY <1>2, <2>1, PacketArrives, WordArrives, PacketEnds DEF Receiver
<1>3. CASE RxData \/ RxReady
  BY <1>3, DataTaken, PacketTaken
<1>4. CASE DumpWord \/ Main
  <2>1. scr' = scr
    BY <1>4 DEF DumpWord, Main, TestFlood, TestAuto, TestBusy, Argument, Lost, Test,
                HbcToSpi
  <2> QED
    BY <1>4, <2>1, WordDumped, LoopTests, PacketForwarded DEF Main
<1>5. CASE CtrlIrq
  BY <1>5, CommandDone
<1> QED
  BY <1>1, <1>2, <1>3, <1>4, <1>5 DEF Next, Handlers

\* The pointers, the counters and the ring of the receive path stay what the
\* code takes them for, whatever is received and whatever the host asks: in
\* particular the write pointer never leaves the receive half, and no more
\* packets are counted in the ring than were received.
THEOREM RxTyped == Spec => []TypeOK
<1> DEFINE IInv == RxInv /\ scr \in Keys
<1>1. Init => IInv
  BY RxInit
<1>2. IInv /\ [Next]_vars => IInv'
  BY RxStep
<1>3. IInv => TypeOK
  <2> SUFFICES ASSUME RxInv PROVE TypeOK
    OBVIOUS
  <2>1. /\ DOMAIN mem = Words
        /\ \A w \in Words : mem[w].kind \in {"junk", "marker", "header", "data"}
    BY DEF RxInv, CellsInv, Cells
  <2>2. /\ wr_buf_addr \in MEM_RX_BUF..(MEM_SIZE - 4) /\ wr_buf_addr % 4 = 0
        /\ wr_packet_addr \in {0} \cup MEM_RX_BUF..(MEM_SIZE - 4)
        /\ wr_bytes \in Nat /\ rx_state \in {"init", "reading"}
    BY DEF RxInv, WriterInv, Ring
  <2>3. /\ packet_ready \in Int /\ (~stale => packet_ready \in 0..Len(air))
        /\ rd_packet_marker \in Int
    <3>1. Len(air) \in Nat
      BY LenProperties DEF RxInv, AirInv
    <3>2. ASSUME ~stale PROVE packet_ready \in 0..Len(air)
      BY <3>1, <3>2 DEF RxInv, ReaderInv, CountInv
    <3> QED
      BY <3>2 DEF RxInv, ReaderInv
  <2> QED
    BY <2>1, <2>2, <2>3 DEF TypeOK, RxInv, ReaderInv, LoopInv
<1> QED
  BY <1>1, <1>2, <1>3, PTL DEF Spec

-----------------------------------------------------------------------------
(* The ring while the writer is on its first round.  Word s of it is at    *)
(* address 4 * s; the receive half is words Half..(2 * Half - 1).          *)

Half == RingBytes \div 4

\* The ring has b words for each packet that is received: none is
\* overwritten.
RoomFor(b) ==
  /\ b \in Nat /\ MaxPackets * b <= Half
  /\ \A p \in Packets : p.size + 1 <= b

FirstRound == \E b \in Nat : RoomFor(b)

\* Packets received to their end.
Done == IF Receiving THEN Len(air) - 1 ELSE Len(air)

\* Words from s on are the first n of packet p: the header, then its payload.
PartOf(cell, p, i) ==
  IF i = 0 THEN cell = Header(p)
  ELSE cell.kind = "data" /\ cell.pkt = p /\ cell.n = i

Holds(p, s, n) == \A i \in 0..(n - 1) : PartOf(mem[s + 1 + i], p, i)

\* n packets lie one after the other: number k is the one received as id[k],
\* its marker is word at[k], and it ends where the next begins.
Placed(n, id, at) ==
  /\ n \in Nat /\ id \in [1..n -> 1..Done] /\ at \in [1..(n + 1) -> Half..(2 * Half)]
  /\ \A k \in 1..n :
       /\ air[id[k]].size > 0 /\ at[k + 1] = at[k] + air[id[k]].size + 1
       /\ mem[at[k]] = Marker(4 * (air[id[k]].size + 1))
       /\ Holds(id[k], at[k], air[id[k]].size)
  /\ \A j, k \in 1..n : j < k => id[j] < id[k]
  /\ \A k \in 1..(n + 1) : at[k] <= at[n + 1]

\* The writer is to begin a packet at word s, or is in the middle of that one.
NextWord(s) == IF rx_state = "reading" THEN s + Taken + 1 ELSE s
Address(v)  == IF v = 2 * Half THEN 4 * Half ELSE 4 * v

WriterAt(s) ==
  /\ wr_buf_addr = Address(NextWord(s)) /\ wr_bytes = 4 * (NextWord(s) - s)
  /\ rx_state = "reading" => wr_packet_addr = 4 * s /\ Holds(Len(air), s, Taken)

Room(b, s) ==
  /\ Len(air) <= MaxPackets /\ \A p \in 1..Len(air) : air[p].size + 1 <= b
  /\ s <= Half + Done * b

Layout(b, n, id, at) == Placed(n, id, at) /\ WriterAt(at[n + 1]) /\ Room(b, at[n + 1])

-----------------------------------------------------------------------------
(* Words and addresses, and what writing behind the packets leaves alone.  *)

LEMMA Halves ==
  /\ Half \in Nat /\ Half > 0 /\ RingBytes = 4 * Half
  /\ MEM_RX_BUF = 4 * Half /\ MEM_SIZE = 8 * Half
  /\ Words = 0..(2 * Half - 1)
<1>1. Half \in Nat /\ RingBytes = 4 * Half /\ Half > 0
  BY RxAssumption DEF Half
<1> HIDE DEF Half
<1> QED
  BY <1>1 DEF MEM_RX_BUF, MEM_SIZE, Words

LEMMA WordAt ==
  ASSUME NEW s \in 0..(2 * Half - 1)
  PROVE  Word(4 * s) = s
<1>1. (4 * s) % (8 * Half) = 4 * s
  BY Halves
<1> QED
  BY <1>1, Halves DEF Word

\* The words written, if they end before the ring does.
LEMMA DrainedAt ==
  ASSUME AirInv, NEW v \in Half..(2 * Half - 1), wr_buf_addr = 4 * v,
         NEW m \in Nat, m = Len(fifo) + Shift, v + m <= 2 * Half
  PROVE  \A w \in Words :
           Drained.mem[w] = IF w \in v..(v + m - 1) THEN Written(w - v + 1) ELSE mem[w]
<1> SUFFICES ASSUME NEW w \in Words
             PROVE  Drained.mem[w] = IF w \in v..(v + m - 1) THEN Written(w - v + 1)
                                     ELSE mem[w]
  OBVIOUS
<1>1. Half \in Nat /\ Half > 0 /\ RingBytes = 4 * Half /\ MEM_RX_BUF = 4 * Half
      /\ w \in 0..(2 * Half - 1)
  BY Halves
<1>2. Drained.mem[w] = IF 4 * w >= MEM_RX_BUF /\ Index(w) \in 1..m
                       THEN Written(Index(w)) ELSE mem[w]
  BY DrainedWords
<1>3. CASE w < Half
  BY <1>1, <1>2, <1>3
<1>4. CASE w \in Half..(v - 1)
  <2>1. 4 * w - 4 * v = 4 * (w - v + Half) - 4 * Half
        /\ w - v + Half \in 0..(Half - 1)
    BY <1>1, <1>4
  <2>2. (4 * w - 4 * v) % (4 * Half) = 4 * (w - v + Half)
    BY <1>1, <2>1
  <2>3. Index(w) = w - v + Half + 1
    BY <1>1, <2>1, <2>2 DEF Index
  <2> QED
    BY <1>1, <1>2, <1>4, <2>3
<1>5. CASE w >= v
  <2>1. 4 * w - 4 * v = 4 * (w - v) /\ w - v \in 0..(Half - 1)
    BY <1>1, <1>5
  <2>2. (4 * (w - v)) % (4 * Half) = 4 * (w - v)
    BY <1>1, <2>1
  <2>3. Index(w) = w - v + 1
    BY <1>1, <2>1, <2>2 DEF Index
  <2> QED
    BY <1>1, <1>2, <1>5, <2>3
<1> QED
  BY <1>1, <1>3, <1>4, <1>5

LEMMA RoomStep ==
  ASSUME NEW b \in Nat, NEW m \in Nat, NEW d \in Nat, d < m, m * b <= Half
  PROVE  /\ d * b \in Nat /\ (d + 1) * b = d * b + b
         /\ d * b + b <= Half
<1>1. d * b \in Nat /\ (d + 1) * b = d * b + b /\ m * b \in Nat
  OBVIOUS
<1>2. (d + 1) * b <= m * b
  OBVIOUS
<1> QED
  BY <1>1, <1>2, Halves

LEMMA DoneNat ==
  ASSUME AirInv
  PROVE  /\ Done \in Nat /\ Len(air) \in Nat /\ Done <= Len(air)
         /\ Receiving => Len(air) = Done + 1 /\ Len(air) \in 1..Len(air)
         /\ \A p \in 1..Len(air) : air[p].size \in Nat
<1>1. air \in Seq(Arrived) /\ Len(air) \in Nat
  BY DEF AirInv
<1>2. Receiving => Len(air) \in 1..Len(air)
  BY <1>1, NonEmpty DEF Receiving
<1>3. ASSUME NEW p \in 1..Len(air) PROVE air[p].size \in Nat
  <2>1. air[p] \in Arrived
    BY <1>1
  <2> QED
    BY <2>1 DEF Arrived
<1> QED
  BY <1>1, <1>2, <1>3 DEF Done

LEMMA DoneNext ==
  ASSUME AirInv'
  PROVE  Done' \in Nat /\ Len(air') \in Nat
<1>1. air' \in Seq(Arrived) /\ Len(air') \in Nat
  BY DEF AirInv
<1>2. Receiving' => Len(air') \in 1..Len(air')
  BY <1>1, NonEmpty DEF Receiving
<1> QED
  BY <1>1, <1>2 DEF Done

\* The packets that lie in the ring do so as long as nothing is written before
\* the writer's place.
LEMMA PlacedStays ==
  ASSUME NEW n, NEW id, NEW at, Placed(n, id, at), AirInv, AirInv',
         Done <= Done', \A p \in 1..Done : air'[p] = air[p],
         \A w \in Words : w < at[n + 1] => mem'[w] = mem[w]
  PROVE  Placed(n, id, at)'
<1>1. /\ n \in Nat /\ id \in [1..n -> 1..Done] /\ at \in [1..(n + 1) -> Half..(2 * Half)]
      /\ Half \in Nat /\ Done \in Nat /\ Done' \in Nat /\ Words = 0..(2 * Half - 1)
      /\ \A k \in 1..n : k \in 1..(n + 1) /\ k + 1 \in 1..(n + 1) /\ id[k] \in 1..Done
      /\ \A k \in 1..n : air[id[k]].size \in Nat
      /\ n + 1 \in 1..(n + 1)
  <2>1. n \in Nat /\ id \in [1..n -> 1..Done] /\ at \in [1..(n + 1) -> Half..(2 * Half)]
        /\ Half \in Nat /\ Done \in Nat /\ Words = 0..(2 * Half - 1)
        /\ Done <= Len(air) /\ Len(air) \in Nat
    BY Halves, DoneNat DEF Placed
  <2>2. Done' \in Nat
    BY DoneNext
  <2>3. \A k \in 1..n : k \in 1..(n + 1) /\ k + 1 \in 1..(n + 1) /\ id[k] \in 1..Done
    BY <2>1
  <2>4. \A k \in 1..n : air[id[k]].size \in Nat
    BY <2>1, <2>3, DoneNat
  <2> QED
    BY <2>1, <2>2, <2>3, <2>4
<1>2. id \in [1..n -> 1..Done']
  BY <1>1
<1>3. \A j, k \in 1..n : j < k => id[j] < id[k]
  BY DEF Placed
<1>4. ASSUME NEW k \in 1..n
      PROVE  /\ air'[id[k]].size > 0 /\ at[k + 1] = at[k] + air'[id[k]].size + 1
             /\ mem'[at[k]] = Marker(4 * (air'[id[k]].size + 1))
             /\ Holds(id[k], at[k], air[id[k]].size)'
  <2>1. /\ air[id[k]].size > 0 /\ at[k + 1] = at[k] + air[id[k]].size + 1
        /\ mem[at[k]] = Marker(4 * (air[id[k]].size + 1))
        /\ Holds(id[k], at[k], air[id[k]].size)
        /\ at[k + 1] <= at[n + 1]
    BY <1>1 DEF Placed
  <2>2. air'[id[k]] = air[id[k]]
    BY <1>1
  <2>3. PICK size \in Nat : size = air[id[k]].size
    BY <1>1
  <2>4. PICK p : p = id[k]
    OBVIOUS
  <2>5. PICK s \in Half..(2 * Half) : s = at[k]
    BY <1>1
  <2>6. \A w \in s..(s + size) : w \in Words /\ w < at[n + 1]
    <3>1. PICK e \in Half..(2 * Half) : e = at[n + 1]
      BY <1>1
    <3>2. s + size + 1 <= e
      BY <2>1, <2>3, <2>5, <3>1
    <3>3. Half \in Nat /\ s \in Nat /\ size \in Nat /\ e \in Nat /\ e <= 2 * Half
      BY <1>1, <2>3, <2>5, <3>1
    <3>4. \A w \in s..(s + size) : w \in 0..(2 * Half - 1) /\ w < e
      BY ONLY <3>2, <3>3
    <3> QED
      BY <1>1, <3>1, <3>4
  <2>7. mem'[s] = mem[s] /\ \A i \in 0..(size - 1) : mem'[s + 1 + i] = mem[s + 1 + i]
    <3>1. s \in s..(s + size)
          /\ \A i \in 0..(size - 1) : s + 1 + i \in s..(s + size)
      <4>1. s \in Nat /\ size \in Nat
        BY <1>1, <2>3, <2>5
      <4> QED
        BY ONLY <4>1
    <3> QED
      BY <2>6, <3>1
  <2>8. Holds(p, s, size)
    BY <2>1, <2>3, <2>4, <2>5
  <2>9. Holds(p, s, size)'
    BY <2>7, <2>8 DEF Holds, PartOf
  <2> QED
    BY <2>1, <2>2, <2>3, <2>4, <2>5, <2>7, <2>9
<1>5. \A k \in 1..n : Holds(id[k], at[k], air[id[k]].size)'
  BY <1>4
<1> QED
  BY <1>1, <1>2, <1>3, <1>4, <1>5 DEF Placed

\* Nothing is written: the ring is laid out as before.
LEMMA LayoutStays ==
  ASSUME NEW b \in Nat, NEW n, NEW id, NEW at, Layout(b, n, id, at),
         AirInv, AirInv', UNCHANGED <<mem, writer>>,
         Done <= Done', \A p \in 1..Done : air'[p] = air[p],
         Len(air') <= MaxPackets, \A p \in 1..Len(air') : air'[p].size + 1 <= b,
         rx_state = "reading" => Taken' = Taken /\ Len(air') = Len(air)
  PROVE  Layout(b, n, id, at)'
<1>1. Placed(n, id, at)'
  BY PlacedStays DEF Layout
<1>2. PICK s \in Half..(2 * Half) : s = at[n + 1]
  BY DEF Layout, Placed
<1>3. WriterAt(s)'
  <2>1. WriterAt(s)
    BY <1>2 DEF Layout
  <2>2. NextWord(s)' = NextWord(s)
    BY DEF NextWord, writer
  <2>3. ASSUME rx_state = "reading" PROVE Holds(Len(air), s, Taken)'
    <3>1. PICK p : p = Len(air)
      OBVIOUS
    <3>2. PICK t : t = Taken
      OBVIOUS
    <3>3. Holds(p, s, t)'
      BY <2>1, <2>3, <3>1, <3>2 DEF WriterAt, Holds, PartOf
    <3> QED
      BY <2>3, <3>1, <3>2, <3>3
  <2> QED
    BY <2>1, <2>2, <2>3 DEF WriterAt, writer, Address
<1>4. Room(b, s)'
  <2>1. Done \in Nat /\ Done' \in Nat /\ Half \in Nat /\ s <= Half + Done * b
    BY <1>2, DoneNat, DoneNext, Halves DEF Layout, Room
  <2>2. PICK d \in Nat : d = Done
    BY <2>1
  <2>3. PICK e \in Nat : e = Done'
    BY <2>1
  <2>4. s <= Half + e * b
    <3>1. d <= e
      BY <2>2, <2>3
    <3>2. d * b <= e * b /\ d * b \in Nat /\ e * b \in Nat
      BY ONLY <3>1, d \in Nat, e \in Nat, b \in Nat
    <3>3. s \in Nat /\ Half \in Nat /\ s <= Half + d * b
      BY <1>2, <2>1, <2>2
    <3> QED
      BY ONLY <3>2, <3>3
  <2> QED
    BY <2>3, <2>4 DEF Room
<1> QED
  BY <1>1, <1>2, <1>3, <1>4 DEF Layout

\* What a handler leaves: the packet being received goes on behind what was
\* taken of it before.
LEMMA DrainedRing ==
  ASSUME NEW b, RoomFor(b), NEW n, NEW id, NEW at, Layout(b, n, id, at),
         AirInv, WriterInv, NEW s, s = at[n + 1]
  PROVE  /\ s \in Half..(2 * Half)
         /\ \A w \in Words : w < s => Drained.mem[w] = mem[w]
         /\ Drained.state = "reading" =>
              /\ Receiving /\ pushed > 0
              /\ s + air[Len(air)].size + 1 <= 2 * Half
              /\ s + air[Len(air)].size + 1 <= Half + (Done + 1) * b
              /\ pushed <= air[Len(air)].size
              /\ Drained.at = Address(s + pushed + 1)
              /\ Drained.bytes = 4 * (pushed + 1) /\ Drained.start = 4 * s
              /\ \A i \in 0..(pushed - 1) : PartOf(Drained.mem[s + 1 + i], Len(air), i)
         /\ Drained.state = "init" =>
              /\ fifo = <<>> /\ ~Starts /\ rx_state = "init"
              /\ \A w \in Words : Drained.mem[w] = mem[w]
              /\ Drained.at = wr_buf_addr /\ Drained.start = wr_packet_addr
              /\ Drained.bytes = 0 /\ wr_bytes = 0
         /\ Drained.state \in {"init", "reading"}
<1>1. s \in Half..(2 * Half) /\ n \in Nat
  BY DEF Layout, Placed
<1>2. b \in Nat /\ MaxPackets \in Nat /\ MaxPackets * b <= Half
  BY RxAssumption DEF RoomFor
<1>3. WriterAt(s) /\ Room(b, s)
  BY DEF Layout
<1>4. /\ Len(fifo) \in Nat /\ Taken \in Nat /\ Len(air) \in Nat
      /\ pushed = Taken + Len(fifo)
      /\ fifo = <<>> <=> Len(fifo) = 0
      /\ Len(fifo) > 0 => Receiving
      /\ Starts <=> Len(fifo) > 0 /\ Taken = 0
      /\ rx_state = "reading" <=> Receiving /\ Taken > 0
      /\ Drained.state = IF Receiving /\ pushed > 0 THEN "reading" ELSE "init"
  BY BeforeDrain
<1>5. /\ Shift = IF Starts THEN 1 ELSE 0
      /\ Drained.at = IncBy(wr_buf_addr, Len(fifo) + Shift)
      /\ Drained.start = IF Starts THEN wr_buf_addr ELSE wr_packet_addr
      /\ Drained.bytes = wr_bytes + 4 * (Len(fifo) + Shift)
  BY DrainedWords DEF Shift
<1>6. Half \in Nat /\ Half > 0 /\ MEM_SIZE = 8 * Half /\ RingBytes = 4 * Half
      /\ Words = 0..(2 * Half - 1)
  BY Halves
<1> HIDE DEF Starts, Shift, Taken, Half
<1>7. CASE ~(Receiving /\ pushed > 0)
  <2>1. fifo = <<>> /\ Len(fifo) = 0 /\ ~Starts /\ rx_state = "init" /\ Shift = 0
        /\ Drained.state = "init"
    <3>1. Len(fifo) = 0 /\ ~Starts /\ Shift = 0 /\ Drained.state = "init"
          /\ rx_state # "reading"
      BY <1>4, <1>5, <1>7
    <3> QED
      BY <1>4, <3>1 DEF WriterInv
  <2>2. \A w \in Words : Drained.mem[w] = mem[w]
    BY <2>1, DrainedWords
  <2>3. wr_bytes = 0 /\ wr_buf_addr \in Nat /\ wr_buf_addr < MEM_SIZE
    BY <2>1, <1>6 DEF WriterInv, Ring, MEM_RX_BUF
  <2>4. Drained.at = wr_buf_addr
    BY <1>5, <1>6, <2>1, <2>3 DEF IncBy
  <2> QED
    BY <1>1, <1>5, <2>1, <2>2, <2>3, <2>4
<1>8. CASE Receiving /\ pushed > 0
  <2>1. PICK size \in Nat : size = air[Len(air)].size
    BY <1>8, DoneNat
  <2>2. pushed <= size /\ size + 1 <= b /\ Done \in Nat /\ Done < MaxPackets
        /\ Drained.state = "reading"
    <3>1. Len(air) \in 1..Len(air) /\ Len(air) = Done + 1 /\ Done \in Nat
          /\ Len(air) <= MaxPackets
      BY <1>3, <1>8, DoneNat DEF Room
    <3>2. air[Len(air)].size + 1 <= b /\ pushed <= air[Len(air)].size
      BY <1>3, <1>8, <3>1 DEF Room, Receiving
    <3>3. Done < MaxPackets
      BY <1>2, <3>1
    <3>4. Drained.state = "reading"
      BY <1>4, <1>8
    <3> QED
      BY <2>1, <3>1, <3>2, <3>3, <3>4
  <2>3. /\ Done * b \in Nat /\ (Done + 1) * b = Done * b + b /\ Done * b + b <= Half
        /\ s <= Half + Done * b
    BY <1>2, <1>3, <2>2, RoomStep DEF Room
  <2>4. s + size + 1 <= 2 * Half /\ s + size + 1 <= Half + (Done + 1) * b
    <3>1. PICK x \in Nat : x = Done * b
      BY <2>3
    <3>2. (Done + 1) * b = x + b /\ x + b <= Half /\ s <= Half + x
      BY <2>3, <3>1
    <3> QED
      BY <1>1, <1>2, <1>6, <2>2, <3>2
  <2>5. \/ Starts /\ Taken = 0 /\ Shift = 1 /\ rx_state # "reading"
        \/ ~Starts /\ Taken > 0 /\ Shift = 0 /\ rx_state = "reading"
    <3>1. CASE Taken = 0
      <4>1. Len(fifo) > 0
        BY <1>4, <1>8, <3>1
      <4> QED
        BY <1>4, <1>5, <3>1, <4>1
    <3>2. CASE Taken # 0
      <4>1. Taken > 0
        BY <1>4, <3>2
      <4> QED
        BY <1>4, <1>5, <1>8, <4>1
    <3> QED
      BY <3>1, <3>2
  <2>6. PICK v \in Nat, m \in Nat :
          /\ v = (IF rx_state = "reading" THEN s + Taken + 1 ELSE s)
          /\ m = Len(fifo) + Shift
    BY <1>1, <1>4, <1>6, <2>5
  <2>7. /\ s \in Nat /\ pushed \in Nat /\ Half \in Nat /\ Taken \in Nat
        /\ Half > 0 /\ s >= Half /\ s + pushed + 1 <= 2 * Half
        /\ v + m = s + pushed + 1 /\ v >= s
        /\ wr_buf_addr = Address(v) /\ wr_bytes = 4 * (v - s)
        /\ \/ Starts /\ Taken = 0 /\ Shift = 1 /\ v = s
           \/ ~Starts /\ Taken > 0 /\ Shift = 0 /\ v = s + Taken + 1 /\ rx_state = "reading"
    <3>1. wr_buf_addr = Address(v) /\ wr_bytes = 4 * (v - s)
      BY <1>3, <2>6 DEF WriterAt, NextWord
    <3>2. \/ Starts /\ Taken = 0 /\ Shift = 1 /\ v = s
          \/ ~Starts /\ Taken > 0 /\ Shift = 0 /\ v = s + Taken + 1 /\ rx_state = "reading"
      BY <2>5, <2>6
    <3>3. s \in Nat /\ s >= Half /\ Taken \in Nat /\ Len(fifo) \in Nat
          /\ pushed = Taken + Len(fifo) /\ m = Len(fifo) + Shift /\ Half \in Nat
          /\ Half > 0 /\ size \in Nat /\ pushed <= size /\ s + size + 1 <= 2 * Half
      BY <1>1, <1>4, <1>6, <2>1, <2>2, <2>4, <2>6
    <3>4. /\ pushed \in Nat /\ s + pushed + 1 <= 2 * Half
          /\ v + m = s + pushed + 1 /\ v >= s
      <4>1. \/ Taken = 0 /\ Shift = 1 /\ v = s
            \/ Shift = 0 /\ v = s + Taken + 1
        BY ONLY <3>2, Zenon
      <4> QED
        BY ONLY <3>3, <4>1
    <3> QED
      BY <3>1, <3>2, <3>3, <3>4
  <2>8. \A w \in Words :
          Drained.mem[w] = IF w \in v..(v + m - 1) THEN Written(w - v + 1) ELSE mem[w]
    <3>1. CASE m = 0
      <4>1. v..(v + m - 1) = {}
        BY ONLY <3>1, v \in Nat
      <4>2. 1..(Len(fifo) + Shift) = {}
        BY <2>6, <3>1
      <4> QED
        BY <4>1, <4>2, DrainedWords
    <3>2. CASE m # 0
      <4>1. v \in Half..(2 * Half - 1) /\ v + m <= 2 * Half
        <5>1. v \in Nat /\ m \in Nat
          OBVIOUS
        <5> QED
          BY ONLY <2>7, <3>2, <5>1
      <4>2. wr_buf_addr = 4 * v
        BY <1>6, <2>7, <4>1 DEF Address
      <4> QED
        BY <2>6, <4>1, <4>2, DrainedAt
    <3> QED
      BY <3>1, <3>2
  <2>9. Drained.at = Address(s + pushed + 1)
    <3>1. IncBy(Address(v), m) = Address(v + m)
      <4>1. v \in Nat /\ m \in Nat /\ Half \in Nat /\ Half > 0 /\ v >= Half
            /\ v + m <= 2 * Half
        BY <2>7
      <4>2. CASE v = 2 * Half
        <5>1. m = 0
          BY ONLY <4>1, <4>2
        <5> QED
          BY ONLY <1>6, <4>1, <4>2, <5>1 DEF IncBy, Address
      <4>3. CASE v # 2 * Half
        BY ONLY <1>6, <4>1, <4>3 DEF IncBy, Address
      <4> QED
        BY <4>2, <4>3
    <3> QED
      BY <1>5, <2>6, <2>7, <3>1
  <2>10. Drained.bytes = 4 * (pushed + 1)
    <3>1. Drained.bytes = 4 * (v - s) + 4 * m
      BY <1>5, <2>6, <2>7
    <3>2. v \in Nat /\ m \in Nat
      OBVIOUS
    <3> QED
      BY ONLY <2>7, <3>1, <3>2
  <2>11. Drained.start = 4 * s
    <3>1. CASE Starts
      <4>1. v = s /\ s # 2 * Half
        BY <2>7, <3>1
      <4> QED
        BY <1>5, <2>7, <3>1, <4>1 DEF Address
    <3>2. CASE ~Starts
      BY <1>3, <1>5, <2>7, <3>2 DEF WriterAt
    <3> QED
      BY <3>1, <3>2
  <2>12. ASSUME NEW i \in 0..(pushed - 1)
         PROVE  PartOf(Drained.mem[s + 1 + i], Len(air), i)
    <3>1. PICK x \in Nat : x = s + 1 + i
      BY <2>7
    <3>2. /\ i \in Nat /\ i < pushed /\ s \in Nat /\ v \in Nat /\ m \in Nat
          /\ Taken \in Nat /\ x = s + 1 + i
      BY <2>7, <3>1
    <3>3. x \in 0..(2 * Half - 1) /\ x \in Words /\ x < v + m
      <4>1. /\ Half \in Nat /\ pushed \in Nat /\ s + pushed + 1 <= 2 * Half
            /\ v + m = s + pushed + 1
        BY <2>7
      <4>2. x \in 0..(2 * Half - 1) /\ x < v + m
        BY ONLY <3>2, <4>1
      <4> QED
        BY <1>6, <4>2
    <3>4. CASE x < v
      <4>1. rx_state = "reading" /\ i < Taken
        BY <2>7, <3>2, <3>4
      <4>2. PartOf(mem[x], Len(air), i)
        BY <1>3, <3>2, <4>1 DEF WriterAt, Holds
      <4>3. ~(x \in v..(v + m - 1))
        BY ONLY <3>2, <3>4
      <4> QED
        BY <2>8, <3>1, <3>3, <4>2, <4>3
    <3>5. CASE x >= v
      <4>1. PICK j \in Int : j = x - v + 1
        BY <3>2
      <4>2. Drained.mem[x] = Written(j)
        <5>1. x \in v..(v + m - 1)
          BY ONLY <3>2, <3>3, <3>5, x \in Nat
        <5> QED
          BY <2>8, <3>3, <4>1, <5>1
      <4>3. CASE Starts
        <5>1. j = i + 2 /\ Shift = 1 /\ Taken = 0
          BY <2>7, <3>2, <4>1, <4>3
        <5>2. CASE i = 0
          BY <3>1, <4>2, <4>3, <5>1, <5>2 DEF Written, PartOf
        <5>3. CASE i # 0
          <6>1. j # 1 /\ j # 2 /\ Taken + j - Shift - 1 = i
            BY <3>2, <5>1, <5>3
          <6> QED
            BY <3>1, <4>2, <5>3, <6>1 DEF Written, PartOf, Data
        <5> QED
          BY <5>2, <5>3
      <4>4. CASE ~Starts
        <5>1. /\ Taken > 0 /\ Shift = 0 /\ v = s + Taken + 1
          BY <2>7, <4>4
        <5>2. Taken + j - Shift - 1 = i /\ i # 0
          BY ONLY <3>2, <3>5, <4>1, <5>1
        <5> QED
          BY <3>1, <4>2, <4>4, <5>2 DEF Written, PartOf, Data
      <4> QED
        BY <4>3, <4>4
    <3> QED
      BY <3>2, <3>4, <3>5
  <2>13. \A w \in Words : w < s => Drained.mem[w] = mem[w]
    <3> SUFFICES ASSUME NEW w \in Words, w < s PROVE Drained.mem[w] = mem[w]
      OBVIOUS
    <3>1. ~(w \in v..(v + m - 1))
      BY <1>6, <2>7
    <3> QED
      BY <2>8, <3>1
  <2> QED
    BY <1>1, <1>8, <2>1, <2>2, <2>4, <2>9, <2>10, <2>11, <2>12, <2>13
<1> QED
  BY <1>7, <1>8

\* IRQ_RX_FIFO_ALMOST_FULL: the packet being received grows.
LEMMA DataLaid ==
  ASSUME NEW b, RoomFor(b), NEW n, NEW id, NEW at, Layout(b, n, id, at),
         RxInv, RxInv', RxData
  PROVE  Layout(b, n, id, at)'
<1>1. /\ mem' = Drained.mem /\ wr_buf_addr' = Drained.at /\ wr_packet_addr' = Drained.start
      /\ wr_bytes' = Drained.bytes /\ rx_state' = Drained.state
      /\ fifo' = <<>> /\ pushed' = pushed /\ air' = air
  BY DEF RxData, receiver
<1>2. Done' = Done /\ Taken' = pushed
  <2>1. Len(fifo') = 0 /\ pushed \in Nat
    BY <1>1 DEF RxInv, AirInv
  <2> QED
    BY <1>1, <2>1 DEF Done, Receiving, Taken
<1>3. PICK s : s = at[n + 1]
  OBVIOUS
<1> HIDE DEF Done, Taken, Receiving
<1>4. /\ s \in Half..(2 * Half)
      /\ \A w \in Words : w < s => Drained.mem[w] = mem[w]
      /\ Drained.state = "reading" =>
           /\ Drained.at = Address(s + pushed + 1)
           /\ Drained.bytes = 4 * (pushed + 1) /\ Drained.start = 4 * s
           /\ \A i \in 0..(pushed - 1) : PartOf(Drained.mem[s + 1 + i], Len(air), i)
      /\ Drained.state = "init" =>
           /\ rx_state = "init" /\ Drained.at = wr_buf_addr
           /\ Drained.bytes = 0 /\ wr_bytes = 0
      /\ Drained.state \in {"init", "reading"}
  BY <1>3, DrainedRing DEF RxInv
<1>5. Placed(n, id, at)'
  <2>1. Done <= Done'
    BY <1>2, DoneNat DEF RxInv
  <2> QED
    BY <1>1, <1>3, <1>4, <2>1, PlacedStays DEF Layout, RxInv
<1>6. Room(b, s)'
  BY <1>1, <1>2, <1>3 DEF Layout, Room
<1>7. WriterAt(s)'
  <2>1. s \in Nat /\ Half \in Nat /\ pushed \in Nat
    BY <1>4, Halves DEF RxInv, AirInv
  <2>2. CASE Drained.state = "reading"
    <3>1. NextWord(s)' = s + pushed + 1
      BY <1>1, <1>2, <2>2 DEF NextWord
    <3>2. PICK p : p = Len(air)
      OBVIOUS
    <3>3. PICK t : t = pushed
      OBVIOUS
    <3>4. Holds(p, s, t)'
      BY <1>1, <1>4, <2>2, <3>2, <3>3 DEF Holds, PartOf
    <3>5. Len(air)' = p /\ Taken' = t
      BY <1>1, <1>2, <3>2, <3>3
    <3>6. Holds(Len(air), s, Taken)'
      BY <3>4, <3>5
    <3>7. wr_bytes' = 4 * (NextWord(s)' - s) /\ wr_buf_addr' = Address(NextWord(s)')
      BY <1>1, <1>4, <2>1, <2>2, <3>1
    <3> QED
      BY <1>1, <1>4, <2>2, <3>6, <3>7 DEF WriterAt, Address
  <2>3. CASE Drained.state = "init"
    <3>1. WriterAt(s)
      BY <1>3 DEF Layout
    <3>2. NextWord(s)' = s /\ NextWord(s) = s
      BY <1>1, <1>4, <2>3 DEF NextWord
    <3> QED
      BY <1>1, <1>4, <2>1, <2>3, <3>1, <3>2 DEF WriterAt, Address
  <2> QED
    BY <1>4, <2>2, <2>3
<1> QED
  BY <1>3, <1>5, <1>6, <1>7 DEF Layout

\* A packet more lies in the ring.
Longer(f, n, x) == [k \in 1..(n + 1) |-> IF k = n + 1 THEN x ELSE f[k]]

LEMMA PlacedMore ==
  ASSUME NEW n, NEW id, NEW at, Placed(n, id, at)', NEW p, NEW s, NEW size \in Nat \ {0},
         s = at[n + 1], s + size + 1 <= 2 * Half,
         \A k \in 1..n : id[k] < p, p \in 1..Done', air'[p].size = size,
         mem'[s] = Marker(4 * (size + 1)), Holds(p, s, size)'
  PROVE  Placed(n + 1, Longer(id, n, p), Longer(at, n + 1, s + size + 1))'
<1> DEFINE id2 == Longer(id, n, p)
           at2 == Longer(at, n + 1, s + size + 1)
<1>1. /\ n \in Nat /\ id \in [1..n -> 1..Done'] /\ at \in [1..(n + 1) -> Half..(2 * Half)]
      /\ \A k \in 1..n :
           /\ air'[id[k]].size > 0 /\ at[k + 1] = at[k] + air'[id[k]].size + 1
           /\ mem'[at[k]] = Marker(4 * (air'[id[k]].size + 1))
           /\ Holds(id[k], at[k], air[id[k]].size)'
      /\ \A j, k \in 1..n : j < k => id[j] < id[k]
      /\ \A k \in 1..(n + 1) : at[k] <= at[n + 1]
      /\ Half \in Nat /\ s \in Half..(2 * Half)
  <2>1. n \in Nat /\ at \in [1..(n + 1) -> Half..(2 * Half)]
    BY DEF Placed
  <2>2. s \in Half..(2 * Half)
    BY <2>1
  <2> QED
    BY <2>2, Halves DEF Placed
<1>2. /\ n + 1 \in Nat /\ (n + 1) + 1 = n + 2 /\ n + 1 # n + 2
      /\ \A k \in 1..(n + 1) : k # n + 2 /\ k \in 1..(n + 2)
                               /\ k + 1 \in 1..(n + 2) /\ (k + 1 = n + 2 <=> k = n + 1)
      /\ \A k \in 1..n : k # n + 1 /\ k \in 1..(n + 1) /\ k + 1 \in 1..(n + 1)
      /\ \A k \in 1..(n + 1) : k = n + 1 \/ k \in 1..n
      /\ \A k \in 1..(n + 2) : k = n + 2 \/ k \in 1..(n + 1)
  BY ONLY <1>1
<1>3. /\ \A k \in 1..n : id2[k] = id[k]
      /\ id2[n + 1] = p /\ id2 \in [1..(n + 1) -> 1..Done']
  BY <1>1, <1>2 DEF Longer
<1>4. /\ \A k \in 1..(n + 1) : at2[k] = at[k]
      /\ at2[n + 2] = s + size + 1 /\ at2 \in [1..(n + 2) -> Half..(2 * Half)]
  <2>1. s + size + 1 \in Half..(2 * Half)
    BY <1>1
  <2> QED
    BY <1>1, <1>2, <2>1 DEF Longer
<1> HIDE DEF id2, at2
<1>5. ASSUME NEW k \in 1..(n + 1)
      PROVE  /\ air'[id2[k]].size > 0 /\ at2[k + 1] = at2[k] + air'[id2[k]].size + 1
             /\ mem'[at2[k]] = Marker(4 * (air'[id2[k]].size + 1))
             /\ Holds(id2[k], at2[k], air[id2[k]].size)'
  <2>1. CASE k = n + 1
    <3>1. id2[k] = p /\ at2[k] = s /\ at2[k + 1] = s + size + 1
      BY <1>2, <1>3, <1>4, <2>1
    <3>2. Holds(id2[k], at2[k], air[id2[k]].size)' <=> Holds(p, s, size)'
      BY <3>1
    <3> QED
      BY <3>1, <3>2
  <2>2. CASE k \in 1..n
    <3>1. id2[k] = id[k] /\ at2[k] = at[k] /\ at2[k + 1] = at[k + 1]
      BY <1>2, <1>3, <1>4, <2>2
    <3> QED
      BY <1>1, <2>2, <3>1
  <2>3. k = n + 1 \/ k \in 1..n
    BY <1>1
  <2> QED
    BY ONLY <2>1, <2>2, <2>3
<1>6. \A j, k \in 1..(n + 1) : j < k => id2[j] < id2[k]
  <2> SUFFICES ASSUME NEW j \in 1..(n + 1), NEW k \in 1..(n + 1), j < k
               PROVE  id2[j] < id2[k]
    OBVIOUS
  <2>1. j \in 1..n
    BY <1>1
  <2>2. id2[j] = id[j]
    BY <1>3, <2>1
  <2>3. CASE k = n + 1
    BY <1>3, <2>1, <2>2, <2>3
  <2>4. CASE k \in 1..n
    BY <1>1, <1>3, <2>1, <2>2, <2>4
  <2>5. k = n + 1 \/ k \in 1..n
    BY <1>1
  <2> QED
    BY <2>3, <2>4, <2>5
<1>7. \A k \in 1..(n + 2) : at2[k] <= at2[n + 2]
  <2> SUFFICES ASSUME NEW k \in 1..(n + 2) PROVE at2[k] <= s + size + 1
    BY <1>4
  <2>1. CASE k = n + 2
    BY <1>1, <1>4, <2>1
  <2>2. CASE k \in 1..(n + 1)
    <3>1. at2[k] = at[k] /\ at[k] <= s /\ at[k] \in Nat
      BY <1>1, <1>4, <2>2
    <3> QED
      BY <1>1, <3>1
  <2> QED
    BY <1>2, <2>1, <2>2
<1>8. Placed(n + 1, id2, at2)'
  <2>1. \A k \in 1..(n + 1) : Holds(id2[k], at2[k], air[id2[k]].size)'
    BY <1>5
  <2>2. at2 \in [1..((n + 1) + 1) -> Half..(2 * Half)]
        /\ \A k \in 1..((n + 1) + 1) : at2[k] <= at2[(n + 1) + 1]
    BY <1>2, <1>4, <1>7
  <2> QED
    BY <1>2, <1>3, <1>5, <1>6, <2>1, <2>2 DEF Placed
<1> QED
  BY <1>8 DEF id2, at2

\* IRQ_RX_PKT_READY: the packet lies in the ring behind the others, unless it
\* had no word.
LEMMA PacketLaid ==
  ASSUME NEW b, RoomFor(b), NEW n, NEW id, NEW at, Layout(b, n, id, at),
         RxInv, RxInv', RxReady
  PROVE  /\ Done' = Done + 1 /\ air' = air
         /\ \/ packet_ready' = packet_ready /\ Layout(b, n, id, at)'
            \/ /\ packet_ready' = packet_ready + 1
               /\ \E p, e : /\ p = Done + 1
                            /\ Layout(b, n + 1, Longer(id, n, p), Longer(at, n + 1, e))'
<1>1. /\ pkt_ready /\ fifo' = <<>> /\ pushed' = pushed + 1
      /\ wr_buf_addr' = Drained.at /\ wr_packet_addr' = Drained.start /\ wr_bytes' = 0
      /\ IF Drained.bytes # 0
         THEN /\ mem' = [Drained.mem EXCEPT ![Word(Drained.start)] = Marker(Drained.bytes)]
              /\ rx_state' = "init" /\ packet_ready' = packet_ready + 1
         ELSE UNCHANGED <<mem, rx_state, packet_ready>>
      /\ air' = air
  BY DEF RxReady
<1>2. PICK size \in Nat : size = air[Len(air)].size
  BY <1>1, DoneNat DEF RxInv, AirInv
<1>3. /\ Receiving /\ ~Receiving' /\ pushed = size /\ pushed \in Nat
      /\ Done' = Done + 1 /\ Len(air) = Done + 1 /\ Done \in Nat
      /\ air # <<>>
  <2>1. Receiving /\ pushed = size /\ pushed \in Nat
    BY <1>1, <1>2 DEF RxInv, AirInv
  <2>2. ~Receiving'
    BY <1>1, <1>2, <2>1 DEF Receiving
  <2>3. Len(air) = Done + 1 /\ Done \in Nat
    BY <2>1, DoneNat DEF RxInv
  <2> QED
    BY <1>1, <2>1, <2>2, <2>3 DEF Done, Receiving
<1>4. PICK s : s = at[n + 1]
  OBVIOUS
<1>5. PICK p \in Nat : p = Len(air) /\ p = Done + 1
  BY <1>3
<1> HIDE DEF Done, Receiving
<1>6. /\ s \in Half..(2 * Half)
      /\ \A w \in Words : w < s => Drained.mem[w] = mem[w]
      /\ Drained.state = "reading" =>
           /\ pushed > 0
           /\ s + size + 1 <= 2 * Half
           /\ s + size + 1 <= Half + (Done + 1) * b
           /\ Drained.at = Address(s + pushed + 1)
           /\ Drained.bytes = 4 * (pushed + 1) /\ Drained.start = 4 * s
           /\ \A i \in 0..(pushed - 1) : PartOf(Drained.mem[s + 1 + i], p, i)
      /\ Drained.state = "init" =>
           /\ rx_state = "init" /\ Drained.at = wr_buf_addr
           /\ Drained.start = wr_packet_addr
           /\ Drained.bytes = 0 /\ wr_bytes = 0
      /\ Drained.state \in {"init", "reading"}
  BY <1>2, <1>4, <1>5, DrainedRing DEF RxInv
<1>7. b \in Nat /\ Half \in Nat /\ Words = 0..(2 * Half - 1) /\ s \in Nat
  BY <1>6, Halves DEF RoomFor
<1>8. CASE Drained.state = "init"
  <2>1. UNCHANGED <<mem, writer>> /\ packet_ready' = packet_ready
    BY <1>1, <1>6, <1>8 DEF writer
  <2>2. Layout(b, n, id, at)'
    <3>1. /\ Done <= Done' /\ \A k \in 1..Done : air'[k] = air[k]
          /\ ~(rx_state = "reading")
          /\ AirInv /\ AirInv'
      BY <1>1, <1>3, <1>6, <1>8 DEF RxInv
    <3>2. Len(air') <= MaxPackets /\ \A k \in 1..Len(air') : air'[k].size + 1 <= b
      BY <1>1 DEF Layout, Room
    <3> QED
      BY <1>7, <2>1, <3>1, <3>2, LayoutStays
  <2> QED
    BY <1>1, <1>3, <2>1, <2>2
<1>9. CASE Drained.state = "reading"
  <2>1. /\ size > 0 /\ s + size + 1 <= 2 * Half /\ size \in Nat \ {0}
        /\ Word(Drained.start) = s /\ s \in Words
        /\ Drained.bytes = 4 * (size + 1) /\ Drained.bytes # 0
    <3>1. s \in 0..(2 * Half - 1) /\ size > 0 /\ s + size + 1 <= 2 * Half
      BY <1>3, <1>6, <1>7, <1>9
    <3> QED
      BY <1>3, <1>6, <1>7, <1>9, <3>1, WordAt
  <2>2. /\ mem' = [Drained.mem EXCEPT ![s] = Marker(4 * (size + 1))]
        /\ rx_state' = "init" /\ packet_ready' = packet_ready + 1
    BY <1>1, <2>1
  <2>3. /\ mem'[s] = Marker(4 * (size + 1))
        /\ \A w \in Words : w # s => mem'[w] = Drained.mem[w]
    <3>1. Drained.mem = [w \in Words |-> Drained.mem[w]]
      BY DrainedWords DEF RxInv
    <3>2. PICK m : m = Drained.mem
      OBVIOUS
    <3>3. DOMAIN m = Words
      BY <3>1, <3>2
    <3>4. mem' = [m EXCEPT ![s] = Marker(4 * (size + 1))]
      BY <2>2, <3>2
    <3> QED
      BY <2>1, <3>2, <3>3, <3>4
  <2>4. Placed(n, id, at)'
    <3>1. \A w \in Words : w < s => mem'[w] = mem[w]
      <4> SUFFICES ASSUME NEW w \in Words, w < s PROVE mem'[w] = mem[w]
        OBVIOUS
      <4>1. w # s
        BY <1>7
      <4> QED
        BY <1>6, <2>3, <4>1
    <3>2. Done <= Done'
      BY <1>3
    <3> QED
      BY <1>1, <1>4, <3>1, <3>2, PlacedStays DEF Layout, RxInv
  <2>5. Holds(p, s, size)'
    <3> SUFFICES ASSUME NEW i \in 0..(size - 1) PROVE PartOf(mem[s + 1 + i], p, i)'
      BY DEF Holds
    <3>1. PICK x \in Nat : x = s + 1 + i
      BY <1>7
    <3>2. x \in Words /\ x # s
      <4>1. x \in 0..(2 * Half - 1) /\ x # s
        BY <1>7, <2>1, <3>1
      <4> QED
        BY <1>7, <4>1
    <3>3. PartOf(Drained.mem[x], p, i)
      BY <1>3, <1>6, <1>9, <3>1
    <3>4. mem'[x] = Drained.mem[x]
      BY <2>3, <3>2
    <3> QED
      BY <3>1, <3>3, <3>4 DEF PartOf
  <2>6. \A k \in 1..n : id[k] < p
    <3>1. id \in [1..n -> 1..Done]
      BY DEF Layout, Placed
    <3> QED
      BY <1>3, <1>5, <3>1
  <2>7. p \in 1..Done' /\ air'[p].size = size
    BY <1>1, <1>2, <1>3, <1>5
  <2>8. Placed(n + 1, Longer(id, n, p), Longer(at, n + 1, s + size + 1))'
    BY <1>4, <2>1, <2>3, <2>4, <2>5, <2>6, <2>7, PlacedMore
  <2>9. PICK at2 : at2 = Longer(at, n + 1, s + size + 1)
    OBVIOUS
  <2>10. at2[(n + 1) + 1] = s + size + 1
    <3>1. n \in Nat
      BY DEF Layout, Placed
    <3>2. (n + 1) + 1 \in 1..((n + 1) + 1)
      BY <3>1
    <3> QED
      BY <2>9, <3>2 DEF Longer
  <2>11. WriterAt(s + size + 1)'
    <3>1. NextWord(s + size + 1)' = s + size + 1
      BY <2>2 DEF NextWord
    <3>2. wr_buf_addr' = Address(s + size + 1) /\ wr_bytes' = 0
      BY <1>1, <1>3, <1>6, <1>9
    <3>3. 4 * ((s + size + 1) - (s + size + 1)) = 0
      BY <1>7
    <3> QED
      BY <2>2, <3>1, <3>2, <3>3 DEF WriterAt, Address
  <2>12. Room(b, s + size + 1)'
    BY <1>1, <1>3, <1>6, <1>9 DEF Layout, Room
  <2>13. Layout(b, n + 1, Longer(id, n, p), at2)'
    BY <2>8, <2>9, <2>10, <2>11, <2>12 DEF Layout
  <2> QED
    BY <1>1, <1>3, <1>5, <2>2, <2>9, <2>13
<1> QED
  BY <1>6, <1>8, <1>9

-----------------------------------------------------------------------------
(* The packets in the ring, read off its markers.                          *)

\* A set of numbers has a least one.
LEMMA LeastNumber ==
  ASSUME NEW T, T \subseteq Nat, T # {}
  PROVE  \E m \in T : \A k \in T : ~(k < m)
<1> DEFINE R == {ss \in Nat \X Nat : ss[1] < ss[2]}
<1>1. IsWellFoundedOn(R, Nat)
  BY NatLessThanWellFounded DEF OpToRel
<1> HIDE DEF R
<1>2. PICK x \in T : \A y \in T : ~(<<y, x>> \in R)
  BY <1>1, WFMin
<1>3. ASSUME NEW k \in T, k < x PROVE FALSE
  <2>1. <<k, x>> \in R
    BY <1>3 DEF R
  <2> QED
    BY <1>2, <2>1
<1> QED
  BY <1>3

\* What follows one marker after another from rd_packet_addr on is PacketAddr.
LEMMA AddressesFollow ==
  ASSUME packet_ready \in Nat, NEW f,
         f = [k \in 1..(packet_ready + 1) |->
                IF k = 1 THEN rd_packet_addr
                ELSE f[k - 1] + MarkerOf(mem[Word(f[k - 1])])]
  PROVE  PacketAddr = f
<1> DEFINE D == 1..(packet_ready + 1)
           Along(g) == [k \in D |->
                          IF k = 1 THEN rd_packet_addr
                          ELSE g[k - 1] + MarkerOf(mem[Word(g[k - 1])])]
<1>1. PacketAddr = CHOOSE g : g = Along(g)
  BY DEF PacketAddr
<1>2. PICK g : g = PacketAddr
  OBVIOUS
<1>3. g = Along(g) /\ f = Along(f)
  BY <1>1, <1>2
<1>4. /\ \A k \in D : f[k] = IF k = 1 THEN rd_packet_addr
                             ELSE f[k - 1] + MarkerOf(mem[Word(f[k - 1])])
      /\ \A k \in D : g[k] = IF k = 1 THEN rd_packet_addr
                             ELSE g[k - 1] + MarkerOf(mem[Word(g[k - 1])])
      /\ f = [k \in D |-> f[k]] /\ g = [k \in D |-> g[k]]
  BY <1>3
<1> DEFINE T == {k \in D : f[k] # g[k]}
<1>5. ASSUME T # {} PROVE FALSE
  <2>1. T \subseteq Nat
    OBVIOUS
  <2>2. PICK m \in T : \A k \in T : ~(k < m)
    BY <1>5, <2>1, LeastNumber
  <2>3. m \in D /\ m # 1 /\ f[m] # g[m]
    BY <1>4, <2>2
  <2>4. m - 1 \in D /\ m - 1 < m
    BY <2>3
  <2>5. f[m - 1] = g[m - 1]
    BY <2>2, <2>4
  <2>6. /\ f[m] = f[m - 1] + MarkerOf(mem[Word(f[m - 1])])
        /\ g[m] = g[m - 1] + MarkerOf(mem[Word(g[m - 1])])
    BY ONLY <1>4, <2>3, Zenon
  <2> QED
    BY ONLY <2>3, <2>5, <2>6, Zenon
<1>6. \A k \in D : f[k] = g[k]
  BY <1>5
<1>7. f = g
  BY <1>4, <1>6
<1> QED
  BY <1>2, <1>7

\* The reader: the last packet_ready packets that were laid down are still to
\* be taken, and what the host was told is what it will take.
Oldest(n) == n + 1 - packet_ready

QueueAt(n, id, at) ==
  /\ ~stale /\ packet_ready \in 0..n /\ rd_packet_addr = 4 * at[Oldest(n)]
  /\ found => /\ rd_packet_marker = 4 * (air[id[Oldest(n)]].size + 1)
               /\ rd_packet_header = Header(id[Oldest(n)])
  /\ served.pkt.id \in 0..Done
  /\ \A k \in Oldest(n)..n : served.pkt.id < id[k]

\* The words of a packet's marker and header.
LEMMA PacketWords ==
  ASSUME AirInv, NEW n, NEW id, NEW at, Placed(n, id, at), NEW k \in 1..n
  PROVE  /\ id[k] \in 1..Done /\ id[k] \in 1..Len(air) /\ air[id[k]].size \in Nat \ {0}
         /\ at[k] \in Nat /\ at[k + 1] \in Nat /\ at[k] + 2 <= at[k + 1]
         /\ 4 * at[k + 1] = 4 * at[k] + 4 * (air[id[k]].size + 1)
         /\ at[k + 1] <= at[n + 1] /\ at[n + 1] \in Nat /\ at[n + 1] <= 2 * Half
         /\ Half <= at[k]
         /\ Word(4 * at[k]) = at[k] /\ Word(Step(4 * at[k])) = at[k] + 1
         /\ (4 * at[k]) % MEM_SIZE = 4 * at[k]
         /\ MarkerOf(mem[Word(4 * at[k])]) = 4 * (air[id[k]].size + 1)
         /\ mem[Word(Step(4 * at[k]))] = Header(id[k])
<1>0. Half \in Nat /\ Half > 0 /\ RingBytes = 4 * Half /\ MEM_SIZE = 8 * Half
  BY Halves
<1>1. /\ Half \in Nat
      /\ n \in Nat /\ id \in [1..n -> 1..Done] /\ at \in [1..(n + 1) -> Half..(2 * Half)]
  BY Halves DEF Placed
<1>2. k \in 1..(n + 1) /\ k + 1 \in 1..(n + 1) /\ n + 1 \in 1..(n + 1)
  BY <1>1
<1>3. /\ air[id[k]].size > 0 /\ at[k + 1] = at[k] + air[id[k]].size + 1
      /\ mem[at[k]] = Marker(4 * (air[id[k]].size + 1))
      /\ Holds(id[k], at[k], air[id[k]].size)
      /\ at[k + 1] <= at[n + 1]
  BY <1>2 DEF Placed
<1>4. id[k] \in 1..Done /\ id[k] \in 1..Len(air) /\ air[id[k]].size \in Nat
  <2>1. id[k] \in 1..Done
    BY <1>1
  <2>2. Done \in Nat /\ Len(air) \in Nat /\ Done <= Len(air)
    BY DoneNat
  <2>3. id[k] \in 1..Len(air)
    BY <2>1, <2>2
  <2> QED
    BY <2>1, <2>3, DoneNat
<1>5. PICK size \in Nat \ {0} : size = air[id[k]].size
  BY <1>3, <1>4
<1>6. PICK s \in Half..(2 * Half) : s = at[k]
  BY <1>1, <1>2
<1>7. PICK e \in Half..(2 * Half) : e = at[n + 1]
  BY <1>1, <1>2
<1>8. at[k + 1] = s + size + 1 /\ s + size + 1 <= e
  BY <1>3, <1>5, <1>6, <1>7
<1>9. s \in 0..(2 * Half - 1) /\ s + 1 \in 0..(2 * Half - 1) /\ s \in Nat /\ size \in Nat
      /\ e \in Nat /\ e <= 2 * Half /\ s >= Half
  <2>1. s \in Half..(2 * Half) /\ e \in Half..(2 * Half) /\ size \in Nat /\ size > 0
    BY <1>5
  <2> QED
    BY ONLY <1>0, <1>8, <2>1
<1>10. Word(4 * s) = s /\ Word(4 * (s + 1)) = s + 1
  BY <1>9, WordAt
<1>11. Step(4 * s) = 4 * (s + 1) /\ (4 * s) % (8 * Half) = 4 * s
  <2>1. (4 * s + 4) % (4 * Half) = 4 * s + 4 - 4 * Half
    BY ONLY <1>0, <1>9
  <2>2. 4 * s + 4 - 4 * Half # 0 /\ 4 * s + 4 = 4 * (s + 1)
    BY ONLY <1>0, <1>9
  <2>3. (4 * s) % (8 * Half) = 4 * s
    BY ONLY <1>0, <1>9
  <2> QED
    BY <1>0, <2>1, <2>2, <2>3 DEF Step
<1>12. MarkerOf(mem[s]) = 4 * (size + 1)
  BY <1>3, <1>5, <1>6 DEF Marker, MarkerOf
<1>13. mem[s + 1] = Header(id[k])
  <2>1. Holds(id[k], s, size)
    BY <1>3, <1>5, <1>6
  <2>2. 0 \in 0..(size - 1) /\ s + 1 + 0 = s + 1
    BY <1>9, <1>5
  <2>3. PartOf(mem[s + 1 + 0], id[k], 0)
    BY <2>1, <2>2 DEF Holds
  <2> QED
    BY <2>2, <2>3 DEF PartOf
<1>14. s + 2 <= s + size + 1 /\ 4 * (s + size + 1) = 4 * s + 4 * (size + 1)
       /\ s + size + 1 \in Nat
  <2>1. size >= 1
    BY <1>5
  <2> QED
    BY ONLY <1>9, <2>1
<1> QED
  BY <1>0, <1>4, <1>5, <1>6, <1>7, <1>8, <1>9, <1>10, <1>11, <1>12, <1>13, <1>14

\* The packet the reader finds.
LEMMA HeadFound ==
  ASSUME RxInv, NEW n, NEW id, NEW at, Placed(n, id, at), QueueAt(n, id, at),
         packet_ready # 0
  PROVE  /\ Oldest(n) \in 1..n /\ id[Oldest(n)] \in 1..Done
         /\ id[Oldest(n)] \in 1..Len(air)
         /\ HeadMarker = 4 * (air[id[Oldest(n)]].size + 1)
         /\ HeadHeader = Header(id[Oldest(n)])
         /\ Accepted(HeadHeader, HeadMarker) <=> Packet(id[Oldest(n)]).good
<1>1. PICK k \in 1..n : k = Oldest(n) /\ rd_packet_addr = 4 * at[k]
  <2>1. n \in Nat /\ packet_ready \in 0..n
    BY DEF Placed, QueueAt
  <2>2. Oldest(n) \in 1..n
    BY <2>1 DEF Oldest
  <2> QED
    BY <2>2 DEF QueueAt
<1>2. /\ id[k] \in 1..Done /\ id[k] \in 1..Len(air) /\ air[id[k]].size \in Nat \ {0}
      /\ (4 * at[k]) % MEM_SIZE = 4 * at[k]
      /\ MarkerOf(mem[Word(4 * at[k])]) = 4 * (air[id[k]].size + 1)
      /\ mem[Word(Step(4 * at[k]))] = Header(id[k])
  BY PacketWords DEF RxInv
<1>3. HeadMarker = 4 * (air[id[k]].size + 1) /\ HeadHeader = Header(id[k])
  BY <1>1, <1>2 DEF HeadMarker, HeadHeader
<1>4. Accepted(HeadHeader, HeadMarker) <=> Packet(id[k]).good
  <2>1. PICK p \in 1..Len(air) : p = id[k]
    BY <1>2
  <2>2. PICK size \in Nat \ {0} : size = air[p].size
    BY <1>2, <2>1
  <2>3. air[p].len \in Nat
    <3>1. air[p] \in Arrived
      BY DEF RxInv, AirInv
    <3>2. air[p].len \in 0..255
      BY <3>1 DEF Arrived
    <3>3. PICK l \in 0..255 : l = air[p].len
      BY <3>2
    <3>4. l \in Nat
      OBVIOUS
    <3> QED
      BY <3>3, <3>4
  <2>4. /\ CrcOk(Header(p)) <=> air[p].ok
        /\ LengthOf(Header(p)) = air[p].len
    BY DEF CrcOk, LengthOf, Header
  <2>5. /\ Packet(p).good <=> air[p].ok /\ 4 * (size - 1) >= air[p].len
    BY <2>2 DEF Packet
  <2>6. ~(4 * (size + 1) < 8) /\ 4 * (size + 1) - 8 = 4 * (size - 1)
    OBVIOUS
  <2>7. Accepted(HeadHeader, HeadMarker)
          <=> air[p].ok /\ 4 * (size - 1) >= air[p].len
    BY <1>3, <2>1, <2>2, <2>4, <2>6 DEF Accepted
  <2> QED
    BY <2>1, <2>5, <2>7
<1> QED
  BY <1>1, <1>2, <1>3, <1>4

\* What waits to be taken.
LastPlaced ==
  \A n, id, at :
    RxInv /\ Placed(n, id, at) /\ QueueAt(n, id, at) =>
      Waiting = [k \in 1..packet_ready |-> Packet(id[(n - packet_ready) + k])]

LEMMA WaitingIs == LastPlaced
<1> SUFFICES ASSUME NEW n, NEW id, NEW at, RxInv, Placed(n, id, at), QueueAt(n, id, at)
             PROVE  Waiting = [k \in 1..packet_ready |-> Packet(id[(n - packet_ready) + k])]
  BY DEF LastPlaced
<1>1. n \in Nat /\ packet_ready \in 0..n /\ rd_packet_addr = 4 * at[n + 1 - packet_ready]
  BY DEF Placed, QueueAt, Oldest
<1>2. PICK r \in 0..n : r = packet_ready
  BY <1>1
<1>3. PICK o \in Nat : o = n - r
  BY <1>1
<1>4. rd_packet_addr = 4 * at[o + 1]
  <2>1. n + 1 - r = o + 1
    BY ONLY <1>1, <1>3, r \in 0..n
  <2> QED
    BY <1>1, <1>2, <2>1
<1>5. \A k \in 1..r : o + k \in 1..n /\ o + k + 1 = o + (k + 1)
  BY ONLY <1>1, <1>3, r \in 0..n
<1>6. ASSUME NEW k \in 1..r
      PROVE  /\ MarkerOf(mem[Word(4 * at[o + k])]) = 4 * (air[id[o + k]].size + 1)
             /\ 4 * at[o + (k + 1)] = 4 * at[o + k] + 4 * (air[id[o + k]].size + 1)
             /\ mem[Word(Step(4 * at[o + k]))] = Header(id[o + k])
  <2>1. PICK m \in 1..n : m = o + k /\ m + 1 = o + (k + 1)
    BY <1>5
  <2>2. /\ MarkerOf(mem[Word(4 * at[m])]) = 4 * (air[id[m]].size + 1)
        /\ 4 * at[m + 1] = 4 * at[m] + 4 * (air[id[m]].size + 1)
        /\ mem[Word(Step(4 * at[m]))] = Header(id[m])
    BY PacketWords DEF RxInv
  <2> QED
    BY <2>1, <2>2
<1> DEFINE f == [k \in 1..(r + 1) |-> 4 * at[o + k]]
<1>7. f = [k \in 1..(r + 1) |->
             IF k = 1 THEN rd_packet_addr ELSE f[k - 1] + MarkerOf(mem[Word(f[k - 1])])]
  <2> SUFFICES ASSUME NEW k \in 1..(r + 1)
               PROVE  4 * at[o + k] = IF k = 1 THEN rd_packet_addr
                                      ELSE f[k - 1] + MarkerOf(mem[Word(f[k - 1])])
    OBVIOUS
  <2>1. CASE k = 1
    BY <1>4, <2>1
  <2>2. CASE k # 1
    <3>1. k - 1 \in 1..r /\ k - 1 \in 1..(r + 1) /\ (k - 1) + 1 = k
      BY <2>2
    <3>2. f[k - 1] = 4 * at[o + (k - 1)]
      BY <3>1
    <3> QED
      BY <1>6, <2>2, <3>1, <3>2
  <2> QED
    BY <2>1, <2>2
<1>8. PacketAddr = f
  <2> HIDE DEF f
  <2>1. packet_ready \in Nat
    BY <1>1
  <2> QED
    BY <1>2, <1>7, <2>1, AddressesFollow
<1>9. ASSUME NEW k \in 1..r
      PROVE  mem[Word(Step(PacketAddr[k]))] = Header(id[o + k])
  <2>1. PacketAddr[k] = 4 * at[o + k]
    BY <1>8
  <2> QED
    BY <1>6, <2>1
<1>10. Waiting = [k \in 1..r |-> Packet(id[o + k])]
  <2>1. Waiting = [k \in 1..r |->
                     IF mem[Word(Step(PacketAddr[k]))].kind = "header"
                     THEN Packet(mem[Word(Step(PacketAddr[k]))].pkt)
                     ELSE [id |-> 0, good |-> FALSE]]
    BY <1>2 DEF Waiting
  <2>2. \A p : Header(p).kind = "header" /\ Header(p).pkt = p
    BY DEF Header
  <2> QED
    BY <1>9, <2>1, <2>2
<1> QED
  BY <1>2, <1>3, <1>10

LEMMA WaitingNext ==
  ASSUME NEW n, NEW id, NEW at, RxInv', Placed(n, id, at)', QueueAt(n, id, at)'
  PROVE  Waiting' = [k \in 1..packet_ready |-> Packet(id[(n - packet_ready) + k])]'
<1>1. LastPlaced'
  BY WaitingIs, PTL
<1> QED
  BY <1>1 DEF LastPlaced

LEMMA HeadAndTail ==
  ASSUME NEW r \in Nat \ {0}, NEW f, NEW s, s = [k \in 1..r |-> f[k]]
  PROVE  s # <<>> /\ Head(s) = f[1] /\ Tail(s) = [k \in 1..(r - 1) |-> f[k + 1]]
<1> DEFINE S == {f[k] : k \in 1..r}
<1>1. s \in Seq(S) /\ Len(s) = r /\ s[1] = f[1]
  OBVIOUS
<1> HIDE DEF S
<1>2. s # <<>>
  BY ONLY <1>1, r \in Nat \ {0}
<1>3. /\ Head(s) = s[1] /\ Tail(s) \in Seq(S) /\ Len(Tail(s)) = Len(s) - 1
      /\ \A i \in 1..Len(Tail(s)) : Tail(s)[i] = s[i + 1]
  BY ONLY <1>1, <1>2, HeadTailProperties
<1>4. \A k \in 1..(r - 1) : s[k + 1] = f[k + 1]
  OBVIOUS
<1>5. Tail(s) = [k \in 1..(r - 1) |-> f[k + 1]]
  <2>1. Tail(s) = [k \in 1..Len(Tail(s)) |-> Tail(s)[k]]
    BY ONLY <1>3, LenProperties
  <2> QED
    BY ONLY <1>1, <1>3, <1>4, <2>1
<1> QED
  BY <1>1, <1>2, <1>3, <1>5

LEMMA AppendIs ==
  ASSUME NEW r \in Nat, NEW f, NEW s, s = [k \in 1..r |-> f[k]]
  PROVE  Append(s, f[r + 1]) = [k \in 1..(r + 1) |-> f[k]]
<1> DEFINE S == {f[k] : k \in 1..(r + 1)}
<1>1. s \in Seq(S) /\ Len(s) = r /\ f[r + 1] \in S
  OBVIOUS
<1> HIDE DEF S
<1>2. /\ Append(s, f[r + 1]) \in Seq(S) /\ Len(Append(s, f[r + 1])) = r + 1
      /\ Append(s, f[r + 1])[r + 1] = f[r + 1]
      /\ \A j \in 1..r : Append(s, f[r + 1])[j] = s[j]
  BY ONLY <1>1, LastOf
<1>3. \A k \in 1..(r + 1) : Append(s, f[r + 1])[k] = f[k]
  <2> SUFFICES ASSUME NEW k \in 1..(r + 1) PROVE Append(s, f[r + 1])[k] = f[k]
    OBVIOUS
  <2>1. CASE k = r + 1
    BY <1>2, <2>1
  <2>2. CASE k # r + 1
    <3>1. k \in 1..r
      BY <2>2
    <3> QED
      BY <1>2, <3>1
  <2> QED
    BY <2>1, <2>2
<1>4. Append(s, f[r + 1]) = [k \in 1..Len(Append(s, f[r + 1])) |-> Append(s, f[r + 1])[k]]
  BY ONLY <1>2
<1> QED
  BY ONLY <1>2, <1>3, <1>4

-----------------------------------------------------------------------------
(* The steps of the queue.                                                 *)

\* Nobody takes a packet: the queue is what it was.
LEMMA QueueStays ==
  ASSUME RxInv, RxInv', NEW n, NEW id, NEW at, Placed(n, id, at), Placed(n, id, at)',
         QueueAt(n, id, at), UNCHANGED <<packet_ready, rd_packet_addr, served>>, ~stale',
         Done <= Done', \A p \in 1..Done : air'[p] = air[p],
         \/ ~found'
         \/ found /\ UNCHANGED <<rd_packet_marker, rd_packet_header>>
         \/ rd_packet_marker' = HeadMarker /\ rd_packet_header' = HeadHeader
  PROVE  QueueAt(n, id, at)' /\ Waiting' = Waiting
<1>1. /\ n \in Nat /\ id \in [1..n -> 1..Done] /\ Done \in Nat /\ Done' \in Nat
      /\ packet_ready \in 0..n
  BY DoneNat, DoneNext DEF Placed, QueueAt, RxInv
<1>2. PICK o : o = Oldest(n)
  OBVIOUS
<1>3. Oldest(n)' = o
  BY <1>2 DEF Oldest
<1>4. QueueAt(n, id, at)'
  <2>1. packet_ready' \in 0..n /\ rd_packet_addr' = 4 * at[o]
    BY <1>1, <1>2 DEF QueueAt
  <2>2. ASSUME found' PROVE /\ rd_packet_marker' = 4 * (air'[id[o]].size + 1)
                             /\ rd_packet_header' = Header(id[o])
    <3>1. packet_ready # 0
      BY <2>2 DEF RxInv, ReaderInv, CountInv
    <3>2. /\ id[o] \in 1..Done /\ HeadMarker = 4 * (air[id[o]].size + 1)
          /\ HeadHeader = Header(id[o])
      BY <1>2, <3>1, HeadFound
    <3>3. found => /\ rd_packet_marker = 4 * (air[id[o]].size + 1)
                    /\ rd_packet_header = Header(id[o])
      BY <1>2 DEF QueueAt
    <3>4. air'[id[o]] = air[id[o]]
      BY <3>2
    <3> QED
      BY <2>2, <3>2, <3>3, <3>4
  <2>3. served'.pkt.id \in 0..Done' /\ \A k \in o..n : served'.pkt.id < id[k]
    <3>1. served.pkt.id \in 0..Done /\ \A k \in o..n : served.pkt.id < id[k]
      BY <1>2 DEF QueueAt
    <3>2. 0..Done \subseteq 0..Done'
      BY <1>1
    <3> QED
      BY <3>1, <3>2
  <2> QED
    BY <1>3, <2>1, <2>2, <2>3 DEF QueueAt
<1>5. Waiting' = Waiting
  <2>1. PICK r \in 0..n : r = packet_ready
    BY <1>1
  <2>2. \A k \in 1..r : Packet(id[(n - r) + k])' = Packet(id[(n - r) + k])
    <3> SUFFICES ASSUME NEW k \in 1..r
                 PROVE  Packet(id[(n - r) + k])' = Packet(id[(n - r) + k])
      OBVIOUS
    <3>1. PICK i \in 1..Done : i = id[(n - r) + k]
      <4>1. (n - r) + k \in 1..n
        BY <1>1
      <4> QED
        BY <1>1, <4>1
    <3> QED
      BY <3>1 DEF Packet
  <2>3. Waiting = [k \in 1..r |-> Packet(id[(n - r) + k])]
    BY <2>1, WaitingIs DEF LastPlaced
  <2>4. Waiting' = [k \in 1..r |-> Packet(id[(n - r) + k])']
    BY <1>4, <2>1, WaitingNext
  <2> QED
    BY <2>2, <2>3, <2>4
<1> QED
  BY <1>4, <1>5

\* A packet that was laid down is the last one in the queue.
LEMMA PacketQueued ==
  ASSUME RxInv, RxInv', NEW n, NEW id, NEW at, NEW p, NEW e,
         Placed(n, id, at), QueueAt(n, id, at), p = Done + 1, Done' = Done + 1,
         Placed(n + 1, Longer(id, n, p), Longer(at, n + 1, e))',
         air' = air, packet_ready' = packet_ready + 1, Len(air) <= MaxPackets,
         UNCHANGED <<rd_packet_addr, rd_packet_marker, rd_packet_header, served, found, stale>>
  PROVE  /\ QueueAt(n + 1, Longer(id, n, p), Longer(at, n + 1, e))'
         /\ Queue!Next
<1>1. /\ n \in Nat /\ id \in [1..n -> 1..Done] /\ Done \in Nat /\ packet_ready \in 0..n
      /\ packet_ready \in Nat
  BY DoneNat DEF Placed, QueueAt, RxInv
<1>2. PICK r \in 0..n : r = packet_ready
  BY <1>1
<1>3. PICK o \in 1..(n + 1) : o = n + 1 - r
  BY <1>1
<1>4. Oldest(n) = o /\ Oldest(n + 1)' = o /\ r \in Nat /\ p \in Nat
  <2>1. (n + 1) + 1 - (r + 1) = n + 1 - r
    BY <1>1
  <2>2. packet_ready' = r + 1
    BY <1>2
  <2> QED
    BY <1>1, <1>2, <1>3, <2>1, <2>2 DEF Oldest
<1> DEFINE id2 == Longer(id, n, p)
           at2 == Longer(at, n + 1, e)
<1>5. /\ \A k \in 1..n : id2[k] = id[k] /\ id[k] \in 1..Done /\ id[k] < p
      /\ id2[n + 1] = p /\ at2[o] = at[o]
  <2>1. \A k \in 1..n : k \in 1..(n + 1) /\ k # n + 1
    BY <1>1
  <2>2. n + 1 \in 1..(n + 1) /\ o \in 1..((n + 1) + 1) /\ o # (n + 1) + 1
    BY <1>1
  <2>3. \A i \in 1..Done : i < p
    BY <1>1
  <2> QED
    BY <1>1, <2>1, <2>2, <2>3 DEF Longer
<1> HIDE DEF id2, at2
<1>6. /\ ~stale /\ rd_packet_addr = 4 * at[o]
      /\ found => /\ rd_packet_marker = 4 * (air[id[o]].size + 1)
                   /\ rd_packet_header = Header(id[o])
      /\ served.pkt.id \in 0..Done
      /\ \A k \in o..n : served.pkt.id < id[k]
  BY <1>4 DEF QueueAt
<1>7. QueueAt(n + 1, id2, at2)'
  <2>1. ~stale' /\ packet_ready' \in 0..(n + 1)
    BY <1>1, <1>6
  <2>2. rd_packet_addr' = 4 * at2[o]
    BY <1>5, <1>6
  <2>3. ASSUME found' PROVE /\ rd_packet_marker' = 4 * (air'[id2[o]].size + 1)
                             /\ rd_packet_header' = Header(id2[o])
    <3>1. packet_ready # 0
      BY <1>1, <1>6, <2>3 DEF RxInv, ReaderInv, CountInv
    <3>2. o \in 1..n
      BY <1>1, <1>2, <1>3, <3>1
    <3> QED
      BY <1>5, <1>6, <2>3, <3>2
  <2>4. served'.pkt.id \in 0..Done'
    BY <1>1, <1>6
  <2>5. ASSUME NEW k \in o..(n + 1) PROVE served'.pkt.id < id2[k]
    <3>1. served.pkt.id \in 0..Done /\ served.pkt.id < p
      BY <1>1, <1>6
    <3>2. CASE k = n + 1
      BY <1>5, <3>1, <3>2
    <3>3. CASE k # n + 1
      <4>1. k \in o..n /\ k \in 1..n
        BY <1>1, <3>3
      <4> QED
        BY <1>5, <1>6, <4>1
    <3> QED
      BY <3>2, <3>3
  <2> QED
    BY <1>4, <2>1, <2>2, <2>3, <2>4, <2>5 DEF QueueAt
<1>8. Waiting = [k \in 1..r |-> Packet(id[(n - r) + k])]
  BY <1>2, WaitingIs DEF LastPlaced
<1>9. Waiting' = [k \in 1..(r + 1) |-> Packet(id2[(n - r) + k])]
  <2>1. Placed(n + 1, id2, at2)'
    BY DEF id2, at2
  <2>2. Waiting' = [k \in 1..(packet_ready') |-> Packet(id2[((n + 1) - packet_ready) + k])']
    BY <1>7, <2>1, WaitingNext
  <2>3. packet_ready' = r + 1 /\ (n + 1) - (r + 1) = n - r
    BY <1>1, <1>2
  <2>4. \A i : Packet(i)' = Packet(i)
    BY DEF Packet
  <2>5. PICK s \in Nat : s = r + 1 /\ s = packet_ready' /\ (n + 1) - s = n - r
    BY <1>4, <2>3
  <2>6. Waiting' = [k \in 1..s |-> Packet(id2[((n + 1) - s) + k])']
    BY <2>2, <2>5
  <2> QED
    BY <2>4, <2>5, <2>6
<1>10. Waiting' = Append(Waiting, Packet(p))
  <2> DEFINE f == [k \in 1..(r + 1) |-> Packet(id2[(n - r) + k])]
  <2>1. Waiting = [k \in 1..r |-> f[k]]
    <3>1. \A k \in 1..r : k \in 1..(r + 1) /\ (n - r) + k \in 1..n
      BY <1>1
    <3> QED
      BY <1>5, <1>8, <3>1
  <2>2. f[r + 1] = Packet(p)
    <3>1. r + 1 \in 1..(r + 1) /\ (n - r) + (r + 1) = n + 1
      BY <1>1, <1>4
    <3> QED
      BY <1>5, <3>1
  <2>3. Waiting' = [k \in 1..(r + 1) |-> f[k]]
    BY <1>9
  <2> HIDE DEF f
  <2> QED
    BY <1>4, <2>1, <2>2, <2>3, AppendIs
<1>11. \A i \in DOMAIN Waiting : Waiting[i].id < p
  <2>1. \A k \in 1..r : (n - r) + k \in 1..n
    BY <1>1
  <2>2. \A i : Packet(i).id = i
    BY DEF Packet
  <2> QED
    BY <1>5, <1>8, <2>1, <2>2
<1>12. PICK good \in BOOLEAN : Packet(p) = [id |-> p, good |-> good]
  BY DEF Packet
<1>13. p \in 1..MaxPackets /\ p > served.pkt.id
  <2>1. p \in Nat /\ p > 0 /\ p <= MaxPackets /\ MaxPackets \in Nat
    <3>1. Done' <= Len(air') /\ Done' = p
      BY DEF Done
    <3>2. Len(air) \in Nat /\ MaxPackets \in Nat
      BY DoneNat, RxAssumption DEF RxInv
    <3>3. p <= Len(air)
      <4>1. Done' \in {Len(air), Len(air) - 1}
        BY DEF Done
      <4> QED
        BY <1>4, <3>2, <4>1
    <3> QED
      BY <1>1, <1>4, <3>2, <3>3
  <2>2. served.pkt.id \in 0..Done
    BY <1>6
  <2>3. p > served.pkt.id
    BY <1>1, <2>2
  <2> QED
    BY <2>1, <2>3
<1>14. Queue!Arrive([id |-> p, good |-> good])
  <2>1. Waiting' = Append(Waiting, [id |-> p, good |-> good])
    BY <1>10, <1>12
  <2> QED
    BY <1>11, <1>13, <2>1 DEF Queue!Arrive
<1>15. Queue!Next
  BY <1>13, <1>14 DEF Queue!Next
<1> QED
  BY <1>7, <1>15 DEF id2, at2

\* The oldest packet is taken.
LEMMA QueueTaken ==
  ASSUME RxInv, RxInv', NEW n, NEW id, NEW at, Placed(n, id, at), Placed(n, id, at)',
         QueueAt(n, id, at), packet_ready # 0, air' = air, pushed' = pushed,
         NEW marker, NEW header, NEW fate,
         marker = 4 * (air[id[Oldest(n)]].size + 1), header = Header(id[Oldest(n)]),
         PacketNext(marker, header, fate), found' = FALSE, ~stale',
         fate \in Queue!Fates(Packet(id[Oldest(n)]))
  PROVE  QueueAt(n, id, at)' /\ Queue!Next
<1>1. /\ n \in Nat /\ id \in [1..n -> 1..Done] /\ Done \in Nat /\ packet_ready \in 0..n
      /\ \A j, k \in 1..n : j < k => id[j] < id[k]
  BY DoneNat DEF Placed, QueueAt, RxInv
<1>2. PICK r \in 1..n : r = packet_ready
  BY <1>1
<1>3. PICK o \in 1..n : o = n + 1 - r /\ o = Oldest(n)
  BY <1>1, <1>2 DEF Oldest
<1>4. PICK i \in 1..Done : i = id[o]
  BY <1>1
<1>5. /\ rd_packet_addr = 4 * at[o]
      /\ 4 * at[o + 1] = 4 * at[o] + 4 * (air[i].size + 1)
      /\ air[i].size \in Nat
  <2>1. rd_packet_addr = 4 * at[o]
    BY <1>3 DEF QueueAt
  <2>2. /\ 4 * at[o + 1] = 4 * at[o] + 4 * (air[id[o]].size + 1)
        /\ air[id[o]].size \in Nat
    <3>1. AirInv
      BY DEF RxInv
    <3>2. /\ 4 * at[o + 1] = 4 * at[o] + 4 * (air[id[o]].size + 1)
          /\ air[id[o]].size \in Nat \ {0}
      BY ONLY <3>1, Placed(n, id, at), o \in 1..n, PacketWords
    <3> QED
      BY <3>2
  <2> QED
    BY <1>4, <2>1, <2>2
<1>6. /\ rd_packet_addr' = 4 * at[o + 1] /\ packet_ready' = r - 1
      /\ served' = [pkt |-> Packet(i), fate |-> fate]
  <2>1. marker # -1 /\ marker = 4 * (air[i].size + 1)
    BY <1>3, <1>4, <1>5
  <2>2. header.kind = "header" /\ header.pkt = i
    BY <1>3, <1>4 DEF Header
  <2> QED
    BY <1>2, <1>5, <2>1, <2>2 DEF PacketNext
<1>7. Done' = Done
  BY DEF Done, Receiving
<1>8. Oldest(n)' = o + 1
  <2>1. n + 1 - (r - 1) = o + 1
    BY <1>1, <1>3
  <2> QED
    BY <1>6, <2>1 DEF Oldest
<1>9. QueueAt(n, id, at)'
  <2>1. packet_ready' \in 0..n
    BY <1>1, <1>6
  <2>2. served'.pkt.id = i /\ i \in 0..Done'
    BY <1>1, <1>6, <1>7 DEF Packet
  <2>3. \A k \in (o + 1)..n : i < id[k]
    <3> SUFFICES ASSUME NEW k \in (o + 1)..n PROVE i < id[k]
      OBVIOUS
    <3>1. k \in 1..n /\ o < k
      BY <1>1
    <3> QED
      BY <1>1, <1>4, <3>1
  <2> QED
    BY <1>6, <1>8, <2>1, <2>2, <2>3 DEF QueueAt
<1>10. Waiting = [k \in 1..r |-> Packet(id[(n - r) + k])]
  BY <1>2, WaitingIs DEF LastPlaced
<1>11. Waiting' = [k \in 1..(r - 1) |-> Packet(id[(n - r) + (k + 1)])]
  <2>1. Waiting' = [k \in 1..(packet_ready') |-> Packet(id[(n - packet_ready) + k])']
    BY <1>9, WaitingNext
  <2>2. PICK s \in Nat : s = r - 1 /\ s = packet_ready'
    BY <1>6
  <2>3. Waiting' = [k \in 1..s |-> Packet(id[(n - s) + k])']
    BY <2>1, <2>2
  <2>4. \A k \in 1..s : (n - s) + k = (n - r) + (k + 1)
    BY <1>1, <2>2
  <2>5. \A j : Packet(j)' = Packet(j)
    BY DEF Packet
  <2> QED
    BY <2>2, <2>3, <2>4, <2>5
<1>12. Waiting # <<>> /\ Head(Waiting) = Packet(i) /\ Waiting' = Tail(Waiting)
  <2> DEFINE f == [k \in 1..r |-> Packet(id[(n - r) + k])]
  <2>1. Waiting = [k \in 1..r |-> f[k]]
    BY <1>10
  <2>2. f[1] = Packet(i)
    <3>1. 1 \in 1..r /\ (n - r) + 1 = o
      BY <1>1, <1>3
    <3> QED
      BY <1>4, <3>1
  <2>3. Waiting' = [k \in 1..(r - 1) |-> f[k + 1]]
    <3>1. \A k \in 1..(r - 1) : k + 1 \in 1..r
      BY <1>1
    <3> QED
      BY <1>11, <3>1
  <2> HIDE DEF f
  <2>4. r \in Nat \ {0}
    BY <1>1
  <2> QED
    BY <2>1, <2>2, <2>3, <2>4, HeadAndTail
<1>13. Queue!Take
  <2>1. fate \in Queue!Fates(Head(Waiting))
    BY <1>3, <1>4, <1>12
  <2> QED
    BY <1>6, <1>12, <2>1 DEF Queue!Take
<1> QED
  BY <1>9, <1>13 DEF Queue!Next

-----------------------------------------------------------------------------
(* Every step keeps the ring laid out, and is one of the queue.            *)

\* The same packets lie in the ring after a step, or one more.
Stays(b, n, id, at) == Layout(b, n, id, at) /\ QueueAt(n, id, at)

\* Nothing is written and nothing taken.
LEMMA Untaken ==
  ASSUME NEW b, RoomFor(b), RxInv, RxInv', NEW n, NEW id, NEW at, Stays(b, n, id, at),
         UNCHANGED <<mem, writer, packet_ready, rd_packet_addr, served>>, ~stale',
         Done <= Done', \A p \in 1..Done : air'[p] = air[p],
         Len(air') <= MaxPackets, \A p \in 1..Len(air') : air'[p].size + 1 <= b,
         rx_state = "reading" => Taken' = Taken /\ Len(air') = Len(air),
         \/ ~found'
         \/ found /\ UNCHANGED <<rd_packet_marker, rd_packet_header>>
         \/ rd_packet_marker' = HeadMarker /\ rd_packet_header' = HeadHeader
  PROVE  Stays(b, n, id, at)' /\ UNCHANGED <<Waiting, served>>
<1>1. b \in Nat /\ Layout(b, n, id, at) /\ QueueAt(n, id, at) /\ AirInv /\ AirInv'
      /\ Placed(n, id, at)
  BY DEF RoomFor, Stays, RxInv, Layout
<1>2. Layout(b, n, id, at)'
  BY <1>1, LayoutStays
<1>3. Placed(n, id, at)'
  BY <1>2 DEF Layout
<1>4. QueueAt(n, id, at)' /\ Waiting' = Waiting
  <2>1. UNCHANGED <<packet_ready, rd_packet_addr, served>>
    OBVIOUS
  <2> QED
    BY <1>1, <1>3, <2>1, QueueStays
<1> QED
  BY <1>2, <1>4 DEF Stays

\* As long as what is received stays as it is.
LEMMA UntakenAir ==
  ASSUME NEW b, RoomFor(b), RxInv, RxInv', NEW n, NEW id, NEW at, Stays(b, n, id, at),
         UNCHANGED <<mem, writer, packet_ready, rd_packet_addr, served>>, ~stale',
         UNCHANGED <<air, Receiving, Taken>>,
         \/ ~found'
         \/ found /\ UNCHANGED <<rd_packet_marker, rd_packet_header>>
         \/ rd_packet_marker' = HeadMarker /\ rd_packet_header' = HeadHeader
  PROVE  Stays(b, n, id, at)' /\ UNCHANGED <<Waiting, served>>
<1>1. Done <= Done' /\ \A p \in 1..Done : air'[p] = air[p]
  BY DoneNat DEF Done, RxInv
<1>2. Len(air') <= MaxPackets /\ \A p \in 1..Len(air') : air'[p].size + 1 <= b
  BY DEF Stays, Layout, Room
<1>3. rx_state = "reading" => Taken' = Taken /\ Len(air') = Len(air)
  OBVIOUS
<1> QED
  BY <1>1, <1>2, <1>3, Untaken

LEMMA RingAir ==
  ASSUME NEW b, RoomFor(b), RxInv, RxInv', NEW n, NEW id, NEW at, Stays(b, n, id, at),
         Receiver
  PROVE  Stays(b, n, id, at)' /\ UNCHANGED <<Waiting, served>>
<1>1. UNCHANGED <<mem, writer, packet_ready, rd_packet_addr, rd_packet_marker,
                  rd_packet_header, served, found, stale>>
      /\ ~stale'
  BY DEF Receiver, AirStart, AirWord, AirEnd, ring, host, Stays, QueueAt
<1>2. CASE AirWord \/ AirEnd
  <2>1. Receiving /\ air' = air /\ Taken' = Taken
    <3>1. CASE AirWord
      BY <3>1, WordArrives DEF AirWord
    <3>2. CASE AirEnd
      BY <3>2 DEF AirEnd, Taken
    <3> QED
      BY <1>2, <3>1, <3>2
  <2>2. Receiving'
    <3>1. CASE AirWord
      <4>1. pushed' = pushed + 1 /\ pushed < air[Len(air)].size /\ pushed \in Nat
        BY <3>1 DEF AirWord, RxInv, AirInv
      <4>2. air[Len(air)].size \in Nat
        BY <2>1, DoneNat DEF RxInv
      <4> QED
        BY <2>1, <4>1, <4>2 DEF Receiving
    <3>2. CASE AirEnd
      BY <2>1, <3>2 DEF AirEnd, Receiving
    <3> QED
      BY <1>2, <3>1, <3>2
  <2>3. UNCHANGED <<air, Receiving, Taken>>
    BY <2>1, <2>2 DEF Receiving
  <2> QED
    BY <1>1, <2>3, UntakenAir
<1>3. ASSUME NEW q \in Packets, AirStart(q)
      PROVE  Stays(b, n, id, at)' /\ UNCHANGED <<Waiting, served>>
  <2>1. ~Receiving /\ Len(air) < MaxPackets /\ air' = Append(air, q) /\ pushed' = 0
    BY <1>3 DEF AirStart
  <2>2. q \in Arrived /\ air \in Seq(Arrived) /\ MaxPackets \in Nat
    BY RxAssumption DEF Arrived, RxInv, AirInv
  <2>3. /\ air' # <<>> /\ Len(air') = Len(air) + 1 /\ air'[Len(air) + 1] = q
        /\ Len(air) \in Nat /\ \A j \in 1..Len(air) : air'[j] = air[j]
    BY <2>1, <2>2, LastOf
  <2>4. q.size \in Nat /\ q.size + 1 <= b
    BY <2>2 DEF Arrived, RoomFor
  <2>5. Done = Len(air) /\ Done' = Len(air)
    <3>1. Receiving'
      BY <2>1, <2>3, <2>4 DEF Receiving
    <3>2. Done' = Len(air') - 1
      BY <3>1 DEF Done
    <3> QED
      BY <2>1, <2>3, <3>2 DEF Done
  <2>6. Done <= Done' /\ \A p \in 1..Done : air'[p] = air[p]
    BY <2>3, <2>5
  <2>7. Len(air') <= MaxPackets
    BY <2>1, <2>2, <2>3
  <2>8. \A p \in 1..Len(air') : air'[p].size + 1 <= b
    <3> SUFFICES ASSUME NEW p \in 1..Len(air') PROVE air'[p].size + 1 <= b
      OBVIOUS
    <3>1. CASE p = Len(air) + 1
      BY <2>3, <2>4, <3>1
    <3>2. CASE p # Len(air) + 1
      <4>1. p \in 1..Len(air)
        BY <2>3, <3>2
      <4> QED
        BY <2>3, <4>1 DEF Stays, Layout, Room
    <3> QED
      BY <3>1, <3>2
  <2>9. ~(rx_state = "reading")
    BY <2>1 DEF RxInv, WriterInv
  <2> QED
    BY <1>1, <2>6, <2>7, <2>8, <2>9, Untaken
<1> QED
  BY <1>2, <1>3 DEF Receiver

\* One packet more, or none.
Grows(b, n, id, at) ==
  \/ Stays(b, n, id, at)'
  \/ \E p, e : Stays(b, n + 1, Longer(id, n, p), Longer(at, n + 1, e))'

LEMMA RingWritten ==
  ASSUME NEW b, RoomFor(b), RxInv, RxInv', NEW n, NEW id, NEW at, Stays(b, n, id, at),
         RxData \/ RxReady
  PROVE  Grows(b, n, id, at) /\ (Queue!Next \/ UNCHANGED <<Waiting, served>>)
<1>1. Layout(b, n, id, at) /\ QueueAt(n, id, at) /\ Placed(n, id, at)
  BY DEF Stays, Layout
<1>2. UNCHANGED <<rd_packet_addr, rd_packet_marker, rd_packet_header, served, found, stale>>
      /\ air' = air /\ ~stale'
  BY <1>1 DEF RxData, RxReady, ring, receiver, host, QueueAt
<1>3. ASSUME Layout(b, n, id, at)', packet_ready' = packet_ready, Done <= Done'
      PROVE  Stays(b, n, id, at)' /\ UNCHANGED <<Waiting, served>>
  <2>1. Placed(n, id, at)'
    BY <1>3 DEF Layout
  <2>2. QueueAt(n, id, at)' /\ Waiting' = Waiting
    <3>1. \/ ~found' \/ found
      BY <1>2
    <3>2. UNCHANGED <<packet_ready, rd_packet_addr, served>>
          /\ \A p \in 1..Done : air'[p] = air[p]
      BY <1>2, <1>3
    <3> QED
      BY <1>1, <1>2, <1>3, <2>1, <3>1, <3>2, QueueStays
  <2> QED
    BY <1>2, <1>3, <2>2 DEF Stays
<1>4. CASE RxData
  <2>1. Layout(b, n, id, at)' /\ packet_ready' = packet_ready
    BY <1>1, <1>4, DataLaid DEF RxData
  <2>2. Done <= Done'
    <3>1. pushed' = pushed
      BY <1>4 DEF RxData
    <3>2. Done' = Done
      BY <1>2, <3>1 DEF Done, Receiving
    <3> QED
      BY <3>2, DoneNat DEF RxInv
  <2> QED
    BY <1>3, <2>1, <2>2 DEF Grows
<1>5. CASE RxReady
  <2>1. Done' = Done + 1 /\ Done \in Nat /\ Done <= Done'
    BY <1>1, <1>5, PacketLaid, DoneNat DEF RxInv
  <2>2. CASE packet_ready' = packet_ready /\ Layout(b, n, id, at)'
    BY <1>3, <2>1, <2>2 DEF Grows
  <2>3. ASSUME packet_ready' = packet_ready + 1, NEW p, NEW e, p = Done + 1,
               Layout(b, n + 1, Longer(id, n, p), Longer(at, n + 1, e))'
        PROVE  Grows(b, n, id, at) /\ Queue!Next
    <3>1. Placed(n + 1, Longer(id, n, p), Longer(at, n + 1, e))'
      BY <2>3 DEF Layout
    <3>2. Len(air) <= MaxPackets
      BY <1>1 DEF Layout, Room
    <3>3. /\ QueueAt(n + 1, Longer(id, n, p), Longer(at, n + 1, e))'
          /\ Queue!Next
      BY <1>1, <1>2, <2>1, <2>3, <3>1, <3>2, PacketQueued
    <3>4. Stays(b, n + 1, Longer(id, n, p), Longer(at, n + 1, e))'
      BY <2>3, <3>3 DEF Stays
    <3> QED
      BY <3>3, <3>4 DEF Grows
  <2>4. \/ packet_ready' = packet_ready /\ Layout(b, n, id, at)'
        \/ /\ packet_ready' = packet_ready + 1
           /\ \E p, e : /\ p = Done + 1
                        /\ Layout(b, n + 1, Longer(id, n, p), Longer(at, n + 1, e))'
    BY <1>1, <1>5, PacketLaid
  <2> QED
    BY <2>2, <2>3, <2>4
<1> QED
  BY <1>4, <1>5

\* The oldest packet is taken, with the marker and the header it has in the
\* ring.
LEMMA RingTaken ==
  ASSUME NEW b, RoomFor(b), RxInv, RxInv', NEW n, NEW id, NEW at, Stays(b, n, id, at),
         UNCHANGED <<mem, writer, receiver>>, packet_ready # 0,
         NEW marker, NEW header, NEW fate,
         marker = 4 * (air[id[Oldest(n)]].size + 1), header = Header(id[Oldest(n)]),
         PacketNext(marker, header, fate), found' = FALSE, ~stale',
         fate \in Queue!Fates(Packet(id[Oldest(n)]))
  PROVE  Stays(b, n, id, at)' /\ Queue!Next
<1>1. Layout(b, n, id, at) /\ QueueAt(n, id, at) /\ Placed(n, id, at) /\ b \in Nat
      /\ AirInv /\ AirInv'
  BY DEF Stays, Layout, RoomFor, RxInv
<1>2. air' = air /\ pushed' = pushed /\ fifo' = fifo
  BY DEF receiver
<1>3. Layout(b, n, id, at)'
  <2>1. Done' = Done /\ Taken' = Taken
    BY <1>2 DEF Done, Receiving, Taken
  <2>2. Done <= Done' /\ \A p \in 1..Done : air'[p] = air[p]
    BY <1>1, <1>2, <2>1, DoneNat
  <2>3. Len(air') <= MaxPackets /\ \A p \in 1..Len(air') : air'[p].size + 1 <= b
    BY <1>1, <1>2 DEF Layout, Room
  <2>4. rx_state = "reading" => Taken' = Taken /\ Len(air') = Len(air)
    BY <1>2, <2>1
  <2>5. UNCHANGED <<mem, writer>>
    OBVIOUS
  <2> QED
    BY <1>1, <2>2, <2>3, <2>4, <2>5, LayoutStays
<1>4. Placed(n, id, at)'
  BY <1>3 DEF Layout
<1>5. QueueAt(n, id, at)' /\ Queue!Next
  BY <1>1, <1>2, <1>4, QueueTaken
<1> QED
  BY <1>3, <1>5 DEF Stays

\* Taking it after reading its headers.
LEMMA RingHeadTaken ==
  ASSUME NEW b, RoomFor(b), RxInv, RxInv', NEW n, NEW id, NEW at, Stays(b, n, id, at),
         UNCHANGED <<mem, writer, receiver>>, packet_ready # 0,
         NEW fate, PacketNext(HeadMarker, HeadHeader, fate), found' = FALSE, ~stale',
         fate \in {"host"} \/
           (IF Accepted(HeadHeader, HeadMarker) THEN fate \in {"forward", "flood"}
            ELSE fate = "discard")
  PROVE  Stays(b, n, id, at)' /\ Queue!Next
<1>1. Placed(n, id, at) /\ QueueAt(n, id, at)
  BY DEF Stays, Layout
<1>2. /\ HeadMarker = 4 * (air[id[Oldest(n)]].size + 1)
      /\ HeadHeader = Header(id[Oldest(n)])
      /\ Accepted(HeadHeader, HeadMarker) <=> Packet(id[Oldest(n)]).good
  BY <1>1, HeadFound
<1>3. fate \in Queue!Fates(Packet(id[Oldest(n)]))
  BY <1>2 DEF Queue!Fates
<1>4. PICK marker, header : /\ marker = HeadMarker /\ header = HeadHeader
                            /\ PacketNext(marker, header, fate)
  OBVIOUS
<1> QED
  BY <1>2, <1>3, <1>4, RingTaken

LEMMA RingRead ==
  ASSUME NEW b, RoomFor(b), RxInv, RxInv', NEW n, NEW id, NEW at, Stays(b, n, id, at),
         Main \/ DumpWord \/ CtrlIrq
  PROVE  \/ stale'
         \/ Stays(b, n, id, at)' /\ (Queue!Next \/ UNCHANGED <<Waiting, served>>)
<1>0. ~stale /\ (packet_ready # 0 => packet_ready > 0)
  BY DEF Stays, QueueAt
<1>1. UNCHANGED <<mem, writer, receiver>>
  BY DEF Main, TestFlood, TestAuto, TestBusy, Argument, Lost, Test, HbcToSpi, DumpWord,
     CtrlIrq, RxAuto, RxFlood, RxPacketReady, RxRead, RxPacketNext, RxCheck, MemDump,
     ScramblerRead, Command
<1>2. UNCHANGED <<air, Receiving, Taken>>
  BY <1>1 DEF receiver, Receiving, Taken
<1>3. ASSUME UNCHANGED <<packet_ready, rd_packet_addr, served>>, ~stale',
             \/ ~found'
             \/ found /\ UNCHANGED <<rd_packet_marker, rd_packet_header>>
             \/ rd_packet_marker' = HeadMarker /\ rd_packet_header' = HeadHeader
      PROVE  Stays(b, n, id, at)' /\ UNCHANGED <<Waiting, served>>
  <2>1. UNCHANGED <<mem, writer, packet_ready, rd_packet_addr, served>>
    BY <1>1, <1>3
  <2> QED
    BY <1>2, <1>3, <2>1, UntakenAir
<1>4. CASE \/ TestFlood \/ TestAuto \/ TestBusy \/ Argument \/ Lost \/ DumpWord
           \/ \E v \in {0, 1} : RxAuto(v) \/ RxFlood(v)
           \/ MemDump(1) \/ ScramblerRead \/ RxRead
  <2>1. UNCHANGED <<packet_ready, rd_packet_addr, served, found, stale, rd_packet_marker,
                    rd_packet_header>>
    BY <1>4 DEF TestFlood, TestAuto, TestBusy, Argument, Lost, Test, DumpWord, RxAuto,
       RxFlood, MemDump, ScramblerRead, RxRead, Command, ring, host
  <2>2. (~found' \/ found) /\ ~stale'
    BY <1>0, <2>1
  <2> QED
    BY <1>3, <2>1, <2>2
<1>5. CASE RxPacketReady
  BY <1>0, <1>3, <1>5 DEF RxPacketReady, ReadHeaders
<1>6. CASE RxPacketNext /\ found
  <2>1. /\ found /\ found' = FALSE /\ ~stale'
        /\ PacketNext(rd_packet_marker, rd_packet_header, "host")
    BY <1>6 DEF RxPacketNext
  <2>2. packet_ready # 0
    BY <1>0, <2>1 DEF RxInv, ReaderInv, CountInv
  <2>3. PICK marker, header :
          /\ marker = rd_packet_marker /\ header = rd_packet_header
          /\ PacketNext(marker, header, "host")
    BY <2>1
  <2>4. /\ marker = 4 * (air[id[Oldest(n)]].size + 1)
        /\ header = Header(id[Oldest(n)])
    BY <2>1, <2>3 DEF Stays, QueueAt
  <2>5. "host" \in Queue!Fates(Packet(id[Oldest(n)]))
    BY DEF Queue!Fates
  <2> QED
    BY <1>1, <2>1, <2>2, <2>3, <2>4, <2>5, RingTaken
<1>7. CASE RxCheck
  <2> DEFINE fate == IF Accepted(HeadHeader, HeadMarker) THEN "host" ELSE "discard"
  <2>1. /\ found' = FALSE /\ ~stale'
        /\ packet_ready = 0 => UNCHANGED <<rd_packet_addr, packet_ready, served>>
        /\ packet_ready # 0 => PacketNext(HeadMarker, HeadHeader, fate)
    BY <1>0, <1>7 DEF RxCheck
  <2>2. CASE packet_ready = 0
    BY <1>3, <2>1, <2>2
  <2>3. CASE packet_ready # 0
    <3>1. \/ fate \in {"host"}
          \/ IF Accepted(HeadHeader, HeadMarker) THEN fate \in {"forward", "flood"}
             ELSE fate = "discard"
      OBVIOUS
    <3> HIDE DEF fate
    <3>2. PICK f : f = fate
      OBVIOUS
    <3>3. PacketNext(HeadMarker, HeadHeader, f)
      BY <2>1, <2>3, <3>2
    <3> QED
      BY <1>1, <2>1, <2>3, <3>1, <3>2, <3>3, RingHeadTaken
  <2> QED
    BY <2>2, <2>3
<1>8. CASE HbcToSpi
  <2> DEFINE accepted == packet_ready # 0 /\ Accepted(HeadHeader, HeadMarker)
             fate == IF ~accepted THEN "discard" ELSE IF forward THEN "forward" ELSE "flood"
  <2>1. /\ found' = FALSE /\ ~stale'
        /\ packet_ready = 0 => UNCHANGED <<rd_packet_addr, packet_ready, served>>
        /\ packet_ready # 0 => PacketNext(HeadMarker, HeadHeader, fate)
    BY <1>0, <1>8 DEF HbcToSpi
  <2>3. CASE packet_ready = 0
    BY <1>3, <2>1, <2>3
  <2>4. CASE packet_ready # 0
    <3>1. \/ fate \in {"host"}
          \/ IF Accepted(HeadHeader, HeadMarker) THEN fate \in {"forward", "flood"}
             ELSE fate = "discard"
      BY <2>4
    <3> HIDE DEF fate
    <3>2. PICK f : f = fate
      OBVIOUS
    <3>3. PacketNext(HeadMarker, HeadHeader, f)
      BY <2>1, <2>4, <3>2
    <3> QED
      BY <1>1, <2>1, <2>4, <3>1, <3>2, <3>3, RingHeadTaken
  <2> QED
    BY <2>3, <2>4
<1>9. CASE RxPacketNext /\ ~found
  BY <1>9 DEF RxPacketNext
<1> QED
  BY <1>4, <1>5, <1>6, <1>7, <1>8, <1>9 DEF Main, CtrlIrq

LEMMA RingStutter ==
  ASSUME NEW b, RoomFor(b), RxInv, RxInv', NEW n, NEW id, NEW at, Stays(b, n, id, at),
         UNCHANGED <<mem, writer, ring, packet_ready, receiver, served, found, stale>>
  PROVE  Stays(b, n, id, at)' /\ UNCHANGED <<Waiting, served>>
<1>1. UNCHANGED <<air, Receiving, Taken>>
  BY DEF receiver, Receiving, Taken
<1>2. UNCHANGED <<mem, writer, packet_ready, rd_packet_addr, served>>
      /\ UNCHANGED <<rd_packet_marker, rd_packet_header>> /\ (~found' \/ found)
      /\ ~stale'
  BY DEF ring, Stays, QueueAt
<1> QED
  BY <1>1, <1>2, UntakenAir

LEMMA RingInit ==
  ASSUME NEW b, RoomFor(b), Init
  PROVE  /\ Stays(b, 0, [k \in 1..0 |-> 0], [k \in 1..1 |-> Half])
         /\ Queue!Init
<1> DEFINE id == [k \in 1..0 |-> 0]
           at == [k \in 1..1 |-> Half]
<1>1. /\ Half \in Nat /\ MEM_RX_BUF = 4 * Half /\ Half > 0 /\ MaxPackets \in Nat
      /\ b \in Nat
  BY Halves, RxAssumption DEF RoomFor
<1>2. RxInv
  BY RxInit
<1>3. ~Receiving /\ Len(air) = 0 /\ Done = 0
  <2>1. air = <<>> /\ Len(air) = 0
    BY DEF Init
  <2>2. ~Receiving
    BY <2>1 DEF Receiving
  <2> QED
    BY <2>1, <2>2 DEF Done
<1>4. 0 \in Nat /\ 1..0 = {} /\ 0 + 1 = 1 /\ 1..1 = {1} /\ at[1] = Half
      /\ id \in [1..0 -> 1..Done] /\ at \in [1..1 -> Half..(2 * Half)]
      /\ \A k \in 1..1 : at[k] = Half
  BY <1>1
<1> HIDE DEF id, at
<1>5. Placed(0, id, at)
  BY <1>1, <1>4 DEF Placed
<1>6. WriterAt(Half)
  <2>1. NextWord(Half) = Half
    BY DEF NextWord, Init
  <2> QED
    BY <1>1, <2>1 DEF WriterAt, Address, Init
<1>7. Room(b, Half)
  <2>1. 1..Len(air) = {} /\ Done * b = 0
    BY <1>1, <1>3
  <2> QED
    BY <1>1, <1>3, <2>1 DEF Room
<1>8. QueueAt(0, id, at)
  <2>1. packet_ready = 0 /\ rd_packet_addr = 4 * Half /\ served.pkt.id = 0
    BY <1>1 DEF Init
  <2>2. ~found /\ ~stale
    BY Zenon DEF Init
  <2>3. Oldest(0) = 1 /\ 1..0 = {}
    BY <2>1 DEF Oldest
  <2> QED
    BY <1>3, <1>4, <2>1, <2>2, <2>3 DEF QueueAt
<1>9. Stays(b, 0, id, at)
  BY <1>4, <1>5, <1>6, <1>7, <1>8 DEF Stays, Layout
<1>10. Queue!Init
  <2>1. packet_ready = 0
    BY DEF Init
  <2>2. Waiting = [k \in 1..0 |-> Packet(id[(0 - 0) + k])]
    BY <1>2, <1>5, <1>8, <2>1, WaitingIs DEF LastPlaced
  <2>3. Waiting \in Seq({0}) /\ Len(Waiting) = 0
    BY <1>4, <2>2
  <2>4. Waiting = <<>>
    BY ONLY <2>3
  <2> QED
    BY <2>4, Zenon DEF Queue!Init, Queue!Nobody, Init
<1> QED
  BY <1>9, <1>10 DEF id, at

\* A late RX_NEXT is not forgotten.
LEMMA StaleStays ==
  ASSUME stale, [Next]_vars
  PROVE  stale'
<1>1. CASE UNCHANGED vars
  BY <1>1 DEF vars, host
<1>2. CASE Receiver \/ Handlers
  BY <1>2 DEF Receiver, AirStart, AirWord, AirEnd, Handlers, RxData, RxReady, DumpWord, host
<1>3. CASE Main
  BY <1>3 DEF Main, TestFlood, TestAuto, TestBusy, Argument, Lost, Test, HbcToSpi, host
<1>4. CASE CtrlIrq
  BY <1>4 DEF CtrlIrq, RxAuto, RxFlood, RxPacketReady, RxRead, RxPacketNext, RxCheck,
     MemDump, ScramblerRead, Command
<1> QED
  BY <1>1, <1>2, <1>3, <1>4 DEF Next

\* The ring, its markers and packet_ready are a queue of whole packets, as
\* long as the ring has room for every packet received and no RX_NEXT comes
\* for a packet the main loop has taken: packets leave it in the order they
\* came, each once, the good ones forwarded and the bad ones discarded,
\* whatever the host asks and however the interrupts fall.
\* (Later the reader runs out of the ring: ReaderStaysInRing.)
THEOREM ImplementsQueue ==
  ASSUME FirstRound
  PROVE  Spec => QueueSpec
<1> DEFINE RingInv(b) == \E n, id, at : Stays(b, n, id, at)
<1>1. PICK b : RoomFor(b)
  BY DEF FirstRound
<1> DEFINE IInv == RxInv /\ scr \in Keys /\ (stale \/ RingInv(b))
<1>2. Init => IInv /\ Queue!Init
  BY <1>1, RxInit, RingInit
<1>3. IInv /\ [Next]_vars => IInv' /\ [Queue!Next \/ stale']_<<Waiting, served>>
  <2> SUFFICES ASSUME RxInv, scr \in Keys, stale \/ RingInv(b), [Next]_vars
               PROVE  IInv' /\ [Queue!Next \/ stale']_<<Waiting, served>>
    OBVIOUS
  <2>1. RxInv' /\ scr' \in Keys
    BY RxStep
  <2>2. CASE stale
    BY <2>1, <2>2, StaleStays
  <2>3. CASE RingInv(b)
    <3>1. PICK n, id, at : Stays(b, n, id, at)
      BY <2>3
    <3>2. CASE UNCHANGED vars
      <4>1. UNCHANGED <<mem, writer, ring, packet_ready, receiver, served, found, stale>>
        BY <3>2 DEF vars, host
      <4>2. Stays(b, n, id, at)' /\ UNCHANGED <<Waiting, served>>
        BY <1>1, <2>1, <3>1, <4>1, RingStutter
      <4> QED
        BY <2>1, <4>2
    <3>3. CASE Receiver
      <4>1. Stays(b, n, id, at)' /\ UNCHANGED <<Waiting, served>>
        BY <1>1, <2>1, <3>1, <3>3, RingAir
      <4> QED
        BY <2>1, <4>1
    <3>4. CASE RxData \/ RxReady
      <4>1. Grows(b, n, id, at) /\ (Queue!Next \/ UNCHANGED <<Waiting, served>>)
        BY <1>1, <2>1, <3>1, <3>4, RingWritten
      <4>2. RingInv(b)'
        BY <4>1 DEF Grows
      <4> QED
        BY <2>1, <4>1, <4>2
    <3>5. CASE Main \/ DumpWord \/ CtrlIrq
      <4>1. \/ stale'
            \/ Stays(b, n, id, at)' /\ (Queue!Next \/ UNCHANGED <<Waiting, served>>)
        BY <1>1, <2>1, <3>1, <3>5, RingRead
      <4> QED
        BY <2>1, <4>1
    <3> QED
      BY <3>2, <3>3, <3>4, <3>5 DEF Next, Handlers
  <2> QED
    BY <2>2, <2>3
<1> QED
  BY <1>2, <1>3, PTL DEF Spec, QueueSpec

-----------------------------------------------------------------------------
(* Dumping a packet.                                                       *)

\* Cutting the packet that is being received short moves nothing.
LEMMA RingCut ==
  ASSUME NEW b, RoomFor(b), RxInv, RxInv', NEW n, NEW id, NEW at, Stays(b, n, id, at),
         Receiving, pushed < air[Len(air)].size, Taken' = Taken,
         air' = [air EXCEPT ![Len(air)].size = pushed],
         UNCHANGED <<mem, writer, ring, packet_ready, pushed, served, found, stale>>
  PROVE  /\ Stays(b, n, id, at)' /\ UNCHANGED <<Waiting, served>>
         /\ Done' = Done /\ \A p \in 1..Done : air'[p] = air[p]
<1>1. /\ Len(air') = Len(air) /\ Len(air) \in 1..Len(air)
      /\ air' \in Seq(Arrived) /\ air'[Len(air)].size = pushed
      /\ \A k \in 1..Len(air) : k # Len(air) => air'[k] = air[k]
  BY CutPacket DEF RxInv
<1>2. Receiving'
  <2>1. pushed' = pushed /\ pushed \in Nat /\ air' # <<>>
    BY <1>1 DEF RxInv, AirInv
  <2> QED
    BY <1>1, <2>1 DEF Receiving
<1>3. Done' = Done /\ Done \in Nat /\ Len(air) = Done + 1
  <2>1. Done' = Len(air') - 1
    BY <1>2 DEF Done
  <2>2. Done \in Nat /\ Len(air) = Done + 1
    BY DoneNat DEF RxInv
  <2> QED
    BY <1>1, <2>1, <2>2
<1>4. \A p \in 1..Done : air'[p] = air[p]
  BY <1>1, <1>3
<1>5. Len(air') <= MaxPackets /\ \A p \in 1..Len(air') : air'[p].size + 1 <= b
  <2>1. Len(air) <= MaxPackets /\ \A p \in 1..Len(air) : air[p].size + 1 <= b
    BY DEF Stays, Layout, Room
  <2>2. air[Len(air)].size \in Nat /\ pushed \in Nat /\ b \in Nat
    BY <1>1, DoneNat DEF RxInv, AirInv, RoomFor
  <2>3. pushed + 1 <= b
    BY <1>1, <2>1, <2>2
  <2> QED
    BY <1>1, <2>1, <2>3
<1>6. Stays(b, n, id, at)' /\ UNCHANGED <<Waiting, served>>
  <2>1. Done <= Done' /\ (rx_state = "reading" => Taken' = Taken /\ Len(air') = Len(air))
    BY <1>1, <1>3
  <2>2. UNCHANGED <<mem, writer, packet_ready, rd_packet_addr, served>>
        /\ UNCHANGED <<rd_packet_marker, rd_packet_header>> /\ (~found' \/ found)
        /\ ~stale'
    BY DEF ring, Stays, QueueAt
  <2> QED
    BY <1>4, <1>5, <2>1, <2>2, Untaken
<1> QED
  BY <1>3, <1>4, <1>6

\* The loop takes no packet in the middle of a dump.
LoopWaits ==
  pc \in {"Argument", "HbcToSpi"} => ~(dumping_mem > 0 /\ dump_hbc_rx /\ ~crossed)

\* The words dumped are those of the packet, and the next one is read from
\* where it lies in the ring, until the host has the ring read meanwhile.
DumpInv(n, id, at) ==
  /\ dumped \in [pkt : Nat, words : Seq(Cells)]
  /\ ~crossed =>
       \A j \in 1..Len(dumped.words) :
         /\ dumped.pkt \in 1..Done
         /\ j <= air[dumped.pkt].size => PartOf(dumped.words[j], dumped.pkt, j - 1)
  /\ dumping_mem > 0 /\ dump_hbc_rx /\ ~crossed =>
       \E k \in 1..n :
         /\ dumped.pkt = id[k]
         /\ Len(dumped.words) < air[id[k]].size =>
              rd_buf_addr = 4 * (at[k] + 1 + Len(dumped.words))
  /\ LoopWaits

\* The packets that were there lie where they did, and nothing is dumped.
LEMMA DumpStays ==
  ASSUME RxInv, RxInv', NEW n, NEW id, NEW at, Placed(n, id, at), DumpInv(n, id, at),
         NEW m, NEW id2, NEW at2,
         \A k \in 1..n : k \in 1..m /\ id2[k] = id[k] /\ at2[k] = at[k],
         dumped' = dumped, crossed => crossed',
         dumping_mem' > 0 /\ dump_hbc_rx' /\ ~crossed' =>
           dumping_mem > 0 /\ dump_hbc_rx /\ rd_buf_addr' = rd_buf_addr,
         LoopWaits', Done <= Done', \A p \in 1..Done : air'[p] = air[p]
  PROVE  DumpInv(m, id2, at2)'
<1>2. Done \in Nat /\ Done' \in Nat /\ 1..Done \subseteq 1..Done'
      /\ id \in [1..n -> 1..Done]
  <2>1. AirInv /\ AirInv'
    BY DEF RxInv
  <2>2. Done \in Nat /\ Done' \in Nat
    BY <2>1, DoneNat, DoneNext
  <2>3. id \in [1..n -> 1..Done]
    BY DEF Placed
  <2>4. Done <= Done'
    OBVIOUS
  <2>5. 1..Done \subseteq 1..Done'
    BY ONLY <2>2, <2>4
  <2> QED
    BY ONLY <2>2, <2>3, <2>5
<1>3. ASSUME ~crossed', NEW j \in 1..Len(dumped'.words)
      PROVE  /\ dumped'.pkt \in 1..Done'
             /\ j <= air'[dumped'.pkt].size => PartOf(dumped'.words[j], dumped'.pkt, j - 1)
  <2>1. /\ dumped.pkt \in 1..Done
        /\ j <= air[dumped.pkt].size => PartOf(dumped.words[j], dumped.pkt, j - 1)
    BY <1>3 DEF DumpInv
  <2> QED
    BY <1>2, <2>1
<1>4. ASSUME dumping_mem' > 0, dump_hbc_rx', ~crossed'
      PROVE  \E k \in 1..m :
               /\ dumped'.pkt = id2[k]
               /\ Len(dumped'.words) < air'[id2[k]].size =>
                    rd_buf_addr' = 4 * (at2[k] + 1 + Len(dumped'.words))
  <2>1. dumping_mem > 0 /\ dump_hbc_rx /\ rd_buf_addr' = rd_buf_addr /\ ~crossed
    BY <1>4
  <2>2. PICK k \in 1..n : /\ dumped.pkt = id[k]
                          /\ Len(dumped.words) < air[id[k]].size =>
                               rd_buf_addr = 4 * (at[k] + 1 + Len(dumped.words))
    BY <2>1 DEF DumpInv
  <2>3. k \in 1..m /\ id2[k] = id[k] /\ at2[k] = at[k] /\ air'[id[k]] = air[id[k]]
    BY <1>2
  <2> QED
    BY <2>1, <2>2, <2>3
<1>5. dumped' \in [pkt : Nat, words : Seq(Cells)]
  BY DEF DumpInv
<1>6. ~crossed' =>
        \A j \in 1..Len(dumped'.words) :
          /\ dumped'.pkt \in 1..Done'
          /\ j <= air'[dumped'.pkt].size => PartOf(dumped.words[j], dumped.pkt, j - 1)'
  BY <1>3 DEF PartOf
<1> QED
  BY <1>4, <1>5, <1>6 DEF DumpInv

LEMMA DumpGoesOn ==
  ASSUME RxInv, RxInv', NEW n, NEW id, NEW at, Placed(n, id, at), DumpInv(n, id, at),
         DumpWord, dump_hbc_rx, ~crossed
  PROVE  DumpInv(n, id, at)'
<1> DEFINE words == dumped.words
           cell == mem[Word(rd_buf_addr)]
<1>1. /\ dumping_mem > 0 /\ dumping_mem' = dumping_mem - 1 /\ dump_hbc_rx
      /\ dumped' = [dumped EXCEPT !.words = Append(words, cell)]
      /\ rd_buf_addr' = Inc(rd_buf_addr)
      /\ UNCHANGED <<dump_hbc_rx, crossed, air, pushed>>
      /\ dumping_mem \in Nat
  BY DEF DumpWord, receiver, RxInv, ReaderInv
<1>2. PICK k \in 1..n : /\ dumped.pkt = id[k]
                        /\ Len(words) < air[id[k]].size =>
                             rd_buf_addr = 4 * (at[k] + 1 + Len(words))
  BY <1>1 DEF DumpInv
<1>3. PICK p, size, s, last :
        /\ p = id[k] /\ size = air[p].size /\ s = at[k] /\ last = at[k + 1]
        /\ p \in 1..Done /\ size \in Nat \ {0} /\ s \in Nat /\ last \in Nat
        /\ last = s + size + 1 /\ last <= 2 * Half /\ Holds(p, s, size)
        /\ Half \in Nat /\ MEM_SIZE = 8 * Half
  <2>1. AirInv
    BY DEF RxInv
  <2>2. /\ id[k] \in 1..Done /\ air[id[k]].size \in Nat \ {0}
        /\ at[k] \in Nat /\ at[k + 1] \in Nat
        /\ at[k + 1] <= at[n + 1] /\ at[n + 1] \in Nat /\ at[n + 1] <= 2 * Half
    BY ONLY <2>1, Placed(n, id, at), k \in 1..n, PacketWords
  <2>3. at[k + 1] = at[k] + air[id[k]].size + 1 /\ Holds(id[k], at[k], air[id[k]].size)
    BY DEF Placed
  <2>4. at[k + 1] <= 2 * Half /\ Half \in Nat /\ MEM_SIZE = 8 * Half
    <3>1. Half \in Nat /\ MEM_SIZE = 8 * Half
      BY Halves
    <3>2. at[k + 1] <= 2 * Half
      BY ONLY <2>2, <3>1
    <3> QED
      BY <3>1, <3>2
  <2> QED
    BY <2>2, <2>3, <2>4
<1>4. PICK l \in Nat : l = Len(words)
  BY DEF DumpInv
<1>5. /\ dumped \in [pkt : Nat, words : Seq(Cells)] /\ words \in Seq(Cells)
      /\ cell \in Cells
  <2>1. rd_buf_addr \in Nat
    BY DEF RxInv, ReaderInv
  <2> QED
    BY <2>1, WordInWords DEF DumpInv, RxInv, CellsInv
<1>6. PICK longer \in Seq(Cells) :
        /\ longer = Append(words, cell) /\ Len(longer) = l + 1 /\ longer[l + 1] = cell
        /\ \A j \in 1..l : longer[j] = words[j]
  <2>1. ASSUME NEW S, NEW t \in Seq(S), NEW e \in S
        PROVE  /\ Append(t, e) \in Seq(S) /\ Len(Append(t, e)) = Len(t) + 1
               /\ Append(t, e)[Len(t) + 1] = e
               /\ \A j \in 1..Len(t) : Append(t, e)[j] = t[j]
    OBVIOUS
  <2> HIDE DEF words, cell
  <2>2. words \in Seq(Cells) /\ cell \in Cells
    BY <1>5
  <2>3. /\ Append(words, cell) \in Seq(Cells) /\ Len(Append(words, cell)) = Len(words) + 1
        /\ Append(words, cell)[Len(words) + 1] = cell
        /\ \A j \in 1..Len(words) : Append(words, cell)[j] = words[j]
    BY ONLY <2>1, <2>2
  <2>4. l = Len(words)
    BY <1>4
  <2> QED
    BY ONLY <2>3, <2>4
<1>7. dumped' = [pkt |-> p, words |-> longer]
  <2>1. dumped' = [dumped EXCEPT !.words = longer]
    BY <1>1, <1>6
  <2> QED
    BY <1>2, <1>3, <1>5, <2>1
<1>8. Done' = Done
  BY <1>1 DEF Done, Receiving
<1>9. l < size => /\ rd_buf_addr = 4 * (s + 1 + l)
                  /\ PartOf(cell, p, l)
  <2> SUFFICES ASSUME l < size
               PROVE  rd_buf_addr = 4 * (s + 1 + l) /\ PartOf(cell, p, l)
    OBVIOUS
  <2>1. rd_buf_addr = 4 * (s + 1 + l)
    BY <1>2, <1>3, <1>4
  <2>2. s + 1 + l \in 0..(2 * Half - 1) /\ l \in 0..(size - 1)
    <3>1. s \in Nat /\ size \in Nat /\ l \in Nat /\ Half \in Nat /\ l < size
          /\ last = s + size + 1 /\ last <= 2 * Half
      BY <1>3
    <3> QED
      BY ONLY <3>1
  <2>3. Word(4 * (s + 1 + l)) = s + 1 + l
    BY <2>2, WordAt
  <2>4. PartOf(mem[s + 1 + l], p, l)
    BY <1>3, <2>2 DEF Holds
  <2> QED
    BY <2>1, <2>3, <2>4
<1>10. ASSUME NEW j \in 1..(l + 1), j <= size
       PROVE  PartOf(longer[j], p, j - 1)
  <2>1. CASE j = l + 1
    <3>1. l < size /\ j - 1 = l
      BY <1>3, <1>10, <2>1
    <3> QED
      BY <1>6, <1>9, <2>1, <3>1
  <2>2. CASE j # l + 1
    <3>1. j \in 1..l
      BY <2>2
    <3>2. PartOf(words[j], p, j - 1)
      BY <1>2, <1>3, <1>4, <1>10, <3>1 DEF DumpInv
    <3> QED
      BY <1>6, <3>1, <3>2
  <2> QED
    BY <2>1, <2>2
<1>11. l + 1 < size => rd_buf_addr' = 4 * (s + 1 + (l + 1))
  <2> SUFFICES ASSUME l + 1 < size PROVE rd_buf_addr' = 4 * (s + 1 + (l + 1))
    OBVIOUS
  <2>1. rd_buf_addr = 4 * (s + 1 + l)
    <3>1. l < size
      <4>1. l \in Nat /\ size \in Nat
        BY <1>3
      <4> QED
        BY ONLY <4>1, l + 1 < size
    <3> QED
      BY <1>9, <3>1
  <2>2. 4 * (s + 1 + l) + 4 = 4 * (s + 1 + (l + 1)) /\ 4 * (s + 1 + l) + 4 # 8 * Half
    <3>1. s \in Nat /\ size \in Nat /\ l \in Nat /\ Half \in Nat /\ l + 1 < size
          /\ last = s + size + 1 /\ last <= 2 * Half
      BY <1>3
    <3> QED
      BY ONLY <3>1
  <2> QED
    BY <1>1, <1>3, <2>1, <2>2 DEF Inc
<1>12. /\ dumped'.pkt = p /\ dumped'.words = longer /\ Len(dumped'.words) = l + 1
       /\ air'[p].size = size /\ dump_hbc_rx'
  BY <1>1, <1>3, <1>6, <1>7
<1>13. ASSUME NEW j \in 1..Len(dumped'.words)
       PROVE  /\ dumped'.pkt \in 1..Done'
              /\ j <= air'[dumped'.pkt].size => PartOf(dumped.words[j], dumped.pkt, j - 1)'
  BY <1>3, <1>8, <1>10, <1>12 DEF PartOf
<1>14. \E i \in 1..n : /\ dumped'.pkt = id[i]
                       /\ Len(dumped'.words) < air'[id[i]].size =>
                            rd_buf_addr' = 4 * (at[i] + 1 + Len(dumped'.words))
  BY <1>3, <1>11, <1>12
<1>15. dumped' \in [pkt : Nat, words : Seq(Cells)]
  <2>1. p \in Nat
    BY <1>2, <1>3, <1>5
  <2> QED
    BY <1>6, <1>7, <2>1
<1>16. LoopWaits'
  <2>1. ~(pc \in {"Argument", "HbcToSpi"})
    BY <1>1 DEF DumpInv, LoopWaits
  <2>2. UNCHANGED pc
    BY DEF DumpWord, loop
  <2> QED
    BY <2>1, <2>2 DEF LoopWaits
<1> QED
  BY <1>1, <1>12, <1>13, <1>14, <1>15, <1>16 DEF DumpInv

\* A word of something else is dumped, or of a packet whose dump was crossed.
LEMMA DumpOther ==
  ASSUME RxInv, RxInv', NEW n, NEW id, NEW at, Placed(n, id, at), DumpInv(n, id, at),
         DumpWord, ~dump_hbc_rx \/ crossed
  PROVE  DumpInv(n, id, at)'
<1>1. /\ UNCHANGED <<dump_hbc_rx, crossed, air, pushed>>
      /\ dump_hbc_rx =>
           dumped' = [dumped EXCEPT !.words = Append(@, mem[Word(rd_buf_addr)])]
      /\ ~dump_hbc_rx => UNCHANGED <<dumped, rd_buf_addr>>
  BY DEF DumpWord, receiver
<1>2. Done' = Done
  BY <1>1 DEF Done, Receiving
<1>5. LoopWaits'
  BY <1>1 DEF LoopWaits
<1>3. CASE ~dump_hbc_rx
  <2>1. ~crossed' =>
          \A j \in 1..Len(dumped'.words) :
            /\ dumped'.pkt \in 1..Done'
            /\ j <= air'[dumped'.pkt].size => PartOf(dumped.words[j], dumped.pkt, j - 1)'
    BY <1>1, <1>2, <1>3 DEF DumpInv, PartOf
  <2>2. ~dump_hbc_rx' /\ dumped' \in [pkt : Nat, words : Seq(Cells)]
    BY <1>1, <1>3 DEF DumpInv
  <2> QED
    BY <1>5, <2>1, <2>2 DEF DumpInv
<1>4. CASE dump_hbc_rx
  <2>1. crossed'
    BY <1>1, <1>4
  <2>2. mem[Word(rd_buf_addr)] \in Cells
    <3>1. rd_buf_addr \in Nat
      BY DEF RxInv, ReaderInv
    <3> QED
      BY <3>1, WordInWords DEF RxInv, CellsInv
  <2>3. dumped \in [pkt : Nat, words : Seq(Cells)]
    BY DEF DumpInv
  <2>4. PICK w \in Seq(Cells) : w = Append(dumped.words, mem[Word(rd_buf_addr)])
    <3>1. dumped.words \in Seq(Cells)
      BY <2>3
    <3>2. ASSUME NEW t \in Seq(Cells), NEW e \in Cells PROVE Append(t, e) \in Seq(Cells)
      BY AppendProperties
    <3> QED
      BY <2>2, <3>1, <3>2
  <2>5. dumped' = [dumped EXCEPT !.words = w]
    BY <1>1, <1>4, <2>4
  <2>6. dumped' \in [pkt : Nat, words : Seq(Cells)]
    BY <2>3, <2>5
  <2> QED
    BY <1>5, <2>1, <2>6 DEF DumpInv
<1> QED
  BY <1>3, <1>4

\* The main loop forwards a packet.
LEMMA DumpStarts ==
  ASSUME NEW b, RxInv, RxInv', NEW n, NEW id, NEW at, Stays(b, n, id, at),
         DumpInv(n, id, at), HbcToSpi, packet_ready # 0,
         dumped' = [pkt |-> HeadHeader.pkt, words |-> <<>>], ReadHeaders(1)
  PROVE  DumpInv(n, id, at)'
<1>1. Placed(n, id, at) /\ QueueAt(n, id, at)
  BY DEF Stays, Layout
<1>2. air' = air /\ rd_buf_addr' = IncBy(rd_packet_addr, 1)
  BY DEF HbcToSpi, receiver, ReadHeaders
<1>3. PICK k \in 1..n : k = Oldest(n)
  BY <1>1, HeadFound
<1>4. rd_packet_addr = 4 * at[k] /\ HeadHeader = Header(id[k])
  BY <1>1, <1>3, HeadFound DEF QueueAt
<1>5. /\ id[k] \in 1..Done /\ air[id[k]].size \in Nat \ {0}
      /\ at[k] \in Nat /\ at[k + 1] \in Nat /\ at[k] + 2 <= at[k + 1]
      /\ at[k + 1] <= at[n + 1] /\ at[n + 1] \in Nat /\ at[n + 1] <= 2 * Half
  <2>1. AirInv
    BY DEF RxInv
  <2> QED
    BY ONLY <1>1, <2>1, k \in 1..n, PacketWords
<1>6. rd_buf_addr' = 4 * (at[k] + 1)
  <2>1. Half \in Nat /\ MEM_SIZE = 8 * Half
    BY Halves
  <2>2. PICK s \in Nat : s = at[k]
    BY <1>5
  <2>3. s + 2 <= 2 * Half
    BY <1>5, <2>1, <2>2
  <2>4. 4 * s + 4 * 1 < 8 * Half /\ 4 * s + 4 * 1 = 4 * (s + 1)
    BY <2>1, <2>3
  <2>5. IncBy(4 * s, 1) = 4 * (s + 1)
    BY <2>1, <2>4 DEF IncBy
  <2> QED
    BY <1>2, <1>4, <2>2, <2>5
<1>7. dumped' = [pkt |-> id[k], words |-> <<>>]
  BY <1>4 DEF Header
<1>8. dumped' \in [pkt : Nat, words : Seq(Cells)]
  <2>1. id[k] \in Nat
    <3>1. Done \in Nat
      BY DoneNat DEF RxInv
    <3> QED
      BY <1>5, <3>1
  <2>2. <<>> \in Seq(Cells)
    BY EmptySeq
  <2> QED
    BY <1>7, <2>1, <2>2
<1>9. Len(dumped'.words) = 0 /\ dumped'.pkt = id[k] /\ 1..0 = {}
  BY <1>7
<1>10. \E i \in 1..n : /\ dumped'.pkt = id[i]
                       /\ Len(dumped'.words) < air'[id[i]].size =>
                            rd_buf_addr' = 4 * (at[i] + 1 + Len(dumped'.words))
  <2>1. at[k] + 1 + 0 = at[k] + 1
    BY <1>5
  <2> QED
    BY <1>6, <1>9, <2>1
<1>11. LoopWaits'
  BY DEF HbcToSpi, LoopWaits
<1> QED
  BY <1>8, <1>9, <1>10, <1>11 DEF DumpInv

LEMMA DumpInit ==
  ASSUME Init
  PROVE  DumpInv(0, [k \in 1..0 |-> 0], [k \in 1..1 |-> Half])
<1>1. dumped = [pkt |-> 0, words |-> <<>>] /\ dumping_mem = 0
      /\ pc = "TestFlood"
  BY DEF Init
<1>2. dumped \in [pkt : Nat, words : Seq(Cells)]
  <2>1. <<>> \in Seq(Cells)
    BY EmptySeq
  <2> QED
    BY <1>1, <2>1
<1>3. Len(dumped.words) = 0
  BY <1>1
<1> QED
  BY <1>1, <1>2, <1>3 DEF DumpInv, LoopWaits

\* What has been dumped is the packet as it was received.
LEMMA DumpedIntact ==
  ASSUME NEW n, NEW id, NEW at, DumpInv(n, id, at)
  PROVE  DumpIntact
<1> SUFFICES ASSUME ~crossed, NEW k \in DOMAIN dumped.words, k <= air[dumped.pkt].size
             PROVE  IF k = 1 THEN dumped.words[k] = Header(dumped.pkt)
                    ELSE /\ dumped.words[k].kind = "data"
                         /\ dumped.words[k].pkt = dumped.pkt
                         /\ dumped.words[k].n = k - 1
  BY DEF DumpIntact
<1>1. k \in 1..Len(dumped.words)
  BY DEF DumpInv
<1>2. PartOf(dumped.words[k], dumped.pkt, k - 1)
  BY <1>1 DEF DumpInv
<1>3. k - 1 = 0 <=> k = 1
  BY <1>1
<1> QED
  BY <1>2, <1>3 DEF PartOf

\* What neither dumps nor forwards disturbs a dump only by reading the ring.
LEMMA DumpWaits ==
  ASSUME RxInv, RxInv', NEW n, NEW id, NEW at, Placed(n, id, at), DumpInv(n, id, at),
         NEW m, NEW id2, NEW at2,
         \A k \in 1..n : k \in 1..m /\ id2[k] = id[k] /\ at2[k] = at[k],
         \/ Receiver \/ RxData \/ RxReady
         \/ TestFlood \/ TestAuto \/ TestBusy \/ Argument \/ Lost
         \/ HbcToSpi /\ UNCHANGED dump
         \/ CtrlIrq
  PROVE  DumpInv(m, id2, at2)'
<1>1. /\ dumped' = dumped /\ (crossed => crossed')
      /\ dumping_mem' > 0 /\ dump_hbc_rx' /\ ~crossed' =>
           dumping_mem > 0 /\ dump_hbc_rx /\ rd_buf_addr' = rd_buf_addr
  <2>1. CASE HbcToSpi /\ UNCHANGED dump
    <3>1. ~(dumping_mem > 0 /\ dump_hbc_rx /\ ~crossed)
      BY <2>1 DEF HbcToSpi, DumpInv, LoopWaits
    <3> QED
      BY <2>1, <3>1 DEF dump
  <2>2. CASE RxPacketReady \/ RxRead \/ RxCheck
    <3>1. Cross
      BY <2>2 DEF RxPacketReady, RxRead, RxCheck
    <3> QED
      BY <3>1 DEF Cross
  <2>3. CASE MemDump(1)
    BY <2>3 DEF MemDump
  <2>4. CASE TestFlood
    <3>1. UNCHANGED rd_buf_addr /\ (Cross \/ UNCHANGED dump)
      BY <2>4 DEF TestFlood, Test, ring
    <3>2. CASE Cross
      BY <3>1, <3>2 DEF Cross
    <3>3. CASE UNCHANGED dump
      BY <3>1, <3>3 DEF dump
    <3> QED
      BY <3>1, <3>2, <3>3
  <2>5. CASE \/ Receiver \/ RxData \/ RxReady
             \/ TestAuto \/ TestBusy \/ Argument \/ Lost
             \/ \E v \in {0, 1} : RxAuto(v) \/ RxFlood(v)
             \/ RxPacketNext \/ ScramblerRead
    <3>1. UNCHANGED <<dump, rd_buf_addr>>
      BY <2>5 DEF Receiver, AirStart, AirWord, AirEnd, RxData, RxReady, TestAuto,
         TestBusy, Argument, Lost, Test, RxAuto, RxFlood, RxPacketNext, ScramblerRead, ring
    <3> QED
      BY <3>1 DEF dump
  <2> QED
    BY <2>1, <2>2, <2>3, <2>4, <2>5 DEF CtrlIrq
<1>2. LoopWaits'
  <2>1. CASE HbcToSpi \/ Lost
    BY <2>1 DEF HbcToSpi, Lost, Test, LoopWaits
  <2>2. CASE TestFlood
    <3>1. CASE rx_flood # 0
      <4>1. Cross
        BY <2>2, <3>1 DEF TestFlood
      <4> QED
        BY <4>1 DEF Cross, LoopWaits
    <3>2. CASE rx_flood = 0
      BY <2>2, <3>2 DEF TestFlood, Test, LoopWaits
    <3> QED
      BY <3>1, <3>2
  <2>3. CASE TestAuto
    BY <2>3 DEF TestAuto, Test, LoopWaits
  <2>4. CASE TestBusy
    <3>1. dumping_mem' = dumping_mem /\ (pc' = "Argument" => dumping_mem = 0)
          /\ pc' \in {"Argument", "TestFlood"}
      BY <2>4 DEF TestBusy, Test, dump
    <3> QED
      BY <3>1 DEF LoopWaits
  <2>5. CASE Argument
    BY <2>5 DEF Argument, Test, dump, DumpInv, LoopWaits
  <2>6. CASE Receiver \/ RxData \/ RxReady \/ CtrlIrq
    <3>1. UNCHANGED pc
      BY <2>6 DEF Receiver, AirStart, AirWord, AirEnd, RxData, RxReady, CtrlIrq, RxAuto,
         RxFlood, RxPacketReady, RxRead, RxPacketNext, RxCheck, MemDump, ScramblerRead,
         Command, loop
    <3> QED
      BY <1>1, <3>1 DEF DumpInv, LoopWaits
  <2> QED
    BY <2>1, <2>2, <2>3, <2>4, <2>5, <2>6
<1>3. Done <= Done' /\ \A p \in 1..Done : air'[p] = air[p]
  <2>1. /\ Done \in Nat /\ Len(air) \in Nat /\ Done <= Len(air)
        /\ Receiving => Len(air) = Done + 1
    BY DoneNat DEF RxInv
  <2>2. CASE air' = air /\ (Receiving \/ pushed' = pushed)
    <3>1. CASE Receiving
      <4>1. Len(air') = Done + 1
        BY <2>1, <2>2, <3>1
      <4> QED
        BY <2>1, <2>2, <4>1 DEF Done
    <3>2. CASE ~Receiving
      <4>1. ~Receiving'
        BY <2>2, <3>2 DEF Receiving
      <4> QED
        BY <2>1, <2>2, <3>2, <4>1 DEF Done
    <3> QED
      BY <3>1, <3>2
  <2>3. ASSUME NEW q \in Packets, AirStart(q)
        PROVE  Done <= Done' /\ \A p \in 1..Done : air'[p] = air[p]
    <3>1. air' = Append(air, q) /\ air \in Seq(Arrived) /\ q \in Arrived
      BY <2>3, RxAssumption DEF AirStart, Arrived, RxInv, AirInv
    <3>2. Len(air') = Len(air) + 1 /\ \A j \in 1..Len(air) : air'[j] = air[j]
      BY <3>1, LastOf
    <3> QED
      BY <2>1, <3>2 DEF Done
  <2>4. CASE AirWord \/ AirEnd \/ RxData \/ RxReady
    <3>1. RxReady => Receiving
      BY DEF RxReady, RxInv, AirInv
    <3> QED
      BY <2>2, <2>4, <3>1 DEF AirWord, AirEnd, RxData, RxReady
  <2>5. CASE TestFlood \/ TestAuto \/ TestBusy \/ Argument \/ Lost \/ HbcToSpi \/ CtrlIrq
    <3>1. UNCHANGED receiver
      BY <2>5 DEF TestFlood, TestAuto, TestBusy, Argument, Lost, Test, HbcToSpi, CtrlIrq,
         RxAuto, RxFlood, RxPacketReady, RxRead, RxPacketNext, RxCheck, MemDump,
         ScramblerRead, Command
    <3> QED
      BY <2>2, <3>1 DEF receiver
  <2> QED
    BY <2>3, <2>4, <2>5 DEF Receiver
<1> QED
  BY <1>1, <1>2, <1>3, DumpStays

\* The ring and the dump from it.
Kept(b) == \E n, id, at : Stays(b, n, id, at) /\ DumpInv(n, id, at)

\* A step of the queue, or none.
Queues == Queue!Next \/ UNCHANGED <<Waiting, served>>

LEMMA KeptReceiving ==
  ASSUME NEW b, RoomFor(b), RxInv, RxInv', Kept(b), Receiver \/ RxData \/ RxReady
  PROVE  Kept(b)' /\ Queues
<1>1. PICK n, id, at : Stays(b, n, id, at) /\ DumpInv(n, id, at)
  BY DEF Kept
<1>2. Placed(n, id, at) /\ n \in Nat
  BY <1>1 DEF Stays, Layout, Placed
<1>3. ASSUME Stays(b, n, id, at)' PROVE Kept(b)'
  <2>1. DumpInv(n, id, at)'
    BY <1>1, <1>2, DumpWaits
  <2> QED
    BY <1>3, <2>1 DEF Kept
<1>4. ASSUME NEW p, NEW e, Stays(b, n + 1, Longer(id, n, p), Longer(at, n + 1, e))'
      PROVE  Kept(b)'
  <2>1. \A k \in 1..n : /\ k \in 1..(n + 1)
                        /\ Longer(id, n, p)[k] = id[k]
                        /\ Longer(at, n + 1, e)[k] = at[k]
    BY <1>2 DEF Longer
  <2>2. PICK m, id2, at2 : m = n + 1 /\ id2 = Longer(id, n, p) /\ at2 = Longer(at, n + 1, e)
    OBVIOUS
  <2>3. DumpInv(m, id2, at2)'
    BY <1>1, <1>2, <2>1, <2>2, DumpWaits
  <2>4. Stays(b, m, id2, at2)'
    BY <1>4, <2>2
  <2> QED
    BY <2>3, <2>4 DEF Kept
<1>5. CASE Receiver
  BY <1>1, <1>3, <1>5, RingAir DEF Queues
<1>6. CASE RxData \/ RxReady
  BY <1>1, <1>3, <1>4, <1>6, RingWritten DEF Grows, Queues
<1> QED
  BY <1>5, <1>6

LEMMA KeptReading ==
  ASSUME NEW b, RoomFor(b), RxInv, RxInv', Kept(b), Main \/ DumpWord \/ CtrlIrq
  PROVE  stale' \/ (Kept(b)' /\ Queues)
<1>1. PICK n, id, at : Stays(b, n, id, at) /\ DumpInv(n, id, at)
  BY DEF Kept
<1>2. Placed(n, id, at)
  BY <1>1 DEF Stays, Layout
<1>3. stale' \/ (Stays(b, n, id, at)' /\ Queues)
  BY <1>1, RingRead DEF Queues
<1>4. CASE HbcToSpi
  <2>1. CASE UNCHANGED dump
    <3>1. DumpInv(n, id, at)'
      BY <1>1, <1>2, <1>4, <2>1, DumpWaits
    <3> QED
      BY <1>3, <3>1 DEF Kept
  <2>2. CASE ~UNCHANGED dump
    <3>1. packet_ready # 0 /\ dumped' = [pkt |-> HeadHeader.pkt, words |-> <<>>]
          /\ ReadHeaders(1)
      BY <1>4, <2>2 DEF HbcToSpi
    <3>2. DumpInv(n, id, at)'
      BY <1>1, <1>4, <3>1, DumpStarts
    <3> QED
      BY <1>3, <3>2 DEF Kept
  <2> QED
    BY <2>1, <2>2
<1>5. CASE DumpWord
  <2>1. DumpInv(n, id, at)'
    BY <1>1, <1>2, <1>5, DumpGoesOn, DumpOther
  <2> QED
    BY <1>3, <2>1 DEF Kept
<1>6. CASE TestFlood \/ TestAuto \/ TestBusy \/ Argument \/ Lost \/ CtrlIrq
  <2>1. DumpInv(n, id, at)'
    BY <1>1, <1>2, <1>6, DumpWaits
  <2> QED
    BY <1>3, <2>1 DEF Kept
<1> QED
  BY <1>4, <1>5, <1>6 DEF Main

LEMMA KeptCut ==
  ASSUME NEW b, RoomFor(b), RxInv, RxInv', Kept(b),
         Receiving, pushed < air[Len(air)].size, Taken' = Taken,
         air' = [air EXCEPT ![Len(air)].size = pushed],
         UNCHANGED <<mem, writer, ring, packet_ready, loop, dump, pushed, served, found,
                     stale>>
  PROVE  Kept(b)' /\ Queues
<1>1. PICK n, id, at : Stays(b, n, id, at) /\ DumpInv(n, id, at)
  BY DEF Kept
<1>2. Placed(n, id, at) /\ n \in Nat
  BY <1>1 DEF Stays, Layout, Placed
<1>3. /\ Stays(b, n, id, at)' /\ Queues
      /\ Done' = Done /\ \A p \in 1..Done : air'[p] = air[p]
  BY <1>1, RingCut DEF Queues
<1>4. Done <= Done' /\ \A p \in 1..Done : air'[p] = air[p]
  <2>1. Done \in Nat /\ Done' \in Nat
    BY DoneNat, DoneNext DEF RxInv
  <2> QED
    BY <1>3, <2>1
<1>5. DumpInv(n, id, at)'
  <2>1. UNCHANGED <<dumped, crossed, dumping_mem, dump_hbc_rx, rd_buf_addr, pc>>
    BY DEF ring, dump, loop
  <2>2. LoopWaits'
    BY <1>1, <2>1 DEF DumpInv, LoopWaits
  <2> QED
    BY <1>1, <1>2, <1>4, <2>1, <2>2, DumpStays
<1> QED
  BY <1>3, <1>5 DEF Kept

LEMMA KeptStutter ==
  ASSUME NEW b, RoomFor(b), RxInv, RxInv', Kept(b),
         UNCHANGED <<mem, writer, ring, packet_ready, loop, dump, receiver, served, found,
                     stale>>
  PROVE  Kept(b)' /\ Queues
<1>1. PICK n, id, at : Stays(b, n, id, at) /\ DumpInv(n, id, at)
  BY DEF Kept
<1>2. Placed(n, id, at) /\ n \in Nat
  BY <1>1 DEF Stays, Layout, Placed
<1>3. Stays(b, n, id, at)' /\ Queues
  BY <1>1, RingStutter DEF Queues
<1>4. Done <= Done' /\ \A p \in 1..Done : air'[p] = air[p]
  <2>1. UNCHANGED <<air, Done>> /\ Done \in Nat
    BY DoneNat DEF receiver, Done, Receiving, RxInv
  <2> QED
    BY <2>1
<1>5. DumpInv(n, id, at)'
  <2>1. UNCHANGED <<dumped, crossed, dumping_mem, dump_hbc_rx, rd_buf_addr, pc>>
    BY DEF ring, dump, loop
  <2>2. LoopWaits'
    BY <1>1, <2>1 DEF DumpInv, LoopWaits
  <2> QED
    BY <1>1, <1>2, <1>4, <2>1, <2>2, DumpStays
<1> QED
  BY <1>3, <1>5 DEF Kept

LEMMA KeptInit ==
  ASSUME NEW b, RoomFor(b), Init
  PROVE  Kept(b) /\ Queue!Init
<1>1. PICK n, id, at : n = 0 /\ id = [k \in 1..0 |-> 0] /\ at = [k \in 1..1 |-> Half]
  OBVIOUS
<1>2. Stays(b, n, id, at) /\ DumpInv(n, id, at) /\ Queue!Init
  BY <1>1, RingInit, DumpInit
<1> QED
  BY <1>2 DEF Kept

\* A packet that the main loop forwards reaches the host as it was received,
\* though it was taken from the queue before the dump began and others arrive
\* during it, as long as nobody reads the ring for something else meanwhile.
THEOREM ForwardedIsIntact ==
  ASSUME FirstRound
  PROVE  Spec => []DumpIntact
<1>1. PICK b : RoomFor(b)
  BY DEF FirstRound
<1> DEFINE IInv == RxInv /\ scr \in Keys /\ (stale \/ Kept(b))
<1>2. Init => IInv
  BY <1>1, RxInit, KeptInit
<1>3. IInv /\ [Next]_vars => IInv'
  <2> SUFFICES ASSUME RxInv, scr \in Keys, stale \/ Kept(b), [Next]_vars
               PROVE  IInv'
    OBVIOUS
  <2>1. RxInv' /\ scr' \in Keys
    BY RxStep
  <2>2. stale' \/ Kept(b)'
    <3>1. CASE stale
      BY <3>1, StaleStays
    <3>2. CASE Kept(b)
      <4>1. CASE UNCHANGED vars
        <5>1. UNCHANGED <<mem, writer, ring, packet_ready, loop, dump, receiver, served,
                          found, stale>>
          BY <4>1 DEF vars, host
        <5> QED
          BY <1>1, <2>1, <3>2, <5>1, KeptStutter
      <4>2. CASE Receiver \/ RxData \/ RxReady
        BY <1>1, <2>1, <3>2, <4>2, KeptReceiving
      <4>3. CASE Main \/ DumpWord \/ CtrlIrq
        BY <1>1, <2>1, <3>2, <4>3, KeptReading
      <4> QED
        BY <4>1, <4>2, <4>3 DEF Next, Handlers
    <3> QED
      BY <3>1, <3>2
  <2> QED
    BY <2>1, <2>2
<1>4. IInv => DumpIntact
  <2> SUFFICES ASSUME stale \/ Kept(b) PROVE DumpIntact
    OBVIOUS
  <2>1. CASE stale
    BY <2>1 DEF DumpIntact
  <2>2. CASE Kept(b)
    BY <2>2, DumpedIntact DEF Kept
  <2> QED
    BY <2>1, <2>2
<1> QED
  BY <1>2, <1>3, <1>4, PTL DEF Spec
=============================================================================
