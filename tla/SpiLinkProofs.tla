--------------------------- MODULE SpiLinkProofs ----------------------------
(***************************************************************************)
(* The two SPI links for every size of packets and acknowledgements, every *)
(* set of commands and every number of attempts, lost bytes, damaged       *)
(* packets that are executed and forwarded packets: the types, that the    *)
(* pump never stalls, what a lost byte costs, when an attempt is executed, *)
(* and that the host takes what is due.                                    *)
(***************************************************************************)
EXTENDS SpiLink, SequenceTheorems, FiniteSetTheorems, TLAPS

Bytes      == [id : Nat, pos : Nat]
Attempts   == [cmd : Commands, at : Nat]
Executions == [id : Nat, cmd : Commands]
Sources    == {"none", "ack", "reply", "dump", "announce", "packet"}
Answers    == [src : Sources, id : Nat, size : Nat, left : Nat]
DataBytes  == [src : Sources, id : Nat, k : Int]

\* The bytes an answer has still to give.
Rest(a) == [i \in 1..a.left |-> [src |-> a.src, id |-> a.id,
                                 k |-> a.size - a.left + i]]
Rests   == Rest(ack) \o (Rest(reply) \o Rest(dump))

\* The attempt under way, and how many of its bytes have left the host.
Newest == Len(attempts)
Done   == Size(attempts[Newest].cmd) - Len(tosend)

\* The attempts, and the bytes of the last that are still to be sent.
HostInv ==
  /\ attempts \in Seq(Attempts) /\ tosend \in Seq(Bytes)
  /\ impatient \in BOOLEAN /\ busy_checked \in BOOLEAN
  /\ forwards \in Nat /\ damaged \in Nat
  /\ tosend # <<>> => Newest > 0
  /\ Newest > 0 => Done \in Nat
  /\ \A i \in DOMAIN tosend : tosend[i] = [id |-> Newest, pos |-> Done + (i - 1)]

\* The parser, and what was lost of what has left the host.
ParserInv ==
  /\ bytes_req \in 0..PACKET_SIZE /\ pkt \in Seq(Bytes)
  /\ loading_mem \in 0..MaxLoad
  /\ bytes_req > 0 => loading_mem = 0 /\ Len(pkt) = PACKET_SIZE - bytes_req
  /\ IsFiniteSet(lost)
  /\ \A b \in lost :
       b \in Bytes /\ b.id <= Newest /\ (b.id = Newest => b.pos < Done)

\* An attempt is executed when the last byte of its packet arrives.
Increasing ==
  \A i, k \in DOMAIN executed :
    i < k /\ executed[i].id # 0 /\ executed[k].id # 0 =>
      executed[i].id < executed[k].id

ExecutedInv ==
  /\ executed \in Seq(Executions)
  /\ \A i \in DOMAIN executed :
       executed[i].id # 0 =>
         /\ executed[i].id <= Newest
         /\ executed[i].id = Newest => Done > PACKET_SIZE
  /\ Increasing

\* The answers, and that the pump never stalls.
PumpInv ==
  /\ out \in Seq(DataBytes) /\ received \in Seq(DataBytes) /\ due \in Seq(DataBytes)
  /\ \A a \in {ack, reply, dump} : a \in Answers /\ a.left <= a.size
  /\ PumpNeverStalls

SpiInv == HostInv /\ ParserInv /\ ExecutedInv /\ PumpInv

-----------------------------------------------------------------------------
(* Answers and the pump.                                                   *)

LEMMA RestTyped ==
  ASSUME NEW a \in Answers
  PROVE  Rest(a) \in Seq(DataBytes) /\ Len(Rest(a)) = a.left
<1>1. a.left \in Nat /\ a.size \in Nat /\ a.src \in Sources /\ a.id \in Nat
  BY DEF Answers
<1>2. \A i \in 1..a.left : [src |-> a.src, id |-> a.id, k |-> a.size - a.left + i]
                             \in DataBytes
  BY <1>1 DEF DataBytes
<1> QED BY <1>1, <1>2 DEF Rest

LEMMA RestNone ==
  ASSUME NEW a \in Answers, a.left = 0
  PROVE  Rest(a) = <<>>
BY RestTyped, EmptySeq

LEMMA AnswerDue ==
  ASSUME NEW s \in Sources, NEW id \in Nat, NEW n \in Nat
  PROVE  /\ Answer(s, id, n) \in Answers
         /\ Answer(s, id, n).left = n /\ Answer(s, id, n).size = n
         /\ AnswerBytes(Answer(s, id, n)) = Rest(Answer(s, id, n))
         /\ Rest(Answer(s, id, n)) \in Seq(DataBytes)
<1>1. Answer(s, id, n) \in Answers
  BY DEF Answer, Answers
<1>2. \A i \in 1..n : n - n + i = i
  OBVIOUS
<1>3. AnswerBytes(Answer(s, id, n)) = Rest(Answer(s, id, n))
  BY <1>2 DEF Answer, AnswerBytes, Rest
<1> QED BY <1>1, <1>3, RestTyped DEF Answer

\* The pump takes the first of the bytes that are left of an answer.
LEMMA RestNext ==
  ASSUME NEW a \in Answers, a.left > 0, a.left <= a.size
  PROVE  /\ NextByte(a) \in DataBytes
         /\ Less(a) \in Answers
         /\ Less(a).left = a.left - 1 /\ Less(a).size = a.size
         /\ Rest(a) = <<NextByte(a)>> \o Rest(Less(a))
<1> DEFINE z == Less(a)
<1>1. a.left \in Nat /\ a.size \in Nat /\ a.src \in Sources /\ a.id \in Nat
  BY DEF Answers
<1>2. /\ z \in Answers
      /\ z.left = a.left - 1 /\ z.size = a.size /\ z.src = a.src /\ z.id = a.id
  BY <1>1 DEF Less, Answers
<1>3. NextByte(a) \in DataBytes
  BY <1>1 DEF NextByte, DataBytes
<1> DEFINE x == <<NextByte(a)>>
           y == Rest(z)
<1>4. x \in Seq(DataBytes) /\ Len(x) = 1 /\ x[1] = NextByte(a)
  BY <1>3
<1>5. y \in Seq(DataBytes) /\ Len(y) = a.left - 1
  BY <1>2, RestTyped
<1>6. \A i \in 1..(a.left - 1) :
        y[i] = [src |-> a.src, id |-> a.id, k |-> a.size - (a.left - 1) + i]
  BY <1>1, <1>2 DEF Rest
<1>7. Rest(a) \in Seq(DataBytes) /\ Len(Rest(a)) = a.left
  BY RestTyped
<1>8. \A i \in 1..a.left :
        Rest(a)[i] = [src |-> a.src, id |-> a.id, k |-> a.size - a.left + i]
  BY <1>1 DEF Rest
<1>9. NextByte(a) = [src |-> a.src, id |-> a.id, k |-> a.size - a.left + 1]
  BY DEF NextByte
<1>10. \A i \in 2..a.left : a.size - (a.left - 1) + (i - 1) = a.size - a.left + i
  BY <1>1
<1> HIDE DEF x, y, z
<1>11. /\ x \o y \in Seq(DataBytes) /\ Len(x \o y) = 1 + (a.left - 1)
       /\ \A i \in 1..(1 + (a.left - 1)) :
            (x \o y)[i] = IF i <= 1 THEN x[i] ELSE y[i - 1]
  <2>1. /\ x \o y \in Seq(DataBytes) /\ Len(x \o y) = Len(x) + Len(y)
        /\ \A i \in 1..(Len(x) + Len(y)) :
             (x \o y)[i] = IF i <= Len(x) THEN x[i] ELSE y[i - Len(x)]
    BY ONLY <1>4, <1>5, ConcatProperties, Zenon
  <2> QED BY ONLY <2>1, <1>4, <1>5
<1>12. \A i \in 1..a.left : Rest(a)[i] = (x \o y)[i]
  <2> SUFFICES ASSUME NEW i \in 1..a.left
               PROVE  Rest(a)[i] = (x \o y)[i]
    OBVIOUS
  <2>1. CASE i = 1
    BY <2>1, <1>1, <1>4, <1>8, <1>9, <1>11
  <2>2. CASE i # 1
    <3>1. i \in 2..a.left /\ i - 1 \in 1..(a.left - 1) /\ ~(i <= 1)
          /\ i \in 1..(1 + (a.left - 1))
      BY <2>2, <1>1
    <3>2. (x \o y)[i] = y[i - 1]
      BY <3>1, <1>11
    <3> QED BY <3>1, <3>2, <1>6, <1>8, <1>10
  <2> QED BY <2>1, <2>2
<1>13. Rest(a) = x \o y
  <2>1. Len(Rest(a)) = Len(x \o y)
    BY <1>1, <1>7, <1>11
  <2> QED BY ONLY <1>7, <1>11, <1>12, <2>1, SeqEqual, Zenon
<1> QED BY <1>2, <1>3, <1>13 DEF x, y, z

\* An interrupt or a trigger of the data link moves the next byte of the
\* answers to the host; when it finds none the answers are all finished.
LEMMA PumpMoves ==
  ASSUME NEW o \in Seq(DataBytes),
         NEW a \in Answers, NEW r \in Answers, NEW d \in Answers,
         a.left <= a.size, r.left <= r.size, d.left <= d.size,
         Pump(o, a, r, d)
  PROVE  /\ out' \in Seq(DataBytes)
         /\ ack' \in Answers /\ reply' \in Answers /\ dump' \in Answers
         /\ ack'.left <= ack'.size /\ reply'.left <= reply'.size
         /\ dump'.left <= dump'.size
         /\ out' = <<>> => ack'.left = 0 /\ reply'.left = 0 /\ dump'.left = 0
         /\ out' \o (Rest(ack') \o (Rest(reply') \o Rest(dump')))
              = o \o (Rest(a) \o (Rest(r) \o Rest(d)))
<1> DEFINE Left(u, v, w) == Rest(u) \o (Rest(v) \o Rest(w))
<1>1. /\ Rest(a) \in Seq(DataBytes) /\ Rest(r) \in Seq(DataBytes)
      /\ Rest(d) \in Seq(DataBytes)
  BY RestTyped
<1>2. a.left \in Nat /\ r.left \in Nat /\ d.left \in Nat
  BY DEF Answers
<1>3. ASSUME NEW s \in Seq(DataBytes), NEW t \in Seq(DataBytes),
             NEW b \in DataBytes, s = <<b>> \o t
      PROVE  /\ Append(o, b) \in Seq(DataBytes) /\ Append(o, b) # <<>>
             /\ Append(o, b) \o t = o \o s
  <2>1. <<b>> \in Seq(DataBytes)
    OBVIOUS
  <2>2. Append(o, b) = o \o <<b>>
    BY AppendIsConcat
  <2>3. (o \o <<b>>) \o t = o \o (<<b>> \o t)
    BY <2>1, ConcatAssociative
  <2>4. Append(o, b) \in Seq(DataBytes) /\ Append(o, b) # <<>>
    BY AppendProperties
  <2> QED BY <1>3, <2>2, <2>3, <2>4
<1>4. CASE a.left > 0
  <2>1. /\ out' = Append(o, NextByte(a))
        /\ ack' = Less(a) /\ reply' = r /\ dump' = d
    BY <1>2, <1>4 DEF Pump
  <2>2. /\ NextByte(a) \in DataBytes /\ Less(a) \in Answers
        /\ Less(a).left = a.left - 1 /\ Less(a).size = a.size
        /\ Rest(a) = <<NextByte(a)>> \o Rest(Less(a))
    BY <1>4, RestNext
  <2>3. Rest(Less(a)) \in Seq(DataBytes) /\ <<NextByte(a)>> \in Seq(DataBytes)
        /\ Rest(r) \o Rest(d) \in Seq(DataBytes)
    BY <1>1, <2>2, RestTyped, ConcatProperties
  <2>4. Left(a, r, d) = <<NextByte(a)>> \o Left(Less(a), r, d)
    BY <2>2, <2>3, ConcatAssociative
  <2>5. Left(a, r, d) \in Seq(DataBytes)
        /\ Left(Less(a), r, d) \in Seq(DataBytes)
    BY <1>1, <2>3, ConcatProperties
  <2>6. a.size \in Nat
    BY DEF Answers
  <2> HIDE DEF Left
  <2>7. /\ out' \in Seq(DataBytes) /\ out' # <<>>
        /\ out' \o Left(Less(a), r, d) = o \o Left(a, r, d)
    BY <1>3, <2>1, <2>2, <2>4, <2>5
  <2>8. Less(a).left <= Less(a).size
    BY <1>2, <2>2, <2>6
  <2> QED BY <2>1, <2>2, <2>7, <2>8 DEF Left
<1>5. CASE a.left = 0 /\ r.left > 0
  <2>1. /\ out' = Append(o, NextByte(r))
        /\ ack' = a /\ reply' = Less(r) /\ dump' = d
    BY <1>2, <1>5 DEF Pump
  <2>2. /\ NextByte(r) \in DataBytes /\ Less(r) \in Answers
        /\ Less(r).left = r.left - 1 /\ Less(r).size = r.size
        /\ Rest(r) = <<NextByte(r)>> \o Rest(Less(r))
    BY <1>5, RestNext
  <2>3. Rest(Less(r)) \in Seq(DataBytes) /\ <<NextByte(r)>> \in Seq(DataBytes)
        /\ Rest(a) = <<>>
    BY <1>5, <2>2, RestTyped, RestNone
  <2>4. Rest(r) \o Rest(d) = <<NextByte(r)>> \o (Rest(Less(r)) \o Rest(d))
    BY <1>1, <2>2, <2>3, ConcatAssociative
  <2>5. Rest(r) \o Rest(d) \in Seq(DataBytes)
        /\ Rest(Less(r)) \o Rest(d) \in Seq(DataBytes)
    BY <1>1, <2>3, ConcatProperties
  <2>6. /\ Left(a, r, d) = Rest(r) \o Rest(d)
        /\ Left(a, Less(r), d) = Rest(Less(r)) \o Rest(d)
    BY <2>3, <2>5, ConcatEmptySeq
  <2>7. r.size \in Nat
    BY DEF Answers
  <2>8. /\ out' \in Seq(DataBytes) /\ out' # <<>>
        /\ out' \o (Rest(Less(r)) \o Rest(d)) = o \o (Rest(r) \o Rest(d))
    BY <1>3, <2>1, <2>2, <2>4, <2>5
  <2>9. Less(r).left <= Less(r).size
    BY <1>2, <2>2, <2>7
  <2> QED BY <2>1, <2>2, <2>6, <2>8, <2>9
<1>6. CASE a.left = 0 /\ r.left = 0 /\ d.left > 0
  <2>1. /\ out' = Append(o, NextByte(d))
        /\ ack' = a /\ reply' = r /\ dump' = Less(d)
    BY <1>2, <1>6 DEF Pump
  <2>2. /\ NextByte(d) \in DataBytes /\ Less(d) \in Answers
        /\ Less(d).left = d.left - 1 /\ Less(d).size = d.size
        /\ Rest(d) = <<NextByte(d)>> \o Rest(Less(d))
    BY <1>6, RestNext
  <2>3. Rest(Less(d)) \in Seq(DataBytes) /\ Rest(a) = <<>> /\ Rest(r) = <<>>
    BY <1>6, <2>2, RestTyped, RestNone
  <2>4. /\ Left(a, r, d) = Rest(d)
        /\ Left(a, r, Less(d)) = Rest(Less(d))
    BY <1>1, <2>3, ConcatEmptySeq
  <2>5. d.size \in Nat
    BY DEF Answers
  <2>6. /\ out' \in Seq(DataBytes) /\ out' # <<>>
        /\ out' \o Rest(Less(d)) = o \o Rest(d)
    BY <1>1, <1>3, <2>1, <2>2, <2>3
  <2>7. Less(d).left <= Less(d).size
    BY <1>2, <2>2, <2>5
  <2> QED BY <2>1, <2>2, <2>4, <2>6, <2>7
<1>7. CASE a.left = 0 /\ r.left = 0 /\ d.left = 0
  BY <1>7 DEF Pump
<1>8. \/ a.left > 0
      \/ a.left = 0 /\ r.left > 0
      \/ a.left = 0 /\ r.left = 0 /\ d.left > 0
      \/ a.left = 0 /\ r.left = 0 /\ d.left = 0
  BY <1>2
<1> QED BY ONLY <1>4, <1>5, <1>6, <1>7, <1>8, Zenon

-----------------------------------------------------------------------------
(* The control link.                                                       *)

\* The size of an attempt.
LEMMA SizeOf ==
  ASSUME NEW c \in Commands
  PROVE  /\ Size(c) \in Nat /\ Size(c) > PACKET_SIZE
         /\ Loading(c) => Size(c) = 1 + PACKET_SIZE + c.n
         /\ ~Loading(c) => Size(c) = 1 + PACKET_SIZE
BY SpiAssumption DEF Size, Loading

LEMMA InitSpiInv == Init => SpiInv
<1> SUFFICES ASSUME Init PROVE SpiInv
  OBVIOUS
<1> USE SpiAssumption DEF Init
<1>1. HostInv
  <2>1. DOMAIN tosend = {} /\ tosend = <<>>
    OBVIOUS
  <2>2. attempts \in Seq(Attempts) /\ tosend \in Seq(Bytes) /\ Newest = 0
    BY EmptySeq DEF Newest
  <2>3. forwards \in Nat /\ damaged \in Nat /\ ~(Newest > 0)
    BY <2>2
  <2>4. busy_checked \in BOOLEAN /\ impatient \in BOOLEAN
    OBVIOUS
  <2> QED BY ONLY <2>1, <2>2, <2>3, <2>4, Zenon DEF HostInv
<1>2. IsFiniteSet(lost)
  BY FS_EmptySet
<1>3. ParserInv
  BY <1>2 DEF ParserInv
<1>4. ExecutedInv
  BY DEF ExecutedInv, Increasing
<1>5. Idle \in Answers /\ Idle.left = 0 /\ Idle.size = 0
  BY DEF Idle, Answers, Sources
<1>6. PumpInv
  BY <1>5, EmptySeq DEF PumpInv, PumpNeverStalls, Quiet
<1> QED BY <1>1, <1>3, <1>4, <1>6 DEF SpiInv

\* A byte of the attempt under way leaves the host, to arrive or to be lost.
LEMMA ByteSent ==
  ASSUME SpiInv, tosend # <<>>, tosend' = Tail(tosend), UNCHANGED attempts
  PROVE  /\ Newest \in Nat \ {0} /\ Newest' = Newest
         /\ attempts[Newest] \in Attempts /\ attempts[Newest].cmd \in Commands
         /\ Done \in Nat /\ Done' = Done + 1
         /\ Head(tosend) = [id |-> Newest, pos |-> Done] /\ Head(tosend) \in Bytes
         /\ tosend' \in Seq(Bytes)
         /\ \A i \in DOMAIN tosend' :
              tosend'[i] = [id |-> Newest, pos |-> Done + 1 + (i - 1)]
         /\ Len(tosend) \in Nat \ {0} /\ Len(tosend') = Len(tosend) - 1
         /\ Len(tosend) = Size(attempts[Newest].cmd) - Done
<1>1. /\ attempts \in Seq(Attempts) /\ tosend \in Seq(Bytes)
      /\ Newest > 0 /\ Done \in Nat
      /\ \A i \in DOMAIN tosend :
           tosend[i] = [id |-> Newest, pos |-> Done + (i - 1)]
  BY DEF SpiInv, HostInv
<1>2. Newest \in Nat \ {0} /\ Newest' = Newest /\ Newest \in DOMAIN attempts
  BY <1>1, LenProperties DEF Newest
<1>3. attempts[Newest] \in Attempts /\ attempts[Newest].cmd \in Commands
  <2>1. attempts[Newest] \in Attempts
    BY <1>1, <1>2, LenProperties DEF Newest
  <2> QED BY <2>1 DEF Attempts
<1>4. Len(tosend) \in Nat \ {0} /\ DOMAIN tosend = 1..Len(tosend)
  BY <1>1, EmptySeq, LenProperties
<1>5. Head(tosend) = tosend[1] /\ tosend[1] \in Bytes
  BY <1>1, <1>4
<1>6. tosend[1] = [id |-> Newest, pos |-> Done]
  <2>1. 1 \in DOMAIN tosend /\ Done + (1 - 1) = Done
    BY <1>1, <1>4
  <2> QED BY <1>1, <2>1
<1>7. /\ tosend' \in Seq(Bytes) /\ Len(tosend') = Len(tosend) - 1
      /\ \A i \in 1..Len(tosend') : tosend'[i] = tosend[i + 1]
  BY <1>1, HeadTailProperties
<1>8. DOMAIN tosend' = 1..Len(tosend')
  BY <1>7, LenProperties
<1>9. ASSUME NEW i \in DOMAIN tosend'
      PROVE  tosend'[i] = [id |-> Newest, pos |-> Done + 1 + (i - 1)]
  <2>1. i + 1 \in DOMAIN tosend /\ Done + ((i + 1) - 1) = Done + 1 + (i - 1)
    BY <1>1, <1>4, <1>7, <1>8
  <2> QED BY <1>1, <1>7, <1>8, <2>1
<1>10. Size(attempts[Newest].cmd) \in Nat
  BY <1>3, SizeOf
<1>11. Done' = Done + 1 /\ Len(tosend) = Size(attempts[Newest].cmd) - Done
  <2>1. Done' = Size(attempts[Newest].cmd) - Len(tosend')
    BY <1>2 DEF Done, Size, Loading
  <2> QED BY <1>4, <1>7, <1>10, <2>1 DEF Done
<1> QED BY <1>1, <1>2, <1>3, <1>4, <1>5, <1>6, <1>7, <1>9, <1>11

\* What the parser does with a byte: it goes to a load, opens a packet or is
\* passed over, joins a packet, or completes one that is dropped, that is
\* executed although it is no attempt's, or that is the newest attempt's.
Same  == UNCHANGED <<pump, executed, due>>
Loads == /\ loading_mem > 0 /\ loading_mem' = loading_mem - 1
         /\ UNCHANGED <<bytes_req, pkt, damaged>> /\ Same
Opens == /\ bytes_req = 0 /\ loading_mem = 0 /\ pkt' = <<>>
         /\ bytes_req' = IF IsHeader(Head(tosend)) THEN PACKET_SIZE ELSE 0
         /\ UNCHANGED <<loading_mem, damaged>> /\ Same
Joins == /\ bytes_req > 1 /\ loading_mem = 0
         /\ bytes_req' = bytes_req - 1 /\ pkt' = Append(pkt, Head(tosend))
         /\ UNCHANGED <<loading_mem, damaged>> /\ Same
Closes == bytes_req = 1 /\ loading_mem = 0 /\ bytes_req' = 0 /\ pkt' = <<>>
Drops == /\ Closes /\ ~Intact(Append(pkt, Head(tosend)))
         /\ damaged' = damaged + 1 /\ UNCHANGED loading_mem /\ Same
Collides == /\ Closes /\ ~Intact(Append(pkt, Head(tosend)))
            /\ damaged' = damaged + 1 /\ \E c \in Commands : Execute(0, c)
Executes == /\ Closes /\ Done = PACKET_SIZE /\ UNCHANGED damaged
            /\ Execute(Newest, attempts[Newest].cmd)

LEMMA CtrlCases ==
  ASSUME SpiInv, CtrlIrq
  PROVE  Loads \/ Opens \/ Joins \/ Drops \/ Collides \/ Executes
<1> DEFINE h == Head(tosend)
           p == Append(pkt, h)
<1>0. /\ bytes_req \in Nat /\ loading_mem \in Nat /\ pkt \in Seq(Bytes)
      /\ bytes_req > 0 => Len(pkt) = PACKET_SIZE - bytes_req
      /\ PACKET_SIZE \in Nat \ {0}
      /\ tosend # <<>> /\ tosend' = Tail(tosend) /\ UNCHANGED attempts
  BY SpiAssumption DEF SpiInv, ParserInv, CtrlIrq
<1>1. h = [id |-> Newest, pos |-> Done] /\ h \in Bytes
  BY <1>0, ByteSent
<1>2. CASE loading_mem > 0
  BY <1>2, <1>0 DEF CtrlIrq, Loads, Same
<1>3. CASE loading_mem = 0
  <2>1. SeekHeader(h) \/ Collect(h) \/ Complete(h)
    BY <1>3 DEF CtrlIrq, CtrlCmd
  <2>2. CASE SeekHeader(h)
    BY <1>3, <2>2 DEF SeekHeader, Ignored, Opens, Same
  <2>3. CASE Collect(h)
    BY <1>3, <2>3 DEF Collect, Ignored, Joins, Same
  <2>4. CASE Complete(h)
    <3>1. Closes
      BY <1>3, <2>4 DEF Complete, AfterPacket, Closes
    <3>2. \/ /\ Intact(p) /\ UNCHANGED damaged
             /\ Execute(p[1].id, attempts[p[1].id].cmd)
          \/ /\ ~Intact(p) /\ damaged' = damaged + 1 /\ Ignored
          \/ /\ ~Intact(p) /\ damaged' = damaged + 1
             /\ \E c \in Commands : Execute(0, c)
      BY <2>4 DEF Complete
    <3>3. CASE ~Intact(p) /\ damaged' = damaged + 1 /\ Ignored
      BY <3>1, <3>3 DEF Ignored, Drops, Same
    <3>4. CASE ~Intact(p) /\ damaged' = damaged + 1 /\ \E c \in Commands : Execute(0, c)
      BY <3>1, <3>4 DEF Collides
    <3>5. CASE /\ Intact(p) /\ UNCHANGED damaged
               /\ Execute(p[1].id, attempts[p[1].id].cmd)
      <4>1. Len(pkt) = PACKET_SIZE - 1
        BY <1>0, <3>1 DEF Closes
      <4>2. p[PACKET_SIZE] = h
        BY <1>0, <1>1, <4>1, AppendProperties
      <4>3. \A k \in 1..PACKET_SIZE : p[k] = [id |-> p[1].id, pos |-> k]
        BY <3>5, Zenon DEF Intact
      <4>4. p[1].id = Newest /\ Done = PACKET_SIZE
        <5> HIDE DEF p, h
        <5>1. PACKET_SIZE \in 1..PACKET_SIZE
          BY <1>0
        <5>2. h = [id |-> p[1].id, pos |-> PACKET_SIZE]
          BY ONLY <4>2, <4>3, <5>1
        <5>3. h.id = p[1].id /\ h.pos = PACKET_SIZE
          BY ONLY <5>2
        <5>4. h.id = Newest /\ h.pos = Done
          BY ONLY <1>1
        <5> QED BY ONLY <5>3, <5>4
      <4>5. Execute(Newest, attempts[Newest].cmd)
        BY <3>5, <4>4
      <4> QED BY <3>1, <3>5, <4>4, <4>5 DEF Executes
    <3> QED BY <3>2, <3>3, <3>4, <3>5
  <2> QED BY <2>1, <2>2, <2>3, <2>4
<1> QED BY <1>0, <1>2, <1>3

\* What the execution of a command does to load and answers.
LEMMA ExecuteEffect ==
  ASSUME SpiInv, loading_mem = 0, NEW id \in Nat, NEW c \in Commands, Execute(id, c),
         UNCHANGED received
  PROVE  /\ loading_mem' = (IF Loading(c) THEN c.n ELSE 0) /\ loading_mem' \in 0..MaxLoad
         /\ executed' = Append(executed, [id |-> id, cmd |-> c])
         /\ executed' \in Seq(Executions) /\ Len(executed') = Len(executed) + 1
         /\ executed'[Len(executed) + 1] = [id |-> id, cmd |-> c]
         /\ \A i \in DOMAIN executed : i \in DOMAIN executed' /\ executed'[i] = executed[i]
         /\ PumpInv'
         /\ Quiet /\ due = received \o (out \o Rests) =>
              due' = received \o (out' \o Rests')
<1> DEFINE x == Len(executed) + 1
           a == IF c.kind = "packet" THEN ack ELSE Answer("ack", x, REPLY_SIZE)
           r == IF c.kind = "reply" THEN Answer("reply", x, 4) ELSE reply
           d == IF c.kind = "dump" THEN Answer("dump", x, c.n) ELSE dump
           A == IF c.kind = "packet" THEN <<>> ELSE AnswerBytes(a)
           R == IF c.kind = "reply" THEN AnswerBytes(r) ELSE <<>>
           D == IF c.kind = "dump" THEN AnswerBytes(d) ELSE <<>>
<1>1. /\ loading_mem' = IF Loading(c) THEN c.n ELSE loading_mem
      /\ executed' = Append(executed, [id |-> id, cmd |-> c])
      /\ due' = due \o A \o R \o D
      /\ Pump(out, a, r, d)
  BY DEF Execute, LoadBytes
<1>2. /\ executed \in Seq(Executions)
      /\ out \in Seq(DataBytes) /\ received \in Seq(DataBytes)
      /\ due \in Seq(DataBytes)
      /\ ack \in Answers /\ reply \in Answers /\ dump \in Answers
      /\ ack.left <= ack.size /\ reply.left <= reply.size /\ dump.left <= dump.size
  BY DEF SpiInv, ExecutedInv, PumpInv
<1>3. x \in Nat
  BY <1>2, LenProperties
<1>4. c.n \in Nat /\ REPLY_SIZE \in Nat /\ MaxLoad \in Nat /\ (Loading(c) => c.n <= MaxLoad)
  BY SpiAssumption DEF Loading
<1>5. "ack" \in Sources /\ "reply" \in Sources /\ "dump" \in Sources
  BY DEF Sources
<1>20. /\ executed' \in Seq(Executions) /\ Len(executed') = Len(executed) + 1
       /\ executed'[Len(executed) + 1] = [id |-> id, cmd |-> c]
       /\ \A i \in DOMAIN executed : i \in DOMAIN executed' /\ executed'[i] = executed[i]
  <2>1. [id |-> id, cmd |-> c] \in Executions
    BY DEF Executions
  <2> QED BY <1>1, <1>2, <2>1, AppendProperties, LenProperties
<1> HIDE DEF x
<1>6. a \in Answers /\ a.left <= a.size /\ A \in Seq(DataBytes)
      /\ (ack.left = 0 => A = Rest(a))
  <2>1. CASE c.kind = "packet"
    BY <2>1, <1>2, RestNone, EmptySeq
  <2>2. CASE c.kind # "packet"
    <3>1. a = Answer("ack", x, REPLY_SIZE) /\ A = AnswerBytes(a)
      BY <2>2
    <3>2. REPLY_SIZE \in Nat /\ REPLY_SIZE <= REPLY_SIZE
      BY <1>4
    <3>. HIDE DEF a, A
    <3>3. /\ a \in Answers /\ a.left = REPLY_SIZE /\ a.size = REPLY_SIZE
          /\ A = Rest(a) /\ Rest(a) \in Seq(DataBytes)
      <4>1. x \in Nat
        BY <1>3
      <4> QED BY ONLY <3>1, <3>2, <4>1, <1>5, AnswerDue
    <3> QED BY ONLY <3>2, <3>3, Zenon
  <2> QED BY <2>1, <2>2
<1>7. r \in Answers /\ r.left <= r.size /\ R \in Seq(DataBytes)
      /\ (reply.left = 0 => R = Rest(r))
  <2>1. CASE c.kind # "reply"
    BY <2>1, <1>2, RestNone, EmptySeq
  <2>2. CASE c.kind = "reply"
    <3>1. r = Answer("reply", x, 4) /\ R = AnswerBytes(r)
      BY <2>2
    <3>2. 4 \in Nat /\ 4 <= 4
      BY <1>4
    <3>. HIDE DEF r, R
    <3>3. /\ r \in Answers /\ r.left = 4 /\ r.size = 4
          /\ R = Rest(r) /\ Rest(r) \in Seq(DataBytes)
      <4>1. x \in Nat
        BY <1>3
      <4> QED BY ONLY <3>1, <3>2, <4>1, <1>5, AnswerDue
    <3> QED BY ONLY <3>2, <3>3, Zenon
  <2> QED BY <2>1, <2>2
<1>8. d \in Answers /\ d.left <= d.size /\ D \in Seq(DataBytes)
      /\ (dump.left = 0 => D = Rest(d))
  <2>1. CASE c.kind # "dump"
    BY <2>1, <1>2, RestNone, EmptySeq
  <2>2. CASE c.kind = "dump"
    <3>1. d = Answer("dump", x, c.n) /\ D = AnswerBytes(d)
      BY <2>2
    <3>2. c.n \in Nat /\ c.n <= c.n
      BY <1>4
    <3>. HIDE DEF d, D
    <3>3. /\ d \in Answers /\ d.left = c.n /\ d.size = c.n
          /\ D = Rest(d) /\ Rest(d) \in Seq(DataBytes)
      <4>1. x \in Nat
        BY <1>3
      <4> QED BY ONLY <3>1, <3>2, <4>1, <1>5, AnswerDue
    <3> QED BY ONLY <3>2, <3>3, Zenon
  <2> QED BY <2>1, <2>2
<1> HIDE DEF a, r, d, A, R, D
<1>9. /\ out' \in Seq(DataBytes)
      /\ ack' \in Answers /\ reply' \in Answers /\ dump' \in Answers
      /\ ack'.left <= ack'.size /\ reply'.left <= reply'.size
      /\ dump'.left <= dump'.size
      /\ out' = <<>> => ack'.left = 0 /\ reply'.left = 0 /\ dump'.left = 0
      /\ out' \o (Rest(ack') \o (Rest(reply') \o Rest(dump')))
           = out \o (Rest(a) \o (Rest(r) \o Rest(d)))
  <2>1. /\ out \in Seq(DataBytes) /\ Pump(out, a, r, d)
        /\ a \in Answers /\ r \in Answers /\ d \in Answers
        /\ a.left <= a.size /\ r.left <= r.size /\ d.left <= d.size
    BY ONLY <1>1, <1>2, <1>6, <1>7, <1>8, Zenon
  <2> QED BY ONLY <2>1, PumpMoves, SMTT(60)
<1>11. /\ due \o A \in Seq(DataBytes) /\ (due \o A) \o R \in Seq(DataBytes)
       /\ due' \in Seq(DataBytes)
  BY <1>1, <1>2, <1>6, <1>7, <1>8, ConcatProperties
<1>10. PumpInv'
  BY <1>2, <1>9, <1>11 DEF PumpInv, PumpNeverStalls, Quiet
<1>12. ASSUME Quiet, due = received \o (out \o Rests)
       PROVE  due' = received \o (out' \o Rests')
  <2>1. out = <<>> /\ ack.left = 0 /\ reply.left = 0 /\ dump.left = 0
    BY <1>12 DEF Quiet
  <2>2. Rests = <<>>
    <3>1. Rest(ack) = <<>> /\ Rest(reply) = <<>> /\ Rest(dump) = <<>>
      BY <1>2, <2>1, RestNone
    <3>2. <<>> \o (<<>> \o <<>>) = <<>>
      BY EmptySeq, ConcatEmptySeq
    <3> QED BY <3>1, <3>2 DEF Rests
  <2>3. due = received
    BY <1>2, <1>12, <2>1, <2>2, EmptySeq, ConcatEmptySeq
  <2>4. due' = received \o (A \o (R \o D))
    <3>1. due' = ((received \o A) \o R) \o D
      BY <1>1, <2>3
    <3>2. /\ received \in Seq(DataBytes) /\ A \in Seq(DataBytes)
          /\ R \in Seq(DataBytes) /\ D \in Seq(DataBytes)
      BY <1>2, <1>6, <1>7, <1>8
    <3> DEFINE w == A \o R
    <3>3. (received \o A) \o R = received \o w
      BY ONLY <3>2, ConcatAssociative, SMT
    <3>4. w \in Seq(DataBytes)
      BY ONLY <3>2, ConcatProperties, SMT
    <3>5. w \o D = A \o (R \o D)
      BY ONLY <3>2, ConcatAssociative, SMT
    <3> HIDE DEF w
    <3>6. (received \o w) \o D = received \o (w \o D)
      <4>1. received \in Seq(DataBytes) /\ D \in Seq(DataBytes)
        BY <3>2
      <4> QED BY ONLY <4>1, <3>4, ConcatAssociative, SMTT(60)
    <3> QED BY ONLY <3>1, <3>3, <3>5, <3>6
  <2>5. A \o (R \o D) \in Seq(DataBytes)
    BY <1>6, <1>7, <1>8, ConcatProperties
  <2>6. out \o (A \o (R \o D)) = A \o (R \o D)
    BY <2>1, <2>5, ConcatEmptySeq
  <2>7. A = Rest(a) /\ R = Rest(r) /\ D = Rest(d)
    BY <1>6, <1>7, <1>8, <2>1
  <2> QED BY <1>9, <2>4, <2>6, <2>7 DEF Rests
<1>13. loading_mem' = (IF Loading(c) THEN c.n ELSE 0) /\ loading_mem' \in 0..MaxLoad
  BY ONLY <1>1, <1>4, loading_mem = 0
<1> QED BY ONLY <1>1, <1>10, <1>12, <1>13, <1>20, Zenon

-----------------------------------------------------------------------------
(* The interrupts, the main loop and the host keep the types.              *)

\* A byte that leaves leaves the others as they were.
LEMMA HostLeaves ==
  ASSUME SpiInv, tosend # <<>>, tosend' = Tail(tosend), damaged' \in Nat,
         UNCHANGED <<attempts, impatient, busy_checked, forwards>>
  PROVE  HostInv'
<1>1. /\ attempts \in Seq(Attempts) /\ impatient \in BOOLEAN
      /\ busy_checked \in BOOLEAN /\ forwards \in Nat
  BY DEF SpiInv, HostInv
<1>2. /\ Newest \in Nat \ {0} /\ Newest' = Newest /\ Done \in Nat /\ Done' = Done + 1
      /\ tosend' \in Seq(Bytes)
      /\ \A i \in DOMAIN tosend' :
           tosend'[i] = [id |-> Newest, pos |-> Done + 1 + (i - 1)]
  BY ByteSent
<1>3. Newest' > 0 /\ Done' \in Nat
  BY <1>2
<1>4. \A i \in DOMAIN tosend' : tosend'[i] = [id |-> Newest', pos |-> Done' + (i - 1)]
  BY ONLY <1>2, Zenon
<1> QED BY ONLY <1>1, <1>2, <1>3, <1>4, UNCHANGED <<attempts, impatient, busy_checked,
           forwards>>, damaged' \in Nat, Zenon DEF HostInv

\* A byte that leaves the answers alone disturbs nothing but the parser.
LEMMA ByteSame ==
  ASSUME SpiInv, tosend # <<>>, tosend' = Tail(tosend),
         UNCHANGED <<attempts, received>>, Same
  PROVE  ExecutedInv' /\ PumpInv'
<1>1. Newest' = Newest /\ Done \in Nat /\ Done' = Done + 1 /\ PACKET_SIZE \in Nat
  BY ByteSent, SpiAssumption
<1>2. executed' = executed /\ UNCHANGED <<ack, reply, dump, out, due>>
  BY DEF Same, pump
<1>3. ExecutedInv /\ PumpInv
  BY DEF SpiInv
<1>4. ExecutedInv'
  <2>1. \A i \in DOMAIN executed : executed[i].id # 0 =>
          executed[i].id <= Newest /\ (executed[i].id = Newest => Done + 1 > PACKET_SIZE)
    BY <1>1, <1>3 DEF ExecutedInv
  <2>2. Increasing'
    BY <1>2, <1>3 DEF ExecutedInv, Increasing
  <2> QED BY <1>1, <1>2, <1>3, <2>1, <2>2 DEF ExecutedInv
<1>5. PumpInv'
  BY <1>2, <1>3 DEF PumpInv, PumpNeverStalls, Quiet
<1> QED BY <1>4, <1>5

LEMMA CtrlIrqStep == SpiInv /\ CtrlIrq => SpiInv'
<1> SUFFICES ASSUME SpiInv, CtrlIrq PROVE SpiInv'
  OBVIOUS
<1>1. /\ tosend # <<>> /\ tosend' = Tail(tosend)
      /\ UNCHANGED <<busy_checked, attempts, impatient, lost, forwards, received>>
  BY DEF CtrlIrq
<1>2. /\ bytes_req \in 0..PACKET_SIZE /\ pkt \in Seq(Bytes) /\ loading_mem \in 0..MaxLoad
      /\ bytes_req > 0 => loading_mem = 0 /\ Len(pkt) = PACKET_SIZE - bytes_req
      /\ IsFiniteSet(lost) /\ damaged \in Nat
      /\ \A b \in lost :
           b \in Bytes /\ b.id <= Newest /\ (b.id = Newest => b.pos < Done)
      /\ PACKET_SIZE \in Nat \ {0} /\ MaxLoad \in Nat
  BY SpiAssumption DEF SpiInv, ParserInv, HostInv
<1>3. /\ Newest \in Nat \ {0} /\ Newest' = Newest /\ Done \in Nat /\ Done' = Done + 1
      /\ Head(tosend) \in Bytes /\ attempts[Newest].cmd \in Commands
  BY <1>1, ByteSent
<1>4. Loads \/ Opens \/ Joins \/ Drops \/ Collides \/ Executes
  BY CtrlCases
<1>5. damaged' \in Nat
  BY <1>2, <1>4 DEF Loads, Opens, Joins, Drops, Collides, Executes
<1>6. HostInv'
  BY <1>1, <1>5, HostLeaves
<1>7. \A b \in lost' :
        b \in Bytes /\ b.id <= Newest' /\ (b.id = Newest' => b.pos < Done')
  BY <1>1, <1>2, <1>3 DEF Bytes
<1>8. ExecutedInv /\ PumpInv
  BY DEF SpiInv
<1>9. CASE Loads
  <2>1. /\ bytes_req' = bytes_req /\ pkt' = pkt /\ bytes_req = 0
        /\ loading_mem' \in 0..MaxLoad
    BY <1>2, <1>9 DEF Loads
  <2>2. ParserInv'
    BY <1>1, <1>2, <1>7, <2>1 DEF ParserInv
  <2> QED BY <1>1, <1>6, <1>9, <2>2, ByteSame DEF SpiInv, Loads
<1>10. CASE Opens
  <2>1. /\ bytes_req' \in {0, PACKET_SIZE} /\ pkt' = <<>>
        /\ loading_mem' = 0
    BY <1>10 DEF Opens
  <2>2. pkt' \in Seq(Bytes) /\ Len(pkt') = 0
    BY <2>1
  <2>3. ParserInv'
    <3>1. bytes_req' \in 0..PACKET_SIZE /\ loading_mem' \in 0..MaxLoad
      BY <1>2, <2>1
    <3>2. CASE bytes_req' = 0
      <4>1. ~(bytes_req' > 0)
        BY <3>2
      <4> QED BY <1>1, <1>2, <1>7, <2>2, <3>1, <4>1 DEF ParserInv
    <3>3. CASE bytes_req' = PACKET_SIZE
      <4>1. Len(pkt') = PACKET_SIZE - bytes_req'
        BY <1>2, <2>2, <3>3
      <4> QED BY <1>1, <1>2, <1>7, <2>1, <2>2, <3>1, <4>1 DEF ParserInv
    <3> QED BY <2>1, <3>2, <3>3
  <2> QED BY <1>1, <1>6, <1>10, <2>3, ByteSame DEF SpiInv, Opens
<1>11. CASE Joins
  <2>1. /\ bytes_req > 1 /\ bytes_req' = bytes_req - 1 /\ loading_mem' = 0
        /\ pkt' = Append(pkt, Head(tosend))
    BY <1>11 DEF Joins
  <2>2. pkt' \in Seq(Bytes) /\ Len(pkt') = Len(pkt) + 1
    BY <1>2, <1>3, <2>1, AppendProperties
  <2>3. ParserInv'
    <3>1. /\ bytes_req' \in 0..PACKET_SIZE /\ loading_mem' \in 0..MaxLoad
          /\ Len(pkt') = PACKET_SIZE - bytes_req'
      BY <1>2, <2>1, <2>2
    <3> QED BY <1>1, <1>2, <1>7, <2>1, <2>2, <3>1 DEF ParserInv
  <2> QED BY <1>1, <1>6, <1>11, <2>3, ByteSame DEF SpiInv, Joins
<1>12. CASE Drops
  <2>1. bytes_req' = 0 /\ pkt' = <<>> /\ loading_mem' = loading_mem
    BY <1>12 DEF Drops, Closes
  <2>2. pkt' \in Seq(Bytes) /\ bytes_req' \in 0..PACKET_SIZE /\ ~(bytes_req' > 0)
    BY <1>2, <2>1
  <2>3. ParserInv'
    BY <1>1, <1>2, <1>7, <2>1, <2>2 DEF ParserInv
  <2> QED BY <1>1, <1>6, <1>12, <2>3, ByteSame DEF SpiInv, Drops
<1>13. ASSUME NEW id \in Nat, NEW c \in Commands, Execute(id, c), Closes,
              id = 0 \/ (id = Newest /\ Done = PACKET_SIZE)
       PROVE  SpiInv'
  <2>1. bytes_req' = 0 /\ pkt' = <<>> /\ loading_mem = 0
    BY <1>13 DEF Closes
  <2>2. /\ loading_mem' \in 0..MaxLoad /\ PumpInv'
        /\ executed' \in Seq(Executions) /\ Len(executed') = Len(executed) + 1
        /\ executed'[Len(executed) + 1] = [id |-> id, cmd |-> c]
        /\ \A i \in DOMAIN executed : i \in DOMAIN executed' /\ executed'[i] = executed[i]
    BY <1>1, <1>13, <2>1, ExecuteEffect
  <2>3. pkt' \in Seq(Bytes) /\ bytes_req' \in 0..PACKET_SIZE /\ ~(bytes_req' > 0)
    BY <1>2, <2>1
  <2>4. ParserInv'
    BY <1>1, <1>2, <1>7, <2>2, <2>3 DEF ParserInv
  <2>5. /\ Len(executed) \in Nat /\ DOMAIN executed = 1..Len(executed)
        /\ DOMAIN executed' = 1..(Len(executed) + 1)
    BY <1>8, <2>2, LenProperties DEF ExecutedInv
  <2>6. \A i \in 1..Len(executed) :
          /\ executed[i].id \in Nat /\ executed'[i].id = executed[i].id
          /\ executed[i].id # 0 => /\ executed[i].id <= Newest
                                   /\ executed[i].id = Newest => Done > PACKET_SIZE
    <3>1. \A i \in 1..Len(executed) : executed[i] \in Executions
      BY <1>8, <2>5, ElementOfSeq DEF ExecutedInv
    <3> QED BY <1>8, <2>2, <2>5, <3>1 DEF ExecutedInv, Executions
  <2>7. executed'[Len(executed) + 1].id = id
    BY <2>2
  <2>8. ASSUME NEW i \in DOMAIN executed', executed'[i].id # 0
        PROVE  executed'[i].id <= Newest' /\ (executed'[i].id = Newest' => Done' > PACKET_SIZE)
    <3>1. CASE i \in 1..Len(executed)
      BY <3>1, <1>2, <1>3, <2>6, <2>8
    <3>2. CASE i = Len(executed) + 1
      BY <3>2, <1>2, <1>3, <1>13, <2>7, <2>8
    <3> QED BY <3>1, <3>2, <2>5
  <2>9. Increasing'
    <3> SUFFICES ASSUME NEW i \in DOMAIN executed', NEW k \in DOMAIN executed',
                        i < k, executed'[i].id # 0, executed'[k].id # 0
                 PROVE  executed'[i].id < executed'[k].id
      BY DEF Increasing
    <3>1. i \in 1..Len(executed)
      BY <2>5
    <3>2. CASE k \in 1..Len(executed)
      BY <3>1, <3>2, <2>5, <2>6, <1>8 DEF ExecutedInv, Increasing
    <3>3. CASE k = Len(executed) + 1
      <4>1. id = Newest /\ Done = PACKET_SIZE
        BY <3>3, <1>13, <2>7
      <4>2. executed[i].id \in Nat /\ executed[i].id <= Newest /\ executed[i].id # Newest
        BY <3>1, <4>1, <2>6, <1>2
      <4> QED BY <3>1, <3>3, <4>1, <4>2, <2>6, <2>7, <1>3
    <3> QED BY <3>2, <3>3, <2>5
  <2>10. ExecutedInv'
    BY ONLY <2>2, <2>8, <2>9, Zenon DEF ExecutedInv
  <2> QED BY <1>6, <2>2, <2>4, <2>10 DEF SpiInv
<1>14. CASE Collides
  <2>1. PICK c \in Commands : Execute(0, c)
    BY <1>14 DEF Collides
  <2>2. Closes /\ 0 \in Nat
    BY <1>14 DEF Collides
  <2> QED BY <1>13, <2>1, <2>2
<1>15. CASE Executes
  BY <1>3, <1>13, <1>15 DEF Executes
<1> QED BY <1>4, <1>9, <1>10, <1>11, <1>12, <1>14, <1>15

\* The host takes a byte: what was taken, is on its way and is left of the
\* answers stays the same.
LEMMA DataIrqEffect ==
  ASSUME SpiInv, DataIrq
  PROVE  /\ PumpInv' /\ out # <<>> /\ Tail(out) \in Seq(DataBytes)
         /\ received' \o Tail(out) = received \o out
         /\ received' \o (out' \o Rests') = received \o (out \o Rests)
<1>1. PumpInv
  BY DEF SpiInv
<1>2. /\ out # <<>> /\ received' = Append(received, Head(out))
      /\ Pump(Tail(out), ack, reply, dump) /\ UNCHANGED due
  BY DEF DataIrq
<1>4. /\ out \in Seq(DataBytes) /\ received \in Seq(DataBytes)
      /\ ack \in Answers /\ reply \in Answers /\ dump \in Answers
      /\ ack.left <= ack.size /\ reply.left <= reply.size /\ dump.left <= dump.size
  BY <1>1 DEF PumpInv
<1>5. PICK b, t : b = Head(out) /\ t = Tail(out)
  OBVIOUS
<1>6. b \in DataBytes /\ t \in Seq(DataBytes)
  BY <1>2, <1>4, <1>5, HeadTailProperties
<1>7. out = <<b>> \o t
  <2>1. /\ Len(out) \in Nat \ {0} /\ Len(t) = Len(out) - 1
        /\ \A i \in 1..Len(t) : t[i] = out[i + 1]
    BY <1>2, <1>4, <1>5, EmptySeq, HeadTailProperties
  <2>2. b = out[1]
    BY <1>4, <1>5
  <2>3. /\ <<b>> \in Seq(DataBytes) /\ Len(<<b>>) = 1 /\ <<b>>[1] = b
    BY <1>6
  <2>4. /\ <<b>> \o t \in Seq(DataBytes) /\ Len(<<b>> \o t) = 1 + Len(t)
        /\ \A i \in 1..(1 + Len(t)) :
             (<<b>> \o t)[i] = IF i <= 1 THEN b ELSE t[i - 1]
    BY <1>6, <2>1, <2>3, ConcatProperties
  <2>5. \A i \in 1..Len(out) : out[i] = (<<b>> \o t)[i]
    BY <2>1, <2>2, <2>4
  <2>6. Len(<<b>> \o t) = Len(out)
    BY <2>1, <2>4
  <2> QED BY ONLY <1>4, <2>4, <2>5, <2>6, SeqEqual, Zenon
<1>8. Pump(t, ack, reply, dump)
  BY <1>2, <1>5
<1>9. /\ out' \in Seq(DataBytes)
      /\ ack' \in Answers /\ reply' \in Answers /\ dump' \in Answers
      /\ ack'.left <= ack'.size /\ reply'.left <= reply'.size
      /\ dump'.left <= dump'.size
      /\ out' = <<>> => ack'.left = 0 /\ reply'.left = 0 /\ dump'.left = 0
      /\ out' \o (Rest(ack') \o (Rest(reply') \o Rest(dump')))
           = t \o (Rest(ack) \o (Rest(reply) \o Rest(dump)))
  <2>1. /\ t \in Seq(DataBytes) /\ Pump(t, ack, reply, dump)
        /\ ack \in Answers /\ reply \in Answers /\ dump \in Answers
        /\ ack.left <= ack.size /\ reply.left <= reply.size
        /\ dump.left <= dump.size
    BY <1>4, <1>6, <1>8
  <2> QED BY ONLY <2>1, PumpMoves, SMTT(60)
<1>10. received' = Append(received, b) /\ received' \in Seq(DataBytes)
  BY <1>2, <1>4, <1>5, <1>6, AppendProperties
<1>11. PumpInv'
  BY <1>1, <1>2, <1>9, <1>10 DEF PumpInv, PumpNeverStalls, Quiet
<1>12. /\ received \o (out \o Rests) = received' \o (out' \o Rests')
       /\ received' \o t = received \o out
  <2> DEFINE x == <<b>>
             y == Rests
             z == t \o y
  <2>1. x \in Seq(DataBytes)
    BY <1>6
  <2>2. y \in Seq(DataBytes)
    <3>1. Rest(ack) \in Seq(DataBytes) /\ Rest(reply) \in Seq(DataBytes)
          /\ Rest(dump) \in Seq(DataBytes)
      BY <1>4, RestTyped
    <3> QED BY <3>1, ConcatProperties DEF Rests
  <2>3. received' = received \o x
    BY <1>4, <1>6, <1>10, AppendIsConcat
  <2> HIDE DEF x, y
  <2>4. out \o y = x \o z
    BY <1>6, <1>7, <2>1, <2>2, ConcatAssociative DEF x
  <2>5. z \in Seq(DataBytes)
    BY <1>6, <2>2, ConcatProperties
  <2> HIDE DEF z
  <2>6. (received \o x) \o z = received \o (x \o z)
    BY ONLY <1>4, <2>1, <2>5, ConcatAssociative, SMT
  <2>7. out' \o Rests' = z
    BY <1>9 DEF y, z, Rests
  <2>8. (received \o x) \o t = received \o (x \o t)
    <3>1. received \in Seq(DataBytes) /\ t \in Seq(DataBytes)
      BY <1>4, <1>6
    <3> QED BY ONLY <2>1, <3>1, ConcatAssociative, SMTT(60)
  <2>9. x \o t = out
    BY <1>7 DEF x
  <2> QED BY <2>3, <2>4, <2>6, <2>7, <2>8, <2>9 DEF y
<1> QED BY <1>2, <1>5, <1>6, <1>11, <1>12

LEMMA DataIrqStep == SpiInv /\ DataIrq => SpiInv'
<1> SUFFICES ASSUME SpiInv, DataIrq PROVE SpiInv'
  OBVIOUS
<1>1. UNCHANGED <<parser, busy_checked, host, forwards, executed, damaged>>
  BY DEF DataIrq
<1>2. UNCHANGED <<bytes_req, pkt, loading_mem, tosend, attempts, impatient, lost,
                  busy_checked, forwards, executed, damaged>>
      /\ Newest' = Newest /\ Done' = Done
  BY <1>1 DEF parser, host, Newest, Done, Size, Loading
<1>3. HostInv' /\ ParserInv'
  BY <1>2 DEF SpiInv, HostInv, ParserInv
<1>4. ExecutedInv'
  BY <1>2 DEF SpiInv, ExecutedInv, Increasing
<1> QED BY <1>3, <1>4, DataIrqEffect DEF SpiInv

LEMMA CheckBusyStep == SpiInv /\ CheckBusy => SpiInv'
<1> SUFFICES ASSUME SpiInv, CheckBusy PROVE SpiInv'
  OBVIOUS
<1>1. UNCHANGED <<bytes_req, pkt, loading_mem, tosend, attempts, impatient, lost,
                  forwards, executed, damaged, received, due>> /\ UNCHANGED pump
      /\ Newest' = Newest /\ Done' = Done /\ busy_checked' \in BOOLEAN
  BY DEF CheckBusy, parser, host, Newest, Done, Size, Loading
<1>2. HostInv' /\ ParserInv'
  BY <1>1 DEF SpiInv, HostInv, ParserInv
<1>3. ExecutedInv'
  BY <1>1 DEF SpiInv, ExecutedInv, Increasing
<1>4. PumpInv'
  BY <1>1 DEF SpiInv, PumpInv, PumpNeverStalls, Quiet, pump
<1> QED BY <1>2, <1>3, <1>4 DEF SpiInv

LEMMA HbcToSpiStep == SpiInv /\ HbcToSpi => SpiInv'
<1> SUFFICES ASSUME SpiInv, HbcToSpi PROVE SpiInv'
  OBVIOUS
<1> DEFINE a == Answer("announce", forwards + 1, REPLY_SIZE)
           d == Answer("packet", forwards + 1, 2)
<1>1. /\ busy_checked' = FALSE /\ forwards' = forwards + 1
      /\ due' = due \o AnswerBytes(a) \o AnswerBytes(d)
      /\ Pump(out, a, reply, d)
      /\ UNCHANGED <<bytes_req, pkt, loading_mem, tosend, attempts, impatient, lost,
                     executed, damaged, received>>
  BY DEF HbcToSpi, parser, host
<1>2. Newest' = Newest /\ Done' = Done
  BY <1>1 DEF Newest, Done, Size, Loading
<1>3. forwards \in Nat /\ forwards + 1 \in Nat
  BY DEF SpiInv, HostInv
<1>4. HostInv'
  <2>1. busy_checked' \in BOOLEAN
    BY <1>1
  <2> QED BY <1>1, <1>2, <1>3, <2>1 DEF SpiInv, HostInv
<1>5. ParserInv'
  BY <1>1, <1>2 DEF SpiInv, ParserInv
<1>6. ExecutedInv'
  BY <1>1, <1>2 DEF SpiInv, ExecutedInv, Increasing
<1>7. /\ a \in Answers /\ a.left = REPLY_SIZE /\ a.size = REPLY_SIZE
      /\ AnswerBytes(a) \in Seq(DataBytes)
  <2>1. "announce" \in Sources /\ REPLY_SIZE \in Nat
    BY SpiAssumption DEF Sources
  <2>2. \A m \in Nat :
          LET b == Answer("announce", m, REPLY_SIZE)
          IN  /\ b \in Answers /\ b.left = REPLY_SIZE /\ b.size = REPLY_SIZE
              /\ AnswerBytes(b) \in Seq(DataBytes)
    BY <2>1, AnswerDue
  <2> QED BY <1>3, <2>2
<1>8. /\ d \in Answers /\ d.left = 2 /\ d.size = 2
      /\ AnswerBytes(d) \in Seq(DataBytes)
  <2>1. "packet" \in Sources
    BY DEF Sources
  <2>2. \A m \in Nat :
          LET b == Answer("packet", m, 2)
          IN  /\ b \in Answers /\ b.left = 2 /\ b.size = 2
              /\ AnswerBytes(b) \in Seq(DataBytes)
    BY <2>1, AnswerDue
  <2> QED BY <1>3, <2>2
<1> HIDE DEF a, d
<1>9. /\ out \in Seq(DataBytes) /\ received \in Seq(DataBytes)
      /\ due \in Seq(DataBytes) /\ reply \in Answers /\ reply.left <= reply.size
  BY DEF SpiInv, PumpInv
<1>10. a.left <= a.size /\ d.left <= d.size
  BY <1>7, <1>8, SpiAssumption
<1>11. /\ out' \in Seq(DataBytes)
       /\ ack' \in Answers /\ reply' \in Answers /\ dump' \in Answers
       /\ ack'.left <= ack'.size /\ reply'.left <= reply'.size
       /\ dump'.left <= dump'.size
       /\ out' = <<>> => ack'.left = 0 /\ reply'.left = 0 /\ dump'.left = 0
  <2>1. /\ out \in Seq(DataBytes) /\ Pump(out, a, reply, d)
        /\ a \in Answers /\ reply \in Answers /\ d \in Answers
        /\ a.left <= a.size /\ reply.left <= reply.size /\ d.left <= d.size
    BY <1>1, <1>7, <1>8, <1>9, <1>10
  <2> QED BY ONLY <2>1, PumpMoves, SMTT(60)
<1>12. due' \in Seq(DataBytes)
  BY <1>1, <1>7, <1>8, <1>9, ConcatProperties
<1>13. PumpInv'
  BY <1>1, <1>9, <1>11, <1>12 DEF PumpInv, PumpNeverStalls, Quiet
<1> QED BY <1>4, <1>5, <1>6, <1>13 DEF SpiInv

\* What a new attempt starts from.
LEMMA NewAttempt ==
  ASSUME SpiInv, NEW c \in Commands, HostSend(c)
  PROVE  /\ Newest \in Nat /\ Newest' = Newest + 1 /\ Done' = 0
         /\ attempts' = Append(attempts, [cmd |-> c, at |-> BytesSoFar])
         /\ attempts' \in Seq(Attempts)
         /\ attempts'[Newest + 1] = [cmd |-> c, at |-> BytesSoFar]
         /\ \A i \in 1..Newest : attempts'[i] = attempts[i]
         /\ DOMAIN attempts = 1..Newest /\ DOMAIN attempts' = 1..(Newest + 1)
         /\ tosend' \in Seq(Bytes) /\ tosend' # <<>>
         /\ \A i \in DOMAIN tosend' : tosend'[i] = [id |-> Newest + 1, pos |-> 0 + (i - 1)]
         /\ tosend = <<>>
         /\ Newest > 0 => /\ attempts[Newest] \in Attempts /\ Done \in Nat
                          /\ Done > PACKET_SIZE
                          /\ BytesSoFar = attempts[Newest].at + Done
         /\ Newest = 0 => BytesSoFar = 0
<1>1. /\ attempts \in Seq(Attempts) /\ tosend = <<>>
      /\ attempts' = Append(attempts, [cmd |-> c, at |-> BytesSoFar])
      /\ tosend' = AttemptBytes(Newest + 1, c)
  BY DEF SpiInv, HostInv, HostSend, Newest
<1>2. Newest \in Nat /\ DOMAIN attempts = 1..Newest
  BY <1>1, LenProperties DEF Newest
<1>3. Size(c) \in Nat /\ Size(c) > PACKET_SIZE /\ PACKET_SIZE \in Nat
  BY SizeOf, SpiAssumption
<1>4. Newest > 0 => /\ attempts[Newest] \in Attempts /\ Done \in Nat
                    /\ Done > PACKET_SIZE
                    /\ BytesSoFar = attempts[Newest].at + Done
  <2> SUFFICES ASSUME Newest > 0
               PROVE  /\ attempts[Newest] \in Attempts /\ Done \in Nat
                      /\ Done > PACKET_SIZE
                      /\ BytesSoFar = attempts[Newest].at + Done
    OBVIOUS
  <2>1. Newest \in 1..Newest
    BY <1>2
  <2>2. attempts[Newest] \in Attempts
    BY <1>1, <1>2, <2>1, ElementOfSeq DEF Newest
  <2>3. attempts[Newest].cmd \in Commands
    BY <2>2 DEF Attempts
  <2>4. /\ Size(attempts[Newest].cmd) \in Nat
        /\ Size(attempts[Newest].cmd) > PACKET_SIZE
    BY <2>3, SizeOf
  <2>5. Len(tosend) = 0
    BY <1>1
  <2>6. Done = Size(attempts[Newest].cmd)
    BY <2>4, <2>5 DEF Done
  <2>7. attempts # <<>>
    BY <2>1 DEF Newest
  <2>8. BytesSoFar = attempts[Newest].at + Done
    BY <2>6, <2>7 DEF BytesSoFar, Last, Newest
  <2> QED BY <2>2, <2>4, <2>6, <2>8
<1>5. Newest = 0 => BytesSoFar = 0
  BY <1>1, EmptySeq DEF BytesSoFar, Newest
<1>6. [cmd |-> c, at |-> BytesSoFar] \in Attempts
  <2>1. BytesSoFar \in Nat
    BY <1>2, <1>4, <1>5 DEF Attempts
  <2> QED BY <2>1 DEF Attempts
<1>7. /\ attempts' \in Seq(Attempts) /\ Newest' = Newest + 1
      /\ attempts'[Newest + 1] = [cmd |-> c, at |-> BytesSoFar]
      /\ \A i \in 1..Newest : attempts'[i] = attempts[i]
      /\ DOMAIN attempts' = 1..(Newest + 1)
  BY <1>1, <1>6, AppendProperties, LenProperties DEF Newest
<1>8. tosend' = [k \in 1..Size(c) |-> [id |-> Newest + 1, pos |-> k - 1]]
  BY <1>1 DEF AttemptBytes
<1>9. /\ tosend' \in Seq(Bytes) /\ DOMAIN tosend' = 1..Size(c)
      /\ Len(tosend') = Size(c) /\ tosend' # <<>>
      /\ \A i \in 1..Size(c) : tosend'[i] = [id |-> Newest + 1, pos |-> 0 + (i - 1)]
  <2>1. \A k \in 1..Size(c) : /\ [id |-> Newest + 1, pos |-> k - 1] \in Bytes
                              /\ 0 + (k - 1) = k - 1
    BY <1>2, <1>3 DEF Bytes
  <2>2. 1 \in 1..Size(c)
    BY <1>3
  <2> QED BY <1>3, <1>8, <2>1, <2>2
<1>10. Done' = 0
  <2>1. Done' = Size(attempts'[Newest + 1].cmd) - Len(tosend')
    BY <1>7 DEF Done, Size, Loading
  <2>2. attempts'[Newest + 1].cmd = c
    BY <1>7
  <2> QED BY <1>3, <1>9, <2>1, <2>2
<1> QED BY <1>1, <1>2, <1>4, <1>5, <1>7, <1>9, <1>10

LEMMA HostSendStep ==
  ASSUME SpiInv, NEW c \in Commands, HostSend(c)
  PROVE  SpiInv'
<1>1. UNCHANGED <<bytes_req, pkt, loading_mem, busy_checked, lost, forwards, executed,
                  damaged, received, due>> /\ UNCHANGED pump
      /\ impatient' = (impatient \/ ~Quiet)
  BY DEF HostSend, parser
<1>2. /\ Newest \in Nat /\ Newest' = Newest + 1 /\ Done' = 0
      /\ attempts' \in Seq(Attempts) /\ tosend' \in Seq(Bytes)
      /\ \A i \in DOMAIN tosend' : tosend'[i] = [id |-> Newest + 1, pos |-> 0 + (i - 1)]
  BY NewAttempt
<1>3. HostInv'
  <2>1. Newest' > 0 /\ Done' \in Nat
    BY <1>2
  <2>2. impatient' \in BOOLEAN
    BY <1>1 DEF SpiInv, HostInv
  <2>3. \A i \in DOMAIN tosend' : tosend'[i] = [id |-> Newest', pos |-> Done' + (i - 1)]
    BY ONLY <1>2, Zenon
  <2>4. /\ busy_checked' \in BOOLEAN /\ forwards' \in Nat /\ damaged' \in Nat
    BY <1>1 DEF SpiInv, HostInv
  <2> QED BY ONLY <1>2, <2>1, <2>2, <2>3, <2>4, Zenon DEF HostInv
<1>4. ParserInv'
  <2>1. \A b \in lost : b \in Bytes /\ b.id <= Newest
    BY DEF SpiInv, ParserInv
  <2>2. \A b \in lost : b.id # Newest + 1
    BY <1>2, <2>1 DEF Bytes
  <2>3. \A b \in lost : b.id <= Newest + 1
    BY <1>2, <2>1 DEF Bytes
  <2> QED BY <1>1, <1>2, <2>1, <2>2, <2>3 DEF SpiInv, ParserInv
<1>5. ExecutedInv'
  <2>1. \A i \in DOMAIN executed : executed[i].id # 0 =>
          executed[i].id <= Newest + 1 /\ executed[i].id # Newest + 1
    <3>1. \A i \in DOMAIN executed : executed[i].id \in Nat
      <4>1. executed \in Seq(Executions)
        BY DEF SpiInv, ExecutedInv
      <4>2. \A i \in DOMAIN executed : executed[i] \in Executions
        BY <4>1, LenProperties, ElementOfSeq
      <4> QED BY <4>2 DEF Executions
    <3> QED BY <1>2, <3>1 DEF SpiInv, ExecutedInv
  <2> QED BY <1>1, <1>2, <2>1 DEF SpiInv, ExecutedInv, Increasing
<1>6. PumpInv'
  BY <1>1 DEF SpiInv, PumpInv, PumpNeverStalls, Quiet, pump
<1> QED BY <1>3, <1>4, <1>5, <1>6 DEF SpiInv

LEMMA LoseByteStep == SpiInv /\ LoseByte => SpiInv'
<1> SUFFICES ASSUME SpiInv, LoseByte PROVE SpiInv'
  OBVIOUS
<1>1. /\ tosend # <<>> /\ tosend' = Tail(tosend)
      /\ lost' = lost \cup {Head(tosend)}
      /\ UNCHANGED <<bytes_req, pkt, loading_mem, busy_checked, attempts, impatient,
                     forwards, executed, damaged, received, due>>
      /\ UNCHANGED pump
  BY DEF LoseByte, parser
<1>2. /\ Newest \in Nat \ {0} /\ Newest' = Newest /\ Done \in Nat /\ Done' = Done + 1
      /\ Head(tosend) = [id |-> Newest, pos |-> Done] /\ Head(tosend) \in Bytes
  BY <1>1, ByteSent
<1>3. HostInv'
  BY <1>1, HostLeaves DEF SpiInv, HostInv
<1>4. ParserInv'
  <2>1. ParserInv
    BY DEF SpiInv
  <2>2. IsFiniteSet(lost')
    BY <1>1, <2>1, FS_AddElement DEF ParserInv
  <2>3. \A b \in lost' : b \in Bytes /\ b.id <= Newest' /\ (b.id = Newest' => b.pos < Done')
    <3>1. \A b \in lost : b \in Bytes /\ b.id <= Newest /\ (b.id = Newest => b.pos < Done)
      BY <2>1 DEF ParserInv
    <3>2. ASSUME NEW b \in lost
          PROVE  b \in Bytes /\ b.id <= Newest' /\ (b.id = Newest' => b.pos < Done')
      BY <1>2, <3>1 DEF Bytes
    <3>3. Head(tosend) \in Bytes /\ Head(tosend).id = Newest /\ Head(tosend).pos = Done
      BY <1>2
    <3> QED BY <1>1, <1>2, <3>2, <3>3
  <2> QED BY <1>1, <2>1, <2>2, <2>3 DEF ParserInv
<1>5. ExecutedInv' /\ PumpInv'
  BY <1>1, ByteSame DEF Same
<1> QED BY <1>3, <1>4, <1>5 DEF SpiInv

LEMMA SpiStutter == SpiInv /\ UNCHANGED vars => SpiInv'
<1> SUFFICES ASSUME SpiInv, UNCHANGED vars PROVE SpiInv'
  OBVIOUS
<1> USE DEF SpiInv, vars, parser, pump, host, Newest, Done, Size, Loading
<1>1. HostInv' /\ ParserInv'
  BY DEF HostInv, ParserInv
<1>2. ExecutedInv' /\ PumpInv'
  BY DEF ExecutedInv, Increasing, PumpInv, PumpNeverStalls, Quiet
<1> QED BY <1>1, <1>2

LEMMA SpiInvariant == Spec => []SpiInv
<1>1. SpiInv /\ [Next]_vars => SpiInv'
  BY CtrlIrqStep, DataIrqStep, CheckBusyStep, HbcToSpiStep, LoseByteStep,
     HostSendStep, SpiStutter DEF Next
<1> QED BY InitSpiInv, <1>1, PTL DEF Spec

-----------------------------------------------------------------------------
(* The parser in step with the host.                                       *)

\* The parser has what was sent of the newest attempt, and has executed it
\* when that is the whole packet.
InStep ==
  /\ Done <= PACKET_SIZE =>
       /\ bytes_req = PACKET_SIZE + 1 - Done /\ loading_mem = 0
       /\ \A k \in DOMAIN pkt : pkt[k] = [id |-> Newest, pos |-> k]
  /\ Done > PACKET_SIZE =>
       /\ bytes_req = 0 /\ loading_mem = Len(tosend)
       /\ \E i \in DOMAIN executed : executed[i].id = Newest

\* What a byte that arrives starts from.
LEMMA Arrives ==
  ASSUME SpiInv, CtrlIrq
  PROVE  /\ tosend # <<>> /\ tosend' = Tail(tosend)
         /\ UNCHANGED <<attempts, lost, received, impatient, forwards>>
         /\ Newest \in Nat \ {0} /\ Newest' = Newest
         /\ attempts[Newest].cmd \in Commands
         /\ Done \in Nat /\ Done' = Done + 1
         /\ Head(tosend) = [id |-> Newest, pos |-> Done] /\ Head(tosend) \in Bytes
         /\ Len(tosend) \in Nat \ {0} /\ Len(tosend') = Len(tosend) - 1
         /\ Len(tosend) = Size(attempts[Newest].cmd) - Done
         /\ bytes_req \in 0..PACKET_SIZE /\ pkt \in Seq(Bytes)
         /\ loading_mem \in 0..MaxLoad /\ executed \in Seq(Executions)
         /\ bytes_req > 0 => loading_mem = 0 /\ Len(pkt) = PACKET_SIZE - bytes_req
         /\ PACKET_SIZE \in Nat \ {0} /\ MaxLoad \in Nat
<1>1. tosend # <<>> /\ tosend' = Tail(tosend)
      /\ UNCHANGED <<attempts, lost, received, impatient, forwards>>
  BY DEF CtrlIrq
<1>2. /\ Newest \in Nat \ {0} /\ Newest' = Newest
      /\ attempts[Newest].cmd \in Commands
      /\ Done \in Nat /\ Done' = Done + 1
      /\ Head(tosend) = [id |-> Newest, pos |-> Done] /\ Head(tosend) \in Bytes
      /\ Len(tosend) \in Nat \ {0} /\ Len(tosend') = Len(tosend) - 1
      /\ Len(tosend) = Size(attempts[Newest].cmd) - Done
  BY <1>1, ByteSent
<1>3. /\ bytes_req \in 0..PACKET_SIZE /\ pkt \in Seq(Bytes)
      /\ loading_mem \in 0..MaxLoad /\ executed \in Seq(Executions)
      /\ bytes_req > 0 => loading_mem = 0 /\ Len(pkt) = PACKET_SIZE - bytes_req
  BY DEF SpiInv, ParserInv, ExecutedInv
<1>4. PACKET_SIZE \in Nat \ {0} /\ MaxLoad \in Nat
  BY SpiAssumption
<1> QED BY ONLY <1>1, <1>2, <1>3, <1>4, Zenon

\* The header of an attempt that meets an idle parser.
LEMMA StepStarts ==
  ASSUME SpiInv, CtrlIrq, Done = 0, bytes_req = 0, loading_mem = 0
  PROVE  Opens /\ InStep' /\ Done' = 1 /\ bytes_req' = PACKET_SIZE
<1>1. /\ Done' = 1 /\ Head(tosend).pos = 0 /\ PACKET_SIZE \in Nat \ {0}
  BY Arrives
<1>2. Opens
  BY CtrlCases DEF Loads, Joins, Drops, Collides, Executes, Closes
<1>3. bytes_req' = PACKET_SIZE /\ loading_mem' = 0 /\ pkt' = <<>>
  BY <1>1, <1>2 DEF Opens, IsHeader
<1>4. 1 <= PACKET_SIZE /\ ~(1 > PACKET_SIZE) /\ PACKET_SIZE = (PACKET_SIZE + 1) - 1
  BY <1>1
<1>5. InStep'
  BY <1>1, <1>3, <1>4 DEF InStep
<1> QED BY <1>1, <1>2, <1>3, <1>5

\* Executing the attempt under way puts the parser in step.
LEMMA StepExecutes ==
  ASSUME SpiInv, CtrlIrq, Executes
  PROVE  /\ InStep' /\ Done' > PACKET_SIZE /\ Done = PACKET_SIZE
         /\ Len(executed') = Len(executed) + 1
         /\ executed'[Len(executed) + 1].id = Newest
         /\ \A i \in DOMAIN executed : executed'[i] = executed[i]
<1> DEFINE c == attempts[Newest].cmd
<1>1. /\ c \in Commands /\ Newest \in Nat /\ Newest' = Newest
      /\ Done \in Nat /\ Done' = Done + 1 /\ Len(tosend') = Len(tosend) - 1
      /\ Len(tosend) = Size(c) - Done /\ Len(tosend) \in Nat
      /\ PACKET_SIZE \in Nat /\ UNCHANGED received /\ executed \in Seq(Executions)
  BY Arrives
<1>2. /\ bytes_req' = 0 /\ loading_mem = 0 /\ Done = PACKET_SIZE /\ Execute(Newest, c)
  BY DEF Executes, Closes
<1> HIDE DEF c
<1>3. /\ loading_mem' = (IF Loading(c) THEN c.n ELSE 0)
      /\ Len(executed') = Len(executed) + 1 /\ executed' \in Seq(Executions)
      /\ executed'[Len(executed) + 1] = [id |-> Newest, cmd |-> c]
      /\ \A i \in DOMAIN executed : i \in DOMAIN executed' /\ executed'[i] = executed[i]
  BY <1>1, <1>2, ExecuteEffect
<1>4. /\ Size(c) \in Nat
      /\ Loading(c) => Size(c) = 1 + PACKET_SIZE + c.n
      /\ ~Loading(c) => Size(c) = 1 + PACKET_SIZE
  BY <1>1, SizeOf
<1>5. loading_mem' = Len(tosend')
  <2>1. c.n \in Nat
    BY <1>1, SpiAssumption
  <2>2. CASE Loading(c)
    BY <1>1, <1>2, <1>3, <1>4, <2>1, <2>2
  <2>3. CASE ~Loading(c)
    BY <1>1, <1>2, <1>3, <1>4, <2>3
  <2> QED BY <2>2, <2>3
<1>6. executed'[Len(executed) + 1].id = Newest
  BY <1>3
<1>7. Len(executed) + 1 \in DOMAIN executed'
  BY <1>1, <1>3, LenProperties
<1>8. Done' > PACKET_SIZE /\ ~(Done' <= PACKET_SIZE)
  BY <1>1, <1>2
<1>9. InStep'
  BY <1>1, <1>2, <1>5, <1>6, <1>7, <1>8 DEF InStep
<1> QED BY <1>2, <1>3, <1>6, <1>8, <1>9

\* A parser in step stays in step.
LEMMA StepKept ==
  ASSUME SpiInv, CtrlIrq, Done > 0, InStep
  PROVE  /\ InStep' /\ Done' > 0
         /\ \/ Loads /\ Done > PACKET_SIZE
            \/ Joins /\ Done < PACKET_SIZE
            \/ Executes
<1> DEFINE h == Head(tosend)
           p == Append(pkt, h)
<1>1. /\ Newest \in Nat \ {0} /\ Newest' = Newest
      /\ Done \in Nat /\ Done' = Done + 1
      /\ h = [id |-> Newest, pos |-> Done] /\ h \in Bytes
      /\ Len(tosend) \in Nat \ {0} /\ Len(tosend') = Len(tosend) - 1
      /\ bytes_req \in 0..PACKET_SIZE /\ pkt \in Seq(Bytes)
      /\ loading_mem \in 0..MaxLoad
      /\ bytes_req > 0 => loading_mem = 0 /\ Len(pkt) = PACKET_SIZE - bytes_req
      /\ PACKET_SIZE \in Nat \ {0} /\ MaxLoad \in Nat
  BY Arrives
<1>2. Done' > 0
  BY <1>1
<1> HIDE DEF h
<1>3. /\ DOMAIN p = 1..(Len(pkt) + 1) /\ DOMAIN pkt = 1..Len(pkt) /\ Len(pkt) \in Nat
      /\ p[Len(pkt) + 1] = h /\ \A k \in 1..Len(pkt) : p[k] = pkt[k]
  BY <1>1, AppendProperties, LenProperties
<1> HIDE DEF p
<1>4. CASE Done > PACKET_SIZE
  <2>1. /\ bytes_req = 0 /\ loading_mem = Len(tosend) /\ loading_mem > 0
        /\ \E i \in DOMAIN executed : executed[i].id = Newest
    BY <1>1, <1>4 DEF InStep
  <2>2. Loads
    BY <2>1, CtrlCases DEF Opens, Joins, Drops, Collides, Executes, Closes
  <2>3. /\ bytes_req' = 0 /\ loading_mem' = loading_mem - 1 /\ executed' = executed
    BY <2>1, <2>2 DEF Loads, Same
  <2>4. Done' > PACKET_SIZE /\ ~(Done' <= PACKET_SIZE) /\ loading_mem' = Len(tosend')
    BY <1>1, <1>4, <2>1, <2>3
  <2>5. InStep'
    BY <1>1, <2>1, <2>3, <2>4 DEF InStep
  <2> QED BY <1>2, <1>4, <2>2, <2>5
<1>5. CASE Done <= PACKET_SIZE
  <2>1. /\ bytes_req = PACKET_SIZE + 1 - Done /\ loading_mem = 0 /\ bytes_req > 0
        /\ \A k \in DOMAIN pkt : pkt[k] = [id |-> Newest, pos |-> k]
    BY <1>1, <1>5 DEF InStep
  <2>2. Len(pkt) + 1 = Done
    BY <1>1, <2>1
  <2>3. \A k \in 1..Done : p[k] = [id |-> Newest, pos |-> k]
    <3> SUFFICES ASSUME NEW k \in 1..Done PROVE p[k] = [id |-> Newest, pos |-> k]
      OBVIOUS
    <3>1. CASE k \in 1..Len(pkt)
      BY <1>3, <2>1, <3>1
    <3>2. CASE k = Done
      BY <1>1, <1>3, <2>2, <3>2
    <3> QED BY <1>1, <1>3, <2>2, <3>1, <3>2
  <2>4. CASE bytes_req > 1
    <3>1. Joins
      BY <2>1, <2>4, CtrlCases DEF Loads, Opens, Drops, Collides, Executes, Closes
    <3>2. bytes_req' = bytes_req - 1 /\ loading_mem' = 0 /\ pkt' = p
      BY <2>1, <3>1 DEF Joins, p, h
    <3>3. /\ Done < PACKET_SIZE /\ Done' <= PACKET_SIZE /\ ~(Done' > PACKET_SIZE)
          /\ bytes_req' = PACKET_SIZE + 1 - Done'
      <4>1. /\ Done \in Nat /\ PACKET_SIZE \in Nat /\ Done' = Done + 1
            /\ bytes_req = PACKET_SIZE + 1 - Done /\ bytes_req > 1
            /\ bytes_req' = bytes_req - 1
        BY ONLY <1>1, <2>1, <2>4, <3>2
      <4> QED BY ONLY <4>1
    <3>4. \A k \in DOMAIN pkt' : pkt'[k] = [id |-> Newest', pos |-> k]
      BY <1>1, <1>3, <2>2, <2>3, <3>2
    <3>5. InStep'
      BY <3>2, <3>3, <3>4 DEF InStep
    <3> QED BY <1>2, <3>1, <3>3, <3>5
  <2>5. CASE bytes_req = 1
    <3>1. Done = PACKET_SIZE
      <4>1. /\ Done \in Nat /\ PACKET_SIZE \in Nat
            /\ bytes_req = PACKET_SIZE + 1 - Done /\ bytes_req = 1
        BY ONLY <1>1, <2>1, <2>5
      <4> QED BY ONLY <4>1
    <3>2. p[1] = [id |-> Newest, pos |-> 1]
      BY <1>1, <2>3, <3>1
    <3>3. Intact(p)
      <4>1. p[1].id = Newest
        BY <3>2
      <4> QED BY <2>3, <3>1, <4>1 DEF Intact
    <3>4. Executes
      BY <2>1, <2>5, <3>3, CtrlCases DEF Loads, Opens, Joins, Drops, Collides, p, h
    <3> QED BY <1>2, <3>4, StepExecutes
  <2> QED BY <1>1, <2>1, <2>4, <2>5
<1> QED BY <1>1, <1>4, <1>5

-----------------------------------------------------------------------------
(* What the parser owes to lost bytes.                                     *)

\* Without a loss the parser never gets out of step, and every attempt whose
\* packet has arrived was executed.
NoLossInv ==
  lost = {} =>
    /\ Newest > 0 => \/ Done = 0 /\ bytes_req = 0 /\ loading_mem = 0
                     \/ Done > 0 /\ InStep
    /\ \A i \in DOMAIN executed : executed[i].id = i
    /\ Len(executed) = IF Newest > 0 /\ Done <= PACKET_SIZE THEN Newest - 1 ELSE Newest

\* A packet is being collected that the attempt under way will not complete.
Astray == bytes_req > 0 /\ ~(Done \in 1..PACKET_SIZE /\ InStep)

\* Each damaged packet, and the one under way, has its lost byte.
DamageInv ==
  (\A id \in DOMAIN attempts : Unmarked(id)) =>
    /\ damaged <= Cardinality(lost)
    /\ Astray => damaged + 1 <= Cardinality(lost)

\* The bytes that may pass before the parser is idle again, and those the
\* host has sent since attempt j began.
Debt    == IF bytes_req > 0 THEN bytes_req + MaxLoad ELSE loading_mem
From(j) == attempts[Newest].at + Done - attempts[j].at

Paid(j) == Debt = 0 \/ Debt + From(j) <= PACKET_SIZE + MaxLoad

\* Attempts j to n arrived whole and those before n have no mark.
Fresh(j, n) == (\A i \in j..n : Whole(i)) /\ (\A i \in j..(n - 1) : Unmarked(i))
Span(j, n)  == attempts[n].at - attempts[j].at

\* Since attempt j the parser has either got back into step, or the attempt
\* under way began before the debt was paid, and goes on paying it.
Back(j) ==
  \/ Done = 0 /\ Paid(j)
  \/ Done > 0 /\ InStep
  \/ /\ Done > 0 /\ Span(j, Newest) < PACKET_SIZE + MaxLoad
     /\ Unmarked(Newest) => Paid(j)

RecoverInv ==
  /\ \A j \in 1..Newest : Fresh(j, Newest) => Back(j)
  /\ \A id \in 1..(Newest - 1) : \A j \in 1..id :
       Fresh(j, id) /\ Span(j, id) >= PACKET_SIZE + MaxLoad =>
         \E i \in DOMAIN executed : executed[i].id = id

\* Before the first attempt the parser is idle.
StartInv == Newest = 0 => bytes_req = 0 /\ loading_mem = 0

LossInv == StartInv /\ NoLossInv /\ DamageInv /\ RecoverInv

LEMMA LossInit == Init => LossInv
<1> SUFFICES ASSUME Init PROVE LossInv
  OBVIOUS
<1>1. /\ Newest = 0 /\ lost = {} /\ executed = <<>> /\ damaged = 0
      /\ bytes_req = 0 /\ loading_mem = 0
  BY DEF Init, Newest
<1>2. NoLossInv
  BY <1>1 DEF NoLossInv
<1>3. DamageInv
  <2>1. Cardinality(lost) = 0
    BY <1>1, FS_EmptySet
  <2> QED BY <1>1, <2>1 DEF DamageInv, Astray
<1>4. RecoverInv
  <2>1. 1..Newest = {} /\ 1..(Newest - 1) = {}
    BY <1>1
  <2> QED BY <2>1 DEF RecoverInv
<1> QED BY <1>1, <1>2, <1>3, <1>4 DEF LossInv, StartInv

LEMMA LossSame ==
  ASSUME LossInv, UNCHANGED <<parser, tosend, attempts, lost, executed, damaged>>
  PROVE  LossInv'
<1>1. UNCHANGED <<bytes_req, pkt, loading_mem, tosend, attempts, lost, executed, damaged>>
  BY DEF parser
<1>2. /\ Newest' = Newest /\ Done' = Done /\ InStep' = InStep
      /\ Debt' = Debt /\ \A id : Unmarked(id)' = Unmarked(id) /\ Whole(id)' = Whole(id)
  BY <1>1 DEF Newest, Done, Size, Loading, InStep, Debt, Unmarked, Whole
<1>3. NoLossInv'
  BY <1>1, <1>2 DEF LossInv, NoLossInv
<1>4. DamageInv'
  BY <1>1, <1>2 DEF LossInv, DamageInv, Astray
<1>5. RecoverInv'
  BY <1>1, <1>2 DEF LossInv, RecoverInv, Back, Paid, From, Fresh, Span
<1>6. StartInv'
  BY <1>1, <1>2 DEF LossInv, StartInv
<1> QED BY <1>3, <1>4, <1>5, <1>6 DEF LossInv

-----------------------------------------------------------------------------
(* A byte arrives.                                                         *)

LEMMA NoLossCtrl ==
  ASSUME SpiInv, NoLossInv, CtrlIrq
  PROVE  NoLossInv'
<1> SUFFICES ASSUME lost' = {} PROVE NoLossInv'
  BY DEF NoLossInv
<1>1. /\ Newest \in Nat \ {0} /\ Newest' = Newest /\ Done \in Nat /\ Done' = Done + 1
      /\ lost' = lost /\ PACKET_SIZE \in Nat \ {0} /\ executed \in Seq(Executions)
  BY Arrives
<1>2. /\ \/ Done = 0 /\ bytes_req = 0 /\ loading_mem = 0
         \/ Done > 0 /\ InStep
      /\ \A i \in DOMAIN executed : executed[i].id = i
      /\ Len(executed) = IF Done <= PACKET_SIZE THEN Newest - 1 ELSE Newest
  BY <1>1 DEF NoLossInv
<1>3. DOMAIN executed = 1..Len(executed) /\ Len(executed) \in Nat
  BY <1>1, LenProperties
<1>4. CASE Done = 0 /\ bytes_req = 0 /\ loading_mem = 0
  <2>1. Opens /\ InStep' /\ Done' = 1
    BY <1>4, StepStarts
  <2>2. executed' = executed
    BY <2>1 DEF Opens, Same
  <2>3. Done' <= PACKET_SIZE /\ Done <= PACKET_SIZE /\ Done' > 0
    BY <1>1, <1>4, <2>1
  <2> QED BY <1>1, <1>2, <2>1, <2>2, <2>3 DEF NoLossInv
<1>5. CASE Done > 0 /\ InStep
  <2>1. /\ InStep' /\ Done' > 0
        /\ \/ Loads /\ Done > PACKET_SIZE
           \/ Joins /\ Done < PACKET_SIZE
           \/ Executes
    BY <1>5, StepKept
  <2>2. CASE (Loads /\ Done > PACKET_SIZE) \/ (Joins /\ Done < PACKET_SIZE)
    <3>1. executed' = executed
      BY <2>2 DEF Loads, Joins, Same
    <3>2. Done' <= PACKET_SIZE <=> Done <= PACKET_SIZE
      BY <1>1, <2>2
    <3> QED BY <1>1, <1>2, <2>1, <3>1, <3>2 DEF NoLossInv
  <2>3. CASE Executes
    <3>1. /\ Done' > PACKET_SIZE /\ Done = PACKET_SIZE
          /\ Len(executed') = Len(executed) + 1
          /\ executed'[Len(executed) + 1].id = Newest
          /\ \A i \in DOMAIN executed : executed'[i] = executed[i]
      BY <2>3, StepExecutes
    <3>2. Len(executed) = Newest - 1 /\ ~(Done' <= PACKET_SIZE)
          /\ Len(executed') = Newest
      BY <1>1, <1>2, <3>1
    <3>3. executed' \in Seq(Executions)
      BY CtrlIrqStep DEF SpiInv, ExecutedInv
    <3>4. DOMAIN executed' = 1..Newest
      BY <3>2, <3>3, LenProperties
    <3>5. ASSUME NEW i \in DOMAIN executed' PROVE executed'[i].id = i
      <4>1. CASE i \in 1..Len(executed)
        BY <4>1, <1>2, <1>3, <3>1
      <4>2. CASE i = Newest
        BY <4>2, <1>1, <3>1, <3>2
      <4> QED BY <1>1, <3>2, <3>4, <4>1, <4>2
    <3> QED BY <1>1, <2>1, <3>2, <3>5 DEF NoLossInv
  <2> QED BY <2>1, <2>2, <2>3
<1> QED BY <1>2, <1>4, <1>5

LEMMA DamageCtrl ==
  ASSUME SpiInv, DamageInv, CtrlIrq
  PROVE  DamageInv'
<1>1. /\ Newest \in Nat \ {0} /\ Newest' = Newest /\ Done \in Nat /\ Done' = Done + 1
      /\ lost' = lost /\ attempts' = attempts /\ PACKET_SIZE \in Nat \ {0}
      /\ Head(tosend) = [id |-> Newest, pos |-> Done]
      /\ bytes_req \in 0..PACKET_SIZE
      /\ bytes_req > 0 => loading_mem = 0
  BY Arrives
<1>2. SUFFICES ASSUME \A id \in DOMAIN attempts : Unmarked(id)
               PROVE  /\ damaged' <= Cardinality(lost)
                      /\ Astray' => damaged' + 1 <= Cardinality(lost)
  BY <1>1 DEF DamageInv, Unmarked
<1>3. /\ damaged <= Cardinality(lost) /\ damaged \in Nat /\ Cardinality(lost) \in Nat
      /\ Astray => damaged + 1 <= Cardinality(lost)
  <2>1. IsFiniteSet(lost) /\ damaged \in Nat
    BY DEF SpiInv, ParserInv, HostInv
  <2> QED BY <1>2, <2>1, FS_CardinalityType DEF DamageInv
<1>4. Loads \/ Opens \/ Joins \/ Drops \/ Collides \/ Executes
  BY CtrlCases
<1>5. CASE bytes_req > 0 /\ ~Astray
  <2>1. Done \in 1..PACKET_SIZE /\ InStep
    BY <1>5 DEF Astray
  <2>2. /\ InStep'
        /\ \/ Loads /\ Done > PACKET_SIZE
           \/ Joins /\ Done < PACKET_SIZE
           \/ Executes
    BY <1>1, <2>1, StepKept
  <2>3. CASE Joins /\ Done < PACKET_SIZE
    <3>1. Done' \in 1..PACKET_SIZE
      BY <1>1, <2>3
    <3>2. damaged' = damaged
      BY <2>3 DEF Joins
    <3> QED BY <1>3, <2>2, <3>1, <3>2 DEF Astray
  <2>4. CASE Executes
    <3>1. damaged' = damaged /\ ~(bytes_req' > 0)
      BY <2>4 DEF Executes, Closes
    <3> QED BY <1>3, <3>1 DEF Astray
  <2> QED BY <1>1, <2>1, <2>2, <2>3, <2>4
<1>6. CASE bytes_req > 0 /\ Astray
  <2>1. Joins \/ Drops \/ Collides \/ Executes
    BY <1>1, <1>4, <1>6 DEF Loads, Opens
  <2>2. CASE Joins
    BY <2>2, <1>3, <1>6 DEF Joins
  <2>3. CASE Drops \/ Collides \/ Executes
    <3>1. damaged' \in {damaged, damaged + 1} /\ ~(bytes_req' > 0)
      BY <2>3 DEF Drops, Collides, Executes, Closes
    <3> QED BY <1>3, <1>6, <3>1 DEF Astray
  <2> QED BY <2>1, <2>2, <2>3
<1>7. CASE ~(bytes_req > 0)
  <2>1. Loads \/ Opens
    BY <1>1, <1>4, <1>7 DEF Joins, Drops, Collides, Executes, Closes
  <2>2. CASE Loads
    BY <2>2, <1>3, <1>7 DEF Loads, Astray
  <2>3. CASE Opens
    <3>1. damaged' = damaged /\ bytes_req = 0 /\ loading_mem = 0
      BY <2>3 DEF Opens
    <3>2. CASE Done = 0
      <4>1. InStep' /\ Done' = 1
        BY <3>1, <3>2, StepStarts
      <4>2. Done' \in 1..PACKET_SIZE
        BY <1>1, <4>1
      <4> QED BY <1>3, <3>1, <4>1, <4>2 DEF Astray
    <3>3. CASE Done # 0
      <4>1. attempts[Newest].cmd.marks = {}
        <5>1. Newest \in DOMAIN attempts
          BY <1>1, LenProperties DEF SpiInv, HostInv, Newest
        <5> QED BY <1>2, <5>1 DEF Unmarked
      <4>2. ~IsHeader(Head(tosend))
        BY <1>1, <3>3, <4>1 DEF IsHeader
      <4>3. ~(bytes_req' > 0)
        BY <2>3, <4>2 DEF Opens
      <4> QED BY <1>3, <3>1, <4>3 DEF Astray
    <3> QED BY <3>2, <3>3
  <2> QED BY <2>1, <2>2, <2>3
<1> QED BY <1>5, <1>6, <1>7

\* A byte that arrives pays for itself, unless it puts the parser in step.
LEMMA DebtPaid ==
  ASSUME SpiInv, CtrlIrq, Debt # 0
  PROVE  Executes \/ (Debt' \in Nat /\ Debt' <= Debt - 1)
<1>1. /\ bytes_req \in 0..PACKET_SIZE /\ loading_mem \in 0..MaxLoad
      /\ bytes_req > 0 => loading_mem = 0
      /\ PACKET_SIZE \in Nat \ {0} /\ MaxLoad \in Nat /\ UNCHANGED received
  BY Arrives
<1>2. Loads \/ Opens \/ Joins \/ Drops \/ Collides \/ Executes
  BY CtrlCases
<1>3. CASE Loads
  <2>1. bytes_req' = 0 /\ bytes_req = 0 /\ loading_mem' = loading_mem - 1
    BY <1>1, <1>3 DEF Loads
  <2> QED BY <1>1, <1>3, <2>1 DEF Debt, Loads
<1>4. CASE Opens
  BY <1>1, <1>4 DEF Debt, Opens
<1>5. CASE Joins
  <2>1. bytes_req > 1 /\ bytes_req' = bytes_req - 1 /\ bytes_req \in Nat
    BY <1>1, <1>5 DEF Joins
  <2>2. Debt = bytes_req + MaxLoad /\ Debt' = bytes_req' + MaxLoad
    BY <2>1 DEF Debt
  <2> QED BY ONLY <1>1, <2>1, <2>2
<1>6. CASE Drops
  <2>1. bytes_req = 1 /\ bytes_req' = 0 /\ loading_mem' = 0
    BY <1>6 DEF Drops, Closes
  <2> QED BY <1>1, <2>1 DEF Debt
<1>7. CASE Collides
  <2>1. bytes_req = 1 /\ bytes_req' = 0 /\ loading_mem = 0
    BY <1>7 DEF Collides, Closes
  <2>2. PICK c \in Commands : Execute(0, c)
    BY <1>7 DEF Collides
  <2>3. loading_mem' \in 0..MaxLoad
    BY <1>1, <2>1, <2>2, ExecuteEffect
  <2> QED BY <1>1, <2>1, <2>3 DEF Debt
<1> QED BY <1>2, <1>3, <1>4, <1>5, <1>6, <1>7

LEMMA RecoverCtrl ==
  ASSUME SpiInv, RecoverInv, CtrlIrq
  PROVE  RecoverInv'
<1>1. /\ Newest \in Nat \ {0} /\ Newest' = Newest /\ Done \in Nat /\ Done' = Done + 1
      /\ lost' = lost /\ attempts' = attempts
      /\ PACKET_SIZE \in Nat \ {0} /\ MaxLoad \in Nat /\ executed \in Seq(Executions)
      /\ Head(tosend) = [id |-> Newest, pos |-> Done]
      /\ bytes_req \in 0..PACKET_SIZE /\ loading_mem \in 0..MaxLoad
  BY Arrives
<1>2. /\ \A j, n : Fresh(j, n)' = Fresh(j, n) /\ Span(j, n)' = Span(j, n)
      /\ \A n : Unmarked(n)' = Unmarked(n)
  BY <1>1 DEF Fresh, Span, Whole, Unmarked
<1>3. \A i \in DOMAIN executed : i \in DOMAIN executed' /\ executed'[i] = executed[i]
  <2>1. CASE executed' = executed
    BY <2>1
  <2>2. CASE \E id \in Nat, c \in Commands : Execute(id, c)
    <3>1. PICK x : executed' = Append(executed, x) /\ x \in Executions
      <4>1. PICK id \in Nat, c \in Commands : Execute(id, c)
        BY <2>2
      <4>2. /\ executed' = Append(executed, [id |-> id, cmd |-> c])
            /\ [id |-> id, cmd |-> c] \in Executions
        BY <4>1 DEF Execute, Executions
      <4> QED BY <4>2
    <3> QED BY <1>1, <3>1, AppendProperties, LenProperties
  <2>3. attempts[Newest].cmd \in Commands /\ 0 \in Nat /\ Newest \in Nat
    BY Arrives
  <2> QED BY <2>1, <2>2, <2>3, CtrlCases
          DEF Loads, Opens, Joins, Drops, Collides, Executes, Same
<1>4. ASSUME NEW j \in 1..Newest, Fresh(j, Newest)
      PROVE  Back(j)'
  <2>1. Back(j)
    BY <1>4 DEF RecoverInv
  <2>2. /\ attempts[Newest].at \in Nat /\ attempts[j].at \in Nat
        /\ From(j)' = From(j) + 1 /\ From(j) = Span(j, Newest) + Done
        /\ From(j) \in Int /\ Span(j, Newest) \in Int
    <3>1. attempts \in Seq(Attempts) /\ DOMAIN attempts = 1..Newest
      BY LenProperties DEF SpiInv, HostInv, Newest
    <3>2. attempts[Newest] \in Attempts /\ attempts[j] \in Attempts
      BY <1>1, <3>1
    <3>3. attempts[Newest].at \in Nat /\ attempts[j].at \in Nat
      BY <3>2 DEF Attempts
    <3>4. From(j)' = attempts[Newest].at + Done' - attempts[j].at
      BY <1>1 DEF From
    <3>5. /\ From(j) = attempts[Newest].at + Done - attempts[j].at
          /\ Span(j, Newest) = attempts[Newest].at - attempts[j].at
      BY DEF From, Span
    <3>6. Done \in Nat /\ Done' = Done + 1
      BY <1>1
    <3>7. From(j)' = From(j) + 1 /\ From(j) = Span(j, Newest) + Done
      BY ONLY <3>3, <3>4, <3>5, <3>6
    <3>8. From(j) \in Int /\ Span(j, Newest) \in Int
      BY ONLY <3>3, <3>5, <3>6
    <3> QED BY ONLY <3>3, <3>7, <3>8
  <2>3. Done' > 0
    BY <1>1
  <2>4. CASE Done > 0 /\ InStep
    BY <2>3, <2>4, StepKept DEF Back
  <2>5. CASE Debt = 0 /\ Done = 0
    <3>1. bytes_req = 0 /\ loading_mem = 0
      BY <1>1, <2>5 DEF Debt
    <3> QED BY <2>3, <2>5, <3>1, StepStarts DEF Back
  <2>6. CASE /\ ~InStep' /\ Span(j, Newest) < PACKET_SIZE + MaxLoad
             /\ Done = 0 => Debt # 0
             /\ Unmarked(Newest) => Paid(j)
    <3>1. SUFFICES ASSUME Unmarked(Newest) PROVE Paid(j)'
      BY <1>1, <1>2, <2>3, <2>6 DEF Back
    <3>2. CASE Debt = 0
      <4>1. bytes_req = 0 /\ loading_mem = 0 /\ Done # 0
        BY <1>1, <2>6, <3>2 DEF Debt
      <4>2. Opens
        BY <4>1, CtrlCases DEF Loads, Joins, Drops, Collides, Executes, Closes
      <4>3. ~IsHeader(Head(tosend))
        BY <1>1, <3>1, <4>1 DEF IsHeader, Unmarked
      <4>4. bytes_req' = 0 /\ loading_mem' = 0
        BY <4>1, <4>2, <4>3 DEF Opens
      <4> QED BY <4>4 DEF Paid, Debt
    <3>3. CASE Debt # 0
      <4>1. Debt + From(j) <= PACKET_SIZE + MaxLoad
        BY <2>6, <3>1, <3>3 DEF Paid
      <4>2. Debt' \in Nat /\ Debt' <= Debt - 1
        BY <2>6, <3>3, DebtPaid, StepExecutes
      <4>3. Debt \in Nat
        BY <1>1 DEF Debt
      <4>4. Debt' + From(j)' <= PACKET_SIZE + MaxLoad
        BY ONLY <1>1, <2>2, <4>1, <4>2, <4>3
      <4> QED BY <4>4 DEF Paid
    <3> QED BY <3>2, <3>3
  <2>7. CASE Done = 0 /\ Paid(j) /\ Debt # 0
    <3>1. Debt + From(j) <= PACKET_SIZE + MaxLoad /\ Debt \in Nat
      BY <1>1, <2>7 DEF Paid, Debt
    <3>2. Span(j, Newest) < PACKET_SIZE + MaxLoad
      BY ONLY <1>1, <2>2, <2>7, <3>1
    <3>3. CASE InStep'
      BY <2>3, <3>3 DEF Back
    <3> QED BY <2>6, <2>7, <3>2, <3>3
  <2>8. CASE /\ Done > 0 /\ Span(j, Newest) < PACKET_SIZE + MaxLoad
             /\ Unmarked(Newest) => Paid(j)
    <3>1. CASE InStep'
      BY <2>3, <3>1 DEF Back
    <3> QED BY <1>1, <2>6, <2>8, <3>1
  <2> QED BY <2>1, <2>4, <2>5, <2>7, <2>8 DEF Back
<1>5. ASSUME NEW id \in 1..(Newest - 1), NEW j \in 1..id, Fresh(j, id),
             Span(j, id) >= PACKET_SIZE + MaxLoad
      PROVE  \E i \in DOMAIN executed' : executed'[i].id = id
  <2>1. \E i \in DOMAIN executed : executed[i].id = id
    BY <1>5 DEF RecoverInv
  <2> QED BY <1>3, <2>1
<1> QED BY <1>1, <1>2, <1>4, <1>5 DEF RecoverInv

LEMMA LossCtrl == SpiInv /\ LossInv /\ CtrlIrq => LossInv'
<1> SUFFICES ASSUME SpiInv, LossInv, CtrlIrq PROVE LossInv'
  OBVIOUS
<1>1. Newest' # 0
  BY Arrives
<1> QED BY <1>1, NoLossCtrl, DamageCtrl, RecoverCtrl DEF LossInv, StartInv

-----------------------------------------------------------------------------
(* A byte is lost, or the host starts an attempt.                          *)

LEMMA LossLose == SpiInv /\ LossInv /\ LoseByte => LossInv'
<1> SUFFICES ASSUME SpiInv, LossInv, LoseByte PROVE LossInv'
  OBVIOUS
<1> DEFINE h == Head(tosend)
<1>1. /\ tosend # <<>> /\ tosend' = Tail(tosend) /\ lost' = lost \cup {h}
      /\ UNCHANGED <<attempts, executed, damaged>>
  BY DEF LoseByte
<1>2. /\ Newest \in Nat \ {0} /\ Newest' = Newest /\ Done \in Nat
      /\ h = [id |-> Newest, pos |-> Done]
  BY <1>1, ByteSent
<1> HIDE DEF h
<1>3. h.id = Newest /\ h \notin lost
  BY <1>2 DEF SpiInv, ParserInv
<1>4. NoLossInv' /\ StartInv'
  BY <1>1, <1>2 DEF NoLossInv, StartInv
<1>5. DamageInv'
  <2> SUFFICES ASSUME \A id \in DOMAIN attempts : Unmarked(id)
               PROVE  damaged' + 1 <= Cardinality(lost') /\ damaged' <= Cardinality(lost')
    BY <1>1 DEF DamageInv, Unmarked
  <2>1. IsFiniteSet(lost) /\ damaged \in Nat
    BY DEF SpiInv, ParserInv, HostInv
  <2>2. Cardinality(lost') = Cardinality(lost) + 1 /\ Cardinality(lost) \in Nat
    BY <1>1, <1>3, <2>1, FS_AddElement, FS_CardinalityType
  <2>3. damaged <= Cardinality(lost)
    BY DEF LossInv, DamageInv
  <2> QED BY <1>1, <2>1, <2>2, <2>3
<1>6. \A id : Whole(id)' => Whole(id)
  BY <1>1 DEF Whole
<1>7. ~Whole(Newest)'
  BY <1>1, <1>2, <1>3 DEF Whole
<1>8. \A j, n : /\ Fresh(j, n)' => Fresh(j, n)
                /\ Span(j, n)' = Span(j, n)
  BY <1>1, <1>6 DEF Fresh, Span, Unmarked
<1>9. \A j \in 1..Newest : ~Fresh(j, Newest)'
  <2> SUFFICES ASSUME NEW j \in 1..Newest PROVE ~Fresh(j, Newest)'
    OBVIOUS
  <2>1. Newest \in j..Newest
    BY <1>2
  <2> QED BY <1>2, <1>7, <2>1 DEF Fresh
<1>10. RecoverInv'
  <2>1. \A j \in 1..Newest' : ~Fresh(j, Newest)'
    BY <1>2, <1>9
  <2>2. \A j \in 1..Newest' : Fresh(j, Newest)' => Back(j)'
    BY <2>1
  <2>3. ASSUME NEW id \in 1..(Newest' - 1), NEW j \in 1..id, Fresh(j, id)',
               Span(j, id)' >= PACKET_SIZE + MaxLoad
        PROVE  \E i \in DOMAIN executed' : executed'[i].id = id
    <3>1. id \in 1..(Newest - 1) /\ Fresh(j, id) /\ Span(j, id) >= PACKET_SIZE + MaxLoad
      BY <1>2, <1>8, <2>3
    <3> QED BY <1>1, <3>1 DEF LossInv, RecoverInv
  <2> QED BY <2>2, <2>3 DEF RecoverInv
<1> QED BY <1>4, <1>5, <1>10 DEF LossInv

\* A parser that is in step with a finished attempt has executed it, and is idle.
LEMMA Finished ==
  ASSUME SpiInv, tosend = <<>>, Newest > 0
  PROVE  /\ Newest \in Nat \ {0} /\ Done \in Nat /\ Done > PACKET_SIZE
         /\ ~(Done <= PACKET_SIZE) /\ Done # 0 /\ ~(Done \in 1..PACKET_SIZE)
         /\ InStep => /\ bytes_req = 0 /\ loading_mem = 0 /\ Debt = 0
                      /\ \E i \in DOMAIN executed : executed[i].id = Newest
<1>1. /\ attempts \in Seq(Attempts) /\ Done \in Nat /\ PACKET_SIZE \in Nat
  BY SpiAssumption DEF SpiInv, HostInv
<1>2. Newest \in Nat \ {0} /\ Newest \in 1..Newest
  BY <1>1, LenProperties DEF Newest
<1>3. attempts[Newest].cmd \in Commands
  <2>1. attempts[Newest] \in Attempts
    BY <1>1, <1>2, ElementOfSeq DEF Newest
  <2> QED BY <2>1 DEF Attempts
<1>4. Done = Size(attempts[Newest].cmd) - 0 /\ Len(tosend) = 0
  BY DEF Done
<1>5. Done > PACKET_SIZE
  BY <1>1, <1>3, <1>4, SizeOf
<1>6. ~(Done <= PACKET_SIZE) /\ Done # 0 /\ ~(Done \in 1..PACKET_SIZE)
  BY <1>1, <1>5
<1>7. InStep => /\ bytes_req = 0 /\ loading_mem = 0
                /\ \E i \in DOMAIN executed : executed[i].id = Newest
  BY <1>4, <1>5 DEF InStep
<1> QED BY <1>1, <1>2, <1>5, <1>6, <1>7 DEF Debt

LEMMA LossSend ==
  ASSUME SpiInv, LossInv, NEW c \in Commands, HostSend(c)
  PROVE  LossInv'
<1>1. UNCHANGED <<bytes_req, pkt, loading_mem, lost, executed, damaged>>
  BY DEF HostSend, parser
<1>2. /\ Newest \in Nat /\ Newest' = Newest + 1 /\ Done' = 0
      /\ attempts'[Newest + 1] = [cmd |-> c, at |-> BytesSoFar]
      /\ \A i \in 1..Newest : attempts'[i] = attempts[i]
      /\ DOMAIN attempts = 1..Newest /\ DOMAIN attempts' = 1..(Newest + 1)
      /\ tosend = <<>>
      /\ Newest > 0 => /\ attempts[Newest] \in Attempts /\ Done \in Nat
                       /\ BytesSoFar = attempts[Newest].at + Done
      /\ attempts' \in Seq(Attempts) /\ attempts \in Seq(Attempts)
  BY NewAttempt DEF SpiInv, HostInv
<1>3. /\ PACKET_SIZE \in Nat \ {0} /\ MaxLoad \in Nat
      /\ bytes_req \in 0..PACKET_SIZE /\ loading_mem \in 0..MaxLoad
  BY SpiAssumption DEF SpiInv, ParserInv
<1>4. StartInv'
  BY <1>2 DEF StartInv
<1>5. NoLossInv'
  <2> SUFFICES ASSUME lost = {} PROVE NoLossInv'
    BY <1>1 DEF NoLossInv
  <2>1. /\ bytes_req = 0 /\ loading_mem = 0 /\ Len(executed) = Newest
        /\ \A i \in DOMAIN executed : executed[i].id = i
    <3>1. CASE Newest = 0
      BY <3>1 DEF LossInv, StartInv, NoLossInv
    <3>2. CASE Newest > 0
      BY <1>2, <3>2, Finished DEF LossInv, NoLossInv
    <3> QED BY <1>2, <3>1, <3>2
  <2>2. Newest' > 0 /\ Done' <= PACKET_SIZE /\ Newest' - 1 = Newest
    BY <1>2, <1>3
  <2> QED BY <1>1, <1>2, <2>1, <2>2 DEF NoLossInv
<1>6. DamageInv'
  <2> SUFFICES ASSUME \A id \in DOMAIN attempts' : Unmarked(id)'
               PROVE  /\ damaged <= Cardinality(lost)
                      /\ bytes_req > 0 => damaged + 1 <= Cardinality(lost)
    BY <1>1 DEF DamageInv, Astray
  <2>1. \A id \in DOMAIN attempts : Unmarked(id)
    <3> SUFFICES ASSUME NEW id \in 1..Newest PROVE Unmarked(id)
      BY <1>2
    <3>1. id \in 1..(Newest + 1)
      BY <1>2
    <3> QED BY <1>2, <3>1 DEF Unmarked
  <2>2. /\ damaged <= Cardinality(lost)
        /\ Astray => damaged + 1 <= Cardinality(lost)
    BY <2>1 DEF LossInv, DamageInv
  <2>3. bytes_req > 0 => Astray
    <3>1. CASE Newest = 0
      BY <3>1 DEF LossInv, StartInv
    <3>2. CASE Newest > 0
      BY <1>2, <3>2, Finished DEF Astray
    <3> QED BY <1>2, <3>1, <3>2
  <2> QED BY <2>2, <2>3
<1>7. \A i \in 1..Newest : /\ Unmarked(i)' = Unmarked(i) /\ Whole(i)' = Whole(i)
                           /\ attempts'[i].at = attempts[i].at
  BY <1>1, <1>2 DEF Unmarked, Whole
<1>8. \A n \in 1..Newest : \A j \in 1..n :
        Fresh(j, n)' = Fresh(j, n) /\ Span(j, n)' = Span(j, n)
  <2> SUFFICES ASSUME NEW n \in 1..Newest, NEW j \in 1..n
               PROVE  Fresh(j, n)' = Fresh(j, n) /\ Span(j, n)' = Span(j, n)
    OBVIOUS
  <2>1. (\A i \in j..n : i \in 1..Newest) /\ (\A i \in j..(n - 1) : i \in 1..Newest)
        /\ j \in 1..Newest
    BY <1>2
  <2>2. Fresh(j, n)' = Fresh(j, n)
    BY <1>7, <2>1, Zenon DEF Fresh
  <2> QED BY <1>7, <2>1, <2>2 DEF Span
<1>9. Debt' = Debt /\ Debt \in Nat /\ Debt <= PACKET_SIZE + MaxLoad
  BY <1>1, <1>3 DEF Debt
<1>0. PICK n : n = Newest
  OBVIOUS
<1>10. ASSUME NEW j \in 1..(n + 1), Fresh(j, n + 1)'
       PROVE  Back(j)'
  <2>1. SUFFICES Paid(j)'
    BY <1>2 DEF Back
  <2>2. From(j)' = BytesSoFar + 0 - attempts'[j].at
    BY <1>2 DEF From
  <2>3. CASE j = n + 1
    <3>1. BytesSoFar \in Nat /\ attempts'[j].at = BytesSoFar
      BY <1>0, <1>2, <2>3, ElementOfSeq DEF Attempts
    <3>2. From(j)' = 0
      BY ONLY <2>2, <3>1
    <3> QED BY <1>9, <3>2 DEF Paid
  <2>4. CASE j \in 1..Newest
    <3>1. Newest > 0 /\ Newest \in j..Newest /\ Newest \in 1..Newest
      BY <1>2, <2>4
    <3>2. Fresh(j, Newest) /\ Unmarked(Newest)
      <4>1. /\ (n + 1) - 1 = n /\ n \in j..n
            /\ \A i \in j..n : i \in j..(n + 1)
            /\ \A i \in j..(n - 1) : i \in j..n
        BY <1>0, <1>2, <2>4
      <4>2. Fresh(j, n)' /\ Unmarked(n)'
        BY <1>10, <4>1 DEF Fresh
      <4>3. n \in 1..Newest /\ j \in 1..n
        BY <1>0, <2>4, <3>1
      <4>4. Fresh(j, n) /\ Unmarked(n)
        BY <1>7, <1>8, <4>2, <4>3
      <4> QED BY <1>0, <4>4
    <3>3. Back(j)
      BY <2>4, <3>2 DEF LossInv, RecoverInv
    <3>4. CASE InStep
      BY <1>2, <1>9, <3>1, <3>4, Finished DEF Paid
    <3>5. CASE Paid(j)
      <4>1. From(j) = attempts[Newest].at + Done - attempts[j].at
        BY DEF From
      <4>2. attempts[j].at \in Nat /\ attempts[Newest].at \in Nat /\ Done \in Nat
        <5>1. attempts[j] \in Attempts
          BY <1>2, <2>4, ElementOfSeq DEF Newest
        <5> QED BY <1>2, <3>1, <5>1 DEF Attempts
      <4>3. BytesSoFar = attempts[Newest].at + Done /\ attempts'[j].at = attempts[j].at
        BY <1>2, <1>7, <2>4, <3>1
      <4>4. From(j)' = From(j)
        BY ONLY <2>2, <4>1, <4>2, <4>3
      <4> QED BY <1>9, <3>5, <4>4 DEF Paid
    <3> QED BY <1>2, <3>1, <3>2, <3>3, <3>4, <3>5, Finished DEF Back
  <2> QED BY <1>0, <1>2, <2>3, <2>4
<1>11. ASSUME NEW id \in 1..Newest, NEW j \in 1..id, Fresh(j, id),
              Span(j, id) >= PACKET_SIZE + MaxLoad
       PROVE  \E i \in DOMAIN executed : executed[i].id = id
  <2>1. CASE id \in 1..(Newest - 1)
    BY <1>11, <2>1 DEF LossInv, RecoverInv
  <2>2. CASE id = Newest
    <3>1. Newest > 0 /\ j \in 1..Newest
      BY <1>2, <2>2
    <3>2. Back(j)
      BY <1>11, <2>2, <3>1 DEF LossInv, RecoverInv
    <3>3. Span(j, Newest) \in Int
      <4>1. attempts[j] \in Attempts /\ attempts[Newest] \in Attempts
        BY <1>2, <3>1, ElementOfSeq DEF Newest
      <4> QED BY <4>1 DEF Attempts, Span
    <3>4. ~(Span(j, Newest) < PACKET_SIZE + MaxLoad)
      BY <1>3, <1>11, <2>2, <3>3
    <3>5. InStep
      BY <1>2, <3>1, <3>2, <3>4, Finished DEF Back
    <3> QED BY <1>2, <2>2, <3>1, <3>5, Finished
  <2> QED BY <1>2, <2>1, <2>2
<1>12. RecoverInv'
  <2>1. \A j \in 1..Newest' : Fresh(j, Newest)' => Back(j)'
    BY <1>0, <1>2, <1>10
  <2>2. ASSUME NEW id \in 1..(Newest' - 1), NEW j \in 1..id, Fresh(j, id)',
               Span(j, id)' >= PACKET_SIZE + MaxLoad
        PROVE  \E i \in DOMAIN executed' : executed'[i].id = id
    <3>1. id \in 1..Newest
      BY <1>2
    <3>2. Fresh(j, id) /\ Span(j, id) >= PACKET_SIZE + MaxLoad
      BY <1>8, <2>2, <3>1
    <3> QED BY <1>1, <1>11, <3>1, <3>2
  <2> QED BY <1>2, <2>1, <2>2 DEF RecoverInv
<1> QED BY <1>4, <1>5, <1>6, <1>12 DEF LossInv

LEMMA LossInvariant == Spec => [](SpiInv /\ LossInv)
<1>1. ASSUME SpiInv, LossInv, [Next]_vars
      PROVE  LossInv'
  <2>1. CASE CtrlIrq
    BY <1>1, <2>1, LossCtrl
  <2>2. CASE DataIrq
    BY <1>1, <2>2, LossSame DEF DataIrq, host
  <2>3. CASE CheckBusy
    BY <1>1, <2>3, LossSame DEF CheckBusy, host
  <2>4. CASE HbcToSpi
    BY <1>1, <2>4, LossSame DEF HbcToSpi, host
  <2>5. CASE LoseByte
    BY <1>1, <2>5, LossLose
  <2>6. CASE \E c \in Commands : HostSend(c)
    BY <1>1, <2>6, LossSend
  <2>7. CASE UNCHANGED vars
    BY <1>1, <2>7, LossSame DEF vars, host
  <2> QED BY <1>1, <2>1, <2>2, <2>3, <2>4, <2>5, <2>6, <2>7 DEF Next
<1>2. SpiInv /\ LossInv /\ SpiInv' /\ [Next]_vars => LossInv'
  BY <1>1
<1> QED BY SpiInvariant, LossInit, <1>2, PTL DEF Spec

-----------------------------------------------------------------------------
(* What is due, and the bytes of each answer.                              *)

\* As long as the host waits and nothing was forwarded, what is due is what
\* was taken, is on its way, or is left of the answers; and while some of it
\* is left the parser is not inside a packet, nor will the attempt under way
\* bring one.
Waits == forwards = 0 /\ ~impatient /\ Plausible

StreamInv ==
  Waits => /\ due = received \o (out \o Rests)
           /\ ~Quiet => bytes_req = 0 /\ (tosend # <<>> => Done > 0)

LEMMA StreamInit == Init => StreamInv
<1> SUFFICES ASSUME Init PROVE StreamInv
  OBVIOUS
<1>1. /\ Quiet /\ received = <<>> /\ out = <<>> /\ due = <<>>
      /\ ack = Idle /\ reply = Idle /\ dump = Idle
  BY DEF Init, Quiet, Idle
<1>2. Idle \in Answers /\ Idle.left = 0
  BY DEF Idle, Answers, Sources
<1>3. Rests = <<>> \o (<<>> \o <<>>)
  BY <1>1, <1>2, RestNone DEF Rests
<1>4. <<>> \o (<<>> \o <<>>) = <<>>
  BY EmptySeq, ConcatEmptySeq
<1> QED BY <1>1, <1>3, <1>4 DEF StreamInv

\* A host that waits after a step waited before it.
LEMMA WaitsBack ==
  ASSUME SpiInv, [Next]_vars, Waits'
  PROVE  Waits
<1>1. forwards \in Nat /\ forwards' \in {forwards, forwards + 1}
  BY DEF SpiInv, HostInv, Next, CtrlIrq, DataIrq, CheckBusy, HbcToSpi, LoseByte, HostSend,
         host, vars
<1>2. forwards = 0
  BY <1>1 DEF Waits
<1>3. CASE \E c \in Commands : HostSend(c)
  <2>1. PICK c \in Commands : HostSend(c)
    BY <1>3
  <2>2. lost' = lost /\ ~impatient
    BY <2>1 DEF HostSend, Waits
  <2>3. /\ \A i \in 1..Newest : attempts'[i] = attempts[i]
        /\ DOMAIN attempts = 1..Newest /\ DOMAIN attempts' = 1..(Newest + 1)
        /\ Newest \in Nat
    BY <2>1, NewAttempt
  <2>4. 1..Newest \subseteq 1..(Newest + 1)
    BY <2>3
  <2>5. Plausible
    BY <2>2, <2>3, <2>4 DEF Waits, Plausible, Unmarked
  <2> QED BY <1>2, <2>2, <2>5 DEF Waits
<1>4. CASE ~\E c \in Commands : HostSend(c)
  <2>1. impatient' = impatient /\ attempts' = attempts /\ lost \subseteq lost'
    BY <1>4 DEF Next, CtrlIrq, DataIrq, CheckBusy, HbcToSpi, LoseByte, host, vars
  <2>2. Plausible
    BY <2>1 DEF Waits, Plausible, Unmarked
  <2> QED BY <1>2, <2>1, <2>2 DEF Waits
<1> QED BY <1>3, <1>4

LEMMA StreamCtrl ==
  ASSUME SpiInv, LossInv, StreamInv, CtrlIrq, Waits, Waits'
  PROVE  StreamInv'
<1>1. /\ tosend # <<>> /\ tosend' = Tail(tosend) /\ UNCHANGED <<attempts, received>>
      /\ Newest \in Nat \ {0} /\ attempts[Newest].cmd \in Commands
      /\ Done \in Nat /\ Done' = Done + 1
      /\ Head(tosend) = [id |-> Newest, pos |-> Done]
      /\ Len(tosend) \in Nat \ {0} /\ bytes_req \in 0..PACKET_SIZE
      /\ PACKET_SIZE \in Nat \ {0}
  BY Arrives
<1>2. /\ due = received \o (out \o Rests)
      /\ ~Quiet => bytes_req = 0 /\ Done > 0
  BY <1>1 DEF StreamInv
<1>3. Done' > 0
  BY <1>1
<1>4. CASE Same /\ (~Quiet => bytes_req' = 0)
  <2>1. UNCHANGED <<ack, reply, dump, out, due>>
    BY <1>4 DEF Same, pump
  <2>2. Quiet' = Quiet /\ Rests' = Rests
    BY <2>1 DEF Quiet, Rests
  <2> QED BY <1>1, <1>2, <1>3, <1>4, <2>1, <2>2 DEF StreamInv
<1>5. ASSUME NEW id \in Nat, NEW c \in Commands, Execute(id, c), Closes
      PROVE  StreamInv'
  <2>1. Quiet /\ bytes_req' = 0 /\ loading_mem = 0
    BY <1>2, <1>5 DEF Closes
  <2>2. due' = received \o (out' \o Rests')
    BY <1>1, <1>2, <1>5, <2>1, ExecuteEffect
  <2> QED BY <1>1, <1>3, <2>1, <2>2 DEF StreamInv
<1>6. CASE Loads
  BY <1>2, <1>4, <1>6 DEF Loads
<1>7. CASE Opens
  <2>1. ASSUME ~Quiet PROVE bytes_req' = 0
    <3>1. Done > 0 /\ bytes_req = 0 /\ loading_mem = 0
      BY <1>2, <1>7, <2>1 DEF Opens
    <3>2. lost # {}
      <4> SUFFICES ASSUME lost = {} PROVE FALSE
        OBVIOUS
      <4>1. InStep
        BY <1>1, <3>1 DEF LossInv, NoLossInv
      <4>2. CASE Done <= PACKET_SIZE
        <5>1. bytes_req = PACKET_SIZE + 1 - Done
          BY <4>1, <4>2 DEF InStep
        <5> QED BY ONLY <1>1, <3>1, <4>2, <5>1
      <4>3. CASE Done > PACKET_SIZE
        BY <1>1, <3>1, <4>1, <4>3 DEF InStep
      <4> QED BY <1>1, <4>2, <4>3
    <3>3. Newest \in DOMAIN attempts
      BY <1>1, LenProperties DEF SpiInv, HostInv, Newest
    <3>4. attempts[Newest].cmd.marks = {}
      BY <3>2, <3>3 DEF Waits, Plausible, Unmarked
    <3>5. ~IsHeader(Head(tosend))
      BY <1>1, <3>1, <3>4 DEF IsHeader
    <3> QED BY <1>7, <3>5 DEF Opens
  <2> QED BY <1>4, <1>7, <2>1 DEF Opens
<1>8. CASE Joins \/ Drops
  <2>1. bytes_req # 0 /\ Same
    BY <1>8 DEF Joins, Drops, Closes
  <2> QED BY <1>2, <1>4, <2>1
<1>9. CASE Collides
  <2>1. PICK c \in Commands : Execute(0, c)
    BY <1>9 DEF Collides
  <2>2. Closes /\ 0 \in Nat
    BY <1>9 DEF Collides
  <2> QED BY <1>5, <2>1, <2>2
<1>10. CASE Executes
  BY <1>1, <1>5, <1>10 DEF Executes
<1> QED BY <1>6, <1>7, <1>8, <1>9, <1>10, CtrlCases

LEMMA StreamStep ==
  ASSUME SpiInv, LossInv, StreamInv, [Next]_vars
  PROVE  StreamInv'
<1>1. SUFFICES ASSUME Waits' PROVE StreamInv'
  BY DEF StreamInv
<1>2. Waits
  BY <1>1, WaitsBack
<1>3. /\ due = received \o (out \o Rests)
      /\ ~Quiet => bytes_req = 0 /\ (tosend # <<>> => Done > 0)
  BY <1>2 DEF StreamInv
<1>4. CASE CtrlIrq
  BY <1>1, <1>2, <1>4, StreamCtrl
<1>5. CASE DataIrq
  <2>1. received' \o (out' \o Rests') = received \o (out \o Rests) /\ ~Quiet
    BY <1>5, DataIrqEffect DEF Quiet
  <2>2. UNCHANGED <<due, bytes_req, tosend, attempts>> /\ Done' = Done
    BY <1>5 DEF DataIrq, parser, host, Done, Newest, Size, Loading
  <2> QED BY <1>3, <2>1, <2>2 DEF StreamInv
<1>6. CASE \/ CheckBusy \/ LoseByte \/ UNCHANGED vars
           \/ \E c \in Commands : HostSend(c)
  <2>1. UNCHANGED <<ack, reply, dump, out, due, received, bytes_req>>
    BY <1>6 DEF CheckBusy, LoseByte, HostSend, vars, parser, pump
  <2>2. Quiet' = Quiet /\ Rests' = Rests
    BY <2>1 DEF Quiet, Rests
  <2>3. ~Quiet => (tosend' # <<>> => Done' > 0)
    <3>1. CASE CheckBusy \/ UNCHANGED vars
      <4>1. tosend' = tosend /\ Done' = Done
        BY <3>1 DEF CheckBusy, vars, host, Done, Newest, Size, Loading
      <4> QED BY <1>3, <4>1
    <3>2. CASE LoseByte
      <4>1. Done \in Nat /\ Done' = Done + 1
        BY <3>2, ByteSent DEF LoseByte
      <4> QED BY <4>1
    <3>3. CASE \E c \in Commands : HostSend(c)
      BY <1>1, <3>3 DEF HostSend, Waits
    <3> QED BY <1>6, <3>1, <3>2, <3>3
  <2> QED BY <1>3, <2>1, <2>2, <2>3 DEF StreamInv
<1>7. CASE HbcToSpi
  <2>1. forwards' = forwards + 1 /\ forwards \in Nat
    BY <1>7 DEF HbcToSpi, SpiInv, HostInv
  <2> QED BY <1>1, <2>1 DEF Waits
<1> QED BY <1>4, <1>5, <1>6, <1>7 DEF Next

LEMMA StreamInvariant == Spec => []StreamInv
<1>1. SpiInv /\ LossInv /\ StreamInv /\ [Next]_vars => StreamInv'
  BY StreamStep
<1> QED BY LossInvariant, StreamInit, <1>1, PTL DEF Spec

\* An answer that has been started has its last byte behind it, with no byte
\* of the same field after that.
AckFields   == {"ack", "announce"}
ReplyFields == {"reply"}
DumpFields  == {"dump", "packet"}

Follows(a, fields, sent) ==
  /\ a.size > 0 => a.src \in fields
  /\ a.left < a.size =>
       \E j \in 1..Len(sent) :
         /\ sent[j] = [src |-> a.src, id |-> a.id, k |-> a.size - a.left]
         /\ \A m \in (j + 1)..Len(sent) : sent[m].src \notin fields

\* Every byte but the first of an answer has the one before it behind it.
Chained(sent) ==
  \A fields \in {AckFields, ReplyFields, DumpFields} :
    \A i \in 1..Len(sent) :
      sent[i].src \in fields /\ sent[i].k > 1 =>
        \E j \in 1..(i - 1) :
          /\ sent[j] = [sent[i] EXCEPT !.k = @ - 1]
          /\ \A m \in (j + 1)..(i - 1) : sent[m].src \notin fields

SequenceInv ==
  LET sent == received \o out
  IN  /\ Chained(sent)
      /\ Follows(ack, AckFields, sent)
      /\ Follows(reply, ReplyFields, sent)
      /\ Follows(dump, DumpFields, sent)

\* A byte of another field does not come between the bytes of an answer.
LEMMA FollowsOther ==
  ASSUME NEW s \in Seq(DataBytes), NEW b \in DataBytes, NEW a \in Answers,
         NEW fields, b.src \notin fields, Follows(a, fields, s)
  PROVE  Follows(a, fields, Append(s, b))
<1>1. /\ Len(s) \in Nat /\ Len(Append(s, b)) = Len(s) + 1
      /\ Append(s, b)[Len(s) + 1] = b
      /\ \A i \in 1..Len(s) : Append(s, b)[i] = s[i]
  BY AppendProperties, LenProperties
<1>2. PICK t : t = Append(s, b)
  OBVIOUS
<1>3. SUFFICES ASSUME a.left < a.size
               PROVE  \E j \in 1..Len(t) :
                        /\ t[j] = [src |-> a.src, id |-> a.id, k |-> a.size - a.left]
                        /\ \A m \in (j + 1)..Len(t) : t[m].src \notin fields
  BY <1>2 DEF Follows
<1>4. PICK j \in 1..Len(s) :
        /\ s[j] = [src |-> a.src, id |-> a.id, k |-> a.size - a.left]
        /\ \A m \in (j + 1)..Len(s) : s[m].src \notin fields
  BY <1>3 DEF Follows
<1>5. ASSUME NEW m \in (j + 1)..(Len(s) + 1) PROVE t[m].src \notin fields
  <2>1. CASE m \in (j + 1)..Len(s)
    <3>1. m \in 1..Len(s)
      BY <1>1, <2>1
    <3> QED BY <1>1, <1>2, <1>4, <2>1, <3>1
  <2>2. CASE m = Len(s) + 1
    BY <1>1, <1>2, <2>2
  <2> QED BY <1>1, <2>1, <2>2
<1>6. j \in 1..Len(t)
  BY <1>1, <1>2
<1> QED BY <1>1, <1>2, <1>4, <1>5, <1>6

\* The next byte of an answer continues it.
LEMMA FollowsNext ==
  ASSUME NEW s \in Seq(DataBytes), NEW a \in Answers, a.left > 0, a.left <= a.size,
         NEW fields, Follows(a, fields, s)
  PROVE  /\ NextByte(a).src \in fields
         /\ Follows(Less(a), fields, Append(s, NextByte(a)))
         /\ NextByte(a).k > 1 =>
              \E j \in 1..Len(s) :
                /\ s[j] = [NextByte(a) EXCEPT !.k = @ - 1]
                /\ \A m \in (j + 1)..Len(s) : s[m].src \notin fields
<1> DEFINE b == NextByte(a)
<1>1. a.left \in Nat /\ a.size \in Nat /\ a.src \in Sources /\ a.id \in Nat
  BY DEF Answers
<1>2. b = [src |-> a.src, id |-> a.id, k |-> a.size - a.left + 1]
  BY DEF NextByte
<1>3. b \in DataBytes
  BY RestNext
<1>4. b.src \in fields
  BY <1>1, <1>2 DEF Follows
<1>5. /\ Less(a).left = a.left - 1 /\ Less(a).size = a.size
      /\ Less(a).src = a.src /\ Less(a).id = a.id
  BY DEF Less, Answers
<1>6. Follows(Less(a), fields, Append(s, b))
  <2>1. /\ Len(s) \in Nat /\ Len(Append(s, b)) = Len(s) + 1
        /\ Append(s, b)[Len(s) + 1] = b
    BY <1>3, AppendProperties, LenProperties
  <2>2. a.size - (a.left - 1) = a.size - a.left + 1
    BY <1>1
  <2>3. b = [src |-> Less(a).src, id |-> Less(a).id, k |-> Less(a).size - Less(a).left]
    BY <1>2, <1>5, <2>2
  <2>4. Len(s) + 1 \in 1..(Len(s) + 1) /\ ((Len(s) + 1) + 1)..(Len(s) + 1) = {}
    BY <2>1
  <2>5. Less(a).src \in fields
    BY <1>2, <1>4, <1>5
  <2> HIDE DEF b
  <2> QED BY <2>1, <2>3, <2>4, <2>5 DEF Follows
<1>7. ASSUME b.k > 1
      PROVE  \E j \in 1..Len(s) :
               /\ s[j] = [b EXCEPT !.k = @ - 1]
               /\ \A m \in (j + 1)..Len(s) : s[m].src \notin fields
  <2>1. a.left < a.size
    BY <1>1, <1>2, <1>7
  <2>2. [b EXCEPT !.k = @ - 1] = [src |-> a.src, id |-> a.id, k |-> a.size - a.left]
    <3>1. (a.size - a.left + 1) - 1 = a.size - a.left
      BY <1>1
    <3> QED BY <1>2, <3>1
  <2> QED BY <2>1, <2>2 DEF Follows
<1> QED BY <1>4, <1>6, <1>7

LEMMA ChainedNext ==
  ASSUME NEW s \in Seq(DataBytes), NEW b \in DataBytes, Chained(s),
         NEW f \in {AckFields, ReplyFields, DumpFields}, b.src \in f,
         b.k > 1 => \E j \in 1..Len(s) :
                      /\ s[j] = [b EXCEPT !.k = @ - 1]
                      /\ \A m \in (j + 1)..Len(s) : s[m].src \notin f
  PROVE  Chained(Append(s, b))
<1>1. /\ Len(s) \in Nat /\ Len(Append(s, b)) = Len(s) + 1
      /\ Append(s, b)[Len(s) + 1] = b
      /\ \A i \in 1..Len(s) : Append(s, b)[i] = s[i]
  BY AppendProperties, LenProperties
<1>2. PICK t : t = Append(s, b)
  OBVIOUS
<1>3. SUFFICES ASSUME NEW fields \in {AckFields, ReplyFields, DumpFields},
                      NEW i \in 1..Len(t), t[i].src \in fields, t[i].k > 1
               PROVE  \E j \in 1..(i - 1) :
                        /\ t[j] = [t[i] EXCEPT !.k = @ - 1]
                        /\ \A m \in (j + 1)..(i - 1) : t[m].src \notin fields
  BY <1>2 DEF Chained
<1>4. PICK j \in 1..(i - 1) :
        /\ s[j] = [t[i] EXCEPT !.k = @ - 1]
        /\ \A m \in (j + 1)..(i - 1) : s[m].src \notin fields
  <2>1. CASE i \in 1..Len(s)
    BY <1>1, <1>2, <1>3, <2>1 DEF Chained
  <2>2. CASE i = Len(s) + 1
    <3>1. t[i] = b
      BY <1>1, <1>2, <2>2
    <3>2. fields = f
      BY <1>3, <3>1 DEF AckFields, ReplyFields, DumpFields
    <3>3. i - 1 = Len(s)
      BY <1>1, <2>2
    <3> QED BY <1>3, <3>1, <3>2, <3>3
  <2>3. i \in 1..Len(s) \/ i = Len(s) + 1
    BY <1>1, <1>2
  <2> QED BY ONLY <2>1, <2>2, <2>3, Zenon
<1>5. j \in 1..Len(s) /\ \A m \in (j + 1)..(i - 1) : m \in 1..Len(s)
  BY <1>1, <1>2
<1>6. t[j] = s[j] /\ \A m \in (j + 1)..(i - 1) : t[m] = s[m]
  BY <1>1, <1>2, <1>5
<1> QED BY <1>4, <1>6

\* A trigger or an interrupt keeps the bytes of every answer together; what
\* it starts from are the answers as they were, or new ones.
LEMMA PumpFollows ==
  ASSUME NEW p \in Seq(DataBytes), NEW o \in Seq(DataBytes),
         NEW a \in Answers, NEW r \in Answers, NEW d \in Answers,
         a.left <= a.size, r.left <= r.size, d.left <= d.size,
         Pump(o, a, r, d),
         Chained(p \o o), Follows(a, AckFields, p \o o),
         Follows(r, ReplyFields, p \o o), Follows(d, DumpFields, p \o o)
  PROVE  /\ Chained(p \o out')
         /\ Follows(ack', AckFields, p \o out')
         /\ Follows(reply', ReplyFields, p \o out')
         /\ Follows(dump', DumpFields, p \o out')
<1> DEFINE s == p \o o
<1>1. s \in Seq(DataBytes)
  BY ConcatProperties
<1>2. a.left \in Nat /\ r.left \in Nat /\ d.left \in Nat
  BY DEF Answers
<1>3. ASSUME NEW b \in DataBytes
      PROVE  p \o Append(o, b) = Append(s, b)
  <2>1. Append(o, b) = o \o <<b>> /\ Append(s, b) = s \o <<b>>
    BY <1>1, AppendIsConcat
  <2>2. <<b>> \in Seq(DataBytes)
    OBVIOUS
  <2>3. (p \o o) \o <<b>> = p \o (o \o <<b>>)
    BY <2>2, ConcatAssociative
  <2> QED BY <2>1, <2>3
<1>4. /\ Chained(s) /\ Follows(a, AckFields, s)
      /\ Follows(r, ReplyFields, s) /\ Follows(d, DumpFields, s)
  OBVIOUS
<1> HIDE DEF s
<1>5. /\ AckFields \cap ReplyFields = {} /\ AckFields \cap DumpFields = {}
      /\ ReplyFields \cap DumpFields = {}
  BY DEF AckFields, ReplyFields, DumpFields
<1>6. CASE a.left > 0
  <2>1. /\ out' = Append(o, NextByte(a)) /\ ack' = Less(a)
        /\ reply' = r /\ dump' = d
    BY <1>2, <1>6 DEF Pump
  <2>2. NextByte(a) \in DataBytes
    BY <1>6, RestNext
  <2>3. /\ NextByte(a).src \in AckFields
        /\ Follows(Less(a), AckFields, Append(s, NextByte(a)))
        /\ Chained(Append(s, NextByte(a)))
    BY <1>1, <1>4, <1>6, <2>2, FollowsNext, ChainedNext
  <2>4. NextByte(a).src \notin ReplyFields /\ NextByte(a).src \notin DumpFields
    BY <1>5, <2>3
  <2>5. /\ Follows(r, ReplyFields, Append(s, NextByte(a)))
        /\ Follows(d, DumpFields, Append(s, NextByte(a)))
    BY <1>1, <1>4, <2>2, <2>4, FollowsOther
  <2> QED BY <1>3, <2>1, <2>2, <2>3, <2>5
<1>7. CASE a.left = 0 /\ r.left > 0
  <2>1. /\ out' = Append(o, NextByte(r)) /\ ack' = a
        /\ reply' = Less(r) /\ dump' = d
    BY <1>2, <1>7 DEF Pump
  <2>2. NextByte(r) \in DataBytes
    BY <1>7, RestNext
  <2>3. /\ NextByte(r).src \in ReplyFields
        /\ Follows(Less(r), ReplyFields, Append(s, NextByte(r)))
        /\ Chained(Append(s, NextByte(r)))
    BY <1>1, <1>4, <1>7, <2>2, FollowsNext, ChainedNext
  <2>4. NextByte(r).src \notin AckFields /\ NextByte(r).src \notin DumpFields
    BY <1>5, <2>3
  <2>5. /\ Follows(a, AckFields, Append(s, NextByte(r)))
        /\ Follows(d, DumpFields, Append(s, NextByte(r)))
    BY <1>1, <1>4, <2>2, <2>4, FollowsOther
  <2> QED BY <1>3, <2>1, <2>2, <2>3, <2>5
<1>8. CASE a.left = 0 /\ r.left = 0 /\ d.left > 0
  <2>1. /\ out' = Append(o, NextByte(d)) /\ ack' = a
        /\ reply' = r /\ dump' = Less(d)
    BY <1>2, <1>8 DEF Pump
  <2>2. NextByte(d) \in DataBytes
    BY <1>8, RestNext
  <2>3. /\ NextByte(d).src \in DumpFields
        /\ Follows(Less(d), DumpFields, Append(s, NextByte(d)))
        /\ Chained(Append(s, NextByte(d)))
    BY <1>1, <1>4, <1>8, <2>2, FollowsNext, ChainedNext
  <2>4. NextByte(d).src \notin AckFields /\ NextByte(d).src \notin ReplyFields
    BY <1>5, <2>3
  <2>5. /\ Follows(a, AckFields, Append(s, NextByte(d)))
        /\ Follows(r, ReplyFields, Append(s, NextByte(d)))
    BY <1>1, <1>4, <2>2, <2>4, FollowsOther
  <2> QED BY <1>3, <2>1, <2>2, <2>3, <2>5
<1>9. CASE a.left = 0 /\ r.left = 0 /\ d.left = 0
  BY <1>4, <1>9 DEF Pump, s
<1>10. \/ a.left > 0
       \/ a.left = 0 /\ r.left > 0
       \/ a.left = 0 /\ r.left = 0 /\ d.left > 0
       \/ a.left = 0 /\ r.left = 0 /\ d.left = 0
  BY <1>2
<1> QED BY ONLY <1>6, <1>7, <1>8, <1>9, <1>10, Zenon

\* A new answer has no byte behind it yet.
LEMMA FollowsNew ==
  ASSUME NEW s, NEW fields, NEW src \in fields \cap Sources, NEW id \in Nat, NEW n \in Nat
  PROVE  /\ Answer(src, id, n) \in Answers
         /\ Answer(src, id, n).left <= Answer(src, id, n).size
         /\ Follows(Answer(src, id, n), fields, s)
<1>1. /\ Answer(src, id, n).left = n /\ Answer(src, id, n).size = n
      /\ Answer(src, id, n).src = src
  BY DEF Answer
<1>2. n <= n /\ ~(n < n)
  OBVIOUS
<1>3. Answer(src, id, n) \in Answers
  BY AnswerDue
<1> QED BY <1>1, <1>2, <1>3 DEF Follows

LEMMA SequenceInit == Init => SequenceInv
<1> SUFFICES ASSUME Init PROVE SequenceInv
  OBVIOUS
<1>1. ack = Idle /\ reply = Idle /\ dump = Idle /\ received \o out = <<>>
  BY EmptySeq, ConcatEmptySeq DEF Init
<1>2. \A fields : Follows(Idle, fields, <<>>)
  BY DEF Follows, Idle
<1>3. Chained(<<>>)
  BY DEF Chained
<1> QED BY <1>1, <1>2, <1>3 DEF SequenceInv

LEMMA SequenceExecute ==
  ASSUME SpiInv, SequenceInv, NEW id \in Nat, NEW c \in Commands, Execute(id, c),
         UNCHANGED received
  PROVE  SequenceInv'
<1> DEFINE x == Len(executed) + 1
           a == IF c.kind = "packet" THEN ack ELSE Answer("ack", x, REPLY_SIZE)
           r == IF c.kind = "reply" THEN Answer("reply", x, 4) ELSE reply
           d == IF c.kind = "dump" THEN Answer("dump", x, c.n) ELSE dump
           s == received \o out
<1>1. Pump(out, a, r, d)
  BY DEF Execute
<1>2. /\ executed \in Seq(Executions)
      /\ out \in Seq(DataBytes) /\ received \in Seq(DataBytes)
      /\ ack \in Answers /\ reply \in Answers /\ dump \in Answers
      /\ ack.left <= ack.size /\ reply.left <= reply.size /\ dump.left <= dump.size
  BY DEF SpiInv, ExecutedInv, PumpInv
<1>3. x \in Nat /\ c.n \in Nat /\ REPLY_SIZE \in Nat /\ 4 \in Nat
  BY <1>2, LenProperties, SpiAssumption
<1>4. /\ "ack" \in AckFields \cap Sources /\ "reply" \in ReplyFields \cap Sources
      /\ "dump" \in DumpFields \cap Sources
  BY DEF AckFields, ReplyFields, DumpFields, Sources
<1>5. /\ Chained(s) /\ Follows(ack, AckFields, s)
      /\ Follows(reply, ReplyFields, s) /\ Follows(dump, DumpFields, s)
  BY DEF SequenceInv
<1> HIDE DEF x, s
<1>6. a \in Answers /\ a.left <= a.size /\ Follows(a, AckFields, s)
  BY <1>2, <1>3, <1>4, <1>5, FollowsNew
<1>7. r \in Answers /\ r.left <= r.size /\ Follows(r, ReplyFields, s)
  BY <1>2, <1>3, <1>4, <1>5, FollowsNew
<1>8. d \in Answers /\ d.left <= d.size /\ Follows(d, DumpFields, s)
  BY <1>2, <1>3, <1>4, <1>5, FollowsNew
<1> HIDE DEF a, r, d
<1> QED BY <1>1, <1>2, <1>5, <1>6, <1>7, <1>8, PumpFollows DEF s, SequenceInv

LEMMA SequenceStep ==
  ASSUME SpiInv, SequenceInv, [Next]_vars
  PROVE  SequenceInv'
<1>1. /\ out \in Seq(DataBytes) /\ received \in Seq(DataBytes)
      /\ ack \in Answers /\ reply \in Answers /\ dump \in Answers
      /\ ack.left <= ack.size /\ reply.left <= reply.size /\ dump.left <= dump.size
  BY DEF SpiInv, PumpInv
<1>2. /\ Chained(received \o out) /\ Follows(ack, AckFields, received \o out)
      /\ Follows(reply, ReplyFields, received \o out)
      /\ Follows(dump, DumpFields, received \o out)
  BY DEF SequenceInv
<1>3. CASE UNCHANGED <<pump, received>>
  BY <1>2, <1>3 DEF pump, SequenceInv
<1>4. CASE CtrlIrq
  <2>1. CASE Loads \/ Opens \/ Joins \/ Drops
    BY <1>3, <1>4, <2>1 DEF Loads, Opens, Joins, Drops, Same, CtrlIrq
  <2>2. CASE Collides
    <3>1. PICK c \in Commands : Execute(0, c)
      BY <2>2 DEF Collides
    <3> QED BY <1>4, <3>1, SequenceExecute DEF CtrlIrq
  <2>3. CASE Executes
    BY <1>4, <2>3, Arrives, SequenceExecute DEF Executes
  <2> QED BY <1>4, <2>1, <2>2, <2>3, CtrlCases
<1>5. CASE DataIrq
  <2>1. PICK p, o : p = received' /\ o = Tail(out)
    OBVIOUS
  <2>2. /\ o \in Seq(DataBytes) /\ p \in Seq(DataBytes) /\ p \o o = received \o out
        /\ Pump(o, ack, reply, dump)
    BY <1>5, <2>1, DataIrqEffect DEF DataIrq, PumpInv
  <2>3. /\ Chained(p \o out') /\ Follows(ack', AckFields, p \o out')
        /\ Follows(reply', ReplyFields, p \o out')
        /\ Follows(dump', DumpFields, p \o out')
    BY <1>1, <1>2, <2>2, PumpFollows
  <2> QED BY <2>1, <2>3 DEF SequenceInv
<1>6. CASE HbcToSpi
  <2> DEFINE a == Answer("announce", forwards + 1, REPLY_SIZE)
             d == Answer("packet", forwards + 1, 2)
  <2>1. Pump(out, a, reply, d) /\ UNCHANGED received
    BY <1>6 DEF HbcToSpi
  <2>2. forwards + 1 \in Nat /\ REPLY_SIZE \in Nat /\ 2 \in Nat
    BY SpiAssumption DEF SpiInv, HostInv
  <2>3. "announce" \in AckFields \cap Sources /\ "packet" \in DumpFields \cap Sources
    BY DEF AckFields, DumpFields, Sources
  <2>4. a \in Answers /\ a.left <= a.size /\ Follows(a, AckFields, received \o out)
    BY <2>2, <2>3, FollowsNew
  <2>5. d \in Answers /\ d.left <= d.size /\ Follows(d, DumpFields, received \o out)
    BY <2>2, <2>3, FollowsNew
  <2> HIDE DEF a, d
  <2> QED BY <1>1, <1>2, <2>1, <2>4, <2>5, PumpFollows DEF SequenceInv
<1>7. CASE \/ CheckBusy \/ LoseByte \/ UNCHANGED vars
           \/ \E c \in Commands : HostSend(c)
  BY <1>3, <1>7 DEF CheckBusy, LoseByte, HostSend, vars
<1> QED BY <1>4, <1>5, <1>6, <1>7 DEF Next

LEMMA SequenceInvariant == Spec => []SequenceInv
<1>1. SpiInv /\ SequenceInv /\ [Next]_vars => SequenceInv'
  BY SequenceStep
<1> QED BY SpiInvariant, SequenceInit, <1>1, PTL DEF Spec

-----------------------------------------------------------------------------
(* The theorems.                                                           *)

\* For every set of commands and sizes: the parser's missing bytes and the
\* bytes it holds always make up a packet, and no answer has more bytes left
\* than it had.
THEOREM SpiTyped == Spec => []TypeOK
<1>1. SpiInv => TypeOK
  <2> SUFFICES ASSUME SpiInv PROVE TypeOK
    OBVIOUS
  <2>1. /\ bytes_req \in 0..PACKET_SIZE /\ loading_mem \in 0..MaxLoad
        /\ bytes_req > 0 => Len(pkt) = PACKET_SIZE - bytes_req
    BY DEF SpiInv, ParserInv
  <2>2. {busy_checked, impatient} \subseteq BOOLEAN
    BY Zenon DEF SpiInv, HostInv
  <2>3. \A a \in {ack, reply, dump} : a.left \in 0..a.size
    BY DEF SpiInv, PumpInv, Answers
  <2> QED BY <2>1, <2>2, <2>3 DEF TypeOK
<1> QED BY SpiInvariant, <1>1, PTL

\* Whatever starts an acknowledgement, a reply or a dump while another is on
\* its way: a byte is on its way to the host as long as one is left to send,
\* so the interrupt that sends the next will come (hbc_data_irq,
\* hbc_spi_data_trigger).
THEOREM NeverStalls == Spec => []PumpNeverStalls
<1>1. SpiInv => PumpNeverStalls
  BY DEF SpiInv, PumpInv
<1> QED BY SpiInvariant, <1>1, PTL

\* Whatever is lost and whatever command a damaged packet is taken for:
\* attempts are executed in the order they were sent and at most once; and
\* while nothing is lost each is executed when the last byte of its packet
\* arrives, whatever the values of its bytes and of its data, and nothing
\* else is (ctrl_cmd, hbc_ctrl_irq).
THEOREM OrderlyExecution == Spec => []ExecutedInOrder
<1>1. SpiInv /\ LossInv => ExecutedInOrder
  <2> SUFFICES ASSUME SpiInv, LossInv PROVE ExecutedInOrder
    OBVIOUS
  <2>1. Increasing
    BY DEF SpiInv, ExecutedInv
  <2>2. ASSUME lost = {}
        PROVE  /\ \A i \in DOMAIN executed : executed[i].id = i
               /\ Len(executed) = IF tosend # <<>> /\ Head(tosend).pos <= PACKET_SIZE
                                  THEN Len(attempts) - 1 ELSE Len(attempts)
    <3>1. /\ \A i \in DOMAIN executed : executed[i].id = i
          /\ Len(executed) = IF Newest > 0 /\ Done <= PACKET_SIZE THEN Newest - 1 ELSE Newest
      BY <2>2 DEF LossInv, NoLossInv
    <3>2. CASE tosend = <<>>
      <4>1. Newest > 0 => ~(Done <= PACKET_SIZE)
        BY <3>2, Finished
      <4> QED BY <3>1, <3>2, <4>1 DEF Newest
    <3>3. CASE tosend # <<>>
      <4>1. /\ tosend \in Seq(Bytes) /\ Newest > 0
            /\ \A i \in DOMAIN tosend : tosend[i] = [id |-> Newest, pos |-> Done + (i - 1)]
            /\ Done \in Nat
        BY <3>3 DEF SpiInv, HostInv
      <4>2. 1 \in DOMAIN tosend /\ Head(tosend) = tosend[1] /\ Done + (1 - 1) = Done
        BY <3>3, <4>1, EmptySeq, LenProperties
      <4>3. Head(tosend).pos = Done
        BY <4>1, <4>2
      <4> QED BY <3>1, <3>3, <4>1, <4>3 DEF Newest
    <3> QED BY <3>1, <3>2, <3>3
  <2> QED BY <2>1, <2>2 DEF ExecutedInOrder, Increasing
<1> QED BY LossInvariant, <1>1, PTL

\* As long as nothing but the first byte of an attempt can be taken for a
\* header, every damaged packet, which the 8-bit CRC may let through, has a
\* lost byte of its own: for any number of lost bytes.
THEOREM LossesAreCharged == Spec => []LossesCharged
<1>1. LossInv => LossesCharged
  BY DEF LossInv, DamageInv, LossesCharged
<1> QED BY LossInvariant, <1>1, PTL

\* However far the parser was led astray, and whatever load a damaged packet
\* began: attempts that arrive whole and bring the bytes of one packet and of
\* the longest load between them get it back into step, and the next one is
\* executed.
THEOREM ParserFindsItsWay == Spec => []Resynchronises
<1>1. SpiInv /\ LossInv => Resynchronises
  <2> SUFFICES ASSUME SpiInv, LossInv, NEW id \in DOMAIN attempts, NEW j \in 1..id,
                      \A i \in j..id : Whole(i), \A i \in j..(id - 1) : Unmarked(i),
                      attempts[id].at - attempts[j].at >= PACKET_SIZE + MaxLoad,
                      id = Newest => tosend = <<>>
               PROVE  \E x \in ToSet(executed) : x.id = id
    BY DEF Resynchronises, Newest
  <2>1. /\ attempts \in Seq(Attempts) /\ Newest \in Nat /\ DOMAIN attempts = 1..Newest
        /\ PACKET_SIZE \in Nat \ {0} /\ MaxLoad \in Nat
    BY SpiAssumption, LenProperties DEF SpiInv, HostInv, Newest
  <2>2. attempts[j].at \in Nat /\ attempts[id].at \in Nat
    <3>1. j \in 1..Newest
      BY <2>1
    <3>2. attempts[j] \in Attempts /\ attempts[id] \in Attempts
      BY <2>1, <3>1, ElementOfSeq DEF Newest
    <3> QED BY <3>2 DEF Attempts
  <2>3. Fresh(j, id)
    BY DEF Fresh
  <2>4. SUFFICES \E i \in DOMAIN executed : executed[i].id = id
    BY DEF ToSet
  <2>5. CASE j = id
    BY <2>1, <2>2, <2>5
  <2>6. CASE j < id /\ id # Newest
    <3>1. id \in 1..(Newest - 1) /\ j \in 1..id
      BY <2>1, <2>6
    <3> QED BY <2>3, <3>1 DEF LossInv, RecoverInv, Span
  <2>7. CASE j < id /\ id = Newest
    <3>1. j \in 1..Newest /\ Newest > 0 /\ tosend = <<>>
      BY <2>1, <2>7
    <3>2. Back(j)
      BY <2>3, <2>7, <3>1 DEF LossInv, RecoverInv
    <3>3. ~(Span(j, Newest) < PACKET_SIZE + MaxLoad)
      BY <2>1, <2>2, <2>7 DEF Span
    <3> QED BY <2>7, <3>1, <3>2, <3>3, Finished DEF Back
  <2> QED BY <2>1, <2>5, <2>6, <2>7
<1> QED BY LossInvariant, <1>1, PTL

\* As long as the host waits for each answer, the main loop has forwarded
\* nothing, and no lost byte met one that could be taken for a header: the
\* host takes exactly the acknowledgements, replies and dumps of what was
\* executed, in order and byte by byte, though they share one pump and
\* preempt one another (reply_pkt, hbc_spi_dump, hbc_data_irq).
THEOREM OrderlyStream == Spec => []StreamInOrder
<1>1. SpiInv /\ StreamInv => StreamInOrder
  <2> SUFFICES ASSUME SpiInv, StreamInv, Waits
               PROVE  IsPrefix(received \o out, due)
    BY DEF StreamInOrder, Waits
  <2> DEFINE x == received \o out
             y == Rests
  <2>1. /\ received \in Seq(DataBytes) /\ out \in Seq(DataBytes)
        /\ due = received \o (out \o y)
        /\ ack \in Answers /\ reply \in Answers /\ dump \in Answers
    BY DEF SpiInv, PumpInv, StreamInv
  <2>2. y \in Seq(DataBytes)
    <3>1. Rest(ack) \in Seq(DataBytes) /\ Rest(reply) \in Seq(DataBytes)
          /\ Rest(dump) \in Seq(DataBytes)
      BY <2>1, RestTyped
    <3> QED BY <3>1, ConcatProperties DEF Rests
  <2> HIDE DEF y
  <2>3. due = x \o y /\ x \in Seq(DataBytes)
    BY ONLY <2>1, <2>2, ConcatAssociative, ConcatProperties, SMT
  <2> HIDE DEF x
  <2>4. /\ Len(x) \in Nat /\ Len(y) \in Nat /\ Len(due) = Len(x) + Len(y)
        /\ \A i \in 1..Len(x) : due[i] = x[i]
    BY <2>2, <2>3, ConcatProperties, LenProperties
  <2>5. SubSeq(x, 1, Len(x)) = SubSeq(due, 1, Len(x))
    BY <2>4
  <2>6. Len(x) <= Len(due)
    BY <2>4
  <2> QED BY <2>5, <2>6 DEF IsPrefix, x
<1> QED BY SpiInvariant, StreamInvariant, <1>1, PTL

\* With any host and any number of forwarded packets: whatever falls into an
\* answer or cuts it short, none of the bytes the host takes is skipped,
\* repeated or out of its order within the answer (hbc_data_irq's chain of
\* ack_bytes, reply_bytes and dump_bytes).
THEOREM AnswersKeepSequence == Spec => []AnswersInSequence
<1>1. SpiInv /\ SequenceInv => AnswersInSequence
  <2> SUFFICES ASSUME SpiInv, SequenceInv PROVE AnswersInSequence
    OBVIOUS
  <2>1. received \o out \in Seq(DataBytes)
    BY ConcatProperties DEF SpiInv, PumpInv
  <2>2. DOMAIN (received \o out) = 1..Len(received \o out)
    BY <2>1, LenProperties
  <2>3. Chained(received \o out)
    BY DEF SequenceInv
  <2> QED BY <2>2, <2>3 DEF Chained, AnswersInSequence, AckFields, ReplyFields, DumpFields
<1> QED BY SpiInvariant, SequenceInvariant, <1>1, PTL
=============================================================================
