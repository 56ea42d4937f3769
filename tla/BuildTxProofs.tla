--------------------------- MODULE BuildTxProofs ----------------------------
(***************************************************************************)
(* Theorems about BuildTx, for every code length, FIFO size and set of     *)
(* lengths and rates.  A trigger comes once for a frame, when the frame    *)
(* before has left and words of this one are there.  The delimiter and the *)
(* header begin where the receiver looks for them: the calls of a frame    *)
(* are followed from place to place (Leads), and the invariant PlacesInv   *)
(* says that the words sent, those in the FIFO and those still to be       *)
(* written follow one another.                                             *)
(***************************************************************************)
EXTENDS BuildTx, SequenceTheorems, TLAPS

Sizes == {8, 16, 32}
Parts == {"preamble", "sfd", "pad", "header", "payload"}

\* The calls that a frame makes before the last two, which end it.
Writes    == [op : {"write"}, arg : Parts]
BodyCalls == [op : {"size"}, arg : Sizes] \cup [op : {"sf"}, arg : 0..3] \cup Writes
FlushCall   == [op |-> "flush", arg |-> 0]
TriggerCall == [op |-> "trigger", arg |-> 0]
AllCalls  == BodyCalls \cup {FlushCall, TriggerCall}

\* Calls that end a frame: sizes, spreadings and writes, a flush, a trigger.
Ending(s) ==
  /\ s \in Seq(AllCalls) /\ s # <<>>
  /\ s[Len(s)] = TriggerCall
  /\ Len(s) > 1 => s[Len(s) - 1] = FlushCall
  /\ \A i \in 1..(Len(s) - 2) : s[i] \in BodyCalls

\* The frame's calls that are still to come.
TodoInv ==
  /\ pc \in {"idle", "wait", "build"}
  /\ IF pc = "idle" THEN todo = <<>> ELSE Ending(todo)

TypesInv ==
  /\ triggered \in {0, 1} /\ size \in Sizes \cup {0} /\ sf \in 0..3
  /\ Len(fifo) <= AlmostFull /\ fifo \in Seq([part : Parts, size : Nat, sf : Nat])
  /\ sending \in BOOLEAN /\ flushed \in BOOLEAN

\* Before its trigger a frame is only written; it has words, and the frame
\* before left before the first was written.
TriggerInv ==
  /\ pc = "build" /\ triggered = 0 => ~sending /\ air = <<>>
  /\ pc = "wait" \/ (pc = "build" /\ triggered = 0 /\ fifo = <<>>) =>
       \E i \in DOMAIN todo : todo[i] \in Writes
  /\ pc = "wait" => triggered = 0

\* A frame that was flushed stops with its last word.
FlushInv ==
  /\ flushed /\ sending => fifo # <<>>
  /\ pc \in {"idle", "wait"} /\ sending => flushed
  /\ pc = "build" /\ Len(todo) = 1 => flushed

BuildInv == TodoInv /\ TypesInv /\ TriggerInv /\ FlushInv

-----------------------------------------------------------------------------
(* The calls of a frame.                                                   *)

LEMMA CallsTyped ==
  /\ \A n \in Sizes : fifo_write_size(n) \in Seq(BodyCalls)
  /\ \A r \in 0..3 : Call("sf", r) \in Seq(BodyCalls)
  /\ \A p \in Parts : /\ fifo_write(p) = <<[op |-> "write", arg |-> p]>>
                      /\ fifo_write(p) \in Seq(BodyCalls)
<1>1. \A n \in Sizes : [op |-> "size", arg |-> n] \in BodyCalls
  BY DEF BodyCalls
<1>2. \A r \in 0..3 : [op |-> "sf", arg |-> r] \in BodyCalls
  BY DEF BodyCalls
<1>3. \A p \in Parts : [op |-> "write", arg |-> p] \in BodyCalls
  BY DEF BodyCalls, Writes
<1> QED BY <1>1, <1>2, <1>3 DEF fifo_write_size, fifo_write, Call

LEMMA TimesTyped ==
  ASSUME NEW n \in Nat, NEW p \in Parts
  PROVE  Times(n, fifo_write(p)) \in Seq(BodyCalls)
<1>1. [op |-> "write", arg |-> p] \in BodyCalls
  BY DEF BodyCalls, Writes
<1>2. fifo_write(p)[1] = [op |-> "write", arg |-> p]
  BY CallsTyped
<1> QED BY <1>1, <1>2 DEF Times

LEMMA SetRateTyped ==
  ASSUME NEW rate \in 0..3
  PROVE  fifo_set_rate(rate) \in Seq(BodyCalls)
<1>1. /\ Call("sf", rate) \in Seq(BodyCalls)
      /\ fifo_write_size(32) \in Seq(BodyCalls)
      /\ fifo_write_size(16) \in Seq(BodyCalls)
      /\ fifo_write_size(8) \in Seq(BodyCalls)
  BY CallsTyped DEF Sizes
<1>2. \E s \in Seq(BodyCalls) : fifo_set_rate(rate) = Call("sf", rate) \o s
  <2>1. CASE rate \in {0, 1}
    BY <1>1, <2>1 DEF fifo_set_rate
  <2>2. CASE rate = 2
    BY <1>1, <2>2 DEF fifo_set_rate
  <2>3. CASE rate = 3
    BY <1>1, <2>3 DEF fifo_set_rate
  <2> QED BY <2>1, <2>2, <2>3
<1> QED BY <1>1, <1>2, ConcatProperties

LEMMA BitmapTyped ==
  ASSUME NEW p \in Parts
  PROVE  put_bitmap_32(p) \in Seq(BodyCalls)
<1>1. fifo_set_rate(3) \in Seq(BodyCalls)
  BY SetRateTyped
<1>2. Times(CodeBits, fifo_write(p)) \in Seq(BodyCalls)
  BY TimesTyped, BuildTxAssumption
<1> QED BY <1>1, <1>2, ConcatProperties DEF put_bitmap_32

LEMMA PadTyped ==
  ASSUME NEW n \in Nat, NEW chips \in Sizes
  PROVE  Pad(n, chips) \in Seq(BodyCalls)
<1>1. fifo_write_size(chips) \in Seq(BodyCalls)
  BY CallsTyped
<1>2. Times(n, fifo_write("pad")) \in Seq(BodyCalls)
  BY TimesTyped DEF Parts
<1> QED BY <1>1, <1>2, ConcatProperties DEF Pad

LEMMA SfdTyped ==
  ASSUME NEW rate \in 0..3
  PROVE  build_tx_sfd(rate) \in Seq(BodyCalls)
<1>1. Codes \in Seq(BodyCalls)
  <2>1. put_bitmap_32("sfd") \in Seq(BodyCalls)
    BY BitmapTyped DEF Parts
  <2> QED BY <2>1, ConcatProperties DEF Codes
<1>2. /\ Pad(1, 16) \in Seq(BodyCalls) /\ Pad(1, 32) \in Seq(BodyCalls)
      /\ Pad(2, 32) \in Seq(BodyCalls) /\ Pad(3, 32) \in Seq(BodyCalls)
  BY PadTyped DEF Sizes
<1>3. \A s, t \in Seq(BodyCalls) : s \o t \in Seq(BodyCalls)
  BY ConcatProperties
<1>4. CASE rate = 0
  BY <1>1, <1>2, <1>3, <1>4 DEF build_tx_sfd
<1>5. CASE rate = 1
  BY <1>1, <1>2, <1>3, <1>5 DEF build_tx_sfd
<1>6. CASE rate = 2
  BY <1>1, <1>2, <1>3, <1>6 DEF build_tx_sfd
<1>7. CASE rate = 3
  BY <1>1, <1>2, <1>3, <1>7 DEF build_tx_sfd
<1> QED BY <1>4, <1>5, <1>6, <1>7

\* The header is the last word before the payload.
LEMMA HeaderTyped ==
  ASSUME NEW rate \in 0..3
  PROVE  \E s \in Seq(BodyCalls) :
           build_tx_plcp_header(rate) = s \o <<[op |-> "write", arg |-> "header"]>>
<1> DEFINE p == build_tx_preamble
           f == build_tx_sfd(rate)
           r == fifo_set_rate(rate)
           s == p \o p \o p \o p \o f \o r
<1>1. p \in Seq(BodyCalls)
  <2>1. put_bitmap_32("preamble") \in Seq(BodyCalls)
    BY BitmapTyped DEF Parts
  <2> QED BY <2>1, ConcatProperties DEF build_tx_preamble
<1>2. f \in Seq(BodyCalls) /\ r \in Seq(BodyCalls)
  BY SfdTyped, SetRateTyped
<1>3. fifo_write("header") = <<[op |-> "write", arg |-> "header"]>>
  BY CallsTyped DEF Parts
<1>4. build_tx_plcp_header(rate) = s \o fifo_write("header")
  BY DEF build_tx_plcp_header
<1> HIDE DEF p, f, r
<1>5. s \in Seq(BodyCalls)
  BY <1>1, <1>2, ConcatProperties
<1> HIDE DEF s
<1> QED BY <1>3, <1>4, <1>5

\* The calls of a frame are the writing of a header, more writes, a flush and a
\* trigger.
LEMMA FrameShape ==
  ASSUME NEW rate \in 0..3, NEW len \in 0..255
  PROVE  LET F == build_tx_plcp_header(rate) \o build_tx_payload(rate, len)
         IN  Ending(F) /\ \E i \in DOMAIN F : F[i] \in Writes
<1> DEFINE w == [op |-> "write", arg |-> "header"]
           F == build_tx_plcp_header(rate) \o build_tx_payload(rate, len)
           y == fifo_set_rate(rate) \o Times((len + 3) \div 4, fifo_write("payload"))
           tail == <<FlushCall, TriggerCall>>
<1>1. w \in Writes /\ w \in BodyCalls
  BY DEF Writes, BodyCalls, Parts
<1>2. PICK s \in Seq(BodyCalls) : build_tx_plcp_header(rate) = s \o <<w>>
  BY HeaderTyped
<1>3. y \in Seq(BodyCalls)
  <2>1. (len + 3) \div 4 \in Nat /\ "payload" \in Parts
    BY DEF Parts
  <2> QED BY <2>1, TimesTyped, SetRateTyped, ConcatProperties
<1>4. build_tx_payload(rate, len) = (y \o <<FlushCall>>) \o <<TriggerCall>>
  BY DEF build_tx_payload, Call, FlushCall, TriggerCall
<1> DEFINE x == s \o <<w>>
           n == Len(x) + Len(y)
<1> HIDE DEF w, y
<1>5. /\ x \in Seq(BodyCalls) /\ Len(x) = Len(s) + 1 /\ x[Len(s) + 1] = w
      /\ Len(s) \in Nat /\ Len(x) \in Nat /\ Len(y) \in Nat
  BY <1>1, <1>3
<1>6. BodyCalls \subseteq AllCalls /\ FlushCall \in AllCalls /\ TriggerCall \in AllCalls
  BY DEF AllCalls
<1>7. x \in Seq(AllCalls) /\ y \in Seq(AllCalls)
  BY <1>3, <1>5, <1>6, SeqMonotonic
<1>8. F = x \o ((y \o <<FlushCall>>) \o <<TriggerCall>>)
  BY <1>2, <1>4
<1> HIDE DEF x, F, FlushCall, TriggerCall
<1>9. /\ F \in Seq(AllCalls) /\ Len(F) = n + 2
      /\ F[n + 2] = TriggerCall /\ F[n + 1] = FlushCall
      /\ \A i \in 1..Len(x) : F[i] = x[i]
      /\ \A i \in 1..Len(y) : F[Len(x) + i] = y[i]
  <2> DEFINE u == y \o <<FlushCall>>
             v == u \o <<TriggerCall>>
  <2>1. <<FlushCall>> \in Seq(AllCalls) /\ <<TriggerCall>> \in Seq(AllCalls)
    BY <1>6
  <2>2. /\ u \in Seq(AllCalls) /\ Len(u) = Len(y) + 1
        /\ u[Len(y) + 1] = FlushCall /\ \A i \in 1..Len(y) : u[i] = y[i]
    BY <1>5, <1>7, <2>1
  <2> HIDE DEF u
  <2>3. /\ v \in Seq(AllCalls) /\ Len(v) = Len(y) + 2
        /\ v[Len(y) + 2] = TriggerCall /\ v[Len(y) + 1] = FlushCall
        /\ \A i \in 1..Len(y) : v[i] = y[i]
    BY <1>5, <2>1, <2>2
  <2>4. F = x \o v
    BY <1>8 DEF u
  <2> HIDE DEF v
  <2>5. /\ F \in Seq(AllCalls) /\ Len(F) = Len(x) + Len(v)
        /\ \A i \in 1..(Len(x) + Len(v)) :
             F[i] = IF i <= Len(x) THEN x[i] ELSE v[i - Len(x)]
    <3>1. x \in Seq(AllCalls) /\ v \in Seq(AllCalls)
      BY <1>7, <2>3
    <3> QED BY ONLY <2>4, <3>1, ConcatProperties, SMT
  <2>6. \A i \in 1..Len(v) : F[Len(x) + i] = v[i]
    <3> SUFFICES ASSUME NEW i \in 1..Len(v) PROVE F[Len(x) + i] = v[i]
      OBVIOUS
    <3>1. Len(v) \in Nat
      BY <1>5, <2>3
    <3>2. Len(x) + i \in 1..(Len(x) + Len(v)) /\ ~(Len(x) + i <= Len(x))
          /\ (Len(x) + i) - Len(x) = i
      BY <1>5, <3>1
    <3> QED BY <2>5, <3>2
  <2>7. /\ Len(y) + 1 \in 1..Len(v) /\ Len(y) + 2 \in 1..Len(v)
        /\ Len(x) + (Len(y) + 1) = n + 1 /\ Len(x) + (Len(y) + 2) = n + 2
        /\ Len(F) = n + 2 /\ \A i \in 1..Len(y) : i \in 1..Len(v)
    BY <1>5, <2>3, <2>5
  <2>8. F[n + 1] = FlushCall /\ F[n + 2] = TriggerCall
    BY <2>3, <2>6, <2>7
  <2>9. \A i \in 1..Len(y) : F[Len(x) + i] = y[i]
    BY <2>3, <2>6, <2>7
  <2>10. \A i \in 1..Len(x) : F[i] = x[i]
    BY <1>5, <2>3, <2>5
  <2> QED BY <2>5, <2>7, <2>8, <2>9, <2>10
<1>10. \A i \in 1..n : F[i] \in BodyCalls
  <2> SUFFICES ASSUME NEW i \in 1..n PROVE F[i] \in BodyCalls
    OBVIOUS
  <2>1. CASE i <= Len(x)
    BY <2>1, <1>5, <1>9
  <2>2. CASE i > Len(x)
    <3>1. i - Len(x) \in 1..Len(y) /\ i = Len(x) + (i - Len(x))
      BY <2>2, <1>5
    <3>2. F[Len(x) + (i - Len(x))] = y[i - Len(x)]
      BY <3>1, <1>9
    <3>3. y[i - Len(x)] \in BodyCalls
      BY <3>1, <1>3, ElementOfSeq
    <3> QED BY <3>1, <3>2, <3>3
  <2> QED BY <2>1, <2>2, <1>5
<1>11. Ending(F)
  <2>1. n \in Nat /\ (n + 2) - 1 = n + 1 /\ (n + 2) - 2 = n
    BY <1>5
  <2> HIDE DEF n
  <2>2. F # <<>>
    BY <1>9, <2>1
  <2> QED BY <1>9, <1>10, <2>1, <2>2 DEF Ending
<1>12. Len(s) + 1 \in DOMAIN F /\ F[Len(s) + 1] \in Writes
  BY <1>1, <1>5, <1>9
<1> QED BY <1>11, <1>12 DEF F

-----------------------------------------------------------------------------
(* The steps.                                                              *)

\* After a call there are calls left that end the frame, until its last.
LEMMA EndingTail ==
  ASSUME NEW s, Ending(s)
  PROVE  /\ Tail(s) # <<>> => Ending(Tail(s))
         /\ Head(s) \in AllCalls
         /\ Tail(s) = <<>> <=> Len(s) = 1
         /\ Tail(s) = <<>> => Head(s) = TriggerCall
         /\ Len(Tail(s)) = 1 => Head(s) = FlushCall
         /\ Head(s) = FlushCall => Len(s) = 2
         /\ Head(s) = TriggerCall => Len(s) = 1
         /\ \A i \in DOMAIN s : s[i] \in Writes /\ Head(s) \notin Writes =>
              \E j \in DOMAIN Tail(s) : Tail(s)[j] \in Writes
<1> DEFINE n == Len(s)
           t == Tail(s)
<1>1. /\ s \in Seq(AllCalls) /\ s # <<>>
      /\ s[n] = TriggerCall
      /\ n > 1 => s[n - 1] = FlushCall
      /\ \A i \in 1..(n - 2) : s[i] \in BodyCalls
  BY DEF Ending
<1>2. n \in Nat \ {0} /\ DOMAIN s = 1..n
  BY <1>1, EmptySeq, LenProperties
<1>3. /\ t \in Seq(AllCalls) /\ Len(t) = n - 1
      /\ \A i \in 1..(n - 1) : t[i] = s[i + 1]
  BY <1>1, HeadTailProperties
<1>4. Head(s) = s[1] /\ Head(s) \in AllCalls
  BY <1>1, HeadTailProperties
<1>5. DOMAIN t = 1..(n - 1)
  BY <1>3, LenProperties
<1>6. t = <<>> <=> n = 1
  BY <1>2, <1>3, EmptySeq
<1>7. /\ FlushCall # TriggerCall
      /\ FlushCall \notin BodyCalls /\ TriggerCall \notin BodyCalls
  BY DEF FlushCall, TriggerCall, BodyCalls, Writes
<1> HIDE DEF t, n
<1>8. t # <<>> => Ending(t)
  <2> SUFFICES ASSUME t # <<>> PROVE Ending(t)
    OBVIOUS
  <2>1. n > 1
    BY <1>2, <1>6
  <2>2. t[n - 1] = s[n]
    BY <1>2, <1>3, <2>1
  <2>3. n - 1 > 1 => t[n - 2] = s[n - 1]
    BY <1>2, <1>3
  <2>4. \A i \in 1..(n - 3) : t[i] \in BodyCalls
    BY <1>1, <1>2, <1>3
  <2>5. (n - 1) - 1 = n - 2 /\ (n - 1) - 2 = n - 3
    BY <1>2
  <2> QED BY <1>1, <1>3, <2>1, <2>2, <2>3, <2>4, <2>5 DEF Ending
<1>9. n = 1 => Head(s) = TriggerCall
  BY <1>1, <1>4
<1>10. n = 2 => Head(s) = FlushCall
  BY <1>1, <1>4
<1>11. n > 2 => Head(s) \in BodyCalls
  BY <1>1, <1>2, <1>4
<1>12. ASSUME NEW i \in DOMAIN s, s[i] \in Writes, Head(s) \notin Writes
       PROVE  \E j \in DOMAIN t : t[j] \in Writes
  <2>1. i # 1
    BY <1>4, <1>12
  <2>2. i - 1 \in 1..(n - 1) /\ (i - 1) + 1 = i
    BY <1>2, <2>1
  <2>3. t[i - 1] = s[i]
    BY <1>3, <2>2
  <2> QED BY <1>5, <1>12, <2>2, <2>3
<1>13. n = 1 \/ n = 2 \/ n > 2
  BY <1>2
<1>14. Len(t) = 1 => n = 2
  <2>1. PICK m : m = Len(t)
    OBVIOUS
  <2>2. m = n - 1 /\ n \in Nat
    BY <1>2, <1>3, <2>1
  <2>3. m = 1 => n = 2
    BY ONLY <2>2
  <2> QED BY ONLY <2>1, <2>3, Zenon
<1> QED BY <1>4, <1>6, <1>7, <1>8, <1>9, <1>10, <1>11, <1>12, <1>13, <1>14 DEF t, n

LEMMA InitBuildInv == Init => BuildInv
<1> SUFFICES ASSUME Init PROVE BuildInv
  OBVIOUS
<1> USE DEF Init
<1>1. TodoInv
  BY DEF TodoInv
<1>2. TypesInv
  <2>1. /\ triggered \in {0, 1} /\ size \in Sizes \cup {0} /\ sf \in 0..3
        /\ Len(fifo) <= AlmostFull /\ fifo \in Seq([part : Parts, size : Nat, sf : Nat])
    BY BuildTxAssumption
  <2>2. sending \in BOOLEAN /\ flushed \in BOOLEAN
    OBVIOUS
  <2> QED BY ONLY <2>1, <2>2, Zenon DEF TypesInv
<1>3. TriggerInv /\ FlushInv
  BY DEF TriggerInv, FlushInv
<1> QED BY <1>1, <1>2, <1>3 DEF BuildInv

LEMMA BeginStep ==
  ASSUME BuildInv, NEW rate \in Rates, NEW len \in Lens, Begin(rate, len)
  PROVE  BuildInv'
<1>1. TodoInv /\ TypesInv /\ TriggerInv /\ FlushInv
  BY DEF BuildInv
<1>2. /\ pc = "idle" /\ pc' = "wait" /\ triggered' = 0
      /\ todo' = build_tx_plcp_header(rate) \o build_tx_payload(rate, len)
      /\ UNCHANGED <<size, sf, fifo, sending, flushed, air>>
  BY DEF Begin
<1>3. rate \in 0..3 /\ len \in 0..255
  BY BuildTxAssumption
<1>4. Ending(todo') /\ \E i \in DOMAIN todo' : todo'[i] \in Writes
  BY <1>2, <1>3, FrameShape
<1>5. TodoInv' /\ TypesInv'
  BY <1>1, <1>2, <1>4 DEF TodoInv, TypesInv
<1>6. TriggerInv' /\ FlushInv'
  BY <1>1, <1>2, <1>4 DEF TriggerInv, FlushInv
<1> QED BY <1>5, <1>6 DEF BuildInv

LEMMA WaitStep == BuildInv /\ fifo_wait => BuildInv'
<1> SUFFICES ASSUME BuildInv, fifo_wait PROVE BuildInv'
  OBVIOUS
<1>1. TodoInv /\ TypesInv /\ TriggerInv /\ FlushInv
  BY DEF BuildInv
<1>2. /\ pc = "wait" /\ fifo = <<>> /\ pc' = "build" /\ flushed' = FALSE /\ air' = <<>>
      /\ UNCHANGED <<todo, triggered, size, sf, fifo, sending, frames>>
  BY DEF fifo_wait
<1>3. ~sending
  BY <1>1, <1>2 DEF FlushInv
<1>4. TodoInv' /\ TypesInv'
  BY <1>1, <1>2 DEF TodoInv, TypesInv
<1>5. TriggerInv'
  BY <1>1, <1>2, <1>3 DEF TriggerInv
<1>6. Len(todo) # 1
  <2>1. PICK i \in DOMAIN todo : todo[i] \in Writes
    BY <1>1, <1>2 DEF TriggerInv
  <2>2. Ending(todo)
    BY <1>1, <1>2 DEF TodoInv
  <2>3. DOMAIN todo = 1..Len(todo) /\ todo[Len(todo)] = TriggerCall
    BY <2>2, LenProperties DEF Ending
  <2>4. TriggerCall \notin Writes
    BY DEF TriggerCall, Writes
  <2> QED BY <2>1, <2>3, <2>4
<1>7. FlushInv'
  BY <1>2, <1>3, <1>6 DEF FlushInv
<1> QED BY <1>4, <1>5, <1>7 DEF BuildInv

\* What is left when a call returns: the last ends the frame.
LEMMA Returned ==
  ASSUME BuildInv, NEW op, Return(op)
  PROVE  /\ pc = "build" /\ Ending(todo) /\ Head(todo).op = op
         /\ Head(todo) \in AllCalls /\ todo' = Tail(todo) /\ TodoInv'
         /\ \/ pc' = "idle" /\ Head(todo) = TriggerCall
            \/ pc' = "build" /\ todo' # <<>>
         /\ Len(todo') = 1 => Head(todo) = FlushCall
         /\ Len(todo) = 1 => todo' = <<>>
         /\ UNCHANGED <<frames, air>>
<1>1. TodoInv
  BY DEF BuildInv
<1>2. /\ pc = "build" /\ todo # <<>> /\ Head(todo).op = op
      /\ todo' = Tail(todo) /\ pc' = IF Tail(todo) = <<>> THEN "idle" ELSE pc
      /\ UNCHANGED <<frames, air>>
  BY DEF Return
<1>3. Ending(todo)
  BY <1>1, <1>2 DEF TodoInv
<1>4. /\ Tail(todo) # <<>> => Ending(Tail(todo))
      /\ Head(todo) \in AllCalls
      /\ Tail(todo) = <<>> <=> Len(todo) = 1
      /\ Tail(todo) = <<>> => Head(todo) = TriggerCall
      /\ Len(Tail(todo)) = 1 => Head(todo) = FlushCall
  BY <1>3, EndingTail
<1>5. TodoInv'
  BY <1>2, <1>4 DEF TodoInv
<1>6. \/ pc' = "idle" /\ Head(todo) = TriggerCall
      \/ pc' = "build" /\ todo' # <<>>
  <2>1. CASE Tail(todo) = <<>>
    BY <1>2, <1>4, <2>1
  <2>2. CASE Tail(todo) # <<>>
    BY <1>2, <2>2
  <2> QED BY <2>1, <2>2
<1>7. (Len(todo') = 1 => Head(todo) = FlushCall) /\ (Len(todo) = 1 => todo' = <<>>)
  BY ONLY <1>2, <1>4, Zenon
<1> QED BY ONLY <1>2, <1>3, <1>4, <1>5, <1>6, <1>7, Zenon

\* A call that writes no word leaves the words that are still to come.
LEMMA WritesStay ==
  ASSUME BuildInv, NEW op, Return(op), op # "write",
         \E i \in DOMAIN todo : todo[i] \in Writes
  PROVE  \E i \in DOMAIN todo' : todo'[i] \in Writes
<1>1. /\ Ending(todo) /\ Head(todo).op = op /\ todo' = Tail(todo)
  BY Returned
<1>2. Head(todo) \notin Writes
  BY <1>1 DEF Writes
<1> QED BY <1>1, <1>2, EndingTail

LEMMA CallTypes ==
  ASSUME NEW c \in AllCalls
  PROVE  /\ c.op = "size" => c.arg \in Sizes
         /\ c.op = "sf" => c.arg \in 0..3
         /\ c.op = "write" => c \in Writes /\ c.arg \in Parts
         /\ c.op = "flush" <=> c = FlushCall
         /\ c.op = "trigger" <=> c = TriggerCall
BY DEF AllCalls, BodyCalls, Writes, FlushCall, TriggerCall

LEMMA SetStep ==
  ASSUME BuildInv, SetSize \/ SetSf
  PROVE  BuildInv'
<1>1. TodoInv /\ TypesInv /\ TriggerInv /\ FlushInv
  BY DEF BuildInv
<1>2. PICK op \in {"size", "sf"} : Return(op) /\ (op = "size" <=> SetSize)
  BY DEF SetSize, SetSf, Return
<1>3. UNCHANGED <<triggered, fifo, sending, flushed, air>>
  BY DEF SetSize, SetSf, Return
<1>4. /\ pc = "build" /\ Head(todo) \in AllCalls /\ Head(todo).op = op /\ TodoInv'
      /\ pc' = "build" /\ todo' # <<>> /\ Len(todo') # 1
  BY <1>2, Returned, CallTypes
<1>5. size' \in Sizes \cup {0} /\ sf' \in 0..3
  BY <1>1, <1>4, CallTypes DEF TypesInv, SetSize, SetSf, Return
<1>6. TypesInv'
  BY <1>1, <1>3, <1>5 DEF TypesInv
<1>7. (\E i \in DOMAIN todo : todo[i] \in Writes) =>
        \E i \in DOMAIN todo' : todo'[i] \in Writes
  BY <1>2, WritesStay
<1>8. TriggerInv'
  BY <1>1, <1>3, <1>4, <1>7 DEF TriggerInv
<1>9. FlushInv'
  BY <1>1, <1>3, <1>4 DEF FlushInv
<1> QED BY <1>4, <1>6, <1>8, <1>9 DEF BuildInv

LEMMA WriteStep == BuildInv /\ Write => BuildInv'
<1> SUFFICES ASSUME BuildInv, Write PROVE BuildInv'
  OBVIOUS
<1> DEFINE w == [part |-> Head(todo).arg, size |-> size, sf |-> sf]
<1>1. TodoInv /\ TypesInv /\ TriggerInv /\ FlushInv
  BY DEF BuildInv
<1>2. /\ Return("write") /\ ~Full /\ fifo' = Append(fifo, w)
      /\ UNCHANGED <<triggered, size, sf, sending, flushed>>
  BY DEF Write
<1>3. /\ pc = "build" /\ Head(todo) \in AllCalls /\ Head(todo).op = "write" /\ TodoInv'
      /\ pc' = "build" /\ todo' # <<>> /\ Len(todo') # 1 /\ UNCHANGED air
  BY <1>2, Returned, CallTypes
<1>4. w \in [part : Parts, size : Nat, sf : Nat]
  BY <1>1, <1>3, CallTypes DEF TypesInv, Sizes
<1> HIDE DEF w
<1>5. /\ fifo' \in Seq([part : Parts, size : Nat, sf : Nat]) /\ fifo' # <<>>
      /\ Len(fifo') = Len(fifo) + 1 /\ Len(fifo) \in Nat
  BY <1>1, <1>2, <1>4, AppendProperties, LenProperties DEF TypesInv
<1>6. Len(fifo') <= AlmostFull
  BY <1>2, <1>5, BuildTxAssumption DEF Full
<1>7. TypesInv'
  BY <1>1, <1>2, <1>5, <1>6 DEF TypesInv
<1>8. TriggerInv'
  BY <1>1, <1>2, <1>3, <1>5 DEF TriggerInv
<1>9. FlushInv'
  BY <1>1, <1>2, <1>3, <1>5 DEF FlushInv
<1> QED BY <1>3, <1>7, <1>8, <1>9 DEF BuildInv

\* A trigger finds the frame unsent, with words in the FIFO.
LEMMA TriggerFinds ==
  ASSUME BuildInv, Spin \/ Trigger, triggered = 0
  PROVE  ~sending /\ fifo # <<>> /\ air = <<>>
<1>1. TodoInv /\ TypesInv /\ TriggerInv
  BY DEF BuildInv
<1>2. pc = "build"
  BY DEF Spin, Trigger, Return
<1>3. ~sending /\ air = <<>>
  BY <1>1, <1>2 DEF TriggerInv
<1>4. CASE Spin
  <2>1. Len(fifo) >= AlmostFull /\ AlmostFull > 0
    BY <1>4, BuildTxAssumption DEF Spin, Full
  <2>2. fifo = <<>> => Len(fifo) = 0
    OBVIOUS
  <2> QED BY <1>3, <2>1, <2>2, BuildTxAssumption
<1>5. CASE Trigger
  <2>1. Return("trigger")
    BY <1>5 DEF Trigger
  <2>2. Ending(todo) /\ Head(todo) = TriggerCall
    BY <2>1, Returned, CallTypes
  <2>3. Len(todo) = 1
    BY <2>2, EndingTail
  <2>4. todo[1] = TriggerCall /\ DOMAIN todo = 1..1
    BY <2>2, <2>3, LenProperties DEF Ending
  <2>5. TriggerCall \notin Writes
    BY DEF TriggerCall, Writes
  <2>6. ~\E i \in DOMAIN todo : todo[i] \in Writes
    BY <2>4, <2>5
  <2> QED BY <1>1, <1>2, <1>3, <2>6 DEF TriggerInv
<1> QED BY <1>4, <1>5

LEMMA SpinStep == BuildInv /\ Spin => BuildInv'
<1> SUFFICES ASSUME BuildInv, Spin PROVE BuildInv'
  OBVIOUS
<1>1. TodoInv /\ TypesInv /\ TriggerInv /\ FlushInv
  BY DEF BuildInv
<1>2. /\ pc = "build" /\ triggered = 0 /\ triggered' = 1
      /\ UNCHANGED <<pc, todo, size, sf, fifo, flushed, frames, air>>
  BY DEF Spin, fifo_trigger
<1>3. fifo # <<>>
  BY <1>2, TriggerFinds
<1>4. sending' \in BOOLEAN
  BY DEF Spin, fifo_trigger
<1>5. TodoInv' /\ TypesInv'
  BY <1>1, <1>2, <1>4 DEF TodoInv, TypesInv
<1>6. TriggerInv' /\ FlushInv'
  BY <1>1, <1>2, <1>3 DEF TriggerInv, FlushInv
<1> QED BY <1>5, <1>6 DEF BuildInv

LEMMA FlushStep == BuildInv /\ Flush => BuildInv'
<1> SUFFICES ASSUME BuildInv, Flush PROVE BuildInv'
  OBVIOUS
<1>1. TodoInv /\ TypesInv /\ TriggerInv /\ FlushInv
  BY DEF BuildInv
<1>2. /\ Return("flush") /\ flushed' = TRUE /\ sending' = (sending /\ fifo # <<>>)
      /\ UNCHANGED <<triggered, size, sf, fifo>>
  BY DEF Flush
<1>3. /\ pc = "build" /\ TodoInv' /\ pc' = "build" /\ UNCHANGED air
  BY <1>2, Returned, CallTypes DEF FlushCall, TriggerCall
<1>4. (\E i \in DOMAIN todo : todo[i] \in Writes) =>
        \E i \in DOMAIN todo' : todo'[i] \in Writes
  BY <1>2, WritesStay
<1>5. sending' \in BOOLEAN /\ flushed' \in BOOLEAN
      /\ (sending' => sending /\ fifo # <<>>)
  BY <1>2, Zenon
<1>6. TypesInv'
  BY <1>1, <1>2, <1>5 DEF TypesInv
<1>7. TriggerInv'
  BY <1>1, <1>2, <1>3, <1>4, <1>5 DEF TriggerInv
<1>8. FlushInv'
  BY <1>2, <1>3, <1>5 DEF FlushInv
<1> QED BY <1>3, <1>6, <1>7, <1>8 DEF BuildInv

LEMMA TriggerStep == BuildInv /\ Trigger => BuildInv'
<1> SUFFICES ASSUME BuildInv, Trigger PROVE BuildInv'
  OBVIOUS
<1>1. TodoInv /\ TypesInv /\ TriggerInv /\ FlushInv
  BY DEF BuildInv
<1>2. /\ Return("trigger") /\ triggered' = 1
      /\ sending' = (sending \/ triggered = 0)
      /\ UNCHANGED <<size, sf, fifo, flushed>>
  BY DEF Trigger, fifo_trigger
<1>3. /\ pc = "build" /\ Ending(todo) /\ TodoInv' /\ Head(todo) = TriggerCall
  BY <1>2, Returned, CallTypes
<1>4. Len(todo) = 1
  BY <1>3, EndingTail
<1>5. flushed
  BY <1>1, <1>3, <1>4 DEF FlushInv
<1>6. todo' = <<>> /\ pc' = "idle"
  BY <1>2, <1>4, Returned
<1>7. fifo # <<>> \/ (triggered # 0 /\ ~sending)
  BY <1>1, <1>5, TriggerFinds DEF FlushInv
<1>8. sending' \in BOOLEAN /\ (sending' => fifo # <<>>)
  BY <1>2, <1>7, Zenon
<1>9. TypesInv'
  BY <1>1, <1>2, <1>8 DEF TypesInv
<1>10. TriggerInv' /\ FlushInv'
  BY <1>2, <1>5, <1>6, <1>8 DEF TriggerInv, FlushInv
<1> QED BY <1>3, <1>9, <1>10 DEF BuildInv

LEMMA TransmitStep == BuildInv /\ Transmit => BuildInv'
<1> SUFFICES ASSUME BuildInv, Transmit PROVE BuildInv'
  OBVIOUS
<1>1. TodoInv /\ TypesInv /\ TriggerInv /\ FlushInv
  BY DEF BuildInv
<1>2. /\ sending /\ fifo # <<>> /\ fifo' = Tail(fifo)
      /\ sending' = ~(flushed /\ Tail(fifo) = <<>>)
      /\ UNCHANGED <<pc, todo, triggered, size, sf, flushed, frames>>
  BY DEF Transmit
<1>3. /\ fifo' \in Seq([part : Parts, size : Nat, sf : Nat])
      /\ Len(fifo') = Len(fifo) - 1 /\ Len(fifo) \in Nat
  BY <1>1, <1>2, HeadTailProperties, LenProperties DEF TypesInv
<1>4. Len(fifo') <= AlmostFull
  BY <1>1, <1>3, BuildTxAssumption DEF TypesInv
<1>5. sending' \in BOOLEAN /\ (flushed /\ sending' => fifo' # <<>>)
  BY <1>2, Zenon
<1>6. TodoInv' /\ TypesInv'
  BY <1>1, <1>2, <1>3, <1>4, <1>5 DEF TodoInv, TypesInv
<1>7. ~(pc = "build" /\ triggered = 0)
  BY <1>1, <1>2 DEF TriggerInv
<1>8. TriggerInv' /\ FlushInv'
  BY <1>1, <1>2, <1>5, <1>7 DEF TriggerInv, FlushInv
<1> QED BY <1>6, <1>8 DEF BuildInv

LEMMA BuildStutter == BuildInv /\ UNCHANGED vars => BuildInv'
BY DEF BuildInv, TodoInv, TypesInv, TriggerInv, FlushInv, vars

-----------------------------------------------------------------------------
(* Where the words of a frame begin.                                       *)

\* What the next word will begin with: its chip, the registers, and the part of
\* the word before it.
Places == [chip : Nat, size : Sizes \cup {0}, sf : 0..3, part : Parts \cup {"none"}]
Place(c, n, f, p) == [chip |-> c, size |-> n, sf |-> f, part |-> p]

\* A word at a chip is where a frame of the rate has it.
WordOK(word, chip, before, rate) ==
  /\ word.part = "sfd" /\ before # "sfd" => chip = 64 * CodeBits + 16 * rate
  /\ word.part = "header" => chip = 80 * CodeBits + 96
  /\ word.part \in {"header", "payload"} => word.sf = rate

\* A call from place x to place y.
Moves(c, x, y, rate) ==
  \/ c.op = "size" /\ y = Place(x.chip, c.arg, x.sf, x.part)
  \/ c.op = "sf" /\ y = Place(x.chip, x.size, c.arg, x.part)
  \/ /\ c.op = "write" /\ y = Place(x.chip + x.size, x.size, x.sf, c.arg)
     /\ WordOK([part |-> c.arg, size |-> x.size, sf |-> x.sf], x.chip, x.part, rate)
  \/ c.op \in {"flush", "trigger"} /\ y = x

\* Calls s lead from x to y, over the places g.
Over(s, g, rate) ==
  /\ g \in [1..(Len(s) + 1) -> Places]
  /\ \A k \in 1..Len(s) : Moves(s[k], g[k], g[k + 1], rate)

Leads(s, x, y, rate) == \E g : Over(s, g, rate) /\ g[1] = x /\ g[Len(s) + 1] = y

LEMMA LeadsOn ==
  ASSUME NEW s \in Seq(AllCalls), NEW t \in Seq(AllCalls), NEW rate,
         NEW x, NEW y, NEW z, Leads(s, x, y, rate), Leads(t, y, z, rate)
  PROVE  Leads(s \o t, x, z, rate)
<1>1. PICK g : Over(s, g, rate) /\ g[1] = x /\ g[Len(s) + 1] = y
  BY DEF Leads
<1>2. PICK h : Over(t, h, rate) /\ h[1] = y /\ h[Len(t) + 1] = z
  BY DEF Leads
<1> DEFINE n == Len(s)
           m == Len(t)
           st == s \o t
           j == [k \in 1..(n + m + 1) |-> IF k <= n THEN g[k] ELSE h[k - n]]
<1>3. n \in Nat /\ m \in Nat
  BY LenProperties
<1>4. /\ Len(st) = n + m
      /\ \A k \in 1..(n + m) : st[k] = IF k <= n THEN s[k] ELSE t[k - n]
  BY ConcatProperties
<1> HIDE DEF n, m, st
<1>5. /\ g \in [1..(n + 1) -> Places] /\ \A k \in 1..n : Moves(s[k], g[k], g[k + 1], rate)
      /\ h \in [1..(m + 1) -> Places] /\ \A k \in 1..m : Moves(t[k], h[k], h[k + 1], rate)
  BY <1>1, <1>2 DEF Over, n, m
<1>6. j \in [1..(n + m + 1) -> Places]
  BY <1>3, <1>5
<1>7. ASSUME NEW k \in 1..(n + m) PROVE Moves(st[k], j[k], j[k + 1], rate)
  <2>1. CASE k < n
    <3>1. k \in 1..n /\ j[k] = g[k] /\ j[k + 1] = g[k + 1] /\ st[k] = s[k]
      BY <1>3, <1>4, <2>1
    <3> QED BY <1>5, <3>1
  <2>2. CASE k = n
    <3>1. k \in 1..n /\ j[k] = g[k] /\ j[k + 1] = h[1] /\ st[k] = s[k]
      BY <1>3, <1>4, <2>2
    <3>2. h[1] = g[k + 1]
      BY <1>1, <1>2, <2>2 DEF n
    <3> QED BY <1>5, <3>1, <3>2
  <2>3. CASE k > n
    <3>1. k - n \in 1..m /\ j[k] = h[k - n] /\ j[k + 1] = h[(k - n) + 1] /\ st[k] = t[k - n]
      BY <1>3, <1>4, <2>3
    <3> QED BY <1>5, <3>1
  <2> QED BY <1>3, <2>1, <2>2, <2>3
<1>8. j[1] = x
  <2>1. CASE n = 0
    BY <1>1, <1>2, <1>3, <2>1 DEF n
  <2>2. CASE n > 0
    BY <1>1, <1>3, <2>2
  <2> QED BY <1>3, <2>1, <2>2
<1>9. j[n + m + 1] = z
  <2>1. (n + m + 1) - n = m + 1 /\ ~(n + m + 1 <= n) /\ n + m + 1 \in 1..(n + m + 1)
    BY <1>3
  <2>2. h[m + 1] = z
    BY <1>2 DEF m
  <2> QED BY <2>1, <2>2
<1> HIDE DEF j
<1>10. Over(st, j, rate) /\ j[Len(st) + 1] = z
  BY <1>4, <1>6, <1>7, <1>9 DEF Over
<1> QED BY <1>8, <1>10 DEF Leads, st

\* One call.
LEMMA CallLeads ==
  ASSUME NEW c \in AllCalls, NEW rate, NEW x \in Places, NEW y \in Places, Moves(c, x, y, rate)
  PROVE  Leads(<<c>>, x, y, rate)
<1> DEFINE g == [k \in 1..2 |-> IF k = 1 THEN x ELSE y]
<1>1. Len(<<c>>) = 1 /\ <<c>>[1] = c
  OBVIOUS
<1>2. g \in [1..2 -> Places] /\ g[1] = x /\ g[2] = y
  OBVIOUS
<1> HIDE DEF g
<1>3. Over(<<c>>, g, rate)
  BY <1>1, <1>2 DEF Over
<1> QED BY <1>1, <1>2, <1>3 DEF Leads

\* n words of one part, each of them where it should be.
LEMMA TimesLead ==
  ASSUME NEW n \in Nat, NEW p \in Parts, NEW rate, NEW x \in Places, n > 0,
         \A k \in 1..n :
           WordOK([part |-> p, size |-> x.size, sf |-> x.sf], x.chip + (k - 1) * x.size,
                  IF k = 1 THEN x.part ELSE p, rate)
  PROVE  Leads(Times(n, fifo_write(p)), x,
               Place(x.chip + n * x.size, x.size, x.sf, p), rate)
<1> DEFINE s == Times(n, fifo_write(p))
           c == [op |-> "write", arg |-> p]
           g == [k \in 1..(n + 1) |->
                   Place(x.chip + (k - 1) * x.size, x.size, x.sf,
                         IF k = 1 THEN x.part ELSE p)]
<1>1. s \in Seq(BodyCalls) /\ Len(s) = n /\ \A k \in 1..n : s[k] = c
  BY TimesTyped, CallsTyped DEF Times
<1>2. /\ x.chip \in Nat /\ x.size \in Nat /\ x.size \in Sizes \cup {0} /\ x.sf \in 0..3
      /\ x.part \in Parts \cup {"none"}
      /\ x = Place(x.chip, x.size, x.sf, x.part)
  BY DEF Places, Place, Sizes
<1>3. g \in [1..(n + 1) -> Places]
  <2>1. \A k \in 1..(n + 1) : x.chip + (k - 1) * x.size \in Nat
    BY <1>2
  <2> QED BY <1>2, <2>1 DEF Places, Place
<1>4. ASSUME NEW k \in 1..n PROVE Moves(s[k], g[k], g[k + 1], rate)
  <2>1. /\ k \in 1..(n + 1) /\ k + 1 \in 1..(n + 1) /\ k + 1 # 1
        /\ (k + 1) - 1 = k
    OBVIOUS
  <2>2. x.chip + k * x.size = (x.chip + (k - 1) * x.size) + x.size
    BY <1>2
  <2>3. /\ g[k] = Place(x.chip + (k - 1) * x.size, x.size, x.sf, IF k = 1 THEN x.part ELSE p)
        /\ g[k + 1] = Place((x.chip + (k - 1) * x.size) + x.size, x.size, x.sf, p)
    BY <2>1, <2>2
  <2> HIDE DEF g
  <2>4. WordOK([part |-> p, size |-> x.size, sf |-> x.sf], x.chip + (k - 1) * x.size,
               IF k = 1 THEN x.part ELSE p, rate)
    OBVIOUS
  <2>5. s[k] = c /\ c.op = "write" /\ c.arg = p
    BY <1>1
  <2> HIDE DEF s, c
  <2>6. \A a, b : Place(a, x.size, x.sf, b).chip = a /\ Place(a, x.size, x.sf, b).size = x.size
                  /\ Place(a, x.size, x.sf, b).sf = x.sf /\ Place(a, x.size, x.sf, b).part = b
    BY DEF Place
  <2> QED BY <2>3, <2>4, <2>5, <2>6 DEF Moves
<1>5. g[1] = x /\ g[n + 1] = Place(x.chip + n * x.size, x.size, x.sf, p)
  <2>1. x.chip + (1 - 1) * x.size = x.chip /\ (n + 1) - 1 = n /\ n + 1 # 1
    BY <1>2
  <2> QED BY <1>2, <2>1
<1> HIDE DEF g, s
<1>6. Over(s, g, rate)
  BY <1>1, <1>3, <1>4 DEF Over
<1>7. Len(s) + 1 = n + 1
  BY <1>1
<1> QED BY <1>5, <1>6, <1>7 DEF Leads, s

LEMMA PlaceTyped ==
  ASSUME NEW c \in Nat, NEW n \in Sizes \cup {0}, NEW f \in 0..3,
         NEW p \in Parts \cup {"none"}
  PROVE  /\ Place(c, n, f, p) \in Places
         /\ Place(c, n, f, p).chip = c /\ Place(c, n, f, p).size = n
         /\ Place(c, n, f, p).sf = f /\ Place(c, n, f, p).part = p
BY DEF Places, Place

LEMMA BodyToAll == \A s \in Seq(BodyCalls) : s \in Seq(AllCalls)
<1>1. BodyCalls \subseteq AllCalls
  BY DEF AllCalls
<1> QED BY <1>1, SeqMonotonic

LEMMA SetSizeLeads ==
  ASSUME NEW n \in Sizes, NEW x \in Places, NEW rate
  PROVE  /\ fifo_write_size(n) \in Seq(AllCalls)
         /\ Place(x.chip, n, x.sf, x.part) \in Places
         /\ Leads(fifo_write_size(n), x, Place(x.chip, n, x.sf, x.part), rate)
<1> DEFINE c == [op |-> "size", arg |-> n]
<1>1. c \in AllCalls /\ c.op = "size" /\ c.arg = n
  BY DEF AllCalls, BodyCalls
<1>2. x.chip \in Nat /\ x.sf \in 0..3 /\ x.part \in Parts \cup {"none"}
  BY DEF Places
<1>3. Place(x.chip, n, x.sf, x.part) \in Places
  BY <1>2, PlaceTyped
<1>4. fifo_write_size(n) = <<c>>
  BY DEF fifo_write_size, Call
<1> HIDE DEF c
<1>5. Moves(c, x, Place(x.chip, n, x.sf, x.part), rate)
  BY <1>1 DEF Moves
<1> QED BY <1>1, <1>3, <1>4, <1>5, CallLeads

\* The size register for a rate.
RateSize(rate) == IF rate = 3 THEN 8 ELSE IF rate = 2 THEN 16 ELSE 32

LEMMA SetRateLeads ==
  ASSUME NEW r \in 0..3, NEW x \in Places, NEW rate
  PROVE  /\ fifo_set_rate(r) \in Seq(AllCalls)
         /\ Place(x.chip, RateSize(r), r, x.part) \in Places
         /\ Leads(fifo_set_rate(r), x, Place(x.chip, RateSize(r), r, x.part), rate)
<1> DEFINE c == [op |-> "sf", arg |-> r]
           y == Place(x.chip, x.size, r, x.part)
           z == Place(x.chip, RateSize(r), r, x.part)
           n == RateSize(r)
<1>1. c \in AllCalls /\ c.op = "sf" /\ c.arg = r
  BY DEF AllCalls, BodyCalls
<1>2. x.chip \in Nat /\ x.size \in Sizes \cup {0} /\ x.part \in Parts \cup {"none"}
  BY DEF Places
<1>3. /\ y \in Places /\ y.chip = x.chip /\ y.sf = r /\ y.part = x.part
  BY <1>2, PlaceTyped
<1>4. n \in Sizes
  BY DEF RateSize, Sizes
<1>5. fifo_set_rate(r) = <<c>> \o fifo_write_size(n)
  <2>1. Call("sf", r) = <<c>>
    BY DEF Call
  <2>2. CASE r \in {0, 1}
    BY <2>1, <2>2 DEF fifo_set_rate, RateSize
  <2>3. CASE r = 2
    BY <2>1, <2>3 DEF fifo_set_rate, RateSize
  <2>4. CASE r = 3
    BY <2>1, <2>4 DEF fifo_set_rate, RateSize
  <2> QED BY <2>2, <2>3, <2>4
<1> HIDE DEF c
<1>6. Leads(<<c>>, x, y, rate)
  <2>1. Moves(c, x, y, rate)
    BY <1>1 DEF Moves
  <2> QED BY <1>1, <1>3, <2>1, CallLeads
<1> HIDE DEF n
<1>7. /\ fifo_write_size(n) \in Seq(AllCalls)
      /\ Place(y.chip, n, y.sf, y.part) \in Places
      /\ Leads(fifo_write_size(n), y, Place(y.chip, n, y.sf, y.part), rate)
  BY <1>3, <1>4, SetSizeLeads
<1>8. Place(y.chip, n, y.sf, y.part) = z
  BY <1>3 DEF n
<1>9. <<c>> \in Seq(AllCalls)
  BY <1>1
<1> HIDE DEF y, z
<1>10. Leads(fifo_set_rate(r), x, z, rate) /\ fifo_set_rate(r) \in Seq(AllCalls)
  BY <1>5, <1>6, <1>7, <1>8, <1>9, LeadsOn, ConcatProperties
<1> QED BY <1>7, <1>8, <1>10 DEF z

\* A code of 32 bits, 8 chips each: a delimiter starts where the rate has it.
LEMMA BitmapLeads ==
  ASSUME NEW p \in {"preamble", "sfd"}, NEW rate \in 0..3, NEW x \in Places,
         p = "sfd" /\ x.part # "sfd" => x.chip = 64 * CodeBits + 16 * rate
  PROVE  /\ put_bitmap_32(p) \in Seq(AllCalls)
         /\ Place(x.chip + 8 * CodeBits, 8, 3, p) \in Places
         /\ Leads(put_bitmap_32(p), x, Place(x.chip + 8 * CodeBits, 8, 3, p), rate)
<1> DEFINE y == Place(x.chip, 8, 3, x.part)
           z == Place(x.chip + 8 * CodeBits, 8, 3, p)
           t == Times(CodeBits, fifo_write(p))
<1>1. CodeBits \in Nat /\ CodeBits > 0 /\ p \in Parts
  BY BuildTxAssumption DEF Parts
<1>2. x.chip \in Nat /\ x.part \in Parts \cup {"none"}
  BY DEF Places
<1>3. y \in Places /\ y.chip = x.chip /\ y.size = 8 /\ y.sf = 3 /\ y.part = x.part
  BY <1>2, PlaceTyped DEF Sizes
<1>4. z \in Places
  BY <1>1, <1>2, PlaceTyped DEF Sizes
<1>5. fifo_set_rate(3) \in Seq(AllCalls) /\ Leads(fifo_set_rate(3), x, y, rate)
  BY SetRateLeads DEF RateSize
<1> HIDE DEF y
<1>6. \A k \in 1..CodeBits :
        WordOK([part |-> p, size |-> y.size, sf |-> y.sf], y.chip + (k - 1) * y.size,
               IF k = 1 THEN y.part ELSE p, rate)
  <2> SUFFICES ASSUME NEW k \in 1..CodeBits
               PROVE  WordOK([part |-> p, size |-> 8, sf |-> 3], x.chip + (k - 1) * 8,
                             IF k = 1 THEN x.part ELSE p, rate)
    BY <1>3
  <2>1. k = 1 => x.chip + (k - 1) * 8 = x.chip
    BY <1>2
  <2> QED BY <2>1 DEF WordOK
<1>7. Leads(t, y, Place(y.chip + CodeBits * y.size, y.size, y.sf, p), rate)
  BY <1>1, <1>3, <1>6, TimesLead
<1>8. Place(y.chip + CodeBits * y.size, y.size, y.sf, p) = z
  <2>1. y.chip + CodeBits * y.size = x.chip + 8 * CodeBits
    BY <1>1, <1>2, <1>3
  <2> QED BY <1>3, <2>1
<1>9. t \in Seq(AllCalls)
  BY <1>1, TimesTyped, BodyToAll
<1>10. put_bitmap_32(p) = fifo_set_rate(3) \o t
  BY DEF put_bitmap_32
<1> HIDE DEF t, z
<1>11. Leads(put_bitmap_32(p), x, z, rate) /\ put_bitmap_32(p) \in Seq(AllCalls)
  BY <1>5, <1>7, <1>8, <1>9, <1>10, LeadsOn, ConcatProperties
<1> QED BY <1>4, <1>11 DEF z

LEMMA PadLeads ==
  ASSUME NEW n \in Nat, n > 0, NEW chips \in Sizes, NEW rate, NEW x \in Places
  PROVE  /\ Pad(n, chips) \in Seq(AllCalls)
         /\ Place(x.chip + n * chips, chips, x.sf, "pad") \in Places
         /\ Leads(Pad(n, chips), x, Place(x.chip + n * chips, chips, x.sf, "pad"), rate)
<1> DEFINE y == Place(x.chip, chips, x.sf, x.part)
           z == Place(x.chip + n * chips, chips, x.sf, "pad")
           t == Times(n, fifo_write("pad"))
<1>1. "pad" \in Parts /\ chips \in Nat /\ chips \in Sizes \cup {0}
  BY DEF Parts, Sizes
<1>2. x.chip \in Nat /\ x.sf \in 0..3 /\ x.part \in Parts \cup {"none"}
  BY DEF Places
<1>3. y \in Places /\ y.chip = x.chip /\ y.size = chips /\ y.sf = x.sf
  BY <1>1, <1>2, PlaceTyped
<1>4. z \in Places
  BY <1>1, <1>2, PlaceTyped
<1>5. fifo_write_size(chips) \in Seq(AllCalls) /\ Leads(fifo_write_size(chips), x, y, rate)
  BY SetSizeLeads
<1> HIDE DEF y
<1>6. \A k \in 1..n :
        WordOK([part |-> "pad", size |-> y.size, sf |-> y.sf], y.chip + (k - 1) * y.size,
               IF k = 1 THEN y.part ELSE "pad", rate)
  BY DEF WordOK
<1>7. Leads(t, y, Place(y.chip + n * y.size, y.size, y.sf, "pad"), rate)
  BY <1>1, <1>3, <1>6, TimesLead
<1>8. t \in Seq(AllCalls)
  BY <1>1, TimesTyped, BodyToAll
<1>9. Pad(n, chips) = fifo_write_size(chips) \o t
  BY DEF Pad
<1> HIDE DEF t
<1>10. Leads(Pad(n, chips), x, z, rate) /\ Pad(n, chips) \in Seq(AllCalls)
  BY <1>3, <1>5, <1>7, <1>8, <1>9, LeadsOn, ConcatProperties
<1> QED BY <1>4, <1>10

\* A preamble, and the delimiter's codes, are two codes each.
LEMMA TwoCodesLead ==
  ASSUME NEW p \in {"preamble", "sfd"}, NEW rate \in 0..3, NEW x \in Places,
         p = "sfd" => x.chip = 64 * CodeBits + 16 * rate
  PROVE  LET s == put_bitmap_32(p) \o put_bitmap_32(p)
             z == Place(x.chip + 16 * CodeBits, 8, 3, p)
         IN  s \in Seq(AllCalls) /\ z \in Places /\ Leads(s, x, z, rate)
<1> DEFINE b == put_bitmap_32(p)
           y == Place(x.chip + 8 * CodeBits, 8, 3, p)
           z == Place(x.chip + 16 * CodeBits, 8, 3, p)
<1>1. b \in Seq(AllCalls) /\ y \in Places /\ Leads(b, x, y, rate)
  BY BitmapLeads
<1>2. CodeBits \in Nat /\ x.chip \in Nat /\ p \in Parts
  BY BuildTxAssumption DEF Places, Parts
<1>3. y.chip = x.chip + 8 * CodeBits /\ y.part = p
  BY DEF Place
<1> HIDE DEF y, b
<1>4. /\ Place(y.chip + 8 * CodeBits, 8, 3, p) \in Places
      /\ Leads(b, y, Place(y.chip + 8 * CodeBits, 8, 3, p), rate)
  BY <1>1, <1>3, BitmapLeads DEF b
<1>5. y.chip + 8 * CodeBits = x.chip + 16 * CodeBits
  BY <1>2, <1>3
<1>6. z \in Places /\ Leads(b, y, z, rate)
  BY <1>4, <1>5
<1> HIDE DEF z
<1>7. b \o b \in Seq(AllCalls) /\ Leads(b \o b, x, z, rate)
  BY <1>1, <1>6, LeadsOn, ConcatProperties
<1> QED BY <1>6, <1>7 DEF b, z

\* Whatever the rate, the window of the delimiter is 96 chips longer than its
\* codes, and these start 16 chips later for each step of the rate.
LEMMA SfdLeads ==
  ASSUME NEW rate \in 0..3, NEW x \in Places, x.chip = 64 * CodeBits
  PROVE  /\ build_tx_sfd(rate) \in Seq(AllCalls)
         /\ \E z \in Places : /\ z.chip = 80 * CodeBits + 96 /\ z.part = "pad"
                              /\ Leads(build_tx_sfd(rate), x, z, rate)
<1>0. CodeBits \in Nat
  BY BuildTxAssumption
<1>1. ASSUME NEW n \in {1, 2, 3}, NEW chips \in {16, 32}, NEW y \in Places
      PROVE  /\ Pad(n, chips) \in Seq(AllCalls)
             /\ \E z \in Places : /\ z.chip = y.chip + n * chips /\ z.part = "pad"
                                  /\ Leads(Pad(n, chips), y, z, rate)
  <2> DEFINE z == Place(y.chip + n * chips, chips, y.sf, "pad")
  <2>1. n \in Nat /\ n > 0 /\ chips \in Sizes
    BY DEF Sizes
  <2>2. Pad(n, chips) \in Seq(AllCalls) /\ z \in Places /\ Leads(Pad(n, chips), y, z, rate)
    BY <2>1, PadLeads
  <2>3. z.chip = y.chip + n * chips /\ z.part = "pad"
    BY DEF Place
  <2> QED BY <2>2, <2>3
<1>2. ASSUME NEW y \in Places, y.chip = 64 * CodeBits + 16 * rate
      PROVE  /\ Codes \in Seq(AllCalls)
             /\ \E z \in Places : /\ z.chip = y.chip + 16 * CodeBits
                                  /\ Leads(Codes, y, z, rate)
  <2> DEFINE z == Place(y.chip + 16 * CodeBits, 8, 3, "sfd")
  <2>1. Codes \in Seq(AllCalls) /\ z \in Places /\ Leads(Codes, y, z, rate)
    BY <1>2, TwoCodesLead DEF Codes
  <2>2. z.chip = y.chip + 16 * CodeBits
    BY DEF Place
  <2> QED BY <2>1, <2>2
<1>3. CASE rate = 0
  <2>1. PICK y \in Places : y.chip = x.chip + 16 * CodeBits /\ Leads(Codes, x, y, rate)
    BY <1>0, <1>2, <1>3
  <2>2. PICK z \in Places : z.chip = y.chip + 3 * 32 /\ z.part = "pad"
                            /\ Leads(Pad(3, 32), y, z, rate)
    BY <1>1
  <2>3. Codes \in Seq(AllCalls) /\ Pad(3, 32) \in Seq(AllCalls)
    BY <1>0, <1>1, <1>2, <1>3
  <2>4. build_tx_sfd(rate) = Codes \o Pad(3, 32)
    BY <1>3 DEF build_tx_sfd
  <2>5. z.chip = 80 * CodeBits + 96
    BY <1>0, <2>1, <2>2
  <2>6. Leads(build_tx_sfd(rate), x, z, rate) /\ build_tx_sfd(rate) \in Seq(AllCalls)
    BY <2>1, <2>2, <2>3, <2>4, LeadsOn, ConcatProperties
  <2> QED BY <2>2, <2>5, <2>6
<1>4. CASE rate = 1
  <2>1. PICK w \in Places : w.chip = x.chip + 1 * 16 /\ Leads(Pad(1, 16), x, w, rate)
    BY <1>1
  <2>2. w.chip = 64 * CodeBits + 16 * rate
    BY <1>0, <1>4, <2>1
  <2>3. PICK y \in Places : y.chip = w.chip + 16 * CodeBits /\ Leads(Codes, w, y, rate)
    BY <1>2, <2>2
  <2>4. PICK v \in Places : v.chip = y.chip + 2 * 32 /\ Leads(Pad(2, 32), y, v, rate)
    BY <1>1
  <2>5. PICK z \in Places : z.chip = v.chip + 1 * 16 /\ z.part = "pad"
                            /\ Leads(Pad(1, 16), v, z, rate)
    BY <1>1
  <2>6. Codes \in Seq(AllCalls) /\ Pad(1, 16) \in Seq(AllCalls) /\ Pad(2, 32) \in Seq(AllCalls)
    BY <1>1, <1>2, <2>2
  <2>7. build_tx_sfd(rate) = ((Pad(1, 16) \o Codes) \o Pad(2, 32)) \o Pad(1, 16)
    BY <1>4 DEF build_tx_sfd
  <2>8. z.chip = 80 * CodeBits + 96
    BY <1>0, <1>4, <2>2, <2>3, <2>4, <2>5
  <2> DEFINE a == Pad(1, 16) \o Codes
             b == a \o Pad(2, 32)
  <2>9. a \in Seq(AllCalls) /\ Leads(a, x, y, rate)
    BY <2>1, <2>3, <2>6, LeadsOn, ConcatProperties
  <2>10. build_tx_sfd(rate) = b \o Pad(1, 16)
    BY <2>7
  <2> HIDE DEF a
  <2>11. b \in Seq(AllCalls) /\ Leads(b, x, v, rate)
    BY <2>4, <2>6, <2>9, LeadsOn, ConcatProperties
  <2> HIDE DEF b
  <2>12. Leads(build_tx_sfd(rate), x, z, rate) /\ build_tx_sfd(rate) \in Seq(AllCalls)
    BY <2>5, <2>6, <2>10, <2>11, LeadsOn, ConcatProperties
  <2> QED BY <2>5, <2>8, <2>12
<1>5. CASE rate = 2
  <2>1. PICK w \in Places : w.chip = x.chip + 1 * 32 /\ Leads(Pad(1, 32), x, w, rate)
    BY <1>1
  <2>2. w.chip = 64 * CodeBits + 16 * rate
    BY <1>0, <1>5, <2>1
  <2>3. PICK y \in Places : y.chip = w.chip + 16 * CodeBits /\ Leads(Codes, w, y, rate)
    BY <1>2, <2>2
  <2>4. PICK z \in Places : z.chip = y.chip + 2 * 32 /\ z.part = "pad"
                            /\ Leads(Pad(2, 32), y, z, rate)
    BY <1>1
  <2>5. Codes \in Seq(AllCalls) /\ Pad(1, 32) \in Seq(AllCalls) /\ Pad(2, 32) \in Seq(AllCalls)
    BY <1>1, <1>2, <2>2
  <2>6. build_tx_sfd(rate) = (Pad(1, 32) \o Codes) \o Pad(2, 32)
    BY <1>5 DEF build_tx_sfd
  <2>7. z.chip = 80 * CodeBits + 96
    BY <1>0, <1>5, <2>2, <2>3, <2>4
  <2> DEFINE a == Pad(1, 32) \o Codes
  <2>8. a \in Seq(AllCalls) /\ Leads(a, x, y, rate)
    BY <2>1, <2>3, <2>5, LeadsOn, ConcatProperties
  <2>9. build_tx_sfd(rate) = a \o Pad(2, 32)
    BY <2>6
  <2> HIDE DEF a
  <2>10. Leads(build_tx_sfd(rate), x, z, rate) /\ build_tx_sfd(rate) \in Seq(AllCalls)
    BY <2>4, <2>5, <2>8, <2>9, LeadsOn, ConcatProperties
  <2> QED BY <2>4, <2>7, <2>10
<1>6. CASE rate = 3
  <2>1. PICK u \in Places : u.chip = x.chip + 1 * 32 /\ Leads(Pad(1, 32), x, u, rate)
    BY <1>1
  <2>2. PICK w \in Places : w.chip = u.chip + 1 * 16 /\ Leads(Pad(1, 16), u, w, rate)
    BY <1>1
  <2>3. w.chip = 64 * CodeBits + 16 * rate
    BY <1>0, <1>6, <2>1, <2>2
  <2>4. PICK y \in Places : y.chip = w.chip + 16 * CodeBits /\ Leads(Codes, w, y, rate)
    BY <1>2, <2>3
  <2>5. PICK v \in Places : v.chip = y.chip + 1 * 32 /\ Leads(Pad(1, 32), y, v, rate)
    BY <1>1
  <2>6. PICK z \in Places : z.chip = v.chip + 1 * 16 /\ z.part = "pad"
                            /\ Leads(Pad(1, 16), v, z, rate)
    BY <1>1
  <2>7. Codes \in Seq(AllCalls) /\ Pad(1, 16) \in Seq(AllCalls) /\ Pad(1, 32) \in Seq(AllCalls)
    BY <1>1, <1>2, <2>3
  <2>8. build_tx_sfd(rate) =
          (((Pad(1, 32) \o Pad(1, 16)) \o Codes) \o Pad(1, 32)) \o Pad(1, 16)
    BY <1>6 DEF build_tx_sfd
  <2>9. z.chip = 80 * CodeBits + 96
    BY <1>0, <1>6, <2>3, <2>4, <2>5, <2>6
  <2> DEFINE a == Pad(1, 32) \o Pad(1, 16)
             b == a \o Codes
             c == b \o Pad(1, 32)
  <2>10. a \in Seq(AllCalls) /\ Leads(a, x, w, rate)
    BY <2>1, <2>2, <2>7, LeadsOn, ConcatProperties
  <2>11. build_tx_sfd(rate) = c \o Pad(1, 16)
    BY <2>8
  <2> HIDE DEF a
  <2>12. b \in Seq(AllCalls) /\ Leads(b, x, y, rate)
    BY <2>4, <2>7, <2>10, LeadsOn, ConcatProperties
  <2> HIDE DEF b
  <2>13. c \in Seq(AllCalls) /\ Leads(c, x, v, rate)
    BY <2>5, <2>7, <2>12, LeadsOn, ConcatProperties
  <2> HIDE DEF c
  <2>14. Leads(build_tx_sfd(rate), x, z, rate) /\ build_tx_sfd(rate) \in Seq(AllCalls)
    BY <2>6, <2>7, <2>11, <2>13, LeadsOn, ConcatProperties
  <2> QED BY <2>6, <2>9, <2>14
<1> QED BY <1>3, <1>4, <1>5, <1>6

\* The four preambles, the delimiter and the header of a frame that begins at
\* chip 0.
LEMMA HeaderLeads ==
  ASSUME NEW rate \in 0..3, NEW x \in Places, x.chip = 0
  PROVE  /\ build_tx_plcp_header(rate) \in Seq(AllCalls)
         /\ \E z \in Places : Leads(build_tx_plcp_header(rate), x, z, rate)
<1> DEFINE p == build_tx_preamble
           f == build_tx_sfd(rate)
           r == fifo_set_rate(rate)
           w == [op |-> "write", arg |-> "header"]
<1>0. CodeBits \in Nat
  BY BuildTxAssumption
<1>1. ASSUME NEW y \in Places
      PROVE  /\ p \in Seq(AllCalls)
             /\ \E z \in Places : z.chip = y.chip + 16 * CodeBits /\ Leads(p, y, z, rate)
  <2> DEFINE z == Place(y.chip + 16 * CodeBits, 8, 3, "preamble")
  <2>1. p \in Seq(AllCalls) /\ z \in Places /\ Leads(p, y, z, rate)
    BY TwoCodesLead DEF build_tx_preamble
  <2>2. z.chip = y.chip + 16 * CodeBits
    BY DEF Place
  <2> QED BY <2>1, <2>2
<1>2. p \in Seq(AllCalls)
  BY <1>1
<1>3. f \in Seq(AllCalls) /\ r \in Seq(AllCalls)
  BY SfdTyped, SetRateTyped, BodyToAll
<1>4. build_tx_plcp_header(rate) = p \o p \o p \o p \o f \o r \o <<w>>
  BY DEF build_tx_plcp_header, fifo_write, Call
<1>5. w \in AllCalls
  BY DEF AllCalls, BodyCalls, Writes, Parts
<1> HIDE DEF p, r
<1>6. PICK x1 \in Places : x1.chip = x.chip + 16 * CodeBits /\ Leads(p, x, x1, rate)
  BY <1>1
<1>7. PICK x2 \in Places : x2.chip = x1.chip + 16 * CodeBits /\ Leads(p, x1, x2, rate)
  BY <1>1
<1>8. PICK x3 \in Places : x3.chip = x2.chip + 16 * CodeBits /\ Leads(p, x2, x3, rate)
  BY <1>1
<1>9. PICK x4 \in Places : x4.chip = x3.chip + 16 * CodeBits /\ Leads(p, x3, x4, rate)
  BY <1>1
<1>10. x4.chip = 64 * CodeBits
  BY <1>0, <1>6, <1>7, <1>8, <1>9
<1>11. PICK x5 \in Places : x5.chip = 80 * CodeBits + 96 /\ Leads(f, x4, x5, rate)
  BY <1>10, SfdLeads
<1> HIDE DEF f
<1> DEFINE x6 == Place(x5.chip, RateSize(rate), rate, x5.part)
           x7 == Place(x6.chip + x6.size, x6.size, x6.sf, "header")
<1>12. /\ x6 \in Places /\ Leads(r, x5, x6, rate)
       /\ x6.chip = 80 * CodeBits + 96 /\ x6.sf = rate
  BY <1>11, SetRateLeads DEF Place, r
<1> HIDE DEF x6
<1>13. x7 \in Places
  <2>1. x6.chip + x6.size \in Nat
    BY <1>12 DEF Places, Sizes
  <2>2. x6.size \in Sizes \cup {0} /\ x6.sf \in 0..3 /\ "header" \in Parts
    BY <1>12 DEF Places, Parts
  <2> QED BY <2>1, <2>2, PlaceTyped
<1>14. Leads(<<w>>, x6, x7, rate)
  <2>1. Moves(w, x6, x7, rate)
    BY <1>12 DEF Moves, WordOK
  <2> QED BY <1>5, <1>12, <1>13, <2>1, CallLeads
<1> HIDE DEF x7, w
<1> DEFINE p2 == p \o p
           p3 == p2 \o p
           p4 == p3 \o p
           pf == p4 \o f
           pr == pf \o r
<1>15. p2 \in Seq(AllCalls) /\ Leads(p2, x, x2, rate)
  BY <1>2, <1>6, <1>7, LeadsOn, ConcatProperties
<1>16. build_tx_plcp_header(rate) = pr \o <<w>>
  BY <1>4
<1> HIDE DEF p2
<1>17. p3 \in Seq(AllCalls) /\ Leads(p3, x, x3, rate)
  BY <1>2, <1>8, <1>15, LeadsOn, ConcatProperties
<1> HIDE DEF p3
<1>18. p4 \in Seq(AllCalls) /\ Leads(p4, x, x4, rate)
  BY <1>2, <1>9, <1>17, LeadsOn, ConcatProperties
<1> HIDE DEF p4
<1>19. pf \in Seq(AllCalls) /\ Leads(pf, x, x5, rate)
  BY <1>3, <1>11, <1>18, LeadsOn, ConcatProperties
<1> HIDE DEF pf
<1>20. pr \in Seq(AllCalls) /\ Leads(pr, x, x6, rate)
  BY <1>3, <1>12, <1>19, LeadsOn, ConcatProperties
<1> HIDE DEF pr
<1>21. <<w>> \in Seq(AllCalls)
  BY <1>5
<1>22. /\ build_tx_plcp_header(rate) \in Seq(AllCalls)
       /\ Leads(build_tx_plcp_header(rate), x, x7, rate)
  BY <1>14, <1>16, <1>20, <1>21, LeadsOn, ConcatProperties
<1> QED BY <1>13, <1>22

LEMMA PayloadLeads ==
  ASSUME NEW rate \in 0..3, NEW len \in 0..255, NEW x \in Places
  PROVE  /\ build_tx_payload(rate, len) \in Seq(AllCalls)
         /\ \E z \in Places : Leads(build_tx_payload(rate, len), x, z, rate)
<1> DEFINE n == (len + 3) \div 4
           t == Times(n, fifo_write("payload"))
           r == fifo_set_rate(rate)
           y == Place(x.chip, RateSize(rate), rate, x.part)
<1>1. n \in Nat /\ "payload" \in Parts
  BY DEF Parts
<1>2. t \in Seq(AllCalls)
  BY <1>1, TimesTyped, BodyToAll
<1>3. r \in Seq(AllCalls) /\ y \in Places /\ Leads(r, x, y, rate)
  BY SetRateLeads
<1>4. y.sf = rate
  BY DEF Place
<1>5. build_tx_payload(rate, len) = ((r \o t) \o <<FlushCall>>) \o <<TriggerCall>>
  BY DEF build_tx_payload, Call, FlushCall, TriggerCall
<1>6. t = <<>> \/ n > 0
  BY <1>1 DEF Times
<1> HIDE DEF n, r, y
<1> DEFINE rt == r \o t
<1>7. \E z \in Places : Leads(rt, x, z, rate)
  <2>1. CASE t = <<>>
    <3>1. rt = r
      BY <1>3, <2>1, ConcatEmptySeq
    <3> QED BY <1>3, <3>1
  <2>2. CASE n > 0
    <3> DEFINE z == Place(y.chip + n * y.size, y.size, y.sf, "payload")
    <3>1. \A k \in 1..n :
            WordOK([part |-> "payload", size |-> y.size, sf |-> y.sf],
                   y.chip + (k - 1) * y.size, IF k = 1 THEN y.part ELSE "payload", rate)
      BY <1>4 DEF WordOK
    <3>2. Leads(t, y, z, rate)
      BY <1>1, <1>3, <2>2, <3>1, TimesLead
    <3>3. z \in Places
      <4>1. y.chip \in Nat /\ y.size \in Nat /\ y.size \in Sizes \cup {0} /\ y.sf \in 0..3
        BY <1>3 DEF Places, Sizes
      <4>2. y.chip + n * y.size \in Nat
        BY <1>1, <4>1
      <4> QED BY <1>1, <4>1, <4>2, PlaceTyped
    <3> HIDE DEF z, t
    <3> QED BY <1>2, <1>3, <3>2, <3>3, LeadsOn
  <2> QED BY <1>6, <2>1, <2>2
<1>8. rt \in Seq(AllCalls)
  BY <1>2, <1>3, ConcatProperties
<1> HIDE DEF rt, t
<1>9. PICK z \in Places : Leads(rt, x, z, rate)
  BY <1>7
<1>10. FlushCall \in AllCalls /\ TriggerCall \in AllCalls
  BY DEF AllCalls
<1>11. Leads(<<FlushCall>>, z, z, rate) /\ Leads(<<TriggerCall>>, z, z, rate)
  <2>1. Moves(FlushCall, z, z, rate) /\ Moves(TriggerCall, z, z, rate)
    BY DEF Moves, FlushCall, TriggerCall
  <2> QED BY <1>10, <2>1, CallLeads
<1> HIDE DEF FlushCall, TriggerCall
<1> DEFINE rf == rt \o <<FlushCall>>
<1>12. <<FlushCall>> \in Seq(AllCalls) /\ <<TriggerCall>> \in Seq(AllCalls)
  BY <1>10
<1>13. rf \in Seq(AllCalls) /\ Leads(rf, x, z, rate)
  BY <1>8, <1>9, <1>11, <1>12, LeadsOn, ConcatProperties
<1>14. build_tx_payload(rate, len) = rf \o <<TriggerCall>>
  BY <1>5 DEF rt
<1> HIDE DEF rf
<1>15. /\ build_tx_payload(rate, len) \in Seq(AllCalls)
       /\ Leads(build_tx_payload(rate, len), x, z, rate)
  BY <1>11, <1>12, <1>13, <1>14, LeadsOn, ConcatProperties
<1> QED BY <1>15

\* All calls of a frame, whatever the frame before has left in the registers.
LEMMA FrameLeads ==
  ASSUME NEW rate \in 0..3, NEW len \in 0..255, NEW x \in Places, x.chip = 0
  PROVE  \E z : Leads(build_tx_plcp_header(rate) \o build_tx_payload(rate, len), x, z, rate)
<1>1. PICK y \in Places : Leads(build_tx_plcp_header(rate), x, y, rate)
  BY HeaderLeads
<1>2. PICK z \in Places : Leads(build_tx_payload(rate, len), y, z, rate)
  BY PayloadLeads
<1>3. build_tx_plcp_header(rate) \in Seq(AllCalls) /\ build_tx_payload(rate, len) \in Seq(AllCalls)
  BY HeaderLeads, PayloadLeads
<1> QED BY <1>1, <1>2, <1>3, LeadsOn

-----------------------------------------------------------------------------
(* What is sent is where the frame has it.                                 *)

FifoWords == [part : Parts, size : Nat, sf : Nat]
Marks     == [chip : Nat, part : Parts \cup {"none"}]
Mark(c, p) == [chip |-> c, part |-> p]

\* The rate of the frame that is being sent or was sent last.
Rate == frames[Len(frames) - IF pc = "wait" THEN 1 ELSE 0].rate

\* The chip of the next word to be sent, and the part of the word before it.
Start == Mark(EndOfAir, IF air = <<>> THEN "none" ELSE air[Len(air)].word.part)

\* Words q follow one another over the marks h, each where it should be.
Follows(q, h, rate) ==
  /\ h \in [1..(Len(q) + 1) -> Marks]
  /\ \A k \in 1..Len(q) : /\ h[k + 1] = Mark(h[k].chip + q[k].size, q[k].part)
                          /\ WordOK(q[k], h[k].chip, h[k].part, rate)

AirOK(rate) ==
  \A i \in DOMAIN air :
    WordOK(air[i].word, air[i].at, IF i = 1 THEN "none" ELSE air[i - 1].word.part, rate)

\* The words sent, those in the FIFO and those still to be written make up a
\* frame: the calls to come lead on from the last word written.
GoesOn(h) ==
  /\ Follows(fifo, h, Rate) /\ h[1] = Start
  /\ pc = "build" =>
       LET m == h[Len(fifo) + 1]
       IN  \E z : Leads(todo, Place(m.chip, size, sf, m.part), z, Rate)

PlacesInv ==
  /\ frames \in Seq([rate : 0..3, len : 0..255])
  /\ frames = <<>> => pc = "idle" /\ fifo = <<>> /\ air = <<>>
  /\ air \in Seq([at : Nat, word : FifoWords]) /\ AirOK(Rate)
  /\ \E h : GoesOn(h)
  /\ pc = "wait" =>
       \E z : Leads(todo, Place(0, size, sf, "none"), z, frames[Len(frames)].rate)

LEMMA LeadsTail ==
  ASSUME NEW s \in Seq(AllCalls), s # <<>>, NEW rate, NEW x, NEW z, Leads(s, x, z, rate)
  PROVE  \E y \in Places : Moves(Head(s), x, y, rate) /\ Leads(Tail(s), y, z, rate)
<1> DEFINE n == Len(s)
           t == Tail(s)
<1>1. PICK g : Over(s, g, rate) /\ g[1] = x /\ g[n + 1] = z
  BY DEF Leads
<1>2. n \in Nat /\ n > 0
  BY LenProperties, EmptySeq
<1>3. /\ Head(s) = s[1] /\ Len(t) = n - 1 /\ \A k \in 1..(n - 1) : t[k] = s[k + 1]
  BY <1>2, HeadTailProperties
<1>4. g \in [1..(n + 1) -> Places] /\ \A k \in 1..n : Moves(s[k], g[k], g[k + 1], rate)
  BY <1>1 DEF Over
<1> HIDE DEF n, t
<1> DEFINE h == [k \in 1..n |-> g[k + 1]]
<1>5. h \in [1..n -> Places] /\ h[1] = g[2] /\ h[n] = z
  BY <1>1, <1>2, <1>4
<1>6. ASSUME NEW k \in 1..(n - 1) PROVE Moves(t[k], h[k], h[k + 1], rate)
  <2>1. k \in 1..n /\ k + 1 \in 1..n /\ t[k] = s[k + 1]
        /\ h[k] = g[k + 1] /\ h[k + 1] = g[(k + 1) + 1]
    BY <1>2, <1>3
  <2> QED BY <1>4, <2>1
<1> HIDE DEF h
<1>7. Over(t, h, rate) /\ h[Len(t) + 1] = z
  <2>1. (n - 1) + 1 = n
    BY <1>2
  <2> QED BY <1>3, <1>5, <1>6, <2>1 DEF Over
<1>8. Moves(Head(s), x, g[2], rate) /\ g[2] \in Places
  <2>1. 1 \in 1..n /\ 1 + 1 = 2 /\ 2 \in 1..(n + 1)
    BY <1>2
  <2> QED BY <1>1, <1>3, <1>4, <2>1
<1> QED BY <1>5, <1>7, <1>8 DEF Leads, t

LEMMA PlacesInit == Init => PlacesInv
<1> SUFFICES ASSUME Init PROVE PlacesInv
  OBVIOUS
<1> DEFINE h == [k \in 1..1 |-> Mark(0, "none")]
<1>1. /\ frames = <<>> /\ pc = "idle" /\ fifo = <<>> /\ air = <<>>
  BY DEF Init
<1>2. Start = Mark(0, "none") /\ Mark(0, "none") \in Marks
  BY <1>1 DEF Start, EndOfAir, Mark, Marks
<1>3. Follows(fifo, h, Rate) /\ h[1] = Start
  BY <1>1, <1>2 DEF Follows
<1>4. GoesOn(h)
  BY <1>1, <1>3 DEF GoesOn
<1>5. AirOK(Rate)
  BY <1>1 DEF AirOK
<1> QED BY <1>1, <1>4, <1>5 DEF PlacesInv

LEMMA PlacesBegin ==
  ASSUME BuildInv, PlacesInv, NEW rate \in Rates, NEW len \in Lens, Begin(rate, len)
  PROVE  PlacesInv'
<1> DEFINE f == [rate |-> rate, len |-> len]
<1>1. /\ pc = "idle" /\ pc' = "wait"
      /\ todo' = build_tx_plcp_header(rate) \o build_tx_payload(rate, len)
      /\ frames' = Append(frames, f)
      /\ UNCHANGED <<size, sf, fifo, sending, flushed, air>>
  BY DEF Begin
<1>2. rate \in 0..3 /\ len \in 0..255 /\ f \in [rate : 0..3, len : 0..255] /\ f.rate = rate
  BY BuildTxAssumption
<1> HIDE DEF f
<1>3. /\ frames \in Seq([rate : 0..3, len : 0..255])
      /\ frames = <<>> => fifo = <<>> /\ air = <<>>
      /\ air \in Seq([at : Nat, word : FifoWords]) /\ AirOK(Rate)
  BY DEF PlacesInv
<1>4. /\ frames' \in Seq([rate : 0..3, len : 0..255]) /\ frames' # <<>>
      /\ Len(frames') = Len(frames) + 1 /\ frames'[Len(frames')] = f
      /\ \A i \in 1..Len(frames) : frames'[i] = frames[i]
      /\ Len(frames) \in Nat
  BY <1>1, <1>2, <1>3, AppendProperties, LenProperties
<1>5. Rate' = frames'[Len(frames)].rate /\ Rate = frames[Len(frames)].rate
  BY <1>1, <1>4 DEF Rate
<1>6. frames # <<>> => Rate' = Rate
  <2>1. frames # <<>> => Len(frames) \in 1..Len(frames)
    BY <1>3, <1>4, EmptySeq
  <2> QED BY <1>4, <1>5, <2>1
<1>7. AirOK(Rate)'
  BY <1>1, <1>3, <1>6 DEF AirOK
<1>8. PICK h : GoesOn(h)
  BY DEF PlacesInv
<1>9. Start' = Start
  BY <1>1 DEF Start, EndOfAir
<1>10. Follows(fifo', h, Rate')
  <2>1. CASE frames = <<>>
    <3>1. fifo = <<>> /\ fifo' = <<>>
      BY <1>1, <1>3, <2>1
    <3> QED BY <1>8, <3>1 DEF GoesOn, Follows
  <2>2. CASE frames # <<>>
    BY <1>1, <1>6, <1>8, <2>2 DEF GoesOn
  <2> QED BY <2>1, <2>2
<1>11. \E k : GoesOn(k)'
  BY <1>1, <1>8, <1>9, <1>10 DEF GoesOn
<1>12. \E z : Leads(todo', Place(0, size', sf', "none"), z, frames'[Len(frames')].rate)
  <2>1. Place(0, size, sf, "none") \in Places /\ Place(0, size, sf, "none").chip = 0
    <3>1. size \in Sizes \cup {0} /\ sf \in 0..3
      BY DEF BuildInv, TypesInv
    <3> QED BY <3>1, PlaceTyped
  <2> QED BY <1>1, <1>2, <1>4, <2>1, FrameLeads
<1> QED BY <1>1, <1>3, <1>4, <1>7, <1>11, <1>12 DEF PlacesInv

LEMMA PlacesWait ==
  ASSUME PlacesInv, fifo_wait
  PROVE  PlacesInv'
<1> DEFINE h == [k \in 1..1 |-> Mark(0, "none")]
<1>1. /\ pc = "wait" /\ fifo = <<>> /\ pc' = "build" /\ air' = <<>>
      /\ UNCHANGED <<todo, size, sf, fifo, frames>>
  BY DEF fifo_wait
<1>2. /\ frames \in Seq([rate : 0..3, len : 0..255]) /\ frames # <<>>
  BY <1>1 DEF PlacesInv
<1>3. PICK z : Leads(todo, Place(0, size, sf, "none"), z, frames[Len(frames)].rate)
  BY <1>1 DEF PlacesInv
<1>4. Rate' = frames[Len(frames)].rate
  <2>1. Len(frames) - 0 = Len(frames)
    BY <1>2, LenProperties
  <2> QED BY <1>1, <2>1 DEF Rate
<1>5. Start' = Mark(0, "none") /\ Mark(0, "none") \in Marks
      /\ Mark(0, "none").chip = 0 /\ Mark(0, "none").part = "none"
  BY <1>1 DEF Start, EndOfAir, Mark, Marks
<1>6. Follows(fifo', h, Rate') /\ h[1] = Start' /\ h[Len(fifo') + 1] = Mark(0, "none")
  BY <1>1, <1>5 DEF Follows
<1> HIDE DEF h
<1>7. GoesOn(h)'
  BY <1>1, <1>3, <1>4, <1>5, <1>6 DEF GoesOn
<1>8. AirOK(Rate)'
  BY <1>1 DEF AirOK
<1> QED BY <1>1, <1>2, <1>7, <1>8 DEF PlacesInv

\* What the next call leads to, when a call is to come.
LEMMA NextPlace ==
  ASSUME BuildInv, PlacesInv, NEW op, Return(op)
  PROVE  /\ frames # <<>> /\ Rate' = Rate /\ Start' = Start /\ pc' # "wait"
         /\ AirOK(Rate)' /\ fifo \in Seq(FifoWords)
         /\ \E h, z : \E y \in Places :
              LET m == h[Len(fifo) + 1]
              IN  /\ Follows(fifo, h, Rate) /\ h[1] = Start
                  /\ Moves(Head(todo), Place(m.chip, size, sf, m.part), y, Rate)
                  /\ Leads(todo', y, z, Rate)
<1>1. /\ pc = "build" /\ Ending(todo) /\ todo' = Tail(todo) /\ UNCHANGED <<frames, air>>
      /\ pc' \in {"idle", "build"}
  BY Returned
<1>2. /\ frames # <<>> /\ AirOK(Rate)
  BY <1>1 DEF PlacesInv
<1>3. Rate' = Rate
  BY <1>1 DEF Rate
<1>4. Start' = Start
  BY <1>1 DEF Start, EndOfAir
<1>5. AirOK(Rate)'
  BY <1>1, <1>2, <1>3 DEF AirOK
<1>6. PICK h : GoesOn(h)
  BY DEF PlacesInv
<1> DEFINE m == h[Len(fifo) + 1]
           x == Place(m.chip, size, sf, m.part)
<1>7. PICK z : Leads(todo, x, z, Rate)
  BY <1>1, <1>6 DEF GoesOn
<1> HIDE DEF x
<1>8. todo \in Seq(AllCalls) /\ todo # <<>>
  BY <1>1 DEF Ending
<1>9. PICK y \in Places : Moves(Head(todo), x, y, Rate) /\ Leads(Tail(todo), y, z, Rate)
  BY <1>7, <1>8, LeadsTail
<1>10. Follows(fifo, h, Rate) /\ h[1] = Start
  BY <1>6 DEF GoesOn
<1>11. fifo \in Seq(FifoWords)
  BY DEF BuildInv, TypesInv, FifoWords
<1> QED BY <1>1, <1>2, <1>3, <1>4, <1>5, <1>9, <1>10, <1>11 DEF x

\* A call that writes no word leaves the next word's chip.
LEMMA PlacesReturn ==
  ASSUME BuildInv, PlacesInv, SetSize \/ SetSf \/ Flush \/ Trigger
  PROVE  PlacesInv'
<1>1. PICK op \in {"size", "sf", "flush", "trigger"} :
        /\ Return(op) /\ fifo' = fifo
        /\ op = "size" => size' = Head(todo).arg /\ sf' = sf
        /\ op = "sf" => sf' = Head(todo).arg /\ size' = size
        /\ op \in {"flush", "trigger"} => size' = size /\ sf' = sf
  BY DEF SetSize, SetSf, Flush, Trigger
<1>2. /\ frames # <<>> /\ Rate' = Rate /\ Start' = Start /\ pc' # "wait" /\ AirOK(Rate)'
  BY <1>1, NextPlace
<1>3. PICK h, z : \E y \in Places :
              LET m == h[Len(fifo) + 1]
              IN  /\ Follows(fifo, h, Rate) /\ h[1] = Start
                  /\ Moves(Head(todo), Place(m.chip, size, sf, m.part), y, Rate)
                  /\ Leads(todo', y, z, Rate)
  BY <1>1, NextPlace
<1> DEFINE m == h[Len(fifo) + 1]
           x == Place(m.chip, size, sf, m.part)
<1>4. PICK y \in Places : /\ Moves(Head(todo), x, y, Rate) /\ Leads(todo', y, z, Rate)
                          /\ Follows(fifo, h, Rate) /\ h[1] = Start
  BY <1>3
<1>5. Head(todo).op = op
  BY <1>1 DEF Return
<1>6. y = Place(m.chip, size', sf', m.part)
  <2>1. x.chip = m.chip /\ x.size = size /\ x.sf = sf /\ x.part = m.part
    BY DEF Place
  <2>2. op \in {"flush", "trigger"} => y = x
    BY <1>4, <1>5 DEF Moves
  <2>3. op = "size" => y = Place(x.chip, Head(todo).arg, x.sf, x.part)
    BY <1>4, <1>5 DEF Moves
  <2>4. op = "sf" => y = Place(x.chip, x.size, Head(todo).arg, x.part)
    BY <1>4, <1>5 DEF Moves
  <2> QED BY <1>1, <2>1, <2>2, <2>3, <2>4
<1>7. GoesOn(h)'
  BY <1>1, <1>2, <1>4, <1>6 DEF GoesOn
<1>8. /\ frames' = frames /\ air' = air
      /\ frames \in Seq([rate : 0..3, len : 0..255])
      /\ air \in Seq([at : Nat, word : FifoWords])
  BY <1>1 DEF Return, PlacesInv
<1> QED BY <1>2, <1>7, <1>8 DEF PlacesInv

\* A word that is written begins at the next word's chip.
LEMMA PlacesWrite ==
  ASSUME BuildInv, PlacesInv, Write
  PROVE  PlacesInv'
<1> DEFINE w == [part |-> Head(todo).arg, size |-> size, sf |-> sf]
           n == Len(fifo)
<1>1. Return("write") /\ fifo' = Append(fifo, w) /\ UNCHANGED <<size, sf>>
  BY DEF Write
<1>2. /\ frames # <<>> /\ Rate' = Rate /\ Start' = Start /\ pc' # "wait" /\ AirOK(Rate)'
      /\ fifo \in Seq(FifoWords)
  BY <1>1, NextPlace
<1>3. PICK h, z : \E y \in Places :
              LET m == h[Len(fifo) + 1]
              IN  /\ Follows(fifo, h, Rate) /\ h[1] = Start
                  /\ Moves(Head(todo), Place(m.chip, size, sf, m.part), y, Rate)
                  /\ Leads(todo', y, z, Rate)
  BY <1>1, NextPlace
<1> DEFINE m == h[n + 1]
           x == Place(m.chip, size, sf, m.part)
<1>4. PICK y \in Places : /\ Moves(Head(todo), x, y, Rate) /\ Leads(todo', y, z, Rate)
                          /\ Follows(fifo, h, Rate) /\ h[1] = Start
  BY <1>3
<1>5. Head(todo).op = "write" /\ Head(todo).arg \in Parts
  BY <1>1, Returned, CallTypes
<1>6. x.chip = m.chip /\ x.size = size /\ x.sf = sf /\ x.part = m.part
  BY DEF Place
<1>7. /\ y = Place(m.chip + size, size, sf, w.part)
      /\ WordOK(w, m.chip, m.part, Rate)
  BY <1>4, <1>5, <1>6 DEF Moves
<1>8. size \in Nat /\ sf \in Nat
  BY DEF BuildInv, TypesInv, Sizes
<1>9. w \in FifoWords /\ w.size = size
  BY <1>5, <1>8 DEF FifoWords
<1> HIDE DEF w, x
<1>10. /\ Len(fifo') = n + 1 /\ n \in Nat /\ fifo'[n + 1] = w
       /\ \A k \in 1..n : fifo'[k] = fifo[k]
  BY <1>1, <1>2, <1>9, AppendProperties, LenProperties
<1> HIDE DEF n
<1>11. /\ h \in [1..(n + 1) -> Marks]
       /\ \A k \in 1..n : /\ h[k + 1] = Mark(h[k].chip + fifo[k].size, fifo[k].part)
                          /\ WordOK(fifo[k], h[k].chip, h[k].part, Rate)
  BY <1>4 DEF Follows, n
<1> DEFINE e == Mark(m.chip + size, w.part)
           j == [k \in 1..(n + 2) |-> IF k <= n + 1 THEN h[k] ELSE e]
<1>12. m \in Marks
  BY <1>10, <1>11
<1>13. e \in Marks /\ e.chip = m.chip + size /\ e.part = w.part
  BY <1>8, <1>9, <1>12 DEF Marks, Mark, FifoWords
<1> HIDE DEF e, m
<1>14. /\ j \in [1..(n + 2) -> Marks] /\ j[n + 2] = e /\ j[n + 1] = m /\ j[1] = h[1]
       /\ \A k \in 1..n : j[k] = h[k] /\ j[k + 1] = h[k + 1]
  BY <1>10, <1>11, <1>12, <1>13 DEF m
<1> HIDE DEF j
<1>15. ASSUME NEW k \in 1..(n + 1)
       PROVE  /\ j[k + 1] = Mark(j[k].chip + fifo'[k].size, fifo'[k].part)
              /\ WordOK(fifo'[k], j[k].chip, j[k].part, Rate)
  <2>1. CASE k \in 1..n
    <3>1. j[k] = h[k] /\ j[k + 1] = h[k + 1] /\ fifo'[k] = fifo[k]
      BY <1>10, <1>14, <2>1
    <3> QED BY <1>11, <2>1, <3>1
  <2>2. CASE k = n + 1
    <3>1. j[k] = m /\ j[k + 1] = e /\ fifo'[k] = w
      <4>1. (n + 1) + 1 = n + 2
        BY <1>10
      <4> QED BY <1>10, <1>14, <2>2, <4>1
    <3> QED BY <1>7, <1>9, <3>1 DEF e
  <2> QED BY <1>10, <2>1, <2>2
<1>16. Follows(fifo', j, Rate') /\ j[1] = Start' /\ j[Len(fifo') + 1] = e
  <2>1. (n + 1) + 1 = n + 2
    BY <1>10
  <2> QED BY <1>2, <1>4, <1>10, <1>14, <1>15, <2>1 DEF Follows
<1>17. PICK g : g = j
  OBVIOUS
<1>18. GoesOn(g)'
  BY <1>1, <1>2, <1>4, <1>7, <1>13, <1>16, <1>17 DEF GoesOn
<1>19. /\ frames' = frames /\ air' = air
       /\ frames \in Seq([rate : 0..3, len : 0..255])
       /\ air \in Seq([at : Nat, word : FifoWords])
  BY <1>1 DEF Return, PlacesInv
<1> QED BY <1>2, <1>18, <1>19 DEF PlacesInv

\* A word that leaves was the next.
LEMMA PlacesTransmit ==
  ASSUME BuildInv, PlacesInv, Transmit
  PROVE  PlacesInv'
<1> DEFINE w == Head(fifo)
           a == [at |-> EndOfAir, word |-> w]
           n == Len(fifo)
           l == Len(air)
<1>1. /\ fifo # <<>> /\ fifo' = Tail(fifo) /\ air' = Append(air, a)
      /\ UNCHANGED <<pc, todo, size, sf, frames>>
  BY DEF Transmit
<1>2. fifo \in Seq(FifoWords)
  BY DEF BuildInv, TypesInv, FifoWords
<1>3. /\ n \in Nat /\ n > 0 /\ w = fifo[1] /\ w \in FifoWords
      /\ Len(fifo') = n - 1 /\ \A k \in 1..(n - 1) : fifo'[k] = fifo[k + 1]
  BY <1>1, <1>2, HeadTailProperties, LenProperties, EmptySeq
<1>4. /\ frames \in Seq([rate : 0..3, len : 0..255]) /\ frames # <<>>
      /\ air \in Seq([at : Nat, word : FifoWords]) /\ AirOK(Rate)
  BY <1>1 DEF PlacesInv
<1>5. Rate' = Rate
  BY <1>1 DEF Rate
<1>6. PICK h : GoesOn(h)
  BY DEF PlacesInv
<1>7. /\ h \in [1..(n + 1) -> Marks] /\ h[1] = Start
      /\ \A k \in 1..n : /\ h[k + 1] = Mark(h[k].chip + fifo[k].size, fifo[k].part)
                         /\ WordOK(fifo[k], h[k].chip, h[k].part, Rate)
      /\ pc = "build" => \E z : Leads(todo, Place(h[n + 1].chip, size, sf, h[n + 1].part), z, Rate)
  BY <1>6 DEF GoesOn, Follows
<1>8. /\ Start.chip = EndOfAir
      /\ Start.part = IF air = <<>> THEN "none" ELSE air[l].word.part
  BY DEF Start, Mark
<1>9. EndOfAir \in Nat
  <2>1. Start \in Marks
    BY <1>3, <1>7
  <2> QED BY <1>8, <2>1 DEF Marks
<1>10. a \in [at : Nat, word : FifoWords] /\ a.at = EndOfAir /\ a.word = w
  BY <1>3, <1>9
<1> HIDE DEF a, w, n
<1>11. /\ air' \in Seq([at : Nat, word : FifoWords]) /\ Len(air') = l + 1 /\ l \in Nat
       /\ air' # <<>> /\ air'[l + 1] = a /\ \A i \in 1..l : air'[i] = air[i]
       /\ DOMAIN air = 1..l /\ DOMAIN air' = 1..(l + 1)
  <2> DEFINE A == [at : Nat, word : FifoWords]
  <2> HIDE DEF A
  <2>1. air \in Seq(A) /\ a \in A
    BY <1>4, <1>10 DEF A
  <2>2. /\ Append(air, a) \in Seq(A) /\ Append(air, a) # <<>>
        /\ Len(Append(air, a)) = l + 1 /\ Append(air, a)[l + 1] = a
        /\ \A i \in 1..l : Append(air, a)[i] = air[i]
    BY ONLY <2>1, AppendProperties
  <2>3. l \in Nat /\ DOMAIN air = 1..l
    BY ONLY <2>1, LenProperties
  <2>4. DOMAIN Append(air, a) = 1..(l + 1)
    BY ONLY <2>2, LenProperties
  <2> QED BY <1>1, <2>2, <2>3, <2>4 DEF A
<1>12. air = <<>> <=> l = 0
  BY <1>4, EmptySeq
<1> HIDE DEF l
<1>13. WordOK(w, EndOfAir, Start.part, Rate)
  <2>1. 1 \in 1..n
    BY <1>3
  <2> QED BY <1>3, <1>7, <1>8, <2>1
<1>14. AirOK(Rate)'
  <2> SUFFICES ASSUME NEW i \in 1..(l + 1)
               PROVE  WordOK(air'[i].word, air'[i].at,
                             IF i = 1 THEN "none" ELSE air'[i - 1].word.part, Rate)
    BY <1>5, <1>11 DEF AirOK
  <2>1. CASE i \in 1..l
    <3>1. i # 1 => i - 1 \in 1..l
      BY <1>11, <2>1
    <3>2. air'[i] = air[i] /\ (i # 1 => air'[i - 1] = air[i - 1])
      BY <1>11, <2>1, <3>1
    <3> QED BY <1>4, <1>11, <2>1, <3>2 DEF AirOK
  <2>2. CASE i = l + 1
    <3>1. i = 1 <=> l = 0
      BY <1>11, <2>2
    <3>2. i # 1 => i - 1 = l /\ l \in 1..l
      BY <1>11, <2>2
    <3>3. Start.part = IF i = 1 THEN "none" ELSE air'[i - 1].word.part
      BY <1>8, <1>11, <1>12, <3>1, <3>2 DEF l
    <3> QED BY <1>10, <1>11, <1>13, <2>2, <3>3
  <2> QED BY <1>11, <2>1, <2>2
<1> DEFINE j == [k \in 1..n |-> h[k + 1]]
<1>15. /\ j \in [1..n -> Marks] /\ j[1] = h[2] /\ j[n] = h[n + 1]
       /\ \A k \in 1..(n - 1) : j[k] = h[k + 1] /\ j[k + 1] = h[(k + 1) + 1]
  BY <1>3, <1>7
<1> HIDE DEF j
<1>16. Start' = h[2]
  <2>1. h[2] = Mark(h[1].chip + fifo[1].size, fifo[1].part)
    <3>1. 1 \in 1..n /\ 1 + 1 = 2
      BY <1>3
    <3> QED BY <1>7, <3>1
  <2>2. EndOfAir' = EndOfAir + w.size
    BY <1>10, <1>11 DEF EndOfAir
  <2>3. Start' = Mark(EndOfAir + w.size, w.part)
    BY <1>10, <1>11, <2>2 DEF Start
  <2> QED BY <1>3, <1>7, <1>8, <2>1, <2>3
<1>17. ASSUME NEW k \in 1..(n - 1)
       PROVE  /\ j[k + 1] = Mark(j[k].chip + fifo'[k].size, fifo'[k].part)
              /\ WordOK(fifo'[k], j[k].chip, j[k].part, Rate)
  <2>1. k + 1 \in 1..n /\ fifo'[k] = fifo[k + 1]
        /\ j[k] = h[k + 1] /\ j[k + 1] = h[(k + 1) + 1]
    BY <1>3, <1>15
  <2> QED BY <1>7, <2>1
<1>18. Follows(fifo', j, Rate') /\ j[1] = Start' /\ j[Len(fifo') + 1] = h[n + 1]
  <2>1. (n - 1) + 1 = n
    BY <1>3
  <2> QED BY <1>3, <1>5, <1>15, <1>16, <1>17, <2>1 DEF Follows
<1>19. PICK g : g = j
  OBVIOUS
<1>20. GoesOn(g)'
  BY <1>1, <1>5, <1>7, <1>18, <1>19 DEF GoesOn
<1>21. pc' = "wait" =>
         \E z : Leads(todo', Place(0, size', sf', "none"), z, frames'[Len(frames')].rate)
  BY <1>1 DEF PlacesInv
<1> QED BY <1>1, <1>4, <1>11, <1>14, <1>20, <1>21 DEF PlacesInv

LEMMA PlacesStutter ==
  ASSUME PlacesInv, Spin \/ UNCHANGED vars
  PROVE  PlacesInv'
<1>1. UNCHANGED <<pc, todo, size, sf, fifo, frames, air>>
  BY DEF Spin, vars
<1>2. Rate' = Rate /\ Start' = Start
  BY <1>1 DEF Rate, Start, EndOfAir
<1>3. PICK h : GoesOn(h)
  BY DEF PlacesInv
<1>4. GoesOn(h)'
  BY <1>1, <1>2, <1>3 DEF GoesOn
<1>5. AirOK(Rate)'
  BY <1>1, <1>2 DEF PlacesInv, AirOK
<1> QED BY <1>1, <1>4, <1>5 DEF PlacesInv

-----------------------------------------------------------------------------
(* Theorems.                                                               *)

LEMMA BuildInvariant == Spec => []BuildInv
<1>1. BuildInv /\ [Next]_vars => BuildInv'
  BY BeginStep, WaitStep, SetStep, WriteStep, SpinStep, FlushStep, TriggerStep,
     TransmitStep, BuildStutter DEF Next, Processor
<1> QED BY InitBuildInv, <1>1, PTL DEF Spec

\* The registers hold sizes and spreadings of the enumerations, the FIFO is
\* never filled past its mark, and the main loop goes on when no call is left.
THEOREM BuildTyped == Spec => []TypeOK
<1>1. BuildInv => TypeOK
  <2> SUFFICES ASSUME BuildInv PROVE TypeOK
    OBVIOUS
  <2>1. TodoInv /\ TypesInv
    BY DEF BuildInv
  <2>2. pc \in {"idle", "wait", "build"} /\ (pc = "idle" <=> todo = <<>>)
    BY <2>1 DEF TodoInv, Ending
  <2>3. Len(fifo) \in 0..AlmostFull
    BY <2>1, LenProperties, BuildTxAssumption DEF TypesInv
  <2>4. /\ triggered \in {0, 1} /\ size \in {0, 8, 16, 32} /\ sf \in 0..3
        /\ sending \in BOOLEAN /\ flushed \in BOOLEAN
    BY <2>1 DEF TypesInv, Sizes
  <2> QED BY ONLY <2>2, <2>3, <2>4, Zenon DEF TypeOK
<1> QED BY BuildInvariant, <1>1, PTL

\* Every frame is triggered when the one before has left and words of its own
\* are in the FIFO: no pulse falls into a frame.
THEOREM TriggersApart == Spec => TriggersBetweenFrames
<1>1. BuildInv /\ [Next]_vars =>
        [triggered = 0 /\ triggered' = 1 => ~sending /\ fifo # <<>> /\ air = <<>>]_vars
  <2> SUFFICES ASSUME BuildInv, [Next]_vars, triggered = 0, triggered' = 1
               PROVE  ~sending /\ fifo # <<>> /\ air = <<>>
    OBVIOUS
  <2>1. Spin \/ Trigger
    BY DEF Next, Processor, vars, Begin, fifo_wait, SetSize, SetSf, Write, Flush, Transmit
  <2> QED BY <2>1, TriggerFinds
<1> QED BY BuildInvariant, <1>1, PTL DEF Spec, TriggersBetweenFrames

\* The delimiter begins 16 chips later for each step of the data rate and the
\* header at the same chip for every rate, at its own spreading, whatever sizes
\* and spreadings the frame before left in the registers and however the
\* transmitter keeps up with the processor.
THEOREM DelimitersTellRates == Spec => []DelimiterTellsRate
<1>1. Init => BuildInv /\ PlacesInv
  BY InitBuildInv, PlacesInit
<1>2. BuildInv /\ PlacesInv /\ [Next]_vars => PlacesInv'
  BY PlacesBegin, PlacesWait, PlacesReturn, PlacesWrite, PlacesTransmit, PlacesStutter
     DEF Next, Processor
<1>3. PlacesInv => DelimiterTellsRate
  <2> SUFFICES ASSUME PlacesInv, NEW i \in DOMAIN air
               PROVE  LET First == i = 1 \/ air[i - 1].word.part # air[i].word.part
                          part  == air[i].word.part
                      IN  /\ part = "sfd" /\ First => air[i].at = 64 * CodeBits + 16 * Rate
                          /\ part = "header" => air[i].at = 80 * CodeBits + 96
                          /\ part \in {"header", "payload"} => air[i].word.sf = Rate
    BY DEF DelimiterTellsRate, Rate
  <2>1. WordOK(air[i].word, air[i].at,
               IF i = 1 THEN "none" ELSE air[i - 1].word.part, Rate)
    BY DEF PlacesInv, AirOK
  <2>2. "none" # "sfd"
    OBVIOUS
  <2> QED BY <2>1, <2>2 DEF WordOK
<1> QED BY BuildInvariant, <1>1, <1>2, <1>3, PTL DEF Spec
=============================================================================
