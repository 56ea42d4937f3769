-------------------------- MODULE PlcpHeaderProofs --------------------------
(***************************************************************************)
(* Proofs about the PLCP header: its CRC is the remainder the comment      *)
(* promises, a burst of up to eight bits never goes unnoticed, and a       *)
(* header that arrives undamaged has the fields that were sent.            *)
(***************************************************************************)
EXTENDS PlcpHeader, WellFoundedInduction, TLAPS

-----------------------------------------------------------------------------
(* Recursive functions.                                                    *)

\* Induction, on the set of the numbers for which something holds.
LEMMA Induction ==
  ASSUME NEW S, 0 \in S, \A n \in Nat : n \in S => n + 1 \in S
  PROVE  Nat \subseteq S
<1> DEFINE R == {ss \in Nat \X Nat : ss[1] < ss[2]}
           T == Nat \ S
<1>1. IsWellFoundedOn(R, Nat)
  BY NatLessThanWellFounded DEF OpToRel
<1> HIDE DEF R
<1>2. ASSUME T # {} PROVE FALSE
  <2>1. PICK m \in T : \A n \in T : ~(<<n, m>> \in R)
    BY <1>1, <1>2, WFMin
  <2>2. m # 0 /\ m - 1 \in Nat /\ m - 1 < m
    BY <2>1
  <2>3. m - 1 \in S
    BY <2>1, <2>2 DEF R
  <2> QED
    BY <2>1, <2>2, <2>3
<1> QED
  BY <1>2

\* The bits of a word from last down to first make up the number Read.
LEMMA ReadBits ==
  ASSUME NEW w, NEW first \in Nat, NEW last \in Nat, first <= last
  PROVE  \E value :
           /\ value[last + 1] = 0
           /\ \A i \in first..last :
                value[i] = (IF i \in w THEN 1 ELSE 0) + 2 * value[i + 1]
           /\ Read(w, first, last) = value[first]
<1> DEFINE D == first..(last + 1)
           From(m) == {i \in D : i + m >= last + 1}
           Rule(g, i) == IF i > last THEN 0 ELSE (IF i \in w THEN 1 ELSE 0) + 2 * g[i + 1]
           More(g, m) == [i \in From(m + 1) |-> IF i \in From(m) THEN g[i] ELSE Rule(g, i)]
           S == {m \in Nat : \E g : g = [i \in From(m) |-> Rule(g, i)]}
<1>1. 0 \in S
  <2>1. From(0) = {last + 1}
    OBVIOUS
  <2>2. PICK g : g = [i \in {last + 1} |-> 0]
    OBVIOUS
  <2>3. g = [i \in From(0) |-> Rule(g, i)]
    BY <2>1, <2>2
  <2> QED
    BY <2>3
<1>2. ASSUME NEW m \in Nat, m \in S PROVE m + 1 \in S
  <2>1. PICK g : g = [i \in From(m) |-> Rule(g, i)]
    BY <1>2
  <2>2. PICK h : h = More(g, m)
    OBVIOUS
  <2>3. \A i \in From(m + 1) : /\ i \in From(m) => h[i] = g[i]
                               /\ i \notin From(m) => h[i] = Rule(g, i)
    BY <2>2
  <2>4. \A i \in From(m + 1) : i <= last => i + 1 \in From(m) /\ i + 1 \in From(m + 1)
    OBVIOUS
  <2>5. \A i \in From(m + 1) : Rule(h, i) = Rule(g, i)
    BY <2>3, <2>4
  <2>6. \A i \in From(m) : g[i] = Rule(g, i)
    BY <2>1
  <2>7. \A i \in From(m + 1) : h[i] = Rule(h, i)
    BY <2>3, <2>5, <2>6
  <2>8. h = [i \in From(m + 1) |-> h[i]]
    BY <2>2
  <2>9. h = [i \in From(m + 1) |-> Rule(h, i)]
    BY <2>7, <2>8
  <2> QED
    BY <2>9
<1>3. last + 1 - first \in S
  <2> HIDE DEF S
  <2>1. Nat \subseteq S
    BY ONLY <1>1, <1>2, Induction
  <2> QED
    BY <2>1
<1>4. From(last + 1 - first) = D
  OBVIOUS
<1>5. \E g : g = [i \in D |-> Rule(g, i)]
  BY <1>3, <1>4
<1>6. PICK value : /\ value = [i \in D |-> Rule(value, i)]
                   /\ Read(w, first, last) = value[first]
  BY <1>5 DEF Read
<1>7. \A i \in D : value[i] = Rule(value, i)
  BY <1>6
<1>8. last + 1 \in D /\ \A i \in first..last : i \in D /\ ~(i > last)
  OBVIOUS
<1> QED
  BY <1>6, <1>7, <1>8

\* The eight turns of crc8_update.
LEMMA CrcTurns ==
  ASSUME NEW c, NEW data
  PROVE  \E reg : /\ reg[0] = Xor(c, data)
                  /\ \A i \in 1..8 : reg[i] = CrcBit(reg[i - 1])
                  /\ crc8_update(c, data) = reg[8]
<1> DEFINE Rule(g, i) == IF i = 0 THEN Xor(c, data) ELSE CrcBit(g[i - 1])
<1>1. PICK r0, r1, r2, r3, r4, r5, r6, r7, r8 :
        /\ r0 = Xor(c, data) /\ r1 = CrcBit(r0) /\ r2 = CrcBit(r1) /\ r3 = CrcBit(r2)
        /\ r4 = CrcBit(r3) /\ r5 = CrcBit(r4) /\ r6 = CrcBit(r5) /\ r7 = CrcBit(r6)
        /\ r8 = CrcBit(r7)
  OBVIOUS
<1>2. PICK f : f = [i \in 0..8 |->
                      IF i = 0 THEN r0 ELSE IF i = 1 THEN r1 ELSE IF i = 2 THEN r2
                      ELSE IF i = 3 THEN r3 ELSE IF i = 4 THEN r4 ELSE IF i = 5 THEN r5
                      ELSE IF i = 6 THEN r6 ELSE IF i = 7 THEN r7 ELSE r8]
  OBVIOUS
<1>3. \A i \in 0..8 : f[i] = Rule(f, i)
  <2>1. /\ f[0] = r0 /\ f[1] = r1 /\ f[2] = r2 /\ f[3] = r3 /\ f[4] = r4 /\ f[5] = r5
        /\ f[6] = r6 /\ f[7] = r7 /\ f[8] = r8
    BY <1>2
  <2> QED
    BY <1>1, <2>1
<1>4. f = [i \in 0..8 |-> f[i]]
  BY <1>2
<1>5. f = [i \in 0..8 |-> Rule(f, i)]
  BY <1>3, <1>4
<1>6. PICK reg : /\ reg = [i \in 0..8 |-> Rule(reg, i)]
                 /\ crc8_update(c, data) = reg[8]
  BY <1>5 DEF crc8_update
<1> QED
  BY <1>6

-----------------------------------------------------------------------------
(* The register.                                                           *)

Registers == SUBSET (0..7)

LEMMA XorIs ==
  ASSUME NEW a, NEW b
  PROVE  /\ \A i : i \in Xor(a, b) <=> \/ i \in a /\ i \notin b
                                       \/ i \notin a /\ i \in b
         /\ a \in Registers /\ b \in Registers => Xor(a, b) \in Registers
BY DEF Xor, Registers

\* What a turn makes of each bit.
LEMMA CrcBitIs ==
  ASSUME NEW c \in Registers
  PROVE  /\ CrcBit(c) \in Registers
         /\ \A i \in 0..7 :
              i \in CrcBit(c) <=> \/ i + 1 \in c /\ ~(0 \in c /\ i \in CRC8_POLY)
                                  \/ i + 1 \notin c /\ 0 \in c /\ i \in CRC8_POLY
<1>1. /\ ShiftRight(c) \in Registers
      /\ \A i \in 0..7 : i \in ShiftRight(c) <=> i + 1 \in c
  BY DEF ShiftRight, Registers
<1>2. CRC8_POLY \in Registers
  BY DEF CRC8_POLY, Registers
<1>3. CASE 0 \in c
  <2>1. CrcBit(c) = Xor(ShiftRight(c), CRC8_POLY)
    BY <1>3 DEF CrcBit
  <2> QED
    BY <1>1, <1>2, <1>3, <2>1, XorIs
<1>4. CASE 0 \notin c
  BY <1>1, <1>4 DEF CrcBit
<1> QED
  BY <1>3, <1>4

\* Sets of bits are equal if they have the same ones.
LEMMA SameBits ==
  ASSUME NEW a \in Registers, NEW b \in Registers, \A i \in 0..7 : i \in a <=> i \in b
  PROVE  a = b
BY DEF Registers

\* The register is linear.
LEMMA CrcBitLinear ==
  ASSUME NEW a \in Registers, NEW b \in Registers
  PROVE  CrcBit(Xor(a, b)) = Xor(CrcBit(a), CrcBit(b))
<1> DEFINE x == Xor(a, b)
<1>1. x \in Registers /\ CrcBit(a) \in Registers /\ CrcBit(b) \in Registers
  BY XorIs, CrcBitIs
<1>2. CrcBit(x) \in Registers /\ Xor(CrcBit(a), CrcBit(b)) \in Registers
  BY <1>1, XorIs, CrcBitIs
<1>3. \A i : i \in x <=> \/ i \in a /\ i \notin b
                         \/ i \notin a /\ i \in b
  BY XorIs
<1>4. \A i : i \in Xor(CrcBit(a), CrcBit(b)) <=>
               \/ i \in CrcBit(a) /\ i \notin CrcBit(b)
               \/ i \notin CrcBit(a) /\ i \in CrcBit(b)
  BY XorIs
<1> HIDE DEF x
<1>5. ASSUME NEW i \in 0..7
      PROVE  i \in CrcBit(x) <=> i \in Xor(CrcBit(a), CrcBit(b))
  <2>1. /\ i \in CrcBit(x) <=> \/ i + 1 \in x /\ ~(0 \in x /\ i \in CRC8_POLY)
                               \/ i + 1 \notin x /\ 0 \in x /\ i \in CRC8_POLY
        /\ i \in CrcBit(a) <=> \/ i + 1 \in a /\ ~(0 \in a /\ i \in CRC8_POLY)
                               \/ i + 1 \notin a /\ 0 \in a /\ i \in CRC8_POLY
        /\ i \in CrcBit(b) <=> \/ i + 1 \in b /\ ~(0 \in b /\ i \in CRC8_POLY)
                               \/ i + 1 \notin b /\ 0 \in b /\ i \in CRC8_POLY
    BY <1>1, CrcBitIs
  <2> QED
    BY <1>3, <1>4, <2>1
<1>6. CrcBit(x) = Xor(CrcBit(a), CrcBit(b))
  BY <1>2, <1>5, SameBits
<1> QED
  BY <1>6 DEF x

\* A turn that leaves the top bit 0 has only shifted.
LEMMA CrcBitBack ==
  ASSUME NEW c \in Registers, 7 \notin CrcBit(c)
  PROVE  c = {i + 1 : i \in CrcBit(c)}
<1>1. 0 \notin c
  BY CrcBitIs DEF CRC8_POLY, Registers
<1>2. CrcBit(c) = ShiftRight(c)
  BY <1>1 DEF CrcBit
<1>3. c \subseteq Nat
  BY DEF Registers
<1>4. \A j \in c : j - 1 \in ShiftRight(c) /\ (j - 1) + 1 = j
  BY <1>1, <1>3 DEF ShiftRight
<1>5. \A i \in ShiftRight(c) : i + 1 \in c
  BY <1>3 DEF ShiftRight
<1> QED
  BY <1>2, <1>4, <1>5

\* All eight turns.
LEMMA CrcUpdate ==
  ASSUME NEW c \in Registers, NEW data \in Registers
  PROVE  \E reg : /\ reg[0] = Xor(c, data)
                  /\ \A i \in 0..8 : reg[i] \in Registers
                  /\ \A i \in 0..7 : reg[i + 1] = CrcBit(reg[i])
                  /\ crc8_update(c, data) = reg[8]
<1>1. PICK reg : /\ reg[0] = Xor(c, data)
                 /\ \A i \in 1..8 : reg[i] = CrcBit(reg[i - 1])
                 /\ crc8_update(c, data) = reg[8]
  BY CrcTurns
<1>2. \A i \in 0..7 : reg[i + 1] = CrcBit(reg[i])
  <2> SUFFICES ASSUME NEW i \in 0..7 PROVE reg[i + 1] = CrcBit(reg[i])
    OBVIOUS
  <2>1. i + 1 \in 1..8 /\ (i + 1) - 1 = i
    OBVIOUS
  <2> QED
    BY <1>1, <2>1
<1>3. reg[0] \in Registers
  BY <1>1, XorIs
<1>4. \A i \in 0..7 : reg[i] \in Registers => reg[i + 1] \in Registers
  BY <1>2, CrcBitIs
<1> HIDE DEF Registers
<1>5. \A i \in 0..8 : reg[i] \in Registers
  <2>1. reg[1] \in Registers /\ reg[2] \in Registers
    BY <1>3, <1>4
  <2>2. reg[3] \in Registers /\ reg[4] \in Registers
    BY <1>4, <2>1
  <2>3. reg[5] \in Registers /\ reg[6] \in Registers
    BY <1>4, <2>2
  <2>4. reg[7] \in Registers /\ reg[8] \in Registers
    BY <1>4, <2>3
  <2> QED
    BY <1>3, <2>1, <2>2, <2>3, <2>4
<1> QED
  BY <1>1, <1>2, <1>5

LEMMA UpdateLinear ==
  ASSUME NEW c1 \in Registers, NEW c2 \in Registers,
         NEW d1 \in Registers, NEW d2 \in Registers
  PROVE  /\ crc8_update(c1, d1) \in Registers
         /\ crc8_update(Xor(c1, c2), Xor(d1, d2)) =
              Xor(crc8_update(c1, d1), crc8_update(c2, d2))
<1>1. Xor(c1, c2) \in Registers /\ Xor(d1, d2) \in Registers
  BY XorIs
<1>2. PICK r1 : /\ r1[0] = Xor(c1, d1) /\ \A i \in 0..8 : r1[i] \in Registers
                /\ \A i \in 0..7 : r1[i + 1] = CrcBit(r1[i])
                /\ crc8_update(c1, d1) = r1[8]
  BY CrcUpdate
<1>3. PICK r2 : /\ r2[0] = Xor(c2, d2) /\ \A i \in 0..8 : r2[i] \in Registers
                /\ \A i \in 0..7 : r2[i + 1] = CrcBit(r2[i])
                /\ crc8_update(c2, d2) = r2[8]
  BY CrcUpdate
<1>4. PICK r : /\ r[0] = Xor(Xor(c1, c2), Xor(d1, d2))
               /\ \A i \in 0..7 : r[i + 1] = CrcBit(r[i])
               /\ crc8_update(Xor(c1, c2), Xor(d1, d2)) = r[8]
  BY <1>1, CrcUpdate
<1>5. r[0] = Xor(r1[0], r2[0])
  <2>1. \A i : i \in r[0] <=> i \in Xor(r1[0], r2[0])
    BY <1>2, <1>3, <1>4, XorIs
  <2> QED
    BY <2>1
<1>6. \A i \in 0..7 : r[i] = Xor(r1[i], r2[i]) => r[i + 1] = Xor(r1[i + 1], r2[i + 1])
  BY <1>2, <1>3, <1>4, CrcBitLinear
<1>7. r[8] = Xor(r1[8], r2[8])
  <2>1. r[1] = Xor(r1[1], r2[1]) /\ r[2] = Xor(r1[2], r2[2])
    BY <1>5, <1>6
  <2>2. r[3] = Xor(r1[3], r2[3]) /\ r[4] = Xor(r1[4], r2[4])
    BY <1>6, <2>1
  <2>3. r[5] = Xor(r1[5], r2[5]) /\ r[6] = Xor(r1[6], r2[6])
    BY <1>6, <2>2
  <2>4. r[7] = Xor(r1[7], r2[7])
    BY <1>6, <2>3
  <2> QED
    BY <1>6, <2>4
<1> QED
  BY <1>2, <1>3, <1>4, <1>7

\* The register after n bytes of w.
After(c, w, n) ==
  LET r1 == crc8_update(c, Byte(w, 0))
      r2 == crc8_update(r1, Byte(w, 1))
      r3 == crc8_update(r2, Byte(w, 2))
  IN  IF n = 0 THEN c ELSE IF n = 1 THEN r1 ELSE IF n = 2 THEN r2
      ELSE IF n = 3 THEN r3 ELSE crc8_update(r3, Byte(w, 3))

LEMMA AfterNext ==
  ASSUME NEW c, NEW w
  PROVE  /\ After(c, w, 0) = c
         /\ \A n \in 0..3 : After(c, w, n + 1) = crc8_update(After(c, w, n), Byte(w, n))
<1>1. /\ After(c, w, 0) = c
      /\ After(c, w, 1) = crc8_update(After(c, w, 0), Byte(w, 0))
      /\ After(c, w, 2) = crc8_update(After(c, w, 1), Byte(w, 1))
      /\ After(c, w, 3) = crc8_update(After(c, w, 2), Byte(w, 2))
      /\ After(c, w, 4) = crc8_update(After(c, w, 3), Byte(w, 3))
  BY DEF After
<1>2. ASSUME NEW n \in 0..3
      PROVE  After(c, w, n + 1) = crc8_update(After(c, w, n), Byte(w, n))
  <2>1. n = 0 \/ n = 1 \/ n = 2 \/ n = 3
    OBVIOUS
  <2> QED
    BY <1>1, <2>1
<1> QED
  BY <1>1, <1>2

LEMMA ByteIs ==
  ASSUME NEW w, NEW n
  PROVE  Byte(w, n) \in Registers
BY DEF Byte, Registers

LEMMA ByteXor ==
  ASSUME NEW v, NEW w, NEW n
  PROVE  Byte(Xor(v, w), n) = Xor(Byte(v, n), Byte(w, n))
<1>1. \A i \in 0..7 : /\ i \in Byte(Xor(v, w), n) <=> 8 * n + i \in Xor(v, w)
                      /\ i \in Byte(v, n) <=> 8 * n + i \in v
                      /\ i \in Byte(w, n) <=> 8 * n + i \in w
  BY Zenon DEF Byte
<1>2. ASSUME NEW i \in 0..7
      PROVE  i \in Byte(Xor(v, w), n) <=> i \in Xor(Byte(v, n), Byte(w, n))
  <2>1. \A j : j \in Xor(v, w) <=>
                 \/ j \in v /\ j \notin w
                 \/ j \notin v /\ j \in w
    BY XorIs, Zenon
  <2>2. i \in Xor(Byte(v, n), Byte(w, n)) <=>
          \/ i \in Byte(v, n) /\ i \notin Byte(w, n)
          \/ i \notin Byte(v, n) /\ i \in Byte(w, n)
    BY XorIs, Zenon
  <2> QED
    BY <1>1, <2>1, <2>2, Zenon
<1> QED
  BY <1>2, ByteIs, XorIs, SameBits

LEMMA AfterRegister ==
  ASSUME NEW c \in Registers, NEW w
  PROVE  \A n \in 0..4 : After(c, w, n) \in Registers
<1>1. After(c, w, 0) \in Registers
  BY AfterNext
<1>2. \A n \in 0..3 : After(c, w, n) \in Registers => After(c, w, n + 1) \in Registers
  BY AfterNext, ByteIs, UpdateLinear
<1> HIDE DEF Registers
<1>3. After(c, w, 1) \in Registers /\ After(c, w, 2) \in Registers
  BY <1>1, <1>2
<1>4. After(c, w, 3) \in Registers /\ After(c, w, 4) \in Registers
  BY <1>2, <1>3
<1> QED
  BY <1>1, <1>3, <1>4

\* The CRC of a damaged word differs from the undamaged one's by the CRC of
\* the damage, with a register that begins with 0.
LEMMA AfterLinear ==
  ASSUME NEW c \in Registers, NEW w, NEW e, NEW n \in 0..4
  PROVE  After(c, Xor(w, e), n) = Xor(After(c, w, n), After({}, e, n))
<1> DEFINE Split(m) == After(c, Xor(w, e), m) = Xor(After(c, w, m), After({}, e, m))
<1>1. Split(0)
  BY AfterNext DEF Xor
<1>2. ASSUME NEW m \in 0..3, Split(m) PROVE Split(m + 1)
  <2>1. /\ After(c, w, m) \in Registers /\ After({}, e, m) \in Registers
        /\ Byte(w, m) \in Registers /\ Byte(e, m) \in Registers
    <3>1. {} \in Registers
      BY DEF Registers
    <3> QED
      BY <3>1, AfterRegister, ByteIs
  <2> QED
    BY <1>2, <2>1, AfterNext, ByteXor, UpdateLinear
<1> HIDE DEF Split
<1>3. Split(1) /\ Split(2)
  BY <1>1, <1>2
<1>4. Split(3) /\ Split(4)
  BY <1>2, <1>3
<1>5. n = 0 \/ n = 1 \/ n = 2 \/ n = 3 \/ n = 4
  OBVIOUS
<1>6. Split(n)
  BY <1>1, <1>3, <1>4, <1>5
<1> QED
  BY <1>6 DEF Split

-----------------------------------------------------------------------------
(* Bursts.                                                                 *)

\* Nothing makes the register 0 but what it holds already.
LEMMA UpdateZero ==
  ASSUME NEW c \in Registers, NEW data \in Registers
  PROVE  crc8_update(c, data) = {} <=> c = data
<1>1. PICK reg : /\ reg[0] = Xor(c, data) /\ \A i \in 0..8 : reg[i] \in Registers
                 /\ \A i \in 0..7 : reg[i + 1] = CrcBit(reg[i])
                 /\ crc8_update(c, data) = reg[8]
  BY CrcUpdate
<1>2. \A i \in 0..7 : reg[i + 1] = {} <=> reg[i] = {}
  <2> SUFFICES ASSUME NEW i \in 0..7 PROVE reg[i + 1] = {} <=> reg[i] = {}
    OBVIOUS
  <2>1. reg[i] \in Registers /\ reg[i + 1] = CrcBit(reg[i])
    BY <1>1
  <2>2. CASE reg[i] = {}
    BY <2>1, <2>2 DEF CrcBit, ShiftRight
  <2>3. CASE reg[i + 1] = {}
    <3>1. CrcBit(reg[i]) = {} /\ 7 \notin CrcBit(reg[i])
      BY <2>1, <2>3
    <3>2. reg[i] = {j + 1 : j \in CrcBit(reg[i])}
      BY <2>1, <3>1, CrcBitBack
    <3> QED
      BY <2>3, <3>1, <3>2
  <2> QED
    BY <2>2, <2>3
<1>3. reg[8] = {} <=> reg[0] = {}
  <2>1. reg[8] = {} <=> reg[5] = {}
    BY <1>2
  <2>2. reg[5] = {} <=> reg[2] = {}
    BY <1>2
  <2>3. reg[2] = {} <=> reg[0] = {}
    BY <1>2
  <2> QED
    BY <2>1, <2>2, <2>3
<1>4. Xor(c, data) = {} <=> c = data
  BY DEF Xor
<1> QED
  BY <1>1, <1>3, <1>4

\* High bits of one byte that come through it unchanged do not cancel low bits
\* of the next.
LEMMA HighAndLow ==
  ASSUME NEW r \in 0..7, NEW high, NEW low,
         high \subseteq r..7, low \subseteq 0..(r - 1), crc8_update({}, high) = low
  PROVE  high = {} /\ low = {}
<1>1. high \in Registers /\ low \in Registers /\ {} \in Registers
  BY DEF Registers
<1>2. PICK reg : /\ reg[0] = Xor({}, high) /\ \A i \in 0..8 : reg[i] \in Registers
                 /\ \A i \in 0..7 : reg[i + 1] = CrcBit(reg[i])
                 /\ crc8_update({}, high) = reg[8]
  BY <1>1, CrcUpdate
<1>3. reg[0] = high /\ reg[8] = low
  BY <1>2 DEF Xor
<1> DEFINE Down == {n \in Nat : n <= r => reg[n] = {i - n : i \in high}}
           Up   == {n \in Nat : n <= 8 - r => reg[8 - n] = {i + n : i \in low}}
<1>4. reg[r] = {i - r : i \in high}
  <2>1. 0 \in Down
    <3>1. high = {i - 0 : i \in high}
      OBVIOUS
    <3> QED
      BY <1>3, <3>1
  <2>2. ASSUME NEW n \in Nat, n \in Down PROVE n + 1 \in Down
    <3> SUFFICES n + 1 <= r => reg[n + 1] = {i - (n + 1) : i \in high}
      BY DEF Down
    <3> SUFFICES ASSUME n + 1 <= r PROVE reg[n + 1] = {i - (n + 1) : i \in high}
      OBVIOUS
    <3>1. reg[n] = {i - n : i \in high} /\ reg[n + 1] = CrcBit(reg[n])
      BY <1>2, <2>2
    <3>2. \A i \in high : i - n # 0 /\ (i - n) - 1 = i - (n + 1)
      OBVIOUS
    <3>3. 0 \notin reg[n]
      BY <3>1, <3>2
    <3>4. reg[n + 1] = {j - 1 : j \in reg[n]}
      BY <3>1, <3>3 DEF CrcBit, ShiftRight
    <3>5. {j - 1 : j \in {i - n : i \in high}} = {i - (n + 1) : i \in high}
      BY <3>2
    <3> QED
      BY <3>1, <3>4, <3>5
  <2> HIDE DEF Down
  <2>3. Nat \subseteq Down
    BY ONLY <2>1, <2>2, Induction
  <2>4. r \in Down
    BY <2>3
  <2> QED
    BY <2>4 DEF Down
<1>5. reg[r] = {i + (8 - r) : i \in low}
  <2>1. 0 \in Up
    <3>1. low = {i + 0 : i \in low}
      OBVIOUS
    <3> QED
      BY <1>3, <3>1
  <2>2. ASSUME NEW n \in Nat, n \in Up PROVE n + 1 \in Up
    <3> SUFFICES ASSUME n + 1 <= 8 - r PROVE reg[8 - (n + 1)] = {i + (n + 1) : i \in low}
      OBVIOUS
    <3>1. /\ 8 - (n + 1) \in 0..7 /\ (8 - (n + 1)) + 1 = 8 - n
          /\ reg[8 - n] = {i + n : i \in low}
      BY <2>2
    <3>2. PICK c \in Registers : c = reg[8 - (n + 1)] /\ reg[8 - n] = CrcBit(c)
      BY <1>2, <3>1
    <3>3. \A i \in low : i + n # 7 /\ (i + n) + 1 = i + (n + 1)
      OBVIOUS
    <3>4. 7 \notin CrcBit(c)
      BY <3>1, <3>2, <3>3
    <3>5. c = {j + 1 : j \in CrcBit(c)}
      BY <3>4, CrcBitBack
    <3>6. {j + 1 : j \in {i + n : i \in low}} = {i + (n + 1) : i \in low}
      <4>1. \A i \in low : (i + n) + 1 = i + (n + 1)
        BY <3>3
      <4> QED
        BY ONLY <4>1
    <3> QED
      BY <3>1, <3>2, <3>5, <3>6
  <2> HIDE DEF Up
  <2>3. Nat \subseteq Up
    BY ONLY <2>1, <2>2, Induction
  <2>4. PICK m \in Up : m = 8 - r
    BY <2>3
  <2>5. 8 - m = r /\ m <= 8 - r
    BY <2>4
  <2>6. reg[8 - m] = {i + m : i \in low}
    BY <2>4, <2>5 DEF Up
  <2> QED
    BY <2>4, <2>5, <2>6
<1>6. ASSUME NEW i \in high PROVE FALSE
  <2>1. i - r \in reg[r]
    BY <1>4
  <2>2. PICK j \in low : i - r = j + (8 - r)
    BY <1>5, <2>1
  <2> QED
    BY <2>2
<1>7. high = {} /\ reg[r] = {}
  BY <1>4, <1>6
<1>8. \A j \in low : j + (8 - r) \in reg[r]
  BY <1>5
<1> QED
  BY <1>7, <1>8

\* A burst reaches the end of the CRC.
LEMMA BurstSeen ==
  ASSUME NEW e, e \subseteq 0..31, e # {}, NEW first \in Nat, e \subseteq first..(first + 7)
  PROVE  After({}, e, 4) # {}
<1> DEFINE R(n) == After({}, e, n)
           B(n) == Byte(e, n)
<1>1. {} \in Registers /\ \A n : B(n) \in Registers
  BY ByteIs DEF Registers
<1>2. \A n \in 0..4 : R(n) \in Registers
  BY <1>1, AfterRegister
<1>3. R(0) = {} /\ \A n \in 0..3 : R(n + 1) = crc8_update(R(n), B(n))
  BY AfterNext
<1>4. PICK q, r : q \in 0..3 /\ r \in 0..7 /\ first = 8 * q + r
  <2>1. first \in 0..31
    <3>1. PICK x \in e : x \in 0..31 /\ x \in first..(first + 7)
      OBVIOUS
    <3> QED
      BY <3>1
  <2>2. /\ first \div 8 \in 0..3 /\ first % 8 \in 0..7
        /\ first = (8 * (first \div 8)) + (first % 8)
    BY <2>1
  <2> QED
    BY <2>2
<1>5. ASSUME NEW n \in 0..3, n # q, n # q + 1 PROVE B(n) = {}
  <2> SUFFICES ASSUME NEW i \in 0..7, 8 * n + i \in e PROVE FALSE
    BY DEF Byte
  <2>1. 8 * n + i >= 8 * q + r /\ 8 * n + i <= 8 * q + r + 7
    BY <1>4
  <2> QED
    BY <1>4, <1>5, <2>1
<1>6. B(q) \subseteq r..7
  <2> SUFFICES ASSUME NEW i \in 0..7, 8 * q + i \in e PROVE i \in r..7
    BY DEF Byte
  <2>1. 8 * q + i >= 8 * q + r
    BY <1>4
  <2> QED
    BY <1>4, <2>1
<1>7. B(q + 1) \subseteq 0..(r - 1)
  <2> SUFFICES ASSUME NEW i \in 0..7, 8 * (q + 1) + i \in e PROVE i \in 0..(r - 1)
    BY DEF Byte
  <2>1. 8 * (q + 1) + i <= 8 * q + r + 7
    BY <1>4
  <2> QED
    BY <1>4, <2>1
<1>8. B(q) # {} \/ (q < 3 /\ B(q + 1) # {})
  <2>0. PICK x \in e : x \in 0..31 /\ x \in first..(first + 7)
    OBVIOUS
  <2>1. x \in 0..31 /\ x >= 8 * q + r /\ x <= 8 * q + r + 7
    BY <1>4, <2>0
  <2>2. CASE x < 8 * q + 8
    <3>1. x - 8 * q \in 0..7 /\ 8 * q + (x - 8 * q) = x
      BY <1>4, <2>1, <2>2
    <3>2. x - 8 * q \in B(q)
      BY <3>1 DEF Byte
    <3> QED
      BY <3>2
  <2>3. CASE ~(x < 8 * q + 8)
    <3>1. x - 8 * (q + 1) \in 0..7 /\ 8 * (q + 1) + (x - 8 * (q + 1)) = x /\ q < 3
      BY <1>4, <2>1, <2>3
    <3>2. x - 8 * (q + 1) \in B(q + 1)
      BY <3>1 DEF Byte
    <3> QED
      BY <3>1, <3>2
  <2> QED
    BY <2>2, <2>3
<1> HIDE DEF R, B
<1>9. \A n \in 0..3 : B(n) = {} => (R(n + 1) = {} <=> R(n) = {})
  <2> SUFFICES ASSUME NEW n \in 0..3, B(n) = {} PROVE R(n + 1) = {} <=> R(n) = {}
    OBVIOUS
  <2>1. R(n + 1) = crc8_update(R(n), {}) /\ R(n) \in Registers
    BY <1>2, <1>3
  <2> QED
    BY <1>1, <2>1, UpdateZero
\* Before the burst the register is 0.
<1>10. R(q) = {}
  <2>1. \A n \in 0..3 : n < q => (R(n + 1) = {} <=> R(n) = {})
    BY <1>4, <1>5, <1>9
  <2>2. q >= 1 => R(1) = {}
    BY <1>3, <1>4, <2>1
  <2>3. q >= 2 => R(2) = {}
    BY <1>4, <2>1, <2>2
  <2>4. q >= 3 => R(3) = {}
    BY <1>4, <2>1, <2>3
  <2>5. q = 0 \/ q = 1 \/ q = 2 \/ q = 3
    BY <1>4
  <2> QED
    BY <1>3, <2>2, <2>3, <2>4, <2>5
<1>11. R(q + 1) = crc8_update({}, B(q))
  BY <1>3, <1>4, <1>10
<1>12. CASE q = 3
  <2>1. B(q) # {}
    BY <1>8, <1>12
  <2>2. crc8_update({}, B(q)) # {}
    BY <1>1, <2>1, UpdateZero
  <2> QED
    BY <1>11, <1>12, <2>2 DEF R
<1>13. CASE q < 3
  <2>1. R(q + 2) # {}
    <3>1. q + 1 \in 0..3 /\ (q + 1) + 1 = q + 2 /\ q + 1 \in 0..4
      BY <1>4, <1>13
    <3>2. R(q + 2) = crc8_update(R(q + 1), B(q + 1)) /\ R(q + 1) \in Registers
      BY <1>2, <1>3, <3>1
    <3>3. R(q + 2) = {} => R(q + 1) = B(q + 1)
      BY <1>1, <3>2, UpdateZero
    <3>4. R(q + 1) = B(q + 1) => B(q) = {} /\ B(q + 1) = {}
      BY <1>4, <1>6, <1>7, <1>11, HighAndLow
    <3> QED
      BY <1>8, <3>3, <3>4
  <2>2. \A n \in 0..3 : n >= q + 2 => (R(n + 1) = {} <=> R(n) = {})
    BY <1>4, <1>5, <1>9
  <2>3. CASE q = 0
    <3>1. R(2) # {}
      BY <2>1, <2>3
    <3>2. R(3) # {}
      BY <2>2, <2>3, <3>1
    <3>3. R(4) # {}
      BY <2>2, <2>3, <3>2
    <3> QED
      BY <3>3 DEF R
  <2>4. CASE q = 1
    <3>1. R(3) # {}
      BY <2>1, <2>4
    <3>2. R(4) # {}
      BY <2>2, <2>4, <3>1
    <3> QED
      BY <3>2 DEF R
  <2>5. CASE q = 2
    <3>1. R(4) # {}
      BY <2>1, <2>5
    <3> QED
      BY <3>1 DEF R
  <2> QED
    BY <1>4, <1>13, <2>3, <2>4, <2>5
<1> QED
  BY <1>4, <1>12, <1>13

-----------------------------------------------------------------------------
(* What is sent and what arrives.                                          *)

Crc(f) == After(CRC8_INIT, Pack(f), 3)

\* The word that is sent, its CRC in the last byte.
Sent(f) == Pack(f) \cup {i + 24 : i \in Crc(f)}

HeaderInv ==
  /\ \E c \in Cases : header_info = c.fields /\ error = c.error
  /\ stage \in {"build", "check", "done"}
  /\ k \in 0..4 /\ (stage # "done" => k <= 3) /\ (stage = "done" => k = 4)
  /\ header = IF stage = "build" THEN Pack(header_info)
              ELSE Xor(Sent(header_info), error)
  /\ crc = After(CRC8_INIT, header, k)

LEMMA FieldTypes ==
  ASSUME NEW c \in Cases
  PROVE  /\ c.fields.data_rate \in 0..7 /\ c.fields.pilot_info \in 0..7
         /\ c.fields.burst_mode \in {0, 1} /\ c.fields.scrambler_seed \in {0, 1}
         /\ c.fields.PDSU_length \in 0..255
         /\ c.error \subseteq 0..31
BY PlcpAssumption

LEMMA HeaderStarts == Init => HeaderInv
BY AfterNext DEF Init, HeaderInv

LEMMA HeaderStep ==
  ASSUME HeaderInv, [Next]_vars
  PROVE  HeaderInv'
<1>1. CASE UNCHANGED vars
  BY <1>1 DEF vars, HeaderInv
<1>2. CASE BuildByte
  <2>1. k \in 0..3 /\ stage = "build" /\ k < 3 /\ k' = k + 1
        /\ crc' = crc8_update(crc, Byte(header, k))
        /\ UNCHANGED <<header_info, error, header, stage>>
    BY <1>2 DEF BuildByte, HeaderInv
  <2>2. crc' = After(CRC8_INIT, header, k + 1)
    BY <2>1, AfterNext DEF HeaderInv
  <2> QED
    BY <2>1, <2>2 DEF HeaderInv
<1>3. CASE Send
  <2>1. /\ stage = "build" /\ k = 3 /\ stage' = "check" /\ k' = 0 /\ crc' = CRC8_INIT
        /\ header' = Xor(header \cup {i + 24 : i \in crc}, error)
        /\ UNCHANGED <<header_info, error>>
    BY <1>3 DEF Send
  <2>2. header' = Xor(Sent(header_info), error)
    BY <2>1 DEF HeaderInv, Sent, Crc
  <2>3. crc' = After(CRC8_INIT, header', 0)
    BY <2>1, AfterNext
  <2> QED
    BY <2>1, <2>2, <2>3 DEF HeaderInv
<1>4. CASE CheckByte
  <2>1. /\ k \in 0..3 /\ stage = "check" /\ k' = k + 1
        /\ crc' = crc8_update(crc, Byte(header, k))
        /\ stage' = IF k = 3 THEN "done" ELSE "check"
        /\ UNCHANGED <<header_info, error, header>>
    BY <1>4 DEF CheckByte, HeaderInv
  <2>2. crc' = After(CRC8_INIT, header, k + 1)
    BY <2>1, AfterNext DEF HeaderInv
  <2> QED
    BY <2>1, <2>2 DEF HeaderInv
<1> QED
  BY <1>1, <1>2, <1>3, <1>4 DEF Next

\* Where the bits of a field go.
LEMMA ShiftedIs ==
  ASSUME NEW n, NEW shift \in Nat
  PROVE  /\ Shifted(n, shift) \subseteq shift..(shift + 7)
         /\ \A j \in 0..7 : shift + j \in Shifted(n, shift) <=> (n \div 2^j) % 2 = 1
<1>1. \A i \in 0..7 : i + shift \in shift..(shift + 7)
  OBVIOUS
<1>2. \A i, j \in 0..7 : i + shift = shift + j => i = j
  OBVIOUS
<1>3. \A j \in 0..7 : shift + j = j + shift
  OBVIOUS
<1> QED
  BY <1>1, <1>2, <1>3 DEF Shifted

LEMMA PackBelow ==
  ASSUME NEW f
  PROVE  Pack(f) \subseteq 0..23
<1>1. /\ Shifted(f.data_rate, 0) \subseteq 0..23
      /\ Shifted(f.pilot_info, 3) \subseteq 0..23
      /\ Shifted(f.burst_mode, 8) \subseteq 0..23
      /\ Shifted(f.scrambler_seed, 11) \subseteq 0..23
      /\ Shifted(f.PDSU_length, 16) \subseteq 0..23
  <2>1. \A shift \in 0..16 : shift \in Nat /\ shift..(shift + 7) \subseteq 0..23
    OBVIOUS
  <2> QED
    BY <2>1, ShiftedIs
<1> QED
  BY <1>1 DEF Pack

LEMMA CrcRegister ==
  ASSUME NEW w
  PROVE  \A n \in 0..4 : After(CRC8_INIT, w, n) \in Registers
<1>1. CRC8_INIT \in Registers
  BY DEF CRC8_INIT, Registers
<1> QED
  BY <1>1, AfterRegister

\* The CRC of the whole word that is sent is 0.
LEMMA SentIsClean ==
  ASSUME NEW f
  PROVE  After(CRC8_INIT, Sent(f), 4) = {}
<1>1. Crc(f) \in Registers
  BY CrcRegister DEF Crc
<1>2. \A n \in 0..2 : Byte(Sent(f), n) = Byte(Pack(f), n)
  <2> SUFFICES ASSUME NEW n \in 0..2, NEW i \in 0..7
               PROVE  8 * n + i \in Sent(f) <=> 8 * n + i \in Pack(f)
    BY DEF Byte
  <2>1. \A j \in Crc(f) : 8 * n + i # j + 24
    BY <1>1 DEF Registers
  <2> QED
    BY <2>1 DEF Sent
<1>3. Byte(Sent(f), 3) = Crc(f)
  <2>1. \A i \in 0..7 : 8 * 3 + i \in Sent(f) <=> i \in Crc(f)
    <3> SUFFICES ASSUME NEW i \in 0..7 PROVE 8 * 3 + i \in Sent(f) <=> i \in Crc(f)
      OBVIOUS
    <3>1. 8 * 3 + i \notin Pack(f)
      BY PackBelow
    <3>2. \A j \in Crc(f) : 8 * 3 + i = j + 24 <=> i = j
      BY <1>1 DEF Registers
    <3> QED
      BY <3>1, <3>2 DEF Sent
  <2> QED
    BY <1>1, <2>1 DEF Byte, Registers
<1>4. After(CRC8_INIT, Sent(f), 3) = Crc(f)
  <2>1. Byte(Sent(f), 0) = Byte(Pack(f), 0) /\ Byte(Sent(f), 1) = Byte(Pack(f), 1)
        /\ Byte(Sent(f), 2) = Byte(Pack(f), 2)
    BY <1>2
  <2> QED
    BY <2>1 DEF After, Crc
<1>5. After(CRC8_INIT, Sent(f), 3 + 1) = crc8_update(Crc(f), Crc(f))
  BY <1>3, <1>4, AfterNext
<1>6. crc8_update(Crc(f), Crc(f)) = {}
  BY <1>1, UpdateZero
<1> QED
  BY <1>5, <1>6

\* A header is accepted exactly when it arrives undamaged, whatever it says and
\* wherever the burst lies that damages it: rx_check_crc_ok never takes a burst
\* of up to eight bits for a header.
THEOREM BurstsAreDetected ==
  ASSUME \A c \in Cases : \E first \in Nat : c.error \subseteq first..(first + 7)
  PROVE  Spec => []DetectsBursts
<1>1. HeaderInv => DetectsBursts
  <2> SUFFICES ASSUME HeaderInv, stage = "done" PROVE crc = {} <=> error = {}
    BY DEF DetectsBursts
  <2>1. crc = After(CRC8_INIT, Xor(Sent(header_info), error), 4)
    BY DEF HeaderInv
  <2>2. CRC8_INIT \in Registers
    BY DEF CRC8_INIT, Registers
  <2>3. crc = Xor(After(CRC8_INIT, Sent(header_info), 4), After({}, error, 4))
    BY <2>1, <2>2, AfterLinear
  <2>4. crc = After({}, error, 4)
    BY <2>3, SentIsClean DEF Xor
  <2>5. CASE error = {}
    <3>1. {} = Xor({}, {})
      BY DEF Xor
    <3>2. After(CRC8_INIT, Sent(header_info), 4) = {}
      BY SentIsClean
    <3>3. Xor(Sent(header_info), {}) = Sent(header_info)
      BY DEF Xor
    <3> QED
      BY <2>1, <2>5, <3>2, <3>3
  <2>6. CASE error # {}
    <3>1. PICK c \in Cases : error = c.error
      BY DEF HeaderInv
    <3>2. PICK first \in Nat : error \subseteq first..(first + 7)
      BY <3>1
    <3>3. error \subseteq 0..31
      BY <3>1, FieldTypes
    <3>4. After({}, error, 4) # {}
      BY <2>6, <3>2, <3>3, BurstSeen
    <3> QED
      BY <2>4, <2>6, <3>4
  <2> QED
    BY <2>5, <2>6
<1> QED
  BY <1>1, HeaderStarts, HeaderStep, PTL DEF Spec

\* A small number has its bits at the bottom of its field.
LEMMA SmallFields ==
  ASSUME NEW shift \in Nat
  PROVE  /\ \A n \in {0, 1} : Shifted(n, shift) \subseteq {shift}
         /\ \A n \in 0..7 : Shifted(n, shift) \subseteq shift..(shift + 2)
<1> DEFINE Bit(n, j) == (n \div 2^j) % 2 = 1
<1>1. ASSUME NEW n \in 0..7, NEW j \in 0..7, Bit(n, j)
      PROVE  j <= 2 /\ (n <= 1 => j = 0)
  <2>1. ~Bit(n, 3) /\ ~Bit(n, 4) /\ ~Bit(n, 5) /\ ~Bit(n, 6) /\ ~Bit(n, 7)
    OBVIOUS
  <2>2. n <= 1 => ~Bit(n, 1) /\ ~Bit(n, 2)
    OBVIOUS
  <2> HIDE DEF Bit
  <2> QED
    BY <1>1, <2>1, <2>2
<1>2. ASSUME NEW n \in 0..7, NEW x \in Shifted(n, shift)
      PROVE  x \in shift..(shift + 2) /\ (n <= 1 => x = shift)
  <2>1. PICK j \in 0..7 : Bit(n, j) /\ x = j + shift
    BY DEF Shifted
  <2> HIDE DEF Bit
  <2> QED
    BY <1>1, <2>1
<1>3. \A n \in {0, 1} : n \in 0..7 /\ n <= 1
  OBVIOUS
<1> QED
  BY <1>2, <1>3

\* No field runs into another.
LEMMA FieldBits ==
  ASSUME NEW c \in Cases
  PROVE  LET f == c.fields
         IN  /\ \A j \in 0..7 : 16 + j \in Pack(f) <=> (f.PDSU_length \div 2^j) % 2 = 1
             /\ 11 \in Pack(f) <=> (f.scrambler_seed \div 2^0) % 2 = 1
             /\ \A j \in 0..2 : j \in Pack(f) <=> (f.data_rate \div 2^j) % 2 = 1
<1> DEFINE f == c.fields
<1>1. /\ Shifted(f.data_rate, 0) \subseteq 0..2
      /\ Shifted(f.pilot_info, 3) \subseteq 3..5
      /\ Shifted(f.burst_mode, 8) \subseteq {8}
      /\ Shifted(f.scrambler_seed, 11) \subseteq {11}
      /\ Shifted(f.PDSU_length, 16) \subseteq 16..23
  <2>1. Shifted(f.data_rate, 0) \subseteq 0..(0 + 2)
    BY FieldTypes, SmallFields
  <2>2. Shifted(f.pilot_info, 3) \subseteq 3..(3 + 2)
    BY FieldTypes, SmallFields
  <2>3. Shifted(f.burst_mode, 8) \subseteq {8} /\ Shifted(f.scrambler_seed, 11) \subseteq {11}
    BY FieldTypes, SmallFields
  <2>4. Shifted(f.PDSU_length, 16) \subseteq 16..(16 + 7)
    BY ShiftedIs
  <2> QED
    BY <2>1, <2>2, <2>3, <2>4
<1>2. \A j \in 0..7 : 16 + j \in Pack(f) <=> 16 + j \in Shifted(f.PDSU_length, 16)
  BY <1>1 DEF Pack
<1>3. 11 \in Pack(f) <=> 11 + 0 \in Shifted(f.scrambler_seed, 11)
  BY <1>1 DEF Pack
<1>4. \A j \in 0..2 : j \in Pack(f) <=> 0 + j \in Shifted(f.data_rate, 0)
  BY <1>1 DEF Pack
<1> HIDE DEF f
<1>5. \A j \in 0..7 : 16 + j \in Shifted(f.PDSU_length, 16) <=> (f.PDSU_length \div 2^j) % 2 = 1
  BY ShiftedIs
<1>6. 11 + 0 \in Shifted(f.scrambler_seed, 11) <=> (f.scrambler_seed \div 2^0) % 2 = 1
  BY ShiftedIs
<1>7. \A j \in 0..7 : 0 + j \in Shifted(f.data_rate, 0) <=> (f.data_rate \div 2^j) % 2 = 1
  BY ShiftedIs
<1>8. \A j \in 0..2 : j \in Pack(f) <=> (f.data_rate \div 2^j) % 2 = 1
  <2>1. \A j \in 0..2 : j \in 0..7 /\ 0 + j = j
    OBVIOUS
  <2> QED
    BY <1>4, <1>7, <2>1
<1> QED
  BY <1>2, <1>3, <1>5, <1>6, <1>8 DEF f

\* HDR_READ gets back a number whose bits are at the mask's.
LEMMA ReadsBackByte ==
  ASSUME NEW w, NEW n \in 0..255,
         \A j \in 0..7 : 16 + j \in w <=> (n \div 2^j) % 2 = 1
  PROVE  Read(w, 16, 23) = n
<1> DEFINE d(j) == (n \div 2^j) % 2
<1>1. PICK value : /\ value[23 + 1] = 0
                   /\ \A i \in 16..23 :
                        value[i] = (IF i \in w THEN 1 ELSE 0) + 2 * value[i + 1]
                   /\ Read(w, 16, 23) = value[16]
  BY ReadBits
<1>2. \A j \in 0..7 : (IF 16 + j \in w THEN 1 ELSE 0) = d(j)
  <2>1. \A j \in 0..7 : d(j) = 0 \/ d(j) = 1
    <3> SUFFICES ASSUME NEW j \in 0..7 PROVE d(j) = 0 \/ d(j) = 1
      OBVIOUS
    <3>1. j = 0 \/ j = 1 \/ j = 2 \/ j = 3 \/ j = 4 \/ j = 5 \/ j = 6 \/ j = 7
      OBVIOUS
    <3> QED
      BY <3>1
  <2> QED
    BY <2>1
<1>3. \A j \in 0..7 : value[16 + j] = d(j) + 2 * value[(16 + j) + 1]
  <2> HIDE DEF d
  <2>1. \A j \in 0..7 : 16 + j \in 16..23
    OBVIOUS
  <2> QED
    BY <1>1, <1>2, <2>1
<1>4. /\ value[24] = 0 /\ value[23] = d(7) + 2 * value[24] /\ value[22] = d(6) + 2 * value[23]
      /\ value[21] = d(5) + 2 * value[22] /\ value[20] = d(4) + 2 * value[21]
      /\ value[19] = d(3) + 2 * value[20] /\ value[18] = d(2) + 2 * value[19]
      /\ value[17] = d(1) + 2 * value[18] /\ value[16] = d(0) + 2 * value[17]
  <2> HIDE DEF d
  <2> QED
    BY <1>1, <1>3
<1>5. n = d(0) + 2 * (d(1) + 2 * (d(2) + 2 * (d(3) + 2 * (d(4) + 2 * (d(5) + 2 * (d(6) + 2 * d(7)))))))
  OBVIOUS
<1> QED
  BY <1>1, <1>4, <1>5

LEMMA ReadsBackSmall ==
  ASSUME NEW w, NEW n \in 0..7, \A j \in 0..2 : j \in w <=> (n \div 2^j) % 2 = 1
  PROVE  Read(w, 0, 2) = n
<1> DEFINE d(j) == (n \div 2^j) % 2
<1>1. PICK value : /\ value[2 + 1] = 0
                   /\ \A i \in 0..2 :
                        value[i] = (IF i \in w THEN 1 ELSE 0) + 2 * value[i + 1]
                   /\ Read(w, 0, 2) = value[0]
  BY ReadBits
<1>2. /\ d(0) \in {0, 1} /\ d(1) \in {0, 1} /\ d(2) \in {0, 1}
      /\ n = d(0) + 2 * (d(1) + 2 * d(2))
  OBVIOUS
<1>3. /\ (IF 0 \in w THEN 1 ELSE 0) = d(0)
      /\ (IF 1 \in w THEN 1 ELSE 0) = d(1)
      /\ (IF 2 \in w THEN 1 ELSE 0) = d(2)
  BY <1>2
<1>4. /\ value[3] = 0 /\ value[2] = d(2) + 2 * value[3] /\ value[1] = d(1) + 2 * value[2]
      /\ value[0] = d(0) + 2 * value[1]
  <2> HIDE DEF d
  <2> QED
    BY <1>1, <1>3
<1> QED
  BY <1>1, <1>2, <1>4

LEMMA ReadsBackBit ==
  ASSUME NEW w, NEW n \in {0, 1}, 11 \in w <=> (n \div 2^0) % 2 = 1
  PROVE  Read(w, 11, 11) = n
<1>1. PICK value : /\ value[11 + 1] = 0
                   /\ \A i \in 11..11 :
                        value[i] = (IF i \in w THEN 1 ELSE 0) + 2 * value[i + 1]
                   /\ Read(w, 11, 11) = value[11]
  BY ReadBits
<1>2. (n \div 2^0) % 2 = n
  OBVIOUS
<1> QED
  BY <1>1, <1>2

\* A header that arrives undamaged tells the receiver the length, the seed and
\* the rate that were sent, for all their values.
THEOREM UndamagedHeadersTell == Spec => []FieldsRoundTrip
<1>1. HeaderInv => FieldsRoundTrip
  <2> SUFFICES ASSUME HeaderInv, stage = "done", error = {}
               PROVE  /\ Read(header, 16, 23) = header_info.PDSU_length
                      /\ Read(header, 11, 11) = header_info.scrambler_seed
                      /\ Read(header, 0, 2) = header_info.data_rate
    BY DEF FieldsRoundTrip
  <2>1. PICK c \in Cases : header_info = c.fields
    BY DEF HeaderInv
  <2>2. header = Sent(c.fields)
    BY <2>1 DEF HeaderInv, Xor
  <2>3. \A i \in 0..23 : i \in header <=> i \in Pack(c.fields)
    <3>1. \A j \in Crc(c.fields) : j + 24 \notin 0..23
      BY CrcRegister DEF Crc, Registers
    <3> QED
      BY <2>2, <3>1 DEF Sent
  <2>4. /\ \A j \in 0..7 : 16 + j \in header <=> (c.fields.PDSU_length \div 2^j) % 2 = 1
        /\ 11 \in header <=> (c.fields.scrambler_seed \div 2^0) % 2 = 1
        /\ \A j \in 0..2 : j \in header <=> (c.fields.data_rate \div 2^j) % 2 = 1
    BY <2>3, FieldBits
  <2> QED
    BY <2>1, <2>4, FieldTypes, ReadsBackByte, ReadsBackBit, ReadsBackSmall
<1> QED
  BY <1>1, HeaderStarts, HeaderStep, PTL DEF Spec


-----------------------------------------------------------------------------
(* The remainder.                                                          *)

Message(w, n) == {j \in w : j < 8 * n}
Dividend(w, n) == {(8 * n + 7) - i : i \in Xor(Message(w, n), 0..7)}

\* The steps of the long division.
LEMMA Division ==
  ASSUME NEW w, NEW n \in 0..4
  PROVE  \E rem :
           /\ rem[8 * n + 7] = Dividend(w, n)
           /\ \A d \in 7..(8 * n + 6) : rem[d] = Cancel(rem[d + 1], d + 1)
           /\ Remainder(w, n) = rem[7]
<1> DEFINE degree == 8 * n + 7
           dividend == {degree - i : i \in Xor({j \in w : j < 8 * n}, 0..7)}
           D == 7..degree
           From(m) == {d \in D : d + m >= degree}
           Rule(g, d) == IF d = degree THEN dividend ELSE Cancel(g[d + 1], d + 1)
           More(g, m) == [d \in From(m + 1) |-> IF d \in From(m) THEN g[d] ELSE Rule(g, d)]
           S == {m \in Nat : \E g : g = [d \in From(m) |-> Rule(g, d)]}
<1>1. 0 \in S
  <2> HIDE DEF dividend
  <2>1. From(0) = {degree}
    OBVIOUS
  <2>2. PICK g : g = [d \in {degree} |-> dividend]
    OBVIOUS
  <2>3. g = [d \in From(0) |-> Rule(g, d)]
    BY <2>1, <2>2
  <2> QED
    BY <2>3
<1>2. ASSUME NEW m \in Nat, m \in S PROVE m + 1 \in S
  <2> HIDE DEF dividend
  <2>1. PICK g : g = [d \in From(m) |-> Rule(g, d)]
    BY <1>2
  <2>2. PICK h : h = More(g, m)
    OBVIOUS
  <2>3. \A d \in From(m + 1) : /\ d \in From(m) => h[d] = g[d]
                               /\ d \notin From(m) => h[d] = Rule(g, d)
    BY <2>2
  <2>4. \A d \in From(m + 1) : d # degree => d + 1 \in From(m) /\ d + 1 \in From(m + 1)
    OBVIOUS
  <2>5. \A d \in From(m + 1) : Rule(h, d) = Rule(g, d)
    BY <2>3, <2>4
  <2>6. \A d \in From(m) : g[d] = Rule(g, d)
    BY <2>1
  <2>7. \A d \in From(m + 1) : h[d] = Rule(h, d)
    BY <2>3, <2>5, <2>6
  <2>8. h = [d \in From(m + 1) |-> h[d]]
    BY <2>2
  <2>9. h = [d \in From(m + 1) |-> Rule(h, d)]
    BY <2>7, <2>8
  <2> QED
    BY <2>9
<1>3. degree - 7 \in S
  <2> HIDE DEF S
  <2>1. Nat \subseteq S
    BY ONLY <1>1, <1>2, Induction
  <2> QED
    BY <2>1
<1>4. From(degree - 7) = D
  OBVIOUS
<1>5. \E g : g = [d \in D |-> Rule(g, d)]
  <2> QED
    BY <1>3, <1>4
<1>6. PICK rem : /\ rem = [d \in D |-> Rule(rem, d)]
                 /\ Remainder(w, n) = rem[7]
  BY <1>5 DEF Remainder
<1>7. dividend = Dividend(w, n)
  BY Zenon DEF Dividend, Message
<1> HIDE DEF dividend
<1>8. \A d \in D : rem[d] = Rule(rem, d)
  BY <1>6
<1>9. degree \in D /\ \A d \in 7..(8 * n + 6) : d \in D /\ d # degree
  OBVIOUS
<1>10. rem[8 * n + 7] = Dividend(w, n) /\ \A d \in 7..(8 * n + 6) : rem[d] = Cancel(rem[d + 1], d + 1)
  BY <1>7, <1>8, <1>9
<1> QED
  BY <1>6, <1>10

\* A step of the division, bit by bit.
LEMMA CancelIs ==
  ASSUME NEW p, p \subseteq Int, NEW d \in Int
  PROVE  /\ Cancel(p, d) \subseteq Int
         /\ d \notin p => Cancel(p, d) = p
         /\ d \in p =>
              \A x \in Int : x \in Cancel(p, d) <=> \/ x \in p /\ x + 8 - d \notin Generator
                                                    \/ x \notin p /\ x + 8 - d \in Generator
<1> DEFINE terms == {g + d - 8 : g \in Generator}
<1>1. Generator \subseteq Int
  BY DEF Generator
<1>2. terms \subseteq Int
  BY <1>1
<1>3. \A x \in Int : x \in terms <=> x + 8 - d \in Generator
  <2>1. \A x \in Int : x = (x + 8 - d) + d - 8
    OBVIOUS
  <2>2. \A x \in Int, g \in Generator : x = g + d - 8 => x + 8 - d = g
    BY <1>1
  <2> QED
    BY <2>1, <2>2
<1>4. Cancel(p, d) = IF d \in p THEN Xor(p, terms) ELSE p
  BY DEF Cancel
<1> HIDE DEF terms
<1> QED
  BY <1>2, <1>3, <1>4, XorIs DEF Xor

\* A turn of the loop is such a step: the register's bit i is the term of the
\* polynomial i below its highest.
LEMMA TurnIs ==
  ASSUME NEW c \in Registers
  PROVE  /\ 0 \notin c => \A y \in Int : y \in CrcBit(c) <=> y + 1 \in c
         /\ 0 \in c =>
              \A y \in Int : y \in CrcBit(c) <=> \/ y + 1 \in c /\ 7 - y \notin Generator
                                                 \/ y + 1 \notin c /\ 7 - y \in Generator
<1>1. CrcBit(c) \subseteq 0..7 /\ c \subseteq 0..7
  BY CrcBitIs DEF Registers
<1>2. \A y \in 0..7 : 7 - y \in Generator <=> y \in CRC8_POLY
  BY DEF Generator, CRC8_POLY
<1>3. \A y \in Int : y \notin 0..7 => /\ 7 - y \in Generator <=> y = -1
                                      /\ y + 1 \in c <=> (y = -1 /\ 0 \in c)
  BY <1>1 DEF Generator
<1>4. \A y \in Int : y \notin 0..7 => y \notin CrcBit(c)
  BY <1>1
<1> QED
  BY <1>2, <1>3, <1>4, CrcBitIs

\* What is left of the dividend is what the register holds, its bit 0 at the
\* term x^d, and the bytes still to come.
Divided(p, d, c, tail) ==
  /\ p \subseteq Int
  /\ \A x \in Int : x \in p <=> \/ d - x \in c /\ x \notin tail
                                \/ d - x \notin c /\ x \in tail

LEMMA TurnDivides ==
  ASSUME NEW p, NEW d \in Int, NEW c \in Registers, NEW tail,
         Divided(p, d, c, tail), d \notin tail
  PROVE  Divided(Cancel(p, d), d - 1, CrcBit(c), tail)
<1>1. p \subseteq Int
  BY DEF Divided
<1>2. d - d = 0
  OBVIOUS
<1>3. d \in p <=> 0 \in c
  BY <1>2 DEF Divided
<1>4. \A x \in Int : /\ d - x \in Int /\ d - 1 - x \in Int /\ (d - 1 - x) + 1 = d - x
                     /\ 7 - (d - 1 - x) = x + 8 - d
  OBVIOUS
<1>5. ASSUME NEW x \in Int
      PROVE  x \in Cancel(p, d) <=> \/ d - 1 - x \in CrcBit(c) /\ x \notin tail
                                    \/ d - 1 - x \notin CrcBit(c) /\ x \in tail
  <2>1. x \in p <=> \/ d - x \in c /\ x \notin tail
                    \/ d - x \notin c /\ x \in tail
    BY DEF Divided
  <2>2. CASE 0 \in c
    <3>1. x \in Cancel(p, d) <=> \/ x \in p /\ x + 8 - d \notin Generator
                                 \/ x \notin p /\ x + 8 - d \in Generator
      BY <1>1, <1>3, <2>2, CancelIs
    <3>2. d - 1 - x \in CrcBit(c) <=> \/ d - x \in c /\ x + 8 - d \notin Generator
                                      \/ d - x \notin c /\ x + 8 - d \in Generator
      BY <1>4, <2>2, TurnIs
    <3> QED
      BY ONLY <2>1, <3>1, <3>2, Zenon
  <2>3. CASE 0 \notin c
    <3>1. x \in Cancel(p, d) <=> x \in p
      BY <1>1, <1>3, <2>3, CancelIs
    <3>2. d - 1 - x \in CrcBit(c) <=> d - x \in c
      BY <1>4, <2>3, TurnIs
    <3> QED
      BY ONLY <2>1, <3>1, <3>2, Zenon
  <2> QED
    BY <2>2, <2>3
<1> QED
  BY <1>1, <1>5, CancelIs DEF Divided

LEMMA ByteDivides ==
  ASSUME NEW rem, NEW d \in Int, NEW c \in Registers, NEW data \in Registers, NEW tail,
         \A i \in 0..7 : /\ d - i \notin tail
                         /\ rem[d - (i + 1)] = Cancel(rem[d - i], d - i),
         Divided(rem[d], d, Xor(c, data), tail)
  PROVE  Divided(rem[d - 8], d - 8, crc8_update(c, data), tail)
<1>1. PICK reg : /\ reg[0] = Xor(c, data) /\ \A i \in 0..8 : reg[i] \in Registers
                 /\ \A i \in 0..7 : reg[i + 1] = CrcBit(reg[i])
                 /\ crc8_update(c, data) = reg[8]
  BY CrcUpdate
<1> DEFINE Done(i) == Divided(rem[d - i], d - i, reg[i], tail)
<1>2. d - 0 = d
  OBVIOUS
<1>3. Done(0)
  BY <1>1, <1>2
<1>4. ASSUME NEW i \in 0..7, Done(i) PROVE Done(i + 1)
  <2>1. d - i \in Int /\ (d - i) - 1 = d - (i + 1) /\ i \in 0..8
    OBVIOUS
  <2>2. reg[i] \in Registers /\ reg[i + 1] = CrcBit(reg[i])
    BY <1>1, <2>1
  <2>3. Divided(Cancel(rem[d - i], d - i), (d - i) - 1, CrcBit(reg[i]), tail)
    BY <1>4, <2>1, <2>2, TurnDivides
  <2> QED
    BY <2>1, <2>2, <2>3
<1> HIDE DEF Done
<1>5. Done(1) /\ Done(2)
  BY <1>3, <1>4
<1>6. Done(3) /\ Done(4)
  BY <1>4, <1>5
<1>7. Done(5) /\ Done(6)
  BY <1>4, <1>6
<1>8. Done(7) /\ Done(8)
  BY <1>4, <1>7
<1> QED
  BY <1>1, <1>8 DEF Done

\* The terms of the bytes from m on, of n bytes.
Rest(w, n, m) ==
  {x \in Int : /\ 8 * n + 7 - x \in w
               /\ 8 * m <= 8 * n + 7 - x /\ 8 * n + 7 - x < 8 * n}

LEMMA NextByte ==
  ASSUME NEW w, NEW n \in 0..4, NEW m \in 0..3, m < n, NEW p, NEW c \in Registers,
         Divided(p, 8 * (n - m) + 7, c, Rest(w, n, m))
  PROVE  Divided(p, 8 * (n - m) + 7, Xor(c, Byte(w, m)), Rest(w, n, m + 1))
<1> DEFINE d == 8 * (n - m) + 7
           B == Byte(w, m)
<1>1. ASSUME NEW x \in Int
      PROVE  /\ x \in Rest(w, n, m) <=> (d - x \in B \/ x \in Rest(w, n, m + 1))
             /\ ~(d - x \in B /\ x \in Rest(w, n, m + 1))
  <2>1. 8 * m + (d - x) = 8 * n + 7 - x
    OBVIOUS
  <2>2. d - x \in B <=> d - x \in 0..7 /\ 8 * n + 7 - x \in w
    BY <2>1 DEF Byte
  <2>3. x \in Rest(w, n, m) <=> /\ 8 * n + 7 - x \in w
                                /\ 8 * m <= 8 * n + 7 - x /\ 8 * n + 7 - x < 8 * n
    BY DEF Rest
  <2>4. x \in Rest(w, n, m + 1) <=> /\ 8 * n + 7 - x \in w
                                    /\ 8 * (m + 1) <= 8 * n + 7 - x /\ 8 * n + 7 - x < 8 * n
    BY DEF Rest
  <2>5. d - x \in 0..7 <=> 8 * m <= 8 * n + 7 - x /\ ~(8 * (m + 1) <= 8 * n + 7 - x)
    OBVIOUS
  <2>6. 8 * (m + 1) <= 8 * n + 7 - x => 8 * m <= 8 * n + 7 - x
    OBVIOUS
  <2>7. ~(8 * (m + 1) <= 8 * n + 7 - x) => 8 * n + 7 - x < 8 * n
    OBVIOUS
  <2> QED
    BY ONLY <2>2, <2>3, <2>4, <2>5, <2>6, <2>7, Zenon
<1>2. ASSUME NEW x \in Int
      PROVE  x \in p <=> \/ d - x \in Xor(c, B) /\ x \notin Rest(w, n, m + 1)
                         \/ d - x \notin Xor(c, B) /\ x \in Rest(w, n, m + 1)
  <2>1. x \in p <=> \/ d - x \in c /\ x \notin Rest(w, n, m)
                    \/ d - x \notin c /\ x \in Rest(w, n, m)
    BY DEF Divided
  <2>2. d - x \in Xor(c, B) <=> \/ d - x \in c /\ d - x \notin B
                                \/ d - x \notin c /\ d - x \in B
    <3> HIDE DEF d, B
    <3> QED
      BY Zenon DEF Xor
  <2> HIDE DEF d, B
  <2> QED
    BY ONLY <1>1, <2>1, <2>2, Zenon
<1> QED
  BY <1>2 DEF Divided

\* Long division and crc8_update keep step, byte by byte.
LEMMA RegisterIsRemainder ==
  ASSUME NEW w, w \subseteq Nat, NEW n \in 0..4
  PROVE  {7 - i : i \in After(CRC8_INIT, w, n)} = Remainder(w, n)
<1> DEFINE C(m) == After(CRC8_INIT, w, m)
<1>1. PICK rem :
        /\ rem[8 * n + 7] = Dividend(w, n)
        /\ \A d \in 7..(8 * n + 6) : rem[d] = Cancel(rem[d + 1], d + 1)
        /\ Remainder(w, n) = rem[7]
  BY Division
<1> DEFINE Done(m) == Divided(rem[8 * (n - m) + 7], 8 * (n - m) + 7, C(m), Rest(w, n, m))
<1>2. Done(0)
  <2> DEFINE msg == Message(w, n)
             d   == 8 * n + 7
  <2>1. 8 * (n - 0) + 7 = d /\ C(0) = 0..7
    BY AfterNext DEF CRC8_INIT
  <2>2. Xor(msg, 0..7) \subseteq Int
    <3>1. msg \subseteq w /\ 0..7 \subseteq Int
      BY DEF Message
    <3> HIDE DEF msg
    <3> QED
      BY <3>1 DEF Xor
  <2>3. \A x \in Int : x \in Rest(w, n, 0) <=> d - x \in msg
    <3> SUFFICES ASSUME NEW x \in Int
                 PROVE  x \in Rest(w, n, 0) <=> d - x \in msg
      OBVIOUS
    <3>1. d - x \in w => 8 * 0 <= d - x
      OBVIOUS
    <3> QED
      BY <3>1 DEF Rest, Message
  <2>4. rem[d] = {d - i : i \in Xor(msg, 0..7)}
    <3>1. Dividend(w, n) = {d - i : i \in Xor(msg, 0..7)}
      BY Zenon DEF Dividend
    <3>2. rem[d] = Dividend(w, n)
      BY <1>1
    <3> QED
      BY ONLY <3>1, <3>2, Zenon
  <2> HIDE DEF msg
  <2>5. \A x \in Int : x \in rem[d] <=> d - x \in Xor(msg, 0..7)
    <3>1. d \in Int
      OBVIOUS
    <3> HIDE DEF d
    <3>2. \A x \in Int : d - (d - x) = x
      BY <3>1
    <3>3. \A x \in Int, i \in Xor(msg, 0..7) : x = d - i => i = d - x
      BY <2>2, <3>1
    <3> QED
      BY <2>4, <3>2, <3>3
  <2>6. rem[d] \subseteq Int
    BY <2>2, <2>4
  <2> HIDE DEF d
  <2>7. \A x \in Int : x \in rem[d] <=> \/ d - x \in 0..7 /\ x \notin Rest(w, n, 0)
                                        \/ d - x \notin 0..7 /\ x \in Rest(w, n, 0)
    <3> SUFFICES ASSUME NEW x \in Int
                 PROVE  x \in rem[d] <=> \/ d - x \in 0..7 /\ x \notin Rest(w, n, 0)
                                         \/ d - x \notin 0..7 /\ x \in Rest(w, n, 0)
      OBVIOUS
    <3>1. d - x \in Xor(msg, 0..7) <=> \/ d - x \in msg /\ d - x \notin 0..7
                                       \/ d - x \notin msg /\ d - x \in 0..7
      BY Zenon DEF Xor
    <3>2. x \in Rest(w, n, 0) <=> d - x \in msg
      BY <2>3
    <3>3. x \in rem[d] <=> d - x \in Xor(msg, 0..7)
      BY <2>5
    <3> QED
      BY ONLY <3>1, <3>2, <3>3, Zenon
  <2>8. Divided(rem[d], d, 0..7, Rest(w, n, 0))
    BY <2>6, <2>7 DEF Divided
  <2> QED
    BY <2>1, <2>8
<1>3. ASSUME NEW m \in 0..3, m < n, Done(m) PROVE Done(m + 1)
  <2> DEFINE d == 8 * (n - m) + 7
  <2>1. C(m) \in Registers /\ Byte(w, m) \in Registers
    BY CrcRegister, ByteIs
  <2>2. Divided(rem[d], d, Xor(C(m), Byte(w, m)), Rest(w, n, m + 1))
    BY <1>3, <2>1, NextByte
  <2>3. \A i \in 0..7 : /\ d - i \notin Rest(w, n, m + 1)
                        /\ rem[d - (i + 1)] = Cancel(rem[d - i], d - i)
    <3> SUFFICES ASSUME NEW i \in 0..7
                 PROVE  /\ d - i \notin Rest(w, n, m + 1)
                        /\ rem[d - (i + 1)] = Cancel(rem[d - i], d - i)
      OBVIOUS
    <3>1. /\ d - (i + 1) \in 7..(8 * n + 6) /\ (d - (i + 1)) + 1 = d - i
      BY <1>3
    <3>2. ~(8 * (m + 1) <= 8 * n + 7 - (d - i))
      BY <1>3
    <3> QED
      BY <1>1, <3>1, <3>2 DEF Rest
  <2>4. d \in Int /\ d - 8 = 8 * (n - (m + 1)) + 7
    OBVIOUS
  <2>5. C(m + 1) = crc8_update(C(m), Byte(w, m))
    BY AfterNext
  <2> HIDE DEF d, C
  <2>6. Divided(rem[d - 8], d - 8, crc8_update(C(m), Byte(w, m)), Rest(w, n, m + 1))
    BY <2>1, <2>2, <2>3, <2>4, ByteDivides
  <2> QED
    BY <2>4, <2>5, <2>6
<1>4. Done(n)
  <2> HIDE DEF Done
  <2>1. n >= 1 => Done(1)
    BY <1>2, <1>3
  <2>2. n >= 2 => Done(2)
    BY <1>3, <2>1
  <2>3. n >= 3 => Done(3)
    BY <1>3, <2>2
  <2>4. n >= 4 => Done(4)
    BY <1>3, <2>3
  <2>5. n = 0 \/ n = 1 \/ n = 2 \/ n = 3 \/ n = 4
    OBVIOUS
  <2> QED
    BY <1>2, <2>1, <2>2, <2>3, <2>4, <2>5
<1>5. C(n) \subseteq 0..7
  BY CrcRegister DEF Registers
<1> HIDE DEF C
<1>6. 8 * (n - n) + 7 = 7
  OBVIOUS
<1>7. Divided(rem[7], 7, C(n), Rest(w, n, n))
  BY <1>4, <1>6
<1>8. Rest(w, n, n) = {}
  BY DEF Rest
<1>9. rem[7] \subseteq Int /\ \A x \in Int : x \in rem[7] <=> 7 - x \in C(n)
  BY <1>7, <1>8 DEF Divided
<1>10. \A i \in C(n) : 7 - i \in Int /\ 7 - (7 - i) = i
  BY <1>5
<1>11. \A x \in rem[7] : 7 - x \in C(n) /\ 7 - (7 - x) = x
  BY <1>9
<1>12. {7 - i : i \in C(n)} = rem[7]
  BY ONLY <1>9, <1>10, <1>11
<1> QED
  BY <1>1, <1>12 DEF C

\* The CRC is the remainder that the comment at CRC8_POLY promises, of every
\* word that is sent or received.
THEOREM CrcMeetsComment == Spec => []CrcIsRemainder
<1>1. HeaderInv => CrcIsRemainder
  <2> SUFFICES ASSUME HeaderInv PROVE {7 - i : i \in crc} = Remainder(header, k)
    BY DEF CrcIsRemainder
  <2>1. header \subseteq Nat
    <3>1. Pack(header_info) \subseteq Nat
      BY PackBelow
    <3>2. Sent(header_info) \subseteq Nat
      BY <3>1, CrcRegister DEF Sent, Crc, Registers
    <3>3. error \subseteq Nat
      BY FieldTypes DEF HeaderInv
    <3> QED
      BY <3>1, <3>2, <3>3 DEF HeaderInv, Xor
  <2> QED
    BY <2>1, RegisterIsRemainder DEF HeaderInv
<1> QED
  BY <1>1, HeaderStarts, HeaderStep, PTL DEF Spec

=============================================================================
