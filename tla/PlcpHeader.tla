----------------------------- MODULE PlcpHeader -----------------------------
(***************************************************************************)
(* The PLCP header of a frame (Table 82): how build_tx_plcp_header packs   *)
(* the fields and their CRC-8 into a word, the medium may damage a burst   *)
(* of its bits, and rx_check_crc_ok and the HDR_READ macros judge and read *)
(* what arrives.  One step is one call of crc8_update.                     *)
(* A word or a byte is the set of the bits that are 1 in it.               *)
(***************************************************************************)
EXTENDS Integers, Sequences

CONSTANT
  Cases  \* what is sent and what happens to it: [fields, error], the fields
         \* [data_rate, pilot_info, burst_mode, scrambler_seed, PDSU_length]
         \* and the set of the word's bits that are inverted

ASSUME PlcpAssumption ==
  \A c \in Cases :
    /\ c.fields.data_rate \in 0..7 /\ c.fields.pilot_info \in 0..7
    /\ c.fields.burst_mode \in {0, 1} /\ c.fields.scrambler_seed \in {0, 1}
    /\ c.fields.PDSU_length \in 0..255
    /\ c.error \subseteq 0..31

VARIABLES
  header_info,  \* the fields sent
  error,        \* the bits the medium inverts
  header,       \* header_bits, then the word received
  stage, k, crc \* "build", "check" or "done", and crc8_update's progress

vars == <<header_info, error, header, stage, k, crc>>

-----------------------------------------------------------------------------
(* crc8_update.                                                            *)

Xor(a, b) == (a \ b) \cup (b \ a)
Byte(w, n) == {i \in 0..7 : 8 * n + i \in w}

\* Mutant: the polynomial's bits in reverse.
POLY_MSB == {0, 2, 3, 7}

CRC8_POLY == {0, 4, 5, 7}
CRC8_INIT == 0..7

ShiftRight(c) == {i - 1 : i \in c \ {0}}

\* One turn of the loop.
CrcBit(c) == IF 0 \in c THEN Xor(ShiftRight(c), CRC8_POLY) ELSE ShiftRight(c)

\* Mutant: one turn too few.
CrcUpdateSeven(c, data) ==
  LET reg[i \in 0..7] == IF i = 0 THEN Xor(c, data) ELSE CrcBit(reg[i - 1])
  IN  reg[7]

crc8_update(c, data) ==
  LET reg[i \in 0..8] == IF i = 0 THEN Xor(c, data) ELSE CrcBit(reg[i - 1])
  IN  reg[8]

-----------------------------------------------------------------------------
(* The fields.                                                             *)

\* A number's bits, shifted up.
Shifted(n, shift) == {i + shift : i \in {j \in 0..7 : (n \div 2^j) % 2 = 1}}

\* header_bits before the CRC
Pack(f) ==
  Shifted(f.data_rate, 0) \cup Shifted(f.pilot_info, 3)
    \cup Shifted(f.burst_mode, 8) \cup Shifted(f.scrambler_seed, 11)
    \cup Shifted(f.PDSU_length, 16)

\* HDR_READ, for the member whose mask is the bits first..last
Read(w, first, last) ==
  LET value[i \in first..(last + 1)] ==
        IF i > last THEN 0 ELSE (IF i \in w THEN 1 ELSE 0) + 2 * value[i + 1]
  IN  value[first]

Init ==
  /\ \E c \in Cases : header_info = c.fields /\ error = c.error
  /\ header = Pack(header_info)
  /\ stage = "build" /\ k = 0 /\ crc = CRC8_INIT

\* crc8(header_bits), a byte at a time
BuildByte ==
  /\ stage = "build" /\ k < 3
  /\ crc' = crc8_update(crc, Byte(header, k)) /\ k' = k + 1
  /\ UNCHANGED <<header_info, error, header, stage>>

\* The CRC goes into the word's last byte and the word through the medium,
\* which is external.
Send ==
  /\ stage = "build" /\ k = 3
  /\ header' = Xor(header \cup {i + 24 : i \in crc}, error)
  /\ stage' = "check" /\ k' = 0 /\ crc' = CRC8_INIT
  /\ UNCHANGED <<header_info, error>>

\* rx_check_crc_ok
CheckByte ==
  /\ stage = "check"
  /\ crc' = crc8_update(crc, Byte(header, k)) /\ k' = k + 1
  /\ stage' = IF k = 3 THEN "done" ELSE "check"
  /\ UNCHANGED <<header_info, error, header>>

Next == BuildByte \/ Send \/ CheckByte

Spec == Init /\ [][Next]_vars

-----------------------------------------------------------------------------
(* Properties.                                                             *)

\* The comment at CRC8_POLY as a reference definition: the remainder modulo
\* x^8 + x^7 + x^3 + x^2 + 1 of the message, its bits read low bit first, its
\* first byte inverted (CRC8_INIT) and followed by 8 zero bits: long division
\* of a polynomial, the set of its exponents.
Generator == {0, 2, 3, 7, 8}

\* Cancel a polynomial's term x^d, if it has one.
Cancel(p, d) == IF d \in p THEN Xor(p, {g + d - 8 : g \in Generator}) ELSE p

Remainder(w, bytes) ==
  LET degree == 8 * bytes + 7
      dividend == {degree - i : i \in Xor({j \in w : j < 8 * bytes}, 0..7)}
      rem[d \in 7..degree] ==
        IF d = degree THEN dividend ELSE Cancel(rem[d + 1], d + 1)
  IN  rem[7]

\* crc8_update computes that remainder after every byte, of what is sent and
\* of whatever is received.  Bit 7 of the register is the term 1.
CrcIsRemainder ==
  k > 0 => {7 - i : i \in crc} = Remainder(header, k)

\* The receiver accepts a header exactly when no burst of up to eight bits
\* damaged it.
DetectsBursts == stage = "done" => ((crc = {}) <=> (error = {}))

\* A header that arrives undamaged tells the receiver the length, the seed
\* and the rate that the sender used: no field runs into another.
FieldsRoundTrip ==
  stage = "done" /\ error = {} =>
    /\ Read(header, 16, 23) = header_info.PDSU_length
    /\ Read(header, 11, 11) = header_info.scrambler_seed
    /\ Read(header, 0, 2) = header_info.data_rate
=============================================================================
