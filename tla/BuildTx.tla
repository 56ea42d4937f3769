------------------------------- MODULE BuildTx -------------------------------
(***************************************************************************)
(* How a frame is put together (build_tx.c) and pushed through the         *)
(* transmit FIFO (fifo.c): four preambles, the start-of-frame delimiter    *)
(* whose place in a window of 96 chips tells the receiver the data rate,   *)
(* the PLCP header and the payload.                                        *)
(*                                                                         *)
(* The processor writes with interrupts disabled and spins while the FIFO  *)
(* is almost full, so it relies on the transmitter, which starts on a      *)
(* trigger; one step is one call of a fifo function.  Writes take the size *)
(* and spreading registers as they were set last.                          *)
(*                                                                         *)
(* External: the transmitter.  It takes words from the FIFO once it is     *)
(* triggered, until the FIFO was flushed and is empty.  It is taken not to *)
(* outrun the processor.  header_info.use_ri is 1 throughout the program.  *)
(***************************************************************************)
EXTENDS Integers, Sequences

CONSTANTS
  CodeBits,    \* bits of a preamble or delimiter code: 32
  Lens,        \* lengths of the payloads sent
  Rates,       \* data rates used, r_sf_64 = 0 to r_sf_8 = 3
  AlmostFull,  \* FIFO fill that sets IRQ_TX_FIFO_ALMOST_FULL
  MaxFrames    \* bound on the number of frames

ASSUME BuildTxAssumption ==
  /\ CodeBits \in Nat \ {0} /\ AlmostFull \in Nat \ {0} /\ MaxFrames \in Nat
  /\ Lens \subseteq 0..255 /\ Rates \subseteq 0..3

VARIABLES
  pc, todo,             \* "idle", "wait" or "build", and the calls to come
  triggered,            \* the static of fifo.c
  size, sf,             \* FIFO_MASK and MODULATOR_SF registers
  fifo,
  sending, flushed,     \* the transmitter
  frames,               \* history: the frames asked for, [rate, len]
  air                   \* history: what the current frame has sent, each word
                        \* with the chip at which it begins

vars == <<pc, todo, triggered, size, sf, fifo, sending, flushed, frames, air>>

-----------------------------------------------------------------------------
(* The calls a frame makes.                                                *)

Call(op, arg) == <<[op |-> op, arg |-> arg]>>
Times(n, s)   == [i \in 1..n |-> s[1]]

fifo_write_size(n) == Call("size", n)
fifo_write(part)   == Call("write", part)

fifo_set_rate(rate) ==
  Call("sf", rate) \o
    CASE rate \in {0, 1} -> fifo_write_size(32)
      [] rate = 2        -> fifo_write_size(16)
      [] rate = 3        -> fifo_write_size(8)

put_bitmap_32(part) == fifo_set_rate(3) \o Times(CodeBits, fifo_write(part))

build_tx_preamble == put_bitmap_32("preamble") \o put_bitmap_32("preamble")

Codes  == put_bitmap_32("sfd") \o put_bitmap_32("sfd")
Pad(n, chips) == fifo_write_size(chips) \o Times(n, fifo_write("pad"))

\* Mutant: the size register left at 32 for the last pad.
SfdStaleSize(rate) ==
  CASE rate = 0 -> Codes \o Pad(3, 32)
    [] rate = 1 -> Pad(1, 16) \o Codes \o Pad(2, 32) \o Times(1, fifo_write("pad"))
    [] rate = 2 -> Pad(1, 32) \o Codes \o Pad(2, 32)
    [] rate = 3 -> Pad(1, 32) \o Pad(1, 16) \o Codes \o Pad(1, 32) \o Pad(1, 16)

build_tx_sfd(rate) ==
  CASE rate = 0 -> Codes \o Pad(3, 32)
    [] rate = 1 -> Pad(1, 16) \o Codes \o Pad(2, 32) \o Pad(1, 16)
    [] rate = 2 -> Pad(1, 32) \o Codes \o Pad(2, 32)
    [] rate = 3 -> Pad(1, 32) \o Pad(1, 16) \o Codes \o Pad(1, 32) \o Pad(1, 16)

\* build_tx_plcp_header after fifo_wait
build_tx_plcp_header(rate) ==
  build_tx_preamble \o build_tx_preamble \o build_tx_preamble \o
  build_tx_preamble \o build_tx_sfd(rate) \o
  fifo_set_rate(rate) \o fifo_write("header")

\* Mutant: no trigger after the last word.
PayloadNoTrigger(rate, len) ==
  fifo_set_rate(rate) \o Times((len + 3) \div 4, fifo_write("payload")) \o
  Call("flush", 0)

build_tx_payload(rate, len) ==
  fifo_set_rate(rate) \o Times((len + 3) \div 4, fifo_write("payload")) \o
  Call("flush", 0) \o Call("trigger", 0)

Init ==
  /\ pc = "idle" /\ todo = <<>> /\ triggered = 0 /\ size = 0 /\ sf = 0
  /\ fifo = <<>> /\ sending = FALSE /\ flushed = FALSE
  /\ frames = <<>> /\ air = <<>>

-----------------------------------------------------------------------------
(* The processor.                                                          *)

\* The main loop sends a frame: fifo_reset()
Begin(rate, len) ==
  /\ pc = "idle" /\ Len(frames) < MaxFrames
  /\ pc' = "wait" /\ triggered' = 0
  /\ todo' = build_tx_plcp_header(rate) \o build_tx_payload(rate, len)
  /\ frames' = Append(frames, [rate |-> rate, len |-> len])
  /\ UNCHANGED <<size, sf, fifo, sending, flushed, air>>

\* Mutant: no wait.
WaitNot ==
  /\ pc = "wait" /\ pc' = "build"
  /\ flushed' = FALSE /\ air' = <<>>
  /\ UNCHANGED <<todo, triggered, size, sf, fifo, sending, frames>>

\* fifo_wait()
fifo_wait ==
  /\ pc = "wait" /\ fifo = <<>>
  /\ pc' = "build" /\ flushed' = FALSE /\ air' = <<>>
  /\ UNCHANGED <<todo, triggered, size, sf, fifo, sending, frames>>

\* The next call is op, and it returns.
Return(op) ==
  /\ pc = "build" /\ todo # <<>> /\ Head(todo).op = op
  /\ todo' = Tail(todo) /\ pc' = IF Tail(todo) = <<>> THEN "idle" ELSE pc
  /\ UNCHANGED <<frames, air>>

SetSize ==
  /\ Return("size") /\ size' = Head(todo).arg
  /\ UNCHANGED <<triggered, sf, fifo, sending, flushed>>

SetSf ==
  /\ Return("sf") /\ sf' = Head(todo).arg
  /\ UNCHANGED <<triggered, size, fifo, sending, flushed>>

Full == Len(fifo) >= AlmostFull

\* Mutant: written without a look at the FIFO.
WriteAlways ==
  /\ Return("write")
  /\ fifo' = Append(fifo, [part |-> Head(todo).arg, size |-> size, sf |-> sf])
  /\ UNCHANGED <<triggered, size, sf, sending, flushed>>

\* fifo_write() or fifo_modulate(), when the FIFO takes a word
Write ==
  /\ Return("write") /\ ~Full
  /\ fifo' = Append(fifo, [part |-> Head(todo).arg, size |-> size, sf |-> sf])
  /\ UNCHANGED <<triggered, size, sf, sending, flushed>>

\* fifo_trigger(): at most one pulse for a frame
fifo_trigger ==
  /\ triggered' = 1
  /\ sending' = (sending \/ triggered = 0)

\* A turn of the loop that waits for room in the FIFO; with triggered set it
\* changes nothing.
Spin ==
  /\ pc = "build" /\ Head(todo).op = "write" /\ Full
  /\ triggered = 0 /\ fifo_trigger
  /\ UNCHANGED <<pc, todo, size, sf, fifo, flushed, frames, air>>

Flush ==
  /\ Return("flush")
  /\ flushed' = TRUE /\ sending' = (sending /\ fifo # <<>>)
  /\ UNCHANGED <<triggered, size, sf, fifo>>

Trigger ==
  /\ Return("trigger") /\ fifo_trigger
  /\ UNCHANGED <<size, sf, fifo, flushed>>

-----------------------------------------------------------------------------
(* The transmitter takes a word, the last of a flushed frame being its     *)
(* last.                                                                   *)

EndOfAir == IF air = <<>> THEN 0 ELSE air[Len(air)].at + air[Len(air)].word.size

Transmit ==
  /\ sending /\ fifo # <<>>
  /\ fifo' = Tail(fifo)
  /\ air' = Append(air, [at |-> EndOfAir, word |-> Head(fifo)])
  /\ sending' = ~(flushed /\ Tail(fifo) = <<>>)
  /\ UNCHANGED <<pc, todo, triggered, size, sf, flushed, frames>>

Processor ==
  fifo_wait \/ SetSize \/ SetSf \/ Write \/ Spin \/ Flush \/ Trigger

Next == (\E r \in Rates, n \in Lens : Begin(r, n)) \/ Processor \/ Transmit

Spec == Init /\ [][Next]_vars

\* The processor does nothing else, interrupts being disabled, and a triggered
\* transmitter clocks out the FIFO.
FairSpec == Spec /\ WF_vars(Processor) /\ WF_vars(Transmit)

-----------------------------------------------------------------------------
(* Properties.                                                             *)

\* Every variable holds a value of its type in the code, and the FIFO is never
\* filled past the mark where a write must wait.
TypeOK ==
  /\ pc \in {"idle", "wait", "build"} /\ triggered \in {0, 1}
  /\ size \in {0, 8, 16, 32} /\ sf \in 0..3
  /\ Len(fifo) \in 0..AlmostFull /\ sending \in BOOLEAN /\ flushed \in BOOLEAN
  /\ pc = "idle" <=> todo = <<>>

\* The delimiter starts 16 chips later for each step of the data rate, and the
\* header comes at the same chip for every rate, at its own spreading, so that
\* the receiver can tell the rate and where the header begins; whatever size
\* and spreading the frame before has left in the registers.
DelimiterTellsRate ==
  LET rate == frames[Len(frames) - IF pc = "wait" THEN 1 ELSE 0].rate
      First(i)  == i = 1 \/ air[i - 1].word.part # air[i].word.part
      Part(i)   == air[i].word.part
  IN  \A i \in DOMAIN air :
        /\ Part(i) = "sfd" /\ First(i) => air[i].at = 64 * CodeBits + 16 * rate
        /\ Part(i) = "header" => air[i].at = 80 * CodeBits + 96
        /\ Part(i) \in {"header", "payload"} => air[i].word.sf = rate

\* The transmitter is triggered once for a frame, when the frame before has
\* left and words of this one are there: a pulse never falls into a frame.
TriggersBetweenFrames ==
  [][triggered = 0 /\ triggered' = 1 => ~sending /\ fifo # <<>> /\ air = <<>>]_vars

\* A frame that is begun leaves: neither fifo_wait nor a write to a full FIFO
\* spins for ever with interrupts disabled, however long the frames are.
FramesLeave == (pc = "wait") ~> (pc = "idle" /\ fifo = <<>>)
=============================================================================
