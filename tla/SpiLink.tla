------------------------------- MODULE SpiLink -------------------------------
(***************************************************************************)
(* The two SPI links between hbc_mac and its host: the parser of command   *)
(* packets on the control link (ctrl_cmd, hbc_ctrl_irq) and the pump that  *)
(* puts acknowledgements, replies and dumps on the data link one byte per  *)
(* interrupt (hbc_data_irq), which commands and the receive branch of the  *)
(* main loop (hbc_to_spi) feed.                                            *)
(*                                                                         *)
(* External: the PSoC between the two.  It raises the control interrupt    *)
(* for each byte the host sends, may lose one, and raises the data         *)
(* interrupt for each byte the host takes.                                 *)
(*                                                                         *)
(* The values of bytes are left out, but for two things.  A byte of a      *)
(* command or of its data may have the value of PACKET_HEADER: the marks   *)
(* of the command say which do.  And a packet put together from bytes that *)
(* were never sent as one may have an 8-bit remainder of 0 all the same:   *)
(* whether it has is left open, and which command it then reads as.        *)
(***************************************************************************)
EXTENDS Integers, Sequences, FiniteSets, SequencesExt

CONSTANTS
  PACKET_SIZE,  \* bytes of a packet after its header byte
  REPLY_SIZE,   \* bytes of an acknowledgement
  Commands,     \* what a packet says: [kind, n, marks], n bytes to load or dump
  MaxLoad,      \* the longest load of a command
  \* Bounds on the environment; of its first MaxEarly attempts the host may
  \* start each before it has the answers of those before.
  MaxAttempts, MaxEarly, MaxLosses, MaxForwards, MaxCollisions

ASSUME SpiAssumption ==
  /\ PACKET_SIZE \in Nat \ {0} /\ REPLY_SIZE \in Nat \ {0} /\ MaxLoad \in Nat
  /\ \A c \in Commands :
       /\ c.kind \in {"plain", "reply", "dump", "load", "packet"}
       /\ c.n \in Nat /\ c.marks \subseteq Nat \ {0}
       /\ c.kind \in {"load", "packet"} => c.n <= MaxLoad
  /\ {MaxAttempts, MaxEarly, MaxLosses, MaxForwards, MaxCollisions} \subseteq Nat

VARIABLES
  bytes_req, pkt,   \* the parser: bytes missing, bytes collected
  loading_mem,      \* bytes a load still takes
  ack, reply, dump, \* data_status: whose bytes are left to send, and how many
  busy_checked,     \* the main loop saw no dump and goes on to hbc_to_spi
  out,              \* bytes given to the data SPI that the host has not taken
  \* The environment and history.
  tosend,           \* bytes the host has still to send
  attempts,         \* every command it sent, and after how many bytes
  impatient,        \* it sent one before it had all its answers
  lost,             \* the bytes of them that never arrived
  forwards,
  executed,         \* the commands executed, and the attempt each came from
  damaged,          \* the packets that were complete and no attempt's
  received,         \* bytes the host has taken
  due               \* what was acknowledged, replied and dumped, in order

parser == <<bytes_req, pkt, loading_mem>>
pump   == <<ack, reply, dump, out>>
host   == <<tosend, attempts, impatient, lost>>
vars   == <<parser, pump, busy_checked, host, forwards, executed, damaged,
            received, due>>

-----------------------------------------------------------------------------
(* Bytes.  On the control link byte 0 of an attempt is PACKET_HEADER, 1 to *)
(* PACKET_SIZE are command, argument and CRC, the rest is data to load.    *)

Loading(c) == c.kind \in {"load", "packet"}

Size(c) == 1 + PACKET_SIZE + IF Loading(c) THEN c.n ELSE 0

AttemptBytes(id, c) == [k \in 1..Size(c) |-> [id |-> id, pos |-> k - 1]]

IsHeader(b) == b.pos = 0 \/ b.pos \in attempts[b.id].cmd.marks

\* The bytes collected are those of one attempt, none missing.
Intact(p) == \A k \in 1..PACKET_SIZE : p[k] = [id |-> p[1].id, pos |-> k]

\* On the data link, the bytes of an answer in order.
Idle          == [src |-> "none", id |-> 0, size |-> 0, left |-> 0]
\* Mutant: a byte too many.
AnswerLong(s, id, n) == [src |-> s, id |-> id, size |-> n, left |-> n + 1]
Answer(s, id, n) == [src |-> s, id |-> id, size |-> n, left |-> n]
AnswerBytes(a) == [k \in 1..a.size |-> [src |-> a.src, id |-> a.id, k |-> k]]
NextByte(a)   == [src |-> a.src, id |-> a.id, k |-> a.size - a.left + 1]
Less(a)       == [a EXCEPT !.left = @ - 1]

Init ==
  /\ bytes_req = 0 /\ pkt = <<>> /\ loading_mem = 0
  /\ ack = Idle /\ reply = Idle /\ dump = Idle /\ out = <<>>
  /\ busy_checked = FALSE
  /\ tosend = <<>> /\ attempts = <<>> /\ impatient = FALSE /\ lost = {}
  /\ forwards = 0 /\ executed = <<>> /\ damaged = 0
  /\ received = <<>> /\ due = <<>>

-----------------------------------------------------------------------------
(* The pump.                                                               *)

\* Mutants: an acknowledgement does not keep the dump waiting; a dump starts
\* with the next command only.
PumpNoElse(o, a, r, d) ==
  \/ /\ a.left > 0
     /\ out' = Append(o, NextByte(a)) /\ ack' = Less(a) /\ reply' = r
     /\ dump' = IF d.left > 0 THEN Less(d) ELSE d
  \/ /\ a.left = 0 /\ r.left > 0
     /\ out' = Append(o, NextByte(r)) /\ ack' = a /\ reply' = Less(r) /\ dump' = d
  \/ /\ a.left = 0 /\ r.left = 0 /\ d.left > 0
     /\ out' = Append(o, NextByte(d)) /\ ack' = a /\ reply' = r /\ dump' = Less(d)
  \/ /\ a.left = 0 /\ r.left = 0 /\ d.left = 0
     /\ out' = o /\ ack' = a /\ reply' = r /\ dump' = d
PumpNoDump(o, a, r, d) ==
  \/ /\ a.left > 0
     /\ out' = Append(o, NextByte(a)) /\ ack' = Less(a) /\ reply' = r /\ dump' = d
  \/ /\ a.left = 0 /\ r.left > 0
     /\ out' = Append(o, NextByte(r)) /\ ack' = a /\ reply' = Less(r) /\ dump' = d
  \/ /\ a.left = 0 /\ r.left = 0
     /\ out' = o /\ ack' = a /\ reply' = r /\ dump' = d
PumpReplyFirst(o, a, r, d) ==
  \/ /\ r.left > 0
     /\ out' = Append(o, NextByte(r)) /\ ack' = a /\ reply' = Less(r) /\ dump' = d
  \/ /\ r.left = 0 /\ a.left > 0
     /\ out' = Append(o, NextByte(a)) /\ ack' = Less(a) /\ reply' = r /\ dump' = d
  \/ /\ a.left = 0 /\ r.left = 0 /\ d.left > 0
     /\ out' = Append(o, NextByte(d)) /\ ack' = a /\ reply' = r /\ dump' = Less(d)
  \/ /\ a.left = 0 /\ r.left = 0 /\ d.left = 0
     /\ out' = o /\ ack' = a /\ reply' = r /\ dump' = d

\* hbc_data_irq: one byte of the acknowledgement, else of the reply, else of
\* the dump.
Pump(o, a, r, d) ==
  \/ /\ a.left > 0
     /\ out' = Append(o, NextByte(a)) /\ ack' = Less(a) /\ reply' = r /\ dump' = d
  \/ /\ a.left = 0 /\ r.left > 0
     /\ out' = Append(o, NextByte(r)) /\ ack' = a /\ reply' = Less(r) /\ dump' = d
  \/ /\ a.left = 0 /\ r.left = 0 /\ d.left > 0
     /\ out' = Append(o, NextByte(d)) /\ ack' = a /\ reply' = r /\ dump' = Less(d)
  \/ /\ a.left = 0 /\ r.left = 0 /\ d.left = 0
     /\ out' = o /\ ack' = a /\ reply' = r /\ dump' = d

\* The host takes a byte, which interrupts for the next.
DataIrq ==
  /\ out # <<>>
  /\ received' = Append(received, Head(out))
  /\ Pump(Tail(out), ack, reply, dump)
  /\ UNCHANGED <<parser, busy_checked, host, forwards, executed, damaged, due>>

-----------------------------------------------------------------------------
(* The parser.                                                             *)

\* Mutant: a load takes a byte too many.
LoadBytesLong(c) == c.n + 1

\* hbc_spi_load_bytes(arg)
LoadBytes(c) == c.n

\* The effect of command c of attempt id (of none: 0) on the links; then
\* reply_pkt(HBC_ACK) unless it is HBC_TX_PACKET, and hbc_spi_data_trigger().
Execute(id, c) ==
  LET x == Len(executed) + 1
      a == IF c.kind = "packet" THEN ack ELSE Answer("ack", x, REPLY_SIZE)
      r == IF c.kind = "reply" THEN Answer("reply", x, 4) ELSE reply
      d == IF c.kind = "dump" THEN Answer("dump", x, c.n) ELSE dump
  IN  /\ loading_mem' = IF Loading(c) THEN LoadBytes(c) ELSE loading_mem
      /\ executed' = Append(executed, [id |-> id, cmd |-> c])
      /\ due' = due \o (IF c.kind = "packet" THEN <<>> ELSE AnswerBytes(a))
                    \o (IF c.kind = "reply" THEN AnswerBytes(r) ELSE <<>>)
                    \o (IF c.kind = "dump" THEN AnswerBytes(d) ELSE <<>>)
      /\ Pump(out, a, r, d)

Ignored == UNCHANGED <<loading_mem, pump, executed, due>>

Collisions == Len(SelectSeq(executed, LAMBDA x : x.id = 0))

\* Nothing collected: only a header is of interest.
SeekHeader(b) ==
  /\ bytes_req = 0
  /\ bytes_req' = IF IsHeader(b) THEN PACKET_SIZE ELSE 0
  /\ pkt' = <<>> /\ Ignored /\ UNCHANGED damaged

\* pkt[PACKET_SIZE - bytes_req] = c
Collect(b) ==
  /\ bytes_req > 1 /\ bytes_req' = bytes_req - 1
  /\ pkt' = Append(pkt, b) /\ Ignored /\ UNCHANGED damaged

\* Mutant: a packet that fails its CRC keeps the parser waiting for another.
AfterPacketKeep(p) == IF Intact(p) THEN 0 ELSE PACKET_SIZE

AfterPacket(p) == 0

\* The last byte: the CRC over the bytes collected is 0, or the packet is
\* dropped.
Complete(b) ==
  LET p == Append(pkt, b)
  IN  /\ bytes_req = 1 /\ bytes_req' = AfterPacket(p) /\ pkt' = <<>>
      /\ \/ /\ Intact(p) /\ UNCHANGED damaged
            /\ Execute(p[1].id, attempts[p[1].id].cmd)
         \/ /\ ~Intact(p) /\ damaged' = damaged + 1
            /\ \/ Ignored
               \/ Collisions < MaxCollisions /\ \E c \in Commands : Execute(0, c)

\* ctrl_cmd(c)
CtrlCmd(b) == SeekHeader(b) \/ Collect(b) \/ Complete(b)

\* hbc_ctrl_irq for the next byte the host sends
CtrlIrq ==
  /\ tosend # <<>> /\ tosend' = Tail(tosend)
  /\ \/ /\ loading_mem > 0 /\ loading_mem' = loading_mem - 1
        /\ UNCHANGED <<bytes_req, pkt, pump, executed, damaged, due>>
     \/ loading_mem = 0 /\ CtrlCmd(Head(tosend))
  /\ UNCHANGED <<busy_checked, attempts, impatient, lost, forwards, received>>

-----------------------------------------------------------------------------
(* hbc_to_spi for a good packet: rx_auto && !hbc_spi_dump_busy() in the    *)
(* main loop, then, interrupts disabled, the packet is announced and its   *)
(* dump started.                                                           *)

CheckBusy ==
  /\ ~busy_checked /\ forwards < MaxForwards /\ dump.left = 0
  /\ busy_checked' = TRUE
  /\ UNCHANGED <<parser, pump, host, forwards, executed, damaged, received, due>>

HbcToSpi ==
  LET a == Answer("announce", forwards + 1, REPLY_SIZE)
      d == Answer("packet", forwards + 1, 2)
  IN  /\ busy_checked /\ busy_checked' = FALSE
      /\ forwards' = forwards + 1
      /\ due' = due \o AnswerBytes(a) \o AnswerBytes(d)
      /\ Pump(out, a, reply, d)
      /\ UNCHANGED <<parser, host, executed, damaged, received>>

-----------------------------------------------------------------------------
(* The host: a command, or the same again, whether or not it has had all   *)
(* its answers.                                                            *)

Quiet == out = <<>> /\ ack.left = 0 /\ reply.left = 0 /\ dump.left = 0

\* How many bytes the host has sent, or has to send, of all its attempts.
BytesSoFar ==
  IF attempts = <<>> THEN 0 ELSE Last(attempts).at + Size(Last(attempts).cmd)

HostSend(c) ==
  /\ tosend = <<>> /\ Len(attempts) < MaxAttempts
  /\ Quiet \/ Len(attempts) < MaxEarly
  /\ attempts' = Append(attempts, [cmd |-> c, at |-> BytesSoFar])
  /\ tosend' = AttemptBytes(Len(attempts) + 1, c)
  /\ impatient' = (impatient \/ ~Quiet)
  /\ UNCHANGED <<parser, pump, busy_checked, lost, forwards, executed, damaged,
                 received, due>>

LoseByte ==
  /\ tosend # <<>> /\ Cardinality(lost) < MaxLosses
  /\ lost' = lost \cup {Head(tosend)} /\ tosend' = Tail(tosend)
  /\ UNCHANGED <<parser, pump, busy_checked, attempts, impatient, forwards,
                 executed, damaged, received, due>>

Next ==
  \/ CtrlIrq \/ DataIrq \/ CheckBusy \/ HbcToSpi
  \/ LoseByte \/ \E c \in Commands : HostSend(c)

Spec == Init /\ [][Next]_vars

-----------------------------------------------------------------------------
(* Properties.                                                             *)

\* Every variable holds a value of its type in the code.
TypeOK ==
  /\ bytes_req \in 0..PACKET_SIZE
  /\ bytes_req > 0 => Len(pkt) = PACKET_SIZE - bytes_req
  /\ loading_mem \in 0..MaxLoad /\ {busy_checked, impatient} \subseteq BOOLEAN
  /\ \A a \in {ack, reply, dump} : a.left \in 0..a.size

Unmarked(id) == attempts[id].cmd.marks = {}
Whole(id)    == \A b \in lost : b.id # id

\* No byte was lost, or none that could be taken for a header was sent.
Plausible == lost = {} \/ \A id \in DOMAIN attempts : Unmarked(id)

\* The host takes exactly the acknowledgements, replies and dumps of the
\* commands that were executed, in the order of execution and byte by byte,
\* as long as it waits for each answer and the main loop has forwarded nothing.
StreamInOrder ==
  forwards = 0 /\ ~impatient /\ Plausible => IsPrefix(received \o out, due)

\* Whatever falls into an answer - an acknowledgement inside a dump, a reply
\* between the two, another dump that cuts one short, with a host that does
\* not wait too - none of its bytes is skipped, repeated or out of order.
AnswersInSequence ==
  LET sent == received \o out
  IN  \A fields \in {{"ack", "announce"}, {"reply"}, {"dump", "packet"}} :
        \A i \in DOMAIN sent :
          sent[i].src \in fields /\ sent[i].k > 1 =>
            \E j \in 1..(i - 1) :
              /\ sent[j] = [sent[i] EXCEPT !.k = @ - 1]
              /\ \A m \in (j + 1)..(i - 1) : sent[m].src \notin fields

\* While an answer is unfinished a byte is on its way to the host, so that
\* another data interrupt will come: the pump never stalls, although a
\* trigger and an interrupt may both start it.
PumpNeverStalls == out = <<>> => Quiet

\* Attempts are executed in the order they were sent, each at most once,
\* whatever is lost; and while nothing is lost each is executed when the last
\* byte of its packet arrives, whatever its bytes are, and nothing else is.
ExecutedInOrder ==
  /\ \A i, k \in DOMAIN executed :
       i < k /\ executed[i].id # 0 /\ executed[k].id # 0 =>
         executed[i].id < executed[k].id
  /\ lost = {} =>
       /\ \A i \in DOMAIN executed : executed[i].id = i
       /\ Len(executed) = IF tosend # <<>> /\ Head(tosend).pos <= PACKET_SIZE
                          THEN Len(attempts) - 1 ELSE Len(attempts)

\* A lost byte costs one damaged packet at most (whose remainder may be 0),
\* unless a byte with the header's value starts another.
LossesCharged ==
  (\A id \in DOMAIN attempts : Unmarked(id)) => damaged <= Cardinality(lost)

\* The parser finds its way back, whatever was lost and whatever a damaged
\* packet made it do: an attempt that arrives whole is executed when the
\* attempts from j on arrived whole as well, sent nothing that could be taken
\* for a header, and brought as many bytes as a packet and the longest load.
Resynchronises ==
  \A id \in DOMAIN attempts : \A j \in 1..id :
    /\ \A i \in j..id : Whole(i)
    /\ \A i \in j..(id - 1) : Unmarked(i)
    /\ attempts[id].at - attempts[j].at >= PACKET_SIZE + MaxLoad
    /\ id = Len(attempts) => tosend = <<>>
    => \E x \in ToSet(executed) : x.id = id

-----------------------------------------------------------------------------
(* What the comments say of the program and the code does not do.          *)

\* main.c:273, "Acknowledge successful packet": when nothing is left to send
\* a host that waits has the whole acknowledgement of every command executed.
AcknowledgesSuccess ==
  Quiet /\ ~impatient =>
    \A x \in DOMAIN executed :
      executed[x].cmd.kind # "packet" =>
        ToSet(AnswerBytes(Answer("ack", x, REPLY_SIZE))) \subseteq ToSet(received)
=============================================================================
