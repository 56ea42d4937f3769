----------------------------- MODULE PacketQueue -----------------------------
(***************************************************************************)
(* What the receive path promises: complete packets queue in the order     *)
(* they were received, each is taken once, from the front, and the main    *)
(* loop forwards a packet to the host exactly when it is good, that is     *)
(* when its header's CRC holds and it is as long as its header says.       *)
(***************************************************************************)
EXTENDS Naturals, Sequences

CONSTANT Ids  \* what tells two packets apart: their number, in order of arrival

VARIABLES
  waiting,  \* received packets that nobody has taken, [id, good]
  served    \* the packet taken last and what became of it

Nobody == [id |-> 0, good |-> FALSE]

Init == waiting = <<>> /\ served = [pkt |-> Nobody, fate |-> "none"]

\* A packet is complete.  Ids grow: none comes back once it was received.
Arrive(p) ==
  /\ p.id > served.pkt.id
  /\ \A i \in DOMAIN waiting : waiting[i].id < p.id
  /\ waiting' = Append(waiting, p)
  /\ UNCHANGED served

\* The main loop counts a good packet in a receive flood, forwards it
\* otherwise, and discards a bad one.  The host takes packets one by one.
Fates(p) == {"host"} \cup IF p.good THEN {"forward", "flood"} ELSE {"discard"}

Take ==
  /\ waiting # <<>>
  /\ waiting' = Tail(waiting)
  /\ \E f \in Fates(Head(waiting)) :
       served' = [pkt |-> Head(waiting), fate |-> f]

Next ==
  \/ \E id \in Ids, good \in BOOLEAN : Arrive([id |-> id, good |-> good])
  \/ Take

Spec == Init /\ [][Next]_<<waiting, served>>
=============================================================================
