-------------------------- MODULE InterruptsProofs --------------------------
(***************************************************************************)
(* No event is lost, for every set of lines, every order of handlers and   *)
(* every number of events.                                                 *)
(***************************************************************************)
EXTENDS Interrupts, TLAPS

Chained(l, from) ==
  \E i \in from..Len(int_handler_list) : int_handler_list[i] = l

\* What boot has done so far, in an order that matters: all handlers are in
\* the list before the first line is enabled.
BootInv ==
  /\ step \in Nat
  /\ int_handler_list \in Seq(Lines)
  /\ \A i \in 1..Len(Handled) : i <= step =>
       i <= Len(int_handler_list) /\ int_handler_list[i] = Handled[i]
  /\ step <= Len(Handled) => Len(int_handler_list) = step
  /\ \A l \in interrupt_mask : Chained(l, 1)

\* Where int_handler is: the line it has read is pending until it
\* acknowledges it, and has a handler.
ServeInv ==
  /\ stage # "main" => Chained(irq_line, 1)
  /\ stage = "read" => irq_line \in status
  /\ stage \in {"main", "read", "chain"}
  /\ next \in Nat

IInv == BootInv /\ ServeInv /\ NothingLost

-----------------------------------------------------------------------------
\* The calls of main in their order: add, enable, on.
LEMMA CallOrder ==
  ASSUME NEW i \in Nat \ {0}, i <= Calls
  PROVE  /\ Call(i).op = "add" => i <= Len(Handled) /\ Call(i).line = Handled[i]
         /\ Call(i).op = "enable" =>
              /\ i > Len(Handled)
              /\ \E k \in 1..Len(Handled) : Call(i).line = Handled[k]
         /\ Call(i).op = "on" => i > Len(Handled)
<1> DEFINE n == Len(Handled)
<1>0. n \in Nat
  BY InterruptsAssumption
<1>1. CASE i <= n
  <2>1. Call(i) = [op |-> "add", line |-> Handled[i]]
    BY <1>0, <1>1 DEF Call
  <2> QED BY <1>1, <2>1
<1>2. CASE i > n /\ i <= 2 * n
  <2>1. Call(i) = [op |-> "enable", line |-> Handled[i - n]]
    BY <1>0, <1>2 DEF Call
  <2>2. i - n \in 1..n
    BY <1>0, <1>2
  <2> QED BY <1>2, <2>1, <2>2
<1>3. CASE i > 2 * n
  <2>1. Call(i) = [op |-> "on", line |-> 0]
    BY <1>0, <1>3 DEF Call
  <2> QED BY <1>0, <1>3, <2>1
<1> QED BY <1>0, <1>1, <1>2, <1>3

LEMMA InitIInv == Init => IInv
BY InterruptsAssumption DEF Init, IInv, BootInv, ServeInv, NothingLost, Chained

\* Boot comes to its end with every enabled line in the list.
LEMMA StepBootInv == BootInv /\ [Next]_vars => BootInv'
<1> SUFFICES ASSUME BootInv, [Next]_vars PROVE BootInv'
  OBVIOUS
<1> USE InterruptsAssumption
<1>1. ASSUME add_int_handler PROVE BootInv'
  <2> DEFINE l == Call(step + 1).line
  <2>1. step + 1 <= Len(Handled) /\ l = Handled[step + 1]
    BY <1>1, CallOrder DEF add_int_handler, Main, BootInv, Calls
  <2>2. l \in Lines
    BY <2>1 DEF BootInv
  <2>3. int_handler_list' = Append(int_handler_list, l) /\ step' = step + 1
    BY <1>1 DEF add_int_handler, Main
  <2>4. Len(int_handler_list) = step
    BY <2>1 DEF BootInv
  <2>5. /\ int_handler_list' \in Seq(Lines)
        /\ Len(int_handler_list') = step + 1
        /\ int_handler_list'[step + 1] = l
        /\ \A i \in 1..step : int_handler_list'[i] = int_handler_list[i]
    BY <2>2, <2>3, <2>4 DEF BootInv
  <2>6. interrupt_mask' = interrupt_mask
    BY <1>1 DEF add_int_handler
  <2>7. \A k \in interrupt_mask : Chained(k, 1)'
    BY <2>4, <2>5 DEF BootInv, Chained
  <2> QED BY <2>1, <2>3, <2>5, <2>6, <2>7 DEF BootInv
<1>2. ASSUME EnableInterrupt PROVE BootInv'
  <2>1. step \in Nat /\ step + 1 > Len(Handled)
    BY <1>2, CallOrder DEF EnableInterrupt, Main, BootInv, Calls
  <2>2. PICK k \in 1..Len(Handled) : Call(step + 1).line = Handled[k]
    BY <1>2, CallOrder DEF EnableInterrupt, Main, BootInv, Calls
  <2>3. Chained(Call(step + 1).line, 1)
    BY <2>1, <2>2 DEF BootInv, Chained
  <2>4. /\ interrupt_mask' = interrupt_mask \cup {Call(step + 1).line}
        /\ step' = step + 1 /\ int_handler_list' = int_handler_list
    BY <1>2 DEF EnableInterrupt, Main
  <2> QED BY <2>1, <2>3, <2>4 DEF BootInv, Chained
<1>3. ASSUME EnableFirst PROVE BootInv'
  <2>1. step \in Nat /\ step + 1 > Len(Handled)
    BY <1>3, CallOrder DEF EnableFirst, Main, BootInv, Calls
  <2> QED BY <1>3, <2>1 DEF EnableFirst, Main, BootInv, Chained
<1>4. ASSUME UNCHANGED <<step, int_handler_list, interrupt_mask>> PROVE BootInv'
  BY <1>4 DEF BootInv, Chained
<1>5. (\E l \in Lines : Event(l)) \/ Section(TRUE) \/ Section(FALSE) \/ ReadStatus
        \/ Handler \/ UNCHANGED vars
        => UNCHANGED <<step, int_handler_list, interrupt_mask>>
  BY DEF Event, Section, ReadStatus, Handler, Ack, Chain, Return, vars
<1> QED BY <1>1, <1>2, <1>3, <1>4, <1>5 DEF Next, Boot

\* What int_handler needs while it serves a line.
LEMMA StepServeInv == BootInv /\ ServeInv /\ [Next]_vars => ServeInv'
<1> SUFFICES ASSUME BootInv, ServeInv, [Next]_vars PROVE ServeInv'
  OBVIOUS
<1>1. ASSUME NEW l \in Lines, Event(l) PROVE ServeInv'
  BY <1>1 DEF Event, ServeInv, Chained
<1>2. ASSUME Boot \/ Section(TRUE) \/ Section(FALSE) PROVE ServeInv'
  BY <1>2 DEF Boot, add_int_handler, EnableInterrupt, EnableFirst, Main,
              Section, ServeInv, controller
<1>3. ASSUME ReadStatus PROVE ServeInv'
  <2>1. irq_line' \in Pending /\ stage' = "read"
    BY <1>3 DEF ReadStatus
  <2>2. UNCHANGED <<int_handler_list, next, status>>
    BY <1>3 DEF ReadStatus, controller
  <2> QED BY <2>1, <2>2 DEF ServeInv, BootInv, Chained, Pending
<1>4. ASSUME Ack PROVE ServeInv'
  BY <1>4 DEF Ack, ServeInv, Chained
<1>5. ASSUME Chain PROVE ServeInv'
  BY <1>5 DEF Chain, ServeInv, Chained
<1>6. ASSUME Return PROVE ServeInv'
  BY <1>6 DEF Return, ServeInv
<1>7. ASSUME UNCHANGED vars PROVE ServeInv'
  BY <1>7 DEF vars, controller, ServeInv, Chained
<1> QED BY <1>1, <1>2, <1>3, <1>4, <1>5, <1>6, <1>7 DEF Next, Handler

\* No step loses an event.
LEMMA StepNothingLost == IInv /\ [Next]_vars => NothingLost'
<1> SUFFICES ASSUME IInv, [Next]_vars PROVE NothingLost'
  OBVIOUS
<1> USE DEF IInv, NothingLost
<1>1. ASSUME NEW l \in Lines, Event(l) PROVE NothingLost'
  BY <1>1 DEF Event
<1>2. ASSUME Boot \/ Section(TRUE) \/ Section(FALSE) PROVE NothingLost'
  BY <1>2 DEF Boot, add_int_handler, EnableInterrupt, EnableFirst, Main,
              Section, controller
<1>3. ASSUME ReadStatus PROVE NothingLost'
  BY <1>3 DEF ReadStatus, controller
<1>4. ASSUME Ack PROVE NothingLost'
  BY <1>4 DEF Ack, ServeInv, Chained
<1>5. ASSUME Chain PROVE NothingLost'
  <2>1. /\ next \in Nat /\ next' = next + 1 /\ stage = "chain"
        /\ UNCHANGED <<int_handler_list, stage, irq_line, status>>
        /\ due' = IF int_handler_list[next] = irq_line
                  THEN due \ {irq_line} ELSE due
    BY <1>5 DEF Chain, ServeInv
  <2>2. SUFFICES ASSUME NEW l \in due', l \notin status
                 PROVE  /\ irq_line = l
                        /\ \E i \in next + 1..Len(int_handler_list) :
                             int_handler_list[i] = l
    BY <2>1
  <2>3. l \in due
    BY <2>1
  <2>4. PICK i \in next..Len(int_handler_list) :
               irq_line = l /\ int_handler_list[i] = l
    BY <2>2, <2>3
  <2>5. i # next
    BY <2>1, <2>4
  <2>6. i \in next + 1..Len(int_handler_list)
    BY <2>1, <2>4, <2>5, InterruptsAssumption DEF BootInv
  <2> QED BY <2>4, <2>6
<1>6. ASSUME Return PROVE NothingLost'
  <2>1. Len(int_handler_list) \in Nat /\ next \in Nat
    BY DEF BootInv, ServeInv
  <2> QED BY <1>6, <2>1 DEF Return, controller
<1>7. ASSUME UNCHANGED vars PROVE NothingLost'
  BY <1>7 DEF vars, controller
<1> QED BY <1>1, <1>2, <1>3, <1>4, <1>5, <1>6, <1>7 DEF Next, Handler

\* The inductive invariant holds in every reachable state.
THEOREM InvariantHolds == Spec => []IInv
<1>1. IInv /\ [Next]_vars => IInv'
  BY StepBootInv, StepServeInv, StepNothingLost DEF IInv
<1> QED BY <1>1, InitIInv, PTL DEF Spec

\* Whatever comes between the steps of int_handler, an event whose handler
\* has not started since is still pending or about to be handled.
THEOREM NoEventLost == Spec => []NothingLost
<1>1. IInv => NothingLost
  BY DEF IInv
<1> QED BY <1>1, InvariantHolds, PTL

\* main.c:321-338: interrupts are never taken for a line that has no handler
\* in the list yet.
THEOREM HandlersComeFirst == Spec => []HandlersFirst
<1>1. IInv => HandlersFirst
  BY DEF IInv, BootInv, ServeInv, HandlersFirst, Chained
<1> QED BY <1>1, InvariantHolds, PTL

-----------------------------------------------------------------------------
(* Types.                                                                  *)

\* The list has a handler for each call of main that adds one, and the walk
\* over it stays inside.
ListInv ==
  /\ step \in 0..Calls /\ ie \in BOOLEAN
  /\ Len(int_handler_list) = IF step < Len(Handled) THEN step ELSE Len(Handled)
  /\ interrupt_mask \subseteq Lines /\ status \subseteq Lines /\ irq_line \in 0..15
  /\ next \in 1..(Len(int_handler_list) + 1)

LEMMA InitListInv == Init => ListInv
<1> SUFFICES ASSUME Init PROVE ListInv
  OBVIOUS
<1>1. ie \in BOOLEAN
  BY DEF Init
<1>2. /\ step \in 0..Calls
      /\ Len(int_handler_list) = IF step < Len(Handled) THEN step ELSE Len(Handled)
      /\ interrupt_mask \subseteq Lines /\ status \subseteq Lines /\ irq_line \in 0..15
      /\ next \in 1..(Len(int_handler_list) + 1)
  BY InterruptsAssumption DEF Init, Calls
<1> QED BY ONLY <1>1, <1>2, Zenon DEF ListInv

LEMMA StepListInv == BootInv /\ ServeInv /\ ListInv /\ [Next]_vars => ListInv'
<1> SUFFICES ASSUME BootInv, ServeInv, ListInv, [Next]_vars PROVE ListInv'
  OBVIOUS
<1> DEFINE n == Len(Handled)
<1>0. /\ n \in Nat /\ Lines \subseteq 0..15 /\ Calls = 2 * n + 1
      /\ int_handler_list \in Seq(Lines) /\ Len(int_handler_list) \in Nat
  BY InterruptsAssumption DEF Calls, BootInv
<1>1. /\ step \in 0..Calls /\ ie \in BOOLEAN
      /\ Len(int_handler_list) = IF step < n THEN step ELSE n
      /\ interrupt_mask \subseteq Lines /\ status \subseteq Lines /\ irq_line \in 0..15
      /\ next \in 1..(Len(int_handler_list) + 1)
  BY DEF ListInv
<1>2. ASSUME add_int_handler PROVE ListInv'
  <2>1. step + 1 <= n /\ Call(step + 1).line \in Lines
    <3>1. step + 1 <= n /\ Call(step + 1).line = Handled[step + 1]
      BY <1>0, <1>1, <1>2, CallOrder DEF add_int_handler, Main
    <3>2. step + 1 \in 1..n
      BY <1>0, <1>1, <3>1
    <3> QED BY <3>1, <3>2, InterruptsAssumption
  <2>2. /\ int_handler_list' = Append(int_handler_list, Call(step + 1).line)
        /\ step' = step + 1 /\ UNCHANGED <<interrupt_mask, ie, irq_line, next, status>>
    BY <1>2 DEF add_int_handler, Main, controller
  <2>3. Len(int_handler_list') = Len(int_handler_list) + 1
    BY <1>0, <2>1, <2>2
  <2>4. /\ step' \in 0..Calls
        /\ Len(int_handler_list') = IF step' < n THEN step' ELSE n
        /\ next' \in 1..(Len(int_handler_list') + 1)
    BY <1>0, <1>1, <2>1, <2>2, <2>3
  <2> QED BY <1>1, <2>2, <2>4 DEF ListInv
<1>3. ASSUME EnableInterrupt PROVE ListInv'
  <2>1. /\ step + 1 > n /\ step' = step + 1 /\ step < Calls
        /\ \E k \in 1..n : Call(step + 1).line = Handled[k]
    BY <1>0, <1>1, <1>3, CallOrder DEF EnableInterrupt, Main
  <2>2. Call(step + 1).line \in Lines
    BY <2>1, InterruptsAssumption
  <2>3. /\ interrupt_mask' = interrupt_mask \cup {Call(step + 1).line}
        /\ UNCHANGED <<int_handler_list, ie, irq_line, next, status>>
    BY <1>3 DEF EnableInterrupt, Main, controller
  <2>4. step' \in 0..Calls /\ ~(step' < n) /\ ~(step < n)
    BY <1>0, <1>1, <2>1
  <2> QED BY <1>1, <2>2, <2>3, <2>4 DEF ListInv
<1>4. ASSUME EnableFirst PROVE ListInv'
  <2>1. /\ step + 1 > n /\ step' = step + 1 /\ step < Calls
        /\ UNCHANGED <<int_handler_list, interrupt_mask, irq_line, next, status>>
    BY <1>0, <1>1, <1>4, CallOrder DEF EnableFirst, Main, controller
  <2>2. ie' \in BOOLEAN
    BY <1>4 DEF EnableFirst
  <2>3. step' \in 0..Calls /\ ~(step' < n) /\ ~(step < n)
    BY <1>0, <1>1, <2>1
  <2> QED BY <1>1, <2>1, <2>2, <2>3 DEF ListInv
<1>5. ASSUME NEW l \in Lines, Event(l) PROVE ListInv'
  BY <1>5 DEF Event, ListInv
<1>6. ASSUME NEW on \in BOOLEAN, Section(on) PROVE ListInv'
  BY <1>6 DEF Section, ListInv, controller
<1>7. ASSUME ReadStatus PROVE ListInv'
  <2>1. irq_line' \in 0..15
    BY <1>0, <1>1, <1>7 DEF ReadStatus, Pending
  <2>2. ie' \in BOOLEAN
    BY <1>7 DEF ReadStatus
  <2> QED BY <1>7, <2>1, <2>2 DEF ReadStatus, ListInv, controller
<1>8. ASSUME Ack PROVE ListInv'
  <2>1. next' \in 1..(Len(int_handler_list) + 1)
    BY <1>0, <1>8 DEF Ack
  <2> QED BY <1>8, <2>1 DEF Ack, ListInv
<1>9. ASSUME Chain PROVE ListInv'
  <2>1. next' \in 1..(Len(int_handler_list) + 1)
    BY <1>0, <1>1, <1>9 DEF Chain
  <2> QED BY <1>9, <2>1 DEF Chain, ListInv
<1>10. ASSUME Return PROVE ListInv'
  <2>1. ie' \in BOOLEAN
    BY <1>10 DEF Return
  <2> QED BY <1>10, <2>1 DEF Return, ListInv, controller
<1>11. ASSUME UNCHANGED vars PROVE ListInv'
  BY <1>11 DEF vars, controller, ListInv
<1> QED BY <1>2, <1>3, <1>4, <1>5, <1>6, <1>7, <1>8, <1>9, <1>10, <1>11
        DEF Next, Boot, Handler

\* The list of handlers is always what main has added, in its order, and
\* int_handler stays inside it.
THEOREM InterruptsTyped == Spec => []TypeOK
<1>1. BootInv /\ ServeInv /\ ListInv => TypeOK
  <2> SUFFICES ASSUME BootInv, ServeInv, ListInv PROVE TypeOK
    OBVIOUS
  <2> DEFINE n == Len(Handled)
             m == IF step < n THEN step ELSE n
  <2>1. n \in Nat /\ step \in Nat /\ m \in 0..n /\ m <= step
    BY InterruptsAssumption DEF BootInv
  <2>2. int_handler_list \in Seq(Lines) /\ Len(int_handler_list) = m
    BY DEF BootInv, ListInv
  <2>3. \A i \in 1..m : int_handler_list[i] = Handled[i]
    BY <2>1 DEF BootInv
  <2> HIDE DEF m
  <2>4. int_handler_list = SubSeq(Handled, 1, m)
    BY <2>1, <2>2, <2>3, InterruptsAssumption
  <2> QED BY <2>4 DEF TypeOK, ListInv, ServeInv, m
<1>2. (IInv /\ ListInv) /\ [Next]_vars => (IInv /\ ListInv)'
  BY StepBootInv, StepServeInv, StepNothingLost, StepListInv DEF IInv
<1>3. IInv => BootInv /\ ServeInv
  BY DEF IInv
<1> QED BY <1>1, <1>2, <1>3, InitIInv, InitListInv, PTL DEF Spec
=============================================================================
