----------------------------- MODULE Interrupts -----------------------------
(***************************************************************************)
(* How an event becomes a call of its handler (interrupt.c): main adds the *)
(* handlers, enables their lines and then interrupts; int_handler serves   *)
(* the lowest pending line, acknowledges it and walks the list of          *)
(* handlers.  Events may come at any time, also between the steps of       *)
(* int_handler.                                                            *)
(*                                                                         *)
(* External: the interrupt controller, which keeps an event in its status  *)
(* register until it is acknowledged and interrupts for the events of      *)
(* enabled lines, and the processor, which clears MSR[IE] when it takes an *)
(* interrupt and sets it when int_handler returns.                         *)
(***************************************************************************)
EXTENDS Integers, Sequences, FiniteSetsExt, SequencesExt

CONSTANTS
  Lines,     \* the interrupt lines
  Handled,   \* those with a handler, in the order main adds them
  MaxEvents  \* bound on the number of events

ASSUME InterruptsAssumption ==
  /\ Lines \subseteq 0..15 /\ Handled \in Seq(Lines) /\ MaxEvents \in Nat

VARIABLES
  step,              \* the calls main has made
  int_handler_list,
  interrupt_mask,
  ie,                \* MSR[IE]
  status,            \* lines with an event that is not acknowledged
  stage,             \* "main", or where int_handler is: "read", "chain"
  irq_line, next,    \* the line it serves and the list position it is at
  due,               \* history: lines with an event newer than the last start
                     \* of their handler
  events             \* history: how many events there were

controller == <<status, due, events>>
vars == <<step, int_handler_list, interrupt_mask, ie, stage, irq_line, next,
          controller>>

Init ==
  /\ step = 0 /\ int_handler_list = <<>> /\ interrupt_mask = {} /\ ie = FALSE
  /\ status = {} /\ stage = "main" /\ irq_line = 0 /\ next = 1
  /\ due = {} /\ events = 0

\* Enabled lines with an event: XIOModule_GetIntrStatus
Pending == status \cap interrupt_mask

Event(l) ==
  /\ events < MaxEvents
  /\ status' = status \cup {l} /\ due' = due \cup {l} /\ events' = events + 1
  /\ UNCHANGED <<step, int_handler_list, interrupt_mask, ie, stage, irq_line, next>>

-----------------------------------------------------------------------------
(* main.                                                                   *)

\* Main's i-th call, i <= 2 * n + 1 for n handlers.
Call(i) ==
  LET n == Len(Handled)
  IN  CASE i <= n -> [op |-> "add", line |-> Handled[i]]
        [] i > n /\ i <= 2 * n -> [op |-> "enable", line |-> Handled[i - n]]
        [] i > 2 * n -> [op |-> "on", line |-> 0]

Calls == 2 * Len(Handled) + 1

Main(op) ==
  /\ stage = "main" /\ step < Calls /\ Call(step + 1).op = op
  /\ step' = step + 1
  /\ UNCHANGED <<stage, irq_line, next, controller>>

add_int_handler ==
  /\ Main("add")
  /\ int_handler_list' = Append(int_handler_list, Call(step + 1).line)
  /\ UNCHANGED <<interrupt_mask, ie>>

EnableInterrupt ==
  /\ Main("enable")
  /\ interrupt_mask' = interrupt_mask \cup {Call(step + 1).line}
  /\ UNCHANGED <<int_handler_list, ie>>

EnableFirst ==
  /\ Main("on") /\ ie' = TRUE
  /\ UNCHANGED <<int_handler_list, interrupt_mask>>

\* The main loop's sections: disable_interrupts, enable_interrupts
Section(on) ==
  /\ stage = "main" /\ step = Calls /\ ie = ~on /\ ie' = on
  /\ UNCHANGED <<step, int_handler_list, interrupt_mask, stage, irq_line, next,
                 controller>>

-----------------------------------------------------------------------------
(* int_handler.                                                            *)

\* Which interrupt was it?
ReadStatus ==
  /\ stage = "main" /\ ie /\ Pending # {}
  /\ stage' = "read" /\ ie' = FALSE
  /\ irq_line' \in Pending /\ \A l \in Pending : irq_line' <= l
  /\ UNCHANGED <<step, int_handler_list, interrupt_mask, next, controller>>

\* Mutant: everything that is pending is acknowledged.
AckAll ==
  /\ stage = "read" /\ stage' = "chain" /\ next' = 1
  /\ status' = status \ Pending
  /\ UNCHANGED <<step, int_handler_list, interrupt_mask, ie, irq_line, due, events>>

\* XIOModule_AckIntr
Ack ==
  /\ stage = "read" /\ stage' = "chain" /\ next' = 1
  /\ status' = status \ {irq_line}
  /\ UNCHANGED <<step, int_handler_list, interrupt_mask, ie, irq_line, due, events>>

\* Mutant: the next handler waits for the next interrupt.
ChainOnce ==
  /\ stage = "chain" /\ next = 1
  /\ next' = Len(int_handler_list) + 1
  /\ due' = IF int_handler_list[next] = irq_line THEN due \ {irq_line} ELSE due
  /\ UNCHANGED <<step, int_handler_list, interrupt_mask, ie, stage, irq_line,
                 status, events>>

\* One turn of the loop over the list.
Chain ==
  /\ stage = "chain" /\ next <= Len(int_handler_list)
  /\ next' = next + 1
  /\ due' = IF int_handler_list[next] = irq_line THEN due \ {irq_line} ELSE due
  /\ UNCHANGED <<step, int_handler_list, interrupt_mask, ie, stage, irq_line,
                 status, events>>

Return ==
  /\ stage = "chain" /\ next > Len(int_handler_list)
  /\ stage' = "main" /\ ie' = TRUE
  /\ UNCHANGED <<step, int_handler_list, interrupt_mask, irq_line, next, controller>>

Boot    == add_int_handler \/ EnableInterrupt \/ EnableFirst
Handler == Ack \/ Chain \/ Return

Next ==
  \/ \E l \in Lines : Event(l)
  \/ Boot \/ Section(TRUE) \/ Section(FALSE) \/ ReadStatus \/ Handler

Spec == Init /\ [][Next]_vars

\* main and int_handler run on, a section ends, and an interrupt that is
\* enabled again and again is taken.
FairSpec ==
  /\ Spec
  /\ WF_vars(Boot) /\ WF_vars(Section(TRUE)) /\ WF_vars(Handler)
  /\ SF_vars(ReadStatus)

-----------------------------------------------------------------------------
(* Properties.                                                             *)

\* Every variable holds a value of its type in the code, and the list has the
\* handlers in the order they were added.
TypeOK ==
  /\ step \in 0..Calls /\ ie \in BOOLEAN
  /\ int_handler_list = SubSeq(Handled, 1, IF step < Len(Handled) THEN step
                                           ELSE Len(Handled))
  /\ interrupt_mask \subseteq Lines /\ status \subseteq Lines
  /\ stage \in {"main", "read", "chain"} /\ irq_line \in 0..15
  /\ next \in 1..(Len(int_handler_list) + 1)

\* Interrupts are not taken before the handler of every line that may
\* interrupt is in the list.
HandlersFirst ==
  stage # "main" => \E i \in DOMAIN int_handler_list :
                      int_handler_list[i] = irq_line

\* No event is lost: one whose handler has not started since is still in the
\* status register, or its handler is about to be called; although events come
\* between the read of the register and its acknowledgement, and while a
\* handler runs.
NothingLost ==
  \A l \in due :
    \/ l \in status
    \/ /\ stage = "chain" /\ irq_line = l
       /\ \E i \in next..Len(int_handler_list) : int_handler_list[i] = l

\* Every event of a line with a handler is served, those of low priority too
\* once fewer of higher priority come.
EventsServed ==
  \A l \in Lines : l \in ToSet(Handled) => (l \in due ~> l \notin due)
=============================================================================
