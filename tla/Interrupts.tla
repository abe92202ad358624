----------------------------- MODULE Interrupts -----------------------------
(***************************************************************************)
(* The two interrupt controllers (i8259.c), the descriptor table and the   *)
(* entry stubs (idt.c, interrupt_wrap.S), the boot sequence that sets them *)
(* up (kernel.c) and the handlers as seen from the controllers: when each  *)
(* takes the data of its device, sends its end of interrupt and lets other *)
(* interrupts in.  Every gate is an interrupt gate, so IF is clear on      *)
(* entry; only RTC_handler sets it again.  The scheduler runs in the timer *)
(* interrupt and leaves a stack of half-finished handlers behind.          *)
(*                                                                         *)
(* The controllers, the devices, PIT_init and PIT_handler are outside the  *)
(* repository: they are modelled as the code uses them (edge-triggered     *)
(* requests, fully nested priorities, non-specific end of interrupt).      *)
(***************************************************************************)
EXTENDS Integers, Sequences, FiniteSets

CONSTANTS
  Proc,       \* the processes, one kernel stack each
  First,      \* the one the machine boots on
  Stray,      \* lines that devices without a driver may raise
  MaxNested   \* a device asks again only below so many of its handlers

ASSUME InterruptsAssumption ==
  /\ First \in Proc
  /\ Stray \subseteq (3..7) \cup (9..15)
  /\ MaxNested \in Nat \ {0}

IRQ_PER_PIC == 8
PIT_IRQ == 0
KEYBD_IRQ == 1
IRQ2 == 2
RTC_IRQ_NUM == 8

Chips == {"PIC1", "PIC2"}
Chip(irq_num) == IF irq_num < IRQ_PER_PIC THEN "PIC1" ELSE "PIC2"
Line(irq_num) == IF irq_num < IRQ_PER_PIC THEN irq_num ELSE irq_num - IRQ_PER_PIC

VARIABLES
  imr, irr, isr,   \* per controller: lines masked, requested, in service
  base,            \* per controller: the vector of its line 0
  gates,           \* the vectors with a handler of their own
  IF_flag,         \* the interrupt flag of the processor
  mode,            \* per process: what the interrupts interrupt
  kstack,          \* per process: the handlers on its kernel stack
  cur,             \* the process that runs
  untaken,         \* the devices whose data no handler has taken
  recent           \* the lines that asked while another one waited

vars == <<imr, irr, isr, base, gates, IF_flag, mode, kstack, cur, untaken, recent>>
chips == <<imr, irr, isr, base>>

-----------------------------------------------------------------------------
(* The controllers.                                                        *)

\* The lines of a controller that are asked for and not masked.
Asked(chip) == irr[chip] \ imr[chip]

\* Line n of the controller goes first: nothing asked for or in service has
\* its priority or a higher one.
Wins(chip, asked, n) ==
  /\ n \in asked
  /\ \A l \in asked : n <= l
  /\ \A l \in isr[chip] : n < l

SlaveAsks == \E n \in Asked("PIC2") : Wins("PIC2", Asked("PIC2"), n)

\* The master sees the slave on its line 2.
MasterAsked ==
  Asked("PIC1") \cup (IF SlaveAsks /\ IRQ2 \notin imr["PIC1"] THEN {IRQ2} ELSE {})

\* A non-specific end of interrupt ends the highest line in service.
EndHighest(served) == {l \in served : \E k \in served : k < l}

\* Seeded fault: the slave is not told of line 8.
send_eoi_Greater(irq_num) ==
  isr' = [c \in Chips |->
            IF c = "PIC1" \/ irq_num > IRQ_PER_PIC THEN EndHighest(isr[c]) ELSE isr[c]]

send_eoi(irq_num) ==
  isr' = [c \in Chips |->
            IF c = "PIC1" \/ irq_num >= IRQ_PER_PIC THEN EndHighest(isr[c]) ELSE isr[c]]

\* Seeded fault: the line number is not reduced for the slave.
enable_irq_Wide(irq_num) ==
  imr' = [imr EXCEPT ![Chip(irq_num)] = @ \ {irq_num}]

\* Seeded fault: the complement is missing, the other lines are unmasked.
enable_irq_Others(irq_num) ==
  imr' = [imr EXCEPT ![Chip(irq_num)] = @ \cap {Line(irq_num)}]

enable_irq(irq_num) ==
  imr' = [imr EXCEPT ![Chip(irq_num)] = @ \ {Line(irq_num)}]

-----------------------------------------------------------------------------
(* Boot.                                                                   *)

Init ==
  /\ imr = [c \in Chips |-> {}]
  /\ irr = [c \in Chips |-> {}]
  /\ isr = [c \in Chips |-> {}]
  /\ base = [c \in Chips |-> 0]
  /\ gates = {}
  /\ IF_flag = FALSE
  /\ mode = [p \in Proc |-> IF p = First THEN "idt_init" ELSE "user"]
  /\ kstack = [p \in Proc |-> <<>>]
  /\ cur = First
  /\ untaken = {}
  /\ recent = {}

Boot(here, next) ==
  /\ cur = First /\ mode[First] = here
  /\ mode' = [mode EXCEPT ![First] = next]
  /\ UNCHANGED <<kstack, cur, untaken, recent>>

idt_init ==
  /\ Boot("idt_init", "i8259_init")
  /\ gates' = {32, 33, 40}    \* 0x20, 0x21, 0x28
  /\ UNCHANGED <<chips, IF_flag>>

\* ICW1 clears the requests and the mask; then all is masked but line 2.
i8259_init ==
  /\ Boot("i8259_init", "keyboard_init")
  /\ IF_flag' = FALSE
  /\ imr' = [c \in Chips |-> IF c = "PIC1" THEN (0..7) \ {IRQ2} ELSE 0..7]
  /\ irr' = [c \in Chips |-> {}]
  /\ isr' = [c \in Chips |-> {}]
  /\ base' = [c \in Chips |-> IF c = "PIC1" THEN 32 ELSE 40]    \* ICW2
  /\ UNCHANGED gates

keyboard_init ==
  /\ Boot("keyboard_init", "RTC_init")
  /\ IF_flag' = FALSE
  /\ enable_irq(KEYBD_IRQ)
  /\ UNCHANGED <<irr, isr, base, gates>>

\* The chip is set to interrupt before its line is unmasked.
RTC_initPie ==
  /\ Boot("RTC_init", "RTC_enable")
  /\ IF_flag' = FALSE
  /\ UNCHANGED <<chips, gates>>

RTC_init ==
  /\ Boot("RTC_enable", "PIT_init")
  /\ IF_flag' = FALSE
  /\ enable_irq(RTC_IRQ_NUM)
  /\ UNCHANGED <<irr, isr, base, gates>>

PIT_init ==
  /\ Boot("PIT_init", "sti")
  /\ enable_irq(PIT_IRQ)
  /\ UNCHANGED <<irr, isr, base, gates, IF_flag>>

entry ==
  /\ Boot("sti", "user")
  /\ IF_flag' = TRUE
  /\ UNCHANGED <<chips, gates>>

-----------------------------------------------------------------------------
(* The handlers: the order in which each ends its interrupt, takes the data *)
(* of its device and lets others in.                                       *)

\* Seeded fault: interrupts are let in before the controllers are told.
RTC_handler_EarlySti == <<"take", "sti", "eoi", "iret">>

\* Seeded fault: register C is not read.
RTC_handler_NoRead == <<"eoi", "sti", "iret">>

RTC_handler == <<"take", "eoi", "sti", "iret">>
keyboard_handler == <<"eoi", "take", "iret">>
PIT_handler == <<"eoi", "switch", "iret">>

Steps(irq_num) ==
  IF irq_num = PIT_IRQ THEN PIT_handler
  ELSE IF irq_num = KEYBD_IRQ THEN keyboard_handler ELSE RTC_handler

Top == kstack[cur][Len(kstack[cur])]
Busy == kstack[cur] # <<>>
Op == Steps(Top.irq)[Top.at]

-----------------------------------------------------------------------------
(* Requests and their delivery.                                            *)

\* The devices that raise no new edge until their data were taken.
Holding == {KEYBD_IRQ, RTC_IRQ_NUM}

\* The handlers of a line on the stack of p.
Nested(p, irq_num) == {i \in 1..Len(kstack[p]) : kstack[p][i].irq = irq_num}

\* A device asks, once the controllers are set up: what asked before, ICW1 forgets.
\* (A key whose byte was left in port 0x60 by then, which keyboard_init does not
\* read, would ask no more; the loader is taken to leave none.)  The clock is silent
\* until RTC_init sets its enable bit.  Two bounds stand for the speed of the
\* devices: none asks twice while another line waits, and none while MaxNested
\* of its handlers are on one stack.
Raise(irq_num) ==
  /\ mode[First] \notin {"idt_init", "i8259_init"}
  /\ irq_num = RTC_IRQ_NUM => mode[First] \notin {"keyboard_init", "RTC_init"}
  /\ irq_num \notin untaken \cup recent
  /\ \A p \in Proc : Cardinality(Nested(p, irq_num)) < MaxNested
  /\ irr' = [irr EXCEPT ![Chip(irq_num)] = @ \cup {Line(irq_num)}]
  /\ untaken' = untaken \cup ({irq_num} \cap Holding)
  /\ recent' = recent \cup {irq_num}
  /\ UNCHANGED <<imr, isr, base, gates, IF_flag, mode, kstack, cur>>

\* The controllers choose the line; a slave's line is in service in both.
Chosen(irq_num) ==
  \/ irq_num \in 0..7 /\ irq_num # IRQ2 /\ Wins("PIC1", MasterAsked, irq_num)
  \/ /\ irq_num \in 8..15 /\ Wins("PIC1", MasterAsked, IRQ2)
     /\ Wins("PIC2", Asked("PIC2"), irq_num - IRQ_PER_PIC)

\* The handler of line n of a controller; a vector without a gate of its own
\* enters at address 0.
Entered(irq_num) ==
  IF base[Chip(irq_num)] + Line(irq_num) \in gates THEN irq_num ELSE -1

Deliver(irq_num) ==
  /\ IF_flag
  /\ Chosen(irq_num)
  /\ irr' = [irr EXCEPT ![Chip(irq_num)] = @ \ {Line(irq_num)}]
  /\ isr' = [c \in Chips |->
               isr[c] \cup (IF c = Chip(irq_num) THEN {Line(irq_num)}
                           ELSE IF c = "PIC1" THEN {IRQ2} ELSE {})]
  /\ kstack' = [kstack EXCEPT ![cur] = Append(@, [irq |-> Entered(irq_num), at |-> 1])]
  /\ IF_flag' = FALSE
  /\ UNCHANGED <<imr, base, gates, mode, cur, untaken>>
  /\ recent' = IF \A c \in Chips : Asked(c)' = {} THEN {} ELSE recent

-----------------------------------------------------------------------------
(* The steps of the handler on top of the running stack.                   *)

Advance == kstack' = [kstack EXCEPT ![cur][Len(kstack[cur])].at = @ + 1]

Eoi ==
  /\ Busy /\ Op = "eoi"
  /\ send_eoi(Top.irq)
  /\ Advance
  /\ UNCHANGED <<imr, irr, base, gates, IF_flag, mode, cur, untaken, recent>>

\* inb(KB_DATA_PORT), or the read of register C.
Take ==
  /\ Busy /\ Op = "take"
  /\ untaken' = untaken \ {Top.irq}
  /\ Advance
  /\ UNCHANGED <<chips, gates, IF_flag, mode, cur, recent>>

Sti ==
  /\ Busy /\ Op = "sti"
  /\ IF_flag' = TRUE
  /\ Advance
  /\ UNCHANGED <<chips, gates, mode, cur, untaken, recent>>

\* The timer leaves the CPU to any process: one stopped in this place, or a
\* first shell that has not run yet.
SwitchProcess ==
  /\ Busy /\ Op = "switch"
  /\ cur' \in Proc
  /\ Advance
  /\ IF_flag' = (cur' # cur /\ kstack[cur'] = <<>>)
  /\ UNCHANGED <<chips, gates, mode, untaken, recent>>

\* popal, popfl, iret: an interrupt is taken only with IF set, so the flags
\* that iret restores have it set.
Iret ==
  /\ Busy /\ Op = "iret"
  /\ kstack' = [kstack EXCEPT ![cur] = SubSeq(@, 1, Len(@) - 1)]
  /\ IF_flag' = TRUE
  /\ UNCHANGED <<chips, gates, mode, cur, untaken, recent>>

HandlerStep == Eoi \/ Take \/ Sti \/ SwitchProcess \/ Iret

-----------------------------------------------------------------------------
(* The program below the handlers: user code or a system call.             *)

InProgram(here, next, flag) ==
  /\ ~Busy /\ mode[cur] = here
  /\ mode' = [mode EXCEPT ![cur] = next]
  /\ IF_flag' = flag
  /\ UNCHANGED <<chips, gates, kstack, cur, untaken, recent>>

SystemCall == InProgram("user", "call", FALSE)

\* RTC_read and write set IF in the middle of the call.
CallSti == InProgram("call", "open", TRUE)

SystemReturn == InProgram("call", "user", TRUE) \/ InProgram("open", "user", TRUE)

-----------------------------------------------------------------------------
Lines == {PIT_IRQ, KEYBD_IRQ, RTC_IRQ_NUM} \cup Stray

BootStep ==
  \/ idt_init \/ i8259_init \/ keyboard_init \/ RTC_initPie \/ RTC_init
  \/ PIT_init \/ entry

Next ==
  \/ BootStep
  \/ \E irq_num \in Lines : Raise(irq_num) \/ Deliver(irq_num)
  \/ HandlerStep
  \/ SystemCall \/ CallSti \/ SystemReturn

\* The processor goes on; a system call ends; a line the controllers choose is
\* taken between two instructions, even if system calls clear IF between them.
Fairness ==
  /\ WF_vars(BootStep) /\ WF_vars(HandlerStep) /\ WF_vars(SystemReturn)
  /\ \A irq_num \in Lines : SF_vars(Deliver(irq_num))

Spec == Init /\ [][Next]_vars /\ Fairness

-----------------------------------------------------------------------------
(* Properties.                                                             *)

\* The line a handler answers for on each controller.
Owes(frame) ==
  frame.irq \in {PIT_IRQ, KEYBD_IRQ, RTC_IRQ_NUM}
  /\ \E i \in frame.at..Len(Steps(frame.irq)) : Steps(frame.irq)[i] = "eoi"

\* Every variable has its type, and every interrupt enters a handler that
\* idt_init installed.
TypeOK ==
  /\ imr \in [Chips -> SUBSET (0..7)]
  /\ irr \in [Chips -> SUBSET (0..7)]
  /\ isr \in [Chips -> SUBSET (0..7)]
  /\ base \in [Chips -> {0, 32, 40}]
  /\ gates \in {{}, {32, 33, 40}}
  /\ IF_flag \in BOOLEAN
  /\ mode \in [Proc -> {"idt_init", "i8259_init", "keyboard_init", "RTC_init",
                       "RTC_enable", "PIT_init", "sti", "user", "call", "open"}]
  /\ cur \in Proc
  /\ untaken \subseteq Holding
  /\ recent \subseteq Lines
  /\ \A p \in Proc : \A i \in 1..Len(kstack[p]) :
       /\ kstack[p][i].irq \in {PIT_IRQ, KEYBD_IRQ, RTC_IRQ_NUM}
       /\ kstack[p][i].at \in 1..Len(Steps(kstack[p][i].irq))

\* A controller holds a line in service exactly while the handler of that line
\* has not sent its end of interrupt, and the master the slave's line exactly
\* while the slave has one in service: no interrupt is acknowledged for another
\* and none stays behind to block the lines below it (i8259.c, send_eoi).
InServiceHasHandler ==
  /\ \A n \in (0..15) \ {IRQ2} :
       Line(n) \in isr[Chip(n)]
         <=> \E p \in Proc : \E i \in 1..Len(kstack[p]) :
               kstack[p][i].irq = n /\ Owes(kstack[p][i])
  /\ IRQ2 \in isr["PIC1"] <=> isr["PIC2"] # {}

\* A handler that is not running, because another one came on top of it or the
\* timer took the CPU away, has done all its work but return: no process keeps
\* a line of the controllers blocked while it waits for the CPU.
WaitingHandlersAreDone ==
  \A p \in Proc : \A i \in 1..Len(kstack[p]) :
    (p # cur \/ i < Len(kstack[p]))
      => Steps(kstack[p][i].irq)[kstack[p][i].at] = "iret"

\* A device that waits for its data to be taken will be heard: its request is
\* held by the controller or its handler is about to take the data.
NoDeviceStuck ==
  \A n \in untaken :
    \/ Line(n) \in irr[Chip(n)]
    \/ \E p \in Proc : \E i \in 1..Len(kstack[p]) :
         /\ kstack[p][i].irq = n
         /\ \E k \in kstack[p][i].at..Len(Steps(n)) : Steps(n)[k] = "take"

\* Every interrupt of the three drivers is served in the end, whatever the
\* others do and wherever the scheduler goes.
Served ==
  \A n \in {PIT_IRQ, KEYBD_IRQ, RTC_IRQ_NUM} :
    (Line(n) \in irr[Chip(n)]) ~> (Line(n) \in isr[Chip(n)])

=============================================================================
