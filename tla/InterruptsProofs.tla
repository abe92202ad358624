-------------------------- MODULE InterruptsProofs --------------------------
(***************************************************************************)
(* Proofs about Interrupts, for any number of processes, any lines without *)
(* a driver and any depth of nesting.                                      *)
(*                                                                         *)
(* The argument: no handler lets others in before it is done but for its   *)
(* return, so only the handler on top of the running stack can have work   *)
(* left.  The controllers therefore hold at most one line in service, that *)
(* of this handler, and its end of interrupt, which does not say which     *)
(* line it ends, can only end the right one.                               *)
(***************************************************************************)
EXTENDS Interrupts, SequenceTheorems, TLAPS

Drivers == {PIT_IRQ, KEYBD_IRQ, RTC_IRQ_NUM}
Frame == {f \in [irq : Drivers, at : 1..4] : f.at <= Len(Steps(f.irq))}
Programs == {"user", "call", "open"}
BootModes == {"idt_init", "i8259_init", "keyboard_init", "RTC_init", "RTC_enable",
              "PIT_init", "sti"}

\* Nothing is left to do but to return; the data are still to be taken.
Done(f) == Steps(f.irq)[f.at] = "iret"
Wants(f) == \E k \in f.at..Len(Steps(f.irq)) : Steps(f.irq)[k] = "take"

Typed ==
  /\ imr \in [Chips -> SUBSET (0..7)]
  /\ irr \in [Chips -> SUBSET (0..7)]
  /\ isr \in [Chips -> SUBSET (0..7)]
  /\ base \in [Chips -> {0, 32, 40}]
  /\ gates \in {{}, {32, 33, 40}}
  /\ IF_flag \in BOOLEAN
  /\ mode \in [Proc -> BootModes \cup Programs]
  /\ cur \in Proc
  /\ untaken \subseteq Holding
  /\ recent \subseteq Lines
  /\ kstack \in [Proc -> Seq(Frame)]

\* Until entry ends, one process runs with interrupts off and no handler.
Booting ==
  /\ \A p \in Proc : p # First => mode[p] \in Programs
  /\ mode[First] \in BootModes =>
       /\ cur = First /\ ~IF_flag
       /\ \A p \in Proc : kstack[p] = <<>>
  /\ mode[First] \in {"idt_init", "i8259_init"} => untaken = {}

\* Once they are set up, the controllers let the three lines through only, and
\* each of these has its gate.
SetUp ==
  mode[First] \notin {"idt_init", "i8259_init"} =>
    /\ 3..7 \subseteq imr["PIC1"] /\ 1..7 \subseteq imr["PIC2"]
    /\ base["PIC1"] = 32 /\ base["PIC2"] = 40

HasGates == mode[First] # "idt_init" => gates = {32, 33, 40}

\* Only the handler on top of the running stack has work left, and none while
\* interrupts are let in.
Waiting ==
  \A p \in Proc : \A i \in 1..Len(kstack[p]) :
    (p # cur \/ i < Len(kstack[p]) \/ IF_flag) => Done(kstack[p][i])

\* The lines in service while the handler of one line owes its end.
ServiceOf(n) ==
  [c \in Chips |-> IF c = Chip(n) THEN {Line(n)} ELSE IF c = "PIC1" THEN {IRQ2} ELSE {}]

Owing == Busy /\ Owes(Top)
Service ==
  /\ Owing => isr = ServiceOf(Top.irq)
  /\ ~Owing => \A c \in Chips : isr[c] = {}

Heard ==
  \A n \in untaken :
    \/ Line(n) \in irr[Chip(n)]
    \/ \E p \in Proc : \E i \in 1..Len(kstack[p]) :
         kstack[p][i].irq = n /\ Wants(kstack[p][i])

IInv ==
  Typed /\ Booting /\ SetUp /\ HasGates /\ Waiting /\ Service /\ Heard

-----------------------------------------------------------------------------
(* The handlers                                                            *)

\* The tables of the three handlers, read off place by place.
LEMMA StepTable ==
  /\ Len(Steps(0)) = 3 /\ Steps(0)[1] = "eoi" /\ Steps(0)[2] = "switch" /\ Steps(0)[3] = "iret"
  /\ Len(Steps(1)) = 3 /\ Steps(1)[1] = "eoi" /\ Steps(1)[2] = "take" /\ Steps(1)[3] = "iret"
  /\ Len(Steps(8)) = 4 /\ Steps(8)[1] = "take" /\ Steps(8)[2] = "eoi"
  /\ Steps(8)[3] = "sti" /\ Steps(8)[4] = "iret"
  BY DEF Steps, PIT_handler, keyboard_handler, RTC_handler, PIT_IRQ, KEYBD_IRQ

LEMMA LineTable ==
  /\ Drivers = {0, 1, 8} /\ Holding = {1, 8}
  /\ Chip(0) = "PIC1" /\ Line(0) = 0
  /\ Chip(1) = "PIC1" /\ Line(1) = 1
  /\ Chip(8) = "PIC2" /\ Line(8) = 0
  /\ Chips = {"PIC1", "PIC2"} /\ "PIC1" # "PIC2"
  BY DEF Drivers, Holding, Chip, Line, Chips, PIT_IRQ, KEYBD_IRQ, RTC_IRQ_NUM, IRQ_PER_PIC

LEMMA FrameTable ==
  ASSUME NEW f \in Frame
  PROVE  /\ f.irq \in {0, 1, 8} /\ f.at \in 1..Len(Steps(f.irq))
         /\ f.irq = 0 => f.at \in 1..3
         /\ f.irq = 1 => f.at \in 1..3
         /\ f.irq = 8 => f.at \in 1..4
         /\ Done(f) <=> f.at = Len(Steps(f.irq))
         /\ Owes(f) <=> f.at = 1 \/ (f.irq = 8 /\ f.at = 2)
         /\ Wants(f) <=> (f.irq = 1 /\ f.at \in {1, 2}) \/ (f.irq = 8 /\ f.at = 1)
<1>1. f.irq \in {0, 1, 8} /\ f.at \in 1..4 /\ f.at <= Len(Steps(f.irq))
  BY LineTable DEF Frame
<1>2. /\ Done(f) <=> Steps(f.irq)[f.at] = "iret"
      /\ Owes(f) <=> \E i \in f.at..Len(Steps(f.irq)) : Steps(f.irq)[i] = "eoi"
      /\ Wants(f) <=> \E i \in f.at..Len(Steps(f.irq)) : Steps(f.irq)[i] = "take"
  BY <1>1, LineTable DEF Done, Owes, Wants, Drivers
<1> DEFINE a == f.at
<1>3. CASE f.irq = 0
  <2>0. Steps(f.irq) = Steps(0)
    BY <1>3, Zenon
  <2>1. a \in 1..3 /\ Len(Steps(f.irq)) = 3
    <3>1. Len(Steps(f.irq)) = 3
      BY <2>0, StepTable
    <3>2. a <= 3
      BY <1>1, <3>1
    <3> QED BY <1>1, <3>1, <3>2
  <2>2. /\ Done(f) <=> Steps(0)[a] = "iret"
        /\ Owes(f) <=> \E i \in a..3 : Steps(0)[i] = "eoi"
        /\ Wants(f) <=> \E i \in a..3 : Steps(0)[i] = "take"
    BY <1>2, <1>3, <2>1
  <2> HIDE DEF a
  <2>3. a = 1 \/ a = 2 \/ a = 3
    BY <2>1
  <2>4. /\ \A i \in 1..3 : i = 1 \/ i = 2 \/ i = 3
        /\ \A i \in 2..3 : i = 2 \/ i = 3
        /\ \A i \in 3..3 : i = 3
        /\ 1 \in 1..3
    OBVIOUS
  <2>5. (Done(f) <=> a = 3) /\ (Owes(f) <=> a = 1) /\ ~ Wants(f)
    BY <2>2, <2>3, <2>4, StepTable
  <2>6. f.at \in 1..Len(Steps(f.irq)) /\ f.at \in 1..3 /\ f.at \in 1..4
    BY <2>1 DEF a
  <2>7. /\ Done(f) <=> f.at = Len(Steps(f.irq))
        /\ Owes(f) <=> f.at = 1 \/ (f.irq = 8 /\ f.at = 2)
        /\ Wants(f) <=> (f.irq = 1 /\ f.at \in {1, 2}) \/ (f.irq = 8 /\ f.at = 1)
    <3>1. Done(f) <=> f.at = Len(Steps(f.irq))
      BY <2>1, <2>5 DEF a
    <3>2. Owes(f) <=> f.at = 1 \/ (f.irq = 8 /\ f.at = 2)
      BY <1>3, <2>5 DEF a
    <3>3. Wants(f) <=> (f.irq = 1 /\ f.at \in {1, 2}) \/ (f.irq = 8 /\ f.at = 1)
      BY <1>3, <2>5 DEF a
    <3> QED BY <3>1, <3>2, <3>3
  <2> QED BY <1>3, <2>6, <2>7
<1>4. CASE f.irq = 1
  <2>0. Steps(f.irq) = Steps(1)
    BY <1>4, Zenon
  <2>1. a \in 1..3 /\ Len(Steps(f.irq)) = 3
    <3>1. Len(Steps(f.irq)) = 3
      BY <2>0, StepTable
    <3>2. a <= 3
      BY <1>1, <3>1
    <3> QED BY <1>1, <3>1, <3>2
  <2>2. /\ Done(f) <=> Steps(1)[a] = "iret"
        /\ Owes(f) <=> \E i \in a..3 : Steps(1)[i] = "eoi"
        /\ Wants(f) <=> \E i \in a..3 : Steps(1)[i] = "take"
    BY <1>2, <1>4, <2>1
  <2> HIDE DEF a
  <2>3. a = 1 \/ a = 2 \/ a = 3
    BY <2>1
  <2>4. /\ \A i \in 1..3 : i = 1 \/ i = 2 \/ i = 3
        /\ \A i \in 2..3 : i = 2 \/ i = 3
        /\ \A i \in 3..3 : i = 3
        /\ 1 \in 1..3 /\ 2 \in 1..3 /\ 2 \in 2..3
    OBVIOUS
  <2>5. (Done(f) <=> a = 3) /\ (Owes(f) <=> a = 1) /\ (Wants(f) <=> a \in {1, 2})
    BY <2>2, <2>3, <2>4, StepTable
  <2>6. f.at \in 1..Len(Steps(f.irq)) /\ f.at \in 1..3 /\ f.at \in 1..4
    BY <2>1 DEF a
  <2>7. /\ Done(f) <=> f.at = Len(Steps(f.irq))
        /\ Owes(f) <=> f.at = 1 \/ (f.irq = 8 /\ f.at = 2)
        /\ Wants(f) <=> (f.irq = 1 /\ f.at \in {1, 2}) \/ (f.irq = 8 /\ f.at = 1)
    <3>1. Done(f) <=> f.at = Len(Steps(f.irq))
      BY <2>1, <2>5 DEF a
    <3>2. Owes(f) <=> f.at = 1 \/ (f.irq = 8 /\ f.at = 2)
      BY <1>4, <2>5 DEF a
    <3>3. Wants(f) <=> (f.irq = 1 /\ f.at \in {1, 2}) \/ (f.irq = 8 /\ f.at = 1)
      BY <1>4, <2>5 DEF a
    <3> QED BY <3>1, <3>2, <3>3
  <2> QED BY <1>4, <2>6, <2>7
<1>5. CASE f.irq = 8
  <2>0. Steps(f.irq) = Steps(8)
    BY <1>5, Zenon
  <2>1. a \in 1..4 /\ Len(Steps(f.irq)) = 4
    <3>1. Len(Steps(f.irq)) = 4
      BY <2>0, StepTable
    <3>2. a <= 4
      BY <1>1, <3>1
    <3> QED BY <1>1, <3>1, <3>2
  <2>2. /\ Done(f) <=> Steps(8)[a] = "iret"
        /\ Owes(f) <=> \E i \in a..4 : Steps(8)[i] = "eoi"
        /\ Wants(f) <=> \E i \in a..4 : Steps(8)[i] = "take"
    BY <1>2, <1>5, <2>1
  <2> HIDE DEF a
  <2>3. a = 1 \/ a = 2 \/ a = 3 \/ a = 4
    BY <2>1
  <2>4. /\ \A i \in 1..4 : i = 1 \/ i = 2 \/ i = 3 \/ i = 4
        /\ \A i \in 2..4 : i = 2 \/ i = 3 \/ i = 4
        /\ \A i \in 3..4 : i = 3 \/ i = 4
        /\ \A i \in 4..4 : i = 4
        /\ 1 \in 1..4 /\ 2 \in 1..4 /\ 2 \in 2..4
    OBVIOUS
  <2>5. (Done(f) <=> a = 4) /\ (Owes(f) <=> a \in {1, 2}) /\ (Wants(f) <=> a = 1)
    BY <2>2, <2>3, <2>4, StepTable
  <2>6. f.at \in 1..Len(Steps(f.irq)) /\ f.at \in 1..4 /\ f.at \in 1..4
    BY <2>1 DEF a
  <2>7. /\ Done(f) <=> f.at = Len(Steps(f.irq))
        /\ Owes(f) <=> f.at = 1 \/ (f.irq = 8 /\ f.at = 2)
        /\ Wants(f) <=> (f.irq = 1 /\ f.at \in {1, 2}) \/ (f.irq = 8 /\ f.at = 1)
    <3>1. Done(f) <=> f.at = Len(Steps(f.irq))
      BY <2>1, <2>5 DEF a
    <3>2. Owes(f) <=> f.at = 1 \/ (f.irq = 8 /\ f.at = 2)
      BY <1>5, <2>5 DEF a
    <3>3. Wants(f) <=> (f.irq = 1 /\ f.at \in {1, 2}) \/ (f.irq = 8 /\ f.at = 1)
      BY <1>5, <2>5 DEF a
    <3> QED BY <3>1, <3>2, <3>3
  <2> QED BY <1>5, <2>6, <2>7
<1> QED BY <1>1, <1>3, <1>4, <1>5

-----------------------------------------------------------------------------
(* The kernel stacks                                                       *)

LEMMA TopFrame ==
  ASSUME Typed, Busy
  PROVE  Len(kstack[cur]) \in Nat \ {0} /\ Top \in Frame
<1>1. kstack[cur] \in Seq(Frame) /\ kstack[cur] # <<>>
  BY DEF Typed, Busy
<1>2. Len(kstack[cur]) \in Nat \ {0}
  BY <1>1
<1> QED BY <1>1, <1>2 DEF Top

\* The stack s has become r, on the process that runs.
Others == \A p \in Proc : p # cur => kstack'[p] = kstack[p]
Under(n) == \A i \in 1..n : kstack'[cur][i] = kstack[cur][i]

LEMMA PushStack ==
  ASSUME Typed, NEW n \in Drivers,
         kstack' = [kstack EXCEPT ![cur] = Append(@, [irq |-> n, at |-> 1])]
  PROVE  /\ kstack' \in [Proc -> Seq(Frame)] /\ Others
         /\ Len(kstack'[cur]) = Len(kstack[cur]) + 1
         /\ Under(Len(kstack[cur]))
         /\ kstack'[cur][Len(kstack[cur]) + 1] = [irq |-> n, at |-> 1]
<1> DEFINE f == [irq |-> n, at |-> 1]
           s == kstack[cur]
           r == kstack'[cur]
<1>1. f \in Frame
  <2>1. f.irq = n /\ f.at = 1 /\ f \in [irq : Drivers, at : 1..4]
    OBVIOUS
  <2>2. n = 0 \/ n = 1 \/ n = 8
    BY LineTable
  <2>3. Len(Steps(n)) \in {3, 4}
    BY <2>2, StepTable
  <2>4. f.at <= Len(Steps(f.irq))
    BY <2>1, <2>3
  <2> QED BY <2>1, <2>4 DEF Frame
<1>2. cur \in Proc /\ kstack \in [Proc -> Seq(Frame)] /\ s \in Seq(Frame)
  BY DEF Typed
<1>3. r = Append(s, f) /\ Others
  BY <1>2 DEF Others
<1> HIDE DEF f
<1>4. Append(s, f) \in Seq(Frame)
  BY <1>1, <1>2, AppendProperties
<1>5. kstack' \in [Proc -> Seq(Frame)]
  BY <1>2, <1>4 DEF f
<1>6. Len(r) = Len(s) + 1 /\ r[Len(s) + 1] = f /\ \A i \in 1..Len(s) : r[i] = s[i]
  BY <1>1, <1>2, <1>3, AppendProperties
<1> QED BY <1>3, <1>5, <1>6 DEF Under, f

LEMMA AdvanceStack ==
  ASSUME Typed, Busy, Top.at # Len(Steps(Top.irq)), Advance
  PROVE  /\ kstack' \in [Proc -> Seq(Frame)] /\ Others
         /\ Len(kstack'[cur]) = Len(kstack[cur])
         /\ Under(Len(kstack[cur]) - 1)
         /\ kstack'[cur][Len(kstack[cur])].irq = Top.irq
         /\ kstack'[cur][Len(kstack[cur])].at = Top.at + 1
<1> DEFINE s == kstack[cur]
           f == [Top EXCEPT !.at = @ + 1]
<1>1. Len(s) \in Nat \ {0} /\ Top \in Frame /\ Top = s[Len(s)]
  BY TopFrame DEF Top
<1>2. cur \in Proc /\ kstack \in [Proc -> Seq(Frame)] /\ s \in Seq(Frame)
  BY DEF Typed
<1>3. f \in Frame /\ f.irq = Top.irq /\ f.at = Top.at + 1
  <2>1. Top \in [irq : Drivers, at : 1..4] /\ Top.irq \in {0, 1, 8}
    BY <1>1, LineTable DEF Frame
  <2>2. Len(Steps(Top.irq)) \in {3, 4}
    <3>1. Top.irq = 0 \/ Top.irq = 1 \/ Top.irq = 8
      BY <2>1
    <3> QED BY <3>1, StepTable
  <2>3. Top.at + 1 <= Len(Steps(Top.irq)) /\ Top.at + 1 \in 1..4
    <3>1. Top.at \in 1..4 /\ Top.at <= Len(Steps(Top.irq)) /\ Top.at # Len(Steps(Top.irq))
      BY <1>1, <2>1 DEF Frame
    <3> DEFINE L == Len(Steps(Top.irq))
               a == Top.at
    <3>2. a \in 1..4 /\ a <= L /\ a # L /\ L \in {3, 4}
      BY <2>2, <3>1
    <3> HIDE DEF L, a
    <3>3. a + 1 <= L /\ a + 1 \in 1..4
      BY <3>2
    <3> QED BY <3>3 DEF L, a
  <2>4. f.irq = Top.irq /\ f.at = Top.at + 1 /\ f \in [irq : Drivers, at : 1..4]
    BY <2>1, <2>3
  <2> QED BY <2>3, <2>4 DEF Frame
<1>4. kstack' = [kstack EXCEPT ![cur] = [s EXCEPT ![Len(s)] = f]]
  BY <1>1, <1>2 DEF Advance
<1> HIDE DEF f
<1>5. [s EXCEPT ![Len(s)] = f] \in Seq(Frame) /\ Len([s EXCEPT ![Len(s)] = f]) = Len(s)
  BY <1>1, <1>2, <1>3, ExceptSeq
<1>6. kstack'[cur] = [s EXCEPT ![Len(s)] = f] /\ Others
  BY <1>2, <1>4 DEF Others
<1>7. kstack' \in [Proc -> Seq(Frame)]
  BY <1>2, <1>4, <1>5
<1>8. kstack'[cur][Len(s)] = f /\ \A i \in 1..(Len(s) - 1) : kstack'[cur][i] = s[i]
  BY <1>1, <1>2, <1>6
<1> QED BY <1>3, <1>5, <1>6, <1>7, <1>8 DEF Under

LEMMA PopStack ==
  ASSUME Typed, Busy,
         kstack' = [kstack EXCEPT ![cur] = SubSeq(@, 1, Len(@) - 1)]
  PROVE  /\ kstack' \in [Proc -> Seq(Frame)] /\ Others
         /\ Len(kstack'[cur]) = Len(kstack[cur]) - 1
         /\ Under(Len(kstack[cur]) - 1)
<1> DEFINE s == kstack[cur]
           r == SubSeq(s, 1, Len(s) - 1)
<1>1. Len(s) \in Nat \ {0}
  BY TopFrame
<1>2. cur \in Proc /\ kstack \in [Proc -> Seq(Frame)] /\ s \in Seq(Frame)
  BY DEF Typed
<1>3. r \in Seq(Frame) /\ Len(r) = Len(s) - 1 /\ \A i \in 1..(Len(s) - 1) : r[i] = s[i]
  <2> DEFINE m == Len(s) - 1
  <2>1. m \in Nat /\ \A i \in 1..m : s[i] \in Frame
    BY <1>1, <1>2
  <2>2. r = SubSeq(s, 1, m)
    OBVIOUS
  <2> HIDE DEF r, m
  <2>3. /\ r \in Seq(Frame) /\ Len(r) = IF 1 <= m THEN m - 1 + 1 ELSE 0
        /\ \A i \in 1..(m - 1 + 1) : r[i] = s[1 + i - 1]
    BY <2>1, <2>2, SubSeqProperties
  <2>4. Len(r) = m /\ \A i \in 1..m : r[i] = s[i]
    BY <2>1, <2>3
  <2> QED BY <2>3, <2>4 DEF m
<1>4. kstack' = [kstack EXCEPT ![cur] = r]
  BY <1>2
<1> HIDE DEF r
<1>5. kstack'[cur] = r /\ Others /\ kstack' \in [Proc -> Seq(Frame)]
  BY <1>2, <1>3, <1>4 DEF Others
<1> QED BY <1>3, <1>5 DEF Under

-----------------------------------------------------------------------------
(* A step of the handler on top                                            *)

\* What the next operation of a handler says of the place it has reached.
LEMMA OpTable ==
  ASSUME NEW f \in Frame, NEW op, op = Steps(f.irq)[f.at]
  PROVE  /\ op = "eoi" => Owes(f) /\ ((f.at = 1 /\ f.irq # 8) \/ (f.at = 2 /\ f.irq = 8))
         /\ op = "take" => (f.irq = 1 /\ f.at = 2) \/ (f.irq = 8 /\ f.at = 1)
         /\ op = "sti" => f.irq = 8 /\ f.at = 3
         /\ op = "switch" => f.irq = 0 /\ f.at = 2
         /\ op = "iret" <=> Done(f)
<1>1. op = "iret" <=> Done(f)
  BY DEF Done
<1>2. Owes(f) <=> f.at = 1 \/ (f.irq = 8 /\ f.at = 2)
  BY FrameTable
<1>3. CASE f.irq = 0
  <2>1. f.at = 1 \/ f.at = 2 \/ f.at = 3
    BY <1>3, FrameTable
  <2>2. Steps(f.irq) = Steps(0)
    BY <1>3, Zenon
  <2> QED BY <1>1, <1>2, <1>3, <2>1, <2>2, StepTable
<1>4. CASE f.irq = 1
  <2>1. f.at = 1 \/ f.at = 2 \/ f.at = 3
    BY <1>4, FrameTable
  <2>2. Steps(f.irq) = Steps(1)
    BY <1>4, Zenon
  <2> QED BY <1>1, <1>2, <1>4, <2>1, <2>2, StepTable
<1>5. CASE f.irq = 8
  <2>1. f.at = 1 \/ f.at = 2 \/ f.at = 3 \/ f.at = 4
    BY <1>5, FrameTable
  <2>2. Steps(f.irq) = Steps(8)
    BY <1>5, Zenon
  <2> QED BY <1>1, <1>2, <1>5, <2>1, <2>2, StepTable
<1>6. f.irq \in {0, 1, 8}
  BY FrameTable
<1> QED BY <1>3, <1>4, <1>5, <1>6

LEMMA DoneHasNoWork ==
  ASSUME NEW f \in Frame, Done(f)
  PROVE  ~ Owes(f) /\ ~ Wants(f)
<1> DEFINE L == Len(Steps(f.irq))
<1>1. f.at = L /\ f.irq \in {0, 1, 8}
  BY FrameTable
<1>2. Owes(f) <=> f.at = 1 \/ (f.irq = 8 /\ f.at = 2)
  BY FrameTable
<1>3. Wants(f) <=> (f.irq = 1 /\ f.at \in {1, 2}) \/ (f.irq = 8 /\ f.at = 1)
  BY FrameTable
<1>4. L \in {3, 4} /\ (f.irq = 8 => L = 4)
  <2>1. f.irq = 0 \/ f.irq = 1 \/ f.irq = 8
    BY <1>1
  <2> QED BY <2>1, StepTable
<1> HIDE DEF L
<1>5. f.at \in {3, 4} /\ (f.irq = 8 => f.at = 4)
  BY <1>1, <1>4
<1> QED BY <1>2, <1>3, <1>5

\* The handler that has work left runs with interrupts off.
LEMMA WorkIsMasked ==
  ASSUME Typed, Waiting, Busy, ~ Done(Top)
  PROVE  IF_flag = FALSE
<1>1. Len(kstack[cur]) \in 1..Len(kstack[cur]) /\ cur \in Proc /\ IF_flag \in BOOLEAN
  BY TopFrame DEF Typed
<1> QED BY <1>1 DEF Waiting, Top

\* The frame that Advance leaves on top.
Advanced == kstack'[cur][Len(kstack[cur])]

LEMMA AdvanceWaiting ==
  ASSUME Typed, Waiting, Busy, ~ Done(Top), Advance, cur' \in Proc,
         (cur' = cur /\ IF_flag' = IF_flag) \/ Done(Advanced),
         cur' # cur => (IF_flag' = TRUE => kstack[cur'] = <<>>)
  PROVE  Waiting'
<1>1. /\ kstack' \in [Proc -> Seq(Frame)] /\ Others
      /\ Len(kstack'[cur]) = Len(kstack[cur])
      /\ Under(Len(kstack[cur]) - 1)
      /\ Len(kstack[cur]) \in Nat \ {0}
  <2>1. Top.at # Len(Steps(Top.irq))
    BY TopFrame, FrameTable
  <2> QED BY <2>1, TopFrame, AdvanceStack
<1>2. IF_flag = FALSE
  BY WorkIsMasked
<1>3. SUFFICES ASSUME NEW p \in Proc, NEW i \in 1..Len(kstack'[p]),
                      p # cur' \/ i < Len(kstack'[p]) \/ IF_flag'
               PROVE  Done(kstack'[p][i])
  BY DEF Waiting
<1>4. CASE p # cur
  BY <1>1, <1>4 DEF Waiting, Others
<1>5. CASE p = cur /\ i < Len(kstack[cur])
  <2>1. i \in 1..(Len(kstack[cur]) - 1) /\ i \in 1..Len(kstack[cur])
    BY <1>1, <1>3, <1>5
  <2>2. kstack'[cur][i] = kstack[cur][i]
    BY <1>1, <2>1 DEF Under
  <2>3. Done(kstack[cur][i])
    BY <1>5, <2>1 DEF Waiting
  <2> QED BY <1>5, <2>2, <2>3
<1>6. CASE p = cur /\ i = Len(kstack[cur])
  BY <1>1, <1>2, <1>3, <1>6 DEF Advanced
<1>7. p = cur => i < Len(kstack[cur]) \/ i = Len(kstack[cur])
  BY <1>1, <1>3
<1> QED BY <1>4, <1>5, <1>6, <1>7

LEMMA AdvanceHeard ==
  ASSUME Typed, Heard, Busy, ~ Done(Top), Advance, irr' = irr,
         untaken' \subseteq untaken,
         Wants(Top) /\ Top.irq \in untaken' => Wants(Advanced)
  PROVE  Heard'
<1>1. /\ kstack' \in [Proc -> Seq(Frame)] /\ Others
      /\ Len(kstack'[cur]) = Len(kstack[cur])
      /\ Under(Len(kstack[cur]) - 1)
      /\ Len(kstack[cur]) \in Nat \ {0}
      /\ Advanced.irq = Top.irq
  <2>1. Top.at # Len(Steps(Top.irq))
    BY TopFrame, FrameTable
  <2> QED BY <2>1, TopFrame, AdvanceStack DEF Advanced
<1>2. SUFFICES ASSUME NEW n \in untaken', Line(n) \notin irr'[Chip(n)]
               PROVE  \E p \in Proc : \E i \in 1..Len(kstack'[p]) :
                        kstack'[p][i].irq = n /\ Wants(kstack'[p][i])
  BY DEF Heard
<1>3. PICK p \in Proc : \E i \in 1..Len(kstack[p]) :
        kstack[p][i].irq = n /\ Wants(kstack[p][i])
  BY <1>2 DEF Heard
<1>4. PICK i \in 1..Len(kstack[p]) : kstack[p][i].irq = n /\ Wants(kstack[p][i])
  BY <1>3
<1>5. CASE p # cur
  BY <1>1, <1>4, <1>5 DEF Others
<1>6. CASE p = cur /\ i < Len(kstack[cur])
  <2>1. i \in 1..(Len(kstack[cur]) - 1) /\ i \in 1..Len(kstack'[cur])
    BY <1>1, <1>4, <1>6
  <2>2. kstack'[cur][i] = kstack[cur][i]
    BY <1>1, <2>1 DEF Under
  <2> QED BY <1>4, <1>6, <2>1, <2>2
<1>7. CASE p = cur /\ i = Len(kstack[cur])
  <2>1. Top.irq = n /\ Wants(Top)
    BY <1>4, <1>7 DEF Top
  <2>2. Advanced.irq = n /\ Wants(Advanced)
    BY <1>1, <1>2, <2>1
  <2>3. i \in 1..Len(kstack'[cur])
    BY <1>1, <1>7
  <2> QED BY <1>7, <2>2, <2>3 DEF Advanced
<1>8. p = cur => i < Len(kstack[cur]) \/ i = Len(kstack[cur])
  BY <1>1, <1>4
<1> QED BY <1>5, <1>6, <1>7, <1>8

LEMMA EoiKeeps ==
  ASSUME IInv, Eoi
  PROVE  IInv'
<1> USE DEF IInv
<1>1. /\ Busy /\ Top \in Frame /\ Op = "eoi" /\ Advance /\ send_eoi(Top.irq)
      /\ UNCHANGED <<imr, irr, base, gates, IF_flag, mode, cur, untaken, recent>>
  BY TopFrame DEF Eoi
<1>2. Owes(Top) /\ ~ Done(Top) /\ ((Top.at = 1 /\ Top.irq # 8) \/ (Top.at = 2 /\ Top.irq = 8))
  BY <1>1, OpTable DEF Op
<1>3. Top.at # Len(Steps(Top.irq))
  BY <1>1, <1>2, FrameTable
<1>4. /\ kstack' \in [Proc -> Seq(Frame)] /\ Others
      /\ Len(kstack'[cur]) = Len(kstack[cur]) /\ Len(kstack[cur]) \in Nat \ {0}
      /\ Advanced.irq = Top.irq /\ Advanced.at = Top.at + 1
  BY <1>1, <1>3, TopFrame, AdvanceStack DEF Advanced
<1>5. Advanced \in Frame /\ Top' = Advanced
  BY <1>1, <1>4 DEF Advanced, Top, Typed
<1>6. ~ Owes(Advanced)
  <2>1. Owes(Advanced) <=> Advanced.at = 1 \/ (Advanced.irq = 8 /\ Advanced.at = 2)
    BY <1>5, FrameTable
  <2> QED BY <1>2, <1>4, <2>1
<1>7. Wants(Top) => Wants(Advanced)
  <2>1. Wants(Top) <=> (Top.irq = 1 /\ Top.at \in {1, 2}) \/ (Top.irq = 8 /\ Top.at = 1)
    BY <1>1, FrameTable
  <2>2. Wants(Advanced) <=> (Advanced.irq = 1 /\ Advanced.at \in {1, 2})
                            \/ (Advanced.irq = 8 /\ Advanced.at = 1)
    BY <1>5, FrameTable
  <2> QED BY <1>2, <1>4, <2>1, <2>2
<1>8. \A c \in Chips : isr'[c] = {}
  <2>1. isr = ServiceOf(Top.irq) /\ Top.irq \in {0, 1, 8}
    BY <1>1, <1>2, FrameTable DEF Service, Owing
  <2>2. \A n \in Int : EndHighest({n}) = {} /\ EndHighest({}) = {}
    BY DEF EndHighest
  <2>3. /\ isr'["PIC1"] = EndHighest(isr["PIC1"])
        /\ isr'["PIC2"] = IF Top.irq >= 8 THEN EndHighest(isr["PIC2"]) ELSE isr["PIC2"]
    BY <1>1, LineTable DEF send_eoi, IRQ_PER_PIC
  <2>4. CASE Top.irq = 8
    <3>1. isr["PIC1"] = {2} /\ isr["PIC2"] = {0}
      BY <2>1, <2>4, LineTable DEF ServiceOf, IRQ2
    <3> QED BY <2>2, <2>3, <2>4, <3>1, LineTable
  <2>5. CASE Top.irq \in {0, 1}
    <3>1. isr["PIC1"] = {Top.irq} /\ isr["PIC2"] = {}
      BY <2>1, <2>5, LineTable DEF ServiceOf
    <3>2. Top.irq \in Int /\ ~ (Top.irq >= 8)
      BY <2>5
    <3> QED BY <2>2, <2>3, <3>1, <3>2, LineTable
  <2> QED BY <2>1, <2>4, <2>5
<1>9. isr' \in [Chips -> SUBSET (0..7)]
  BY <1>1, <1>8 DEF send_eoi
<1>10. Typed'
  BY <1>1, <1>4, <1>9 DEF Typed
<1>11. Booting' /\ SetUp' /\ HasGates'
  BY <1>1 DEF Booting, SetUp, HasGates, Busy, Typed
<1>12. Waiting'
  BY <1>1, <1>2, AdvanceWaiting DEF Typed
<1>13. Service'
  BY <1>5, <1>6, <1>8 DEF Service, Owing
<1>14. Heard'
  BY <1>1, <1>2, <1>7, AdvanceHeard
<1> QED BY <1>10, <1>11, <1>12, <1>13, <1>14

LEMMA TakeKeeps ==
  ASSUME IInv, Take
  PROVE  IInv'
<1> USE DEF IInv
<1>1. /\ Busy /\ Top \in Frame /\ Op = "take" /\ Advance
      /\ untaken' = untaken \ {Top.irq}
      /\ UNCHANGED <<imr, irr, isr, base, gates, IF_flag, mode, cur, recent>>
  BY TopFrame DEF Take, chips
<1>2. ~ Done(Top) /\ ((Top.irq = 1 /\ Top.at = 2) \/ (Top.irq = 8 /\ Top.at = 1))
  BY <1>1, OpTable DEF Op
<1>3. Top.at # Len(Steps(Top.irq))
  BY <1>1, <1>2, FrameTable
<1>4. /\ kstack' \in [Proc -> Seq(Frame)] /\ Others
      /\ Len(kstack'[cur]) = Len(kstack[cur]) /\ Len(kstack[cur]) \in Nat \ {0}
      /\ Advanced.irq = Top.irq /\ Advanced.at = Top.at + 1
  BY <1>1, <1>3, TopFrame, AdvanceStack DEF Advanced
<1>5. Advanced \in Frame /\ Top' = Advanced /\ Busy'
  BY <1>1, <1>4 DEF Advanced, Top, Typed, Busy
<1>6. Owes(Advanced) <=> Owes(Top)
  <2>1. Owes(Advanced) <=> Advanced.at = 1 \/ (Advanced.irq = 8 /\ Advanced.at = 2)
    BY <1>5, FrameTable
  <2>2. Owes(Top) <=> Top.at = 1 \/ (Top.irq = 8 /\ Top.at = 2)
    BY <1>1, FrameTable
  <2> QED BY <1>2, <1>4, <2>1, <2>2
<1>7. Typed'
  BY <1>1, <1>4 DEF Typed
<1>8. Booting' /\ SetUp' /\ HasGates'
  BY <1>1 DEF Booting, SetUp, HasGates, Busy, Typed
<1>9. Waiting'
  BY <1>1, <1>2, AdvanceWaiting DEF Typed
<1>10. Service'
  <2>1. Owing' <=> Owing
    BY <1>1, <1>5, <1>6 DEF Owing
  <2>2. isr' = isr /\ Top'.irq = Top.irq
    BY <1>1, <1>4, <1>5
  <2> HIDE DEF IInv
  <2> QED BY <2>1, <2>2 DEF IInv, Service, ServiceOf
<1>11. Heard'
  BY <1>1, <1>2, AdvanceHeard
<1> QED BY <1>7, <1>8, <1>9, <1>10, <1>11

LEMMA LastStep ==
  ASSUME Typed, Busy, NEW op \in {"sti", "switch"}, Op = op, Advance
  PROVE  /\ kstack' \in [Proc -> Seq(Frame)] /\ Others
         /\ Len(kstack'[cur]) = Len(kstack[cur]) /\ Len(kstack[cur]) \in Nat \ {0}
         /\ Advanced \in Frame /\ Done(Advanced) /\ ~ Owes(Advanced)
         /\ ~ Done(Top) /\ ~ Owes(Top) /\ ~ Wants(Top)
<1>1. Top \in Frame
  BY TopFrame
<1>2. ~ Done(Top) /\ ((Top.irq = 8 /\ Top.at = 3) \/ (Top.irq = 0 /\ Top.at = 2))
  BY <1>1, OpTable DEF Op
<1>3. Top.at # Len(Steps(Top.irq))
  BY <1>1, <1>2, FrameTable
<1>4. /\ kstack' \in [Proc -> Seq(Frame)] /\ Others
      /\ Len(kstack'[cur]) = Len(kstack[cur]) /\ Len(kstack[cur]) \in Nat \ {0}
      /\ Advanced.irq = Top.irq /\ Advanced.at = Top.at + 1
  BY <1>3, TopFrame, AdvanceStack DEF Advanced
<1>5. Advanced \in Frame
  BY <1>4 DEF Advanced, Typed
<1>6. ~ Owes(Top)
  <2>1. Owes(Top) <=> Top.at = 1 \/ (Top.irq = 8 /\ Top.at = 2)
    BY <1>1, FrameTable
  <2> QED BY <1>2, <2>1
<1>7. ~ Wants(Top)
  <2>1. Wants(Top) <=> (Top.irq = 1 /\ Top.at \in {1, 2}) \/ (Top.irq = 8 /\ Top.at = 1)
    BY <1>1, FrameTable
  <2> QED BY <1>2, <2>1
<1>8. ~ Owes(Advanced)
  <2>1. Owes(Advanced) <=> Advanced.at = 1 \/ (Advanced.irq = 8 /\ Advanced.at = 2)
    BY <1>5, FrameTable
  <2> QED BY <1>2, <1>4, <2>1
<1>9. Done(Advanced)
  <2>1. Done(Advanced) <=> Advanced.at = Len(Steps(Advanced.irq))
    BY <1>5, FrameTable
  <2>2. CASE Top.irq = 8
    <3>1. Steps(Advanced.irq) = Steps(8) /\ Advanced.at = 4
      BY <1>2, <1>4, <2>2
    <3> QED BY <2>1, <3>1, StepTable
  <2>3. CASE Top.irq = 0
    <3>1. Steps(Advanced.irq) = Steps(0) /\ Advanced.at = 3
      BY <1>2, <1>4, <2>3
    <3> QED BY <2>1, <3>1, StepTable
  <2> QED BY <1>2, <2>2, <2>3
<1> QED BY <1>2, <1>4, <1>5, <1>6, <1>7, <1>8, <1>9

LEMMA StiKeeps ==
  ASSUME IInv, Sti
  PROVE  IInv'
<1> USE DEF IInv
<1>1. /\ Busy /\ Op = "sti" /\ Advance /\ IF_flag' = TRUE
      /\ UNCHANGED <<imr, irr, isr, base, gates, mode, cur, untaken, recent>>
  BY DEF Sti, chips
<1>2. /\ kstack' \in [Proc -> Seq(Frame)]
      /\ Done(Advanced) /\ ~ Owes(Advanced) /\ ~ Done(Top) /\ ~ Owes(Top) /\ ~ Wants(Top)
      /\ Len(kstack'[cur]) = Len(kstack[cur])
  BY <1>1, LastStep
<1>3. Top' = Advanced
  BY <1>1, <1>2 DEF Advanced, Top
<1>4. Typed'
  BY <1>1, <1>2 DEF Typed
<1>5. Booting' /\ SetUp' /\ HasGates'
  BY <1>1 DEF Booting, SetUp, HasGates, Busy, Typed
<1>6. Waiting'
  BY <1>1, <1>2, AdvanceWaiting DEF Typed
<1>7. Service'
  BY <1>1, <1>2, <1>3 DEF Service, Owing
<1>8. Heard'
  BY <1>1, <1>2, AdvanceHeard
<1> QED BY <1>4, <1>5, <1>6, <1>7, <1>8

LEMMA SwitchKeeps ==
  ASSUME IInv, SwitchProcess
  PROVE  IInv'
<1> USE DEF IInv
<1>1. /\ Busy /\ Op = "switch" /\ Advance /\ cur' \in Proc
      /\ IF_flag' = (cur' # cur /\ kstack[cur'] = <<>>)
      /\ UNCHANGED <<imr, irr, isr, base, gates, mode, untaken, recent>>
  BY DEF SwitchProcess, chips
<1>2. /\ kstack' \in [Proc -> Seq(Frame)] /\ Others
      /\ Done(Advanced) /\ ~ Owes(Advanced) /\ ~ Done(Top) /\ ~ Owes(Top) /\ ~ Wants(Top)
      /\ Len(kstack'[cur]) = Len(kstack[cur]) /\ Advanced \in Frame
  BY <1>1, LastStep
<1>3. IF_flag' \in BOOLEAN /\ (cur' # cur => (IF_flag' = TRUE => kstack[cur'] = <<>>))
  BY <1>1
<1>4. Typed'
  BY <1>1, <1>2, <1>3 DEF Typed
<1>5. Booting' /\ SetUp' /\ HasGates'
  BY <1>1 DEF Booting, SetUp, HasGates, Busy, Typed
<1>6. Waiting'
  BY <1>1, <1>2, <1>3, AdvanceWaiting
<1>7. ~ Owing'
  <2>1. CASE cur' = cur
    <3>1. Top' = Advanced
      BY <1>2, <2>1 DEF Advanced, Top
    <3> QED BY <1>2, <3>1 DEF Owing
  <2>2. CASE cur' # cur
    <3>1. kstack'[cur'] = kstack[cur']
      BY <1>1, <1>2, <2>2 DEF Others
    <3>2. SUFFICES ASSUME Busy' PROVE ~ Owes(Top)'
      BY DEF Owing
    <3>3. kstack[cur'] \in Seq(Frame) /\ kstack[cur'] # <<>>
      BY <1>1, <3>1, <3>2 DEF Typed, Busy
    <3>4. Len(kstack[cur']) \in 1..Len(kstack[cur']) /\ Top' = kstack[cur'][Len(kstack[cur'])]
      BY <3>1, <3>3 DEF Top
    <3>5. Top' \in Frame /\ Done(Top')
      BY <1>1, <2>2, <3>3, <3>4 DEF Waiting
    <3> QED BY <3>5, DoneHasNoWork
  <2> QED BY <2>1, <2>2
<1>8. Service'
  BY <1>1, <1>2, <1>7 DEF Service, Owing
<1>9. Heard'
  BY <1>1, <1>2, AdvanceHeard
<1> QED BY <1>4, <1>5, <1>6, <1>8, <1>9

LEMMA IretKeeps ==
  ASSUME IInv, Iret
  PROVE  IInv'
<1> USE DEF IInv
<1>1. /\ Busy /\ Op = "iret" /\ IF_flag' = TRUE
      /\ kstack' = [kstack EXCEPT ![cur] = SubSeq(@, 1, Len(@) - 1)]
      /\ UNCHANGED <<imr, irr, isr, base, gates, mode, cur, untaken, recent>>
  BY DEF Iret, chips
<1>2. /\ kstack' \in [Proc -> Seq(Frame)] /\ Others
      /\ Len(kstack'[cur]) = Len(kstack[cur]) - 1 /\ Len(kstack[cur]) \in Nat \ {0}
      /\ Under(Len(kstack[cur]) - 1) /\ Top \in Frame /\ cur \in Proc
  BY <1>1, TopFrame, PopStack DEF Typed
<1>3. Done(Top) /\ ~ Owes(Top) /\ ~ Wants(Top)
  BY <1>1, <1>2, OpTable, DoneHasNoWork DEF Op
<1>4. Typed'
  BY <1>1, <1>2 DEF Typed
<1>5. Booting' /\ SetUp' /\ HasGates'
  BY <1>1 DEF Booting, SetUp, HasGates, Busy, Typed
<1>6. \A i \in 1..Len(kstack'[cur]) :
        /\ i \in 1..Len(kstack[cur]) /\ i < Len(kstack[cur])
        /\ kstack'[cur][i] = kstack[cur][i] /\ Done(kstack[cur][i])
  <2>1. SUFFICES ASSUME NEW i \in 1..Len(kstack'[cur])
                 PROVE  /\ i \in 1..Len(kstack[cur]) /\ i < Len(kstack[cur])
                        /\ kstack'[cur][i] = kstack[cur][i] /\ Done(kstack[cur][i])
    OBVIOUS
  <2>2. /\ i \in 1..Len(kstack[cur]) /\ i < Len(kstack[cur])
        /\ i \in 1..(Len(kstack[cur]) - 1)
    BY <1>2, <2>1
  <2> QED BY <1>2, <2>2 DEF Under, Waiting
<1>7. Waiting'
  <2>1. SUFFICES ASSUME NEW p \in Proc, NEW i \in 1..Len(kstack'[p])
                 PROVE  Done(kstack'[p][i])
    BY DEF Waiting
  <2>2. CASE p = cur
    BY <1>6, <2>1, <2>2
  <2>3. CASE p # cur
    BY <1>2, <2>1, <2>3 DEF Waiting, Others
  <2> QED BY <2>2, <2>3
<1>8. Service'
  <2>1. \A c \in Chips : isr'[c] = {}
    BY <1>1, <1>3 DEF Service, Owing
  <2>2. SUFFICES ASSUME Busy' PROVE ~ Owes(Top)'
    BY <2>1 DEF Service, Owing
  <2>3. kstack'[cur] \in Seq(Frame) /\ kstack'[cur] # <<>> /\ cur' = cur
    BY <1>1, <1>2, <2>2 DEF Busy
  <2>4. Len(kstack'[cur]) \in 1..Len(kstack'[cur]) /\ Top' = kstack'[cur][Len(kstack'[cur])]
    BY <2>3 DEF Top
  <2>5. Top' \in Frame /\ Done(Top')
    BY <1>6, <2>3, <2>4
  <2> QED BY <2>5, DoneHasNoWork
<1>9. Heard'
  <2>1. SUFFICES ASSUME NEW n \in untaken, Line(n) \notin irr[Chip(n)]
                 PROVE  \E p \in Proc : \E i \in 1..Len(kstack'[p]) :
                          kstack'[p][i].irq = n /\ Wants(kstack'[p][i])
    BY <1>1 DEF Heard
  <2>2. PICK p \in Proc : \E i \in 1..Len(kstack[p]) :
          kstack[p][i].irq = n /\ Wants(kstack[p][i])
    BY <2>1 DEF Heard
  <2>3. PICK i \in 1..Len(kstack[p]) : kstack[p][i].irq = n /\ Wants(kstack[p][i])
    BY <2>2
  <2>4. CASE p # cur
    BY <1>2, <2>3, <2>4 DEF Others
  <2>5. CASE p = cur
    <3>1. i # Len(kstack[cur])
      BY <1>3, <2>3, <2>5 DEF Top
    <3>2. i \in 1..(Len(kstack[cur]) - 1) /\ i \in 1..Len(kstack'[cur])
      BY <1>2, <2>3, <2>5, <3>1
    <3> QED BY <1>6, <2>3, <2>5, <3>2
  <2> QED BY <2>4, <2>5
<1> QED BY <1>4, <1>5, <1>7, <1>8, <1>9

-----------------------------------------------------------------------------
(* Requests and their delivery                                             *)

LEMMA LineRange ==
  ASSUME NEW n \in Lines
  PROVE  n \in 0..15 /\ Chip(n) \in Chips /\ Line(n) \in 0..7
<1>1. n \in 0..15
  BY InterruptsAssumption DEF Lines, PIT_IRQ, KEYBD_IRQ, RTC_IRQ_NUM
<1> QED BY <1>1 DEF Chip, Line, Chips, IRQ_PER_PIC

\* What the controllers let through has a handler.
LEMMA OnlyDrivers ==
  ASSUME IInv, NEW n \in Lines, IF_flag, Chosen(n)
  PROVE  n \in Drivers /\ Entered(n) = n
<1>1. mode[First] \notin BootModes
  BY DEF IInv, Booting
<1>2. /\ 3..7 \subseteq imr["PIC1"] /\ 1..7 \subseteq imr["PIC2"]
      /\ base["PIC1"] = 32 /\ base["PIC2"] = 40 /\ gates = {32, 33, 40}
  BY <1>1 DEF IInv, SetUp, HasGates, BootModes
<1>3. ASSUME n \in 0..7, n # IRQ2, Wins("PIC1", MasterAsked, n)
      PROVE  n \in {0, 1}
  <2>1. n \in irr["PIC1"] \ imr["PIC1"]
    BY <1>3 DEF Wins, MasterAsked, Asked
  <2> QED BY <1>2, <1>3, <2>1 DEF IRQ2
<1>4. ASSUME n \in 8..15, Wins("PIC2", Asked("PIC2"), n - IRQ_PER_PIC)
      PROVE  n = 8
  <2>1. n - 8 \in 0..7 /\ n - 8 \notin imr["PIC2"]
    BY <1>4 DEF Wins, Asked, IRQ_PER_PIC
  <2>2. n - 8 \notin 1..7
    BY <1>2, <2>1
  <2> QED BY <1>4, <2>1, <2>2
<1>5. n \in {0, 1, 8}
  BY <1>3, <1>4 DEF Chosen
<1>6. base[Chip(n)] + Line(n) \in gates
  BY <1>2, <1>5, LineTable
<1> QED BY <1>5, <1>6, LineTable DEF Entered

LEMMA DeliverKeeps ==
  ASSUME IInv, NEW n \in Lines, Deliver(n)
  PROVE  IInv'
<1> USE DEF IInv
<1>1. n \in Drivers /\ Entered(n) = n /\ n \in {0, 1, 8} /\ cur \in Proc
  BY OnlyDrivers, LineTable DEF Deliver, Typed
<1>2. /\ kstack' = [kstack EXCEPT ![cur] = Append(@, [irq |-> n, at |-> 1])]
      /\ IF_flag = TRUE /\ IF_flag' = FALSE
      /\ UNCHANGED <<imr, base, gates, mode, cur, untaken>>
      /\ irr' = [irr EXCEPT ![Chip(n)] = @ \ {Line(n)}]
      /\ recent' \in {{}, recent}
  BY <1>1 DEF Deliver, Typed
<1>3. /\ kstack' \in [Proc -> Seq(Frame)] /\ Others
      /\ Len(kstack'[cur]) = Len(kstack[cur]) + 1 /\ Len(kstack[cur]) \in Nat
      /\ Under(Len(kstack[cur]))
      /\ kstack'[cur][Len(kstack[cur]) + 1] = [irq |-> n, at |-> 1]
  <2>1. Len(kstack[cur]) \in Nat
    BY <1>1 DEF Typed
  <2> QED BY <1>1, <1>2, <2>1, PushStack
<1> DEFINE f == [irq |-> n, at |-> 1]
<1>4. /\ Top' = f /\ Busy' /\ f \in Frame /\ f.irq = n /\ f.at = 1
  <2>1. Top' = f
    BY <1>2, <1>3 DEF Top
  <2>2. Len(kstack'[cur]) \in 1..Len(kstack'[cur]) /\ kstack'[cur] \in Seq(Frame)
    BY <1>1, <1>3
  <2>3. f \in Frame /\ kstack'[cur] # <<>>
    BY <1>3, <2>2
  <2> QED BY <1>2, <2>1, <2>3 DEF Busy
<1> HIDE DEF f
<1>5. Owes(f) /\ (n # 0 => Wants(f))
  <2>1. Owes(f) <=> f.at = 1 \/ (f.irq = 8 /\ f.at = 2)
    BY <1>4, FrameTable
  <2>2. Wants(f) <=> (f.irq = 1 /\ f.at \in {1, 2}) \/ (f.irq = 8 /\ f.at = 1)
    BY <1>4, FrameTable
  <2> QED BY <1>1, <1>4, <2>1, <2>2
<1>6. \A c \in Chips : isr[c] = {}
  <2>1. SUFFICES ASSUME Busy PROVE ~ Owes(Top)
    BY DEF Service, Owing
  <2>2. Len(kstack[cur]) \in 1..Len(kstack[cur]) /\ Top \in Frame
    BY <2>1, TopFrame
  <2>3. Done(Top)
    BY <1>1, <1>2, <2>2 DEF Waiting, Top
  <2> QED BY <2>2, <2>3, DoneHasNoWork
<1>7. isr' = ServiceOf(n)
  BY <1>1, <1>6 DEF Deliver, ServiceOf
<1>8. Chip(n) \in Chips /\ Line(n) \in 0..7
  BY LineRange
<1>9. Typed'
  <2>1. isr' \in [Chips -> SUBSET (0..7)]
    BY <1>7, <1>8 DEF ServiceOf, IRQ2
  <2>2. irr' \in [Chips -> SUBSET (0..7)]
    <3>1. irr \in [Chips -> SUBSET (0..7)]
      BY DEF Typed
    <3>2. \A c \in Chips : irr[c] \ {Line(n)} \in SUBSET (0..7)
      BY <3>1
    <3> QED BY <1>2, <3>1, <3>2
  <2> QED BY <1>2, <1>3, <2>1, <2>2 DEF Typed
<1>10. Booting' /\ SetUp' /\ HasGates'
  BY <1>2 DEF Booting, SetUp, HasGates
<1>11. Waiting'
  <2>1. SUFFICES ASSUME NEW p \in Proc, NEW i \in 1..Len(kstack'[p]),
                        p # cur \/ i < Len(kstack'[p])
                 PROVE  Done(kstack'[p][i])
    BY <1>2 DEF Waiting
  <2>2. CASE p # cur
    BY <1>3, <2>1, <2>2 DEF Waiting, Others
  <2>3. CASE p = cur
    <3>1. i \in 1..Len(kstack[cur])
      BY <1>3, <2>1, <2>3
    <3> QED BY <1>1, <1>2, <1>3, <2>3, <3>1 DEF Under, Waiting
  <2> QED BY <2>2, <2>3
<1>12. Service'
  BY <1>4, <1>5, <1>7 DEF Service, Owing, ServiceOf
<1>13. Heard'
  <2>1. SUFFICES ASSUME NEW m \in untaken, Line(m) \notin irr'[Chip(m)]
                 PROVE  \E p \in Proc : \E i \in 1..Len(kstack'[p]) :
                          kstack'[p][i].irq = m /\ Wants(kstack'[p][i])
    BY <1>2 DEF Heard
  <2>2. CASE m = n
    <3>1. n # 0
      BY <2>1, <2>2, LineTable DEF Typed
    <3>2. Len(kstack'[cur]) \in 1..Len(kstack'[cur])
      BY <1>3
    <3>3. kstack'[cur][Len(kstack'[cur])] = f
      BY <1>3 DEF f
    <3> QED BY <1>1, <1>4, <1>5, <2>2, <3>1, <3>2, <3>3
  <2>3. CASE m # n
    <3>1. m \in {1, 8}
      BY <2>1, LineTable DEF Typed
    <3>2. Line(m) \notin irr[Chip(m)]
      <4>1. Chip(m) = Chip(n) => Line(m) # Line(n)
        BY <1>1, <2>3, <3>1, LineTable
      <4>2. Chip(m) \in Chips
        BY <3>1, LineTable
      <4> QED BY <1>2, <2>1, <4>1, <4>2 DEF Typed
    <3>3. PICK p \in Proc : \E i \in 1..Len(kstack[p]) :
            kstack[p][i].irq = m /\ Wants(kstack[p][i])
      BY <2>1, <3>2 DEF Heard
    <3>4. PICK i \in 1..Len(kstack[p]) : kstack[p][i].irq = m /\ Wants(kstack[p][i])
      BY <3>3
    <3>5. CASE p # cur
      BY <1>3, <3>4, <3>5 DEF Others
    <3>6. CASE p = cur
      <4>1. i \in 1..Len(kstack'[cur]) /\ kstack'[cur][i] = kstack[cur][i]
        BY <1>3, <3>4, <3>6 DEF Under
      <4> QED BY <3>4, <3>6, <4>1
    <3> QED BY <3>5, <3>6
  <2> QED BY <2>2, <2>3
<1> QED BY <1>9, <1>10, <1>11, <1>12, <1>13

LEMMA RaiseKeeps ==
  ASSUME IInv, NEW n \in Lines, Raise(n)
  PROVE  IInv'
<1> USE DEF IInv
<1>1. /\ irr' = [irr EXCEPT ![Chip(n)] = @ \cup {Line(n)}]
      /\ untaken' = untaken \cup ({n} \cap Holding)
      /\ recent' = recent \cup {n}
      /\ mode[First] \notin {"idt_init", "i8259_init"}
      /\ UNCHANGED <<imr, isr, base, gates, IF_flag, mode, kstack, cur>>
  BY DEF Raise
<1>2. Chip(n) \in Chips /\ Line(n) \in 0..7
  BY LineRange
<1>3. Typed'
  <2>1. irr' \in [Chips -> SUBSET (0..7)]
    BY <1>1, <1>2 DEF Typed
  <2> QED BY <1>1, <2>1 DEF Typed
<1>4. Booting' /\ SetUp' /\ HasGates'
  BY <1>1 DEF Booting, SetUp, HasGates
<1>5. Waiting'
  BY <1>1 DEF Waiting
<1>6. Service'
  BY <1>1 DEF Service, Owing, ServiceOf, Busy, Top
<1>7. Heard'
  <2>1. SUFFICES ASSUME NEW m \in untaken', Line(m) \notin irr'[Chip(m)]
                 PROVE  \E p \in Proc : \E i \in 1..Len(kstack[p]) :
                          kstack[p][i].irq = m /\ Wants(kstack[p][i])
    BY <1>1 DEF Heard
  <2>2. m \in {1, 8}
    BY <1>1, <2>1, LineTable DEF Typed
  <2>3. m # n /\ Line(m) \notin irr[Chip(m)]
    <3>1. Chip(m) \in Chips
      BY <2>2, LineTable
    <3> QED BY <1>1, <1>2, <2>1, <3>1 DEF Typed
  <2>4. m \in untaken
    BY <1>1, <2>1, <2>3
  <2> QED BY <2>3, <2>4 DEF Heard
<1> QED BY <1>3, <1>4, <1>5, <1>6, <1>7

-----------------------------------------------------------------------------
(* Boot and the programs                                                   *)

LEMMA ProgramKeeps ==
  ASSUME IInv, SystemCall \/ CallSti \/ SystemReturn
  PROVE  IInv'
<1> USE DEF IInv
<1>1. PICK here \in Programs : \E next \in Programs, flag \in BOOLEAN :
        InProgram(here, next, flag)
  BY DEF SystemCall, CallSti, SystemReturn, Programs
<1>2. PICK next \in Programs, flag \in BOOLEAN : InProgram(here, next, flag)
  BY <1>1
<1>3. /\ ~ Busy /\ mode[cur] \in Programs /\ IF_flag' \in BOOLEAN
      /\ mode' = [mode EXCEPT ![cur] = next]
      /\ UNCHANGED <<imr, irr, isr, base, gates, kstack, cur, untaken, recent>>
  BY <1>2 DEF InProgram, chips
<1>4. mode[First] \notin BootModes
  BY <1>3 DEF Booting, BootModes, Programs
<1>5. mode'[First] \notin BootModes /\ \A p \in Proc : p # First => mode'[p] \in Programs
  BY <1>3, <1>4 DEF Booting, Typed, BootModes, Programs
<1>6. Typed'
  BY <1>3 DEF Typed
<1>7. Booting' /\ SetUp' /\ HasGates'
  BY <1>3, <1>4, <1>5 DEF Booting, SetUp, HasGates, BootModes
<1>8. Waiting'
  BY <1>3 DEF Waiting, Busy, Typed
<1>9. Service'
  BY <1>3 DEF Service, Owing, Busy
<1>10. Heard'
  BY <1>3 DEF Heard
<1> QED BY <1>6, <1>7, <1>8, <1>9, <1>10

\* What every step of entry leaves: no handler and nothing in service.
LEMMA BootFrames ==
  ASSUME IInv, NEW here \in BootModes, NEW next, Boot(here, next)
  PROVE  /\ cur = First /\ cur' = cur /\ kstack' = kstack /\ untaken' = untaken
         /\ recent' = recent /\ mode[First] = here
         /\ mode' = [mode EXCEPT ![First] = next] /\ mode'[First] = next
         /\ \A p \in Proc : kstack[p] = <<>>
         /\ \A c \in Chips : isr[c] = {}
         /\ ~ Busy /\ ~ Owing'
         /\ Waiting'
<1> USE DEF IInv
<1>1. /\ cur = First /\ mode[First] = here /\ First \in Proc
      /\ mode' = [mode EXCEPT ![First] = next]
      /\ UNCHANGED <<kstack, cur, untaken, recent>>
  BY InterruptsAssumption DEF Boot
<1>2. \A p \in Proc : kstack[p] = <<>>
  BY <1>1 DEF Booting
<1>3. mode'[First] = next
  BY <1>1 DEF Typed
<1>4. ~ Busy /\ ~ Busy'
  BY <1>1, <1>2 DEF Busy
<1>5. Waiting'
  BY <1>1, <1>2 DEF Waiting
<1> QED BY <1>1, <1>2, <1>3, <1>4, <1>5 DEF Service, Owing

LEMMA EnableKeeps ==
  ASSUME IInv, NEW n \in {0, 1, 8}, enable_irq(n),
         NEW here \in BootModes \ {"idt_init", "i8259_init"},
         NEW next \in (BootModes \cup Programs) \ {"idt_init", "i8259_init"},
         Boot(here, next), IF_flag' = FALSE, UNCHANGED <<irr, isr, base, gates>>
  PROVE  IInv'
<1> USE DEF IInv
<1>1. /\ cur = First /\ cur' = cur /\ kstack' = kstack /\ untaken' = untaken
      /\ recent' = recent /\ mode[First] = here
      /\ mode' = [mode EXCEPT ![First] = next] /\ mode'[First] = next
      /\ \A p \in Proc : kstack[p] = <<>>
      /\ \A c \in Chips : isr[c] = {}
      /\ ~ Owing' /\ Waiting'
  BY BootFrames
<1>2. imr' = [imr EXCEPT ![Chip(n)] = @ \ {Line(n)}] /\ Chip(n) \in Chips
  BY LineTable DEF enable_irq
<1>3. Typed'
  <2>1. imr' \in [Chips -> SUBSET (0..7)]
    BY <1>2 DEF Typed
  <2>2. mode' \in [Proc -> BootModes \cup Programs]
    BY <1>1 DEF Typed
  <2> QED BY <1>1, <2>1, <2>2 DEF Typed
<1>4. Booting'
  BY <1>1 DEF Booting, Typed
<1>5. SetUp'
  <2>1. 3..7 \subseteq imr["PIC1"] /\ 1..7 \subseteq imr["PIC2"]
        /\ base'["PIC1"] = 32 /\ base'["PIC2"] = 40
    BY <1>1 DEF SetUp
  <2>2. CASE n \in {0, 1}
    <3>1. imr'["PIC1"] = imr["PIC1"] \ {n} /\ imr'["PIC2"] = imr["PIC2"]
      BY <1>2, <2>2, LineTable DEF Typed
    <3>2. \A l \in 3..7 : l # n
      BY <2>2
    <3> QED BY <2>1, <3>1, <3>2 DEF SetUp
  <2>3. CASE n = 8
    <3>1. imr'["PIC2"] = imr["PIC2"] \ {0} /\ imr'["PIC1"] = imr["PIC1"]
      BY <1>2, <2>3, LineTable DEF Typed
    <3>2. \A l \in 1..7 : l # 0
      OBVIOUS
    <3> QED BY <2>1, <3>1, <3>2 DEF SetUp
  <2> QED BY <2>2, <2>3
<1>6. HasGates'
  BY <1>1 DEF HasGates
<1>7. Service'
  BY <1>1 DEF Service
<1>8. Heard'
  BY <1>1 DEF Heard
<1> QED BY <1>1, <1>3, <1>4, <1>5, <1>6, <1>7, <1>8

LEMMA BootKeeps ==
  ASSUME IInv, BootStep
  PROVE  IInv'
<1> USE DEF IInv
<1>1. CASE idt_init
  <2>1. /\ Boot("idt_init", "i8259_init") /\ gates' = {32, 33, 40}
        /\ UNCHANGED <<imr, irr, isr, base, IF_flag>> /\ "idt_init" \in BootModes
    BY <1>1 DEF idt_init, chips, BootModes
  <2>2. /\ cur = First /\ cur' = cur /\ kstack' = kstack /\ untaken' = untaken
        /\ recent' = recent /\ mode[First] = "idt_init"
        /\ mode' = [mode EXCEPT ![First] = "i8259_init"] /\ mode'[First] = "i8259_init"
        /\ \A c \in Chips : isr[c] = {}
        /\ ~ Owing' /\ Waiting'
    BY <2>1, BootFrames
  <2>3. Typed'
    BY <2>1, <2>2 DEF Typed, BootModes
  <2>4. Booting' /\ SetUp' /\ HasGates'
    BY <2>1, <2>2 DEF Booting, SetUp, HasGates, Typed
  <2>5. Service' /\ Heard'
    BY <2>1, <2>2 DEF Service, Heard
  <2> QED BY <2>2, <2>3, <2>4, <2>5
<1>2. CASE i8259_init
  <2>1. /\ Boot("i8259_init", "keyboard_init") /\ "i8259_init" \in BootModes
        /\ IF_flag' = FALSE /\ gates' = gates
        /\ imr' = [c \in Chips |-> IF c = "PIC1" THEN (0..7) \ {IRQ2} ELSE 0..7]
        /\ irr' = [c \in Chips |-> {}] /\ isr' = [c \in Chips |-> {}]
        /\ base' = [c \in Chips |-> IF c = "PIC1" THEN 32 ELSE 40]
    BY <1>2 DEF i8259_init, BootModes
  <2>2. /\ cur = First /\ cur' = cur /\ kstack' = kstack /\ untaken' = untaken
        /\ recent' = recent /\ mode[First] = "i8259_init"
        /\ mode' = [mode EXCEPT ![First] = "keyboard_init"]
        /\ mode'[First] = "keyboard_init"
        /\ ~ Owing' /\ Waiting'
    BY <2>1, BootFrames
  <2>3. Typed'
    <3>1. imr' \in [Chips -> SUBSET (0..7)]
      BY <2>1
    <3> QED BY <2>1, <2>2, <3>1 DEF Typed, BootModes
  <2>4. Booting' /\ HasGates'
    BY <2>1, <2>2 DEF Booting, HasGates, Typed
  <2>5. SetUp'
    BY <2>1, LineTable DEF SetUp, IRQ2
  <2>6. Service'
    BY <2>1, <2>2 DEF Service
  <2>7. Heard'
    BY <2>2 DEF Booting, Heard
  <2> QED BY <2>2, <2>3, <2>4, <2>5, <2>6, <2>7
<1>3. CASE keyboard_init
  BY <1>3, EnableKeeps DEF keyboard_init, KEYBD_IRQ, BootModes
<1>4. CASE RTC_initPie
  <2>1. /\ Boot("RTC_init", "RTC_enable") /\ "RTC_init" \in BootModes
        /\ IF_flag' = FALSE /\ UNCHANGED <<imr, irr, isr, base, gates>>
    BY <1>4 DEF RTC_initPie, chips, BootModes
  <2>2. /\ cur = First /\ cur' = cur /\ kstack' = kstack /\ untaken' = untaken
        /\ recent' = recent /\ mode[First] = "RTC_init"
        /\ mode' = [mode EXCEPT ![First] = "RTC_enable"] /\ mode'[First] = "RTC_enable"
        /\ \A c \in Chips : isr[c] = {}
        /\ ~ Owing' /\ Waiting'
    BY <2>1, BootFrames
  <2>3. Typed'
    BY <2>1, <2>2 DEF Typed, BootModes
  <2>4. Booting' /\ SetUp' /\ HasGates'
    BY <2>1, <2>2 DEF Booting, SetUp, HasGates, Typed
  <2>5. Service' /\ Heard'
    BY <2>1, <2>2 DEF Service, Heard
  <2> QED BY <2>2, <2>3, <2>4, <2>5
<1>5. CASE RTC_init
  BY <1>5, EnableKeeps DEF RTC_init, RTC_IRQ_NUM, BootModes
<1>6. CASE PIT_init
  <2>1. IF_flag = FALSE
    BY <1>6 DEF PIT_init, Boot, Booting, BootModes, Typed
  <2> QED BY <1>6, <2>1, EnableKeeps DEF PIT_init, PIT_IRQ, BootModes
<1>7. CASE entry
  <2>1. /\ Boot("sti", "user") /\ "sti" \in BootModes /\ "user" \in Programs
        /\ IF_flag' = TRUE /\ UNCHANGED <<imr, irr, isr, base, gates>>
    BY <1>7 DEF entry, chips, BootModes, Programs
  <2>2. /\ cur = First /\ cur' = cur /\ kstack' = kstack /\ untaken' = untaken
        /\ recent' = recent /\ mode[First] = "sti"
        /\ mode' = [mode EXCEPT ![First] = "user"] /\ mode'[First] = "user"
        /\ \A c \in Chips : isr[c] = {}
        /\ ~ Owing' /\ Waiting'
    BY <2>1, BootFrames
  <2>3. Typed'
    BY <2>1, <2>2 DEF Typed
  <2>4. Booting' /\ SetUp' /\ HasGates'
    BY <2>1, <2>2 DEF Booting, SetUp, HasGates, Typed, BootModes
  <2>5. Service' /\ Heard'
    BY <2>1, <2>2 DEF Service, Heard
  <2> QED BY <2>2, <2>3, <2>4, <2>5
<1> QED BY <1>1, <1>2, <1>3, <1>4, <1>5, <1>6, <1>7 DEF BootStep

-----------------------------------------------------------------------------
(* The theorems                                                            *)

LEMMA Initial == Init => IInv
<1> SUFFICES ASSUME Init PROVE IInv
  OBVIOUS
<1>1. First \in Proc
  BY InterruptsAssumption
<1>2. Typed
  <2>1. \A x \in {"idt_init", "user"} : x \in BootModes \cup Programs
    BY DEF BootModes, Programs
  <2>2. <<>> \in Seq(Frame)
    OBVIOUS
  <2> QED BY <1>1, <2>1, <2>2 DEF Init, Typed
<1>3. Booting /\ SetUp /\ HasGates
  BY <1>1 DEF Init, Booting, SetUp, HasGates, Programs
<1>4. Waiting
  BY DEF Init, Waiting
<1>5. Service
  BY <1>1 DEF Init, Service, Owing, Busy
<1>6. Heard
  BY DEF Init, Heard
<1> QED BY <1>2, <1>3, <1>4, <1>5, <1>6 DEF IInv

THEOREM Invariance == Spec => []IInv
<1>1. IInv /\ [Next]_vars => IInv'
  <2> SUFFICES ASSUME IInv, [Next]_vars PROVE IInv'
    OBVIOUS
  <2>1. CASE BootStep
    BY <2>1, BootKeeps
  <2>2. CASE \E n \in Lines : Raise(n)
    BY <2>2, RaiseKeeps
  <2>3. CASE \E n \in Lines : Deliver(n)
    BY <2>3, DeliverKeeps
  <2>4. CASE HandlerStep
    BY <2>4, EoiKeeps, TakeKeeps, StiKeeps, SwitchKeeps, IretKeeps DEF HandlerStep
  <2>5. CASE SystemCall \/ CallSti \/ SystemReturn
    BY <2>5, ProgramKeeps
  <2>6. CASE UNCHANGED vars
    BY <2>6 DEF vars, chips, IInv, Typed, Booting, SetUp, HasGates, Waiting, Service,
       Owing, Busy, Top, ServiceOf, Heard
  <2> QED BY <2>1, <2>2, <2>3, <2>4, <2>5, <2>6 DEF Next
<1> QED BY <1>1, Initial, PTL DEF Spec

\* Every interrupt enters a handler that idt_init installed, on the stack of
\* the process it interrupts (idt.c:56-61, interrupt_wrap.S).
THEOREM TypeCorrect == Spec => []TypeOK
<1>1. IInv => TypeOK
  <2> SUFFICES ASSUME IInv PROVE TypeOK
    OBVIOUS
  <2>1. ASSUME NEW p \in Proc, NEW i \in 1..Len(kstack[p])
        PROVE  /\ kstack[p][i].irq \in {PIT_IRQ, KEYBD_IRQ, RTC_IRQ_NUM}
               /\ kstack[p][i].at \in 1..Len(Steps(kstack[p][i].irq))
    <3>1. kstack[p][i] \in Frame
      BY DEF IInv, Typed
    <3> QED BY <3>1, FrameTable, LineTable DEF Drivers
  <2>2. mode \in [Proc -> {"idt_init", "i8259_init", "keyboard_init", "RTC_init",
                         "RTC_enable", "PIT_init", "sti", "user", "call", "open"}]
    BY DEF IInv, Typed, BootModes, Programs
  <2> QED BY <2>1, <2>2 DEF IInv, Typed, TypeOK
<1> QED BY <1>1, Invariance, PTL

\* At every moment the lines in service are those of handlers that owe their
\* end of interrupt: none is ended for another, none is left behind
\* (i8259.c:139-145, keyboard.c:118, rtc.c:134).
THEOREM InServiceRight == Spec => []InServiceHasHandler
<1>1. IInv => InServiceHasHandler
  <2> SUFFICES ASSUME IInv PROVE InServiceHasHandler
    OBVIOUS
  <2> USE DEF IInv
  <2>1. Owing => /\ Top \in Frame /\ Top.irq \in {0, 1, 8} /\ cur \in Proc
                 /\ Len(kstack[cur]) \in 1..Len(kstack[cur])
                 /\ isr = ServiceOf(Top.irq)
    BY TopFrame, FrameTable DEF Owing, Typed, Service
  <2>2. ASSUME NEW n \in (0..15) \ {IRQ2}
        PROVE  Line(n) \in isr[Chip(n)]
                 <=> \E p \in Proc : \E i \in 1..Len(kstack[p]) :
                       kstack[p][i].irq = n /\ Owes(kstack[p][i])
    <3>1. Chip(n) \in Chips /\ Line(n) \in 0..7
          /\ (Chip(n) = "PIC1" => n = Line(n) /\ n # 2)
          /\ (Chip(n) = "PIC2" => n = Line(n) + 8)
      BY DEF Chip, Line, Chips, IRQ_PER_PIC, IRQ2
    <3>2. ASSUME Line(n) \in isr[Chip(n)]
          PROVE  \E p \in Proc : \E i \in 1..Len(kstack[p]) :
                   kstack[p][i].irq = n /\ Owes(kstack[p][i])
      <4>1. Owing
        BY <3>1, <3>2 DEF Service
      <4>2. Top.irq = n
        <5>1. CASE Chip(n) = Chip(Top.irq)
          <6>1. Line(n) = Line(Top.irq)
            BY <2>1, <3>1, <3>2, <4>1, <5>1 DEF ServiceOf
          <6> QED BY <2>1, <3>1, <4>1, <5>1, <6>1, LineTable
        <5>2. CASE Chip(n) # Chip(Top.irq)
          <6>1. isr[Chip(n)] \subseteq {2} /\ (Chip(n) # "PIC1" => isr[Chip(n)] = {})
            BY <2>1, <3>1, <4>1, <5>2 DEF ServiceOf, IRQ2
          <6> QED BY <3>1, <3>2, <6>1
        <5> QED BY <5>1, <5>2
      <4> QED BY <2>1, <4>1, <4>2 DEF Owing, Top
    <3>3. ASSUME NEW p \in Proc, NEW i \in 1..Len(kstack[p]),
                 kstack[p][i].irq = n, Owes(kstack[p][i])
          PROVE  Line(n) \in isr[Chip(n)]
      <4>1. kstack[p][i] \in Frame /\ kstack[p] \in Seq(Frame)
        BY <3>3 DEF Typed
      <4>2. ~ Done(kstack[p][i])
        BY <3>3, <4>1, DoneHasNoWork
      <4>3. p = cur /\ ~ (i < Len(kstack[p]))
        BY <3>3, <4>2 DEF Waiting
      <4>4. i = Len(kstack[cur]) /\ Busy
        <5>1. Len(kstack[p]) \in Nat /\ (kstack[p] = <<>> => Len(kstack[p]) = 0)
          BY <4>1
        <5> QED BY <3>3, <4>3, <5>1 DEF Busy
      <4>5. Owing /\ Top.irq = n
        BY <3>3, <4>3, <4>4 DEF Owing, Top
      <4> QED BY <2>1, <3>1, <4>5 DEF ServiceOf
    <3> QED BY <3>2, <3>3
  <2>3. IRQ2 \in isr["PIC1"] <=> isr["PIC2"] # {}
    <3>1. CASE Owing
      <4>1. CASE Top.irq = 8
        <5>1. isr["PIC1"] = {2} /\ isr["PIC2"] = {0}
          BY <2>1, <3>1, <4>1, LineTable DEF ServiceOf, IRQ2
        <5> QED BY <5>1 DEF IRQ2
      <4>2. CASE Top.irq \in {0, 1}
        <5>1. isr["PIC1"] = {Top.irq} /\ isr["PIC2"] = {}
          BY <2>1, <3>1, <4>2, LineTable DEF ServiceOf
        <5> QED BY <4>2, <5>1 DEF IRQ2
      <4> QED BY <2>1, <3>1, <4>1, <4>2
    <3>2. CASE ~ Owing
      BY <3>2, LineTable DEF Service
    <3> QED BY <3>1, <3>2
  <2> QED BY <2>2, <2>3 DEF InServiceHasHandler
<1> QED BY <1>1, Invariance, PTL

\* The timer may take the CPU away in the tail of RTC_handler, after its sti:
\* whatever is left on the stacks of waiting processes has nothing to do but
\* return (rtc.c:134-137, i8259.c:139-145).
THEOREM WaitingRight == Spec => []WaitingHandlersAreDone
<1>1. IInv => WaitingHandlersAreDone
  BY DEF IInv, Waiting, WaitingHandlersAreDone, Done
<1> QED BY <1>1, Invariance, PTL

\* No path of a handler leaves a device unread, so none falls silent
\* (keyboard.c:119, rtc.c:121-123).
THEOREM DevicesHeard == Spec => []NoDeviceStuck
<1>1. IInv => NoDeviceStuck
  <2> SUFFICES ASSUME IInv, NEW n \in untaken, Line(n) \notin irr[Chip(n)]
               PROVE  \E p \in Proc : \E i \in 1..Len(kstack[p]) :
                        /\ kstack[p][i].irq = n
                        /\ \E k \in kstack[p][i].at..Len(Steps(n)) : Steps(n)[k] = "take"
    BY DEF NoDeviceStuck
  <2>1. PICK p \in Proc : \E i \in 1..Len(kstack[p]) :
          kstack[p][i].irq = n /\ Wants(kstack[p][i])
    BY DEF IInv, Heard
  <2>2. PICK i \in 1..Len(kstack[p]) : kstack[p][i].irq = n /\ Wants(kstack[p][i])
    BY <2>1
  <2>3. \E k \in kstack[p][i].at..Len(Steps(n)) : Steps(n)[k] = "take"
    BY <2>2 DEF Wants
  <2> QED BY <2>2, <2>3
<1> QED BY <1>1, Invariance, PTL
=============================================================================
