-------------------------------- MODULE Rtc ---------------------------------
(***************************************************************************)
(* The virtualised real-time clock (rtc.c).  The chip always ticks at its  *)
(* top rate; a program that reads the device waits until enough interrupts *)
(* were counted for its terminal.  There is one counter and one rate per   *)
(* terminal, and an interrupt counts only for the terminal that has the    *)
(* CPU.  open runs with interrupts off; read and write set IF first (write *)
(* in systemcall_handler.c), so RTC_handler and the scheduler come between *)
(* any two of their accesses to the counters and to the chip.              *)
(***************************************************************************)
EXTENDS Integers

CONSTANTS
  NumTerm,     \* the number of terminals
  MaxPower,    \* MAX_FREQ is 1 doubled MaxPower times (10 in the code)
  MaxCount     \* interrupt counts stop here, no rate waits for more

\* The loop of RTC_vir_rate: one, doubled so often.
Doubled[n \in Nat] == IF n = 0 THEN 1 ELSE 2 * Doubled[n - 1]

MAX_FREQ == Doubled[MaxPower]

ASSUME RtcAssumption ==
  /\ NumTerm \in Nat \ {0} /\ MaxPower \in Nat \ {0}
  /\ MaxCount \in Nat /\ MaxCount >= MAX_FREQ \div 2

Terms == 0..(NumTerm - 1)

\* The numbers programs write to the device.
Inputs == (-1)..(2 * MAX_FREQ)

VARIABLES
  cur_execute_term,
  rtc_itr_rec,     \* per terminal: interrupts since the last reset
  vir_counter,     \* per terminal: interrupts a read waits for
  cmos,            \* the chip: selected register, rate and enable bit
  pc,              \* per terminal: where its program is in rtc.c
  opened,          \* per terminal: its program has the device open
  asked,           \* history: per terminal, the rate its program asked for
  since            \* history: interrupts during the pending read

vars == <<cur_execute_term, rtc_itr_rec, vir_counter, cmos, pc, opened, asked, since>>

\* Register numbers without the NMI bit.
RegA == 10
RegB == 11
RegC == 12
RegD == 13

Init ==
  /\ cur_execute_term = 0
  /\ rtc_itr_rec = [t \in Terms |-> 0]
  /\ vir_counter = [t \in Terms |-> 0]
  /\ cmos = [index |-> RegD, rate |-> "256", pie |-> TRUE]    \* RTC_init
  /\ pc = [t \in Terms |-> "user"]
  /\ opened = [t \in Terms |-> FALSE]
  /\ asked = [t \in Terms |-> 0]
  /\ since = [t \in Terms |-> 0]

-----------------------------------------------------------------------------
\* Seeded fault: odd quotients above one are taken for powers of two.
check_power_Loose(number) ==
  LET half[n \in Int] == IF n <= 1 THEN 0 ELSE 1 + half[n \div 2]
  IN  half[number]

\* How often the number can be halved down to one, -1 if a half is odd.
Halvings[n \in Int] ==
  IF n <= 1 THEN 0
  ELSE IF n % 2 = 1 \/ Halvings[n \div 2] = -1 THEN -1
  ELSE Halvings[n \div 2] + 1

check_power(number) == Halvings[number]

Accepted(number) == check_power(number) \in 1..MaxPower

\* Seeded fault: the whole period.
Counter_Period(power) == MAX_FREQ \div Doubled[power]

\* RTC_vir_rate: one interrupt less than the period at the given power.
Counter(power) == MAX_FREQ \div Doubled[power] - 1

\* outb to the data port writes the register that is selected now.
\* HZ_1024 has no PIE bit; registers C and D are read only.
OutData(c, value) ==
  [c EXCEPT !.rate = IF c.index = RegA THEN value ELSE @,
            !.pie = @ /\ c.index # RegB]

Run(t) == cur_execute_term = t

\* open: RTC_vir_rate(1), with interrupts off.
RTC_open(t) ==
  /\ Run(t) /\ pc[t] = "user"
  /\ vir_counter' = [vir_counter EXCEPT ![t] = Counter(1)]
  /\ cmos' = OutData([cmos EXCEPT !.index = RegA], "1024")
  /\ opened' = [opened EXCEPT ![t] = TRUE]
  /\ asked' = [asked EXCEPT ![t] = 2]
  /\ UNCHANGED <<cur_execute_term, rtc_itr_rec, pc, since>>

\* write of a number that is no rate returns -1.
RTC_writeFails(t, number) ==
  /\ Run(t) /\ pc[t] = "user" /\ opened[t]
  /\ ~Accepted(number)
  /\ UNCHANGED vars

\* write of a rate: the counter, then the two ports of the chip.
RTC_write(t, number) ==
  /\ Run(t) /\ pc[t] = "user" /\ opened[t]
  /\ Accepted(number)
  /\ vir_counter' = [vir_counter EXCEPT ![t] = Counter(check_power(number))]
  /\ pc' = [pc EXCEPT ![t] = "select"]
  /\ asked' = [asked EXCEPT ![t] = number]
  /\ UNCHANGED <<cur_execute_term, rtc_itr_rec, cmos, opened, since>>

WriteSelect(t) ==
  /\ Run(t) /\ pc[t] = "select"
  /\ cmos' = [cmos EXCEPT !.index = RegA]
  /\ pc' = [pc EXCEPT ![t] = "data"]
  /\ UNCHANGED <<cur_execute_term, rtc_itr_rec, vir_counter, opened, asked, since>>

WriteData(t) ==
  /\ Run(t) /\ pc[t] = "data"
  /\ cmos' = OutData(cmos, "1024")
  /\ pc' = [pc EXCEPT ![t] = "user"]
  /\ UNCHANGED <<cur_execute_term, rtc_itr_rec, vir_counter, opened, asked, since>>

\* read sets IF, clears the counter, spins, and clears the counter again.
RTC_read(t) ==
  /\ Run(t) /\ pc[t] = "user" /\ opened[t]
  /\ pc' = [pc EXCEPT ![t] = "clear"]
  /\ UNCHANGED <<cur_execute_term, rtc_itr_rec, vir_counter, cmos, opened, asked, since>>

\* Seeded fault: the counter keeps what was counted before the read.
ReadClear_Keep(t) ==
  /\ Run(t) /\ pc[t] = "clear"
  /\ pc' = [pc EXCEPT ![t] = "spin"]
  /\ UNCHANGED <<cur_execute_term, rtc_itr_rec, vir_counter, cmos, opened, asked, since>>

ReadClear(t) ==
  /\ Run(t) /\ pc[t] = "clear"
  /\ rtc_itr_rec' = [rtc_itr_rec EXCEPT ![t] = 0]
  /\ pc' = [pc EXCEPT ![t] = "spin"]
  /\ UNCHANGED <<cur_execute_term, vir_counter, cmos, opened, asked, since>>

ReadLeave(t) ==
  /\ Run(t) /\ pc[t] = "spin"
  /\ rtc_itr_rec[t] >= vir_counter[t]
  /\ pc' = [pc EXCEPT ![t] = "reset"]
  /\ UNCHANGED <<cur_execute_term, rtc_itr_rec, vir_counter, cmos, opened, asked, since>>

ReadReturn(t) ==
  /\ Run(t) /\ pc[t] = "reset"
  /\ rtc_itr_rec' = [rtc_itr_rec EXCEPT ![t] = 0]
  /\ pc' = [pc EXCEPT ![t] = "user"]
  /\ since' = [since EXCEPT ![t] = 0]
  /\ UNCHANGED <<cur_execute_term, vir_counter, cmos, opened, asked>>

Bump(n) == IF n < MaxCount THEN n + 1 ELSE n

\* since counts only while a read is pending.
Since == IF pc[cur_execute_term] \in {"clear", "spin"}
         THEN [since EXCEPT ![cur_execute_term] = Bump(@)] ELSE since

\* Seeded faults: register B is selected instead of C; the interrupt counts for
\* the first terminal only.
RTC_handler_RegB ==
  /\ cmos.pie
  /\ cmos' = [cmos EXCEPT !.index = RegB]
  /\ rtc_itr_rec' = [rtc_itr_rec EXCEPT ![cur_execute_term] = Bump(@)]
  /\ since' = Since
  /\ UNCHANGED <<cur_execute_term, vir_counter, pc, opened, asked>>
RTC_handler_First ==
  /\ cmos.pie
  /\ cmos' = [cmos EXCEPT !.index = RegC]
  /\ rtc_itr_rec' = [rtc_itr_rec EXCEPT ![0] = Bump(@)]
  /\ since' = Since
  /\ UNCHANGED <<cur_execute_term, vir_counter, pc, opened, asked>>

\* An RTC interrupt: acknowledge through register C, count.
RTC_handler ==
  /\ cmos.pie
  /\ cmos' = [cmos EXCEPT !.index = RegC]
  /\ rtc_itr_rec' = [rtc_itr_rec EXCEPT ![cur_execute_term] = Bump(@)]
  /\ since' = Since
  /\ UNCHANGED <<cur_execute_term, vir_counter, pc, opened, asked>>

\* The scheduler gives the CPU to another terminal.
Switch(t) ==
  /\ ~Run(t)
  /\ cur_execute_term' = t
  /\ UNCHANGED <<rtc_itr_rec, vir_counter, cmos, pc, opened, asked, since>>

\* A program's own steps in rtc.c.
Step(t) == WriteSelect(t) \/ WriteData(t) \/ ReadClear(t) \/ ReadLeave(t)
           \/ ReadReturn(t)

Next ==
  \/ \E t \in Terms : RTC_open(t) \/ RTC_read(t) \/ Step(t) \/ Switch(t)
  \/ \E t \in Terms, n \in Inputs : RTC_write(t, n) \/ RTC_writeFails(t, n)
  \/ RTC_handler

\* A program on the CPU goes on; the scheduler comes back to every terminal and
\* the chip interrupts every time slice (1024 Hz against slices of many ms), so
\* each terminal takes its steps and gets interrupts again and again.
Fairness ==
  \A t \in Terms : /\ SF_vars(Step(t))
                   /\ SF_vars(Switch(t))
                   /\ SF_vars(Run(t) /\ RTC_handler)

Spec == Init /\ [][Next]_vars /\ Fairness

-----------------------------------------------------------------------------
(* Properties                                                              *)

TypeOK ==
  /\ cur_execute_term \in Terms
  /\ rtc_itr_rec \in [Terms -> 0..MaxCount]
  /\ vir_counter \in [Terms -> 0..(MAX_FREQ \div 2 - 1)]
  /\ cmos \in [index : {RegA, RegB, RegC, RegD}, rate : {"256", "1024"},
               pie : BOOLEAN]
  /\ pc \in [Terms -> {"user", "select", "data", "clear", "spin", "reset"}]
  /\ opened \in [Terms -> BOOLEAN]
  /\ asked \in [Terms -> Inputs]
  /\ since \in [Terms -> 0..MaxCount]

\* The chip keeps interrupting at the top rate once anyone opened the device,
\* although a write selects its register with interrupts on and RTC_handler or
\* another program may select one before the data goes out.
ChipKeepsRate ==
  /\ cmos.pie
  /\ (\E t \in Terms : opened[t]) => cmos.rate = "1024"

\* A read never ends before the interrupts of its rate were counted since it
\* was called: neither leftovers of an earlier read nor interrupts of another
\* terminal shorten it.
ReadsWait == \A t \in Terms : pc[t] = "reset" => since[t] >= vir_counter[t]

\* The interrupts a terminal waits for are those of the rate its own program
\* asked for last and was not refused: a power of two, up to MAX_FREQ.
RatesHold ==
  \A t \in Terms : opened[t] =>
    /\ \E k \in 1..MaxPower : asked[t] = Doubled[k]
    /\ (vir_counter[t] + 1) * asked[t] = MAX_FREQ

\* Every read returns, on every terminal.
ReadsReturn == \A t \in Terms : pc[t] = "spin" ~> pc[t] = "user"
=============================================================================
