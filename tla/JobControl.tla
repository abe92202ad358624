----------------------------- MODULE JobControl -----------------------------
(***************************************************************************)
(* What the process system calls promise the user of the machine: every    *)
(* terminal runs a stack of jobs.  The job on top may start another one,   *)
(* which goes on top, or end, which uncovers the one that started it; the  *)
(* last job of a terminal is renewed when it ends.  Jobs take their names  *)
(* from a fixed set and only the terminal that has the processor changes.  *)
(***************************************************************************)
EXTENDS Integers, Sequences, SequencesExt

CONSTANTS Jobs,   \* names for jobs
          Terms   \* terminals

VARIABLES stack,  \* per terminal, its jobs, the running one last
          active  \* the terminal that has the processor

vars == <<stack, active>>

Busy == UNION {ToSet(stack[t]) : t \in Terms}

Init == stack = [t \in Terms |-> <<>>] /\ active \in Terms

\* A terminal gets its first job, and the processor.
Boot(t, j) ==
  /\ stack[t] = <<>> /\ j \notin Busy
  /\ stack' = [stack EXCEPT ![t] = <<j>>]
  /\ active' = t

\* The running job starts another one and waits for it.
Call(j) ==
  /\ stack[active] # <<>> /\ j \notin Busy
  /\ stack' = [stack EXCEPT ![active] = Append(@, j)]
  /\ UNCHANGED active

\* The running job ends; the one that called it runs again.
Return ==
  /\ Len(stack[active]) > 1
  /\ stack' = [stack EXCEPT ![active] = Front(@)]
  /\ UNCHANGED active

\* The only job of the terminal ends and is started anew, under its own name
\* or any free one.
Renew(j) ==
  /\ Len(stack[active]) = 1
  /\ j \notin Busy \ {stack[active][1]}
  /\ stack' = [stack EXCEPT ![active] = <<j>>]
  /\ UNCHANGED active

\* Another terminal that has jobs gets the processor.
Preempt(t) ==
  /\ stack[t] # <<>>
  /\ active' = t
  /\ UNCHANGED stack

Next == \/ \E t \in Terms, j \in Jobs : Boot(t, j)
        \/ \E j \in Jobs : Call(j) \/ Renew(j)
        \/ Return
        \/ \E t \in Terms : Preempt(t)

Spec == Init /\ [][Next]_vars
=============================================================================
