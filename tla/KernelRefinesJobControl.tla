---------------------- MODULE KernelRefinesJobControl ----------------------
(***************************************************************************)
(* The kernel implements JobControl: the stack of a terminal is read off   *)
(* the parent links, from the process in front of it down to its shell.    *)
(***************************************************************************)
EXTENDS Kernel, Sequences

\* Chain[n][p]: p and its callers, outermost first, cut after n of them.
Chain[n \in Nat] ==
  [p \in PidOrNull |->
     IF n = 0 \/ p = NULL THEN <<>>
     ELSE Append(Chain[n - 1][pcb[p].parent_process_id], p)]

JobsOf == [t \in Terms |-> Chain[MaxProc][Foreground(t)]]

Abstract == INSTANCE JobControl
              WITH Jobs <- Pids, stack <- JobsOf, active <- cur_execute_term

\* Every step of the kernel is a step of JobControl on the stacks of jobs, or
\* changes none of them: execute pushes, halt pops the halting process and
\* nothing else, halt of a shell renews it, a tick only moves the processor.
ImplementsJobControl == Abstract!Spec
=============================================================================
