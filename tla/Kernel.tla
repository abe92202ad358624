------------------------------- MODULE Kernel -------------------------------
(***************************************************************************)
(* Processes, terminals and the CPU: systemcall_handler.c together with    *)
(* the page tables (Paging) and the two missing files it is linked with,   *)
(* pit.c and term_switch.c, modelled from the way src/ uses them.          *)
(*                                                                         *)
(* Every interrupt and system-call gate clears IF (idt.c) and execute,     *)
(* halt, open, close and vidmap never set it again, so each of them is one *)
(* step: the PIT and the keyboard come between system calls, or inside the *)
(* two (write, RTC_read) that set IF and change nothing modelled here.     *)
(***************************************************************************)
EXTENDS Paging, FiniteSets

CONSTANTS
  MaxProc,    \* MAXIMUM_PROCESS, the number of process slots (6)
  NumTerm,    \* the number of terminals (3)
  NumFd,      \* MAX_FD_ARRAY_SIZE, descriptors of a process (8)
  MayFault,   \* programs may raise a processor exception
  MayVidmap   \* programs may call vidmap

ASSUME KernelAssumption ==
  /\ MaxProc \in Nat \ {0}
  /\ NumTerm \in 1..3
  /\ NumFd \in Nat /\ NumFd >= 2
  /\ MayFault \in BOOLEAN /\ MayVidmap \in BOOLEAN

Pids == 0..(MaxProc - 1)
Terms == 0..(NumTerm - 1)
Fds == 0..(NumFd - 1)
PidOrNull == Pids \cup {NULL}

\* No execute ended in the last step.
Nothing == -2

VARIABLES
  id_array,          \* 1 for a slot in use
  pcb,               \* the pcb at 8MB - 8KB * (p + 1) of each slot p
  pcb_arr,           \* pointers to the pcbs in use; a pointer is its slot
  pid_vidmap_flag,   \* per slot: the process called vidmap
  current_id,        \* the process the kernel believes to run
  current_pcb_ptr,   \* its pcb
  tss_esp0,          \* the slot whose kernel stack the next trap uses
  mmu,               \* the page tables
  cpu,               \* the process whose stack the processor really runs on
  cur_execute_term, cur_vis_term,
  term_pid_array,    \* per terminal: the process to resume
  term_pcb,          \* per terminal: term1/2/3.curr_execute_pid_pcb
  term_esp,          \* per terminal: the stack its context was saved on
  global_flag_exception,
  hung,              \* exception_handler reached its while(1)
  exec_ret           \* what the execute that just ended returned, or Nothing

procVars == <<id_array, pcb, pcb_arr, pid_vidmap_flag>>
curVars == <<current_id, current_pcb_ptr, tss_esp0, cpu>>
termVars == <<cur_execute_term, term_pid_array, term_pcb, term_esp>>
excVars == <<global_flag_exception, hung>>
vars == <<procVars, curVars, termVars, mmu, cur_vis_term,
          excVars, exec_ret>>

-----------------------------------------------------------------------------
\* Descriptors 0 and 1 are the console, the others are closed.
InitialFlags == [f \in Fds |-> IF f \in {0, 1} THEN 1 ELSE 0]

\* term is a history field: the terminal on which the process was started.
\* esp_when_execute is the slot on whose kernel stack the frame of a pending
\* execute lies; it is NULL once halt has consumed the frame, where the code
\* leaves the old number, which it never reads again.
Pcb == [parent_process_id : PidOrNull, parent_ptr : PidOrNull,
        esp_when_execute : PidOrNull, vidmap_flag : {0, 1},
        flags : [Fds -> {0, 1}], term : Terms \cup {NULL}]

\* The content of a freed pcb.  The code leaves the bytes there; no pointer in
\* use points to them and execute overwrites the whole structure.
NoPcb == [parent_process_id |-> NULL, parent_ptr |-> NULL,
          esp_when_execute |-> NULL, vidmap_flag |-> 0,
          flags |-> [f \in Fds |-> 0], term |-> NULL]

NewPcb(parent, ptr, t) ==
  [parent_process_id |-> parent, parent_ptr |-> ptr, esp_when_execute |-> NULL,
   vidmap_flag |-> 0, flags |-> InitialFlags, term |-> t]

Used(p) == id_array[p] = 1

\* Seeded fault: with every slot taken the loop ends on the last one.
IsFreeSlot_Overrun(ids, p) ==
  \/ ids[p] = 0 /\ \A q \in Pids : q < p => ids[q] = 1
  \/ p = MaxProc - 1 /\ \A q \in Pids : ids[q] = 1

\* The slot loop of execute_handler and init_shell takes the lowest free slot.
IsFreeSlot(ids, p) == ids[p] = 0 /\ \A q \in Pids : q < p => ids[q] = 1

\* Seeded fault: the slot is not given back.
Release_Leak(ids, p) == ids

Release(ids, p) == [ids EXCEPT ![p] = 0]

\* The process in front of a terminal: the current one if the terminal has the
\* CPU, else the one saved when it lost it.
Foreground(t) == IF t = cur_execute_term THEN current_id ELSE term_pid_array[t]

Running == ~hung /\ current_id # NULL

Init ==
  /\ id_array = [p \in Pids |-> 0]
  /\ pcb = [p \in Pids |-> NoPcb]
  /\ pcb_arr = [p \in Pids |-> NULL]
  /\ pid_vidmap_flag = [p \in Pids |-> 0]
  /\ current_id = NULL /\ current_pcb_ptr = NULL
  /\ tss_esp0 = NULL /\ cpu = NULL
  /\ mmu = PagingInit
  /\ cur_execute_term = 0 /\ cur_vis_term = 0
  /\ term_pid_array = [t \in Terms |-> NULL]
  /\ term_pcb = [t \in Terms |-> NULL]
  /\ term_esp = [t \in Terms |-> NULL]
  /\ global_flag_exception = 0 /\ hung = FALSE
  /\ exec_ret = Nothing

-----------------------------------------------------------------------------
(* System calls of the current process                                     *)

\* Seeded faults: esp is read after the move to the child's stack, or stored
\* in the pcb of the child.
SaveFrame_Late(mem, ptr, p) ==
  IF ptr = NULL THEN mem ELSE [mem EXCEPT ![ptr].esp_when_execute = p]
SaveFrame_InChild(mem, ptr, p) ==
  IF ptr = NULL THEN mem ELSE [mem EXCEPT ![p].esp_when_execute = cpu]

\* The caller of execute keeps the stack it is on, in its own pcb.
SaveFrame(mem, ptr, p) ==
  IF ptr = NULL THEN mem ELSE [mem EXCEPT ![ptr].esp_when_execute = cpu]

\* execute_handler up to the iret into the child, which takes slot p; ids, arr
\* and mem are id_array, pcb_arr and the pcbs as they are when it is called.
EnterProgram(p, ids, arr, mem, parent, t) ==
  LET ptr == IF parent = NULL THEN NULL ELSE arr[parent]
      started == [mem EXCEPT ![p] = NewPcb(parent, ptr, t)]
  IN  /\ id_array' = [ids EXCEPT ![p] = 1]
      /\ pcb' = SaveFrame(started, ptr, p)
      /\ pcb_arr' = [arr EXCEPT ![p] = p]
      /\ current_id' = p
      /\ current_pcb_ptr' = p
      /\ tss_esp0' = p
      /\ cpu' = p

\* A shell, or any program, runs another one and waits for it.
Execute(p) ==
  /\ Running
  /\ IsFreeSlot(id_array, p)
  /\ EnterProgram(p, id_array, pcb_arr, pcb, current_id, cur_execute_term)
  /\ mmu' = SetPage(mmu, p)
  /\ exec_ret' = Nothing
  /\ UNCHANGED <<pid_vidmap_flag, termVars, cur_vis_term, excVars>>

\* execute of a missing or non-executable file claims a slot, gives it back
\* and returns -1.
ExecuteRejects(p) ==
  LET claimed == [id_array EXCEPT ![p] = 1]
  IN  /\ Running
      /\ IsFreeSlot(id_array, p)
      /\ id_array' = Release(claimed, p)
      /\ exec_ret' = -1
      /\ UNCHANGED <<pcb, pcb_arr, pid_vidmap_flag, curVars, termVars, mmu,
                     cur_vis_term, excVars>>

\* execute with a null command or with all slots taken.
ExecuteFails ==
  /\ Running
  /\ exec_ret' = -1
  /\ UNCHANGED <<procVars, curVars, termVars, mmu, cur_vis_term, excVars>>

\* Seeded faults: 0 and 1 are closed too; a closed descriptor is marked -1.
CloseFrom2_All(flags) == [f \in Fds |-> 0]
CloseFrom2_Minus(flags) == [f \in Fds |-> IF f >= 2 THEN -1 ELSE flags[f]]

\* close(fd) as halt_handler calls it for 2..7 on the flags of a process.
CloseFrom2(flags) == [f \in Fds |-> IF f >= 2 THEN 0 ELSE flags[f]]

\* Seeded fault: the slot keeps the flag of the program that halts.
DropVidmapFlag_Keep(p, flag) == pid_vidmap_flag

DropVidmapFlag(p, flag) ==
  IF flag = 1 THEN [pid_vidmap_flag EXCEPT ![p] = 0] ELSE pid_vidmap_flag

\* halt of a program that was started by execute.  current_pcb_ptr is already
\* the parent's when the descriptors are closed.
Halt ==
  LET me == pcb[current_pcb_ptr]
      parent == me.parent_process_id
      ptr == pcb_arr[parent]
      resumed == [pcb EXCEPT ![ptr].flags = CloseFrom2(@),
                             ![me.parent_ptr].esp_when_execute = NULL]
      paged == SetPage(mmu, parent)
  IN  /\ Running
      /\ parent # NULL
      /\ current_id' = parent
      /\ current_pcb_ptr' = ptr
      /\ tss_esp0' = parent
      /\ id_array' = Release(id_array, current_id)
      /\ pcb_arr' = [pcb_arr EXCEPT ![current_id] = NULL]
      /\ term_pid_array' = [term_pid_array EXCEPT ![cur_execute_term] = parent]
      /\ term_pcb' = [term_pcb EXCEPT ![cur_execute_term] = ptr]
      /\ mmu' = IF me.vidmap_flag = 1 THEN UndoVidmap(paged) ELSE paged
      /\ pid_vidmap_flag' = DropVidmapFlag(current_id, me.vidmap_flag)
      /\ pcb' = [resumed EXCEPT ![current_pcb_ptr] = NoPcb]
      /\ cpu' = pcb[me.parent_ptr].esp_when_execute
      /\ exec_ret' = IF global_flag_exception = 1 THEN 256 ELSE 0
      /\ global_flag_exception' = 0
      /\ UNCHANGED <<cur_execute_term, term_esp, cur_vis_term, hung>>

\* halt of a terminal's first shell: the slot is freed and a new shell is
\* executed in its place, in the lowest free slot.
HaltBaseShell(p) ==
  LET ids == Release(id_array, current_id)
      arr == [pcb_arr EXCEPT ![current_id] = NULL]
      mem == [pcb EXCEPT ![current_pcb_ptr] = NoPcb]
  IN  /\ Running
      /\ pcb[current_pcb_ptr].parent_process_id = NULL
      /\ IsFreeSlot(ids, p)
      /\ EnterProgram(p, ids, arr, mem, NULL, cur_execute_term)
      /\ mmu' = SetPage(mmu, p)
      /\ exec_ret' = Nothing
      /\ UNCHANGED <<pid_vidmap_flag, termVars, cur_vis_term, excVars>>

IsFreeFd(flags, fd) ==
  fd >= 2 /\ flags[fd] = 0 /\ \A f \in Fds : 2 <= f /\ f < fd => flags[f] # 0

\* open of an existing file takes the lowest free descriptor from 2 on.
Open(fd) ==
  /\ Running
  /\ IsFreeFd(pcb[current_pcb_ptr].flags, fd)
  /\ pcb' = [pcb EXCEPT ![current_pcb_ptr].flags[fd] = 1]
  /\ exec_ret' = Nothing
  /\ UNCHANGED <<id_array, pcb_arr, pid_vidmap_flag, curVars, termVars, mmu,
                 cur_vis_term, excVars>>

Close(fd) ==
  /\ Running
  /\ fd >= 2 /\ pcb[current_pcb_ptr].flags[fd] # 0
  /\ pcb' = [pcb EXCEPT ![current_pcb_ptr].flags[fd] = 0]
  /\ exec_ret' = Nothing
  /\ UNCHANGED <<id_array, pcb_arr, pid_vidmap_flag, curVars, termVars, mmu,
                 cur_vis_term, excVars>>

\* vidmap with a pointer into the program's page.  A first shell never calls it
\* (syscalls/ece391shell.c).
Vidmap ==
  /\ Running /\ MayVidmap
  /\ pcb[current_pcb_ptr].parent_process_id # NULL
  /\ pid_vidmap_flag' = [pid_vidmap_flag EXCEPT ![current_id] = 1]
  /\ pcb' = [pcb EXCEPT ![current_pcb_ptr].vidmap_flag = 1]
  /\ mmu' = SetVideoMem(mmu, cur_vis_term, cur_execute_term)
  /\ exec_ret' = Nothing
  /\ UNCHANGED <<id_array, pcb_arr, curVars, termVars, cur_vis_term, excVars>>

-----------------------------------------------------------------------------
(* Interrupts and exceptions                                               *)

\* pit.c, saving: the running process becomes its terminal's process to resume.
SavedEsps == IF current_id = NULL THEN term_esp
             ELSE [term_esp EXCEPT ![cur_execute_term] = cpu]

\* Seeded fault: the process is not saved, only its stack.
SavedPids_None == term_pid_array

SavedPids == IF current_id = NULL THEN term_pid_array
             ELSE [term_pid_array EXCEPT ![cur_execute_term] = current_id]

SavedPcbs == IF current_id = NULL THEN term_pcb
             ELSE [term_pcb EXCEPT ![cur_execute_term] = current_pcb_ptr]

\* pid_vidmap_flag[current_id]; before the first shell the index is -1 and the
\* read returns whatever lies before the array.
VidmapFlagRead == IF current_id = NULL THEN {0, 1, 2}
                  ELSE {pid_vidmap_flag[current_id]}

\* A PIT tick gives the CPU to a terminal that has no shell yet: init_shell.
\* It never returns to pit.c, so the screen is switched before it, while
\* current_id still names the process that loses the CPU.
StartTerminal(t, p) ==
  /\ ~hung
  /\ Foreground(t) = NULL
  /\ IsFreeSlot(id_array, p)
  /\ term_esp' = SavedEsps
  /\ term_pid_array' = SavedPids
  /\ term_pcb' = SavedPcbs
  /\ cur_execute_term' = t
  /\ EnterProgram(p, id_array, pcb_arr, pcb, NULL, t)
  /\ \E flag \in VidmapFlagRead :
       mmu' = SetPage(SwitchTermVim(mmu, flag, cur_vis_term, t), p)
  /\ exec_ret' = Nothing
  /\ UNCHANGED <<pid_vidmap_flag, cur_vis_term, excVars>>

\* A PIT tick resumes the process in front of another terminal.
Resume(t) ==
  /\ Running
  /\ t # cur_execute_term /\ term_esp[t] # NULL
  /\ term_esp' = SavedEsps
  /\ term_pid_array' = SavedPids
  /\ term_pcb' = SavedPcbs
  /\ cur_execute_term' = t
  /\ current_id' = term_pid_array[t]
  /\ current_pcb_ptr' = term_pcb[t]
  /\ tss_esp0' = term_pid_array[t]
  /\ cpu' = term_esp[t]
  /\ mmu' = SwitchTermVim(SetPage(mmu, term_pid_array[t]),
                          pid_vidmap_flag[term_pid_array[t]], cur_vis_term, t)
  /\ exec_ret' = Nothing
  /\ UNCHANGED <<procVars, cur_vis_term, excVars>>

\* The keyboard handler puts the cursor's terminal on the display for one putc
\* and switches back to the executing one.
KeyboardEcho ==
  /\ ~hung
  /\ \E flag \in VidmapFlagRead :
       LET shown == SwitchTermVim(mmu, flag, cur_vis_term, cur_vis_term)
       IN  mmu' = SwitchTermVim(shown, flag, cur_vis_term, cur_execute_term)
  /\ exec_ret' = Nothing
  /\ UNCHANGED <<procVars, curVars, termVars, cur_vis_term, excVars>>

\* Alt+F1..F3: term_switch makes another terminal visible.
TermSwitch(v) ==
  /\ ~hung
  /\ v # cur_vis_term
  /\ cur_vis_term' = v
  /\ \E flag \in VidmapFlagRead :
       mmu' = SwitchTermVim(mmu, flag, v, cur_execute_term)
  /\ exec_ret' = Nothing
  /\ UNCHANGED <<procVars, curVars, termVars, excVars>>

\* A program raises an exception: exception_handler clears IF and never returns.
Fault ==
  /\ Running /\ MayFault
  /\ global_flag_exception' = 1
  /\ hung' = TRUE
  /\ exec_ret' = Nothing
  /\ UNCHANGED <<procVars, curVars, termVars, mmu, cur_vis_term>>

\* The infinite loop of exception_handler.
Spin == hung /\ UNCHANGED vars

-----------------------------------------------------------------------------
Syscall ==
  \/ \E p \in Pids : Execute(p)
  \/ \E p \in Pids : ExecuteRejects(p)
  \/ ExecuteFails
  \/ Halt
  \/ \E p \in Pids : HaltBaseShell(p)
  \/ \E fd \in Fds : Open(fd)
  \/ \E fd \in Fds : Close(fd)
  \/ Vidmap

Tick == \/ \E t \in Terms, p \in Pids : StartTerminal(t, p)
        \/ \E t \in Terms : Resume(t)

Next == Syscall \/ Tick \/ KeyboardEcho \/ (\E v \in Terms : TermSwitch(v))
        \/ Fault \/ Spin

Spec == Init /\ [][Next]_vars

-----------------------------------------------------------------------------
(* Properties                                                              *)

TypeOK ==
  /\ id_array \in [Pids -> {0, 1}]
  /\ pcb \in [Pids -> Pcb]
  /\ pcb_arr \in [Pids -> PidOrNull]
  /\ pid_vidmap_flag \in [Pids -> {0, 1}]
  /\ current_id \in PidOrNull /\ current_pcb_ptr \in PidOrNull
  /\ tss_esp0 \in PidOrNull /\ cpu \in PidOrNull
  /\ mmu \in Mmu(Pids)
  /\ cur_execute_term \in Terms /\ cur_vis_term \in Terms
  /\ term_pid_array \in [Terms -> PidOrNull]
  /\ term_pcb \in [Terms -> PidOrNull]
  /\ term_esp \in [Terms -> PidOrNull]
  /\ global_flag_exception \in {0, 1} /\ hung \in BOOLEAN
  /\ exec_ret \in {Nothing, -1, 0, 256}

\* The six places that say who runs agree: current_id, current_pcb_ptr, the
\* kernel stack in the TSS, the user page at 128MB and the stack the processor
\* is on all belong to one process, which is alive and was started on the
\* terminal that has the CPU.
CpuCoherent ==
  current_id # NULL =>
    /\ current_pcb_ptr = current_id /\ tss_esp0 = current_id
    /\ mmu.user = current_id /\ cpu = current_id
    /\ Used(current_id) /\ pcb_arr[current_id] = current_id
    /\ pcb[current_id].term = cur_execute_term

\* No slot leaks and none is held twice: a slot is in use exactly when its
\* process is in front of a terminal or waits in execute for a living child,
\* and never both, never for two terminals and never for two children.
Children(p) == {q \in Pids : Used(q) /\ pcb[q].parent_process_id = p}

SlotsAccounted ==
  \A p \in Pids :
    /\ Used(p) <=> (\E t \in Terms : Foreground(t) = p) \/ Children(p) # {}
    /\ \A t \in Terms : Foreground(t) = p =>
         /\ Children(p) = {}
         /\ \A u \in Terms : Foreground(u) = p => u = t
    /\ \A q, r \in Children(p) : q = r

\* What halt relies on: the parent of a living process is alive on the same
\* terminal, both links name it, and it has a pending execute whose frame lies
\* on the parent's own kernel stack.
WaitsFor(p, q) ==
  /\ Used(p) /\ pcb_arr[p] = p
  /\ pcb[q].parent_ptr = p
  /\ pcb[p].esp_when_execute = p
  /\ pcb[p].term = pcb[q].term

CallersWait ==
  \A q \in Pids : Used(q) /\ pcb[q].parent_process_id # NULL =>
    WaitsFor(pcb[q].parent_process_id, q)

\* A started terminal always has a process in front, whichever programs it ran
\* and halted; a terminal that lost the CPU can be resumed on that process's
\* own pcb and stack.
TerminalsKeepAProcess ==
  \A t \in Terms :
    /\ term_esp[t] # NULL => Foreground(t) # NULL
    /\ t # cur_execute_term /\ term_esp[t] # NULL =>
         /\ term_esp[t] = term_pid_array[t] /\ term_pcb[t] = term_pid_array[t]
         /\ pcb[term_pid_array[t]].term = t

\* The kernel's 0xB8000 and, for a program that can reach it, the vidmap page
\* always show the executing terminal's screen: the display only when that
\* terminal is visible.
VideoFrames ==
  current_id # NULL =>
    /\ mmu.vim = Frame(cur_vis_term, cur_execute_term)
    /\ VidmapReachable(mmu) => mmu.vidBase = Frame(cur_vis_term, cur_execute_term)

\* The two copies of the vidmap flag (per slot and per pcb) agree, so a slot is
\* never handed out with the flag of the process that had it before.
VidmapFlagsAgree == \A p \in Pids : pid_vidmap_flag[p] = pcb[p].vidmap_flag

\* The console descriptors of a living process stay open: closing the
\* descriptors of a halting child never takes the parent's 0 and 1.
ConsoleOpen == \A p \in Pids : Used(p) => pcb[p].flags[0] = 1 /\ pcb[p].flags[1] = 1

\* A step never touches a process of a terminal that does not have the CPU: it
\* neither ends nor starts nor changes its pcb, and the process in front of
\* such a terminal stays in front.
TerminalsIndependent ==
  [][/\ \A p \in Pids : Used(p) /\ pcb[p].term # cur_execute_term =>
          id_array'[p] = 1 /\ pcb'[p] = pcb[p]
     /\ \A t \in Terms : t # cur_execute_term /\ Foreground(t) # NULL =>
          Foreground(t)' = Foreground(t)]_vars

\* execute returns to the process that called it: when a child ends, the
\* process that continues is its parent, on the parent's own kernel stack,
\* with the parent's user page mapped.
ExecuteReturnsToCaller ==
  [][\A p \in Pids : Used(p) /\ id_array'[p] = 0 /\ pcb[p].parent_process_id # NULL =>
       /\ p = current_id
       /\ current_id' = pcb[p].parent_process_id
       /\ cpu' = current_id' /\ mmu'.user = current_id']_vars

\* Descriptors change only by the process's own calls: whatever another process
\* does, and when a child it waits for halts ("close any relavent FDs",
\* systemcall_handler.c:719), a process keeps the files it has open.
FilesKept ==
  [][\A p \in Pids : Used(p) /\ Used(p)' /\ p # current_id =>
       pcb'[p].flags = pcb[p].flags]_vars

\* vidmap returned 0 to the running process and nothing took the mapping back:
\* the page is there ("undo the maping in halt", systemcall_handler.c:677).
VidmapStays ==
  current_id # NULL /\ pcb[current_id].vidmap_flag = 1 => VidmapReachable(mmu)
=============================================================================
