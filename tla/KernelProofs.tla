---------------------------- MODULE KernelProofs ----------------------------
(***************************************************************************)
(* Proofs about Kernel, for any number of slots, up to three terminals and *)
(* any number of descriptors.  The inductive invariant IInv adds to the    *)
(* checked invariants what makes them survive a step: which slots the      *)
(* pointers of pcb_arr name, that a process in front of a terminal is      *)
(* alive, that a parked terminal is saved consistently, and that nothing   *)
(* exists before the first tick.  PcbInv and VideoInv do the same for the  *)
(* vidmap flags and the video pages.  StackInv, at the end, says that the  *)
(* parent links put the processes of a terminal on a stack; with it every  *)
(* step of Kernel is a step of JobControl.                                 *)
(***************************************************************************)
EXTENDS KernelRefinesJobControl, WellFoundedInduction, FiniteSetTheorems,
        SequenceTheorems, TLAPS

-----------------------------------------------------------------------------
(* Induction over sets of numbers, and functions defined by recursion      *)

\* Induction: a set that has 0 and the successor of each of its numbers has
\* all of them.
LEMMA NatInd ==
  ASSUME NEW S, 0 \in S, \A n \in Nat : n \in S => n + 1 \in S
  PROVE  \A n \in Nat : n \in S
<1> DEFINE R == OpToRel(<, Nat)
           B == {n \in Nat : n \notin S}
<1>1. IsWellFoundedOn(R, Nat)
  BY NatLessThanWellFounded
<1>2. \A m, n \in Nat : m < n => <<m, n>> \in R
  BY DEF OpToRel
<1> HIDE DEF R
<1>3. SUFFICES ASSUME B # {} PROVE FALSE
  OBVIOUS
<1>4. B \subseteq Nat
  OBVIOUS
<1>5. PICK x \in B : \A y \in B : ~ (<<y, x>> \in R)
  BY <1>1, <1>3, <1>4, WFMin
<1>6. x \in Nat /\ x # 0
  BY <1>5
<1>7. x - 1 \in Nat /\ x - 1 < x /\ (x - 1) + 1 = x
  BY <1>6
<1>8. x - 1 \notin B
  BY <1>2, <1>5, <1>6, <1>7
<1> QED BY <1>5, <1>7, <1>8

\* A loop whose step is a function of the round and the state has a function
\* that gives the state after each round.
LEMMA Iterate ==
  ASSUME NEW S, NEW a \in S, NEW G \in [Nat \X S -> S]
  PROVE  \E f \in [Nat -> S] : f[0] = a /\ \A n \in Nat : f[n + 1] = G[<<n, f[n]>>]
<1> DEFINE Good(n, g) == g[0] = a /\ \A i \in 0..(n - 1) : g[i + 1] = G[<<i, g[i]>>]
           Upto(n) == {g \in [0..n -> S] : Good(n, g)}
           E == {n \in Nat : Upto(n) # {}}
<1>1. 0 \in E
  <2>1. [i \in 0..0 |-> a] \in Upto(0)
    OBVIOUS
  <2> QED BY <2>1
<1>2. ASSUME NEW n \in Nat, n \in E PROVE n + 1 \in E
  <2>1. PICK g : g \in Upto(n)
    BY <1>2
  <2> DEFINE h == [i \in 0..(n + 1) |-> IF i = n + 1 THEN G[<<n, g[n]>>] ELSE g[i]]
  <2>2. h \in [0..(n + 1) -> S]
    BY <2>1
  <2>3. h[0] = a
    BY <2>1
  <2>4. ASSUME NEW i \in 0..n PROVE h[i + 1] = G[<<i, h[i]>>]
    <3>1. h[i] = g[i]
      OBVIOUS
    <3>2. CASE i = n
      <4>1. h[i + 1] = G[<<n, g[n]>>]
        BY <3>2
      <4> QED BY <3>1, <3>2, <4>1
    <3>3. CASE i # n
      <4>1. i \in 0..(n - 1) /\ h[i + 1] = g[i + 1]
        BY <3>3
      <4>2. g[i + 1] = G[<<i, g[i]>>]
        BY <2>1, <4>1
      <4> HIDE DEF h
      <4> QED BY <3>1, <4>1, <4>2
    <3> QED BY <3>2, <3>3
  <2> HIDE DEF h
  <2>5. Good(n + 1, h)
    <3>1. \A i \in 0..((n + 1) - 1) : i \in 0..n
      OBVIOUS
    <3> QED BY <2>3, <2>4, <3>1
  <2> QED BY <2>2, <2>5
<1>3. \A n \in Nat : n \in E
  <2> HIDE DEF E
  <2> QED BY <1>1, <1>2, NatInd
<1>4. ASSUME NEW m \in Nat, NEW n \in Nat, NEW g \in Upto(m), NEW h \in Upto(n),
             NEW i \in Nat, i <= m, i <= n
      PROVE  g[i] = h[i]
  <2> DEFINE A == {k \in Nat : k <= m /\ k <= n => g[k] = h[k]}
  <2>1. 0 \in A
    OBVIOUS
  <2>2. ASSUME NEW k \in Nat, k \in A PROVE k + 1 \in A
    <3> SUFFICES ASSUME k + 1 <= m, k + 1 <= n PROVE g[k + 1] = h[k + 1]
      OBVIOUS
    <3>1. k \in 0..(m - 1) /\ k \in 0..(n - 1)
      OBVIOUS
    <3>2. g[k + 1] = G[<<k, g[k]>>] /\ h[k + 1] = G[<<k, h[k]>>]
      BY <3>1
    <3>3. g[k] = h[k]
      BY <2>2, <3>1
    <3> QED BY <3>2, <3>3
  <2>3. \A k \in Nat : k \in A
    <3> HIDE DEF A
    <3> QED BY <2>1, <2>2, NatInd
  <2> QED BY <1>4, <2>3
<1> DEFINE w(n) == CHOOSE g : g \in Upto(n)
           f == [n \in Nat |-> w(n)[n]]
<1>5. ASSUME NEW n \in Nat PROVE w(n) \in Upto(n)
  BY <1>3
<1> HIDE DEF w
<1>6. f \in [Nat -> S]
  BY <1>5
<1>7. f[0] = a
  BY <1>5
<1>8. ASSUME NEW n \in Nat PROVE f[n + 1] = G[<<n, f[n]>>]
  <2>1. w(n + 1)[n + 1] = G[<<n, w(n + 1)[n]>>]
    BY <1>5
  <2>2. w(n) \in Upto(n) /\ w(n + 1) \in Upto(n + 1)
    BY <1>5
  <2> HIDE DEF Upto
  <2>3. w(n + 1)[n] = w(n)[n]
    BY <1>4, <2>2
  <2> QED BY <2>1, <2>3
<1> HIDE DEF f
<1> QED BY <1>6, <1>7, <1>8

\* A pointer of pcb_arr names its own slot exactly while the slot is in use.
Links ==
  \A p \in Pids : /\ Used(p) => pcb_arr[p] = p
                  /\ ~Used(p) => pcb_arr[p] = NULL /\ pcb[p] = NoPcb

\* The process in front of a terminal is alive and belongs to the terminal.
Fronts ==
  \A t \in Terms : Foreground(t) # NULL =>
    Used(Foreground(t)) /\ pcb[Foreground(t)].term = t

\* A terminal without the CPU was saved as one process.
Parked ==
  \A t \in Terms : t # cur_execute_term =>
    term_pcb[t] = term_pid_array[t] /\ term_esp[t] = term_pid_array[t]

\* Before the first tick nothing was started.
BootState ==
  current_id = NULL =>
    /\ \A p \in Pids : ~Used(p)
    /\ \A t \in Terms : /\ term_pid_array[t] = NULL
                        /\ term_pcb[t] = NULL /\ term_esp[t] = NULL

\* A slot in use is in front of a terminal or waits for a child.
Held ==
  \A p \in Pids : Used(p) =>
    \/ \E t \in Terms : Foreground(t) = p
    \/ \E q \in Pids : Used(q) /\ pcb[q].parent_process_id = p

\* A process in front of a terminal waits for no child.
FrontsFree ==
  \A t \in Terms, q \in Pids : Used(q) /\ Foreground(t) # NULL =>
    pcb[q].parent_process_id # Foreground(t)

\* A process waits for one child at most.
OneChild ==
  \A q, r \in Pids :
    Used(q) /\ Used(r) /\ pcb[q].parent_process_id # NULL
      /\ pcb[q].parent_process_id = pcb[r].parent_process_id => q = r

IInv == /\ TypeOK /\ CpuCoherent /\ CallersWait
        /\ Links /\ Fronts /\ Parked /\ BootState
        /\ Held /\ FrontsFree /\ OneChild

\* Pids is used below only as a set that does not contain NULL.
LEMMA PidNotNull == NULL \notin Pids
  BY KernelAssumption DEF Pids, NULL

USE PidNotNull DEF PidOrNull

\* What a system call finds: one running process, alive, in front of the
\* terminal that has the CPU.
LEMMA CurrentProcess ==
  ASSUME IInv, Running
  PROVE  /\ current_id \in Pids /\ current_pcb_ptr = current_id
         /\ cpu = current_id
         /\ Used(current_id) /\ pcb_arr[current_id] = current_id
         /\ Foreground(cur_execute_term) = current_id
         /\ pcb[current_id] \in Pcb
         /\ pcb[current_id].term = cur_execute_term
  BY DEF IInv, TypeOK, CpuCoherent, Running, Foreground

\* The paging operators keep the type of the page tables, and only set_page
\* moves the user page.
LEMMA UserPage ==
  ASSUME NEW m \in Mmu(Pids), NEW p \in PidOrNull
  PROVE  /\ SetPage(m, p) \in Mmu(Pids) /\ SetPage(m, p).user = p
         /\ UndoVidmap(m) \in Mmu(Pids) /\ UndoVidmap(m).user = m.user
  BY DEF Mmu, SetPage, UndoVidmap

LEMMA VideoPages ==
  ASSUME NEW m \in Mmu(Pids), NEW flag, NEW vis \in Terms, NEW exe \in Terms
  PROVE  /\ SetVideoMem(m, vis, exe) \in Mmu(Pids)
         /\ SetVideoMem(m, vis, exe).user = m.user
         /\ SwitchTermVim(m, flag, vis, exe) \in Mmu(Pids)
         /\ SwitchTermVim(m, flag, vis, exe).user = m.user
<1>1. Frame(vis, exe) \in Frames
  BY DEF Frame, Frames, Backing
<1> QED BY <1>1 DEF Mmu, SetVideoMem, SwitchTermVim

LEMMA NewPcbType ==
  ASSUME NEW parent \in PidOrNull, NEW ptr \in PidOrNull, NEW t \in Terms
  PROVE  NewPcb(parent, ptr, t) \in Pcb
  BY PidNotNull DEF NewPcb, InitialFlags, Pcb

\* execute keeps the invariant.
LEMMA ExecuteInv ==
  ASSUME IInv, NEW p \in Pids, Execute(p)
  PROVE  IInv'
<1> DEFINE c == current_id
<1>1. /\ Running /\ IsFreeSlot(id_array, p)
      /\ EnterProgram(p, id_array, pcb_arr, pcb, c, cur_execute_term)
      /\ mmu' = SetPage(mmu, p)
      /\ UNCHANGED <<pid_vidmap_flag, termVars, cur_vis_term, excVars>>
      /\ exec_ret' = Nothing
  BY DEF Execute
<1>2. /\ c \in Pids /\ Used(c) /\ cpu = c /\ pcb_arr[c] = c
      /\ Foreground(cur_execute_term) = c
      /\ pcb[c] \in Pcb /\ pcb[c].term = cur_execute_term
  BY <1>1, CurrentProcess
<1>3. ~Used(p) /\ p # c
  BY <1>1, <1>2 DEF IsFreeSlot, Used
<1>4. /\ id_array' = [id_array EXCEPT ![p] = 1]
      /\ pcb' = [[pcb EXCEPT ![p] = NewPcb(c, c, cur_execute_term)]
                   EXCEPT ![c].esp_when_execute = c]
      /\ pcb_arr' = [pcb_arr EXCEPT ![p] = p]
      /\ current_id' = p /\ current_pcb_ptr' = p /\ tss_esp0' = p /\ cpu' = p
  BY <1>1, <1>2 DEF EnterProgram, SaveFrame
<1>5. /\ pcb' \in [Pids -> Pcb]
      /\ pcb'[p] = NewPcb(c, c, cur_execute_term)
      /\ pcb'[c] = [pcb[c] EXCEPT !.esp_when_execute = c]
      /\ \A q \in Pids : q # p /\ q # c => pcb'[q] = pcb[q]
  <2>1. NewPcb(c, c, cur_execute_term) \in Pcb
    BY <1>2, NewPcbType DEF IInv, TypeOK
  <2> QED BY SMTT(30), <1>2, <1>3, <1>4, <2>1 DEF IInv, TypeOK, Pcb
<1>6. TypeOK'
  BY <1>1, <1>4, <1>5 DEF IInv, TypeOK, SetPage, Mmu, termVars, excVars
<1>7. /\ \A q \in Pids : Used(q)' <=> Used(q) \/ q = p
      /\ \A q \in Pids : q # p => pcb_arr'[q] = pcb_arr[q]
      /\ pcb_arr'[p] = p
  BY <1>4 DEF IInv, TypeOK, Used
<1>8. /\ pcb'[p].parent_process_id = c /\ pcb'[p].parent_ptr = c
      /\ pcb'[p].term = cur_execute_term
      /\ pcb'[c].esp_when_execute = c
      /\ \A q \in Pids : q # p =>
           /\ pcb'[q].parent_process_id = pcb[q].parent_process_id
           /\ pcb'[q].parent_ptr = pcb[q].parent_ptr
           /\ pcb'[q].term = pcb[q].term
           /\ q # c => pcb'[q] = pcb[q]
           /\ pcb[q].parent_process_id \in PidOrNull
  BY <1>2, <1>3, <1>5 DEF NewPcb, Pcb, IInv, TypeOK
<1>9. /\ cur_execute_term' = cur_execute_term /\ cur_execute_term \in Terms
      /\ \A t \in Terms : Foreground(t)' = IF t = cur_execute_term THEN p
                                           ELSE Foreground(t)
      /\ \A t \in Terms : Foreground(t) \in PidOrNull
  BY <1>1, <1>4 DEF termVars, Foreground, IInv, TypeOK
<1>10. CpuCoherent'
  BY <1>1, <1>4, <1>7, <1>8, <1>9 DEF CpuCoherent, SetPage, IInv, TypeOK, Mmu
<1>11. CallersWait'
  BY <1>2, <1>3, <1>7, <1>8 DEF CallersWait, WaitsFor, IInv
<1>12. Links'
  BY <1>2, <1>3, <1>7, <1>8 DEF Links, IInv
<1>13. Fronts'
  BY <1>2, <1>3, <1>7, <1>8, <1>9 DEF Fronts, IInv
<1>14. Parked' /\ BootState'
  BY <1>1, <1>4 DEF Parked, BootState, IInv, termVars
<1>15. Held'
  BY <1>2, <1>3, <1>7, <1>8, <1>9 DEF Held, IInv
<1>16. FrontsFree'
  BY <1>2, <1>3, <1>7, <1>8, <1>9 DEF FrontsFree, CallersWait, WaitsFor, Fronts, IInv
<1>17. OneChild'
  BY <1>2, <1>3, <1>7, <1>8, <1>9 DEF OneChild, FrontsFree, IInv
<1> QED
  BY <1>6, <1>10, <1>11, <1>12, <1>13, <1>14, <1>15, <1>16, <1>17 DEF IInv

LEMMA NoPcbType == NoPcb \in Pcb
  BY DEF NoPcb, Pcb

LEMMA CloseFrom2Type ==
  ASSUME NEW flags \in [Fds -> {0, 1}]
  PROVE  CloseFrom2(flags) \in [Fds -> {0, 1}]
  BY DEF CloseFrom2

\* halt keeps the invariant: the parent it resumes is alive, waits for this
\* child only, and its frame lies on its own stack.
LEMMA HaltInv ==
  ASSUME IInv, Halt
  PROVE  IInv'
<1> DEFINE c == current_id
           par == pcb[c].parent_process_id
<1>1. /\ c \in Pids /\ Used(c) /\ current_pcb_ptr = c
      /\ Foreground(cur_execute_term) = c
      /\ pcb[c] \in Pcb /\ pcb[c].term = cur_execute_term
  BY CurrentProcess DEF Halt
<1>2. par \in Pids
  BY <1>1 DEF Halt, Pcb
<1>3. /\ Used(par) /\ pcb_arr[par] = par /\ pcb[c].parent_ptr = par
      /\ pcb[par].esp_when_execute = par /\ pcb[par].term = cur_execute_term
  BY <1>1, <1>2 DEF CallersWait, WaitsFor, IInv
<1>4. par # c /\ par = pcb[c].parent_process_id
  BY <1>1, <1>2 DEF FrontsFree, IInv, TypeOK
<1> DEFINE resumed == [pcb EXCEPT ![par].flags = CloseFrom2(@),
                                  ![par].esp_when_execute = NULL]
<1>5. /\ id_array' = [id_array EXCEPT ![c] = 0]
      /\ pcb_arr' = [pcb_arr EXCEPT ![c] = NULL]
      /\ pcb' = [resumed EXCEPT ![c] = NoPcb]
      /\ current_id' = par /\ current_pcb_ptr' = par /\ tss_esp0' = par
      /\ cpu' = par
      /\ term_pid_array' = [term_pid_array EXCEPT ![cur_execute_term] = par]
      /\ term_pcb' = [term_pcb EXCEPT ![cur_execute_term] = par]
      /\ UNCHANGED <<cur_execute_term, term_esp, cur_vis_term, hung>>
      /\ global_flag_exception' = 0 /\ exec_ret' \in {0, 256}
      /\ pid_vidmap_flag' = DropVidmapFlag(c, pcb[c].vidmap_flag)
      /\ \/ mmu' = SetPage(mmu, par)
         \/ mmu' = UndoVidmap(SetPage(mmu, par))
  BY <1>1, <1>2, <1>3 DEF Halt, Release
<1> HIDE DEF par
<1>6. /\ pcb' \in [Pids -> Pcb]
      /\ pcb'[c] = NoPcb
      /\ pcb'[par] = [pcb[par] EXCEPT !.flags = CloseFrom2(pcb[par].flags),
                                      !.esp_when_execute = NULL]
      /\ \A q \in Pids : q # c /\ q # par => pcb'[q] = pcb[q]
  <2>1. pcb[par] \in Pcb
    BY <1>2 DEF IInv, TypeOK
  <2>2. CloseFrom2(pcb[par].flags) \in [Fds -> {0, 1}]
    BY <2>1, CloseFrom2Type DEF Pcb
  <2>3. [pcb[par] EXCEPT !.flags = CloseFrom2(pcb[par].flags),
                         !.esp_when_execute = NULL] \in Pcb
    BY <2>1, <2>2 DEF Pcb
  <2>4. pcb \in [Pids -> Pcb]
    BY DEF IInv, TypeOK
  <2> DEFINE closed == [pcb EXCEPT ![par].flags = CloseFrom2(@)]
  <2>5. /\ closed \in [Pids -> Pcb]
        /\ closed[par] = [pcb[par] EXCEPT !.flags = CloseFrom2(pcb[par].flags)]
        /\ \A q \in Pids : q # par => closed[q] = pcb[q]
    BY <1>2, <2>1, <2>2, <2>4 DEF Pcb
  <2>6. /\ resumed = [closed EXCEPT ![par].esp_when_execute = NULL]
        /\ resumed \in [Pids -> Pcb]
        /\ resumed[par] = [closed[par] EXCEPT !.esp_when_execute = NULL]
        /\ \A q \in Pids : q # par => resumed[q] = closed[q]
    <3>1. resumed = [closed EXCEPT ![par].esp_when_execute = NULL]
      OBVIOUS
    <3> HIDE DEF closed, resumed
    <3>2. closed \in [Pids -> Pcb] /\ closed[par] \in Pcb
      BY <1>2, <2>5
    <3>3. [closed[par] EXCEPT !.esp_when_execute = NULL] \in Pcb
      BY <3>2 DEF Pcb
    <3>4. resumed = [closed EXCEPT ![par] = [closed[par] EXCEPT !.esp_when_execute = NULL]]
      BY <3>1
    <3>5. resumed \in [Pids -> Pcb]
      BY <3>2, <3>3, <3>4
    <3>6. /\ resumed[par] = [closed[par] EXCEPT !.esp_when_execute = NULL]
          /\ \A q \in Pids : q # par => resumed[q] = closed[q]
      BY <1>2, <3>2, <3>4
    <3> QED BY <3>1, <3>5, <3>6
  <2>7. resumed[par] = [pcb[par] EXCEPT !.flags = CloseFrom2(pcb[par].flags),
                                        !.esp_when_execute = NULL]
    BY <2>5, <2>6
  <2> HIDE DEF resumed, closed, c
  <2>8. pcb' = [resumed EXCEPT ![c] = NoPcb]
    BY <1>5
  <2>9. \A q \in Pids : q # par => resumed[q] = pcb[q]
    BY <2>5, <2>6
  <2> QED BY <1>1, <1>2, <1>4, <2>6, <2>7, <2>8, <2>9, NoPcbType
<1>7. /\ \A q \in Pids : Used(q)' <=> Used(q) /\ q # c
      /\ \A q \in Pids : q # c => pcb_arr'[q] = pcb_arr[q]
      /\ pcb_arr'[c] = NULL
  BY <1>1, <1>5 DEF IInv, TypeOK, Used
<1>8. \A q \in Pids :
        /\ pcb[q].parent_process_id \in PidOrNull
        /\ q # c =>
           /\ pcb'[q].parent_process_id = pcb[q].parent_process_id
           /\ pcb'[q].parent_ptr = pcb[q].parent_ptr
           /\ pcb'[q].term = pcb[q].term
           /\ q # par => pcb'[q] = pcb[q]
  <2>1. pcb[par] \in Pcb /\ pcb \in [Pids -> Pcb]
    BY <1>2 DEF IInv, TypeOK
  <2> HIDE DEF c, resumed
  <2>2. /\ pcb'[par].parent_process_id = pcb[par].parent_process_id
        /\ pcb'[par].parent_ptr = pcb[par].parent_ptr
        /\ pcb'[par].term = pcb[par].term
    BY <1>6, <2>1 DEF Pcb
  <2>3. \A q \in Pids : pcb[q].parent_process_id \in PidOrNull
    BY <2>1 DEF Pcb
  <2> QED BY <1>6, <2>2, <2>3
<1>9. /\ cur_execute_term' = cur_execute_term /\ cur_execute_term \in Terms
      /\ \A t \in Terms : Foreground(t)' = IF t = cur_execute_term THEN par
                                           ELSE Foreground(t)
      /\ \A t \in Terms : Foreground(t) \in PidOrNull
  BY <1>5 DEF Foreground, IInv, TypeOK
<1>a. mmu' \in Mmu(Pids) /\ mmu'.user = par
  <2>1. mmu \in Mmu(Pids)
    BY DEF IInv, TypeOK
  <2>2. SetPage(mmu, par) \in Mmu(Pids) /\ SetPage(mmu, par).user = par
    BY <1>2, <2>1, UserPage
  <2>3. /\ UndoVidmap(SetPage(mmu, par)) \in Mmu(Pids)
        /\ UndoVidmap(SetPage(mmu, par)).user = SetPage(mmu, par).user
    BY <1>2, <2>2, UserPage
  <2> QED BY <1>5, <2>2, <2>3
<1> HIDE DEF resumed
<1>10. TypeOK'
  <2>1. pid_vidmap_flag' \in [Pids -> {0, 1}]
    BY <1>5 DEF DropVidmapFlag, IInv, TypeOK
  <2> QED BY <1>1, <1>2, <1>5, <1>6, <1>a, <2>1 DEF IInv, TypeOK
<1>11. CpuCoherent'
  BY <1>2, <1>3, <1>4, <1>5, <1>7, <1>8, <1>9, <1>a DEF CpuCoherent
<1>12. CallersWait'
  <2> SUFFICES ASSUME NEW q \in Pids, Used(q)',
                      pcb'[q].parent_process_id # NULL
               PROVE  WaitsFor(pcb[q].parent_process_id, q)'
    BY DEF CallersWait
  <2> DEFINE p == pcb[q].parent_process_id
  <2>1. q # c /\ Used(q) /\ p \in Pids /\ pcb'[q].parent_process_id = p
    BY <1>7, <1>8
  <2>2. p # c
    BY <1>1, <1>9, <2>1 DEF FrontsFree, IInv
  <2>3. p # par
    BY <1>1, <1>2, <1>4, <2>1 DEF OneChild, IInv
  <2>4. pcb'[p] = pcb[p] /\ pcb_arr'[p] = pcb_arr[p] /\ (Used(p)' <=> Used(p))
    BY <1>7, <1>8, <2>1, <2>2, <2>3
  <2>5. WaitsFor(p, q)
    BY <2>1 DEF CallersWait, IInv
  <2> HIDE DEF p
  <2> QED BY <1>7, <1>8, <2>1, <2>4, <2>5 DEF WaitsFor
<1>13. Links'
  BY <1>1, <1>2, <1>3, <1>6, <1>7, <1>8 DEF Links, IInv
<1>14. Fronts'
  <2> SUFFICES ASSUME NEW t \in Terms, Foreground(t)' # NULL
               PROVE  (Used(Foreground(t)) /\ pcb[Foreground(t)].term = t)'
    BY DEF Fronts
  <2>1. CASE t = cur_execute_term
    BY <1>2, <1>3, <1>4, <1>7, <1>8, <1>9, <2>1
  <2>2. CASE t # cur_execute_term
    BY <1>1, <1>7, <1>8, <1>9, <2>2 DEF Fronts, IInv
  <2> QED BY <2>1, <2>2
<1>15. Parked' /\ BootState'
  BY <1>2, <1>5, <1>9 DEF Parked, BootState, IInv, TypeOK
<1>16. Held'
  BY <1>1, <1>2, <1>3, <1>4, <1>7, <1>8, <1>9 DEF Held, IInv
<1>17. FrontsFree'
  BY <1>1, <1>2, <1>3, <1>4, <1>7, <1>8, <1>9 DEF FrontsFree, OneChild, IInv
<1>18. OneChild'
  BY <1>7, <1>8 DEF OneChild, IInv
<1> QED
  BY <1>10, <1>11, <1>12, <1>13, <1>14, <1>15, <1>16, <1>17, <1>18 DEF IInv

\* halt of a first shell keeps the invariant: nobody waits for it, so its slot
\* may go to any process.
LEMMA HaltBaseShellInv ==
  ASSUME IInv, NEW p \in Pids, HaltBaseShell(p)
  PROVE  IInv'
<1> DEFINE c == current_id
           new == NewPcb(NULL, NULL, cur_execute_term)
<1>1. /\ c \in Pids /\ Used(c) /\ current_pcb_ptr = c
      /\ Foreground(cur_execute_term) = c
  BY CurrentProcess DEF HaltBaseShell
<1>2. /\ id_array' = [[id_array EXCEPT ![c] = 0] EXCEPT ![p] = 1]
      /\ pcb_arr' = [[pcb_arr EXCEPT ![c] = NULL] EXCEPT ![p] = p]
      /\ pcb' = [[pcb EXCEPT ![c] = NoPcb] EXCEPT ![p] = new]
      /\ current_id' = p /\ current_pcb_ptr' = p /\ tss_esp0' = p /\ cpu' = p
      /\ mmu' = SetPage(mmu, p) /\ exec_ret' = Nothing
      /\ UNCHANGED <<pid_vidmap_flag, termVars, cur_vis_term, excVars>>
  BY <1>1 DEF HaltBaseShell, EnterProgram, Release, SaveFrame
<1>3. p = c \/ ~Used(p)
  BY <1>1 DEF HaltBaseShell, IsFreeSlot, Release, Used, IInv, TypeOK
<1>4. new \in Pcb /\ pcb \in [Pids -> Pcb]
  BY NewPcbType DEF IInv, TypeOK
<1>5. /\ pcb' \in [Pids -> Pcb]
      /\ pcb'[p] = new
      /\ c # p => pcb'[c] = NoPcb
      /\ \A q \in Pids : q # c /\ q # p => pcb'[q] = pcb[q]
  <2> HIDE DEF new, c
  <2> QED BY <1>1, <1>2, <1>4, NoPcbType
<1>6. /\ new.parent_process_id = NULL /\ new.parent_ptr = NULL
      /\ new.term = cur_execute_term
      /\ \A q \in Pids : pcb[q].parent_process_id \in PidOrNull
  BY <1>4 DEF NewPcb, Pcb
<1> HIDE DEF new
<1>7. /\ \A q \in Pids : Used(q)' <=> q = p \/ (Used(q) /\ q # c)
      /\ \A q \in Pids : q # c /\ q # p => pcb_arr'[q] = pcb_arr[q]
      /\ pcb_arr'[p] = p /\ (c # p => pcb_arr'[c] = NULL)
  BY <1>1, <1>2 DEF IInv, TypeOK, Used
<1>8. /\ cur_execute_term' = cur_execute_term /\ cur_execute_term \in Terms
      /\ \A t \in Terms : Foreground(t)' = IF t = cur_execute_term THEN p
                                           ELSE Foreground(t)
      /\ \A t \in Terms : Foreground(t) \in PidOrNull
  BY <1>2 DEF Foreground, IInv, TypeOK, termVars
<1>9. mmu' \in Mmu(Pids) /\ mmu'.user = p
  BY SMTT(30), <1>2, UserPage DEF IInv, TypeOK
<1>10. TypeOK'
  BY <1>1, <1>2, <1>5, <1>9 DEF IInv, TypeOK, termVars, excVars
<1>11. CpuCoherent'
  BY <1>2, <1>5, <1>6, <1>7, <1>8, <1>9 DEF CpuCoherent
<1>12. \A q \in Pids : Used(q)' /\ pcb'[q].parent_process_id # NULL =>
         /\ q # p /\ q # c /\ Used(q) /\ pcb'[q] = pcb[q]
         /\ pcb[q].parent_process_id \in Pids
         /\ pcb[q].parent_process_id # c
         /\ pcb[q].parent_process_id # p
  <2> SUFFICES ASSUME NEW q \in Pids, Used(q)',
                      pcb'[q].parent_process_id # NULL
               PROVE  /\ q # p /\ q # c /\ Used(q) /\ pcb'[q] = pcb[q]
                      /\ pcb[q].parent_process_id \in Pids
                      /\ pcb[q].parent_process_id # c
                      /\ pcb[q].parent_process_id # p
    OBVIOUS
  <2>1. q # p
    BY <1>5, <1>6
  <2>2. q # c /\ Used(q) /\ pcb'[q] = pcb[q]
    BY <1>5, <1>7, <2>1
  <2>3. pcb[q].parent_process_id \in Pids
    BY <1>6, <2>2
  <2>4. pcb[q].parent_process_id # c
    BY <1>1, <1>8, <2>2 DEF FrontsFree, IInv
  <2>5. Used(pcb[q].parent_process_id)
    BY <2>2 DEF CallersWait, WaitsFor, IInv
  <2> QED BY <1>3, <2>1, <2>2, <2>3, <2>4, <2>5
<1>13. CallersWait'
  BY <1>5, <1>7, <1>12 DEF CallersWait, WaitsFor, IInv
<1>14. Links'
  BY <1>5, <1>7 DEF Links, IInv
<1>15. Fronts'
  <2> SUFFICES ASSUME NEW t \in Terms, Foreground(t)' # NULL
               PROVE  (Used(Foreground(t)) /\ pcb[Foreground(t)].term = t)'
    BY DEF Fronts
  <2>1. CASE t = cur_execute_term
    BY <1>5, <1>6, <1>7, <1>8, <2>1
  <2>2. CASE t # cur_execute_term
    <3>1. /\ Foreground(t)' = Foreground(t) /\ Foreground(t) \in Pids
          /\ Used(Foreground(t)) /\ pcb[Foreground(t)].term = t
      BY <1>8, <2>2 DEF Fronts, IInv
    <3>2. Foreground(t) # c /\ Foreground(t) # p
      BY <1>1, <1>3, <1>8, <2>2, <3>1 DEF Fronts, IInv
    <3> QED BY <1>5, <1>7, <3>1, <3>2
  <2> QED BY <2>1, <2>2
<1>16. Parked' /\ BootState'
  BY <1>1, <1>2 DEF Parked, BootState, IInv, termVars
<1>17. Held'
  <2> SUFFICES ASSUME NEW q \in Pids, Used(q)'
               PROVE  (\/ \E t \in Terms : Foreground(t) = q
                       \/ \E r \in Pids : Used(r) /\ pcb[r].parent_process_id = q)'
    BY DEF Held
  <2>1. CASE q = p
    BY <1>8, <2>1
  <2>2. CASE q # p
    <3>1. q # c /\ Used(q)
      BY <1>7, <2>2
    <3>2. CASE \E t \in Terms : Foreground(t) = q
      BY <1>1, <1>8, <3>1, <3>2
    <3>3. CASE \E r \in Pids : Used(r) /\ pcb[r].parent_process_id = q
      <4>1. PICK r \in Pids : Used(r) /\ pcb[r].parent_process_id = q
        BY <3>3
      <4>2. r # c
        BY <4>1 DEF HaltBaseShell, CpuCoherent, IInv
      <4> QED BY <1>3, <1>5, <1>7, <4>1, <4>2
    <3> QED BY <3>1, <3>2, <3>3 DEF Held, IInv
  <2> QED BY <2>1, <2>2
<1>18. FrontsFree'
  BY <1>7, <1>8, <1>12, <1>6, <1>5 DEF FrontsFree, IInv
<1>19. OneChild'
  BY <1>12 DEF OneChild, IInv
<1> QED
  BY <1>10, <1>11, <1>13, <1>14, <1>15, <1>16, <1>17, <1>18, <1>19 DEF IInv

\* What a tick saves: afterwards the saved process of every terminal is the one
\* in front of it, with its own pcb and stack.
LEMMA Saving ==
  ASSUME IInv
  PROVE  /\ SavedPids \in [Terms -> PidOrNull]
         /\ SavedPcbs \in [Terms -> PidOrNull]
         /\ SavedEsps \in [Terms -> PidOrNull]
         /\ \A t \in Terms : /\ SavedPids[t] = Foreground(t)
                             /\ SavedPcbs[t] = Foreground(t)
                             /\ SavedEsps[t] = Foreground(t)
<1>1. CASE current_id = NULL
  BY <1>1 DEF SavedPids, SavedPcbs, SavedEsps, Foreground, BootState, IInv, TypeOK
<1>2. CASE current_id # NULL
  BY <1>2 DEF SavedPids, SavedPcbs, SavedEsps, Foreground, Parked, CpuCoherent,
              IInv, TypeOK
<1> QED BY <1>1, <1>2

\* A tick that starts a terminal keeps the invariant.
LEMMA StartTerminalInv ==
  ASSUME IInv, NEW t \in Terms, NEW p \in Pids, StartTerminal(t, p)
  PROVE  IInv'
<1> DEFINE new == NewPcb(NULL, NULL, t)
<1>1. /\ id_array' = [id_array EXCEPT ![p] = 1]
      /\ pcb_arr' = [pcb_arr EXCEPT ![p] = p]
      /\ pcb' = [pcb EXCEPT ![p] = new]
      /\ current_id' = p /\ current_pcb_ptr' = p /\ tss_esp0' = p /\ cpu' = p
      /\ term_pid_array' = SavedPids /\ term_pcb' = SavedPcbs
      /\ term_esp' = SavedEsps /\ cur_execute_term' = t
      /\ exec_ret' = Nothing
      /\ UNCHANGED <<pid_vidmap_flag, cur_vis_term, excVars>>
  BY DEF StartTerminal, EnterProgram, SaveFrame
<1>2. ~Used(p) /\ Foreground(t) = NULL
  BY DEF StartTerminal, IsFreeSlot, Used
<1>3. new \in Pcb /\ pcb \in [Pids -> Pcb]
  BY NewPcbType DEF IInv, TypeOK
<1>4. /\ pcb' \in [Pids -> Pcb]
      /\ pcb'[p] = new
      /\ \A q \in Pids : q # p => pcb'[q] = pcb[q]
  <2> HIDE DEF new
  <2> QED BY <1>1, <1>3
<1>5. /\ new.parent_process_id = NULL /\ new.parent_ptr = NULL /\ new.term = t
      /\ \A q \in Pids : pcb[q].parent_process_id \in PidOrNull
  BY <1>3 DEF NewPcb, Pcb
<1> HIDE DEF new
<1>6. /\ \A q \in Pids : Used(q)' <=> q = p \/ Used(q)
      /\ \A q \in Pids : q # p => pcb_arr'[q] = pcb_arr[q]
      /\ pcb_arr'[p] = p
  BY <1>1 DEF IInv, TypeOK, Used
<1>7. /\ \A u \in Terms : Foreground(u) \in PidOrNull
      /\ \A u \in Terms : Foreground(u)' = IF u = t THEN p ELSE Foreground(u)
  <2>1. \A u \in Terms : Foreground(u) \in PidOrNull
    BY DEF Foreground, IInv, TypeOK
  <2>2. \A u \in Terms : Foreground(u)' = IF u = t THEN p ELSE SavedPids[u]
    BY <1>1 DEF Foreground
  <2> QED BY <2>1, <2>2, Saving
<1>8. mmu' \in Mmu(Pids) /\ mmu'.user = p
  <2>1. PICK flag \in VidmapFlagRead :
          mmu' = SetPage(SwitchTermVim(mmu, flag, cur_vis_term, t), p)
    BY DEF StartTerminal
  <2>2. SwitchTermVim(mmu, flag, cur_vis_term, t) \in Mmu(Pids)
    BY VideoPages DEF IInv, TypeOK
  <2> QED BY <2>1, <2>2, UserPage
<1>9. TypeOK'
  BY <1>1, <1>4, <1>8, Saving DEF IInv, TypeOK, excVars
<1>10. CpuCoherent'
  BY <1>1, <1>4, <1>5, <1>6, <1>8 DEF CpuCoherent
<1>11. \A q \in Pids : Used(q)' /\ pcb'[q].parent_process_id # NULL =>
         /\ q # p /\ Used(q) /\ pcb'[q] = pcb[q]
         /\ pcb[q].parent_process_id \in Pids
         /\ Used(pcb[q].parent_process_id)
         /\ pcb[q].parent_process_id # p
  BY <1>2, <1>4, <1>5, <1>6 DEF CallersWait, WaitsFor, IInv
<1>12. CallersWait'
  BY <1>4, <1>6, <1>11 DEF CallersWait, WaitsFor, IInv
<1>13. Links'
  BY <1>2, <1>4, <1>6 DEF Links, IInv
<1>14. Fronts'
  BY <1>2, <1>4, <1>5, <1>6, <1>7 DEF Fronts, IInv
<1>15. Parked' /\ BootState'
  <2>1. \A u \in Terms : term_pcb'[u] = term_pid_array'[u]
                         /\ term_esp'[u] = term_pid_array'[u]
    BY <1>1, Saving
  <2> QED BY <1>1, <2>1 DEF Parked, BootState
<1>16. Held'
  BY <1>2, <1>4, <1>6, <1>7 DEF Held, IInv
<1>17. FrontsFree'
  BY <1>6, <1>7, <1>11, <1>4, <1>5 DEF FrontsFree, IInv
<1>18. OneChild'
  BY <1>11 DEF OneChild, IInv
<1> QED
  BY <1>9, <1>10, <1>12, <1>13, <1>14, <1>15, <1>16, <1>17, <1>18 DEF IInv

\* A tick that resumes a terminal keeps the invariant.
LEMMA ResumeInv ==
  ASSUME IInv, NEW t \in Terms, Resume(t)
  PROVE  IInv'
<1> DEFINE n == term_pid_array[t]
<1>1. /\ t # cur_execute_term /\ term_esp[t] # NULL
      /\ current_id' = n /\ current_pcb_ptr' = term_pcb[t] /\ tss_esp0' = n
      /\ cpu' = term_esp[t]
      /\ term_pid_array' = SavedPids /\ term_pcb' = SavedPcbs
      /\ term_esp' = SavedEsps /\ cur_execute_term' = t
      /\ exec_ret' = Nothing
      /\ UNCHANGED <<procVars, cur_vis_term, excVars>>
      /\ mmu' = SwitchTermVim(SetPage(mmu, n), pid_vidmap_flag[n],
                              cur_vis_term, t)
  BY DEF Resume
<1>2. n \in Pids /\ term_pcb[t] = n /\ term_esp[t] = n /\ Foreground(t) = n
  BY <1>1 DEF Parked, Foreground, IInv, TypeOK
<1>3. Used(n) /\ pcb[n].term = t /\ pcb_arr[n] = n
  BY <1>2 DEF Fronts, Links, IInv
<1> HIDE DEF n
<1>4. /\ \A u \in Terms : Foreground(u)' = Foreground(u)
      /\ \A q \in Pids : Used(q)' <=> Used(q)
      /\ UNCHANGED <<pcb, pcb_arr, id_array, pid_vidmap_flag>>
  <2>1. \A u \in Terms : Foreground(u)' = IF u = t THEN n ELSE SavedPids[u]
    BY <1>1 DEF Foreground
  <2>2. UNCHANGED <<pcb, pcb_arr, id_array, pid_vidmap_flag>>
    BY <1>1 DEF procVars
  <2> QED BY <1>2, <2>1, <2>2, Saving DEF Used
<1>5. mmu' \in Mmu(Pids) /\ mmu'.user = n
  <2>1. mmu \in Mmu(Pids)
    BY DEF IInv, TypeOK
  <2>2. SetPage(mmu, n) \in Mmu(Pids) /\ SetPage(mmu, n).user = n
    BY <1>2, <2>1, UserPage
  <2> QED BY <1>1, <2>2, VideoPages DEF IInv, TypeOK
<1>6. TypeOK'
  BY <1>1, <1>2, <1>4, <1>5, Saving DEF IInv, TypeOK, excVars
<1>7. CpuCoherent'
  BY <1>1, <1>2, <1>3, <1>4, <1>5 DEF CpuCoherent
<1>8. Parked' /\ BootState'
  <2>1. \A u \in Terms : term_pcb'[u] = term_pid_array'[u]
                         /\ term_esp'[u] = term_pid_array'[u]
    BY <1>1, Saving
  <2> QED BY <1>1, <1>2, <2>1 DEF Parked, BootState
<1>9. CallersWait' /\ Links' /\ OneChild'
  BY <1>4 DEF CallersWait, WaitsFor, Links, OneChild, IInv, Used
<1>10. Fronts'
  <2>1. \A u \in Terms : Foreground(u) \in PidOrNull
    BY DEF Foreground, IInv, TypeOK
  <2> QED BY <1>4, <2>1 DEF Fronts, IInv
<1>11. Held'
  BY <1>4 DEF Held, IInv
<1>12. FrontsFree'
  BY <1>4 DEF FrontsFree, IInv
<1> QED BY <1>6, <1>7, <1>8, <1>9, <1>10, <1>11, <1>12 DEF IInv

\* A step that starts and ends no process and moves none keeps the invariant.
LEMMA QuietStep ==
  ASSUME IInv, TypeOK',
         UNCHANGED <<id_array, pcb_arr, curVars, termVars>>,
         mmu'.user = mmu.user,
         \A q \in Pids :
           /\ pcb'[q].parent_process_id = pcb[q].parent_process_id
           /\ pcb'[q].parent_ptr = pcb[q].parent_ptr
           /\ pcb'[q].esp_when_execute = pcb[q].esp_when_execute
           /\ pcb'[q].term = pcb[q].term
           /\ ~Used(q) => pcb'[q] = pcb[q]
  PROVE  IInv'
<1>1. /\ \A u \in Terms : Foreground(u)' = Foreground(u)
      /\ \A u \in Terms : Foreground(u) \in PidOrNull
      /\ \A q \in Pids : Used(q)' <=> Used(q)
      /\ \A q \in Pids : pcb[q].parent_process_id \in PidOrNull
  BY DEF curVars, termVars, Foreground, Used, IInv, TypeOK, Pcb
<1>2. CpuCoherent'
  BY <1>1 DEF CpuCoherent, curVars, termVars, IInv, TypeOK
<1>3. CallersWait'
  BY <1>1 DEF CallersWait, WaitsFor, IInv
<1>4. Links' /\ OneChild'
  BY <1>1 DEF Links, OneChild, IInv
<1>5. Parked' /\ BootState'
  BY <1>1 DEF Parked, BootState, curVars, termVars, IInv
<1>6. Fronts'
  BY <1>1 DEF Fronts, IInv
<1>7. Held'
  BY <1>1 DEF Held, IInv
<1>8. FrontsFree'
  BY <1>1 DEF FrontsFree, IInv
<1> QED BY <1>2, <1>3, <1>4, <1>5, <1>6, <1>7, <1>8 DEF IInv

\* open and close change one flag of the running process.
LEMMA FlagStep ==
  ASSUME IInv, Running, NEW fd \in Fds, NEW b \in {0, 1},
         pcb' = [pcb EXCEPT ![current_pcb_ptr].flags[fd] = b],
         exec_ret' = Nothing,
         UNCHANGED <<id_array, pcb_arr, pid_vidmap_flag, curVars, termVars, mmu,
                     cur_vis_term, excVars>>
  PROVE  IInv'
<1> DEFINE c == current_id
<1>1. c \in Pids /\ current_pcb_ptr = c /\ Used(c) /\ pcb \in [Pids -> Pcb]
  BY CurrentProcess DEF IInv, TypeOK
<1>2. pcb' = [pcb EXCEPT ![c].flags[fd] = b]
  BY <1>1
<1> HIDE DEF c
<1>3. /\ pcb' \in [Pids -> Pcb]
      /\ \A q \in Pids : q # c => pcb'[q] = pcb[q]
      /\ pcb'[c] = [pcb[c] EXCEPT !.flags[fd] = b]
  BY <1>1, <1>2 DEF Pcb
<1>4. /\ pcb'[c].parent_process_id = pcb[c].parent_process_id
      /\ pcb'[c].parent_ptr = pcb[c].parent_ptr
      /\ pcb'[c].esp_when_execute = pcb[c].esp_when_execute
      /\ pcb'[c].term = pcb[c].term
  BY <1>1, <1>3 DEF Pcb
<1>5. TypeOK'
  BY <1>3 DEF IInv, TypeOK, curVars, termVars, excVars
<1> QED BY <1>1, <1>3, <1>4, <1>5, QuietStep

LEMMA VidmapInv ==
  ASSUME IInv, Vidmap
  PROVE  IInv'
<1> DEFINE c == current_id
<1>1. c \in Pids /\ current_pcb_ptr = c /\ Used(c) /\ pcb \in [Pids -> Pcb]
  BY CurrentProcess DEF IInv, TypeOK, Vidmap
<1>2. /\ pcb' = [pcb EXCEPT ![c].vidmap_flag = 1]
      /\ pid_vidmap_flag' = [pid_vidmap_flag EXCEPT ![c] = 1]
      /\ mmu' = SetVideoMem(mmu, cur_vis_term, cur_execute_term)
      /\ exec_ret' = Nothing
      /\ UNCHANGED <<id_array, pcb_arr, curVars, termVars, cur_vis_term, excVars>>
  BY <1>1 DEF Vidmap
<1> HIDE DEF c
<1>3. /\ pcb' \in [Pids -> Pcb]
      /\ \A q \in Pids : q # c => pcb'[q] = pcb[q]
      /\ pcb'[c] = [pcb[c] EXCEPT !.vidmap_flag = 1]
  BY <1>1, <1>2 DEF Pcb
<1>4. /\ pcb'[c].parent_process_id = pcb[c].parent_process_id
      /\ pcb'[c].parent_ptr = pcb[c].parent_ptr
      /\ pcb'[c].esp_when_execute = pcb[c].esp_when_execute
      /\ pcb'[c].term = pcb[c].term
  BY <1>1, <1>3 DEF Pcb
<1>5. mmu' \in Mmu(Pids) /\ mmu'.user = mmu.user
  <2>1. mmu \in Mmu(Pids) /\ cur_vis_term \in Terms /\ cur_execute_term \in Terms
    BY DEF IInv, TypeOK
  <2> QED BY <1>2, <2>1, VideoPages
<1>6. TypeOK'
  BY <1>1, <1>2, <1>3, <1>5 DEF IInv, TypeOK, curVars, termVars, excVars
<1> QED BY <1>1, <1>2, <1>3, <1>4, <1>5, <1>6, QuietStep

\* A putc by the keyboard handler and a switch of the visible terminal only
\* move video pages.
LEMMA VideoSwitch ==
  ASSUME IInv, NEW flag, NEW vis \in Terms,
         mmu' = SwitchTermVim(mmu, flag, vis, cur_execute_term)
           \/ mmu' = SwitchTermVim(SwitchTermVim(mmu, flag, vis, vis), flag,
                                   vis, cur_execute_term)
  PROVE  mmu' \in Mmu(Pids) /\ mmu'.user = mmu.user
<1>1. mmu \in Mmu(Pids) /\ cur_execute_term \in Terms
  BY DEF IInv, TypeOK
<1>2. /\ SwitchTermVim(mmu, flag, vis, vis) \in Mmu(Pids)
      /\ SwitchTermVim(mmu, flag, vis, vis).user = mmu.user
  BY <1>1, VideoPages
<1>3. CASE mmu' = SwitchTermVim(mmu, flag, vis, cur_execute_term)
  BY <1>1, <1>3, VideoPages
<1>4. CASE mmu' = SwitchTermVim(SwitchTermVim(mmu, flag, vis, vis), flag,
                                vis, cur_execute_term)
  BY <1>1, <1>2, <1>4, VideoPages
<1> QED BY <1>3, <1>4

-----------------------------------------------------------------------------
LEMMA InitInv == Init => IInv
<1> SUFFICES ASSUME Init PROVE IInv
  OBVIOUS
<1>1. 0 \in Terms
  BY KernelAssumption DEF Terms
<1>2. TypeOK
  BY <1>1, NoPcbType DEF Init, TypeOK, Mmu, PagingInit, Frames, Video
<1>3. CpuCoherent /\ CallersWait /\ Links /\ Held /\ OneChild
  BY DEF Init, CpuCoherent, CallersWait, Links, Held, OneChild, Used
<1>4. Fronts /\ Parked /\ BootState /\ FrontsFree
  BY DEF Init, Fronts, Parked, BootState, FrontsFree, Used, Foreground
<1> QED BY <1>2, <1>3, <1>4 DEF IInv

LEMMA NextInv == IInv /\ [Next]_vars => IInv'
<1> SUFFICES ASSUME IInv, [Next]_vars PROVE IInv'
  OBVIOUS
<1>1. CASE \E p \in Pids : Execute(p)
  BY <1>1, ExecuteInv
<1>2. CASE \E p \in Pids : ExecuteRejects(p)
  <2>1. PICK p \in Pids : ExecuteRejects(p)
    BY <1>2
  <2>2. id_array' = id_array
    BY <2>1 DEF ExecuteRejects, IsFreeSlot, Release, IInv, TypeOK
  <2>3. /\ exec_ret' = -1
        /\ UNCHANGED <<pcb, pcb_arr, pid_vidmap_flag, curVars, termVars, mmu,
                       cur_vis_term, excVars>>
    BY <2>1 DEF ExecuteRejects
  <2>4. TypeOK'
    BY <2>2, <2>3 DEF IInv, TypeOK, curVars, termVars, excVars
  <2> QED BY <2>2, <2>3, <2>4, QuietStep
<1>3. CASE ExecuteFails
  <2>1. TypeOK'
    BY <1>3 DEF ExecuteFails, IInv, TypeOK, procVars, curVars, termVars, excVars
  <2> QED BY <1>3, <2>1, QuietStep DEF ExecuteFails, procVars
<1>4. CASE Halt
  BY <1>4, HaltInv
<1>5. CASE \E p \in Pids : HaltBaseShell(p)
  BY <1>5, HaltBaseShellInv
<1>6. CASE \E fd \in Fds : Open(fd)
  BY <1>6, FlagStep DEF Open
<1>7. CASE \E fd \in Fds : Close(fd)
  BY <1>7, FlagStep DEF Close
<1>8. CASE Vidmap
  BY <1>8, VidmapInv
<1>9. CASE \E t \in Terms, p \in Pids : StartTerminal(t, p)
  BY <1>9, StartTerminalInv
<1>10. CASE \E t \in Terms : Resume(t)
  BY <1>10, ResumeInv
<1>11. CASE KeyboardEcho
  <2>1. mmu' \in Mmu(Pids) /\ mmu'.user = mmu.user
    BY <1>11, VideoSwitch DEF KeyboardEcho, IInv, TypeOK
  <2>2. TypeOK'
    BY <1>11, <2>1
    DEF KeyboardEcho, IInv, TypeOK, procVars, curVars, termVars, excVars
  <2> QED BY <1>11, <2>1, <2>2, QuietStep DEF KeyboardEcho, procVars
<1>12. CASE \E v \in Terms : TermSwitch(v)
  <2>1. PICK v \in Terms : TermSwitch(v)
    BY <1>12
  <2>2. mmu' \in Mmu(Pids) /\ mmu'.user = mmu.user
    BY <2>1, VideoSwitch DEF TermSwitch
  <2>3. TypeOK'
    BY <2>1, <2>2
    DEF TermSwitch, IInv, TypeOK, procVars, curVars, termVars, excVars
  <2> QED BY <2>1, <2>2, <2>3, QuietStep DEF TermSwitch, procVars
<1>13. CASE Fault
  <2>1. TypeOK'
    BY <1>13 DEF Fault, IInv, TypeOK, procVars, curVars, termVars
  <2> QED BY <1>13, <2>1, QuietStep DEF Fault, procVars
<1>14. CASE Spin \/ UNCHANGED vars
  <2>1. UNCHANGED <<procVars, curVars, termVars, mmu, cur_vis_term, excVars,
                    exec_ret>>
    BY <1>14 DEF Spin, vars
  <2>2. TypeOK'
    BY <2>1 DEF IInv, TypeOK, procVars, curVars, termVars, excVars
  <2> QED BY <2>1, <2>2, QuietStep DEF procVars
<1> QED
  BY <1>1, <1>2, <1>3, <1>4, <1>5, <1>6, <1>7, <1>8, <1>9, <1>10, <1>11,
     <1>12, <1>13, <1>14 DEF Next, Syscall, Tick

\* The inductive invariant holds in every reachable state.
THEOREM Invariance == Spec => []IInv
  BY InitInv, NextInv, PTL DEF Spec

\* Every variable keeps its type; in particular halt never follows a null
\* parent pointer and no index leaves its array.
THEOREM TypeCorrect == Spec => []TypeOK
  BY Invariance, PTL DEF IInv

\* Whatever programs are run, halted and preempted, the process the kernel
\* believes to run is the one on the processor, in the TSS and at 128MB.
THEOREM Coherence == Spec => []CpuCoherent
  BY Invariance, PTL DEF IInv

\* The parent that halt resumes is alive and waiting on its own stack.
THEOREM ParentsWait == Spec => []CallersWait
  BY Invariance, PTL DEF IInv

\* No slot of id_array leaks and none is held twice.
THEOREM SlotAccounting == Spec => []SlotsAccounted
<1>1. IInv => SlotsAccounted
  <2> SUFFICES ASSUME IInv, NEW p \in Pids
               PROVE  /\ Used(p) <=> (\E t \in Terms : Foreground(t) = p)
                                     \/ Children(p) # {}
                      /\ \A t \in Terms : Foreground(t) = p =>
                           /\ Children(p) = {}
                           /\ \A u \in Terms : Foreground(u) = p => u = t
                      /\ \A q, r \in Children(p) : q = r
    BY DEF SlotsAccounted
  <2>1. Used(p) => (\E t \in Terms : Foreground(t) = p) \/ Children(p) # {}
    BY DEF IInv, Held, Children
  <2>2. \A t \in Terms : Foreground(t) = p => Used(p)
    BY DEF IInv, Fronts
  <2>3. Children(p) # {} => Used(p)
    BY DEF IInv, CallersWait, WaitsFor, Children
  <2>4. \A t \in Terms : Foreground(t) = p => Children(p) = {}
    BY DEF IInv, FrontsFree, Children
  <2>5. \A t, u \in Terms : Foreground(t) = p /\ Foreground(u) = p => u = t
    BY DEF IInv, Fronts
  <2>6. \A q, r \in Children(p) : q = r
    BY DEF IInv, OneChild, Children
  <2> QED BY <2>1, <2>2, <2>3, <2>4, <2>5, <2>6
<1> QED BY <1>1, Invariance, PTL

\* A started terminal never ends up without a process.
THEOREM TerminalsKept == Spec => []TerminalsKeepAProcess
<1>1. IInv => TerminalsKeepAProcess
  <2> SUFFICES ASSUME IInv, NEW t \in Terms, term_esp[t] # NULL
               PROVE  /\ Foreground(t) # NULL
                      /\ t # cur_execute_term =>
                           /\ term_esp[t] = term_pid_array[t]
                           /\ term_pcb[t] = term_pid_array[t]
                           /\ pcb[term_pid_array[t]].term = t
    BY DEF TerminalsKeepAProcess
  <2>1. CASE t = cur_execute_term
    BY <2>1 DEF Foreground, BootState, IInv
  <2>2. CASE t # cur_execute_term
    BY <2>2 DEF Foreground, Parked, Fronts, IInv
  <2> QED BY <2>1, <2>2
<1> QED BY <1>1, Invariance, PTL

-----------------------------------------------------------------------------
(* What a step may do                                                      *)

\* halt ends the current process and resumes its parent, and changes no pcb
\* but these two, which belong to the terminal that has the CPU.
LEMMA HaltEffect ==
  ASSUME IInv, Halt
  PROVE  LET par == pcb[current_id].parent_process_id
         IN  /\ par \in Pids /\ pcb[par].term = cur_execute_term
             /\ id_array' = [id_array EXCEPT ![current_id] = 0]
             /\ current_id' = par /\ cpu' = par /\ mmu'.user = par
             /\ \A q \in Pids : q # current_id /\ q # par => pcb'[q] = pcb[q]
             /\ cur_execute_term' = cur_execute_term
             /\ \A t \in Terms : t # cur_execute_term =>
                  term_pid_array'[t] = term_pid_array[t]
<1> DEFINE c == current_id
           par == pcb[c].parent_process_id
<1>1. /\ c \in Pids /\ current_pcb_ptr = c /\ Used(c)
      /\ Foreground(cur_execute_term) = c
      /\ pcb \in [Pids -> Pcb] /\ mmu \in Mmu(Pids)
  BY CurrentProcess DEF Halt, IInv, TypeOK
<1>2. par \in Pids
  BY <1>1 DEF Halt, Pcb
<1>3. /\ pcb_arr[par] = par /\ pcb[c].parent_ptr = par
      /\ pcb[par].esp_when_execute = par
      /\ pcb[par].term = pcb[c].term /\ pcb[c].term = cur_execute_term
  BY <1>1, <1>2, CurrentProcess DEF Halt, CallersWait, WaitsFor, IInv
<1> DEFINE closed == [pcb EXCEPT ![par].flags = CloseFrom2(@)]
           resumed == [closed EXCEPT ![par].esp_when_execute = NULL]
<1>4. /\ id_array' = [id_array EXCEPT ![c] = 0]
      /\ pcb' = [resumed EXCEPT ![c] = NoPcb]
      /\ current_id' = par /\ cpu' = par
      /\ mmu' = SetPage(mmu, par) \/ mmu' = UndoVidmap(SetPage(mmu, par))
      /\ cur_execute_term' = cur_execute_term
      /\ term_pid_array' = [term_pid_array EXCEPT ![cur_execute_term] = par]
  BY <1>1, <1>2, <1>3 DEF Halt, Release
<1> HIDE DEF par
<1>5. \A q \in Pids : q # par => closed[q] = pcb[q]
  BY <1>1, <1>2
<1>6. \A q \in Pids : q # par => resumed[q] = closed[q]
  BY <1>1, <1>2
<1>7. \A q \in Pids : q # c => pcb'[q] = resumed[q]
  BY <1>1, <1>4
<1>8. mmu'.user = par
  <2>1. SetPage(mmu, par) \in Mmu(Pids) /\ SetPage(mmu, par).user = par
    BY <1>1, <1>2, UserPage
  <2>2. UndoVidmap(SetPage(mmu, par)).user = par
    BY <1>2, <2>1, UserPage
  <2> QED BY <1>4, <2>1, <2>2
<1>9. \A t \in Terms : t # cur_execute_term =>
        term_pid_array'[t] = term_pid_array[t]
  BY <1>4 DEF IInv, TypeOK
<1> HIDE DEF closed, resumed
<1> QED BY <1>2, <1>3, <1>4, <1>5, <1>6, <1>7, <1>8, <1>9 DEF par

\* No other step than halt empties the slot of a process that has a parent.
LEMMA OnlyHaltEnds ==
  ASSUME IInv, [Next]_vars, ~Halt, NEW p \in Pids, Used(p),
         pcb[p].parent_process_id # NULL
  PROVE  id_array'[p] = 1
<1>1. CASE \E q \in Pids : Execute(q)
  BY <1>1 DEF Execute, EnterProgram, Used, IInv, TypeOK
<1>2. CASE \E q \in Pids : ExecuteRejects(q)
  BY <1>2 DEF ExecuteRejects, IsFreeSlot, Release, Used, IInv, TypeOK
<1>3. CASE \E q \in Pids : HaltBaseShell(q)
  <2>1. p # current_id
    BY <1>3, CurrentProcess DEF HaltBaseShell
  <2> QED BY <1>3, <2>1 DEF HaltBaseShell, EnterProgram, Release, Used, IInv, TypeOK
<1>4. CASE \E t \in Terms, q \in Pids : StartTerminal(t, q)
  BY <1>4 DEF StartTerminal, EnterProgram, Used, IInv, TypeOK
<1>5. CASE UNCHANGED id_array
  BY <1>5 DEF Used
<1> QED
  BY <1>1, <1>2, <1>3, <1>4, <1>5
  DEF Next, Syscall, Tick, ExecuteFails, Open, Close, Vidmap, Resume,
      KeyboardEcho, TermSwitch, Fault, Spin, vars, procVars

\* When a process that execute started ends, the one that continues is the one
\* that called execute, on its own kernel stack and in its own page.
THEOREM ReturnsToCaller == Spec => ExecuteReturnsToCaller
<1>1. ASSUME IInv, [Next]_vars
      PROVE  [\A p \in Pids :
                Used(p) /\ id_array'[p] = 0 /\ pcb[p].parent_process_id # NULL =>
                  /\ p = current_id
                  /\ current_id' = pcb[p].parent_process_id
                  /\ cpu' = current_id' /\ mmu'.user = current_id']_vars
  <2> SUFFICES ASSUME NEW p \in Pids, Used(p), id_array'[p] = 0,
                      pcb[p].parent_process_id # NULL
               PROVE  /\ p = current_id
                      /\ current_id' = pcb[p].parent_process_id
                      /\ cpu' = current_id' /\ mmu'.user = current_id'
    OBVIOUS
  <2>1. Halt
    BY <1>1, OnlyHaltEnds
  <2>2. p = current_id
    BY <1>1, <2>1, HaltEffect DEF Used, IInv, TypeOK
  <2> QED BY <1>1, <2>1, <2>2, HaltEffect
<1> QED BY <1>1, Invariance, PTL DEF Spec, ExecuteReturnsToCaller

\* A step that changes two slots at most, each free or of the terminal that
\* has the CPU, and saves no other terminal's process.
LEMMA OwnTerminal ==
  ASSUME NEW a, NEW b,
         ~Used(a) \/ pcb[a].term = cur_execute_term,
         ~Used(b) \/ pcb[b].term = cur_execute_term,
         \A q \in Pids : q # a /\ q # b =>
           id_array'[q] = id_array[q] /\ pcb'[q] = pcb[q],
         \A t \in Terms : t # cur_execute_term /\ Foreground(t) # NULL =>
           Foreground(t)' = Foreground(t)
  PROVE  /\ \A p \in Pids : Used(p) /\ pcb[p].term # cur_execute_term =>
              id_array'[p] = 1 /\ pcb'[p] = pcb[p]
         /\ \A t \in Terms : t # cur_execute_term /\ Foreground(t) # NULL =>
              Foreground(t)' = Foreground(t)
  BY DEF Used

\* Programs of one terminal never disturb those of another.
THEOREM TerminalsDoNotDisturb == Spec => TerminalsIndependent
<1>1. ASSUME IInv, [Next]_vars
      PROVE  [/\ \A p \in Pids : Used(p) /\ pcb[p].term # cur_execute_term =>
                   id_array'[p] = 1 /\ pcb'[p] = pcb[p]
              /\ \A t \in Terms : t # cur_execute_term /\ Foreground(t) # NULL =>
                   Foreground(t)' = Foreground(t)]_vars
  <2> DEFINE c == current_id
  <2>0. /\ Running => c \in Pids /\ current_pcb_ptr = c
                      /\ pcb_arr[c] = c /\ pcb[c].term = cur_execute_term
        /\ pcb \in [Pids -> Pcb] /\ id_array \in [Pids -> {0, 1}]
    BY <1>1, CurrentProcess DEF IInv, TypeOK
  <2>1. CASE \E p \in Pids : Execute(p)
    <3>1. PICK p \in Pids : Execute(p)
      BY <2>1
    <3>2. ~Used(p) /\ Running
      BY <3>1 DEF Execute, IsFreeSlot, Used
    <3>3. \A q \in Pids : q # p /\ q # c =>
            id_array'[q] = id_array[q] /\ pcb'[q] = pcb[q]
      BY <2>0, <3>1, <3>2 DEF Execute, EnterProgram, SaveFrame
    <3>4. \A t \in Terms : t # cur_execute_term => Foreground(t)' = Foreground(t)
      BY <3>1 DEF Execute, Foreground, termVars
    <3> QED BY <1>1, <2>0, <3>2, <3>3, <3>4, OwnTerminal
  <2>2. CASE Halt
    <3> DEFINE par == pcb[c].parent_process_id
    <3>1. /\ pcb[par].term = cur_execute_term
          /\ \A q \in Pids : q # par /\ q # c =>
            id_array'[q] = id_array[q] /\ pcb'[q] = pcb[q]
      BY <1>1, <2>0, <2>2, HaltEffect
    <3>2. \A t \in Terms : t # cur_execute_term => Foreground(t)' = Foreground(t)
      BY <1>1, <2>2, HaltEffect DEF Foreground
    <3>3. Running
      BY <2>2 DEF Halt
    <3> QED BY <1>1, <2>0, <3>1, <3>2, <3>3, OwnTerminal
  <2>3. CASE \E p \in Pids : HaltBaseShell(p)
    <3>1. PICK p \in Pids : HaltBaseShell(p)
      BY <2>3
    <3>2. (~Used(p) \/ p = c) /\ Running
      BY <2>0, <3>1 DEF HaltBaseShell, IsFreeSlot, Release, Used
    <3>3. \A q \in Pids : q # p /\ q # c =>
            id_array'[q] = id_array[q] /\ pcb'[q] = pcb[q]
      BY <2>0, <3>1, <3>2 DEF HaltBaseShell, EnterProgram, SaveFrame, Release
    <3>4. \A t \in Terms : t # cur_execute_term => Foreground(t)' = Foreground(t)
      BY <3>1 DEF HaltBaseShell, Foreground, termVars
    <3> QED BY <1>1, <2>0, <3>2, <3>3, <3>4, OwnTerminal
  <2>4. CASE (\E fd \in Fds : Open(fd) \/ Close(fd)) \/ Vidmap
    <3>1. Running /\ id_array' = id_array
          /\ \A t \in Terms : Foreground(t)' = Foreground(t)
      BY <2>4 DEF Open, Close, Vidmap, Foreground, curVars, termVars
    <3>2. \A q \in Pids : q # c =>
            pcb'[q] = pcb[q]
      BY <2>0, <2>4, <3>1 DEF Open, Close, Vidmap
    <3> QED BY <1>1, <2>0, <3>1, <3>2, OwnTerminal
  <2>5. CASE \E t \in Terms, p \in Pids : StartTerminal(t, p)
    <3>1. PICK t \in Terms, p \in Pids : StartTerminal(t, p)
      BY <2>5
    <3>2. ~Used(p) /\ Foreground(t) = NULL
      BY <3>1 DEF StartTerminal, IsFreeSlot, Used
    <3>3. \A q \in Pids : q # p =>
            id_array'[q] = id_array[q] /\ pcb'[q] = pcb[q]
      BY <2>0, <3>1 DEF StartTerminal, EnterProgram, SaveFrame
    <3>4. \A u \in Terms : Foreground(u)' = IF u = t THEN p ELSE SavedPids[u]
      BY <3>1 DEF StartTerminal, EnterProgram, Foreground
    <3>5. \A u \in Terms : Foreground(u) # NULL => Foreground(u)' = Foreground(u)
      BY <1>1, <3>2, <3>4, Saving
    <3> QED BY <1>1, <3>2, <3>3, <3>5, OwnTerminal
  <2>6. CASE \E t \in Terms : Resume(t)
    <3>1. PICK t \in Terms : Resume(t)
      BY <2>6
    <3>2. UNCHANGED <<id_array, pcb>> /\ Foreground(t) = term_pid_array[t]
      BY <3>1 DEF Resume, procVars, Foreground
    <3>3. \A u \in Terms : Foreground(u)' =
                             IF u = t THEN term_pid_array[t] ELSE SavedPids[u]
      BY <3>1 DEF Resume, Foreground
    <3>4. \A u \in Terms : Foreground(u)' = Foreground(u)
      BY <1>1, <3>2, <3>3, Saving
    <3> QED BY <3>2, <3>4 DEF Used
  <2>7. CASE UNCHANGED <<pcb, curVars, termVars>> /\ id_array' = id_array
    BY <2>7 DEF Foreground, curVars, termVars, Used
  <2>8. CASE \E p \in Pids : ExecuteRejects(p)
    <3>1. UNCHANGED <<pcb, curVars, termVars>> /\ id_array' = id_array
      BY <2>0, <2>8 DEF ExecuteRejects, IsFreeSlot, Release
    <3> QED BY <2>7, <3>1
  <2> QED
    BY <1>1, <2>1, <2>2, <2>3, <2>4, <2>5, <2>6, <2>7, <2>8
    DEF Next, Syscall, Tick, ExecuteFails, KeyboardEcho, TermSwitch, Fault,
        Spin, vars, procVars
<1> QED BY <1>1, Invariance, PTL DEF Spec, TerminalsIndependent
-----------------------------------------------------------------------------
(* The video pages, the two copies of the vidmap flag and the console      *)
(* descriptors                                                             *)

\* A first shell never called vidmap: halt of one leaves the flag of its slot.
ShellsNoVidmap ==
  \A p \in Pids : pcb[p].parent_process_id = NULL => pcb[p].vidmap_flag = 0

PcbInv == VidmapFlagsAgree /\ ConsoleOpen /\ ShellsNoVidmap

\* Before the first shell no switch of the screen can turn the vidmap page on,
\* whatever pid_vidmap_flag[-1] reads.
BootVideo == current_id = NULL => ~mmu.armed /\ ~mmu.vidPd

VideoInv == VideoFrames /\ BootVideo

LEMMA NewPcbFields ==
  ASSUME NEW parent, NEW ptr, NEW t
  PROVE  /\ NewPcb(parent, ptr, t).vidmap_flag = 0
         /\ NewPcb(parent, ptr, t).parent_process_id = parent
         /\ NewPcb(parent, ptr, t).flags[0] = 1
         /\ NewPcb(parent, ptr, t).flags[1] = 1
<1>1. 0 \in Fds /\ 1 \in Fds
  BY KernelAssumption DEF Fds
<1>2. InitialFlags[0] = 1 /\ InitialFlags[1] = 1
  BY <1>1 DEF InitialFlags
<1> QED BY <1>2 DEF NewPcb

LEMMA NoPcbFields == NoPcb.vidmap_flag = 0
  BY DEF NoPcb

\* A free slot holds no flag.
LEMMA FreeSlot ==
  ASSUME IInv, PcbInv, NEW p \in Pids, ~Used(p)
  PROVE  pcb[p] = NoPcb /\ pid_vidmap_flag[p] = 0
  BY NoPcbFields DEF IInv, Links, PcbInv, VidmapFlagsAgree

-----------------------------------------------------------------------------
(* The copies of the flag and the console descriptors                      *)

LEMMA ExecutePcb ==
  ASSUME IInv, PcbInv, NEW p \in Pids, Execute(p)
  PROVE  PcbInv'
<1> DEFINE c == current_id
           new == NewPcb(c, c, cur_execute_term)
<1>1. c \in Pids /\ Used(c) /\ cpu = c /\ pcb_arr[c] = c /\ pcb \in [Pids -> Pcb]
  BY CurrentProcess DEF Execute, IInv, TypeOK
<1>2. ~Used(p) /\ p # c
  BY <1>1 DEF Execute, IsFreeSlot, Used
<1>3. /\ id_array' = [id_array EXCEPT ![p] = 1]
      /\ pcb' = [[pcb EXCEPT ![p] = new] EXCEPT ![c].esp_when_execute = c]
      /\ pid_vidmap_flag' = pid_vidmap_flag
  BY <1>1 DEF Execute, EnterProgram, SaveFrame
<1>4. pid_vidmap_flag[p] = 0
  BY <1>2, FreeSlot
<1>5. new \in Pcb /\ new.vidmap_flag = 0 /\ new.parent_process_id = c
      /\ new.flags[0] = 1 /\ new.flags[1] = 1
  BY <1>1, NewPcbType, NewPcbFields DEF IInv, TypeOK
<1> HIDE DEF new, c
<1>6. /\ pcb'[p] = new
      /\ pcb'[c] = [pcb[c] EXCEPT !.esp_when_execute = c]
      /\ \A q \in Pids : q # p /\ q # c => pcb'[q] = pcb[q]
  BY <1>1, <1>2, <1>3, <1>5
<1>7. /\ pcb'[c].vidmap_flag = pcb[c].vidmap_flag
      /\ pcb'[c].flags = pcb[c].flags
      /\ pcb'[c].parent_process_id = pcb[c].parent_process_id
  BY <1>1, <1>6 DEF Pcb
<1>8. \A q \in Pids : q # p =>
        /\ pcb'[q].vidmap_flag = pcb[q].vidmap_flag
        /\ pcb'[q].flags = pcb[q].flags
        /\ pcb'[q].parent_process_id = pcb[q].parent_process_id
        /\ Used(q)' => Used(q)
  <2>1. \A q \in Pids : q # p => (Used(q)' <=> Used(q))
    BY <1>3 DEF Used, IInv, TypeOK
  <2> QED BY <1>6, <1>7, <2>1
<1>9. VidmapFlagsAgree'
  BY <1>3, <1>4, <1>5, <1>6, <1>8 DEF PcbInv, VidmapFlagsAgree
<1>10. ConsoleOpen'
  BY <1>5, <1>6, <1>8 DEF PcbInv, ConsoleOpen
<1>11. ShellsNoVidmap'
  BY <1>1, <1>5, <1>6, <1>8 DEF PcbInv, ShellsNoVidmap
<1> QED BY <1>9, <1>10, <1>11 DEF PcbInv

\* halt takes the flag of its slot back, and closes nothing below 2.
LEMMA HaltPcb ==
  ASSUME IInv, PcbInv, Halt
  PROVE  PcbInv'
<1> DEFINE c == current_id
           par == pcb[c].parent_process_id
<1>1. /\ c \in Pids /\ Used(c) /\ current_pcb_ptr = c
      /\ Foreground(cur_execute_term) = c /\ pcb \in [Pids -> Pcb]
  BY CurrentProcess DEF Halt, IInv, TypeOK
<1>2. par \in Pids
  BY <1>1 DEF Halt, Pcb
<1>3. Used(par) /\ pcb_arr[par] = par /\ pcb[c].parent_ptr = par
  BY <1>1, <1>2 DEF CallersWait, WaitsFor, IInv
<1>4. par # c
  BY <1>1, <1>2 DEF FrontsFree, IInv, TypeOK
<1> DEFINE closed == [pcb EXCEPT ![par].flags = CloseFrom2(@)]
           resumed == [closed EXCEPT ![par].esp_when_execute = NULL]
<1>5. /\ id_array' = [id_array EXCEPT ![c] = 0]
      /\ pcb' = [resumed EXCEPT ![c] = NoPcb]
      /\ pid_vidmap_flag' = DropVidmapFlag(c, pcb[c].vidmap_flag)
  BY <1>1, <1>2, <1>3 DEF Halt, Release
<1> HIDE DEF c, par
<1>6. /\ \A q \in Pids : q # par => closed[q] = pcb[q]
      /\ closed[par] = [pcb[par] EXCEPT !.flags = CloseFrom2(pcb[par].flags)]
  BY <1>1, <1>2 DEF Pcb
<1>7. /\ \A q \in Pids : q # par => resumed[q] = closed[q]
      /\ resumed[par] = [closed[par] EXCEPT !.esp_when_execute = NULL]
  <2> HIDE DEF closed
  <2>1. DOMAIN closed = Pids
    BY <1>1 DEF closed
  <2> QED BY <1>2, <2>1
<1>8. /\ pcb'[c] = NoPcb
      /\ \A q \in Pids : q # c => pcb'[q] = resumed[q]
  <2> HIDE DEF resumed
  <2>1. DOMAIN resumed = Pids
    BY <1>1 DEF resumed, closed
  <2> QED BY <1>1, <1>5, <2>1
<1>9. /\ resumed[par].vidmap_flag = pcb[par].vidmap_flag
      /\ resumed[par].parent_process_id = pcb[par].parent_process_id
      /\ resumed[par].flags = CloseFrom2(pcb[par].flags)
  <2> HIDE DEF closed, resumed
  <2>1. pcb[par] \in Pcb
    BY <1>1, <1>2
  <2> QED BY <1>6, <1>7, <2>1 DEF Pcb
<1> HIDE DEF closed, resumed
<1>10. /\ \A q \in Pids : q # c =>
            /\ pcb'[q].vidmap_flag = pcb[q].vidmap_flag
            /\ pcb'[q].parent_process_id = pcb[q].parent_process_id
            /\ q # par => pcb'[q].flags = pcb[q].flags
       /\ pcb'[par].flags = CloseFrom2(pcb[par].flags)
  BY <1>2, <1>4, <1>6, <1>7, <1>8, <1>9
<1>11. VidmapFlagsAgree'
  <2>1. /\ \A q \in Pids : q # c => pid_vidmap_flag'[q] = pid_vidmap_flag[q]
        /\ pid_vidmap_flag'[c] = 0
    <3>1. pcb[c].vidmap_flag \in {0, 1} /\ pid_vidmap_flag \in [Pids -> {0, 1}]
      BY <1>1 DEF Pcb, IInv, TypeOK
    <3>2. pid_vidmap_flag[c] = pcb[c].vidmap_flag
      BY <1>1 DEF PcbInv, VidmapFlagsAgree
    <3> QED BY <1>1, <1>5, <3>1, <3>2 DEF DropVidmapFlag
  <2> QED BY <1>8, <1>10, <2>1, NoPcbFields DEF PcbInv, VidmapFlagsAgree
<1>12. ConsoleOpen'
  <2>1. \A q \in Pids : Used(q)' => Used(q) /\ q # c
    BY <1>1, <1>5 DEF Used, IInv, TypeOK
  <2>2. /\ CloseFrom2(pcb[par].flags)[0] = pcb[par].flags[0]
        /\ CloseFrom2(pcb[par].flags)[1] = pcb[par].flags[1]
    BY KernelAssumption DEF CloseFrom2, Fds
  <2>3. pcb[par].flags[0] = 1 /\ pcb[par].flags[1] = 1
    BY <1>2, <1>3 DEF PcbInv, ConsoleOpen, par
  <2> QED BY <1>10, <2>1, <2>2, <2>3 DEF PcbInv, ConsoleOpen
<1>13. ShellsNoVidmap'
  BY <1>8, <1>10, NoPcbFields DEF PcbInv, ShellsNoVidmap
<1> QED BY <1>11, <1>12, <1>13 DEF PcbInv

\* A shell that is renewed leaves no flag: it could not set one.
LEMMA HaltBaseShellPcb ==
  ASSUME IInv, PcbInv, NEW p \in Pids, HaltBaseShell(p)
  PROVE  PcbInv'
<1> DEFINE c == current_id
           new == NewPcb(NULL, NULL, cur_execute_term)
<1>1. /\ c \in Pids /\ current_pcb_ptr = c /\ pcb \in [Pids -> Pcb]
      /\ pcb[c].parent_process_id = NULL
  BY CurrentProcess DEF HaltBaseShell, IInv, TypeOK
<1>2. /\ id_array' = [[id_array EXCEPT ![c] = 0] EXCEPT ![p] = 1]
      /\ pcb' = [[pcb EXCEPT ![c] = NoPcb] EXCEPT ![p] = new]
      /\ pid_vidmap_flag' = pid_vidmap_flag
  BY <1>1 DEF HaltBaseShell, EnterProgram, Release, SaveFrame
<1>3. p = c \/ ~Used(p)
  BY <1>1 DEF HaltBaseShell, IsFreeSlot, Release, Used, IInv, TypeOK
<1>4. pid_vidmap_flag[p] = 0 /\ pid_vidmap_flag[c] = 0
  BY <1>1, <1>3, FreeSlot DEF PcbInv, VidmapFlagsAgree, ShellsNoVidmap
<1>5. /\ new.vidmap_flag = 0 /\ new.flags[0] = 1 /\ new.flags[1] = 1
  BY NewPcbFields
<1> HIDE DEF new, c
<1>6. /\ pcb'[p] = new
      /\ c # p => pcb'[c] = NoPcb
      /\ \A q \in Pids : q # c /\ q # p => pcb'[q] = pcb[q]
  BY <1>1, <1>2
<1>7. \A q \in Pids : Used(q)' => q = p \/ (Used(q) /\ q # c)
  BY <1>1, <1>2 DEF Used, IInv, TypeOK
<1>8. VidmapFlagsAgree' /\ ShellsNoVidmap'
  <2>1. ASSUME NEW q \in Pids PROVE pcb'[q].vidmap_flag = 0 \/ pcb'[q] = pcb[q]
    BY <1>5, <1>6, NoPcbFields
  <2>2. pcb'[p].vidmap_flag = 0 /\ (c # p => pcb'[c].vidmap_flag = 0)
    BY <1>5, <1>6, NoPcbFields
  <2>3. ShellsNoVidmap'
    BY <2>1 DEF PcbInv, ShellsNoVidmap
  <2>4. VidmapFlagsAgree'
    BY <1>2, <1>4, <1>6, <2>2 DEF PcbInv, VidmapFlagsAgree
  <2> QED BY <2>3, <2>4
<1>9. ConsoleOpen'
  BY <1>5, <1>6, <1>7 DEF PcbInv, ConsoleOpen
<1> QED BY <1>8, <1>9 DEF PcbInv

\* open and close touch a descriptor from 2 on.
LEMMA FlagPcb ==
  ASSUME IInv, PcbInv, Running, NEW fd \in Fds, fd >= 2, NEW b,
         pcb' = [pcb EXCEPT ![current_pcb_ptr].flags[fd] = b],
         UNCHANGED <<id_array, pid_vidmap_flag>>
  PROVE  PcbInv'
<1> DEFINE c == current_id
<1>1. c \in Pids /\ current_pcb_ptr = c /\ pcb \in [Pids -> Pcb]
  BY CurrentProcess DEF IInv, TypeOK
<1>2. pcb' = [pcb EXCEPT ![c].flags[fd] = b]
  BY <1>1
<1> HIDE DEF c
<1>3. /\ \A q \in Pids : q # c => pcb'[q] = pcb[q]
      /\ pcb'[c] = [pcb[c] EXCEPT !.flags[fd] = b]
  BY <1>1, <1>2
<1>4. pcb[c] \in Pcb
  BY <1>1
<1>5. /\ pcb'[c].vidmap_flag = pcb[c].vidmap_flag
      /\ pcb'[c].parent_process_id = pcb[c].parent_process_id
      /\ pcb'[c].flags[0] = pcb[c].flags[0]
      /\ pcb'[c].flags[1] = pcb[c].flags[1]
  <2>1. 0 \in Fds /\ 1 \in Fds /\ fd # 0 /\ fd # 1
    BY KernelAssumption DEF Fds
  <2> QED BY <1>3, <1>4, <2>1 DEF Pcb
<1> QED BY <1>3, <1>5
        DEF PcbInv, VidmapFlagsAgree, ConsoleOpen, ShellsNoVidmap, Used

\* vidmap sets both copies, and is called by programs a shell started.
LEMMA VidmapPcb ==
  ASSUME IInv, PcbInv, Vidmap
  PROVE  PcbInv'
<1> DEFINE c == current_id
<1>1. /\ c \in Pids /\ current_pcb_ptr = c /\ pcb \in [Pids -> Pcb]
      /\ pcb[c].parent_process_id # NULL
  BY CurrentProcess DEF IInv, TypeOK, Vidmap
<1>2. /\ pcb' = [pcb EXCEPT ![c].vidmap_flag = 1]
      /\ pid_vidmap_flag' = [pid_vidmap_flag EXCEPT ![c] = 1]
      /\ id_array' = id_array
  BY <1>1 DEF Vidmap
<1> HIDE DEF c
<1>3. /\ \A q \in Pids : q # c => pcb'[q] = pcb[q]
      /\ pcb'[c].vidmap_flag = 1 /\ pcb'[c].flags = pcb[c].flags
      /\ pcb'[c].parent_process_id = pcb[c].parent_process_id
  BY <1>1, <1>2 DEF Pcb
<1>4. /\ \A q \in Pids : q # c => pid_vidmap_flag'[q] = pid_vidmap_flag[q]
      /\ pid_vidmap_flag'[c] = 1
  BY <1>1, <1>2 DEF IInv, TypeOK
<1> QED BY <1>1, <1>2, <1>3, <1>4
        DEF PcbInv, VidmapFlagsAgree, ConsoleOpen, ShellsNoVidmap, Used

LEMMA StartTerminalPcb ==
  ASSUME IInv, PcbInv, NEW t \in Terms, NEW p \in Pids, StartTerminal(t, p)
  PROVE  PcbInv'
<1> DEFINE new == NewPcb(NULL, NULL, t)
<1>1. /\ id_array' = [id_array EXCEPT ![p] = 1]
      /\ pcb' = [pcb EXCEPT ![p] = new]
      /\ pid_vidmap_flag' = pid_vidmap_flag
  BY DEF StartTerminal, EnterProgram, SaveFrame
<1>2. pid_vidmap_flag[p] = 0
  BY FreeSlot DEF StartTerminal, IsFreeSlot, Used
<1>3. new.vidmap_flag = 0 /\ new.flags[0] = 1 /\ new.flags[1] = 1
  BY NewPcbFields
<1> HIDE DEF new
<1>4. pcb'[p] = new /\ \A q \in Pids : q # p => pcb'[q] = pcb[q]
  BY <1>1 DEF IInv, TypeOK
<1>5. \A q \in Pids : Used(q)' => Used(q) \/ q = p
  BY <1>1 DEF Used, IInv, TypeOK
<1> QED BY <1>1, <1>2, <1>3, <1>4, <1>5
        DEF PcbInv, VidmapFlagsAgree, ConsoleOpen, ShellsNoVidmap

LEMMA QuietPcb ==
  ASSUME PcbInv, UNCHANGED procVars
  PROVE  PcbInv'
  BY DEF PcbInv, VidmapFlagsAgree, ConsoleOpen, ShellsNoVidmap, Used, procVars

LEMMA NextPcb == IInv /\ PcbInv /\ [Next]_vars => PcbInv'
<1> SUFFICES ASSUME IInv, PcbInv, [Next]_vars PROVE PcbInv'
  OBVIOUS
<1>1. CASE \E p \in Pids : Execute(p)
  BY <1>1, ExecutePcb
<1>2. CASE \E p \in Pids : ExecuteRejects(p)
  <2>1. id_array' = id_array /\ UNCHANGED <<pcb, pcb_arr, pid_vidmap_flag>>
    BY <1>2 DEF ExecuteRejects, IsFreeSlot, Release, IInv, TypeOK
  <2> QED BY <2>1, QuietPcb DEF procVars
<1>3. CASE ExecuteFails
  BY <1>3, QuietPcb DEF ExecuteFails
<1>4. CASE Halt
  BY <1>4, HaltPcb
<1>5. CASE \E p \in Pids : HaltBaseShell(p)
  BY <1>5, HaltBaseShellPcb
<1>6. CASE \E fd \in Fds : Open(fd)
  BY <1>6, FlagPcb DEF Open, IsFreeFd
<1>7. CASE \E fd \in Fds : Close(fd)
  BY <1>7, FlagPcb DEF Close
<1>8. CASE Vidmap
  BY <1>8, VidmapPcb
<1>9. CASE \E t \in Terms, p \in Pids : StartTerminal(t, p)
  BY <1>9, StartTerminalPcb
<1>10. CASE \E t \in Terms : Resume(t)
  BY <1>10, QuietPcb DEF Resume
<1>11. CASE KeyboardEcho
  BY <1>11, QuietPcb DEF KeyboardEcho
<1>12. CASE \E v \in Terms : TermSwitch(v)
  BY <1>12, QuietPcb DEF TermSwitch
<1>13. CASE Fault
  BY <1>13, QuietPcb DEF Fault
<1>14. CASE Spin \/ UNCHANGED vars
  BY <1>14, QuietPcb DEF Spin, vars
<1> QED
  BY <1>1, <1>2, <1>3, <1>4, <1>5, <1>6, <1>7, <1>8, <1>9, <1>10, <1>11,
     <1>12, <1>13, <1>14 DEF Next, Syscall, Tick

-----------------------------------------------------------------------------
(* The video pages                                                         *)

\* switch_term_vim with a flag of 0 or 1 leaves the pages on the frame of the
\* executing terminal, whatever they were before.
LEMMA SwitchedFrames ==
  ASSUME NEW m \in Mmu(Pids), NEW flag \in {0, 1},
         NEW vis \in Terms, NEW exe \in Terms
  PROVE  /\ SwitchTermVim(m, flag, vis, exe).vim = Frame(vis, exe)
         /\ VidmapReachable(SwitchTermVim(m, flag, vis, exe)) =>
              SwitchTermVim(m, flag, vis, exe).vidBase = Frame(vis, exe)
  BY DEF SwitchTermVim, VidmapReachable, Mmu

\* Until set_video_mem has run, no flag makes the directory entry present.
LEMMA SwitchedUnarmed ==
  ASSUME NEW m \in Mmu(Pids), ~m.armed, ~m.vidPd,
         NEW flag, NEW vis \in Terms, NEW exe \in Terms
  PROVE  /\ ~SwitchTermVim(m, flag, vis, exe).armed
         /\ ~SwitchTermVim(m, flag, vis, exe).vidPd
         /\ SwitchTermVim(m, flag, vis, exe).vim = Frame(vis, exe)
  BY DEF SwitchTermVim, Mmu

\* set_page moves no video page, and undo_vidmap only hides one.
LEMMA PageKeepsVideo ==
  ASSUME NEW m \in Mmu(Pids), NEW p
  PROVE  /\ SetPage(m, p).vim = m.vim /\ SetPage(m, p).vidBase = m.vidBase
         /\ VidmapReachable(SetPage(m, p)) <=> VidmapReachable(m)
         /\ SetPage(m, p).vidPd = m.vidPd /\ SetPage(m, p).armed = m.armed
         /\ UndoVidmap(SetPage(m, p)).vim = m.vim
         /\ ~VidmapReachable(UndoVidmap(SetPage(m, p)))
  BY DEF SetPage, UndoVidmap, VidmapReachable, Mmu

\* A system call that maps another program moves no video page.
LEMMA PageVideo ==
  ASSUME IInv, VideoInv, Running, NEW p \in Pids,
         mmu' = SetPage(mmu, p) \/ mmu' = UndoVidmap(SetPage(mmu, p)),
         current_id' \in Pids, UNCHANGED <<cur_vis_term, cur_execute_term>>
  PROVE  VideoInv'
<1>1. mmu \in Mmu(Pids)
  BY DEF IInv, TypeOK
<1>2. /\ mmu.vim = Frame(cur_vis_term, cur_execute_term)
      /\ VidmapReachable(mmu) => mmu.vidBase = Frame(cur_vis_term, cur_execute_term)
  BY DEF VideoInv, VideoFrames, Running
<1>3. /\ mmu'.vim = mmu.vim
      /\ VidmapReachable(mmu)' => VidmapReachable(mmu) /\ mmu'.vidBase = mmu.vidBase
  <2>1. CASE mmu' = SetPage(mmu, p)
    BY <1>1, <2>1, PageKeepsVideo
  <2>2. CASE mmu' = UndoVidmap(SetPage(mmu, p))
    BY <1>1, <2>2, PageKeepsVideo
  <2> QED BY <2>1, <2>2
<1> QED BY <1>2, <1>3 DEF VideoInv, VideoFrames, BootVideo

\* A switch of the screen while a process runs: its flag is 0 or 1.
LEMMA SwitchVideo ==
  ASSUME IInv, NEW m \in Mmu(Pids), NEW flag \in {0, 1},
         cur_vis_term' \in Terms, cur_execute_term' \in Terms,
         mmu' = SwitchTermVim(m, flag, cur_vis_term', cur_execute_term'),
         current_id' # NULL
  PROVE  VideoInv'
  BY SwitchedFrames DEF VideoInv, VideoFrames, BootVideo

\* A switch of the screen before there is a process.
LEMMA BootSwitchVideo ==
  ASSUME NEW m \in Mmu(Pids), ~m.armed, ~m.vidPd, NEW flag,
         cur_vis_term' \in Terms, cur_execute_term' \in Terms,
         mmu' = SwitchTermVim(m, flag, cur_vis_term', cur_execute_term')
  PROVE  VideoInv'
  BY SwitchedUnarmed DEF VideoInv, VideoFrames, BootVideo, VidmapReachable

\* vidmap shows the program the frame the kernel writes to.
LEMMA VidmapVideo ==
  ASSUME IInv, VideoInv, Vidmap
  PROVE  VideoInv'
<1>1. /\ mmu' = SetVideoMem(mmu, cur_vis_term, cur_execute_term)
      /\ UNCHANGED <<current_id, cur_vis_term, cur_execute_term>>
      /\ current_id # NULL /\ mmu \in Mmu(Pids)
  BY DEF Vidmap, Running, curVars, termVars, IInv, TypeOK
<1>2. mmu'.vim = mmu.vim /\ mmu'.vidBase = Frame(cur_vis_term, cur_execute_term)
  BY <1>1 DEF SetVideoMem, Mmu
<1> QED BY <1>1, <1>2 DEF VideoInv, VideoFrames, BootVideo

LEMMA QuietVideo ==
  ASSUME VideoInv, UNCHANGED <<mmu, current_id, cur_vis_term, cur_execute_term>>
  PROVE  VideoInv'
  BY DEF VideoInv, VideoFrames, BootVideo, VidmapReachable

LEMMA StartTerminalVideo ==
  ASSUME IInv, VideoInv, NEW t \in Terms, NEW p \in Pids, StartTerminal(t, p)
  PROVE  VideoInv'
<1>1. PICK flag \in VidmapFlagRead :
        mmu' = SetPage(SwitchTermVim(mmu, flag, cur_vis_term, t), p)
  BY DEF StartTerminal
<1>2. /\ cur_vis_term' = cur_vis_term /\ cur_execute_term' = t
      /\ current_id' = p /\ mmu \in Mmu(Pids) /\ cur_vis_term \in Terms
  BY DEF StartTerminal, EnterProgram, IInv, TypeOK
<1> DEFINE m == SwitchTermVim(mmu, flag, cur_vis_term, t)
<1>3. /\ m.vim = Frame(cur_vis_term, t)
      /\ VidmapReachable(m) => m.vidBase = Frame(cur_vis_term, t)
  <2>1. CASE current_id = NULL
    BY <1>2, <2>1, SwitchedUnarmed DEF VideoInv, BootVideo, VidmapReachable
  <2>2. CASE current_id # NULL
    <3>1. flag \in {0, 1}
      BY <2>2 DEF VidmapFlagRead, IInv, TypeOK
    <3> QED BY <1>2, <3>1, SwitchedFrames
  <2> QED BY <2>1, <2>2
<1>4. m \in Mmu(Pids)
  BY <1>2, VideoPages
<1>5. mmu' = SetPage(m, p)
  BY <1>1
<1> HIDE DEF m
<1>6. mmu'.vim = m.vim /\ mmu'.vidBase = m.vidBase
      /\ (VidmapReachable(mmu)' => VidmapReachable(m))
  BY <1>4, <1>5, PageKeepsVideo
<1> QED BY <1>2, <1>3, <1>6 DEF VideoInv, VideoFrames, BootVideo

LEMMA ResumeVideo ==
  ASSUME IInv, NEW t \in Terms, Resume(t)
  PROVE  VideoInv'
<1> DEFINE n == term_pid_array[t]
<1>1. /\ mmu' = SwitchTermVim(SetPage(mmu, n), pid_vidmap_flag[n],
                              cur_vis_term, t)
      /\ cur_vis_term' = cur_vis_term /\ cur_execute_term' = t
      /\ current_id' = n /\ cur_vis_term \in Terms
  BY DEF Resume, IInv, TypeOK
<1>2. n \in Pids
  BY DEF Resume, Parked, IInv, TypeOK
<1> HIDE DEF n
<1>3. SetPage(mmu, n) \in Mmu(Pids) /\ pid_vidmap_flag[n] \in {0, 1}
  <2>1. mmu \in Mmu(Pids) /\ pid_vidmap_flag \in [Pids -> {0, 1}]
    BY DEF IInv, TypeOK
  <2> QED BY <1>2, <2>1, UserPage
<1> QED BY <1>1, <1>2, <1>3, SwitchVideo

LEMMA EchoVideo ==
  ASSUME IInv, VideoInv, KeyboardEcho
  PROVE  VideoInv'
<1>1. PICK flag \in VidmapFlagRead :
        mmu' = SwitchTermVim(
                 SwitchTermVim(mmu, flag, cur_vis_term, cur_vis_term),
                 flag, cur_vis_term, cur_execute_term)
  BY DEF KeyboardEcho
<1>2. /\ UNCHANGED <<current_id, cur_vis_term, cur_execute_term>>
      /\ cur_vis_term \in Terms /\ cur_execute_term \in Terms
      /\ mmu \in Mmu(Pids)
  BY DEF KeyboardEcho, curVars, termVars, IInv, TypeOK
<1> DEFINE m == SwitchTermVim(mmu, flag, cur_vis_term, cur_vis_term)
<1>3. m \in Mmu(Pids)
  BY <1>2, VideoPages
<1>4. mmu' = SwitchTermVim(m, flag, cur_vis_term', cur_execute_term')
  BY <1>1, <1>2
<1>5. CASE current_id = NULL
  <2>1. ~m.armed /\ ~m.vidPd
    BY <1>2, <1>5, SwitchedUnarmed DEF VideoInv, BootVideo
  <2> HIDE DEF m
  <2> QED BY <1>2, <1>3, <1>4, <2>1, BootSwitchVideo
<1>6. CASE current_id # NULL
  <2>1. flag \in {0, 1}
    BY <1>6 DEF VidmapFlagRead, IInv, TypeOK
  <2> HIDE DEF m
  <2> QED BY <1>2, <1>3, <1>4, <1>6, <2>1, SwitchVideo
<1> QED BY <1>5, <1>6

LEMMA TermSwitchVideo ==
  ASSUME IInv, VideoInv, NEW v \in Terms, TermSwitch(v)
  PROVE  VideoInv'
<1>1. PICK flag \in VidmapFlagRead :
        mmu' = SwitchTermVim(mmu, flag, v, cur_execute_term)
  BY DEF TermSwitch
<1>2. /\ UNCHANGED <<current_id, cur_execute_term>> /\ cur_vis_term' = v
      /\ cur_execute_term \in Terms /\ mmu \in Mmu(Pids)
  BY DEF TermSwitch, curVars, termVars, IInv, TypeOK
<1>3. CASE current_id = NULL
  BY <1>1, <1>2, <1>3, BootSwitchVideo DEF VideoInv, BootVideo
<1>4. CASE current_id # NULL
  <2>1. flag \in {0, 1}
    BY <1>4 DEF VidmapFlagRead, IInv, TypeOK
  <2> QED BY <1>1, <1>2, <1>4, <2>1, SwitchVideo
<1> QED BY <1>3, <1>4

LEMMA NextVideo == IInv /\ VideoInv /\ [Next]_vars => VideoInv'
<1> SUFFICES ASSUME IInv, VideoInv, [Next]_vars PROVE VideoInv'
  OBVIOUS
<1>1. CASE \E p \in Pids : Execute(p)
  BY <1>1, PageVideo DEF Execute, EnterProgram, termVars
<1>2. CASE \/ \E p \in Pids : ExecuteRejects(p)
           \/ ExecuteFails
           \/ \E fd \in Fds : Open(fd) \/ Close(fd)
           \/ Fault \/ Spin \/ UNCHANGED vars
  BY <1>2, QuietVideo
  DEF ExecuteRejects, ExecuteFails, Open, Close, Fault, Spin, vars, curVars, termVars
<1>3. CASE Halt
  <2> DEFINE par == pcb[current_id].parent_process_id
  <2>1. /\ current_pcb_ptr = current_id /\ pcb[current_id] \in Pcb
        /\ Running
    BY <1>3, CurrentProcess DEF Halt
  <2>2. par \in Pids
    BY <1>3, <2>1 DEF Halt, Pcb
  <2>3. /\ mmu' = SetPage(mmu, par) \/ mmu' = UndoVidmap(SetPage(mmu, par))
        /\ current_id' = par
        /\ UNCHANGED <<cur_vis_term, cur_execute_term>>
    BY <1>3, <2>1 DEF Halt
  <2> HIDE DEF par
  <2> QED BY <2>1, <2>2, <2>3, PageVideo
<1>4. CASE \E p \in Pids : HaltBaseShell(p)
  BY <1>4, PageVideo DEF HaltBaseShell, EnterProgram, termVars
<1>5. CASE Vidmap
  BY <1>5, VidmapVideo
<1>6. CASE \E t \in Terms, p \in Pids : StartTerminal(t, p)
  BY <1>6, StartTerminalVideo
<1>7. CASE \E t \in Terms : Resume(t)
  BY <1>7, ResumeVideo
<1>8. CASE KeyboardEcho
  BY <1>8, EchoVideo
<1>9. CASE \E v \in Terms : TermSwitch(v)
  BY <1>9, TermSwitchVideo
<1> QED BY <1>1, <1>2, <1>3, <1>4, <1>5, <1>6, <1>7, <1>8, <1>9
        DEF Next, Syscall, Tick

-----------------------------------------------------------------------------
LEMMA InitMemory == Init => PcbInv /\ VideoInv
<1> SUFFICES ASSUME Init PROVE PcbInv /\ VideoInv
  OBVIOUS
<1>1. PcbInv
  BY NoPcbFields DEF Init, PcbInv, VidmapFlagsAgree, ConsoleOpen, ShellsNoVidmap, Used
<1>2. VideoInv
  BY DEF Init, VideoInv, VideoFrames, BootVideo, PagingInit
<1> QED BY <1>1, <1>2

\* The video pages, the flags and the console descriptors stay consistent.
THEOREM MemoryInvariance == Spec => [](IInv /\ PcbInv /\ VideoInv)
<1>1. Init => IInv /\ PcbInv /\ VideoInv
  BY InitInv, InitMemory
<1>2. IInv /\ PcbInv /\ VideoInv /\ [Next]_vars
        => (IInv /\ PcbInv /\ VideoInv)'
  BY NextInv, NextPcb, NextVideo
<1> QED BY <1>1, <1>2, PTL DEF Spec

\* The flag of a slot and the flag in the pcb of its process are equal: a
\* process never inherits the vidmap flag of the one that had its slot before.
THEOREM FlagsAgree == Spec => []VidmapFlagsAgree
  BY MemoryInvariance, PTL DEF PcbInv

\* A living process always has its console open, whatever its children close
\* when they halt.
THEOREM ConsoleStaysOpen == Spec => []ConsoleOpen
  BY MemoryInvariance, PTL DEF PcbInv

\* What the kernel, and a program that called vidmap, writes to the screen goes
\* to the display only while the terminal that runs is the visible one.
THEOREM VideoGoesToOwnTerminal == Spec => []VideoFrames
  BY MemoryInvariance, PTL DEF VideoInv

-----------------------------------------------------------------------------
(* The stacks of jobs                                                      *)

\* The recursion on the number of callers is well defined, whatever the parent
\* links are.
LEMMA ChainDef ==
  TypeOK => \A n \in Nat, p \in PidOrNull :
    Chain[n][p] = IF n = 0 \/ p = NULL THEN <<>>
                  ELSE Append(Chain[n - 1][pcb[p].parent_process_id], p)
<1> SUFFICES ASSUME TypeOK
             PROVE  \A n \in Nat, p \in PidOrNull :
                      Chain[n][p] = IF n = 0 \/ p = NULL THEN <<>>
                        ELSE Append(Chain[n - 1][pcb[p].parent_process_id], p)
  OBVIOUS
<1> DEFINE up(p) == pcb[p].parent_process_id
           Grown(g) == [p \in PidOrNull |->
                          IF p = NULL THEN <<>> ELSE Append(g[up(p)], p)]
           F == [PidOrNull -> Seq(Pids)]
           G == [x \in Nat \X F |-> Grown(x[2])]
           none == [p \in PidOrNull |-> <<>>]
           Body(c) == [n \in Nat |-> [p \in PidOrNull |->
                         IF n = 0 \/ p = NULL THEN <<>>
                         ELSE Append(c[n - 1][up(p)], p)]]
<1>1. \A p \in Pids : up(p) \in PidOrNull
  BY DEF TypeOK, Pcb
<1>2. none \in F
  OBVIOUS
<1>3. \A g \in F : Grown(g) \in F
  <2> SUFFICES ASSUME NEW g \in F, NEW p \in Pids
               PROVE  Append(g[up(p)], p) \in Seq(Pids)
    OBVIOUS
  <2>1. g[up(p)] \in Seq(Pids)
    BY <1>1
  <2> HIDE DEF F
  <2> QED BY <2>1
<1>4. G \in [Nat \X F -> F]
  <2> HIDE DEF F, Grown
  <2> QED BY <1>3
<1>5. PICK f \in [Nat -> F] : f[0] = none /\ \A n \in Nat : f[n + 1] = G[<<n, f[n]>>]
  <2> DEFINE P(S) == \A a \in S, g \in [Nat \X S -> S] :
          \E f \in [Nat -> S] : f[0] = a /\ \A n \in Nat : f[n + 1] = g[<<n, f[n]>>]
  <2>1. \A S : P(S)
    BY Iterate
  <2> HIDE DEF F, P
  <2>2. P(F)
    BY <2>1
  <2> USE DEF P
  <2> HIDE DEF G, none
  <2> QED BY <1>2, <1>4, <2>2
<1>6. ASSUME NEW n \in Nat, NEW p \in PidOrNull
      PROVE  f[n][p] = IF n = 0 \/ p = NULL THEN <<>>
                       ELSE Append(f[n - 1][up(p)], p)
  <2>1. CASE n = 0
    BY <1>5, <2>1
  <2>2. CASE n # 0
    <3>1. n - 1 \in Nat /\ (n - 1) + 1 = n
      BY <2>2
    <3>2. f[n - 1] \in F /\ f[n] = G[<<n - 1, f[n - 1]>>]
      BY <1>5, <3>1
    <3>3. f[n] = Grown(f[n - 1])
      <4> HIDE DEF F, Grown
      <4> QED BY <3>1, <3>2
    <3> QED BY <2>2, <3>3
  <2> QED BY <2>1, <2>2
<1>7. f = Body(f)
  <2> DEFINE e(n) == [p \in PidOrNull |-> IF n = 0 \/ p = NULL THEN <<>>
                                         ELSE Append(f[n - 1][up(p)], p)]
  <2>1. \A n \in Nat : f[n] = e(n)
    <3> SUFFICES ASSUME NEW n \in Nat PROVE f[n] = e(n)
      OBVIOUS
    <3>1. \A p \in PidOrNull : f[n][p] = e(n)[p]
      BY <1>6
    <3>2. f[n] \in F
      BY <1>5
    <3>3. f[n] = [p \in PidOrNull |-> f[n][p]] /\ e(n) = [p \in PidOrNull |-> e(n)[p]]
      BY <3>2
    <3> HIDE DEF e
    <3> QED BY <3>1, <3>3
  <2>2. Body(f) = [n \in Nat |-> e(n)]
    OBVIOUS
  <2>3. f = [n \in Nat |-> f[n]]
    BY <1>5
  <2> HIDE DEF e, Body
  <2> QED BY <2>1, <2>2, <2>3
<1>8. Chain = CHOOSE d : d = Body(d)
  BY DEF Chain
<1> HIDE DEF Body
<1>9. Chain = Body(Chain)
  BY <1>7, <1>8
<1> USE DEF Body
<1>10. \A n \in Nat, p \in PidOrNull :
         Body(Chain)[n][p] = IF n = 0 \/ p = NULL THEN <<>>
                             ELSE Append(Chain[n - 1][up(p)], p)
  OBVIOUS
<1> HIDE DEF Body
<1> QED BY <1>9, <1>10

\* q is the stack of jobs of a terminal: living processes of the terminal, each
\* once, from its shell, which has no parent, to the process in front, each the
\* child of the one below it.
StackAt(t, q) ==
  /\ q \in Seq(Pids)
  /\ IF Foreground(t) = NULL THEN q = <<>>
     ELSE q # <<>> /\ q[Len(q)] = Foreground(t)
  /\ \A i \in 1..Len(q) :
       /\ Used(q[i]) /\ pcb[q[i]].term = t
       /\ pcb[q[i]].parent_process_id = IF i = 1 THEN NULL ELSE q[i - 1]
  /\ \A i, j \in 1..Len(q) : q[i] = q[j] => i = j

StackInv == \A t \in Terms : \E q \in Seq(Pids) : StackAt(t, q)

\* No more processes than slots: Chain is never cut.
LEMMA StackFits ==
  ASSUME NEW q \in Seq(Pids), \A i, j \in 1..Len(q) : q[i] = q[j] => i = j
  PROVE  Len(q) <= MaxProc
<1> DEFINE n == Len(q)
           S == 1..n
<1>1. MaxProc \in Nat /\ n \in Nat
  BY KernelAssumption
<1>2. IsFiniteSet(Pids) /\ Cardinality(Pids) = MaxProc
  <2>1. IsFiniteSet(0..(MaxProc - 1)) /\ Cardinality(0..(MaxProc - 1)) =
          IF 0 > MaxProc - 1 THEN 0 ELSE (MaxProc - 1) - 0 + 1
    BY <1>1, FS_Interval
  <2> QED BY <1>1, <2>1 DEF Pids
<1>3. IsFiniteSet(S) /\ Cardinality(S) = n
  <2>1. IsFiniteSet(1..n) /\ Cardinality(1..n) = IF 1 > n THEN 0 ELSE n - 1 + 1
    BY <1>1, FS_Interval
  <2> QED BY <1>1, <2>1
<1>4. q \in [S -> Pids]
  OBVIOUS
<1>5. ASSUME MaxProc < n PROVE FALSE
  <2> HIDE DEF S
  <2>1. \E x, y \in S : x # y /\ q[x] = q[y]
    BY <1>2, <1>3, <1>4, <1>5, FS_PigeonHole
  <2> QED BY <2>1 DEF S
<1> QED BY <1>1, <1>5

\* Following the links from a process of the stack finds the stack below it.
LEMMA ChainIsStack ==
  ASSUME TypeOK, NEW t \in Terms, NEW q, StackAt(t, q)
  PROVE  \A i \in 1..Len(q) : \A n \in Nat :
           i <= n => Chain[n][q[i]] = SubSeq(q, 1, i)
<1> DEFINE A == {i \in Nat : i \in 1..Len(q) =>
                   \A n \in Nat : i <= n => Chain[n][q[i]] = SubSeq(q, 1, i)}
<1>1. q \in Seq(Pids)
  BY DEF StackAt
<1>2. 0 \in A
  OBVIOUS
<1>3. ASSUME NEW i \in Nat, i \in A PROVE i + 1 \in A
  <2> SUFFICES ASSUME i + 1 \in 1..Len(q), NEW n \in Nat, i + 1 <= n
               PROVE  Chain[n][q[i + 1]] = SubSeq(q, 1, i + 1)
    OBVIOUS
  <2> DEFINE p == q[i + 1]
             up == pcb[p].parent_process_id
  <2>1. p \in Pids /\ n # 0 /\ p # NULL
    BY <1>1
  <2>2. up = IF i + 1 = 1 THEN NULL ELSE q[(i + 1) - 1]
    BY DEF StackAt
  <2>3. Chain[n][p] = Append(Chain[n - 1][up], p)
    BY <2>1, ChainDef
  <2>4. SubSeq(q, 1, i + 1) = SubSeq(q, 1, i) \o <<p>>
    <3>1. 1 \in 1..Len(q) /\ i + 1 \in 1..Len(q) /\ (i + 1) - 1 = i
      BY <1>1
    <3>2. SubSeq(q, 1, i + 1) = SubSeq(q, 1, (i + 1) - 1) \o <<q[i + 1]>>
      BY <1>1, <3>1, SubSeqRecursiveSecond
    <3> QED BY <3>1, <3>2
  <2>5. Chain[n - 1][up] = SubSeq(q, 1, i)
    <3>1. CASE i = 0
      <4>1. up = NULL
        BY <2>2, <3>1
      <4>2. n - 1 \in Nat
        BY <2>1
      <4>3. Chain[n - 1][NULL] = <<>>
        BY <4>2, ChainDef
      <4>4. SubSeq(q, 1, 0) = <<>>
        BY SubSeqEmpty
      <4> QED BY <3>1, <4>1, <4>3, <4>4
    <3>2. CASE i # 0
      <4>1. i \in 1..Len(q) /\ (i + 1) - 1 = i /\ i + 1 # 1 /\ n - 1 \in Nat /\ i <= n - 1
        BY <1>1, <3>2
      <4>2. up = q[i]
        BY <2>2, <4>1
      <4> QED BY <1>3, <4>1, <4>2
    <3> QED BY <3>1, <3>2
  <2>6. SubSeq(q, 1, i) \in Seq(Pids)
    <3>1. \A k \in 1..i : q[k] \in Pids
      BY <1>1
    <3> QED BY <3>1, SubSeqProperties
  <2> HIDE DEF p, up
  <2>7. Append(SubSeq(q, 1, i), p) = SubSeq(q, 1, i) \o <<p>>
    BY <2>1, <2>6, AppendIsConcat
  <2>8. Chain[n][p] = SubSeq(q, 1, i + 1)
    BY <2>3, <2>4, <2>5, <2>7
  <2> QED BY <2>8 DEF p
<1>4. \A i \in Nat : i \in A
  <2> HIDE DEF A
  <2> QED BY <1>2, <1>3, NatInd
<1> QED BY <1>1, <1>4

\* So JobsOf is the stack, for every terminal.
StacksUnique ==
  \A t \in Terms : \A q \in Seq(Pids) : StackAt(t, q) => JobsOf[t] = q

LEMMA JobsAreStacks == TypeOK => StacksUnique
<1> SUFFICES ASSUME TypeOK, NEW t \in Terms, NEW q \in Seq(Pids), StackAt(t, q)
             PROVE  JobsOf[t] = q
  BY DEF StacksUnique
<1>1. JobsOf[t] = Chain[MaxProc][Foreground(t)] /\ MaxProc \in Nat
  BY KernelAssumption DEF JobsOf
<1>2. CASE Foreground(t) = NULL
  <2>1. Chain[MaxProc][NULL] = <<>>
    BY <1>1, ChainDef
  <2> QED BY <1>1, <1>2, <2>1 DEF StackAt
<1>3. CASE Foreground(t) # NULL
  <2>1. q # <<>> /\ q[Len(q)] = Foreground(t)
    BY <1>3 DEF StackAt
  <2>2. Len(q) \in 1..Len(q)
    BY <2>1
  <2>3. Len(q) <= MaxProc
    BY StackFits DEF StackAt
  <2>4. Chain[MaxProc][q[Len(q)]] = SubSeq(q, 1, Len(q))
    BY <1>1, <2>2, <2>3, ChainIsStack
  <2>5. SubSeq(q, 1, Len(q)) = q
    BY SubSeqFull
  <2> QED BY <1>1, <2>1, <2>4, <2>5
<1> QED BY <1>2, <1>3

-----------------------------------------------------------------------------
(* What the steps do to the stacks                                         *)

\* Chain and StackAt read of a process whether it is alive, its parent and its
\* terminal.
LinksKept(p) ==
  /\ Used(p)' /\ pcb'[p].term = pcb[p].term
  /\ pcb'[p].parent_process_id = pcb[p].parent_process_id

LEMMA KeepStack ==
  ASSUME NEW t \in Terms, NEW q, StackAt(t, q), Foreground(t)' = Foreground(t),
         \A p \in Pids : Used(p) /\ pcb[p].term = t => LinksKept(p)
  PROVE  StackAt(t, q)'
<1>1. \A i \in 1..Len(q) : q[i] \in Pids
  BY DEF StackAt
<1>2. \A i \in 1..Len(q) : LinksKept(q[i])
  BY <1>1 DEF StackAt
<1> QED BY <1>2 DEF StackAt, LinksKept

\* A new process on top: execute.
LEMMA PushStack ==
  ASSUME NEW t \in Terms, NEW q, StackAt(t, q), Foreground(t) # NULL,
         NEW p \in Pids, ~Used(p), Foreground(t)' = p, Used(p)',
         pcb'[p].term = t, pcb'[p].parent_process_id = Foreground(t),
         \A r \in Pids : Used(r) /\ pcb[r].term = t => LinksKept(r)
  PROVE  StackAt(t, Append(q, p))'
<1> DEFINE s == Append(q, p)
<1>1. q \in Seq(Pids) /\ q # <<>> /\ q[Len(q)] = Foreground(t)
  BY DEF StackAt
<1>2. /\ s \in Seq(Pids) /\ s # <<>> /\ Len(s) = Len(q) + 1
      /\ \A i \in 1..Len(q) : s[i] = q[i]
      /\ s[Len(q) + 1] = p
  BY <1>1, AppendProperties
<1>3. Len(q) \in Nat \ {0}
  BY <1>1
<1> HIDE DEF s
<1>4. p # NULL /\ s[Len(s)] = Foreground(t)'
  BY <1>2
<1>5. \A i \in 1..Len(s) : i \in 1..Len(q) \/ i = Len(q) + 1
  BY <1>2, <1>3
<1>6. \A i \in 1..Len(q) : LinksKept(q[i]) /\ Used(q[i]) /\ q[i] # p
  BY <1>1 DEF StackAt
<1>7. ASSUME NEW i \in 1..Len(s)
      PROVE  /\ Used(s[i])' /\ pcb'[s[i]].term = t
             /\ pcb'[s[i]].parent_process_id = IF i = 1 THEN NULL ELSE s[i - 1]
  <2>1. CASE i \in 1..Len(q)
    <3>1. s[i] = q[i] /\ (i # 1 => s[i - 1] = q[i - 1])
      BY <1>2, <1>3, <2>1
    <3>2. pcb[q[i]].term = t
          /\ pcb[q[i]].parent_process_id = IF i = 1 THEN NULL ELSE q[i - 1]
      BY <2>1 DEF StackAt
    <3> QED BY <1>6, <2>1, <3>1, <3>2 DEF LinksKept
  <2>2. CASE i = Len(q) + 1
    <3>1. i - 1 = Len(q) /\ i # 1 /\ s[i - 1] = q[Len(q)]
      BY <1>2, <1>3, <2>2
    <3> QED BY <1>1, <1>2, <2>2, <3>1
  <2> QED BY <1>5, <2>1, <2>2
<1>8. \A i, j \in 1..Len(s) : s[i] = s[j] => i = j
  BY <1>2, <1>5, <1>6 DEF StackAt
<1>9. StackAt(t, s)'
  <2>1. IF Foreground(t)' = NULL THEN s = <<>> ELSE s # <<>> /\ s[Len(s)] = Foreground(t)'
    BY <1>2, <1>4
  <2> QED BY <1>2, <1>7, <1>8, <2>1 DEF StackAt
<1> QED BY <1>9 DEF s

\* The process on top goes: halt.
LEMMA PopStack ==
  ASSUME NEW t \in Terms, NEW q, StackAt(t, q), NEW c \in Pids,
         Foreground(t) = c, pcb[c].parent_process_id # NULL,
         Foreground(t)' = pcb[c].parent_process_id,
         \A r \in Pids : Used(r) /\ pcb[r].term = t /\ r # c => LinksKept(r)
  PROVE  Len(q) > 1 /\ StackAt(t, SubSeq(q, 1, Len(q) - 1))'
<1> DEFINE n == Len(q)
           s == SubSeq(q, 1, n - 1)
<1>1. q \in Seq(Pids) /\ q # <<>> /\ q[n] = c /\ n \in Nat \ {0} /\ n \in 1..n
  BY DEF StackAt
<1>2. pcb[c].parent_process_id = IF n = 1 THEN NULL ELSE q[n - 1]
  BY <1>1 DEF StackAt
<1>3. n > 1 /\ pcb[c].parent_process_id = q[n - 1]
  <2> HIDE DEF n
  <2>1. n # 1
    BY <1>2
  <2> QED BY <1>1, <1>2, <2>1
<1>4. /\ s \in Seq(Pids) /\ Len(s) = n - 1
      /\ \A i \in 1..(n - 1) : s[i] = q[i]
  <2>1. \A i \in 1..(n - 1) : q[i] \in Pids
    BY <1>1
  <2> HIDE DEF n
  <2>2. /\ SubSeq(q, 1, n - 1) \in Seq(Pids)
        /\ Len(SubSeq(q, 1, n - 1)) = IF 1 <= n - 1 THEN (n - 1) - 1 + 1 ELSE 0
        /\ \A i \in 1..((n - 1) - 1 + 1) : SubSeq(q, 1, n - 1)[i] = q[1 + i - 1]
    BY <1>1, <2>1, SubSeqProperties
  <2>3. (n - 1) - 1 + 1 = n - 1 /\ \A i \in 1..(n - 1) : 1 + i - 1 = i
    BY <1>1
  <2> QED BY <1>1, <1>3, <2>2, <2>3
<1> HIDE DEF s, n
<1>5. s # <<>> /\ s[Len(s)] = Foreground(t)' /\ Foreground(t)' # NULL
  BY <1>1, <1>3, <1>4
<1>6. \A i \in 1..(n - 1) : i \in 1..n /\ i # n
  BY <1>1
<1>7. \A i \in 1..(n - 1) : LinksKept(q[i])
  <2> SUFFICES ASSUME NEW i \in 1..(n - 1) PROVE LinksKept(q[i])
    OBVIOUS
  <2>1. i \in 1..n /\ i # n
    BY <1>6
  <2>2. q[i] \in Pids /\ Used(q[i]) /\ pcb[q[i]].term = t
    BY <1>1, <2>1 DEF StackAt, n
  <2>3. q[i] # c
    BY <1>1, <2>1 DEF StackAt, n
  <2> QED BY <2>2, <2>3
<1>8. ASSUME NEW i \in 1..Len(s)
      PROVE  /\ Used(s[i])' /\ pcb'[s[i]].term = t
             /\ pcb'[s[i]].parent_process_id = IF i = 1 THEN NULL ELSE s[i - 1]
  <2>1. i \in 1..(n - 1) /\ s[i] = q[i] /\ (i # 1 => s[i - 1] = q[i - 1])
    BY <1>1, <1>4
  <2>2. pcb[q[i]].term = t
        /\ pcb[q[i]].parent_process_id = IF i = 1 THEN NULL ELSE q[i - 1]
    BY <1>6, <2>1 DEF StackAt, n
  <2> QED BY <1>7, <2>1, <2>2 DEF LinksKept
<1>9. \A i, j \in 1..Len(s) : s[i] = s[j] => i = j
  BY <1>4, <1>6 DEF StackAt, n
<1>10. StackAt(t, s)'
  BY <1>4, <1>5, <1>8, <1>9 DEF StackAt
<1> QED BY <1>3, <1>10 DEF s, n

\* A shell, new or renewed, is a stack by itself.
LEMMA NewStack ==
  ASSUME NEW t \in Terms, NEW p \in Pids, Foreground(t)' = p, Used(p)',
         pcb'[p].term = t, pcb'[p].parent_process_id = NULL
  PROVE  StackAt(t, <<p>>)'
<1> DEFINE s == <<p>>
<1>1. s \in Seq(Pids) /\ s # <<>> /\ Len(s) = 1 /\ s[1] = p
  OBVIOUS
<1> HIDE DEF s
<1>2. \A i \in 1..Len(s) : i = 1
  BY <1>1
<1>3. StackAt(t, s)'
  BY <1>1, <1>2 DEF StackAt
<1> QED BY <1>3 DEF s

\* A shell is alone on its stack.
LEMMA ShellAlone ==
  ASSUME NEW t \in Terms, NEW q, StackAt(t, q), Foreground(t) # NULL,
         pcb[Foreground(t)].parent_process_id = NULL
  PROVE  q = <<Foreground(t)>>
<1> DEFINE n == Len(q)
<1>1. q \in Seq(Pids) /\ q # <<>> /\ q[n] = Foreground(t) /\ n \in Nat \ {0} /\ n \in 1..n
  BY DEF StackAt
<1>2. NULL = IF n = 1 THEN NULL ELSE q[n - 1]
  BY <1>1 DEF StackAt
<1>3. n = 1
  <2>1. ASSUME n # 1 PROVE q[n - 1] \in Pids
    <3>1. n - 1 \in 1..n
      <4> HIDE DEF n
      <4> QED BY <1>1, <2>1
    <3> QED BY <1>1, <3>1
  <2> QED BY <1>2, <2>1
<1> QED BY <1>1, <1>3

LEMMA ExecuteLinks ==
  ASSUME IInv, NEW t \in Terms, t = cur_execute_term, NEW p \in Pids, Execute(p)
  PROVE  /\ Foreground(t) = current_id /\ current_id \in Pids
         /\ ~Used(p) /\ Used(p)'
         /\ pcb'[p].term = t /\ pcb'[p].parent_process_id = current_id
         /\ \A r \in Pids : Used(r) => LinksKept(r)
         /\ Foreground(t)' = p
         /\ \A u \in Terms : u # t => Foreground(u)' = Foreground(u)
         /\ cur_execute_term' = t
<1> DEFINE c == current_id
           new == NewPcb(c, c, t)
<1>1. /\ c \in Pids /\ Foreground(t) = c /\ cpu = c /\ pcb_arr[c] = c
      /\ pcb \in [Pids -> Pcb] /\ id_array \in [Pids -> {0, 1}] /\ Used(c)
  BY CurrentProcess DEF Execute, IInv, TypeOK
<1>2. ~Used(p) /\ p # c
  BY <1>1 DEF Execute, IsFreeSlot, Used
<1>3. /\ id_array' = [id_array EXCEPT ![p] = 1]
      /\ pcb' = [[pcb EXCEPT ![p] = new] EXCEPT ![c].esp_when_execute = c]
      /\ current_id' = p /\ UNCHANGED <<cur_execute_term, term_pid_array>>
  BY <1>1 DEF Execute, EnterProgram, SaveFrame, termVars
<1>4. new \in Pcb /\ new.parent_process_id = c /\ new.term = t
  BY <1>1, NewPcbType DEF NewPcb
<1> HIDE DEF new, c
<1>5. /\ pcb'[p] = new
      /\ pcb'[c] = [pcb[c] EXCEPT !.esp_when_execute = c]
      /\ \A q \in Pids : q # p /\ q # c => pcb'[q] = pcb[q]
  BY <1>1, <1>2, <1>3, <1>4
<1>6. /\ pcb'[c].term = pcb[c].term
      /\ pcb'[c].parent_process_id = pcb[c].parent_process_id
  BY <1>1, <1>5 DEF Pcb
<1>7. Used(p)' /\ \A r \in Pids : Used(r) => Used(r)'
  BY <1>1, <1>3 DEF Used
<1>8. \A r \in Pids : Used(r) => LinksKept(r)
  <2> SUFFICES ASSUME NEW r \in Pids, Used(r) PROVE LinksKept(r)
    OBVIOUS
  <2>1. r # p /\ Used(r)'
    BY <1>2, <1>7
  <2>2. CASE r = c
    BY <1>6, <2>1, <2>2 DEF LinksKept
  <2>3. CASE r # c
    BY <1>5, <2>1, <2>3 DEF LinksKept
  <2> QED BY <2>2, <2>3
<1>9. /\ Foreground(t)' = p
      /\ \A u \in Terms : u # t => Foreground(u)' = Foreground(u)
  BY <1>3 DEF Foreground
<1> QED BY <1>1, <1>2, <1>3, <1>4, <1>5, <1>7, <1>8, <1>9 DEF c

LEMMA HaltLinks ==
  ASSUME IInv, NEW t \in Terms, t = cur_execute_term, Halt
  PROVE  /\ Foreground(t) = current_id /\ current_id \in Pids
         /\ pcb[current_id].parent_process_id # NULL
         /\ Foreground(t)' = pcb[current_id].parent_process_id
         /\ \A r \in Pids : Used(r) /\ r # current_id => LinksKept(r)
         /\ \A u \in Terms : u # t => Foreground(u)' = Foreground(u)
         /\ cur_execute_term' = t
<1> DEFINE c == current_id
           par == pcb[c].parent_process_id
<1>1. /\ c \in Pids /\ current_pcb_ptr = c /\ Used(c) /\ Foreground(t) = c
      /\ pcb \in [Pids -> Pcb] /\ id_array \in [Pids -> {0, 1}]
  BY CurrentProcess DEF Halt, IInv, TypeOK
<1>2. par \in Pids
  BY <1>1 DEF Halt, Pcb
<1>3. pcb_arr[par] = par /\ pcb[c].parent_ptr = par
  BY <1>1, <1>2 DEF CallersWait, WaitsFor, IInv
<1> DEFINE closed == [pcb EXCEPT ![par].flags = CloseFrom2(@)]
           resumed == [closed EXCEPT ![par].esp_when_execute = NULL]
<1>4. /\ id_array' = [id_array EXCEPT ![c] = 0]
      /\ pcb' = [resumed EXCEPT ![c] = NoPcb]
      /\ current_id' = par /\ cur_execute_term' = cur_execute_term
      /\ term_pid_array' = [term_pid_array EXCEPT ![cur_execute_term] = par]
  BY <1>1, <1>2, <1>3 DEF Halt, Release
<1> HIDE DEF c, par
<1>5. /\ \A q \in Pids : q # par => closed[q] = pcb[q]
      /\ closed[par] = [pcb[par] EXCEPT !.flags = CloseFrom2(pcb[par].flags)]
  BY <1>1, <1>2 DEF Pcb
<1>6. /\ \A q \in Pids : q # par => resumed[q] = closed[q]
      /\ resumed[par] = [closed[par] EXCEPT !.esp_when_execute = NULL]
  <2> HIDE DEF closed
  <2>1. DOMAIN closed = Pids
    BY <1>1 DEF closed
  <2> QED BY <1>2, <2>1
<1>7. \A q \in Pids : q # c => pcb'[q] = resumed[q]
  <2> HIDE DEF resumed
  <2>1. DOMAIN resumed = Pids
    BY <1>1 DEF resumed, closed
  <2> QED BY <1>1, <1>4, <2>1
<1>8. /\ resumed[par].term = pcb[par].term
      /\ resumed[par].parent_process_id = pcb[par].parent_process_id
  <2> HIDE DEF closed, resumed
  <2>1. pcb[par] \in Pcb
    BY <1>1, <1>2
  <2> QED BY <1>5, <1>6, <2>1 DEF Pcb
<1> HIDE DEF closed, resumed
<1>9. \A r \in Pids : Used(r) /\ r # c => LinksKept(r)
  <2> SUFFICES ASSUME NEW r \in Pids, Used(r), r # c PROVE LinksKept(r)
    OBVIOUS
  <2>1. Used(r)' /\ pcb'[r] = resumed[r]
    BY <1>1, <1>4, <1>7 DEF Used
  <2>2. CASE r = par
    BY <1>8, <2>1, <2>2 DEF LinksKept
  <2>3. CASE r # par
    BY <1>5, <1>6, <2>1, <2>3 DEF LinksKept
  <2> QED BY <2>2, <2>3
<1>10. /\ Foreground(t)' = par
       /\ \A u \in Terms : u # t => Foreground(u)' = Foreground(u)
  BY <1>4 DEF Foreground, IInv, TypeOK
<1>11. par # NULL
  BY <1>2
<1> QED BY <1>1, <1>4, <1>9, <1>10, <1>11 DEF c, par

LEMMA HaltBaseShellLinks ==
  ASSUME IInv, NEW t \in Terms, t = cur_execute_term, NEW p \in Pids,
         HaltBaseShell(p)
  PROVE  /\ Foreground(t) = current_id /\ current_id \in Pids
         /\ pcb[current_id].parent_process_id = NULL
         /\ p = current_id \/ ~Used(p)
         /\ Used(p)' /\ pcb'[p].term = t /\ pcb'[p].parent_process_id = NULL
         /\ \A r \in Pids : Used(r) /\ r # current_id => LinksKept(r)
         /\ pcb[current_id].term = t
         /\ Foreground(t)' = p
         /\ \A u \in Terms : u # t => Foreground(u)' = Foreground(u)
         /\ cur_execute_term' = t
<1> DEFINE c == current_id
           new == NewPcb(NULL, NULL, t)
<1>1. /\ c \in Pids /\ current_pcb_ptr = c /\ Used(c) /\ Foreground(t) = c
      /\ pcb \in [Pids -> Pcb] /\ id_array \in [Pids -> {0, 1}]
      /\ pcb[c].parent_process_id = NULL /\ pcb[c].term = t
  BY CurrentProcess DEF HaltBaseShell, IInv, TypeOK
<1>2. /\ id_array' = [[id_array EXCEPT ![c] = 0] EXCEPT ![p] = 1]
      /\ pcb' = [[pcb EXCEPT ![c] = NoPcb] EXCEPT ![p] = new]
      /\ current_id' = p /\ UNCHANGED <<cur_execute_term, term_pid_array>>
  BY <1>1 DEF HaltBaseShell, EnterProgram, Release, SaveFrame, termVars
<1>3. p = c \/ ~Used(p)
  BY <1>1 DEF HaltBaseShell, IsFreeSlot, Release, Used
<1>4. new.parent_process_id = NULL /\ new.term = t
  BY DEF NewPcb
<1> HIDE DEF new, c
<1>5. pcb'[p] = new /\ \A q \in Pids : q # p /\ q # c => pcb'[q] = pcb[q]
  BY <1>1, <1>2
<1>6. Used(p)' /\ \A r \in Pids : Used(r) /\ r # c => Used(r)'
  BY <1>1, <1>2 DEF Used
<1>7. \A r \in Pids : Used(r) /\ r # c => LinksKept(r)
  BY <1>3, <1>5, <1>6 DEF LinksKept
<1>8. /\ Foreground(t)' = p
      /\ \A u \in Terms : u # t => Foreground(u)' = Foreground(u)
  BY <1>2 DEF Foreground
<1> QED BY <1>1, <1>2, <1>3, <1>4, <1>5, <1>6, <1>7, <1>8 DEF c

LEMMA StartTerminalLinks ==
  ASSUME IInv, NEW t \in Terms, NEW p \in Pids, StartTerminal(t, p)
  PROVE  /\ Foreground(t) = NULL /\ ~Used(p) /\ Used(p)'
         /\ pcb'[p].term = t /\ pcb'[p].parent_process_id = NULL
         /\ \A r \in Pids : Used(r) => LinksKept(r)
         /\ Foreground(t)' = p
         /\ \A u \in Terms : u # t => Foreground(u)' = Foreground(u)
         /\ cur_execute_term' = t
<1> DEFINE new == NewPcb(NULL, NULL, t)
<1>1. /\ id_array' = [id_array EXCEPT ![p] = 1]
      /\ pcb' = [pcb EXCEPT ![p] = new]
      /\ current_id' = p /\ cur_execute_term' = t /\ term_pid_array' = SavedPids
      /\ pcb \in [Pids -> Pcb] /\ id_array \in [Pids -> {0, 1}]
  BY DEF StartTerminal, EnterProgram, SaveFrame, IInv, TypeOK
<1>2. ~Used(p) /\ Foreground(t) = NULL
  BY DEF StartTerminal, IsFreeSlot, Used
<1>3. new.parent_process_id = NULL /\ new.term = t
  BY DEF NewPcb
<1> HIDE DEF new
<1>4. pcb'[p] = new /\ \A q \in Pids : q # p => pcb'[q] = pcb[q]
  BY <1>1
<1>5. Used(p)' /\ \A r \in Pids : Used(r) => Used(r)'
  BY <1>1 DEF Used
<1>6. \A r \in Pids : Used(r) => LinksKept(r)
  BY <1>2, <1>4, <1>5 DEF LinksKept
<1>7. /\ Foreground(t)' = p
      /\ \A u \in Terms : u # t => Foreground(u)' = Foreground(u)
  BY <1>1, Saving DEF Foreground
<1> QED BY <1>1, <1>2, <1>3, <1>4, <1>5, <1>6, <1>7

\* A resumed terminal has jobs, and keeps them like all the others.
LEMMA ResumeLinks ==
  ASSUME IInv, NEW t \in Terms, Resume(t)
  PROVE  /\ Foreground(t) # NULL
         /\ \A r \in Pids : Used(r) => LinksKept(r)
         /\ \A u \in Terms : Foreground(u)' = Foreground(u)
         /\ cur_execute_term' = t
<1>1. /\ current_id' = term_pid_array[t] /\ cur_execute_term' = t
      /\ term_pid_array' = SavedPids /\ UNCHANGED <<id_array, pcb>>
      /\ t # cur_execute_term /\ term_esp[t] # NULL
  BY DEF Resume, procVars
<1>2. Foreground(t) = term_pid_array[t] /\ Foreground(t) # NULL
  BY <1>1 DEF Foreground, Parked, IInv
<1>3. \A u \in Terms : Foreground(u)' = Foreground(u)
  <2>1. \A u \in Terms : Foreground(u)' = IF u = t THEN term_pid_array[t] ELSE SavedPids[u]
    BY <1>1 DEF Foreground
  <2> QED BY <1>2, <2>1, Saving
<1> QED BY <1>1, <1>2, <1>3 DEF LinksKept, Used

\* Every other step leaves the links and the processes in front alone.
LEMMA QuietLinks ==
  ASSUME IInv, [Next]_vars, \A p \in Pids : ~Execute(p) /\ ~HaltBaseShell(p),
         ~Halt, \A t \in Terms, p \in Pids : ~StartTerminal(t, p),
         \A t \in Terms : ~Resume(t)
  PROVE  /\ \A r \in Pids : Used(r) => LinksKept(r)
         /\ \A u \in Terms : Foreground(u)' = Foreground(u)
         /\ cur_execute_term' = cur_execute_term
<1>1. pcb \in [Pids -> Pcb] /\ id_array \in [Pids -> {0, 1}]
  BY DEF IInv, TypeOK
<1>2. UNCHANGED <<curVars, termVars>> =>
        /\ \A u \in Terms : Foreground(u)' = Foreground(u)
        /\ cur_execute_term' = cur_execute_term
  BY DEF Foreground, curVars, termVars
<1>3. CASE UNCHANGED <<id_array, pcb, curVars, termVars>>
  BY <1>2, <1>3 DEF LinksKept, Used
<1>4. CASE \E p \in Pids : ExecuteRejects(p)
  <2>1. UNCHANGED <<id_array, pcb, curVars, termVars>>
    BY <1>1, <1>4 DEF ExecuteRejects, IsFreeSlot, Release
  <2> QED BY <1>3, <2>1
<1>5. ASSUME NEW q \in Pcb, NEW fd, NEW b
      PROVE  /\ [q EXCEPT !.flags[fd] = b].term = q.term
             /\ [q EXCEPT !.flags[fd] = b].parent_process_id = q.parent_process_id
             /\ [q EXCEPT !.vidmap_flag = b].term = q.term
             /\ [q EXCEPT !.vidmap_flag = b].parent_process_id = q.parent_process_id
  BY DEF Pcb
<1>6. CASE (\E fd \in Fds : Open(fd) \/ Close(fd)) \/ Vidmap
  <2> DEFINE c == current_id
  <2>1. c \in Pids /\ current_pcb_ptr = c /\ UNCHANGED <<id_array, curVars, termVars>>
    BY <1>6, CurrentProcess DEF Open, Close, Vidmap
  <2>2. \/ \E fd \in Fds, b \in {0, 1} : pcb' = [pcb EXCEPT ![c].flags[fd] = b]
        \/ pcb' = [pcb EXCEPT ![c].vidmap_flag = 1]
    BY <1>6, <2>1 DEF Open, Close, Vidmap
  <2> HIDE DEF c
  <2>3. /\ \A r \in Pids : r # c => pcb'[r] = pcb[r]
        /\ \/ \E fd \in Fds, b \in {0, 1} : pcb'[c] = [pcb[c] EXCEPT !.flags[fd] = b]
           \/ pcb'[c] = [pcb[c] EXCEPT !.vidmap_flag = 1]
    BY <1>1, <2>1, <2>2
  <2>4. pcb'[c].term = pcb[c].term
        /\ pcb'[c].parent_process_id = pcb[c].parent_process_id
    <3>1. pcb[c] \in Pcb
      BY <1>1, <2>1
    <3>2. CASE pcb'[c] = [pcb[c] EXCEPT !.vidmap_flag = 1]
      BY <1>5, <3>1, <3>2
    <3>3. ASSUME NEW fd \in Fds, NEW b \in {0, 1},
                 pcb'[c] = [pcb[c] EXCEPT !.flags[fd] = b]
          PROVE  /\ pcb'[c].term = pcb[c].term
                 /\ pcb'[c].parent_process_id = pcb[c].parent_process_id
      BY <1>5, <3>1, <3>3
    <3> QED BY <2>3, <3>2, <3>3
  <2>5. \A r \in Pids : Used(r) => LinksKept(r)
    <3> SUFFICES ASSUME NEW r \in Pids, Used(r) PROVE LinksKept(r)
      OBVIOUS
    <3>1. Used(r)'
      BY <2>1 DEF Used
    <3> QED BY <2>3, <2>4, <3>1 DEF LinksKept
  <2> QED BY <1>2, <2>1, <2>5
<1> QED BY <1>3, <1>4, <1>6
        DEF Next, Syscall, Tick, ExecuteFails, KeyboardEcho, TermSwitch, Fault, Spin,
            vars, procVars

-----------------------------------------------------------------------------
(* The refinement                                                          *)

\* The stacks as JobsOf computes them.
LEMMA StacksNow ==
  TypeOK /\ StackInv =>
    \A t \in Terms : JobsOf[t] \in Seq(Pids) /\ StackAt(t, JobsOf[t])
<1> SUFFICES ASSUME TypeOK, StackInv, NEW t \in Terms
             PROVE  JobsOf[t] \in Seq(Pids) /\ StackAt(t, JobsOf[t])
  OBVIOUS
<1>1. PICK q \in Seq(Pids) : StackAt(t, q)
  BY DEF StackInv
<1>2. JobsOf[t] = q
  BY <1>1, JobsAreStacks DEF StacksUnique
<1> QED BY <1>1, <1>2

\* A step that makes x the stack of t and keeps the links of the other
\* terminals changes that one stack.
LEMMA OneStackChanges ==
  ASSUME TypeOK, TypeOK', StackInv, NEW t \in Terms, NEW x \in Seq(Pids),
         StackAt(t, x)',
         \A u \in Terms : u # t => Foreground(u)' = Foreground(u),
         \A r \in Pids : Used(r) /\ pcb[r].term # t => LinksKept(r)
  PROVE  StackInv' /\ JobsOf' = [JobsOf EXCEPT ![t] = x]
<1> DEFINE y == [JobsOf EXCEPT ![t] = x]
<1>1. \A u \in Terms : y[u] = IF u = t THEN x ELSE JobsOf[u]
  BY DEF JobsOf
<1>2. ASSUME NEW u \in Terms, NEW s \in Seq(Pids), u # t, StackAt(u, s)
      PROVE  StackAt(u, s)'
  <2>1. \A r \in Pids : Used(r) /\ pcb[r].term = u => LinksKept(r)
    BY <1>2
  <2> QED BY <1>2, <2>1, KeepStack
<1>3. ASSUME NEW u \in Terms
      PROVE  \E s \in Seq(Pids) : s = y[u] /\ StackAt(u, s)'
  <2>1. CASE u = t
    BY <1>1, <2>1
  <2>2. CASE u # t
    <3>1. PICK s \in Seq(Pids) : s = JobsOf[u] /\ StackAt(u, s)
      BY StacksNow
    <3> QED BY <1>1, <1>2, <2>2, <3>1
  <2> QED BY <2>1, <2>2
<1>4. StackInv'
  BY <1>3 DEF StackInv
<1>5. (TypeOK => StacksUnique)'
  BY JobsAreStacks, PTL
<1>6. \A u \in Terms : JobsOf'[u] = y[u]
  BY <1>3, <1>5 DEF StacksUnique
<1>7. JobsOf' = [u \in Terms |-> JobsOf'[u]] /\ y = [u \in Terms |-> y[u]]
  BY DEF JobsOf
<1>8. JobsOf' = y
  <2> HIDE DEF y
  <2> QED BY <1>6, <1>7
<1> QED BY <1>4, <1>8

LEMMA NoStackChanges ==
  ASSUME TypeOK, TypeOK', StackInv,
         \A u \in Terms : Foreground(u)' = Foreground(u),
         \A r \in Pids : Used(r) => LinksKept(r)
  PROVE  StackInv' /\ JobsOf' = JobsOf
<1>1. ASSUME NEW u \in Terms
      PROVE  \E s \in Seq(Pids) : s = JobsOf[u] /\ StackAt(u, s)'
  <2>1. PICK s \in Seq(Pids) : s = JobsOf[u] /\ StackAt(u, s)
    BY StacksNow
  <2>2. StackAt(u, s)'
    BY <2>1, KeepStack
  <2> QED BY <2>1, <2>2
<1>2. StackInv'
  BY <1>1 DEF StackInv
<1>3. (TypeOK => StacksUnique)'
  BY JobsAreStacks, PTL
<1>4. \A u \in Terms : JobsOf'[u] = JobsOf[u]
  BY <1>1, <1>3 DEF StacksUnique
<1>5. JobsOf' = [u \in Terms |-> JobsOf'[u]] /\ JobsOf = [u \in Terms |-> JobsOf[u]]
  BY DEF JobsOf
<1> QED BY <1>2, <1>4, <1>5

\* A free slot names no job.
LEMMA FreeNotBusy ==
  ASSUME TypeOK, StackInv, NEW p \in Abstract!Busy
  PROVE  p \in Pids /\ Used(p)
<1>1. PICK t \in Terms : p \in Abstract!ToSet(JobsOf[t])
  BY DEF Abstract!Busy
<1>2. PICK q \in Seq(Pids) : q = JobsOf[t] /\ StackAt(t, q)
  BY StacksNow
<1>3. PICK i \in 1..Len(q) : p = q[i]
  BY <1>1, <1>2 DEF Abstract!ToSet
<1> QED BY <1>2, <1>3 DEF StackAt

\* The stack of the terminal that has the CPU ends with the running process.
LEMMA ActiveStack ==
  ASSUME TypeOK, StackInv, NEW t \in Terms, Foreground(t) # NULL
  PROVE  \E q \in Seq(Pids) : q = JobsOf[t] /\ StackAt(t, q) /\ q # <<>>
<1>1. PICK q \in Seq(Pids) : q = JobsOf[t] /\ StackAt(t, q)
  BY StacksNow
<1> QED BY <1>1 DEF StackAt

LEMMA ExecuteIsCall ==
  ASSUME IInv, TypeOK', StackInv, NEW p \in Pids, Execute(p)
  PROVE  StackInv' /\ Abstract!Call(p)
<1>1. PICK t \in Terms : t = cur_execute_term
  BY DEF IInv, TypeOK
<1>2. /\ Foreground(t) = current_id /\ current_id \in Pids
      /\ ~Used(p) /\ Used(p)'
      /\ pcb'[p].term = t /\ pcb'[p].parent_process_id = current_id
      /\ \A r \in Pids : Used(r) => LinksKept(r)
      /\ Foreground(t)' = p
      /\ \A u \in Terms : u # t => Foreground(u)' = Foreground(u)
      /\ cur_execute_term' = t
  BY <1>1, ExecuteLinks
<1>3. TypeOK /\ Foreground(t) # NULL
  BY <1>2 DEF IInv
<1>4. PICK q \in Seq(Pids) : q = JobsOf[t] /\ StackAt(t, q) /\ q # <<>>
  BY <1>3, ActiveStack
<1>5. StackAt(t, Append(q, p))'
  BY <1>2, <1>3, <1>4, PushStack
<1>6. StackInv' /\ JobsOf' = [JobsOf EXCEPT ![t] = Append(q, p)]
  <2>1. Append(q, p) \in Seq(Pids)
    BY <1>4
  <2> QED BY <1>2, <1>3, <1>5, <2>1, OneStackChanges
<1>7. p \notin Abstract!Busy
  BY <1>2, <1>3, FreeNotBusy
<1> QED BY <1>1, <1>2, <1>4, <1>6, <1>7 DEF Abstract!Call

LEMMA HaltIsReturn ==
  ASSUME IInv, TypeOK', StackInv, Halt
  PROVE  StackInv' /\ Abstract!Return
<1>1. PICK t \in Terms : t = cur_execute_term
  BY DEF IInv, TypeOK
<1>2. /\ Foreground(t) = current_id /\ current_id \in Pids
      /\ pcb[current_id].parent_process_id # NULL
      /\ Foreground(t)' = pcb[current_id].parent_process_id
      /\ \A r \in Pids : Used(r) /\ r # current_id => LinksKept(r)
      /\ \A u \in Terms : u # t => Foreground(u)' = Foreground(u)
      /\ cur_execute_term' = t
  BY <1>1, HaltLinks
<1>3. TypeOK /\ Foreground(t) # NULL
  BY <1>2 DEF IInv
<1>4. PICK q \in Seq(Pids) : q = JobsOf[t] /\ StackAt(t, q) /\ q # <<>>
  BY <1>3, ActiveStack
<1> DEFINE x == SubSeq(q, 1, Len(q) - 1)
<1>5. Len(q) > 1 /\ StackAt(t, x)'
  <2>1. PICK c \in Pids : c = current_id
    BY <1>2
  <2> QED BY <1>2, <1>4, <2>1, PopStack
<1>6. x \in Seq(Pids)
  BY <1>4, <1>5
<1> HIDE DEF x
<1>7. pcb[current_id].term = t
  BY <1>1, CurrentProcess DEF Halt, IInv
<1>8. StackInv' /\ JobsOf' = [JobsOf EXCEPT ![t] = x]
  BY <1>2, <1>3, <1>5, <1>6, <1>7, OneStackChanges
<1> QED BY <1>1, <1>2, <1>4, <1>5, <1>8 DEF Abstract!Return, Abstract!Front, x

LEMMA HaltBaseShellIsRenew ==
  ASSUME IInv, TypeOK', StackInv, NEW p \in Pids, HaltBaseShell(p)
  PROVE  StackInv' /\ Abstract!Renew(p)
<1>1. PICK t \in Terms : t = cur_execute_term
  BY DEF IInv, TypeOK
<1>2. /\ Foreground(t) = current_id /\ current_id \in Pids
      /\ pcb[current_id].parent_process_id = NULL
      /\ p = current_id \/ ~Used(p)
      /\ Used(p)' /\ pcb'[p].term = t /\ pcb'[p].parent_process_id = NULL
      /\ \A r \in Pids : Used(r) /\ r # current_id => LinksKept(r)
      /\ pcb[current_id].term = t
      /\ Foreground(t)' = p
      /\ \A u \in Terms : u # t => Foreground(u)' = Foreground(u)
      /\ cur_execute_term' = t
  BY <1>1, HaltBaseShellLinks
<1>3. TypeOK /\ Foreground(t) # NULL
  BY <1>2 DEF IInv
<1>4. PICK q \in Seq(Pids) : q = JobsOf[t] /\ StackAt(t, q) /\ q # <<>>
  BY <1>3, ActiveStack
<1>5. q = <<current_id>>
  BY <1>2, <1>3, <1>4, ShellAlone
<1>6. StackAt(t, <<p>>)'
  BY <1>2, NewStack
<1>7. StackInv' /\ JobsOf' = [JobsOf EXCEPT ![t] = <<p>>]
  <2>1. <<p>> \in Seq(Pids)
    OBVIOUS
  <2> QED BY <1>2, <1>3, <1>6, <2>1, OneStackChanges
<1>8. p \notin Abstract!Busy \ {current_id}
  BY <1>2, <1>3, FreeNotBusy
<1> QED BY <1>1, <1>2, <1>4, <1>5, <1>7, <1>8 DEF Abstract!Renew

LEMMA StartTerminalIsBoot ==
  ASSUME IInv, TypeOK', StackInv, NEW t \in Terms, NEW p \in Pids,
         StartTerminal(t, p)
  PROVE  StackInv' /\ Abstract!Boot(t, p)
<1>1. /\ Foreground(t) = NULL /\ ~Used(p) /\ Used(p)'
      /\ pcb'[p].term = t /\ pcb'[p].parent_process_id = NULL
      /\ \A r \in Pids : Used(r) => LinksKept(r)
      /\ Foreground(t)' = p
      /\ \A u \in Terms : u # t => Foreground(u)' = Foreground(u)
      /\ cur_execute_term' = t
  BY StartTerminalLinks
<1>2. TypeOK
  BY DEF IInv
<1>3. JobsOf[t] = <<>>
  BY <1>1, <1>2, StacksNow DEF StackAt
<1>4. StackAt(t, <<p>>)'
  BY <1>1, NewStack
<1>5. StackInv' /\ JobsOf' = [JobsOf EXCEPT ![t] = <<p>>]
  <2>1. <<p>> \in Seq(Pids)
    OBVIOUS
  <2> QED BY <1>1, <1>2, <1>4, <2>1, OneStackChanges
<1>6. p \notin Abstract!Busy
  BY <1>1, <1>2, FreeNotBusy
<1> QED BY <1>1, <1>3, <1>5, <1>6 DEF Abstract!Boot

LEMMA ResumeIsPreempt ==
  ASSUME IInv, TypeOK', StackInv, NEW t \in Terms, Resume(t)
  PROVE  StackInv' /\ Abstract!Preempt(t)
<1>1. /\ Foreground(t) # NULL
      /\ \A r \in Pids : Used(r) => LinksKept(r)
      /\ \A u \in Terms : Foreground(u)' = Foreground(u)
      /\ cur_execute_term' = t
  BY ResumeLinks
<1>2. TypeOK
  BY DEF IInv
<1>3. StackInv' /\ JobsOf' = JobsOf
  BY <1>1, <1>2, NoStackChanges
<1>4. JobsOf[t] # <<>>
  BY <1>1, <1>2, ActiveStack
<1> QED BY <1>1, <1>3, <1>4 DEF Abstract!Preempt

\* Every step of the kernel is a step of JobControl or leaves it alone.
LEMMA StepsAreJobSteps ==
  IInv /\ TypeOK' /\ StackInv /\ [Next]_vars =>
    StackInv' /\ [Abstract!Next]_(Abstract!vars)
<1> SUFFICES ASSUME IInv, TypeOK', StackInv, [Next]_vars
             PROVE  StackInv' /\ [Abstract!Next]_(Abstract!vars)
  OBVIOUS
<1>1. ASSUME NEW p \in Pids, Execute(p)
      PROVE  StackInv' /\ Abstract!Next
  BY <1>1, ExecuteIsCall DEF Abstract!Next
<1>2. ASSUME Halt PROVE StackInv' /\ Abstract!Next
  BY <1>2, HaltIsReturn DEF Abstract!Next
<1>3. ASSUME NEW p \in Pids, HaltBaseShell(p)
      PROVE  StackInv' /\ Abstract!Next
  BY <1>3, HaltBaseShellIsRenew DEF Abstract!Next
<1>4. ASSUME NEW t \in Terms, NEW p \in Pids, StartTerminal(t, p)
      PROVE  StackInv' /\ Abstract!Next
  BY <1>4, StartTerminalIsBoot DEF Abstract!Next
<1>5. ASSUME NEW t \in Terms, Resume(t)
      PROVE  StackInv' /\ Abstract!Next
  BY <1>5, ResumeIsPreempt DEF Abstract!Next
<1>6. ASSUME \A p \in Pids : ~Execute(p) /\ ~HaltBaseShell(p), ~Halt,
             \A t \in Terms, p \in Pids : ~StartTerminal(t, p),
             \A t \in Terms : ~Resume(t)
      PROVE  StackInv' /\ UNCHANGED Abstract!vars
  <2>1. /\ \A r \in Pids : Used(r) => LinksKept(r)
        /\ \A u \in Terms : Foreground(u)' = Foreground(u)
        /\ cur_execute_term' = cur_execute_term
    BY <1>6, QuietLinks
  <2>2. StackInv' /\ JobsOf' = JobsOf
    BY <2>1, NoStackChanges DEF IInv
  <2> QED BY <2>1, <2>2 DEF Abstract!vars
<1> QED BY <1>1, <1>2, <1>3, <1>4, <1>5, <1>6

LEMMA StacksStart == Init => StackInv /\ Abstract!Init
<1> SUFFICES ASSUME Init PROVE StackInv /\ Abstract!Init
  OBVIOUS
<1>1. TypeOK /\ \A t \in Terms : Foreground(t) = NULL
  BY InitInv DEF Init, Foreground, IInv
<1>2. <<>> \in Seq(Pids) /\ \A t \in Terms : StackAt(t, <<>>)
  BY <1>1 DEF StackAt
<1>3. \A t \in Terms : JobsOf[t] = <<>>
  BY <1>1, <1>2, JobsAreStacks DEF StacksUnique
<1>4. JobsOf = [t \in Terms |-> <<>>]
  <2>1. JobsOf = [t \in Terms |-> JobsOf[t]]
    BY DEF JobsOf
  <2> QED BY <1>3, <2>1
<1> QED BY <1>1, <1>2, <1>4 DEF StackInv, Abstract!Init, TypeOK

\* At all times every terminal runs a stack of processes linked by their
\* parents, and JobsOf is that stack (systemcall_handler.c, execute and halt).
THEOREM StacksInvariance ==
  Spec => [](StackInv /\ \A t \in Terms : StackAt(t, JobsOf[t]))
<1>1. IInv => TypeOK
  BY DEF IInv
<1>2. Init => IInv /\ StackInv
  BY InitInv, StacksStart
<1>3. IInv /\ StackInv /\ [Next]_vars => (IInv /\ StackInv)'
  BY NextInv, StepsAreJobSteps DEF IInv
<1>4. IInv /\ StackInv => StackInv /\ \A t \in Terms : StackAt(t, JobsOf[t])
  BY <1>1, StacksNow
<1> QED BY <1>2, <1>3, <1>4, PTL DEF Spec

\* The kernel keeps the promise of JobControl: execute puts its child on top of
\* the caller's stack, halt takes exactly the halting process away, the shell
\* of a terminal is renewed when it halts, and a tick moves nothing but the
\* processor (systemcall_handler.c with pit.c).
THEOREM RefinesJobControl == Spec => ImplementsJobControl
<1>1. Init => IInv /\ StackInv /\ Abstract!Init
  BY InitInv, StacksStart
<1>2. IInv /\ StackInv /\ [Next]_vars =>
        (IInv /\ StackInv)' /\ [Abstract!Next]_(Abstract!vars)
  BY NextInv, StepsAreJobSteps DEF IInv
<1> QED BY <1>1, <1>2, PTL DEF Spec, ImplementsJobControl, Abstract!Spec
=============================================================================
