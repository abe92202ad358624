------------------------------- MODULE Paging -------------------------------
(***************************************************************************)
(* The part of the page tables that changes while the kernel runs          *)
(* (paging.c), as a record m and one operator per function of paging.c:    *)
(*   m.user    the process whose 4MB page is mapped at 128MB (directory    *)
(*             entry 32), or NULL before the first set_page                *)
(*   m.vim     the physical frame behind the kernel's 0xB8000              *)
(*   m.vidPd   present bit of the directory entry for 136MB                *)
(*   m.vidPt   present bit of entry 0 of page_table_vidmap, the only entry *)
(*             that is ever present (136MB >> 12 has a zero table index)   *)
(*   m.vidBase the frame that entry points to                              *)
(*   m.armed   user_vim_pd_idx / vidmap_pd_idx were set by set_video_mem;  *)
(*             before, they are 0 and name the low 4MB, always present     *)
(* Attribute bits (r/w, u/s, ...) never change after they are set; the     *)
(* reloads of CR3 are not modelled: every operator ends with one.          *)
(***************************************************************************)
EXTENDS Integers

\* No process, and a null pointer: the code's -1 and 0.
NULL == -1

\* The frame at 0xB8000 that the display shows.
Video == -1

\* The backing page of a terminal: 0xB9000, 0xBA000 or 0xBB000.
Backing(exe) == IF exe \in {0, 1} THEN exe ELSE 2

Frames == {Video, 0, 1, 2}

\* Where the executing terminal's screen lives: the display if that terminal
\* is the visible one, its own backing page otherwise.
Frame(vis, exe) == IF vis = exe THEN Video ELSE Backing(exe)

Mmu(Pids) == [user : Pids \cup {NULL}, vim : Frames, vidPd : BOOLEAN,
              vidPt : BOOLEAN, vidBase : Frames, armed : BOOLEAN]

\* paging_init: 0xB8000 maps to itself, nothing above 8MB is present.
PagingInit == [user |-> NULL, vim |-> Video, vidPd |-> FALSE, vidPt |-> FALSE,
               vidBase |-> Video, armed |-> FALSE]

\* Seeded fault: the user page is not switched.
SetPage_Stale(m, pid) == IF m.user = NULL THEN [m EXCEPT !.user = pid] ELSE m

SetPage(m, pid) == [m EXCEPT !.user = pid]

SetVideoMem(m, vis, exe) ==
  [m EXCEPT !.vidPt = TRUE, !.vidPd = TRUE, !.armed = TRUE,
            !.vidBase = Frame(vis, exe)]

UndoVidmap(m) == [m EXCEPT !.vidPt = FALSE, !.vidPd = FALSE]

\* Seeded fault: the vidmap page of a process that has one is not moved.
SwitchTermVim_KeepBase(m, flag, vis, exe) ==
  [m EXCEPT !.vidPt = (flag # 0),
            !.vidPd = @ \/ (flag # 0 /\ m.armed),
            !.vim = Frame(vis, exe)]

\* flag is pid_vidmap_flag[current_id].  Only the table entry is cleared for a
\* process without vidmap; the directory entry stays as it was.
SwitchTermVim(m, flag, vis, exe) ==
  [m EXCEPT !.vidPt = (flag # 0),
            !.vidPd = @ \/ (flag # 0 /\ m.armed),
            !.vim = Frame(vis, exe),
            !.vidBase = IF flag = 1 THEN Frame(vis, exe) ELSE @]

\* The user program that now runs can write to video memory through 136MB.
VidmapReachable(m) == m.vidPd /\ m.vidPt
=============================================================================
