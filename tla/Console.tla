------------------------------ MODULE Console -------------------------------
(***************************************************************************)
(* Text output (lib.c): putc, which the keyboard handler and the kernel's  *)
(* printf use, putct, which terminal_write uses, and reset_screen.  putc   *)
(* writes through 0xB8000, whose frame switch_term_vim chooses, and moves  *)
(* the cursor of the display; putct chooses page and cursor itself.        *)
(*                                                                         *)
(* write sets IF before it calls terminal_write, so a key, a switch of     *)
(* terminals and a tick may come between any two accesses of putct to      *)
(* shared variables: putct is one action per access, and after ticks       *)
(* several terminals may be inside it.  The handlers of interrupts and     *)
(* the system calls that print a message run with IF clear, in one step.   *)
(*                                                                         *)
(* Every terminal also has a tape, a history of what its screen should     *)
(* show: the printed text without rows and columns.                        *)
(***************************************************************************)
EXTENDS Paging

CONSTANTS
  NumTerm,              \* number of terminals, 3 in the code
  NUM_COLS, NUM_ROWS,   \* 80 and 25 in the code
  Glyphs                \* printable characters

ASSUME ConsoleAssumption ==
  /\ NumTerm \in 1..3
  /\ NUM_COLS \in Nat /\ NUM_COLS >= 2
  /\ NUM_ROWS \in Nat /\ NUM_ROWS >= 2
  /\ {"blank", "newline", "backspace"} \cap Glyphs = {}

Terms == 0..(NumTerm - 1)
Xs == 0..(NUM_COLS - 1)
Ys == 0..(NUM_ROWS - 1)

Blank == "blank"
Newline == "newline"
Backspace == "backspace"
Output == Glyphs \cup {Newline, Backspace}
Cells == [Ys \X Xs -> Glyphs \cup {Blank, Backspace}]

VARIABLES
  cur_vis_term, cur_execute_term,
  page,        \* the display's frame and the backing frames
  display,     \* screen_x and screen_y: the cursor of the display
  cursor,      \* screen_x1, screen_y1, ...: the cursors of the terminals
  video_mem_t, \* the address putct draws at, one for all terminals
  call,        \* per terminal: its call of putct, with the locals
  tape,        \* history: per terminal, the text it should show
  strayed      \* history: per terminal, the kinds of output that went astray

terminals == <<cur_vis_term, cur_execute_term>>
screens == <<page, display, cursor>>
history == <<tape, strayed>>
vars == <<terminals, screens, video_mem_t, call, history>>

-----------------------------------------------------------------------------
(* One character on a page                                                 *)

Cursor(y, x) == [y |-> y, x |-> x]
Cleared == [p \in Ys \X Xs |-> Blank]

\* The rows move up one and the last one is blank.
Scrolled(cells) == [p \in Ys \X Xs |->
  IF p[1] = NUM_ROWS - 1 THEN Blank ELSE cells[<<p[1] + 1, p[2]>>]]

\* Seeded faults: the cursor leaves the last row without a scroll; a backspace
\* at the left margin stays in its row.
Put_NoScroll(cells, at, c) ==
  LET x == at.x  y == at.y
  IN  CASE c = Newline -> [cells |-> cells, at |-> Cursor(y + 1, 0)]
        [] c = Backspace -> [cells |-> cells, at |-> at]
        [] OTHER -> [cells |-> [cells EXCEPT ![<<y, x>>] = c],
                     at |-> IF x = NUM_COLS - 1 THEN Cursor(y, 0) ELSE Cursor(y, x + 1)]

\* putc and putct: what a character does to a page and a cursor.  The test for
\* the last cell comes before the tests for a backspace.
Put(cells, at, c) ==
  LET x == at.x
      y == at.y
      lastRow == y = NUM_ROWS - 1
      lastCol == x = NUM_COLS - 1
      Write(row, col, ch) == [cells EXCEPT ![<<row, col>>] = ch]
  IN  IF c = Newline
      THEN IF lastRow THEN [cells |-> Scrolled(cells), at |-> Cursor(y, 0)]
                      ELSE [cells |-> cells, at |-> Cursor(y + 1, 0)]
      ELSE IF lastRow /\ lastCol
      THEN [cells |-> Scrolled(Write(y, x, c)), at |-> Cursor(y, 0)]
      ELSE IF c = Backspace
      THEN IF x # 0 THEN [cells |-> Write(y, x - 1, Blank), at |-> Cursor(y, x - 1)]
           ELSE IF y # 0 THEN [cells |-> Write(y - 1, NUM_COLS - 1, Blank),
                               at |-> Cursor(y - 1, NUM_COLS - 1)]
           ELSE [cells |-> cells, at |-> at]
      ELSE IF lastCol THEN [cells |-> Write(y, x, c), at |-> Cursor(y + 1, 0)]
                      ELSE [cells |-> Write(y, x, c), at |-> Cursor(y, x + 1)]

-----------------------------------------------------------------------------
(* The reference: text without rows                                        *)

Size == NUM_COLS * NUM_ROWS
EmptyTape == [text |-> [i \in 0..(Size - 1) |-> Blank], pos |-> 0]

\* When the text reaches the end, its first row drops out.
Fit(t) ==
  IF t.pos < Size THEN t
  ELSE [text |-> [i \in 0..(Size - 1) |->
                    IF i + NUM_COLS < Size THEN t.text[i + NUM_COLS] ELSE Blank],
        pos |-> t.pos - NUM_COLS]

Append(t, c) ==
  IF c = Newline THEN Fit([t EXCEPT !.pos = ((@ \div NUM_COLS) + 1) * NUM_COLS])
  ELSE IF c # Backspace
  THEN Fit([text |-> [t.text EXCEPT ![t.pos] = c], pos |-> t.pos + 1])
  ELSE IF t.pos = 0 THEN t
  ELSE [text |-> [t.text EXCEPT ![t.pos - 1] = Blank], pos |-> t.pos - 1]

-----------------------------------------------------------------------------
\* A call of putct: the access that comes next, or "out" between two calls; the
\* character; what the last test for the visible terminal found; and the locals
\* screen_xt and screen_yt.
Out == [pc |-> "out", c |-> Newline, here |-> FALSE, at |-> Cursor(0, 0)]

Init ==
  /\ cur_vis_term = 0 /\ cur_execute_term = 0
  /\ page = [f \in {Video} \cup Terms |-> Cleared]
  /\ display = Cursor(0, 0)
  /\ cursor = [t \in Terms |-> Cursor(0, 0)]
  /\ video_mem_t = Video
  /\ call = [t \in Terms |-> Out]
  /\ tape = [t \in Terms |-> EmptyTape]
  /\ strayed = [t \in Terms |-> {}]

\* A backspace in the last cell is taken for a character to print.
Corner(at, c) ==
  IF c = Backspace /\ at = Cursor(NUM_ROWS - 1, NUM_COLS - 1) THEN {"corner"} ELSE {}

Record(t, c, kinds) ==
  /\ tape' = [tape EXCEPT ![t] = Append(@, c)]
  /\ strayed' = [strayed EXCEPT ![t] = @ \cup kinds]

Marked(kind, S) ==
  [t \in Terms |-> IF t \in S THEN strayed[t] \cup {kind} ELSE strayed[t]]

\* The putct of t has copied a cursor and not ended.
HoldsCopy(t) == call[t].pc \notin {"out", "x"}

-----------------------------------------------------------------------------
(* putct, access by access, by the terminal that runs                      *)

own == call[cur_execute_term]
Does(pc, local) ==
  /\ own.pc = pc
  /\ call' = [call EXCEPT ![cur_execute_term] = local]
  /\ UNCHANGED terminals

\* The first test.
putct(c) ==
  /\ Does("out", [Out EXCEPT !.pc = "x", !.c = c,
                             !.here = (cur_execute_term = cur_vis_term)])
  /\ UNCHANGED <<screens, video_mem_t, history>>

\* Where putct prints: at the cursor of the display or of the terminal.
Source == IF own.here THEN display ELSE cursor[cur_execute_term]

CopyX ==
  /\ Does("x", [own EXCEPT !.pc = "y", !.at.x = Source.x])
  /\ UNCHANGED <<screens, video_mem_t, history>>

CopyY ==
  /\ Does("y", [own EXCEPT !.pc = "page", !.at.y = Source.y])
  /\ UNCHANGED <<screens, video_mem_t, history>>

\* video_mem_t is shared: a character another terminal has not drawn yet now goes
\* to this page.  0xB8000 is every terminal's own screen, a backing page is not.
SetVideoMemT ==
  LET waiting == {t \in Terms \ {cur_execute_term} : call[t].pc = "draw"}
  IN  /\ Does("page", [own EXCEPT !.pc = "draw"])
      /\ video_mem_t' = IF own.here THEN Video ELSE Backing(cur_execute_term)
      /\ strayed' = IF own.here \/ waiting = {} THEN strayed
                    ELSE Marked("race", waiting \cup {cur_execute_term})
      /\ UNCHANGED <<screens, tape>>

\* The frame behind video_mem_t while this terminal runs.
Drawn == IF video_mem_t = Video THEN Frame(cur_vis_term, cur_execute_term)
         ELSE video_mem_t

\* All writes to the page at once: what may come between them and tell has
\* strayed in "race" as if it came before them.
Draw ==
  LET new == Put(page[Drawn], own.at, own.c)
  IN  /\ Does("draw", [own EXCEPT !.pc = "retest", !.c = Out.c, !.at = new.at])
      /\ page' = [page EXCEPT ![Drawn] = new.cells]
      /\ Record(cur_execute_term, own.c, Corner(own.at, own.c))
      /\ UNCHANGED <<display, cursor, video_mem_t>>

\* Seeded fault: the result of the first test is kept.
SecondTest_First == own.here

SecondTest == cur_execute_term = cur_vis_term

Retest ==
  /\ Does("retest", [own EXCEPT !.pc = IF SecondTest THEN "showx" ELSE "savex"])
  /\ UNCHANGED <<screens, video_mem_t, history>>

ShowX ==
  /\ Does("showx", [own EXCEPT !.pc = "showy"])
  /\ display' = [display EXCEPT !.x = own.at.x]
  /\ UNCHANGED <<page, cursor, video_mem_t, history>>

ShowY ==
  /\ Does("showy", [own EXCEPT !.pc = "savex"])
  /\ display' = [display EXCEPT !.y = own.at.y]
  /\ UNCHANGED <<page, cursor, video_mem_t, history>>

SaveX ==
  /\ Does("savex", [own EXCEPT !.pc = "savey"])
  /\ cursor' = [cursor EXCEPT ![cur_execute_term].x = own.at.x]
  /\ UNCHANGED <<page, display, video_mem_t, history>>

SaveY ==
  /\ Does("savey", Out)
  /\ cursor' = [cursor EXCEPT ![cur_execute_term].y = own.at.y]
  /\ UNCHANGED <<page, display, video_mem_t, history>>

-----------------------------------------------------------------------------
(* Everyone else, with IF clear                                            *)

\* putc through the frame f behind 0xB8000.
putc(f, c) ==
  LET new == Put(page[f], display, c)
  IN  /\ page' = [page EXCEPT ![f] = new.cells]
      /\ display' = new.at
      /\ UNCHANGED <<cursor, video_mem_t, call, terminals>>

\* The frame the keyboard handler maps around putc.
EchoFrame == Frame(cur_vis_term, cur_vis_term)

\* The keyboard handler shows a character in the line of the visible terminal.
Echo(c) ==
  /\ putc(EchoFrame, c)
  /\ Record(cur_vis_term, c,
            Corner(display, c) \cup IF HoldsCopy(cur_vis_term) THEN {"race"} ELSE {})

\* A kernel message (printf) in a system call of the program that runs: the
\* frame is that of its terminal, the cursor that of the display.
Message(c) ==
  /\ own.pc = "out"
  /\ putc(Frame(cur_vis_term, cur_execute_term), c)
  /\ tape' = [tape EXCEPT ![cur_execute_term] = Append(@, c)]
  /\ strayed' = IF cur_vis_term = cur_execute_term THEN strayed
                ELSE Marked("message", {cur_vis_term, cur_execute_term})

\* Ctrl and L: reset_screen, with the frame of the terminal that runs.
reset_screen ==
  /\ page' = [page EXCEPT ![Frame(cur_vis_term, cur_execute_term)] = Cleared]
  /\ display' = Cursor(0, 0)
  /\ tape' = [tape EXCEPT ![cur_vis_term] = EmptyTape]
  /\ strayed' = IF cur_vis_term # cur_execute_term
                THEN Marked("reset", {cur_vis_term, cur_execute_term})
                ELSE Marked("race", {t \in {cur_vis_term} : HoldsCopy(t)})
  /\ UNCHANGED <<cursor, video_mem_t, call, terminals>>

SavedCursors == [cursor EXCEPT ![cur_vis_term] = display]

\* A switch to v inside a putct strays on the terminal that goes while it copies
\* the cursor of the display, on v while it draws on its backing page or after its
\* second test, and on v while another is about to write the cursor of the display.
Torn(v) ==
  {t \in {cur_vis_term} : call[t].pc \in {"x", "y"}}
  \cup {t \in {v} : \/ call[t].pc \in {"x", "y", "page", "draw"} /\ ~call[t].here
                    \/ call[t].pc \in {"showx", "showy", "savex", "savey"}
                    \/ \E u \in Terms \ {v} : call[u].pc \in {"showx", "showy"}}

\* Another terminal on the display: page and cursor of the old one are kept.
TermSwitch(v) ==
  /\ v # cur_vis_term
  /\ page' = [page EXCEPT ![Backing(cur_vis_term)] = page[Video],
                          ![Video] = page[Backing(v)]]
  /\ cursor' = SavedCursors
  /\ display' = cursor[v]
  /\ cur_vis_term' = v
  /\ strayed' = Marked("race", Torn(v))
  /\ UNCHANGED <<cur_execute_term, video_mem_t, call, tape>>

\* The scheduler gives the CPU to another terminal.
Switch(t) ==
  /\ t # cur_execute_term
  /\ cur_execute_term' = t
  /\ UNCHANGED <<cur_vis_term, screens, video_mem_t, call, history>>

Prints ==
  \/ \E c \in Output : putct(c) \/ Echo(c)
  \/ \E c \in Glyphs \cup {Newline} : Message(c)
  \/ reset_screen

Step == \/ CopyX \/ CopyY \/ SetVideoMemT \/ Draw \/ Retest
        \/ ShowX \/ ShowY \/ SaveX \/ SaveY

Moves == \E t \in Terms : TermSwitch(t) \/ Switch(t)

Next == Prints \/ Step \/ Moves

Spec == Init /\ [][Next]_vars

-----------------------------------------------------------------------------
(* Properties                                                              *)

Cursors == [y : Ys, x : Xs]

Calls == [pc : {"out", "x", "y", "page", "draw", "retest", "showx", "showy", "savex", "savey"},
          c : Output, here : BOOLEAN, at : Cursors]

\* Every cursor stays on the screen, torn ones and the copies of putct included,
\* so putc and putct never write to video memory outside a page.
TypeOK ==
  /\ cur_vis_term \in Terms /\ cur_execute_term \in Terms
  /\ page \in [{Video} \cup Terms -> Cells]
  /\ display \in Cursors
  /\ cursor \in [Terms -> Cursors]
  /\ video_mem_t \in {Video} \cup Terms
  /\ call \in [Terms -> Calls]

\* The page and the cursor of a terminal are those of its text.
ScreenOf(t) == IF t = cur_vis_term THEN page[Video] ELSE page[Backing(t)]
CursorOf(t) == IF t = cur_vis_term THEN display ELSE cursor[t]
Shows(t) ==
  /\ \A p \in Ys \X Xs : ScreenOf(t)[p] = tape[t].text[p[1] * NUM_COLS + p[2]]
  /\ CursorOf(t).y * NUM_COLS + CursorOf(t).x = tape[t].pos

\* Between a character drawn by putct and the end of the call the cursor is old.
CursorPending(t) == call[t].pc \in {"retest", "showx", "showy", "savex", "savey"}

\* Bound of the runs: a behaviour is followed as long as some terminal is right.
SomeRight == \E t \in Terms : strayed[t] = {}

\* However the accesses of putct, echo, switches of terminals and ticks
\* interleave, every terminal shows its own text and nothing else, unless one of
\* these hit it: a backspace in the last cell; a message of a terminal in the
\* background; a reset_screen while another terminal runs; an echo or a
\* reset_screen after its putct copied the cursor; two terminals in putct that
\* draw at once, one of them on its backing page; a switch at a point of Torn.
TerminalsShowTheirText ==
  \A t \in Terms : strayed[t] = {} /\ ~CursorPending(t) => Shows(t)
=============================================================================
