---------------------------- MODULE ConsoleProofs ---------------------------
(***************************************************************************)
(* For every size of the screen: the cursors never leave it, so no         *)
(* character is written outside its page; and every terminal shows its own *)
(* text, the cells of its page being the places of the text row by row.    *)
(***************************************************************************)
EXTENDS Console, TLAPS

\* One character, printed on a page with the cursor on the screen, leaves a page
\* with the cursor on the screen.
LEMMA PutOnScreen ==
  ASSUME NEW cells \in Cells, NEW at \in Cursors, NEW c \in Output
  PROVE  /\ Put(cells, at, c).cells \in Cells
         /\ Put(cells, at, c).at \in Cursors
<1>1. /\ at.x \in Xs /\ at.y \in Ys
      /\ NUM_COLS \in Nat /\ NUM_COLS >= 2 /\ NUM_ROWS \in Nat /\ NUM_ROWS >= 2
  BY ConsoleAssumption DEF Cursors
<1>2. \A row \in Ys, col \in Xs, ch \in Glyphs \cup {Blank, Backspace} :
        [cells EXCEPT ![<<row, col>>] = ch] \in Cells
  BY DEF Cells
<1>3. \A page1 \in Cells : Scrolled(page1) \in Cells
  <2> SUFFICES ASSUME NEW page1 \in Cells PROVE Scrolled(page1) \in Cells
    OBVIOUS
  <2>1. ASSUME NEW p \in Ys \X Xs, p[1] # NUM_ROWS - 1
        PROVE  page1[<<p[1] + 1, p[2]>>] \in Glyphs \cup {Blank, Backspace}
    <3>1. p[1] + 1 \in Ys /\ p[2] \in Xs
      BY <2>1, <1>1 DEF Ys, Xs
    <3> QED BY <3>1 DEF Cells
  <2> QED BY <2>1 DEF Scrolled, Cells
<1>4. \A row \in Ys, col \in Xs : Cursor(row, col) \in Cursors
  BY DEF Cursor, Cursors
<1>5. 0 \in Xs
  BY <1>1 DEF Xs
<1>6. CASE c = Newline
  <2>1. c # Backspace
    BY <1>6 DEF Newline, Backspace
  <2>2. at.y # NUM_ROWS - 1 => at.y + 1 \in Ys
    BY <1>1 DEF Ys
  <2>3. CASE at.y = NUM_ROWS - 1
    <3>1. Put(cells, at, c) = [cells |-> Scrolled(cells), at |-> Cursor(at.y, 0)]
      BY <1>6, <2>1, <2>3 DEF Put
    <3> QED BY <3>1, <1>1, <1>3, <1>4, <1>5
  <2>4. CASE at.y # NUM_ROWS - 1
    <3>1. Put(cells, at, c) = [cells |-> cells, at |-> Cursor(at.y + 1, 0)]
      BY <1>6, <2>1, <2>4 DEF Put
    <3> QED BY <3>1, <1>1, <1>4, <1>5, <2>2, <2>4
  <2> QED BY <2>3, <2>4
<1>7. CASE c # Newline
  <2>1. CASE at.y = NUM_ROWS - 1 /\ at.x = NUM_COLS - 1
    <3>1. /\ Put(cells, at, c).cells = Scrolled([cells EXCEPT ![<<at.y, at.x>>] = c])
          /\ Put(cells, at, c).at = Cursor(at.y, 0)
      <4>1. ~(at.x = 0)
        BY <2>1, <1>1
      <4> QED BY <1>7, <2>1, <4>1 DEF Put
    <3>2. [cells EXCEPT ![<<at.y, at.x>>] = c] \in Cells
      BY <1>1, <1>2, <1>7 DEF Output
    <3> QED BY <3>1, <3>2, <1>1, <1>3, <1>4, <1>5
  <2>2. CASE c = Backspace /\ ~(at.y = NUM_ROWS - 1 /\ at.x = NUM_COLS - 1)
    <3>0. \A row \in Ys, col \in Xs : [cells EXCEPT ![<<row, col>>] = Blank] \in Cells
      BY <1>2
    <3>1. CASE at.x = 0 /\ at.y = 0
      <4>1. Put(cells, at, c) = [cells |-> cells, at |-> at]
        BY <1>7, <2>2, <3>1 DEF Put
      <4> QED BY <4>1
    <3>2. CASE at.x = 0 /\ at.y # 0
      <4>1. at.y - 1 \in Ys /\ NUM_COLS - 1 \in Xs
        BY <3>2, <1>1 DEF Ys, Xs
      <4>2. Put(cells, at, c) = [cells |-> [cells EXCEPT ![<<at.y - 1, NUM_COLS - 1>>] = Blank],
                                 at |-> Cursor(at.y - 1, NUM_COLS - 1)]
        BY <1>7, <2>2, <3>2 DEF Put
      <4>3. [cells EXCEPT ![<<at.y - 1, NUM_COLS - 1>>] = Blank] \in Cells
        BY <4>1, <3>0
      <4>4. Cursor(at.y - 1, NUM_COLS - 1) \in Cursors
        BY <4>1, <1>4
      <4> QED BY <4>2, <4>3, <4>4
    <3>3. CASE at.x # 0
      <4>1. at.x - 1 \in Xs
        BY <3>3, <1>1 DEF Xs
      <4>2. Put(cells, at, c) = [cells |-> [cells EXCEPT ![<<at.y, at.x - 1>>] = Blank],
                                 at |-> Cursor(at.y, at.x - 1)]
        BY <1>7, <2>2, <3>3 DEF Put
      <4>3. [cells EXCEPT ![<<at.y, at.x - 1>>] = Blank] \in Cells
        BY <4>1, <1>1, <3>0
      <4>4. Cursor(at.y, at.x - 1) \in Cursors
        BY <4>1, <1>1, <1>4
      <4> QED BY <4>2, <4>3, <4>4
    <3> QED BY <3>1, <3>2, <3>3
  <2>3. CASE c # Backspace /\ ~(at.y = NUM_ROWS - 1 /\ at.x = NUM_COLS - 1)
    <3>1. c \in Glyphs
      BY <1>7, <2>3 DEF Output
    <3>2. [cells EXCEPT ![<<at.y, at.x>>] = c] \in Cells
      BY <3>1, <1>1, <1>2
    <3>3. CASE at.x = NUM_COLS - 1
      <4>1. at.y + 1 \in Ys
        BY <2>3, <3>3, <1>1 DEF Ys
      <4>2. Put(cells, at, c) = [cells |-> [cells EXCEPT ![<<at.y, at.x>>] = c],
                                 at |-> Cursor(at.y + 1, 0)]
        BY <1>7, <2>3, <3>1, <3>3 DEF Put
      <4> QED BY <4>1, <4>2, <3>2, <1>4, <1>5
    <3>4. CASE at.x # NUM_COLS - 1
      <4>1. at.x + 1 \in Xs
        BY <3>4, <1>1 DEF Xs
      <4>2. Put(cells, at, c) = [cells |-> [cells EXCEPT ![<<at.y, at.x>>] = c],
                                 at |-> Cursor(at.y, at.x + 1)]
        BY <1>7, <2>3, <3>1, <3>4 DEF Put
      <4> QED BY <4>1, <4>2, <3>2, <1>1, <1>4
    <3> QED BY <3>3, <3>4
  <2> QED BY <2>1, <2>2, <2>3
<1> QED BY <1>6, <1>7

\* Every frame the code writes to is the display or the page of a terminal.
LEMMA FramesExist ==
  ASSUME NEW t \in Terms, NEW u \in Terms
  PROVE  /\ Backing(t) = t
         /\ Frame(u, t) \in {Video} \cup Terms
<1>1. t \in {0, 1, 2}
  BY ConsoleAssumption DEF Terms
<1>2. Backing(t) = t
  BY <1>1 DEF Backing
<1> QED BY <1>2 DEF Frame

\* One character through 0xB8000 (putc): pages and cursors keep their types.
LEMMA PutcTypes ==
  ASSUME TypeOK, NEW f \in {Video} \cup Terms, NEW c \in Output, putc(f, c)
  PROVE  /\ page' \in [{Video} \cup Terms -> Cells]
         /\ display' \in Cursors
         /\ cursor' \in [Terms -> Cursors]
<1> DEFINE new == Put(page[f], display, c)
<1>1. page[f] \in Cells /\ display \in Cursors
  BY DEF TypeOK
<1>2. new.cells \in Cells /\ new.at \in Cursors
  BY <1>1, PutOnScreen
<1>3. page' = [page EXCEPT ![f] = new.cells] /\ display' = new.at /\ cursor' = cursor
  BY DEF putc
<1> HIDE DEF new
<1> QED BY <1>2, <1>3 DEF TypeOK

LEMMA InitTypes == Init => TypeOK
<1> SUFFICES ASSUME Init PROVE TypeOK
  OBVIOUS
<1>1. 0 \in Terms /\ 0 \in Xs /\ 0 \in Ys
  BY ConsoleAssumption DEF Terms, Xs, Ys
<1>2. Cleared \in Cells /\ Cursor(0, 0) \in Cursors
  BY <1>1 DEF Cleared, Cells, Cursor, Cursors
<1>3. Out \in Calls
  BY <1>2 DEF Out, Calls, Output
<1> QED BY <1>1, <1>2, <1>3 DEF Init, TypeOK

\* An access of putct by the terminal that runs, with the locals it leaves.
LEMMA DoesTypes ==
  ASSUME TypeOK, NEW pc, NEW local \in Calls, Does(pc, local)
  PROVE  /\ call' \in [Terms -> Calls]
         /\ cur_vis_term' \in Terms /\ cur_execute_term' \in Terms
BY DEF Does, TypeOK, terminals

LEMMA NextTypes == TypeOK /\ [Next]_vars => TypeOK'
<1> SUFFICES ASSUME TypeOK, [Next]_vars PROVE TypeOK'
  OBVIOUS
<1> USE DEF terminals, screens, history
<1>1. CASE UNCHANGED vars
  BY <1>1 DEF vars, TypeOK
<1>a. /\ own \in Calls /\ own.at \in Cursors /\ own.c \in Output
      /\ own.at.x \in Xs /\ own.at.y \in Ys
      /\ display.x \in Xs /\ display.y \in Ys /\ Source \in Cursors
      /\ Source.x \in Xs /\ Source.y \in Ys
  BY DEF TypeOK, own, Calls, Cursors, Source
<1>b. Out \in Calls
  <2>1. 0 \in Xs /\ 0 \in Ys
    BY ConsoleAssumption DEF Xs, Ys
  <2> QED BY <2>1 DEF Out, Calls, Output, Cursor, Cursors
<1>2. ASSUME NEW c \in Output, putct(c) PROVE TypeOK'
  <2> DEFINE local == [Out EXCEPT !.pc = "x", !.c = c,
                                  !.here = (cur_execute_term = cur_vis_term)]
  <2>1. local \in Calls
    BY <1>b DEF Calls
  <2>2. Does("out", local) /\ UNCHANGED <<page, display, cursor, video_mem_t>>
    BY <1>2 DEF putct
  <2> HIDE DEF local
  <2> QED BY <2>1, <2>2, DoesTypes DEF TypeOK
<1>3. ASSUME NEW c \in Output, Echo(c) PROVE TypeOK'
  <2>1. EchoFrame \in {Video} \cup Terms
    BY FramesExist DEF EchoFrame, TypeOK
  <2>2. putc(EchoFrame, c) /\ UNCHANGED <<cur_vis_term, cur_execute_term, video_mem_t, call>>
    BY <1>3 DEF Echo, putc
  <2> QED BY <2>1, <2>2, PutcTypes DEF TypeOK
<1>4. ASSUME NEW c \in Output, Message(c) PROVE TypeOK'
  <2>1. Frame(cur_vis_term, cur_execute_term) \in {Video} \cup Terms
    BY FramesExist DEF TypeOK
  <2>2. /\ putc(Frame(cur_vis_term, cur_execute_term), c)
        /\ UNCHANGED <<cur_vis_term, cur_execute_term, video_mem_t, call>>
    BY <1>4 DEF Message, putc
  <2> QED BY <2>1, <2>2, PutcTypes DEF TypeOK
<1>5. CASE reset_screen
  <2>1. 0 \in Xs /\ 0 \in Ys
    BY ConsoleAssumption DEF Xs, Ys
  <2>2. Cleared \in Cells /\ Cursor(0, 0) \in Cursors
    BY <2>1 DEF Cleared, Cells, Cursor, Cursors
  <2> QED BY <1>5, <2>2 DEF reset_screen, TypeOK
<1>6. ASSUME NEW t \in Terms, TermSwitch(t) PROVE TypeOK'
  <2>1. Backing(t) \in Terms /\ Backing(cur_vis_term) \in Terms
    BY FramesExist DEF TypeOK
  <2>2. page' \in [{Video} \cup Terms -> Cells]
    BY <1>6, <2>1 DEF TermSwitch, TypeOK
  <2> QED BY <1>6, <2>2 DEF TermSwitch, SavedCursors, TypeOK
<1>7. ASSUME NEW t \in Terms, Switch(t) PROVE TypeOK'
  BY <1>7 DEF Switch, TypeOK
<1>8. CASE CopyX
  <2>1. [own EXCEPT !.pc = "y", !.at.x = Source.x] \in Calls
    BY <1>a DEF Calls, Cursors
  <2> QED BY <1>8, <2>1, DoesTypes DEF CopyX, TypeOK
<1>9. CASE CopyY
  <2>1. [own EXCEPT !.pc = "page", !.at.y = Source.y] \in Calls
    BY <1>a DEF Calls, Cursors
  <2> QED BY <1>9, <2>1, DoesTypes DEF CopyY, TypeOK
<1>10. CASE SetVideoMemT
  <2>1. [own EXCEPT !.pc = "draw"] \in Calls
    BY <1>a DEF Calls
  <2>2. video_mem_t' \in {Video} \cup Terms
    BY <1>10, FramesExist DEF SetVideoMemT, TypeOK
  <2> QED BY <1>10, <2>1, <2>2, DoesTypes DEF SetVideoMemT, TypeOK
<1>11. CASE Draw
  <2> DEFINE new == Put(page[Drawn], own.at, own.c)
  <2>1. Drawn \in {Video} \cup Terms
    BY FramesExist DEF TypeOK, Drawn
  <2>2. new.cells \in Cells /\ new.at \in Cursors
    BY <1>a, <2>1, PutOnScreen DEF TypeOK
  <2>3. /\ Does("draw", [own EXCEPT !.pc = "retest", !.c = Out.c, !.at = new.at])
        /\ page' = [page EXCEPT ![Drawn] = new.cells]
        /\ UNCHANGED <<display, cursor, video_mem_t>>
    BY <1>11 DEF Draw
  <2> HIDE DEF new
  <2>4. [own EXCEPT !.pc = "retest", !.c = Out.c, !.at = new.at] \in Calls
    BY <1>a, <2>2 DEF Calls, Out, Output
  <2> QED BY <2>1, <2>2, <2>3, <2>4, DoesTypes DEF TypeOK
<1>12. CASE Retest
  <2>1. [own EXCEPT !.pc = IF SecondTest THEN "showx" ELSE "savex"] \in Calls
    BY <1>a DEF Calls
  <2> QED BY <1>12, <2>1, DoesTypes DEF Retest, TypeOK
<1>13. CASE ShowX
  <2>1. [own EXCEPT !.pc = "showy"] \in Calls /\ [display EXCEPT !.x = own.at.x] \in Cursors
    BY <1>a DEF Calls, Cursors, TypeOK
  <2> QED BY <1>13, <2>1, DoesTypes DEF ShowX, TypeOK
<1>14. CASE ShowY
  <2>1. [own EXCEPT !.pc = "savex"] \in Calls /\ [display EXCEPT !.y = own.at.y] \in Cursors
    BY <1>a DEF Calls, Cursors, TypeOK
  <2> QED BY <1>14, <2>1, DoesTypes DEF ShowY, TypeOK
<1>15. CASE SaveX
  <2>1. [own EXCEPT !.pc = "savey"] \in Calls
    BY <1>a DEF Calls
  <2>2. [cursor EXCEPT ![cur_execute_term].x = own.at.x] \in [Terms -> Cursors]
    BY <1>a DEF Cursors, TypeOK
  <2> QED BY <1>15, <2>1, <2>2, DoesTypes DEF SaveX, TypeOK
<1>16. CASE SaveY
  <2>1. [cursor EXCEPT ![cur_execute_term].y = own.at.y] \in [Terms -> Cursors]
    BY <1>a DEF Cursors, TypeOK
  <2> QED BY <1>16, <1>b, <2>1, DoesTypes DEF SaveY, TypeOK
<1> QED BY <1>1, <1>2, <1>3, <1>4, <1>5, <1>6, <1>7, <1>8, <1>9, <1>10, <1>11,
           <1>12, <1>13, <1>14, <1>15, <1>16 DEF Next, Prints, Step, Moves, Output

\* The cursors of the display and of every terminal, and the copies putct holds,
\* stay on the screen, whoever prints what and whatever terminal is shown, torn
\* cursors included: lib.c computes the address of a character from them without a
\* test.
THEOREM CursorsOnScreen == Spec => []TypeOK
<1> QED BY InitTypes, NextTypes, PTL DEF Spec

-----------------------------------------------------------------------------
(* The place of a cell in the text                                         *)

Index(y, x) == y * NUM_COLS + x

LEMMA Sizes ==
  /\ NUM_COLS \in Nat /\ NUM_COLS >= 2 /\ NUM_ROWS \in Nat /\ NUM_ROWS >= 2
  /\ Size \in Nat
  /\ \A y \in Int, x \in Int : Index(y, x) \in Int
<1>1. NUM_COLS \in Nat /\ NUM_COLS >= 2 /\ NUM_ROWS \in Nat /\ NUM_ROWS >= 2
  BY ConsoleAssumption
<1> QED BY <1>1 DEF Size, Index

\* Rows follow each other.
LEMMA NextRow ==
  ASSUME NEW y \in Int, NEW x \in Int
  PROVE  /\ Index(y + 1, x) = Index(y, x) + NUM_COLS
         /\ Index(y, x + 1) = Index(y, x) + 1
         /\ Index(y, NUM_COLS - 1) + 1 = Index(y + 1, 0)
<1>1. (y + 1) * NUM_COLS = y * NUM_COLS + NUM_COLS /\ y * NUM_COLS \in Int
  BY Sizes
<1> DEFINE p == y * NUM_COLS
           q == (y + 1) * NUM_COLS
<1>2. p \in Int /\ q = p + NUM_COLS /\ NUM_COLS \in Int
  BY <1>1, Sizes
<1>3. Index(y, x) = p + x /\ Index(y + 1, x) = q + x /\ Index(y, x + 1) = p + (x + 1)
      /\ Index(y, NUM_COLS - 1) = p + (NUM_COLS - 1) /\ Index(y + 1, 0) = q + 0
  BY DEF Index
<1> HIDE DEF p, q
<1> QED BY <1>2, <1>3

\* Rows that lie further down have the greater indices.
LEMMA RowsApart ==
  ASSUME NEW y \in Ys, NEW z \in Ys, y < z, NEW x \in Xs, NEW w \in Xs
  PROVE  Index(y, x) < Index(z, w)
<1> DEFINE d == z - (y + 1)
           p == y * NUM_COLS
<1>1. d \in Nat /\ z = y + 1 + d /\ y \in Nat
  BY Sizes DEF Ys
<1>2. p \in Nat /\ d * NUM_COLS \in Nat
  BY <1>1, Sizes
<1>3. z * NUM_COLS = p + NUM_COLS + d * NUM_COLS
  <2> HIDE DEF d
  <2>1. z * NUM_COLS = (y + 1 + d) * NUM_COLS
    BY <1>1
  <2>2. (y + 1 + d) * NUM_COLS = y * NUM_COLS + NUM_COLS + d * NUM_COLS
    BY <1>1, Sizes
  <2> QED BY <2>1, <2>2
<1>4. x < NUM_COLS /\ w >= 0 /\ x \in Int /\ w \in Int /\ NUM_COLS \in Int
  BY Sizes DEF Xs
<1>5. Index(y, x) = p + x /\ Index(z, w) = p + NUM_COLS + d * NUM_COLS + w
  BY <1>3 DEF Index
<1> DEFINE e == d * NUM_COLS
<1> HIDE DEF p, d
<1>6. e \in Nat /\ Index(z, w) = p + NUM_COLS + e + w
  BY <1>2, <1>5
<1> HIDE DEF e
<1> QED BY <1>2, <1>4, <1>5, <1>6

\* Every cell has one place in the text, and every row but the last has a place
\* below it.
LEMMA Places ==
  ASSUME NEW y \in Ys, NEW x \in Xs
  PROVE  /\ Index(y, x) \in 0..(Size - 1)
         /\ \A z \in Ys, w \in Xs : Index(z, w) = Index(y, x) => z = y /\ w = x
         /\ Index(y, x) + NUM_COLS < Size <=> y # NUM_ROWS - 1
         /\ Index(y, x) \div NUM_COLS = y
<1>1. y \in Nat /\ y <= NUM_ROWS - 1 /\ x \in Nat /\ x <= NUM_COLS - 1
  BY Sizes DEF Ys, Xs
<1>2. NUM_ROWS - 1 \in Ys /\ NUM_COLS - 1 \in Xs /\ 0 \in Xs
  BY Sizes DEF Ys, Xs
<1>3. Index(NUM_ROWS - 1, NUM_COLS - 1) = Size - 1
      /\ Index(NUM_ROWS - 1, 0) = Size - NUM_COLS
  <2> DEFINE p == (NUM_ROWS - 1) * NUM_COLS
  <2>1. p = NUM_COLS * NUM_ROWS - NUM_COLS /\ p \in Int
    BY Sizes
  <2>2. Index(NUM_ROWS - 1, NUM_COLS - 1) = p + (NUM_COLS - 1)
        /\ Index(NUM_ROWS - 1, 0) = p + 0 /\ Size = NUM_COLS * NUM_ROWS
    BY DEF Index, Size
  <2> HIDE DEF p
  <2> DEFINE s == NUM_COLS * NUM_ROWS
  <2>3. s \in Int /\ p = s - NUM_COLS /\ Size = s
    BY <2>1, <2>2, Sizes
  <2> HIDE DEF s
  <2> QED BY <2>1, <2>2, <2>3, Sizes
<1>4. Index(y, x) \in Int /\ Index(y, x) >= 0
  <2>1. y * NUM_COLS \in Nat
    BY <1>1, Sizes
  <2> QED BY <1>1, <2>1 DEF Index
<1>5. \A w \in Xs : Index(y, w) = Index(y, x) + (w - x)
  <2>1. y * NUM_COLS \in Int
    BY <1>1, Sizes
  <2> DEFINE p == y * NUM_COLS
  <2>2. \A w \in Xs : Index(y, w) = p + w
    BY DEF Index
  <2>3. \A w \in Xs : w \in Int
    BY DEF Xs
  <2> HIDE DEF p
  <2>4. p \in Int
    BY <2>1 DEF p
  <2> QED BY <1>1, <2>2, <2>3, <2>4
<1>6. Index(y, x) <= Size - 1
  <2>1. CASE y = NUM_ROWS - 1
    <3>1. Index(y, NUM_COLS - 1) = Index(y, x) + ((NUM_COLS - 1) - x)
      BY <1>2, <1>5
    <3>2. Index(y, NUM_COLS - 1) = Size - 1
      BY <1>3, <2>1
    <3> QED BY <1>1, <1>4, <3>1, <3>2, Sizes
  <2>2. CASE y < NUM_ROWS - 1
    <3>1. Index(y, x) < Index(NUM_ROWS - 1, NUM_COLS - 1)
      BY <1>2, <2>2, RowsApart
    <3> QED BY <1>3, <1>4, <3>1, Sizes
  <2> QED BY <1>1, <2>1, <2>2, Sizes
<1>7. ASSUME NEW z \in Ys, NEW w \in Xs, Index(z, w) = Index(y, x)
      PROVE  z = y /\ w = x
  <2>1. z \in Int /\ w \in Int
    BY DEF Ys, Xs
  <2>2. ~(y < z) /\ ~(z < y)
    BY <1>4, <1>7, RowsApart
  <2>3. z = y
    BY <1>1, <2>1, <2>2
  <2>4. Index(y, w) = Index(y, x) + (w - x)
    BY <1>5
  <2> QED BY <1>1, <1>4, <1>7, <2>1, <2>3, <2>4
<1>8. Index(y, x) + NUM_COLS < Size <=> y # NUM_ROWS - 1
  <2>1. CASE y = NUM_ROWS - 1
    <3>1. Index(y, 0) = Index(y, x) + (0 - x) /\ Index(y, 0) = Size - NUM_COLS
      BY <1>2, <1>3, <1>5, <2>1
    <3> QED BY <1>1, <1>4, <2>1, <3>1, Sizes
  <2>2. CASE y < NUM_ROWS - 1
    <3>1. Index(y, x) < Index(NUM_ROWS - 1, 0)
      BY <1>2, <2>2, RowsApart
    <3> QED BY <1>1, <1>3, <1>4, <2>2, <3>1, Sizes
  <2> QED BY <1>1, <2>1, <2>2, Sizes
<1>9. Index(y, x) \div NUM_COLS = y
  <2>1. \A n \in Nat, m \in Nat \ {0} : \A r \in 0..(m - 1) : (n * m + r) \div m = n
    BY Z3
  <2>2. x \in 0..(NUM_COLS - 1) /\ NUM_COLS \in Nat \ {0}
    BY Sizes DEF Xs
  <2> QED BY <1>1, <2>1, <2>2 DEF Index
<1> QED BY <1>4, <1>6, <1>7, <1>8, <1>9, Sizes

-----------------------------------------------------------------------------
(* A character on the page and in the text                                 *)

Characters == Glyphs \cup {Blank, Backspace}
Tapes == [text : [0..(Size - 1) -> Characters], pos : 0..(Size - 1)]

\* The page shows the text, row by row, and the cursor stands at its end.
Pictures(cells, text) ==
  \A y \in Ys, x \in Xs : cells[<<y, x>>] = text[Index(y, x)]
Matches(cells, at, t) ==
  Pictures(cells, t.text) /\ Index(at.y, at.x) = t.pos

Shifted(text) ==
  [i \in 0..(Size - 1) |-> IF i + NUM_COLS < Size THEN text[i + NUM_COLS] ELSE Blank]

LEMMA WritePictures ==
  ASSUME NEW cells \in Cells, NEW text \in [0..(Size - 1) -> Characters],
         NEW y \in Ys, NEW x \in Xs, NEW ch \in Characters,
         Pictures(cells, text)
  PROVE  /\ Pictures([cells EXCEPT ![<<y, x>>] = ch], [text EXCEPT ![Index(y, x)] = ch])
         /\ [text EXCEPT ![Index(y, x)] = ch] \in [0..(Size - 1) -> Characters]
         /\ [cells EXCEPT ![<<y, x>>] = ch] \in Cells
<1> DEFINE new == [cells EXCEPT ![<<y, x>>] = ch]
           line == [text EXCEPT ![Index(y, x)] = ch]
<1>1. new \in Cells
  BY DEF Cells, Characters
<1>2. Index(y, x) \in 0..(Size - 1)
  BY Places
<1>3. line \in [0..(Size - 1) -> Characters]
  BY <1>2
<1>4. ASSUME NEW z \in Ys, NEW w \in Xs PROVE new[<<z, w>>] = line[Index(z, w)]
  <2>1. <<z, w>> \in Ys \X Xs /\ Index(z, w) \in 0..(Size - 1)
    BY Places
  <2>2. CASE z = y /\ w = x
    <3>1. new[<<z, w>>] = ch
      BY <2>1, <2>2 DEF Cells
    <3>2. line[Index(z, w)] = ch
      BY <1>2, <2>2
    <3> QED BY <3>1, <3>2
  <2>3. CASE ~(z = y /\ w = x)
    <3>1. Index(z, w) # Index(y, x)
      BY <2>3, Places
    <3>2. line[Index(z, w)] = text[Index(z, w)]
      BY <2>1, <3>1
    <3>3. <<z, w>> # <<y, x>>
      BY <2>3
    <3>4. new[<<z, w>>] = cells[<<z, w>>]
      BY <2>1, <3>3 DEF Cells
    <3> QED BY <3>2, <3>4 DEF Pictures
  <2> QED BY <2>2, <2>3
<1> QED BY <1>1, <1>3, <1>4 DEF Pictures

LEMMA ScrollPictures ==
  ASSUME NEW cells \in Cells, NEW text \in [0..(Size - 1) -> Characters],
         Pictures(cells, text)
  PROVE  /\ Pictures(Scrolled(cells), Shifted(text))
         /\ Shifted(text) \in [0..(Size - 1) -> Characters]
<1>1. Shifted(text) \in [0..(Size - 1) -> Characters]
  <2>1. ASSUME NEW i \in 0..(Size - 1), i + NUM_COLS < Size
        PROVE  i + NUM_COLS \in 0..(Size - 1)
    BY <2>1, Sizes
  <2>2. Blank \in Characters
    BY DEF Characters
  <2> QED BY <2>1, <2>2 DEF Shifted
<1>2. ASSUME NEW y \in Ys, NEW x \in Xs
      PROVE  Scrolled(cells)[<<y, x>>] = Shifted(text)[Index(y, x)]
  <2>1. /\ Index(y, x) \in 0..(Size - 1)
        /\ Index(y, x) + NUM_COLS < Size <=> y # NUM_ROWS - 1
    BY Places
  <2>2. Scrolled(cells)[<<y, x>>] = IF y = NUM_ROWS - 1 THEN Blank ELSE cells[<<y + 1, x>>]
    BY DEF Scrolled
  <2>3. Shifted(text)[Index(y, x)]
          = IF Index(y, x) + NUM_COLS < Size THEN text[Index(y, x) + NUM_COLS] ELSE Blank
    BY <2>1 DEF Shifted
  <2>4. CASE y = NUM_ROWS - 1
    BY <2>1, <2>2, <2>3, <2>4
  <2>5. CASE y # NUM_ROWS - 1
    <3>1. y + 1 \in Ys /\ y \in Int /\ x \in Int
      BY <2>5, Sizes DEF Ys, Xs
    <3>2. cells[<<y + 1, x>>] = text[Index(y + 1, x)]
      BY <3>1 DEF Pictures
    <3>3. Index(y + 1, x) = Index(y, x) + NUM_COLS
      BY <3>1, NextRow
    <3> QED BY <2>1, <2>2, <2>3, <2>5, <3>2, <3>3
  <2> QED BY <2>4, <2>5
<1> QED BY <1>1, <1>2 DEF Pictures

\* What Fit does to a text that reached the end, and to another one.
LEMMA FitCases ==
  ASSUME NEW text, NEW pos \in Int
  PROVE  LET t == [text |-> text, pos |-> pos] IN
         /\ pos < Size => Fit(t) = t
         /\ pos = Size => Fit(t) = [text |-> Shifted(text), pos |-> Size - NUM_COLS]
<1>1. ~(Size < Size)
  BY Sizes
<1> QED BY <1>1 DEF Fit, Shifted

\* putc and putct do to the page what Append does to the text, but for the
\* backspace in the last cell.
LEMMA PutMatches ==
  ASSUME NEW cells \in Cells, NEW at \in Cursors, NEW t \in Tapes, NEW c \in Output,
         Matches(cells, at, t), Corner(at, c) = {}
  PROVE  Matches(Put(cells, at, c).cells, Put(cells, at, c).at, Append(t, c))
<1> DEFINE y == at.y
           x == at.x
           text == t.text
           n == Put(cells, at, c)
           a == Append(t, c)
<1>1. /\ y \in Ys /\ x \in Xs /\ y \in Int /\ x \in Int /\ at = Cursor(y, x)
      /\ 0 <= y /\ y <= NUM_ROWS - 1 /\ 0 <= x /\ x <= NUM_COLS - 1
  BY Sizes DEF Cursors, Cursor, Ys, Xs
<1>2. /\ text \in [0..(Size - 1) -> Characters] /\ t.pos \in Int
      /\ t = [text |-> text, pos |-> t.pos]
  BY Sizes DEF Tapes
<1>3. Pictures(cells, text) /\ t.pos = Index(y, x)
  BY DEF Matches
<1>4. /\ Index(y, x) \in 0..(Size - 1)
      /\ Index(y, x) + NUM_COLS < Size <=> y # NUM_ROWS - 1
      /\ Index(y, x) \div NUM_COLS = y
  BY <1>1, Places
<1>5. \A row, col : Cursor(row, col).y = row /\ Cursor(row, col).x = col
  BY DEF Cursor
<1>6. 0 \in Xs /\ NUM_COLS - 1 \in Xs /\ NUM_ROWS - 1 \in Ys
  BY Sizes DEF Xs, Ys
<1>7. Index(NUM_ROWS - 1, 0) = Size - NUM_COLS /\ Index(NUM_ROWS, 0) = Size
  <2>1. Index(NUM_ROWS, 0) = Size
    BY Sizes DEF Index, Size
  <2>2. Index((NUM_ROWS - 1) + 1, 0) = Index(NUM_ROWS - 1, 0) + NUM_COLS
    BY NextRow, Sizes
  <2>3. (NUM_ROWS - 1) + 1 = NUM_ROWS /\ Index(NUM_ROWS - 1, 0) \in Int
    BY Sizes
  <2> DEFINE q == Index(NUM_ROWS - 1, 0)
  <2>4. q \in Int /\ Size = q + NUM_COLS /\ NUM_COLS \in Int
    BY <2>1, <2>2, <2>3, Sizes
  <2> HIDE DEF q
  <2>5. q = Size - NUM_COLS
    BY <2>4
  <2> QED BY <2>1, <2>5 DEF q
<1> HIDE DEF x, y, text
<1>8. CASE c = Newline
  <2>1. a = Fit([text |-> text, pos |-> Index(y + 1, 0)])
    <3>1. ((t.pos \div NUM_COLS) + 1) * NUM_COLS = Index(y + 1, 0)
      <4>1. Index(y + 1, 0) = (y + 1) * NUM_COLS
        BY <1>1, Sizes DEF Index
      <4> QED BY <1>3, <1>4, <4>1
    <3>2. a = Fit([t EXCEPT !.pos = Index(y + 1, 0)])
      BY <1>8, <3>1 DEF Append
    <3> QED BY <1>2, <3>2
  <2>2. CASE y = NUM_ROWS - 1
    <3>1. n = [cells |-> Scrolled(cells), at |-> Cursor(y, 0)]
      BY <1>8, <2>2 DEF Put, y
    <3>2. y + 1 = NUM_ROWS
      BY <2>2, Sizes
    <3>3. a = [text |-> Shifted(text), pos |-> Size - NUM_COLS]
      BY <1>7, <2>1, <3>2, FitCases, Sizes
    <3>4. Pictures(Scrolled(cells), Shifted(text))
      BY <1>2, <1>3, ScrollPictures
    <3> QED BY <1>5, <1>7, <2>2, <3>1, <3>3, <3>4 DEF Matches
  <2>3. CASE y # NUM_ROWS - 1
    <3>1. n = [cells |-> cells, at |-> Cursor(y + 1, 0)]
      BY <1>8, <2>3 DEF Put, y
    <3>2. y + 1 \in Ys
      BY <1>1, <2>3, Sizes DEF Ys
    <3>3. Index(y + 1, 0) \in 0..(Size - 1)
      BY <1>6, <3>2, Places
    <3>4. a = [text |-> text, pos |-> Index(y + 1, 0)]
      <4>1. Index(y + 1, 0) \in Int /\ Index(y + 1, 0) < Size
        BY <3>3, Sizes
      <4> QED BY <2>1, <4>1, FitCases
    <3> QED BY <1>3, <1>5, <3>1, <3>4 DEF Matches
  <2> QED BY <2>2, <2>3
<1>9. CASE c # Newline /\ c # Backspace
  <2> DEFINE new == [cells EXCEPT ![<<y, x>>] = c]
             line == [text EXCEPT ![Index(y, x)] = c]
  <2>1. c \in Characters
    BY <1>9 DEF Output, Characters
  <2>2. Pictures(new, line) /\ new \in Cells /\ line \in [0..(Size - 1) -> Characters]
    BY <1>1, <1>2, <1>3, <2>1, WritePictures
  <2>3. a = Fit([text |-> line, pos |-> Index(y, x) + 1])
    BY <1>3, <1>9 DEF Append, text
  <2> HIDE DEF new, line
  <2>4. CASE x = NUM_COLS - 1 /\ y = NUM_ROWS - 1
    <3>1. n = [cells |-> Scrolled(new), at |-> Cursor(y, 0)]
      BY <1>9, <2>4 DEF Put, y, x, new
    <3>2. Index(y, x) + 1 = Size
      <4>1. Index(y, x) + 1 = Index(y + 1, 0) /\ y + 1 = NUM_ROWS
        BY <1>1, <2>4, NextRow, Sizes
      <4> QED BY <1>7, <4>1
    <3>3. a = [text |-> Shifted(line), pos |-> Size - NUM_COLS]
      BY <2>3, <3>2, FitCases, Sizes
    <3>4. Pictures(Scrolled(new), Shifted(line))
      BY <2>2, ScrollPictures
    <3> QED BY <1>5, <1>7, <2>4, <3>1, <3>3, <3>4 DEF Matches
  <2>5. CASE x = NUM_COLS - 1 /\ y # NUM_ROWS - 1
    <3>1. n = [cells |-> new, at |-> Cursor(y + 1, 0)]
      BY <1>9, <2>5 DEF Put, y, x, new
    <3>2. y + 1 \in Ys
      BY <1>1, <2>5, Sizes DEF Ys
    <3>3. Index(y, x) + 1 = Index(y + 1, 0)
      BY <1>1, <2>5, NextRow
    <3>4. Index(y + 1, 0) \in 0..(Size - 1)
      BY <1>6, <3>2, Places
    <3>5. a = [text |-> line, pos |-> Index(y + 1, 0)]
      <4>1. Index(y + 1, 0) \in Int /\ Index(y + 1, 0) < Size
        BY <3>4, Sizes
      <4>2. a = Fit([text |-> line, pos |-> Index(y + 1, 0)])
        BY <2>3, <3>3
      <4> QED BY <4>1, <4>2, FitCases
    <3> QED BY <1>5, <2>2, <3>1, <3>5 DEF Matches
  <2>6. CASE x # NUM_COLS - 1
    <3>1. n = [cells |-> new, at |-> Cursor(y, x + 1)]
      BY <1>9, <2>6 DEF Put, y, x, new
    <3>2. x + 1 \in Xs
      BY <1>1, <2>6, Sizes DEF Xs
    <3>3. Index(y, x + 1) = Index(y, x) + 1
      BY <1>1, NextRow
    <3>4. Index(y, x + 1) \in 0..(Size - 1)
      BY <1>1, <3>2, Places
    <3>5. a = [text |-> line, pos |-> Index(y, x + 1)]
      <4>1. Index(y, x + 1) \in Int /\ Index(y, x + 1) < Size
        BY <3>4, Sizes
      <4>2. a = Fit([text |-> line, pos |-> Index(y, x + 1)])
        BY <2>3, <3>3
      <4> QED BY <4>1, <4>2, FitCases
    <3> QED BY <1>5, <2>2, <3>1, <3>5 DEF Matches
  <2> QED BY <2>4, <2>5, <2>6
<1>10. CASE c = Backspace
  <2>1. c # Newline /\ ~(x = NUM_COLS - 1 /\ y = NUM_ROWS - 1)
    BY <1>1, <1>10 DEF Corner, Backspace, Newline
  <2>2. Blank \in Characters
    BY DEF Characters
  <2>3. CASE x = 0 /\ y = 0
    <3>1. n = [cells |-> cells, at |-> at]
      BY <1>10, <2>1, <2>3 DEF Put, y, x
    <3>2. Index(y, x) = 0
      BY <2>3, Sizes DEF Index
    <3>3. a = t
      BY <1>3, <1>10, <2>1, <3>2 DEF Append
    <3> QED BY <3>1, <3>3
  <2>4. CASE x # 0
    <3>1. n = [cells |-> [cells EXCEPT ![<<y, x - 1>>] = Blank], at |-> Cursor(y, x - 1)]
      BY <1>10, <2>1, <2>4 DEF Put, y, x
    <3>2. x - 1 \in Xs
      BY <1>1, <2>4, Sizes DEF Xs
    <3>3. Index(y, x) = Index(y, x - 1) + 1
      <4>1. (x - 1) + 1 = x
        BY <1>1
      <4> QED BY <1>1, <4>1, NextRow
    <3>4. Index(y, x - 1) \in 0..(Size - 1)
      BY <1>1, <3>2, Places
    <3>5. t.pos # 0 /\ t.pos - 1 = Index(y, x - 1)
      BY <1>3, <3>3, <3>4
    <3>6. a = [text |-> [text EXCEPT ![Index(y, x - 1)] = Blank], pos |-> Index(y, x - 1)]
      BY <1>10, <2>1, <3>5 DEF Append, text
    <3>7. Pictures([cells EXCEPT ![<<y, x - 1>>] = Blank],
                   [text EXCEPT ![Index(y, x - 1)] = Blank])
      BY <1>1, <1>2, <1>3, <2>2, <3>2, WritePictures
    <3> QED BY <1>5, <3>1, <3>6, <3>7 DEF Matches
  <2>5. CASE x = 0 /\ y # 0
    <3> DEFINE m == NUM_COLS - 1
    <3>1. n = [cells |-> [cells EXCEPT ![<<y - 1, m>>] = Blank], at |-> Cursor(y - 1, m)]
      BY <1>10, <2>1, <2>5 DEF Put, y, x
    <3>2. y - 1 \in Ys /\ m \in Xs
      BY <1>1, <1>6, <2>5, Sizes DEF Ys
    <3>3. Index(y, x) = Index(y - 1, m) + 1
      <4>1. (y - 1) + 1 = y /\ y - 1 \in Int
        BY <1>1
      <4> QED BY <1>1, <2>5, <4>1, NextRow
    <3>4. Index(y - 1, m) \in 0..(Size - 1)
      BY <3>2, Places
    <3> HIDE DEF m
    <3>5. t.pos # 0 /\ t.pos - 1 = Index(y - 1, m)
      BY <1>3, <3>3, <3>4
    <3>6. a = [text |-> [text EXCEPT ![Index(y - 1, m)] = Blank], pos |-> Index(y - 1, m)]
      BY <1>10, <2>1, <3>5 DEF Append, text
    <3>7. Pictures([cells EXCEPT ![<<y - 1, m>>] = Blank],
                   [text EXCEPT ![Index(y - 1, m)] = Blank])
      BY <1>2, <1>3, <2>2, <3>2, WritePictures
    <3> QED BY <1>5, <3>1, <3>6, <3>7 DEF Matches
  <2> QED BY <2>3, <2>4, <2>5
<1> QED BY <1>8, <1>9, <1>10

-----------------------------------------------------------------------------
(* The screens of the terminals                                            *)

Kinds == {"corner", "message", "reset", "race"}

\* Until its character is drawn, a terminal that is right shows its text, and a
\* call of putct works with what it shows: the copies are the cursor, and what will
\* be drawn at is its own screen, which 0xB8000 is whoever is visible.
Drawing(t) ==
  LET l == call[t] IN
  /\ ~CursorPending(t) => Matches(ScreenOf(t), CursorOf(t), tape[t])
  /\ l.pc \in {"x", "y"} => l.here = (t = cur_vis_term)
  /\ l.pc = "y" => l.at.x = CursorOf(t).x
  /\ l.pc \in {"page", "draw"} => l.at = CursorOf(t) /\ (l.here \/ t # cur_vis_term)
  /\ l.pc = "draw" => video_mem_t = Video \/ (video_mem_t = t /\ ~l.here)

\* From then on the page is right, the end of the text is in the locals, and the
\* cursor holds the part of it that has been written.
Drew(t) ==
  LET l == call[t] IN
  CursorPending(t) =>
    /\ Pictures(ScreenOf(t), tape[t].text) /\ Index(l.at.y, l.at.x) = tape[t].pos
    /\ l.pc = "showy" /\ t = cur_vis_term => CursorOf(t).x = l.at.x
    /\ l.pc \in {"savex", "savey"} /\ t = cur_vis_term => CursorOf(t) = l.at
    /\ l.pc = "savey" => cursor[t].x = l.at.x

Right(t) == Drawing(t) /\ Drew(t)
Screens == \A t \in Terms : strayed[t] = {} => Right(t)

\* A call that is about to write the cursor of the display for a terminal that left
\* it, or to draw on the backing page of another, has made that terminal stray.
Apart ==
  \A u \in Terms :
    /\ call[u].pc \in {"showx", "showy"} /\ u # cur_vis_term
         => strayed[cur_vis_term] # {}
    /\ call[u].pc = "draw" /\ video_mem_t \in Terms \ {u}
         => strayed[u] # {} /\ strayed[video_mem_t] # {}

Truth == /\ tape \in [Terms -> Tapes]
         /\ strayed \in [Terms -> SUBSET Kinds]
         /\ Screens
         /\ Apart

CInv == TypeOK /\ Truth

LEMMA LastRow ==
  /\ 0 \in Xs /\ 0 \in Ys /\ NUM_ROWS - 1 \in Ys
  /\ Index(NUM_ROWS, 0) = Size
  /\ Size - NUM_COLS \in 0..(Size - 1)
<1>1. 0 \in Xs /\ 0 \in Ys /\ NUM_ROWS - 1 \in Ys
  BY Sizes DEF Xs, Ys
<1>2. Index(NUM_ROWS, 0) = Size
  <2>1. Index(NUM_ROWS, 0) = NUM_ROWS * NUM_COLS + 0
    BY DEF Index
  <2>2. NUM_ROWS * NUM_COLS + 0 = NUM_COLS * NUM_ROWS
    BY Sizes
  <2> QED BY <2>1, <2>2 DEF Size
<1> DEFINE q == Index(NUM_ROWS - 1, 0)
<1>3. Index((NUM_ROWS - 1) + 1, 0) = q + NUM_COLS /\ (NUM_ROWS - 1) + 1 = NUM_ROWS
  BY NextRow, Sizes
<1>4. q \in 0..(Size - 1)
  BY <1>1, Places
<1> HIDE DEF q
<1>5. Size = q + NUM_COLS
  BY <1>2, <1>3
<1> QED BY <1>1, <1>2, <1>4, <1>5, Sizes

\* Text that is shifted when it reaches the end is text again.
LEMMA FitTape ==
  ASSUME NEW text \in [0..(Size - 1) -> Characters], NEW pos \in 0..Size
  PROVE  Fit([text |-> text, pos |-> pos]) \in Tapes
<1>1. pos \in Int /\ Size \in Int /\ 0 <= pos /\ pos <= Size
  BY Sizes
<1>2. Shifted(text) \in [0..(Size - 1) -> Characters]
  <2>1. ASSUME NEW i \in 0..(Size - 1), i + NUM_COLS < Size
        PROVE  i + NUM_COLS \in 0..(Size - 1)
    BY <2>1, Sizes
  <2>2. Blank \in Characters
    BY DEF Characters
  <2> QED BY <2>1, <2>2 DEF Shifted
<1>3. CASE pos < Size
  <2>1. Fit([text |-> text, pos |-> pos]) = [text |-> text, pos |-> pos]
    BY <1>1, <1>3, FitCases
  <2>2. pos \in 0..(Size - 1)
    BY <1>1, <1>3
  <2> QED BY <2>1, <2>2 DEF Tapes
<1>4. CASE pos = Size
  <2>1. Fit([text |-> text, pos |-> pos]) = [text |-> Shifted(text), pos |-> Size - NUM_COLS]
    BY <1>1, <1>4, FitCases
  <2> QED BY <1>2, <2>1, LastRow DEF Tapes
<1> QED BY <1>1, <1>3, <1>4

LEMMA AppendTape ==
  ASSUME NEW t \in Tapes, NEW c \in Output
  PROVE  Append(t, c) \in Tapes
<1> DEFINE text == t.text
           pos == t.pos
<1>1. /\ text \in [0..(Size - 1) -> Characters] /\ pos \in 0..(Size - 1)
      /\ t = [text |-> text, pos |-> pos]
  BY DEF Tapes
<1>2. pos \in Nat /\ pos < Size /\ pos + 1 \in 0..Size
  BY <1>1, Sizes
<1> HIDE DEF text, pos
<1>3. CASE c = Newline
  <2> DEFINE q == pos \div NUM_COLS
  <2>1. q \in Nat /\ q * NUM_COLS <= pos
    <3>1. \A n \in Nat, m \in Nat \ {0} : n \div m \in Nat /\ (n \div m) * m <= n
      BY Z3
    <3> QED BY <1>2, <3>1, Sizes
  <2> HIDE DEF q
  <2>2. q <= NUM_ROWS - 1
    <3> SUFFICES ASSUME q >= NUM_ROWS PROVE FALSE
      BY <2>1, Sizes
    <3> DEFINE d == q - NUM_ROWS
    <3>1. d \in Nat /\ q = NUM_ROWS + d
      BY <2>1, Sizes
    <3> HIDE DEF d
    <3>2. q * NUM_COLS = NUM_COLS * NUM_ROWS + d * NUM_COLS /\ d * NUM_COLS \in Nat
      BY <3>1, Sizes
    <3> DEFINE e == d * NUM_COLS
               r == q * NUM_COLS
    <3>3. r = Size + e /\ e \in Nat /\ r <= pos
      BY <2>1, <3>2 DEF Size
    <3> HIDE DEF e, r
    <3> QED BY <1>2, <3>3, Sizes
  <2>3. (q + 1) * NUM_COLS = Index(q + 1, 0)
    BY <2>1, Sizes DEF Index
  <2>4. Index(q + 1, 0) \in 0..Size
    <3>1. CASE q = NUM_ROWS - 1
      <4>1. q + 1 = NUM_ROWS
        BY <3>1, Sizes
      <4>2. Size \in 0..Size
        BY Sizes
      <4> QED BY <4>1, <4>2, LastRow
    <3>2. CASE q # NUM_ROWS - 1
      <4>1. q + 1 \in Ys
        BY <2>1, <2>2, <3>2, Sizes DEF Ys
      <4>2. Index(q + 1, 0) \in 0..(Size - 1)
        BY <4>1, LastRow, Places
      <4> QED BY <4>2, Sizes
    <3> QED BY <3>1, <3>2
  <2>5. Append(t, c) = Fit([text |-> text, pos |-> Index(q + 1, 0)])
    <3>1. Append(t, c) = Fit([t EXCEPT !.pos = Index(q + 1, 0)])
      BY <1>3, <2>3 DEF Append, q, pos
    <3> QED BY <1>1, <3>1
  <2> QED BY <1>1, <2>4, <2>5, FitTape
<1>4. CASE c # Newline /\ c # Backspace
  <2> DEFINE line == [text EXCEPT ![pos] = c]
  <2>1. line \in [0..(Size - 1) -> Characters]
    BY <1>1, <1>4 DEF Output, Characters
  <2>2. Append(t, c) = Fit([text |-> line, pos |-> pos + 1])
    BY <1>4 DEF Append, text, pos
  <2> HIDE DEF line
  <2> QED BY <1>2, <2>1, <2>2, FitTape
<1>5. CASE c = Backspace
  <2>1. c # Newline
    BY <1>5 DEF Newline, Backspace
  <2>2. CASE pos = 0
    BY <1>5, <2>1, <2>2 DEF Append, pos
  <2>3. CASE pos # 0
    <3>1. Append(t, c) = [text |-> [text EXCEPT ![pos - 1] = Blank], pos |-> pos - 1]
      BY <1>5, <2>1, <2>3 DEF Append, text, pos
    <3>2. pos - 1 \in 0..(Size - 1)
      BY <1>2, <2>3, Sizes
    <3>3. [text EXCEPT ![pos - 1] = Blank] \in [0..(Size - 1) -> Characters]
      BY <1>1, <3>2 DEF Characters
    <3> QED BY <3>1, <3>2, <3>3 DEF Tapes
  <2> QED BY <2>2, <2>3
<1> QED BY <1>3, <1>4, <1>5

LEMMA Pages ==
  ASSUME CInv, NEW t \in Terms
  PROVE  /\ ScreenOf(t) = page[Frame(cur_vis_term, t)]
         /\ Frame(cur_vis_term, t) \in {Video} \cup Terms
         /\ Frame(cur_vis_term, t) = IF t = cur_vis_term THEN Video ELSE t
         /\ ScreenOf(t) \in Cells /\ CursorOf(t) \in Cursors
<1>1. Backing(t) = t /\ Frame(cur_vis_term, t) \in {Video} \cup Terms
  BY FramesExist DEF CInv, TypeOK
<1>2. Frame(cur_vis_term, t) = IF t = cur_vis_term THEN Video ELSE t
  BY <1>1 DEF Frame
<1>3. ScreenOf(t) = page[Frame(cur_vis_term, t)]
  BY <1>1, <1>2 DEF ScreenOf
<1>4. CursorOf(t) \in Cursors
  BY DEF CInv, TypeOK, CursorOf
<1> QED BY <1>1, <1>2, <1>3, <1>4 DEF CInv, TypeOK

LEMMA NoSuchTerminal == Video \notin Terms
BY ConsoleAssumption DEF Terms, Video

\* A step that changes nothing of a terminal that is right.
LEMMA Kept ==
  ASSUME NEW t \in Terms, Right(t),
         cur_vis_term' = cur_vis_term, call'[t] = call[t], tape'[t] = tape[t],
         ScreenOf(t)' = ScreenOf(t), CursorOf(t)' = CursorOf(t), cursor'[t] = cursor[t],
         call[t].pc = "draw" => video_mem_t' \in {Video, video_mem_t}
  PROVE  Right(t)'
<1>1. CursorPending(t)' <=> CursorPending(t)
  BY DEF CursorPending
<1>2. Drawing(t)'
  BY <1>1 DEF Right, Drawing
<1>3. Drew(t)'
  BY <1>1 DEF Right, Drew
<1> QED BY <1>2, <1>3 DEF Right

\* No step takes a terminal back to those that are right.
Grows == strayed' \in [Terms -> SUBSET Kinds] /\ \A t \in Terms : strayed[t] \subseteq strayed'[t]

LEMMA MarkedGrows ==
  ASSUME strayed \in [Terms -> SUBSET Kinds], NEW S, NEW kind \in Kinds,
         strayed' = Marked(kind, S)
  PROVE  Grows /\ \A t \in Terms : strayed'[t] # {} <=> strayed[t] # {} \/ t \in S
BY DEF Marked, Grows

LEMMA RecordGrows ==
  ASSUME strayed \in [Terms -> SUBSET Kinds], tape \in [Terms -> Tapes],
         NEW u \in Terms, NEW c \in Output, NEW kinds \in SUBSET Kinds,
         Record(u, c, kinds)
  PROVE  /\ Grows /\ tape' \in [Terms -> Tapes]
         /\ \A t \in Terms \ {u} : strayed'[t] = strayed[t] /\ tape'[t] = tape[t]
         /\ strayed'[u] = {} => strayed[u] = {} /\ kinds = {}
         /\ tape'[u] = Append(tape[u], c)
<1>1. /\ tape' = [tape EXCEPT ![u] = Append(tape[u], c)]
      /\ strayed' = [strayed EXCEPT ![u] = strayed[u] \cup kinds]
  BY DEF Record
<1>2. tape' \in [Terms -> Tapes] /\ tape'[u] = Append(tape[u], c)
  BY <1>1, AppendTape
<1>3. \A t \in Terms \ {u} : strayed'[t] = strayed[t] /\ tape'[t] = tape[t]
  BY <1>1
<1>4. strayed'[u] = strayed[u] \cup kinds /\ strayed' \in [Terms -> SUBSET Kinds]
  BY <1>1
<1> QED BY <1>2, <1>3, <1>4 DEF Grows

\* A step that brings no call nearer to the display or to another's page.
LEMMA ApartKept ==
  ASSUME TypeOK, Apart, Grows, cur_vis_term' = cur_vis_term, video_mem_t' = video_mem_t,
         \A u \in Terms :
           /\ call'[u].pc \in {"showx", "showy"}
                => call[u].pc \in {"showx", "showy"} \/ u = cur_vis_term
           /\ call'[u].pc = "draw" => call[u].pc = "draw"
  PROVE  Apart'
BY DEF Apart, Grows, TypeOK

\* A character on the screen of one terminal.
LEMMA PrintedRight ==
  ASSUME CInv, NEW t \in Terms, NEW c \in Output, Right(t), ~CursorPending(t),
         Corner(CursorOf(t), c) = {},
         NEW new, new = Put(ScreenOf(t), CursorOf(t), c)
  PROVE  Matches(new.cells, new.at, Append(tape[t], c))
<1>1. Matches(ScreenOf(t), CursorOf(t), tape[t])
  BY DEF Right, Drawing
<1>2. ScreenOf(t) \in Cells /\ CursorOf(t) \in Cursors /\ tape[t] \in Tapes
  BY Pages DEF CInv, Truth
<1> QED BY <1>1, <1>2, PutMatches

\* An empty screen shows an empty text.
LEMMA EmptyMatches ==
  /\ Cleared \in Cells /\ Cursor(0, 0) \in Cursors /\ EmptyTape \in Tapes
  /\ Matches(Cleared, Cursor(0, 0), EmptyTape)
<1>1. Index(0, 0) = 0
  BY Sizes DEF Index
<1>2. Index(0, 0) \in 0..(Size - 1)
  BY LastRow, Places
<1>3. Cleared \in Cells /\ Cursor(0, 0) \in Cursors
  BY LastRow DEF Cleared, Cells, Cursor, Cursors
<1>4. EmptyTape \in Tapes
  <2>1. [i \in 0..(Size - 1) |-> Blank] \in [0..(Size - 1) -> Characters]
    BY DEF Characters
  <2> QED BY <1>1, <1>2, <2>1 DEF EmptyTape, Tapes
<1>5. Pictures(Cleared, EmptyTape.text)
  <2> SUFFICES ASSUME NEW y \in Ys, NEW x \in Xs
               PROVE  Cleared[<<y, x>>] = EmptyTape.text[Index(y, x)]
    BY DEF Pictures
  <2>1. Index(y, x) \in 0..(Size - 1)
    BY Places
  <2> QED BY <2>1 DEF Cleared, EmptyTape
<1> QED BY <1>1, <1>3, <1>4, <1>5 DEF Matches, Cursor, EmptyTape

LEMMA InitScreens == Init => CInv
<1> SUFFICES ASSUME Init PROVE CInv
  OBVIOUS
<1>1. TypeOK
  BY InitTypes
<1>2. ASSUME NEW t \in Terms
      PROVE  /\ ScreenOf(t) = Cleared /\ CursorOf(t) = Cursor(0, 0)
             /\ tape[t] = EmptyTape /\ call[t].pc = "out"
  BY FramesExist DEF Init, ScreenOf, CursorOf, Out
<1>3. tape \in [Terms -> Tapes] /\ strayed \in [Terms -> SUBSET Kinds]
  BY EmptyMatches DEF Init
<1>4. Screens
  BY <1>2, EmptyMatches DEF Screens, Right, Drawing, Drew, CursorPending
<1>5. Apart
  BY <1>2 DEF Apart
<1> QED BY <1>1, <1>3, <1>4, <1>5 DEF CInv, Truth

\* Facts of every state, for the steps below.
LEMMA Facts ==
  ASSUME CInv
  PROVE  /\ cur_vis_term \in Terms /\ cur_execute_term \in Terms
         /\ page \in [{Video} \cup Terms -> Cells]
         /\ cursor \in [Terms -> Cursors] /\ display \in Cursors
         /\ video_mem_t \in {Video} \cup Terms /\ call \in [Terms -> Calls]
         /\ tape \in [Terms -> Tapes] /\ strayed \in [Terms -> SUBSET Kinds]
         /\ Screens /\ Apart /\ TypeOK
         /\ \A t \in Terms : Backing(t) = t
BY FramesExist DEF CInv, Truth, TypeOK

\* An access of putct, by the terminal that runs.
LEMMA Own ==
  ASSUME CInv, NEW pc, NEW local, Does(pc, local)
  PROVE  /\ call[cur_execute_term] = own /\ own \in Calls /\ own.pc = pc
         /\ call'[cur_execute_term] = local
         /\ \A t \in Terms \ {cur_execute_term} : call'[t] = call[t]
         /\ cur_vis_term' = cur_vis_term
BY Facts DEF own, Does, terminals

\* The steps of putct that only read shared variables.
LEMMA ReadingRight ==
  ASSUME CInv, UNCHANGED <<screens, video_mem_t, history>>,
         (\E c \in Output : putct(c)) \/ CopyX \/ CopyY \/ Retest
  PROVE  Truth'
<1> PICK u \in Terms : u = cur_execute_term
  BY Facts
<1> DEFINE l == call[u]
<1>1. /\ l = own /\ l \in Calls /\ cur_vis_term' = cur_vis_term
      /\ \A t \in Terms \ {u} : call'[t] = call[t]
  BY Own DEF putct, CopyX, CopyY, Retest
<1>2. /\ page' = page /\ display' = display /\ cursor' = cursor
      /\ video_mem_t' = video_mem_t /\ tape' = tape /\ strayed' = strayed
  BY DEF screens, history
<1>3. \A t \in Terms : ScreenOf(t)' = ScreenOf(t) /\ CursorOf(t)' = CursorOf(t)
  BY <1>1, <1>2 DEF ScreenOf, CursorOf
<1>4. Grows
  BY <1>2, Facts DEF Grows
<1>5. /\ call'[u].pc # "draw"
      /\ call'[u].pc \in {"showx", "showy"} => u = cur_vis_term
  <2>1. CASE \E c \in Output : putct(c)
    <3> PICK c \in Output : putct(c)
      BY <2>1
    <3> DEFINE local == [Out EXCEPT !.pc = "x", !.c = c,
                                    !.here = (cur_execute_term = cur_vis_term)]
    <3>1. local.pc = "x"
      BY DEF Out
    <3>2. Does("out", local)
      BY DEF putct
    <3> HIDE DEF local
    <3> QED BY <3>1, <3>2, Own
  <2>2. CASE CopyX
    <3>1. call'[u] = [l EXCEPT !.pc = "y", !.at.x = Source.x]
      BY <1>1, <2>2, Own DEF CopyX
    <3> QED BY <1>1, <3>1 DEF Calls
  <2>3. CASE CopyY
    <3>1. call'[u] = [l EXCEPT !.pc = "page", !.at.y = Source.y]
      BY <1>1, <2>3, Own DEF CopyY
    <3> QED BY <1>1, <3>1 DEF Calls
  <2>4. CASE Retest
    <3>1. call'[u] = [l EXCEPT !.pc = IF SecondTest THEN "showx" ELSE "savex"]
      BY <1>1, <2>4, Own DEF Retest
    <3> QED BY <1>1, <3>1 DEF Calls, SecondTest
  <2> QED BY <2>1, <2>2, <2>3, <2>4
<1>6. Apart'
  BY <1>1, <1>2, <1>4, <1>5, Facts, ApartKept
<1>7. ASSUME NEW t \in Terms, strayed'[t] = {} PROVE Right(t)'
  <2>1. Right(t)
    BY <1>2, <1>7, Facts DEF Screens
  <2>2. CASE t # u
    BY <1>1, <1>2, <1>3, <2>1, <2>2, Kept
  <2>3. CASE t = u /\ \E c \in Output : putct(c)
    <3> PICK c \in Output : putct(c)
      BY <2>3
    <3>1. /\ call'[u].pc = "x" /\ call'[u].here = (u = cur_vis_term)
          /\ l.pc = "out"
      <4> DEFINE local == [Out EXCEPT !.pc = "x", !.c = c,
                                      !.here = (cur_execute_term = cur_vis_term)]
      <4>1. local.pc = "x" /\ local.here = (cur_execute_term = cur_vis_term)
        BY DEF Out
      <4>2. Does("out", local)
        BY DEF putct
      <4> HIDE DEF local
      <4>3. call'[u] = local /\ l.pc = "out"
        BY <1>1, <4>2, Own
      <4> QED BY <4>1, <4>3
    <3> QED BY <1>1, <1>2, <1>3, <2>1, <2>3, <3>1
            DEF Right, Drawing, Drew, CursorPending
  <2>4. CASE t = u /\ CopyX
    <3>1. l.pc = "x" /\ call'[u] = [l EXCEPT !.pc = "y", !.at.x = Source.x]
      BY <1>1, <2>4, Own DEF CopyX
    <3>2. l.here = (u = cur_vis_term)
      BY <2>1, <2>4, <3>1 DEF Right, Drawing
    <3>3. Source = CursorOf(u)
      BY <1>1, <3>2 DEF Source, CursorOf
    <3>4. /\ call'[u].pc = "y" /\ call'[u].here = l.here
          /\ call'[u].at.x = CursorOf(u).x
      BY <1>1, <3>1, <3>3 DEF Calls, Cursors
    <3> QED BY <1>1, <1>2, <1>3, <2>1, <2>4, <3>1, <3>2, <3>4
            DEF Right, Drawing, Drew, CursorPending
  <2>5. CASE t = u /\ CopyY
    <3>1. l.pc = "y" /\ call'[u] = [l EXCEPT !.pc = "page", !.at.y = Source.y]
      BY <1>1, <2>5, Own DEF CopyY
    <3>2. l.here = (u = cur_vis_term) /\ l.at.x = CursorOf(u).x
      BY <2>1, <2>5, <3>1 DEF Right, Drawing
    <3>3. Source = CursorOf(u) /\ CursorOf(u) \in Cursors
      BY <1>1, <3>2, Facts DEF Source, CursorOf
    <3>4. /\ call'[u].pc = "page" /\ call'[u].here = l.here
          /\ call'[u].at = CursorOf(u)
      BY <1>1, <3>1, <3>2, <3>3 DEF Calls, Cursors
    <3> QED BY <1>1, <1>2, <1>3, <2>1, <2>5, <3>1, <3>2, <3>4
            DEF Right, Drawing, Drew, CursorPending
  <2>6. CASE t = u /\ Retest
    <3>1. /\ l.pc = "retest"
          /\ call'[u] = [l EXCEPT !.pc = IF SecondTest THEN "showx" ELSE "savex"]
      BY <1>1, <2>6, Own DEF Retest
    <3>2. /\ call'[u].pc = (IF u = cur_vis_term THEN "showx" ELSE "savex")
          /\ call'[u].at = l.at
      BY <1>1, <3>1 DEF Calls, SecondTest
    <3> QED BY <1>1, <1>2, <1>3, <2>1, <2>6, <3>1, <3>2
            DEF Right, Drawing, Drew, CursorPending
  <2> QED BY <2>2, <2>3, <2>4, <2>5, <2>6
<1>8. tape' \in [Terms -> Tapes] /\ strayed' \in [Terms -> SUBSET Kinds]
  BY <1>2, Facts
<1> QED BY <1>6, <1>7, <1>8 DEF Truth, Screens

\* The choice of the page.
LEMMA PageRight ==
  ASSUME CInv, SetVideoMemT
  PROVE  Truth'
<1> PICK u \in Terms : u = cur_execute_term
  BY Facts
<1> DEFINE l == call[u]
           waiting == {t \in Terms \ {u} : call[t].pc = "draw"}
           quiet == l.here \/ waiting = {}
<1>1. /\ l = own /\ l \in Calls /\ l.pc = "page" /\ cur_vis_term' = cur_vis_term
      /\ call'[u] = [l EXCEPT !.pc = "draw"]
      /\ \A t \in Terms \ {u} : call'[t] = call[t]
  BY Own DEF SetVideoMemT
<1>2. /\ page' = page /\ display' = display /\ cursor' = cursor /\ tape' = tape
      /\ video_mem_t' = IF l.here THEN Video ELSE u
      /\ strayed' = IF quiet THEN strayed ELSE Marked("race", waiting \cup {u})
  BY <1>1, Facts DEF SetVideoMemT, screens
<1>3. call'[u].pc = "draw" /\ call'[u].at = l.at /\ call'[u].here = l.here
  BY <1>1 DEF Calls
<1>4. \A t \in Terms : ScreenOf(t)' = ScreenOf(t) /\ CursorOf(t)' = CursorOf(t)
  BY <1>1, <1>2 DEF ScreenOf, CursorOf
<1>5. Grows /\ (~quiet => \A t \in waiting \cup {u} : strayed'[t] # {})
  <2>1. CASE quiet
    BY <1>2, <2>1, Facts DEF Grows
  <2>2. CASE ~quiet
    <3> DEFINE S == waiting \cup {u}
    <3>1. strayed' = Marked("race", S) /\ S \subseteq Terms
      BY <1>2, <2>2
    <3> HIDE DEF S
    <3>2. Grows /\ \A t \in Terms : strayed'[t] # {} <=> strayed[t] # {} \/ t \in S
      BY <3>1, Facts, MarkedGrows DEF Kinds
    <3>3. \A t \in S : strayed'[t] # {}
      BY <3>1, <3>2
    <3> QED BY <3>2, <3>3 DEF S
  <2> QED BY <2>1, <2>2
<1> HIDE DEF waiting, quiet
<1>6. \A t \in Terms \ {u} : call[t].pc = "draw" /\ ~l.here => strayed'[t] # {} /\ strayed'[u] # {}
  BY <1>5 DEF waiting, quiet
<1>7. Apart'
  <2> SUFFICES ASSUME NEW t \in Terms
               PROVE  /\ call'[t].pc \in {"showx", "showy"} /\ t # cur_vis_term
                           => strayed'[cur_vis_term] # {}
                      /\ call'[t].pc = "draw" /\ video_mem_t' \in Terms \ {t}
                           => strayed'[t] # {} /\ strayed'[video_mem_t'] # {}
    BY <1>1 DEF Apart
  <2>1. CASE t = u
    BY <1>2, <1>3, <2>1, NoSuchTerminal
  <2>2. CASE t # u
    <3>1. call'[t] = call[t]
      BY <1>1, <2>2
    <3>2. call[t].pc \in {"showx", "showy"} /\ t # cur_vis_term => strayed'[cur_vis_term] # {}
      BY <1>5, Facts DEF Apart, Grows
    <3>3. call[t].pc = "draw" /\ video_mem_t' \in Terms \ {t}
            => strayed'[t] # {} /\ strayed'[video_mem_t'] # {}
      BY <1>2, <1>6, <2>2, NoSuchTerminal
    <3> QED BY <3>1, <3>2, <3>3
  <2> QED BY <2>1, <2>2
<1>8. ASSUME NEW t \in Terms, strayed'[t] = {} PROVE Right(t)'
  <2>1. Right(t)
    BY <1>5, <1>8, Facts DEF Screens, Grows
  <2>2. CASE t # u
    <3>1. call[t].pc = "draw" => video_mem_t' = Video
      BY <1>2, <1>6, <1>8, <2>2
    <3> QED BY <1>1, <1>2, <1>4, <2>1, <2>2, <3>1, Kept
  <2>3. CASE t = u
    BY <1>1, <1>2, <1>3, <1>4, <2>1, <2>3 DEF Right, Drawing, Drew, CursorPending
  <2> QED BY <2>2, <2>3
<1>9. tape' \in [Terms -> Tapes] /\ strayed' \in [Terms -> SUBSET Kinds]
  BY <1>2, <1>5, Facts DEF Grows
<1> QED BY <1>7, <1>8, <1>9 DEF Truth, Screens

\* The character on the page.  One that is right draws on its own screen, any other
\* on a page that no terminal that is right shows.
LEMMA DrawRight ==
  ASSUME CInv, Draw
  PROVE  Truth'
<1> PICK u \in Terms : u = cur_execute_term
  BY Facts
<1> DEFINE l == call[u]
           new == Put(page[Drawn], l.at, l.c)
<1>1. /\ l = own /\ l \in Calls /\ l.pc = "draw" /\ cur_vis_term' = cur_vis_term
      /\ call'[u] = [l EXCEPT !.pc = "retest", !.c = Out.c, !.at = new.at]
      /\ \A t \in Terms \ {u} : call'[t] = call[t]
      /\ l.at \in Cursors /\ l.c \in Output
  BY Own DEF Draw, Calls
<1>2. /\ page' = [page EXCEPT ![Drawn] = new.cells]
      /\ display' = display /\ cursor' = cursor /\ video_mem_t' = video_mem_t
      /\ Record(u, l.c, Corner(l.at, l.c))
  BY <1>1 DEF Draw
<1> HIDE DEF new
<1>3. call'[u].pc = "retest" /\ call'[u].at = new.at
  BY <1>1 DEF Calls
<1>4. Corner(l.at, l.c) \in SUBSET Kinds
  BY DEF Corner, Kinds
<1>5. /\ Grows /\ tape' \in [Terms -> Tapes]
      /\ \A t \in Terms \ {u} : strayed'[t] = strayed[t] /\ tape'[t] = tape[t]
      /\ strayed'[u] = {} => strayed[u] = {} /\ Corner(l.at, l.c) = {}
      /\ tape'[u] = Append(tape[u], l.c)
  <2> DEFINE k == Corner(l.at, l.c)
             c == l.c
  <2>1. k \in SUBSET Kinds /\ c \in Output /\ Record(u, c, k)
    BY <1>1, <1>2, <1>4
  <2> HIDE DEF k, c
  <2>2. /\ Grows /\ tape' \in [Terms -> Tapes]
        /\ \A t \in Terms \ {u} : strayed'[t] = strayed[t] /\ tape'[t] = tape[t]
        /\ strayed'[u] = {} => strayed[u] = {} /\ k = {}
        /\ tape'[u] = Append(tape[u], c)
    BY <2>1, Facts, RecordGrows
  <2> QED BY <2>2 DEF k, c
<1>6. \A t \in Terms : CursorOf(t)' = CursorOf(t) /\ ScreenOf(t)' = page'[Frame(cur_vis_term, t)]
  BY <1>1, <1>2, Facts DEF CursorOf, ScreenOf, Frame
<1>7. Apart'
  BY <1>1, <1>2, <1>3, <1>5, Facts, ApartKept
<1>8. ASSUME NEW t \in Terms, strayed'[t] = {}, t # u PROVE Right(t)'
  <2>1. Right(t) /\ strayed[t] = {}
    BY <1>5, <1>8, Facts DEF Screens
  <2>2. Drawn # Frame(cur_vis_term, t)
    <3>1. CASE video_mem_t = Video
      <4>1. Drawn = Frame(cur_vis_term, u)
        BY <3>1 DEF Drawn
      <4> QED BY <1>8, <4>1, Pages, NoSuchTerminal
    <3>2. CASE video_mem_t = u
      <4>1. Drawn = u
        BY <3>2, NoSuchTerminal DEF Drawn
      <4> QED BY <1>8, <4>1, Pages, NoSuchTerminal
    <3>3. CASE video_mem_t \in Terms \ {u}
      <4>1. strayed[video_mem_t] # {} /\ Drawn = video_mem_t
        BY <1>1, <3>3, Facts, NoSuchTerminal DEF Apart, Drawn
      <4> QED BY <2>1, <3>3, <4>1, Pages, NoSuchTerminal
    <3> QED BY <3>1, <3>2, <3>3, Facts
  <2>3. ScreenOf(t)' = ScreenOf(t)
    BY <1>2, <1>6, <2>2, Facts, Pages
  <2> QED BY <1>1, <1>2, <1>5, <1>6, <1>8, <2>1, <2>3, Kept
<1>9. ASSUME strayed'[u] = {} PROVE Right(u)'
  <2>1. Right(u) /\ strayed[u] = {} /\ Corner(l.at, l.c) = {}
    BY <1>5, <1>9, Facts DEF Screens
  <2>2. /\ l.at = CursorOf(u) /\ (l.here \/ u # cur_vis_term) /\ ~CursorPending(u)
        /\ video_mem_t = Video \/ (video_mem_t = u /\ ~l.here)
    BY <1>1, <2>1 DEF Right, Drawing, CursorPending
  <2>3. Drawn = Frame(cur_vis_term, u)
    BY <2>2, Pages, NoSuchTerminal DEF Drawn
  <2>4. new = Put(ScreenOf(u), CursorOf(u), l.c)
    BY <2>2, <2>3, Pages DEF new
  <2>5. Matches(new.cells, new.at, Append(tape[u], l.c))
    <3> DEFINE c == l.c
    <3>1. c \in Output /\ Corner(CursorOf(u), c) = {} /\ new = Put(ScreenOf(u), CursorOf(u), c)
      BY <1>1, <2>1, <2>2, <2>4
    <3> HIDE DEF c
    <3>2. Matches(new.cells, new.at, Append(tape[u], c))
      BY <2>1, <2>2, <3>1, PrintedRight
    <3> QED BY <3>2 DEF c
  <2>6. ScreenOf(u)' = new.cells
    BY <1>2, <1>6, <2>3, Facts, Pages
  <2>7. Pictures(ScreenOf(u)', tape'[u].text) /\ Index(call'[u].at.y, call'[u].at.x) = tape'[u].pos
    BY <1>3, <1>5, <2>5, <2>6 DEF Matches
  <2> QED BY <1>3, <2>7 DEF Right, Drawing, Drew, CursorPending
<1>10. strayed' \in [Terms -> SUBSET Kinds]
  BY <1>5 DEF Grows
<1> QED BY <1>5, <1>7, <1>8, <1>9, <1>10 DEF Truth, Screens

\* The end of putct: what is written of the cursors.
LEMMA WritingRight ==
  ASSUME CInv, ShowX \/ ShowY \/ SaveX \/ SaveY
  PROVE  Truth'
<1> PICK u \in Terms : u = cur_execute_term
  BY Facts
<1> DEFINE l == call[u]
<1>1. /\ l = own /\ l \in Calls /\ cur_vis_term' = cur_vis_term
      /\ \A t \in Terms \ {u} : call'[t] = call[t]
      /\ l.at \in Cursors
  <2>1. \E pc, local : Does(pc, local)
    BY DEF ShowX, ShowY, SaveX, SaveY
  <2> QED BY <2>1, Own DEF Calls
<1>2. /\ page' = page /\ video_mem_t' = video_mem_t /\ tape' = tape /\ strayed' = strayed
  BY DEF history, ShowX, ShowY, SaveX, SaveY
<1>3. \A t \in Terms : ScreenOf(t)' = ScreenOf(t)
  BY <1>1, <1>2 DEF ScreenOf
<1>4. Grows
  BY <1>2, Facts DEF Grows
<1>5. CASE ShowX
  <2>1. l.pc = "showx" /\ call'[u] = [l EXCEPT !.pc = "showy"]
    BY <1>1, <1>5, Own DEF ShowX
  <2>2. call'[u].pc = "showy" /\ call'[u].at = l.at
    BY <1>1, <2>1 DEF Calls
  <2>3. display' = [display EXCEPT !.x = l.at.x] /\ cursor' = cursor
    BY <1>1, <1>5 DEF ShowX
  <2>4. display'.x = l.at.x
    BY <2>3, Facts DEF Cursors
  <2>5. Apart'
    BY <1>1, <1>2, <1>4, <2>1, <2>2, Facts, ApartKept
  <2>6. ASSUME NEW t \in Terms, strayed'[t] = {} PROVE Right(t)'
    <3>1. Right(t) /\ strayed[t] = {}
      BY <1>2, <2>6, Facts DEF Screens
    <3>2. CASE t # u
      <4>1. t # cur_vis_term
        BY <2>1, <3>1, <3>2, Facts DEF Apart
      <4>2. CursorOf(t)' = CursorOf(t)
        BY <1>1, <2>3, <4>1 DEF CursorOf
      <4> QED BY <1>1, <1>2, <1>3, <2>3, <3>1, <3>2, <4>2, Kept
    <3>3. CASE t = u
      <4>1. t = cur_vis_term => CursorOf(t)'.x = l.at.x
        BY <1>1, <2>4 DEF CursorOf
      <4> QED BY <1>1, <1>2, <1>3, <2>1, <2>2, <3>1, <3>3, <4>1
              DEF Right, Drawing, Drew, CursorPending
    <3> QED BY <3>2, <3>3
  <2> QED BY <1>2, <2>5, <2>6, Facts DEF Truth, Screens
<1>6. CASE ShowY
  <2>1. l.pc = "showy" /\ call'[u] = [l EXCEPT !.pc = "savex"]
    BY <1>1, <1>6, Own DEF ShowY
  <2>2. call'[u].pc = "savex" /\ call'[u].at = l.at
    BY <1>1, <2>1 DEF Calls
  <2>3. display' = [display EXCEPT !.y = l.at.y] /\ cursor' = cursor
    BY <1>1, <1>6 DEF ShowY
  <2>4. display.x = l.at.x => display' = l.at
    BY <1>1, <2>3, Facts DEF Cursors
  <2>5. Apart'
    BY <1>1, <1>2, <1>4, <2>1, <2>2, Facts, ApartKept
  <2>6. ASSUME NEW t \in Terms, strayed'[t] = {} PROVE Right(t)'
    <3>1. Right(t) /\ strayed[t] = {}
      BY <1>2, <2>6, Facts DEF Screens
    <3>2. CASE t # u
      <4>1. t # cur_vis_term
        BY <2>1, <3>1, <3>2, Facts DEF Apart
      <4>2. CursorOf(t)' = CursorOf(t)
        BY <1>1, <2>3, <4>1 DEF CursorOf
      <4> QED BY <1>1, <1>2, <1>3, <2>3, <3>1, <3>2, <4>2, Kept
    <3>3. CASE t = u
      <4>1. t = cur_vis_term => CursorOf(t) = display /\ CursorOf(t)' = display'
        BY <1>1 DEF CursorOf
      <4>2. t = cur_vis_term => CursorOf(t)' = l.at
        BY <2>1, <2>4, <3>1, <3>3, <4>1 DEF Right, Drew, CursorPending
      <4> QED BY <1>1, <1>2, <1>3, <2>1, <2>2, <3>1, <3>3, <4>2
              DEF Right, Drawing, Drew, CursorPending
    <3> QED BY <3>2, <3>3
  <2> QED BY <1>2, <2>5, <2>6, Facts DEF Truth, Screens
<1>7. CASE SaveX
  <2>1. l.pc = "savex" /\ call'[u] = [l EXCEPT !.pc = "savey"]
    BY <1>1, <1>7, Own DEF SaveX
  <2>2. call'[u].pc = "savey" /\ call'[u].at = l.at
    BY <1>1, <2>1 DEF Calls
  <2>3. cursor' = [cursor EXCEPT ![u].x = l.at.x] /\ display' = display
    BY <1>1, <1>7 DEF SaveX
  <2>4. cursor'[u].x = l.at.x /\ \A t \in Terms \ {u} : cursor'[t] = cursor[t]
    BY <2>3, Facts DEF Cursors
  <2>5. Apart'
    BY <1>1, <1>2, <1>4, <2>1, <2>2, Facts, ApartKept
  <2>6. ASSUME NEW t \in Terms, strayed'[t] = {} PROVE Right(t)'
    <3>1. Right(t) /\ strayed[t] = {}
      BY <1>2, <2>6, Facts DEF Screens
    <3>2. CASE t # u
      <4>1. CursorOf(t)' = CursorOf(t)
        BY <1>1, <2>3, <2>4, <3>2 DEF CursorOf
      <4> QED BY <1>1, <1>2, <1>3, <2>4, <3>1, <3>2, <4>1, Kept
    <3>3. CASE t = u
      <4>1. t = cur_vis_term => CursorOf(t)' = CursorOf(t)
        BY <1>1, <2>3 DEF CursorOf
      <4> QED BY <1>1, <1>2, <1>3, <2>1, <2>2, <2>4, <3>1, <3>3, <4>1
              DEF Right, Drawing, Drew, CursorPending
    <3> QED BY <3>2, <3>3
  <2> QED BY <1>2, <2>5, <2>6, Facts DEF Truth, Screens
<1>8. CASE SaveY
  <2>1. l.pc = "savey" /\ call'[u].pc = "out"
    BY <1>1, <1>8, Own DEF SaveY, Out
  <2>2. cursor' = [cursor EXCEPT ![u].y = l.at.y] /\ display' = display
    BY <1>1, <1>8 DEF SaveY
  <2>3. cursor[u].x = l.at.x => cursor'[u] = l.at
    BY <1>1, <2>2, Facts DEF Cursors
  <2>4. \A t \in Terms \ {u} : cursor'[t] = cursor[t]
    BY <2>2, Facts
  <2>5. Apart'
    BY <1>1, <1>2, <1>4, <2>1, Facts, ApartKept
  <2>6. ASSUME NEW t \in Terms, strayed'[t] = {} PROVE Right(t)'
    <3>1. Right(t) /\ strayed[t] = {}
      BY <1>2, <2>6, Facts DEF Screens
    <3>2. CASE t # u
      <4>1. CursorOf(t)' = CursorOf(t)
        BY <1>1, <2>2, <2>4, <3>2 DEF CursorOf
      <4> QED BY <1>1, <1>2, <1>3, <2>4, <3>1, <3>2, <4>1, Kept
    <3>3. CASE t = u
      <4>1. /\ Pictures(ScreenOf(u), tape[u].text) /\ Index(l.at.y, l.at.x) = tape[u].pos
            /\ u = cur_vis_term => CursorOf(u) = l.at
            /\ cursor[u].x = l.at.x
        BY <2>1, <3>1, <3>3 DEF Right, Drew, CursorPending
      <4>2. CursorOf(u)' = l.at
        BY <1>1, <2>2, <2>3, <4>1 DEF CursorOf
      <4>3. Matches(ScreenOf(u)', CursorOf(u)', tape'[u])
        BY <1>2, <1>3, <4>1, <4>2 DEF Matches
      <4> QED BY <2>1, <3>3, <4>3 DEF Right, Drawing, Drew, CursorPending
    <3> QED BY <3>2, <3>3
  <2> QED BY <1>2, <2>5, <2>6, Facts DEF Truth, Screens
<1> QED BY <1>5, <1>6, <1>7, <1>8

\* A character printed by putc on the display, by a key or by a message of the
\* visible terminal.
LEMMA VisibleRight ==
  ASSUME CInv, NEW c \in Output, putc(Frame(cur_vis_term, cur_vis_term), c),
         NEW kinds \in SUBSET Kinds, Record(cur_vis_term, c, kinds),
         kinds = {} => Corner(display, c) = {} /\ ~HoldsCopy(cur_vis_term)
  PROVE  Truth'
<1> PICK u \in Terms : u = cur_vis_term
  BY Facts
<1> DEFINE new == Put(ScreenOf(u), CursorOf(u), c)
<1>1. ScreenOf(u) = page[Video] /\ CursorOf(u) = display /\ Frame(cur_vis_term, u) = Video
  BY DEF ScreenOf, CursorOf, Frame
<1>2. /\ page' = [page EXCEPT ![Video] = new.cells] /\ display' = new.at
      /\ cursor' = cursor /\ video_mem_t' = video_mem_t /\ call' = call
      /\ cur_vis_term' = cur_vis_term
  BY <1>1 DEF putc, terminals
<1> HIDE DEF new
<1>3. /\ Grows /\ tape' \in [Terms -> Tapes]
      /\ \A t \in Terms \ {u} : strayed'[t] = strayed[t] /\ tape'[t] = tape[t]
      /\ strayed'[u] = {} => strayed[u] = {} /\ kinds = {}
      /\ tape'[u] = Append(tape[u], c)
  BY Facts, RecordGrows
<1>4. Apart'
  BY <1>2, <1>3, Facts, ApartKept
<1>5. ASSUME NEW t \in Terms, strayed'[t] = {} PROVE Right(t)'
  <2>1. Right(t) /\ strayed[t] = {}
    BY <1>3, <1>5, Facts DEF Screens
  <2>2. CASE t # u
    <3>1. CursorOf(t)' = CursorOf(t)
      BY <1>2, <2>2 DEF CursorOf
    <3>2. ScreenOf(t)' = ScreenOf(t)
      BY <1>2, <2>2, Facts, NoSuchTerminal DEF ScreenOf
    <3> QED BY <1>2, <1>3, <2>1, <2>2, <3>1, <3>2, Kept
  <2>3. CASE t = u
    <3>1. Corner(CursorOf(u), c) = {} /\ call[u].pc \in {"out", "x"}
      BY <1>1, <1>3, <1>5, <2>3 DEF HoldsCopy
    <3>2. Matches(new.cells, new.at, Append(tape[u], c))
      <4>1. ~CursorPending(u) /\ new = Put(ScreenOf(u), CursorOf(u), c)
        BY <3>1 DEF CursorPending, new
      <4> QED BY <2>1, <2>3, <3>1, <4>1, PrintedRight
    <3>3. ScreenOf(u)' = new.cells /\ CursorOf(u)' = new.at
      BY <1>2, Facts DEF ScreenOf, CursorOf
    <3> QED BY <1>2, <1>3, <2>1, <2>3, <3>1, <3>2, <3>3
            DEF Right, Drawing, Drew, CursorPending
  <2> QED BY <2>2, <2>3
<1>6. strayed' \in [Terms -> SUBSET Kinds]
  BY <1>3 DEF Grows
<1> QED BY <1>3, <1>4, <1>5, <1>6 DEF Truth, Screens

\* A step that prints on the page of the terminal that runs with the cursor of the
\* visible one, another, and makes both stray.
LEMMA BothStray ==
  ASSUME CInv, cur_vis_term # cur_execute_term, NEW kind \in Kinds,
         strayed' = Marked(kind, {cur_vis_term, cur_execute_term}),
         tape' \in [Terms -> Tapes],
         NEW cells, page' = [page EXCEPT ![Frame(cur_vis_term, cur_execute_term)] = cells],
         \A t \in Terms \ {cur_vis_term, cur_execute_term} : tape'[t] = tape[t],
         UNCHANGED <<cursor, video_mem_t, call, terminals>>
  PROVE  Truth'
<1> DEFINE S == {cur_vis_term, cur_execute_term}
<1>1. strayed' = Marked(kind, S)
  OBVIOUS
<1> HIDE DEF S
<1>2. Grows /\ \A t \in Terms : strayed'[t] # {} <=> strayed[t] # {} \/ t \in S
  BY <1>1, Facts, MarkedGrows
<1>3. cur_vis_term' = cur_vis_term
  BY DEF terminals
<1>4. Apart'
  BY <1>2, <1>3, Facts, ApartKept
<1>5. ASSUME NEW t \in Terms, strayed'[t] = {} PROVE Right(t)'
  <2>1. Right(t) /\ t # cur_vis_term /\ t # cur_execute_term
    BY <1>2, <1>5, Facts DEF Screens, S
  <2>2. Frame(cur_vis_term, cur_execute_term) = cur_execute_term
    BY Facts DEF Frame
  <2>3. ScreenOf(t)' = ScreenOf(t) /\ CursorOf(t)' = CursorOf(t)
    BY <1>3, <2>1, <2>2, Facts DEF ScreenOf, CursorOf
  <2> QED BY <1>3, <2>1, <2>3, Kept
<1>6. strayed' \in [Terms -> SUBSET Kinds]
  BY <1>2 DEF Grows
<1> QED BY <1>4, <1>5, <1>6 DEF Truth, Screens

LEMMA MessageRight ==
  ASSUME CInv, NEW c \in Glyphs \cup {Newline}, Message(c)
  PROVE  Truth'
<1>1. c \in Output /\ c # Backspace
  BY ConsoleAssumption DEF Output, Newline, Backspace
<1>2. CASE cur_vis_term = cur_execute_term
  <2>1. Corner(display, c) = {} /\ ~HoldsCopy(cur_vis_term)
    BY <1>1, <1>2 DEF Corner, HoldsCopy, Message, own
  <2>2. Record(cur_vis_term, c, {})
    <3>1. tape' = [tape EXCEPT ![cur_vis_term] = Append(tape[cur_vis_term], c)]
      BY <1>2 DEF Message
    <3>2. strayed' = [strayed EXCEPT ![cur_vis_term] = strayed[cur_vis_term] \cup {}]
      BY <1>2, Facts DEF Message
    <3> QED BY <3>1, <3>2 DEF Record
  <2>3. putc(Frame(cur_vis_term, cur_vis_term), c)
    BY <1>2 DEF Message
  <2> QED BY <1>1, <2>1, <2>2, <2>3, VisibleRight
<1>3. CASE cur_vis_term # cur_execute_term
  <2> DEFINE new == Put(page[Frame(cur_vis_term, cur_execute_term)], display, c)
  <2>1. /\ tape' = [tape EXCEPT ![cur_execute_term] = Append(tape[cur_execute_term], c)]
        /\ page' = [page EXCEPT ![Frame(cur_vis_term, cur_execute_term)] = new.cells]
        /\ strayed' = Marked("message", {cur_vis_term, cur_execute_term})
        /\ UNCHANGED <<cursor, video_mem_t, call, terminals>>
    BY <1>3 DEF Message, putc
  <2> HIDE DEF new
  <2>2. tape' \in [Terms -> Tapes]
    BY <1>1, <2>1, Facts, AppendTape
  <2>3. \A t \in Terms \ {cur_vis_term, cur_execute_term} : tape'[t] = tape[t]
    BY <2>1, Facts
  <2>4. "message" \in Kinds
    BY DEF Kinds
  <2> QED BY <1>3, <2>1, <2>2, <2>3, <2>4, BothStray
<1> QED BY <1>2, <1>3

LEMMA ResetRight ==
  ASSUME CInv, reset_screen
  PROVE  Truth'
<1> PICK u \in Terms : u = cur_vis_term
  BY Facts
<1>1. /\ page' = [page EXCEPT ![Frame(cur_vis_term, cur_execute_term)] = Cleared]
      /\ display' = Cursor(0, 0) /\ cursor' = cursor /\ cur_vis_term' = cur_vis_term
      /\ tape' = [tape EXCEPT ![u] = EmptyTape] /\ video_mem_t' = video_mem_t
      /\ call' = call /\ UNCHANGED <<cursor, video_mem_t, call, terminals>>
  BY DEF reset_screen, terminals
<1>2. /\ tape' \in [Terms -> Tapes] /\ tape'[u] = EmptyTape
      /\ \A t \in Terms \ {u} : tape'[t] = tape[t]
  BY <1>1, Facts, EmptyMatches
<1>3. CASE cur_vis_term # cur_execute_term
  <2>1. strayed' = Marked("reset", {cur_vis_term, cur_execute_term})
    BY <1>3 DEF reset_screen
  <2>2. "reset" \in Kinds
    BY DEF Kinds
  <2> QED BY <1>1, <1>2, <1>3, <2>1, <2>2, BothStray
<1>4. CASE cur_vis_term = cur_execute_term
  <2> DEFINE S == {t \in {cur_vis_term} : HoldsCopy(t)}
  <2>1. strayed' = Marked("race", S) /\ "race" \in Kinds
    BY <1>4 DEF reset_screen, Kinds
  <2>2. page' = [page EXCEPT ![Video] = Cleared]
    BY <1>1, <1>4 DEF Frame
  <2>3. HoldsCopy(u) => u \in S
    OBVIOUS
  <2> HIDE DEF S
  <2>4. Grows /\ \A t \in Terms : strayed'[t] # {} <=> strayed[t] # {} \/ t \in S
    BY <2>1, Facts, MarkedGrows
  <2>5. Apart'
    BY <1>1, <2>4, Facts, ApartKept
  <2>6. ASSUME NEW t \in Terms, strayed'[t] = {} PROVE Right(t)'
    <3>1. Right(t) /\ strayed[t] = {}
      BY <2>4, <2>6, Facts DEF Screens
    <3>2. CASE t # u
      <4>1. CursorOf(t)' = CursorOf(t)
        BY <1>1, <3>2 DEF CursorOf
      <4>2. ScreenOf(t)' = ScreenOf(t)
        BY <1>1, <2>2, <3>2, Facts, NoSuchTerminal DEF ScreenOf
      <4> QED BY <1>1, <1>2, <3>1, <3>2, <4>1, <4>2, Kept
    <3>3. CASE t = u
      <4>1. call[u].pc \in {"out", "x"}
        BY <2>3, <2>4, <2>6, <3>3 DEF HoldsCopy
      <4>2. ScreenOf(u)' = Cleared /\ CursorOf(u)' = Cursor(0, 0)
        BY <1>1, <2>2, Facts DEF ScreenOf, CursorOf
      <4>3. Matches(ScreenOf(u)', CursorOf(u)', tape'[u])
        BY <1>2, <4>2, EmptyMatches
      <4> QED BY <1>1, <3>1, <3>3, <4>1, <4>3 DEF Right, Drawing, Drew, CursorPending
    <3> QED BY <3>2, <3>3
  <2>7. strayed' \in [Terms -> SUBSET Kinds]
    BY <2>4 DEF Grows
  <2> QED BY <1>2, <2>5, <2>6, <2>7 DEF Truth, Screens
<1> QED BY <1>3, <1>4

\* Another terminal on the display: pages and cursors move together, and what a
\* putct under way may still do wrong is in Torn.
LEMMA SwitchRight ==
  ASSUME CInv, NEW v \in Terms, TermSwitch(v)
  PROVE  Truth'
<1>1. /\ v # cur_vis_term /\ cur_vis_term' = v /\ display' = cursor[v]
      /\ page' = [page EXCEPT ![cur_vis_term] = page[Video], ![Video] = page[v]]
      /\ cursor' = [cursor EXCEPT ![cur_vis_term] = display]
      /\ tape' = tape /\ call' = call /\ video_mem_t' = video_mem_t
      /\ strayed' = Marked("race", Torn(v))
  BY Facts DEF TermSwitch, SavedCursors
<1>2. ASSUME NEW t \in Terms
      PROVE  ScreenOf(t)' = ScreenOf(t) /\ CursorOf(t)' = CursorOf(t)
  <2>1. CursorOf(t)' = CursorOf(t)
    BY <1>1, Facts DEF CursorOf
  <2>2. ScreenOf(t) = IF t = cur_vis_term THEN page[Video] ELSE page[t]
    BY Facts DEF ScreenOf
  <2>3. ScreenOf(t)' = IF t = v THEN page'[Video] ELSE page'[t]
    BY <1>1, Facts DEF ScreenOf
  <2>4. page'[Video] = page[v]
    BY <1>1, Facts
  <2>5. t # v => page'[t] = IF t = cur_vis_term THEN page[Video] ELSE page[t]
    BY <1>1, Facts, NoSuchTerminal
  <2> QED BY <1>1, <2>1, <2>2, <2>3, <2>4, <2>5
<1>3. Grows /\ \A t \in Terms : strayed'[t] # {} <=> strayed[t] # {} \/ t \in Torn(v)
  <2> DEFINE S == Torn(v)
  <2>1. strayed' = Marked("race", S) /\ "race" \in Kinds
    BY <1>1 DEF Kinds
  <2> HIDE DEF S
  <2>2. Grows /\ \A t \in Terms : strayed'[t] # {} <=> strayed[t] # {} \/ t \in S
    BY <2>1, Facts, MarkedGrows
  <2> QED BY <2>2 DEF S
<1>4. ASSUME NEW t \in Terms, t \notin Torn(v)
      PROVE  /\ t = cur_vis_term => call[t].pc \notin {"x", "y"}
             /\ t = v => /\ ~(call[t].pc \in {"x", "y", "page", "draw"} /\ ~call[t].here)
                         /\ call[t].pc \notin {"showx", "showy", "savex", "savey"}
  BY <1>4 DEF Torn
<1>5. Apart'
  <2> SUFFICES ASSUME NEW u \in Terms
               PROVE  /\ call[u].pc \in {"showx", "showy"} /\ u # v => strayed'[v] # {}
                      /\ call[u].pc = "draw" /\ video_mem_t \in Terms \ {u}
                           => strayed'[u] # {} /\ strayed'[video_mem_t] # {}
    BY <1>1 DEF Apart
  <2>1. call[u].pc \in {"showx", "showy"} /\ u # v => v \in Torn(v)
    BY DEF Torn
  <2>2. call[u].pc = "draw" /\ video_mem_t \in Terms \ {u}
          => strayed[u] # {} /\ strayed[video_mem_t] # {}
    BY Facts DEF Apart
  <2> QED BY <1>3, <2>1, <2>2 DEF Grows
<1>6. ASSUME NEW t \in Terms, strayed'[t] = {} PROVE Right(t)'
  <2> DEFINE l == call[t]
  <2>1. Right(t) /\ strayed[t] = {} /\ t \notin Torn(v)
    BY <1>3, <1>6, Facts DEF Screens
  <2>2. /\ t = cur_vis_term => l.pc \notin {"x", "y"}
        /\ t = v => /\ ~(l.pc \in {"x", "y", "page", "draw"} /\ ~l.here)
                    /\ l.pc \notin {"showx", "showy", "savex", "savey"}
    BY <1>4, <2>1
  <2>3. /\ ScreenOf(t)' = ScreenOf(t) /\ CursorOf(t)' = CursorOf(t)
        /\ CursorPending(t)' <=> CursorPending(t)
    BY <1>1, <1>2 DEF CursorPending
  <2>4. l.pc \in {"x", "y"} => t # v /\ t # cur_vis_term
    <3>1. l.pc \in {"x", "y"} => l.here = (t = cur_vis_term)
      BY <2>1 DEF Right, Drawing
    <3> QED BY <1>1, <2>2, <3>1
  <2>5. Drawing(t)'
    BY <1>1, <2>1, <2>2, <2>3, <2>4 DEF Right, Drawing
  <2>6. l.pc = "savey" => cursor'[t].x = l.at.x
    <3>1. CASE t = cur_vis_term
      <4>1. cursor'[t] = CursorOf(t)
        BY <1>1, <3>1, Facts DEF CursorOf
      <4> QED BY <2>1, <3>1, <4>1 DEF Right, Drew, CursorPending
    <3>2. CASE t # cur_vis_term
      <4>1. cursor'[t] = cursor[t]
        BY <1>1, <3>2, Facts
      <4> QED BY <2>1, <4>1 DEF Right, Drew, CursorPending
    <3> QED BY <3>1, <3>2
  <2>7. Drew(t)'
    BY <1>1, <2>1, <2>2, <2>3, <2>6 DEF Right, Drew, CursorPending
  <2> QED BY <2>5, <2>7 DEF Right
<1>7. tape' \in [Terms -> Tapes] /\ strayed' \in [Terms -> SUBSET Kinds]
  BY <1>1, <1>3, Facts DEF Grows
<1> QED BY <1>5, <1>6, <1>7 DEF Truth, Screens

\* A step that changes neither screens nor calls, as a tick.
LEMMA IdleRight ==
  ASSUME CInv, UNCHANGED <<cur_vis_term, page, display, cursor, video_mem_t, call, tape, strayed>>
  PROVE  Truth'
<1>1. \A t \in Terms : ScreenOf(t)' = ScreenOf(t) /\ CursorOf(t)' = CursorOf(t)
  BY DEF ScreenOf, CursorOf
<1>2. \A t \in Terms : strayed'[t] = {} => Right(t)'
  BY <1>1, Facts, Kept DEF Screens
<1>3. Apart'
  BY Facts DEF Apart
<1> QED BY <1>2, <1>3, Facts DEF Truth, Screens

LEMMA NextScreens == CInv /\ [Next]_vars => CInv'
<1> SUFFICES ASSUME CInv, [Next]_vars PROVE CInv'
  OBVIOUS
<1>1. TypeOK'
  BY NextTypes DEF CInv
<1>2. SUFFICES Truth'
  BY <1>1 DEF CInv
<1>3. CASE UNCHANGED vars
  BY <1>3, IdleRight DEF vars, terminals, screens, history
<1>4. ASSUME NEW c \in Output, putct(c) PROVE Truth'
  BY <1>4, ReadingRight DEF putct
<1>5. ASSUME NEW c \in Output, Echo(c) PROVE Truth'
  <2> DEFINE kinds == Corner(display, c) \cup IF HoldsCopy(cur_vis_term) THEN {"race"} ELSE {}
  <2>1. kinds \in SUBSET Kinds
    BY DEF Corner, Kinds
  <2>2. kinds = {} => Corner(display, c) = {} /\ ~HoldsCopy(cur_vis_term)
    OBVIOUS
  <2>3. putc(Frame(cur_vis_term, cur_vis_term), c) /\ Record(cur_vis_term, c, kinds)
    BY <1>5 DEF Echo, EchoFrame
  <2> HIDE DEF kinds
  <2> QED BY <2>1, <2>2, <2>3, VisibleRight
<1>6. CASE Step
  <2>1. CASE CopyX \/ CopyY \/ Retest
    BY <2>1, ReadingRight DEF CopyX, CopyY, Retest
  <2> QED BY <1>6, <2>1, PageRight, DrawRight, WritingRight DEF Step
<1>7. ASSUME NEW c \in Glyphs \cup {Newline}, Message(c) PROVE Truth'
  BY <1>7, MessageRight
<1>8. CASE reset_screen
  BY <1>8, ResetRight
<1>9. ASSUME NEW t \in Terms, TermSwitch(t) PROVE Truth'
  BY <1>9, SwitchRight
<1>10. ASSUME NEW t \in Terms, Switch(t) PROVE Truth'
  BY <1>10, IdleRight DEF Switch, screens, history
<1> QED BY <1>3, <1>4, <1>5, <1>6, <1>7, <1>8, <1>9, <1>10 DEF Next, Prints, Moves

\* For every size of the screen, between two characters of its program every
\* terminal shows its own text and nothing else, however the accesses of putct, the
\* echo of keys, the switches of terminals and ticks interleave, unless one of the
\* causes listed at TerminalsShowTheirText hit it; and a terminal that was hit
\* makes no other one wrong.
THEOREM ScreensRight == Spec => []TerminalsShowTheirText
<1>1. CInv => TerminalsShowTheirText
  <2> SUFFICES ASSUME CInv, NEW t \in Terms, strayed[t] = {}, ~CursorPending(t)
               PROVE  Shows(t)
    BY DEF TerminalsShowTheirText
  <2>1. Pictures(ScreenOf(t), tape[t].text)
        /\ Index(CursorOf(t).y, CursorOf(t).x) = tape[t].pos
    BY DEF CInv, Truth, Screens, Right, Drawing, Matches
  <2>2. ASSUME NEW p \in Ys \X Xs
        PROVE  ScreenOf(t)[p] = tape[t].text[p[1] * NUM_COLS + p[2]]
    <3>1. p[1] \in Ys /\ p[2] \in Xs /\ p = <<p[1], p[2]>>
      OBVIOUS
    <3>2. ScreenOf(t)[<<p[1], p[2]>>] = tape[t].text[Index(p[1], p[2])]
      BY <2>1, <3>1 DEF Pictures
    <3> QED BY <3>1, <3>2 DEF Index
  <2> QED BY <2>1, <2>2 DEF Shows, Index
<1> QED BY <1>1, InitScreens, NextScreens, PTL DEF Spec
=============================================================================
