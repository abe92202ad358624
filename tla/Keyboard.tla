------------------------------ MODULE Keyboard ------------------------------
(***************************************************************************)
(* The keyboard (keyboard.c): one interrupt is one scan code.  SCAC holds  *)
(* the modifiers for all terminals; each terminal has a buffer for the     *)
(* line being typed and one for the line last entered.  terminal_read is   *)
(* not in the repository; it is modelled from the flags the handler tests  *)
(* (terminal_enabled) and sets (read_flag).  Echo is left out.             *)
(***************************************************************************)
EXTENDS Integers, Sequences

CONSTANTS
  NumTerm,      \* number of terminals, 3 in the code
  BUF_SIZE,     \* 128 in the code
  LetterKeys,   \* keys whose upper tables depend on Caps Lock
  SymbolKeys,   \* keys whose upper tables depend on Shift only
  ModKeys       \* the modifier keys of the keyboard, a subset of Modifiers

Modifiers == {"LSHIFT", "RSHIFT", "CAPS", "ALT", "CTRL"}

ASSUME KeyboardAssumption ==
  /\ NumTerm \in Nat \ {0} /\ BUF_SIZE \in Nat \ {0}
  /\ ModKeys \subseteq Modifiers
  /\ (LetterKeys \cup SymbolKeys) \cap {"space", "enter", "backspace", "zero"} = {}

Terms == 0..(NumTerm - 1)
Index == 0..(BUF_SIZE - 1)

\* A character is a key and the table it was looked up in; Enter, Backspace and
\* Space are the same in all tables.
Chars == (LetterKeys \cup SymbolKeys) \X {"l", "u"} \cup {<<"space", "l">>}
Newline == <<"enter", "l">>
Backspace == <<"backspace", "l">>
Zero == <<"zero", "l">>
CharKeys == LetterKeys \cup SymbolKeys \cup {"space", "enter", "backspace"}

VARIABLES
  SCAC,               \* modifiers: a subset of {"SHIFT", "CAPS", "ALT", "CTRL"}
  CAPSLOCK_HOLDON,    \* Caps Lock was pressed and not released since
  cur_vis_term,
  key_buf, curr_idx,  \* per terminal: the line being typed
  line_buf,           \* per terminal: the line last entered
  read_flag,          \* per terminal: line_buf is ready
  terminal_enabled,   \* per terminal: a program reads the terminal
  held                \* history: the modifier keys that are down

vars == <<SCAC, CAPSLOCK_HOLDON, cur_vis_term, key_buf, curr_idx, line_buf,
          read_flag, terminal_enabled, held>>
mods == <<SCAC, CAPSLOCK_HOLDON, held>>
bufs == <<key_buf, curr_idx, line_buf, read_flag>>

Init ==
  /\ SCAC = {}
  /\ CAPSLOCK_HOLDON = FALSE
  /\ cur_vis_term = 0
  /\ key_buf = [t \in Terms |-> [i \in Index |-> Zero]]
  /\ curr_idx = [t \in Terms |-> 0]
  /\ line_buf = [t \in Terms |-> [i \in Index |-> Zero]]
  /\ read_flag = [t \in Terms |-> FALSE]
  /\ terminal_enabled = [t \in Terms |-> FALSE]
  /\ held = {}

-----------------------------------------------------------------------------
(* Modifiers                                                               *)

Bit(k) == IF k \in {"LSHIFT", "RSHIFT"} THEN "SHIFT" ELSE k

\* Seeded fault: every make code of Caps Lock toggles, repeated ones too.
CapsPressed_Repeat ==
  /\ CAPSLOCK_HOLDON' = TRUE
  /\ SCAC' = IF SCAC \cap {"CAPS", "SHIFT"} # {}
             THEN SCAC \ {"CAPS"} ELSE SCAC \cup {"CAPS"}

\* Caps Lock toggles once until it is released.  SCAC >= CAPS_BIT holds for
\* Shift as well, so with Shift down the lock can be cleared only.
CapsPressed ==
  IF CAPSLOCK_HOLDON THEN UNCHANGED <<SCAC, CAPSLOCK_HOLDON>>
  ELSE /\ CAPSLOCK_HOLDON' = TRUE
       /\ SCAC' = IF SCAC \cap {"CAPS", "SHIFT"} # {}
                  THEN SCAC \ {"CAPS"} ELSE SCAC \cup {"CAPS"}

\* The make code of a modifier, repeated while the key is down.
Press(k) ==
  /\ IF k = "CAPS" THEN CapsPressed
     ELSE SCAC' = SCAC \cup {Bit(k)} /\ UNCHANGED CAPSLOCK_HOLDON
  /\ held' = held \cup {k}
  /\ UNCHANGED <<cur_vis_term, terminal_enabled, bufs>>

\* Seeded fault: the second terminal does not look at break codes.
Release_FirstOnly(k) ==
  /\ k \in held
  /\ CAPSLOCK_HOLDON' = (CAPSLOCK_HOLDON /\ k # "CAPS")
  /\ SCAC' = IF k = "CAPS" \/ cur_vis_term # 0 THEN SCAC ELSE SCAC \ {Bit(k)}
  /\ held' = held \ {k}
  /\ UNCHANGED <<cur_vis_term, terminal_enabled, bufs>>

\* The break code of a modifier, whatever terminal is visible by now.
Release(k) ==
  /\ k \in held
  /\ CAPSLOCK_HOLDON' = (CAPSLOCK_HOLDON /\ k # "CAPS")
  /\ SCAC' = IF k = "CAPS" THEN SCAC ELSE SCAC \ {Bit(k)}
  /\ held' = held \ {k}
  /\ UNCHANGED <<cur_vis_term, terminal_enabled, bufs>>

\* term_switch is not in the repository.  The handler stores Caps Lock in the global
\* CAPS_state before the call and reads it back after, its only use: it is kept for
\* the call only, and may come back changed.
term_switch(t, CAPS_state) ==
  /\ cur_vis_term' = t
  /\ CAPS_state \in BOOLEAN

\* Alt and a function key show a terminal; Caps Lock is what CAPS_state then says.
FunctionKey(t) ==
  /\ SCAC \in {{"ALT"}, {"ALT", "CAPS"}}
  /\ \E CAPS_state \in BOOLEAN :
       /\ term_switch(t, CAPS_state)
       /\ SCAC' = IF CAPS_state THEN SCAC \cup {"CAPS"} ELSE SCAC \ {"CAPS"}
  /\ UNCHANGED <<CAPSLOCK_HOLDON, held, bufs, terminal_enabled>>

-----------------------------------------------------------------------------
(* Characters                                                              *)

\* The table of a key, by the modifiers; "none" where no character results.
Table(k) ==
  CASE k = "space" -> "l"
    [] k # "space" /\ SCAC = {} -> "l"
    [] k # "space" /\ SCAC = {"SHIFT"} -> "u"
    [] k # "space" /\ SCAC = {"CAPS"} -> IF k \in LetterKeys THEN "u" ELSE "l"
    [] k # "space" /\ SCAC \in {{"SHIFT", "CAPS"}, {"ALT"}, {"ALT", "CAPS"}} ->
         IF k \in SymbolKeys THEN "u" ELSE "l"
    [] OTHER -> "none"

convert_to_ascii(k) == IF k \in {"enter", "backspace"} THEN <<k, "l">>
                       ELSE <<k, Table(k)>>

\* Seeded fault: the line may fill the whole buffer.
IsFull_Off(t) == curr_idx[t] = BUF_SIZE

\* The last place is kept for the newline.
IsFull(t) == curr_idx[t] = BUF_SIZE - 1

\* Seeded fault: the index is not reset.
EnterLine_KeepIdx(t) ==
  /\ line_buf' = [line_buf EXCEPT ![t] = [key_buf[t] EXCEPT ![curr_idx[t]] = Newline]]
  /\ key_buf' = [key_buf EXCEPT ![t] = [i \in Index |-> Zero]]
  /\ read_flag' = [read_flag EXCEPT ![t] = TRUE]
  /\ UNCHANGED curr_idx

\* Seeded fault: the buffer is copied before the newline goes in.
EnterLine_CopyFirst(t) ==
  /\ line_buf' = [line_buf EXCEPT ![t] = key_buf[t]]
  /\ key_buf' = [key_buf EXCEPT ![t] = [i \in Index |-> Zero]]
  /\ curr_idx' = [curr_idx EXCEPT ![t] = 0]
  /\ read_flag' = [read_flag EXCEPT ![t] = TRUE]

\* Enter: the newline goes in, the buffer is copied and cleared.
EnterLine(t) ==
  /\ line_buf' = [line_buf EXCEPT ![t] = [key_buf[t] EXCEPT ![curr_idx[t]] = Newline]]
  /\ key_buf' = [key_buf EXCEPT ![t] = [i \in Index |-> Zero]]
  /\ curr_idx' = [curr_idx EXCEPT ![t] = 0]
  /\ read_flag' = [read_flag EXCEPT ![t] = TRUE]

\* Backspace: the character stays in the buffer behind the index.
EraseLast(t) ==
  /\ curr_idx[t] # 0
  /\ curr_idx' = [curr_idx EXCEPT ![t] = @ - 1]
  /\ UNCHANGED <<key_buf, line_buf, read_flag>>

Store(t, c) ==
  /\ ~IsFull(t)
  /\ key_buf' = [key_buf EXCEPT ![t][curr_idx[t]] = c]
  /\ curr_idx' = [curr_idx EXCEPT ![t] = @ + 1]
  /\ UNCHANGED <<line_buf, read_flag>>

\* The make code of a key that stands for a character.
CharKey(k) ==
  LET t == cur_vis_term
      c == convert_to_ascii(k)
  IN  /\ terminal_enabled[t]
      /\ Table(k) # "none"
      /\ \/ c = Newline /\ EnterLine(t)
         \/ c = Backspace /\ EraseLast(t)
         \/ c \in Chars /\ Store(t, c)
      /\ UNCHANGED <<mods, cur_vis_term, terminal_enabled>>

-----------------------------------------------------------------------------
(* terminal_read, as the handler sees it                                   *)

ReadBegin(t) ==
  /\ ~terminal_enabled[t]
  /\ terminal_enabled' = [terminal_enabled EXCEPT ![t] = TRUE]
  /\ UNCHANGED <<mods, cur_vis_term, bufs>>

ReadEnd(t) ==
  /\ terminal_enabled[t] /\ read_flag[t]
  /\ terminal_enabled' = [terminal_enabled EXCEPT ![t] = FALSE]
  /\ read_flag' = [read_flag EXCEPT ![t] = FALSE]
  /\ UNCHANGED <<mods, cur_vis_term, key_buf, curr_idx, line_buf>>

Next ==
  \/ \E k \in ModKeys : Press(k) \/ Release(k)
  \/ \E k \in CharKeys : CharKey(k)
  \/ \E t \in Terms : FunctionKey(t) \/ ReadBegin(t) \/ ReadEnd(t)

Spec == Init /\ [][Next]_vars

-----------------------------------------------------------------------------
(* Properties                                                              *)

TypeOK ==
  /\ SCAC \subseteq {"SHIFT", "CAPS", "ALT", "CTRL"}
  /\ CAPSLOCK_HOLDON \in BOOLEAN
  /\ cur_vis_term \in Terms
  /\ key_buf \in [Terms -> [Index -> Chars \cup {Zero}]]
  /\ curr_idx \in [Terms -> Index]
  /\ line_buf \in [Terms -> [Index -> Chars \cup {Newline, Zero}]]
  /\ read_flag \in [Terms -> BOOLEAN]
  /\ terminal_enabled \in [Terms -> BOOLEAN]
  /\ held \subseteq ModKeys

\* A modifier counts as down only while one of its keys is down, although the
\* terminal on the screen may change between press and release; for Alt and
\* Ctrl, with one key each, the two are the same.
ModifiersMatchKeys ==
  /\ "SHIFT" \in SCAC => held \cap {"LSHIFT", "RSHIFT"} # {}
  /\ "ALT" \in SCAC <=> "ALT" \in held
  /\ "CTRL" \in SCAC <=> "CTRL" \in held

\* When its key goes down Caps Lock changes, but with Shift down it only clears.
\* Otherwise it changes only at a switch of terminals (term_switch decides), while
\* Alt is down and no modifier goes up or down: neither auto-repeat nor another key
\* changes it, whatever terminal saw the key go down.
CapsKeyDown == "CAPS" \notin held /\ "CAPS" \in held'
CapsChanges == ("CAPS" \in SCAC) # ("CAPS" \in SCAC')
CapsTogglesOncePerPress ==
  [][/\ CapsKeyDown => (CapsChanges <=> ("SHIFT" \in SCAC => "CAPS" \in SCAC))
     /\ CapsChanges /\ ~CapsKeyDown =>
          "ALT" \in held /\ held' = held /\ UNCHANGED <<CAPSLOCK_HOLDON, bufs>>]_vars

\* A line that is ready always ends in a newline, a line of maximal length too:
\* terminal_read cannot run past the buffer.
LineEnds == \A t \in Terms : read_flag[t] => \E i \in Index : line_buf[t][i] = Newline

\* What the user typed and did not erase, and the last line entered, whatever
\* erased characters remain in the buffers behind them.
Typed(t) == [i \in 1..curr_idx[t] |-> key_buf[t][i - 1]]
Entered(t) ==
  LET ends == {i \in Index : line_buf[t][i] = Newline}
      end == CHOOSE i \in ends : \A j \in ends : i <= j
  IN  IF ends = {} THEN <<>> ELSE [i \in 1..end |-> line_buf[t][i - 1]]

Editor == INSTANCE LineEditor WITH
  MaxLine <- BUF_SIZE - 1,
  shown <- cur_vis_term,
  reading <- terminal_enabled,
  typing <- [t \in Terms |-> Typed(t)],
  line <- [t \in Terms |-> Entered(t)],
  ready <- read_flag

\* The handler implements the line editor.
ImplementsLineEditor == Editor!Spec
=============================================================================
