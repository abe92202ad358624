----------------------------- MODULE LineEditor -----------------------------
(***************************************************************************)
(* What the keyboard promises to the terminals, without scan codes,        *)
(* modifiers or buffers of a fixed size in which old characters stay: the  *)
(* user edits the line of the terminal on the screen, as long as someone   *)
(* reads it, and Enter hands the whole line to the reader.                 *)
(***************************************************************************)
EXTENDS Integers, Sequences

CONSTANTS
  Terms,      \* the terminals
  Chars,      \* what can stand in a line
  MaxLine     \* characters a line may have

VARIABLES
  shown,      \* the terminal on the screen
  reading,    \* per terminal: a program waits for a line
  typing,     \* per terminal: the line as edited so far
  line,       \* per terminal: the last line that was entered
  ready       \* per terminal: line was entered and not taken yet

vars == <<shown, reading, typing, line, ready>>

Init ==
  /\ shown \in Terms
  /\ reading = [t \in Terms |-> FALSE]
  /\ typing = [t \in Terms |-> <<>>]
  /\ line = [t \in Terms |-> <<>>]
  /\ ready = [t \in Terms |-> FALSE]

Type(t, c) ==
  /\ shown = t /\ reading[t]
  /\ Len(typing[t]) < MaxLine
  /\ typing' = [typing EXCEPT ![t] = Append(@, c)]
  /\ UNCHANGED <<shown, reading, line, ready>>

Erase(t) ==
  /\ shown = t /\ reading[t]
  /\ typing[t] # <<>>
  /\ typing' = [typing EXCEPT ![t] = SubSeq(@, 1, Len(@) - 1)]
  /\ UNCHANGED <<shown, reading, line, ready>>

Enter(t) ==
  /\ shown = t /\ reading[t]
  /\ line' = [line EXCEPT ![t] = typing[t]]
  /\ typing' = [typing EXCEPT ![t] = <<>>]
  /\ ready' = [ready EXCEPT ![t] = TRUE]
  /\ UNCHANGED <<shown, reading>>

Show(t) ==
  /\ shown' = t
  /\ UNCHANGED <<reading, typing, line, ready>>

Ask(t) ==
  /\ ~reading[t]
  /\ reading' = [reading EXCEPT ![t] = TRUE]
  /\ UNCHANGED <<shown, typing, line, ready>>

Take(t) ==
  /\ reading[t] /\ ready[t]
  /\ reading' = [reading EXCEPT ![t] = FALSE]
  /\ ready' = [ready EXCEPT ![t] = FALSE]
  /\ UNCHANGED <<shown, typing, line>>

Next ==
  \E t \in Terms : \/ \E c \in Chars : Type(t, c)
                   \/ Erase(t) \/ Enter(t) \/ Show(t) \/ Ask(t) \/ Take(t)

Spec == Init /\ [][Next]_vars
=============================================================================
