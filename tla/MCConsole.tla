------------------------------ MODULE MCConsole ------------------------------
(***************************************************************************)
(* Console with a bound on the characters that are written, so that the    *)
(* accesses of putct by several terminals stay within TLC's reach.         *)
(***************************************************************************)
EXTENDS Console

CONSTANT MaxPrinted   \* characters, messages and resets in a behaviour

ASSUME MaxPrinted \in Nat

VARIABLE printed

MCInit == Init /\ printed = 0

MCNext ==
  \/ /\ printed < MaxPrinted
     /\ printed' = printed + 1
     /\ Prints
  \/ /\ UNCHANGED printed
     /\ Step \/ Moves

MCSpec == MCInit /\ [][MCNext]_<<vars, printed>>
=============================================================================
