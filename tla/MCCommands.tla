----------------------------- MODULE MCCommands -----------------------------
EXTENDS Commands

\* A text file, a program, cat and a shell: one name is the start of another,
\* two have the full length.
MCEntries ==
  <<[name |-> <<"a", "b">>, kind |-> "text"],
    [name |-> <<"a">>, kind |-> "any"],
    [name |-> <<"b">>, kind |-> "cat"],
    [name |-> <<"b", "b">>, kind |-> "shell"]>>

=============================================================================
