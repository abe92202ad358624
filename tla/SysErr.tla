------------------------------- MODULE SysErr --------------------------------
(***************************************************************************)
(* The test program of the repository for failing system calls             *)
(* (syscalls/ece391syserr.c), run on the model of the calls while other    *)
(* terminals make any calls they like.  A test is the calls it makes, the  *)
(* calls whose result it looks at, and how many of those must return -1.   *)
(***************************************************************************)
EXTENDS Descriptors

CONSTANT Tester       \* the terminal that runs the program

\* Every image has an entry for its one directory.
ASSUME TesterAssumption ==
  Tester \in Terms /\ DirEntries # {} /\ DirEntries \subseteq Entries

VARIABLES
  todo,       \* the tests still to run, the first one under way
  step,       \* the next call of that test
  errors,     \* how many of its calls returned -1
  failed      \* the tests that printed FAIL, 0 for main itself

script == <<todo, step, errors, failed>>
allVars == <<vars, script>>

-----------------------------------------------------------------------------
NEG_FD == -1
BIG_FD == NumFd

Read(fd) == [eax |-> 3, fd |-> fd, buf |-> "user", nbytes |-> MaxCount]
Write(fd) == [eax |-> 4, fd |-> fd, buf |-> "user", nbytes |-> MaxCount]
Open(name) == [eax |-> 5, name |-> name]
Close(fd) == [eax |-> 6, fd |-> fd]
Vidmap(ptr) == [eax |-> 8, buf |-> ptr]
Number(n) == [eax |-> n]

Dot == CHOOSE e \in DirEntries : TRUE

\* The same call on the descriptors from 2 on.
OnOpened(Call(_)) == [k \in 1..(NumFd - 2) |-> Call(k + 1)]

Test(calls, checked, expected) ==
  [calls |-> calls, checked |-> checked, expected |-> expected]
AllFail(calls) == Test(calls, Len(calls), Len(calls))

err_neg_fd == AllFail(<<Read(NEG_FD), Write(NEG_FD), Close(NEG_FD)>>)
err_big_fd == AllFail(<<Read(BIG_FD), Write(BIG_FD), Close(BIG_FD)>>)
\* One open more than there are descriptors, then all are closed.
err_open_lots ==
  Test([k \in 1..(NumFd - 1) |-> Open(Dot)] \o OnOpened(Close), NumFd - 1, 1)
\* A letter too many, one too few, none.
err_open == AllFail(<<Open(NoFile), Open(NoFile), Open(NoFile)>>)
err_unopened ==
  AllFail([k \in 1..NumFd |-> Close(k - 1)] \o OnOpened(Read) \o OnOpened(Write))
err_vidmap == AllFail(<<Vidmap("NULL"), Vidmap("kernel")>>)
err_stdin_out == AllFail(<<Write(0), Read(1)>>)
err_syscall_num == AllFail(<<Number(11), Number(-1), Number(0)>>)

Tests == <<err_neg_fd, err_big_fd, err_open_lots, err_open, err_unopened,
           err_vidmap, err_stdin_out, err_syscall_num>>

TestInit ==
  /\ Init
  /\ todo = {} /\ step = 0 /\ errors = 0 /\ failed = {}

\* main asks for a number on descriptor 0: one test, all of them for 0, none
\* for a number it does not know.
Select(number) ==
  /\ todo = {} /\ step = 0
  /\ read(Tester, 0, "user", MaxCount)
  /\ IF ret' = -1
     THEN failed' = failed \cup {0} /\ UNCHANGED <<todo, step, errors>>
     ELSE /\ todo' = IF number = 0 THEN 1..8 ELSE {number} \cap (1..8)
          /\ step' = 1 /\ errors' = 0
          /\ UNCHANGED failed

\* The next call of the test.
MakeCall ==
  /\ todo # {}
  /\ LET test == Tests[Lowest(todo)]
     IN  /\ step <= Len(test.calls)
         /\ system_call(Tester, test.calls[step])
         /\ errors' = IF step <= test.checked /\ ret' = -1
                      THEN errors + 1 ELSE errors
         /\ step' = step + 1
         /\ UNCHANGED <<todo, failed>>

\* PASS or FAIL, and on to the next test.
Verdict ==
  /\ todo # {}
  /\ LET number == Lowest(todo)
     IN  /\ step > Len(Tests[number].calls)
         /\ failed' = IF errors = Tests[number].expected THEN failed
                      ELSE failed \cup {number}
         /\ todo' = todo \ {number}
         /\ step' = 1 /\ errors' = 0
         /\ UNCHANGED vars

\* main returns: the program halts and may be started again.
Exit ==
  /\ todo = {} /\ step = 1
  /\ halt_handler(Tester)
  /\ step' = 0
  /\ UNCHANGED <<todo, errors, failed>>

Others ==
  /\ \E t \in Terms \ {Tester}, c \in Calls : system_call(t, c)
  /\ UNCHANGED script

TestNext == (\E number \in 0..9 : Select(number)) \/ MakeCall \/ Verdict \/ Exit \/ Others

TestSpec == TestInit /\ [][TestNext]_allVars

-----------------------------------------------------------------------------
\* The program never prints FAIL, whatever the programs on other terminals do
\* between its calls.
TestsPass == failed = {}
=============================================================================
