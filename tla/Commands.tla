------------------------------ MODULE Commands ------------------------------
(***************************************************************************)
(* The way of a command line through the system: the shell reads it, drops *)
(* the newline and calls execute; execute_handler splits it, looks the     *)
(* first word up in the directory and keeps the rest in the pcb of the new *)
(* process; getargs_handler hands it out; cat opens the file it names.     *)
(* Programs execute others, so the pcbs of one terminal form a stack and   *)
(* their slots are used again and again.                                   *)
(*                                                                         *)
(* A string in memory is a sequence of characters without the NUL that     *)
(* ends it; an array of bytes is a function.  Lines are shorter than the   *)
(* arrays execute_handler splits them into, as typed lines are.            *)
(***************************************************************************)
EXTENDS Integers, Sequences

CONSTANTS
  Letters,     \* the characters of words
  Garbage,     \* what memory nobody wrote may hold
  Entries,     \* the directory: a sequence of names and kinds
  NameLen,     \* bytes of a name in the directory (32 in the code)
  MaxLine,     \* the longest line that is typed
  MaxPassed,   \* the longest command that a program passes to execute
  ArgLen,      \* bytes of execute_arg (255 in the code)
  BufLen,      \* bytes of the buffer programs give to getargs
  MaxProc      \* process slots

NUL == "nul"
Space == " "
Newline == "\n"
Exit == "exit"
Programs == {"shell", "cat", "any"}

Strings(chars, max) == UNION {[1..n -> chars] : n \in 0..max}

\* What is typed, the word "exit" being one character, and what a program may
\* pass to execute: it need not stop at a newline.
Typed == Strings(Letters \cup {Space}, MaxLine) \cup {<<Exit>>}
Passed ==
  LET cut == Strings(Letters \cup {Space}, MaxPassed - 2)
  IN  Strings(Letters \cup {Space}, MaxPassed)
        \cup {s \o <<Newline>> \o t : s \in cut, t \in Strings(Letters, 1)}

\* A name is once in the directory, and the buffer of cat (1024 bytes) is longer
\* than any name.
ASSUME CommandsAssumption ==
  /\ {NUL, Space, Newline, Exit} \cap Letters = {}
  /\ Garbage \subseteq Letters \cup {NUL}
  /\ NameLen \in Nat \ {0} /\ MaxProc \in Nat \ {0}
  /\ BufLen \in Nat /\ BufLen > NameLen + 1
  /\ MaxLine \in Nat /\ MaxPassed \in 2..MaxLine /\ ArgLen \in Nat /\ ArgLen > MaxLine
  /\ Entries \in Seq([name : Strings(Letters, NameLen), kind : Programs \cup {"text"}])
  /\ \A i, k \in DOMAIN Entries : Entries[i].name = Entries[k].name => i = k

VARIABLES
  id_array,     \* the slots in use
  execute_arg,  \* per slot: the bytes of its pcb's field
  jobs,         \* the processes of the terminal, the running one last
  buf,          \* the running program's buffer
  last          \* history: the last system call of the running program

vars == <<id_array, execute_arg, jobs, buf, last>>

Slots == 0..(MaxProc - 1)
Job == jobs[Len(jobs)]
Nothing == [call |-> "none", arg |-> <<>>, ret |-> 0]
Blank == [i \in 0..(BufLen - 1) |-> "?"]

-----------------------------------------------------------------------------
(* Strings.                                                                *)

\* Byte i of a string, counted from 0.
At(s, i) == IF i < Len(s) THEN s[i + 1] ELSE NUL

\* The least i from `from` on where the byte is one of chars; the NUL ends.
Until(s, from, chars) ==
  CHOOSE i \in from..Len(s) :
    /\ At(s, i) \in chars \cup {NUL}
    /\ \A k \in from..(i - 1) : At(s, k) \notin chars

\* The least i from `from` on where the byte is not a space.
Past(s, from) ==
  CHOOSE i \in from..Len(s) : At(s, i) # Space /\ \A k \in from..(i - 1) : At(s, k) = Space

\* The string that starts at the head of an array.
Text(bytes, size) ==
  LET end == CHOOSE n \in 0..size :
               /\ n = size \/ bytes[n] = NUL
               /\ \A k \in 0..(n - 1) : bytes[k] # NUL
  IN  [i \in 1..end |-> bytes[i - 1]]

\* strncmp(s1, s2, n) == 0: equal up to the first NUL or to n bytes.
strncmp(s1, s2, n) ==
  \A i \in 0..(n - 1) :
    (\A k \in 0..(i - 1) : At(s1, k) = At(s2, k) /\ At(s1, k) # NUL)
      => At(s1, i) = At(s2, i)

-----------------------------------------------------------------------------
(* The directory and the command line.                                     *)

\* Seeded fault: names that are too long are not turned down.
read_dentry_by_name_Long(filename) ==
  LET same == {i \in DOMAIN Entries : strncmp(filename, Entries[i].name, NameLen)}
  IN  IF same # {} THEN CHOOSE i \in same : \A k \in same : i <= k ELSE 0

\* The entry that read_dentry_by_name finds, 0 when there is none.
read_dentry_by_name(filename) ==
  LET fits == \E i \in 0..NameLen : At(filename, i) \in {NUL, Newline}
      same == {i \in DOMAIN Entries : strncmp(filename, Entries[i].name, NameLen)}
  IN  IF fits /\ same # {} THEN CHOOSE i \in same : \A k \in same : i <= k ELSE 0

Program(command) ==
  SubSeq(command, 1, Until(command, 0, {Space, Newline}))

Argument(command) ==
  LET from == Past(command, Until(command, 0, {Space, Newline}))
  IN  SubSeq(command, from + 1, Until(command, from, {Newline}))

\* Seeded fault: the byte that ends the argument is not copied, and the rest
\* of the pcb stays as the slot's last process left it.
ArgBytes_NoEnd(slot, argument) ==
  [i \in 0..(ArgLen - 1) |->
     IF i < Len(argument) THEN At(argument, i) ELSE execute_arg[slot][i]]

ArgBytes(slot, argument) ==
  [i \in 0..(ArgLen - 1) |-> IF i <= Len(argument) THEN At(argument, i) ELSE NUL]

-----------------------------------------------------------------------------
(* System calls.                                                           *)

\* The first shell's pcb has whatever was on the stack in execute_arg.
Init ==
  /\ id_array = {0}
  /\ \E c \in Garbage : execute_arg = [s \in Slots |-> [i \in 0..(ArgLen - 1) |-> c]]
  /\ jobs = <<[slot |-> 0, kind |-> "shell", command |-> <<>>]>>
  /\ buf = Blank
  /\ last = Nothing

Returned(call, arg, ret) == last' = [call |-> call, arg |-> arg, ret |-> ret]

FreeSlot == CHOOSE i \in Slots \ id_array : \A k \in Slots \ id_array : i <= k

ExecuteFails(command) ==
  /\ Returned("execute", command, -1)
  /\ UNCHANGED <<id_array, execute_arg, jobs>>

ExecuteStarts(command, entry) ==
  /\ id_array' = id_array \cup {FreeSlot}
  /\ execute_arg' = [execute_arg EXCEPT ![FreeSlot] = ArgBytes(FreeSlot, Argument(command))]
  /\ jobs' = Append(jobs, [slot |-> FreeSlot, kind |-> Entries[entry].kind,
                           command |-> command])
  /\ last' = Nothing

execute_handler(command) ==
  LET entry == read_dentry_by_name(Program(command))
  IN  IF id_array = Slots \/ entry = 0 THEN ExecuteFails(command)
      ELSE IF Entries[entry].kind = "text" THEN ExecuteFails(command)
      ELSE ExecuteStarts(command, entry)

\* The child's slot is free again and the parent's execute returns; a first
\* shell is started anew in its slot.
halt_handler ==
  IF Len(jobs) = 1
    THEN /\ last' = Nothing
         /\ UNCHANGED <<id_array, execute_arg, jobs>>
    ELSE /\ id_array' = id_array \ {Job.slot}
         /\ jobs' = SubSeq(jobs, 1, Len(jobs) - 1)
         /\ Returned("execute", Job.command, 0)
         /\ UNCHANGED execute_arg

\* The bytes of the buffer after getargs(buf, nbytes).
Copied(nbytes) ==
  [i \in DOMAIN buf |->
     IF i < nbytes - 1
       THEN IF i < ArgLen THEN execute_arg[Job.slot][i] ELSE NUL
       ELSE IF i = nbytes - 1 \/ (i = 0 /\ nbytes = 0) THEN NUL ELSE buf[i]]

getargs_handler(nbytes) ==
  /\ IF execute_arg[Job.slot][0] = NUL \/ nbytes < 0
       THEN Returned("getargs", nbytes, -1) /\ UNCHANGED buf
       ELSE Returned("getargs", nbytes, 0) /\ buf' = Copied(nbytes)
  /\ UNCHANGED <<id_array, execute_arg, jobs>>

\* Seeded fault: the result of the lookup is not looked at, last_dentry is
\* still the entry of the program.
open_Unchecked(filename) ==
  LET entry == read_dentry_by_name(filename)
  IN  /\ Returned("open", filename, IF entry # 0 THEN entry
                                   ELSE read_dentry_by_name(Program(Job.command)))
      /\ UNCHANGED <<id_array, execute_arg, jobs, buf>>

open(filename) ==
  /\ Returned("open", filename, read_dentry_by_name(filename))
  /\ UNCHANGED <<id_array, execute_arg, jobs, buf>>

-----------------------------------------------------------------------------
(* Programs.                                                               *)

\* The shell's loop: a line without its newline is "exit", empty or a command.
ShellLine ==
  /\ Job.kind = "shell"
  /\ \E line \in Typed :
       IF line = <<Exit>> THEN halt_handler
       ELSE IF line = <<>> THEN last' = Nothing /\ UNCHANGED <<id_array, execute_arg, jobs>>
       ELSE execute_handler(line)
  /\ buf' = Blank

\* cat: getargs, open what it got, end.
CatArgs ==
  /\ Job.kind = "cat" /\ last.call = "none"
  /\ getargs_handler(BufLen)

CatOpen ==
  /\ Job.kind = "cat" /\ last.call = "getargs" /\ last.ret = 0
  /\ open(Text(buf, BufLen))

CatEnds ==
  /\ Job.kind = "cat"
  /\ last.call = "open" \/ (last.call = "getargs" /\ last.ret = -1)
  /\ halt_handler
  /\ buf' = Blank

\* Any other program makes system calls as it likes.
AnyCall ==
  /\ Job.kind = "any"
  /\ \/ /\ \E command \in Passed : execute_handler(command)
        /\ buf' = Blank
     \/ \E nbytes \in (-1)..BufLen : getargs_handler(nbytes)
     \/ halt_handler /\ buf' = Blank

Next == ShellLine \/ CatArgs \/ CatOpen \/ CatEnds \/ AnyCall

Spec == Init /\ [][Next]_vars

-----------------------------------------------------------------------------
(* Properties.                                                             *)

\* What a line means: up to a newline, a first word without spaces and what
\* follows the spaces after it.
UpToNewline(line) ==
  CHOOSE l \in {SubSeq(line, 1, n) : n \in 0..Len(line)} :
    /\ \A i \in 1..Len(l) : l[i] # Newline
    /\ l = line \/ line[Len(l) + 1] = Newline

HasWord(line, word) ==
  LET l == UpToNewline(line)
  IN  /\ \A i \in 1..Len(word) : i <= Len(l) /\ l[i] = word[i] /\ l[i] # Space
      /\ Len(l) > Len(word) => l[Len(word) + 1] = Space

HasRest(line, rest) ==
  LET l == UpToNewline(line)
      spaces == Len(l) - Len(rest)
  IN  /\ spaces >= 0 /\ rest = SubSeq(l, spaces + 1, Len(l))
      /\ rest # <<>> => rest[1] # Space /\ spaces > 0 /\ l[spaces] = Space
      /\ \A i, k \in 1..spaces : i < k /\ l[i] = Space => l[k] = Space

\* Every program above the first shell is the one its first word names in full,
\* and no text file is ever run; execute fails only when no program has that
\* name or no slot is left.
ProgramsFollowNames ==
  /\ \A i \in 2..Len(jobs) :
       \E k \in DOMAIN Entries :
         /\ jobs[i].kind = Entries[k].kind /\ Entries[k].kind # "text"
         /\ HasWord(jobs[i].command, Entries[k].name)
  /\ last.call = "execute" /\ last.ret = -1 =>
       \/ id_array = Slots
       \/ \A k \in DOMAIN Entries :
            Entries[k].kind = "text" \/ ~HasWord(last.arg, Entries[k].name)

\* A program gets the arguments of its own command line, cut to the size it
\* gave, whatever ran before in its slot and whatever children it had; getargs
\* fails exactly when there are none.
ArgumentsAreOwn ==
  last.call = "getargs" /\ last.arg >= 0 =>
    \E rest \in {SubSeq(Job.command, n, k) : n \in 1..(MaxLine + 1), k \in 0..Len(Job.command)} :
      /\ HasRest(Job.command, rest)
      /\ (last.ret = -1) <=> (rest = <<>>)
      /\ last.ret = 0 /\ last.arg > 0 =>
           Text(buf, BufLen) =
             IF Len(rest) < last.arg THEN rest ELSE SubSeq(rest, 1, last.arg - 1)

\* cat opens the file its command line names, or none if there is none.
CatOpensNamedFile ==
  last.call = "open" =>
    \A k \in DOMAIN Entries : (last.ret = k) <=> HasRest(Job.command, Entries[k].name)

=============================================================================
