---------------------------- MODULE Descriptors -----------------------------
(***************************************************************************)
(* System calls on descriptors: the check of the call number, the range    *)
(* checks, the table of operations in each descriptor and the drivers they *)
(* reach.  Every terminal runs one program, started by a shell that opens  *)
(* no files; execute by a program is in Kernel.  A call is one step:       *)
(* interrupts are off, or it touches nothing of this state once they are   *)
(* on.                                                                     *)
(***************************************************************************)
EXTENDS Integers, Sequences

CONSTANTS
  Terms,         \* the terminals
  NumFd,         \* MAX_FD_ARRAY_SIZE, 8 in the code
  NumEntry,      \* num_entry of the image
  DirEntries,    \* the entries of type 1
  RtcEntries,    \* the entries of type 0
  Length,        \* bytes in every regular file
  NameSize,      \* bytes in a name, 32 in the code
  MaxCount       \* bound on the bytes a call asks for

ASSUME DescriptorsAssumption ==
  /\ NumFd \in Nat /\ NumFd > 2 /\ NumEntry \in Nat \ {0}
  /\ Length \in Nat /\ NameSize \in Nat \ {0} /\ MaxCount \in Nat

Fds == 0..(NumFd - 1)
Opened == 2..(NumFd - 1)
Entries == 0..(NumEntry - 1)
Counts == 0..MaxCount
NoFile == NumEntry            \* a name that no entry has

TypeOf(e) == IF e \in RtcEntries THEN "rtc"
             ELSE IF e \in DirEntries THEN "dir" ELSE "file"

VARIABLES
  fd_array,            \* of the program of every terminal
  dir_open_file_idx,   \* the global index of the next directory entry
  ret,                 \* what the last call returned
  file,                \* history: the entry opened at every descriptor
  listing              \* history: what every descriptor got of the directory

vars == <<fd_array, dir_open_file_idx, ret, file, listing>>

-----------------------------------------------------------------------------
(* Descriptors                                                             *)

\* The operations of every table.  A new program finds the table named stdout
\* at descriptor 0 and the one named stdin at 1.
Operation(table, op) ==
  LET Row(read, write) == [read |-> read, write |-> write]
      tables == [stdin  |-> Row("badcall_read", "terminal_write"),
                 stdout |-> Row("terminal_read", "badcall_write"),
                 rtc    |-> Row("RTC_read", "RTC_write"),
                 dir    |-> Row("dir_read", "dir_write"),
                 file   |-> Row("file_read", "file_write")]
  IN  tables[table][op]

Desc(table, inode) == [table |-> table, inode |-> inode, pos |-> 0, flags |-> 1]
Unused == [table |-> "file", inode |-> 0, pos |-> 0, flags |-> 0]

\* The array execute_handler gives to a new program.
fd_arr == [fd \in Fds |-> IF fd = 0 THEN Desc("stdout", 0)
                          ELSE IF fd = 1 THEN Desc("stdin", 0) ELSE Unused]

NoFiles == [fd \in Fds |-> NoFile]
NoListing == [got |-> {}, alone |-> TRUE]
NoListings == [fd \in Fds |-> NoListing]

Init ==
  /\ fd_array = [t \in Terms |-> fd_arr]
  /\ dir_open_file_idx = 0
  /\ ret = 0
  /\ file = [t \in Terms |-> NoFiles]
  /\ listing = [t \in Terms |-> NoListings]

InUse(t, fd) == fd \in Fds /\ fd_array[t][fd].flags = 1
Free(t) == {fd \in Opened : ~InUse(t, fd)}
Lowest(S) == CHOOSE fd \in S : \A g \in S : fd <= g

\* The call returns a value and changes nothing.
Returns(value) ==
  /\ ret' = value
  /\ UNCHANGED <<fd_array, dir_open_file_idx, file, listing>>

\* A descriptor of the program is set or cleared.
SetFd(t, fd, desc, name, value) ==
  /\ fd_array' = [fd_array EXCEPT ![t][fd] = desc]
  /\ file' = [file EXCEPT ![t][fd] = name]
  /\ listing' = [listing EXCEPT ![t][fd] = NoListing]
  /\ ret' = value
  /\ UNCHANGED dir_open_file_idx

OpenDesc(name) == Desc(TypeOf(name), IF TypeOf(name) = "file" THEN name ELSE 0)

\* The lowest free descriptor, if there is one and an entry has the name.  What
\* the open operation of the driver returns is ignored.
open(t, name) ==
  \/ (Free(t) = {} \/ name \notin Entries) /\ Returns(-1)
  \/ /\ Free(t) # {} /\ name \in Entries
     /\ LET fd == Lowest(Free(t)) IN SetFd(t, fd, OpenDesc(name), name, fd)

\* Seeded fault: the console can be closed.
close_Console(t, fd) ==
  \/ ~InUse(t, fd) /\ Returns(-1)
  \/ /\ InUse(t, fd)
     /\ SetFd(t, fd, [fd_array[t][fd] EXCEPT !.flags = 0], NoFile, 0)

\* The close operations of the drivers do nothing.
close(t, fd) ==
  \/ (fd \notin Opened \/ ~InUse(t, fd)) /\ Returns(-1)
  \/ /\ fd \in Opened /\ InUse(t, fd)
     /\ SetFd(t, fd, [fd_array[t][fd] EXCEPT !.flags = 0], NoFile, 0)

-----------------------------------------------------------------------------
(* Drivers                                                                 *)

Least(a, b) == IF a < b THEN a ELSE b

\* A read of the directory ends the solitude of all listings but its own, and
\* a read of no bytes that of all.
Disturbed(t, fd, nbytes) ==
  [u \in Terms |-> [g \in Fds |->
    [listing[u][g] EXCEPT
       !.alone = @ /\ (listing[u][g].got = {} \/ (u = t /\ g = fd /\ nbytes > 0))]]]

\* Seeded faults: one entry too many; the index is advanced twice.
DirEntry_OneMore(t, fd, nbytes) ==
  /\ dir_open_file_idx <= NumEntry
  /\ dir_open_file_idx' = dir_open_file_idx + 1
  /\ listing' =
       [Disturbed(t, fd, nbytes) EXCEPT
          ![t][fd].got = IF nbytes > 0 THEN @ \cup {dir_open_file_idx} ELSE @]
  /\ ret' = Least(NameSize, nbytes)
  /\ UNCHANGED <<fd_array, file>>
DirEntry_Twice(t, fd, nbytes) ==
  /\ dir_open_file_idx < NumEntry
  /\ dir_open_file_idx' = dir_open_file_idx + 2
  /\ listing' =
       [Disturbed(t, fd, nbytes) EXCEPT
          ![t][fd].got = IF nbytes > 0 THEN @ \cup {dir_open_file_idx} ELSE @]
  /\ ret' = Least(NameSize, nbytes)
  /\ UNCHANGED <<fd_array, file>>

\* dir_read hands out one entry a call; a call for no bytes passes it over.
DirEntry(t, fd, nbytes) ==
  /\ dir_open_file_idx < NumEntry
  /\ dir_open_file_idx' = dir_open_file_idx + 1
  /\ listing' =
       [Disturbed(t, fd, nbytes) EXCEPT
          ![t][fd].got = IF nbytes > 0 THEN @ \cup {dir_open_file_idx} ELSE @]
  /\ ret' = Least(NameSize, nbytes)
  /\ UNCHANGED <<fd_array, file>>

\* dir_read after the last entry.
DirEnd(t, fd, nbytes) ==
  /\ dir_open_file_idx >= NumEntry
  /\ dir_open_file_idx' = 0
  /\ listing' = [Disturbed(t, fd, 1) EXCEPT ![t][fd] = NoListing]
  /\ ret' = 0
  /\ UNCHANGED <<fd_array, file>>

\* What FileData shows of a read: the bytes from the position on, to the end.
file_read(t, fd, nbytes) ==
  LET pos == fd_array[t][fd].pos
      byte_left == Least(nbytes, Length - pos)
  IN  /\ fd_array' = [fd_array EXCEPT ![t][fd].pos = pos + byte_left]
      /\ ret' = byte_left
      /\ UNCHANGED <<dir_open_file_idx, file, listing>>

terminal_read(nbytes) == \E k \in 0..nbytes : Returns(k)
terminal_write(nbytes) == \E k \in 0..nbytes : Returns(k)
RTC_write == \E value \in {0, -1} : Returns(value)

\* Seeded fault: a closed descriptor still works.
read_Closed(t, fd, buf, nbytes) ==
  IF buf = "NULL" \/ fd \notin Fds THEN Returns(-1)
  ELSE LET read_op == Operation(fd_array[t][fd].table, "read")
       IN  \/ read_op = "badcall_read" /\ Returns(-1)
           \/ read_op = "terminal_read" /\ terminal_read(nbytes)
           \/ read_op = "RTC_read" /\ Returns(0)
           \/ read_op = "dir_read" /\ (DirEntry(t, fd, nbytes) \/ DirEnd(t, fd, nbytes))
           \/ read_op = "file_read" /\ file_read(t, fd, nbytes)

read(t, fd, buf, nbytes) ==
  IF buf = "NULL" \/ ~InUse(t, fd) THEN Returns(-1)
  ELSE LET read_op == Operation(fd_array[t][fd].table, "read")
       IN  \/ read_op = "badcall_read" /\ Returns(-1)
           \/ read_op = "terminal_read" /\ terminal_read(nbytes)
           \/ read_op = "RTC_read" /\ Returns(0)
           \/ read_op = "dir_read" /\ (DirEntry(t, fd, nbytes) \/ DirEnd(t, fd, nbytes))
           \/ read_op = "file_read" /\ file_read(t, fd, nbytes)

\* Seeded fault: a refused write to a file moves its position.
write_Moves(t, fd, buf, nbytes) ==
  IF buf = "NULL" \/ ~InUse(t, fd) THEN Returns(-1)
  ELSE /\ fd_array' = [fd_array EXCEPT ![t][fd].pos =
                         IF fd_array[t][fd].table = "file" THEN Length ELSE @]
       /\ ret' = -1
       /\ UNCHANGED <<dir_open_file_idx, file, listing>>

write(t, fd, buf, nbytes) ==
  IF buf = "NULL" \/ ~InUse(t, fd) THEN Returns(-1)
  ELSE LET write_op == Operation(fd_array[t][fd].table, "write")
       IN  \/ /\ write_op \in {"badcall_write", "dir_write", "file_write"}
              /\ Returns(-1)
           \/ write_op = "terminal_write" /\ terminal_write(nbytes)
           \/ write_op = "RTC_write" /\ RTC_write

-----------------------------------------------------------------------------
(* The system call gate                                                    *)

\* halt of the program: its shell has no descriptors to close, and starts
\* another program with a new array.
halt_handler(t) ==
  /\ fd_array' = [fd_array EXCEPT ![t] = fd_arr]
  /\ file' = [file EXCEPT ![t] = NoFiles]
  /\ listing' = [listing EXCEPT ![t] = NoListings]
  /\ ret' = 0
  /\ UNCHANGED dir_open_file_idx

\* -1 without arguments, see Commands.
getargs_handler(buf) ==
  \/ Returns(-1)
  \/ buf # "NULL" /\ Returns(0)

\* The pointer must lie in the 4MB of the program; the mapping is in Kernel.
vidmap_handler(buf) == Returns(IF buf = "user" THEN 0 ELSE -1)

jump_table == <<"halt", "execute", "read", "write", "open", "close", "getargs",
                "vidmap", "set_handler", "sigreturn">>

\* int 0x80 with a number in eax and up to three arguments.
system_call(t, c) ==
  \/ c.eax \notin 1..10 /\ Returns(-1)
  \/ /\ c.eax \in 1..10
     /\ LET call == jump_table[c.eax]
        IN  \/ call = "halt" /\ halt_handler(t)
            \/ call = "read" /\ read(t, c.fd, c.buf, c.nbytes)
            \/ call = "write" /\ write(t, c.fd, c.buf, c.nbytes)
            \/ call = "open" /\ open(t, c.name)
            \/ call = "close" /\ close(t, c.fd)
            \/ call = "getargs" /\ getargs_handler(c.buf)
            \/ call = "vidmap" /\ vidmap_handler(c.buf)
            \/ call \in {"set_handler", "sigreturn"} /\ Returns(-1)

AnyFd == (-1)..NumFd
Pointers == {"NULL", "kernel", "user"}

\* The calls programs make, wrong arguments and numbers included.
Calls ==
  [eax : {3, 4}, fd : AnyFd, buf : {"NULL", "user"}, nbytes : Counts]
  \cup [eax : {5}, name : Entries \cup {NoFile}]
  \cup [eax : {6}, fd : AnyFd]
  \cup [eax : {7}, buf : {"NULL", "user"}]
  \cup [eax : {8}, buf : Pointers]
  \cup [eax : {-1, 0, 1, 9, 10, 11}]

Next == \E t \in Terms, c \in Calls : system_call(t, c)

Spec == Init /\ [][Next]_vars

-----------------------------------------------------------------------------
(* Properties                                                              *)

TypeOK ==
  /\ fd_array \in [Terms -> [Fds -> [table : {"stdin", "stdout", "rtc", "dir", "file"},
                                     inode : Entries, pos : 0..Length, flags : {0, 1}]]]
  /\ dir_open_file_idx \in 0..NumEntry
  /\ ret \in -1..(NumFd + MaxCount)
  /\ file \in [Terms -> [Fds -> 0..NumEntry]]
  /\ listing \in [Terms -> [Fds ->
                    [got : SUBSET Entries, alone : BOOLEAN]]]

\* Whatever was opened, closed and opened again before, a descriptor in use
\* works on the file its own program opened there last; and the console is
\* always there.
DescriptorsFollowOpens ==
  \A t \in Terms :
    /\ fd_array[t][0] = Desc("stdout", 0) /\ fd_array[t][1] = Desc("stdin", 0)
    /\ \A fd \in Opened :
         LET d == fd_array[t][fd] IN
         IF file[t][fd] = NoFile THEN d.flags = 0
         ELSE /\ d.flags = 1 /\ d.table = TypeOf(file[t][fd])
              /\ d.table = "file" => d.inode = file[t][fd]

\* A call that fails leaves descriptors, positions and directory as they were.
ErrorsChangeNothing ==
  [][ret' = -1 =>
       UNCHANGED <<fd_array, dir_open_file_idx>>]_vars

\* A listing that no other read of the directory came into got every entry from
\* its first one on, although all listings share one index.
UndisturbedListings ==
  \A t \in Terms, fd \in Fds :
    LET l == listing[t][fd] IN
    l.got # {} /\ l.alone =>
      l.got = Lowest(l.got)..(dir_open_file_idx - 1)
=============================================================================
