------------------------- MODULE DescriptorsProofs -------------------------
(***************************************************************************)
(* Proofs about Descriptors, for any number of terminals and descriptors,  *)
(* any image and any length, and about the test program SysErr.  Every     *)
(* call is one of five kinds of step (CallKinds); each property is shown   *)
(* kind by kind.                                                           *)
(***************************************************************************)
EXTENDS SysErr, SequenceTheorems, WellFoundedInduction, TLAPS

Tables == {"stdin", "stdout", "rtc", "dir", "file"}
FdRec == [table : Tables, inode : Entries, pos : 0..Length, flags : {0, 1}]
ListRec == [got : SUBSET Entries, alone : BOOLEAN]
Values == -1..(NumFd + MaxCount)

IInv == TypeOK /\ DescriptorsFollowOpens /\ UndisturbedListings

LEMMA FdFacts ==
  /\ 0 \in Fds /\ 1 \in Fds /\ Opened \subseteq Fds
  /\ 0 \notin Opened /\ 1 \notin Opened
  /\ Fds = Opened \cup {0, 1}
  /\ 0 \in Entries /\ NoFile \notin Entries /\ NoFile \in 0..NumEntry
  BY DescriptorsAssumption DEF Fds, Opened, Entries, NoFile

LEMMA OperationOf ==
  /\ \A table \in Tables :
       /\ Operation(table, "read") = "dir_read" => table = "dir"
       /\ Operation(table, "read") = "file_read" => table = "file"
  BY DEF Operation, Tables

\* The arguments of a call are those of its number.
LEMMA CallArguments ==
  ASSUME NEW c \in Calls, c.eax \in 1..10
  PROVE  /\ jump_table[c.eax] \in {"read", "write"} =>
              c.fd \in AnyFd /\ c.nbytes \in Counts
         /\ jump_table[c.eax] = "open" => c.name \in Entries \cup {NoFile}
         /\ jump_table[c.eax] = "close" => c.fd \in AnyFd
<1>1. /\ jump_table[c.eax] = "read" => c.eax = 3
      /\ jump_table[c.eax] = "write" => c.eax = 4
      /\ jump_table[c.eax] = "open" => c.eax = 5
      /\ jump_table[c.eax] = "close" => c.eax = 6
  BY DEF jump_table
<1>2. c.eax \in {3, 4} => c.fd \in AnyFd /\ c.nbytes \in Counts
  BY DEF Calls
<1>3. c.eax = 5 => c.name \in Entries \cup {NoFile}
  BY DEF Calls
<1>4. c.eax = 6 => c.fd \in AnyFd
  BY DEF Calls
<1> QED BY <1>1, <1>2, <1>3, <1>4

\* A set of numbers that is not empty has a lowest one: the descriptor loop of
\* open ends on it.
LEMMA LowestIsLeast ==
  ASSUME NEW S \in SUBSET Nat, S # {}
  PROVE  Lowest(S) \in S /\ \A g \in S : Lowest(S) <= g
<1> DEFINE R == OpToRel(<, Nat)
<1>1. IsWellFoundedOn(R, Nat)
  BY NatLessThanWellFounded
<1>2. \A m, n \in Nat : m < n => <<m, n>> \in R
  BY DEF OpToRel
<1> HIDE DEF R
<1>3. PICK x \in S : \A y \in S : ~ (<<y, x>> \in R)
  BY <1>1, WFMin
<1>4. ASSUME NEW y \in S PROVE x <= y
  <2>1. x \in Nat /\ y \in Nat
    BY <1>3
  <2>2. ~ (y < x)
    BY <1>2, <1>3, <2>1
  <2> QED BY <2>1, <2>2
<1> QED BY <1>3, <1>4 DEF Lowest

-----------------------------------------------------------------------------
(* The kinds of step                                                       *)

GivesValue == \E v \in Values : Returns(v)

OpensFd(t) ==
  \E fd \in Opened, name \in Entries :
    ~InUse(t, fd) /\ SetFd(t, fd, OpenDesc(name), name, fd)

ClosesFd(t) ==
  \E fd \in Opened :
    InUse(t, fd) /\ SetFd(t, fd, [fd_array[t][fd] EXCEPT !.flags = 0], NoFile, 0)

ReadsDir(t) == \E fd \in Fds, n \in Counts : DirEntry(t, fd, n) \/ DirEnd(t, fd, n)

ReadsFile(t) ==
  \E fd \in Fds, n \in Counts :
    fd_array[t][fd].table = "file" /\ file_read(t, fd, n)

LEMMA OpenKinds ==
  ASSUME NEW t \in Terms, NEW name \in Entries \cup {NoFile}, open(t, name)
  PROVE  GivesValue \/ OpensFd(t)
<1>1. CASE Returns(-1)
  BY <1>1, DescriptorsAssumption DEF GivesValue, Values
<1>2. CASE /\ Free(t) # {} /\ name \in Entries
           /\ LET fd == Lowest(Free(t))
              IN  SetFd(t, fd, OpenDesc(name), name, fd)
  <2>1. Free(t) \in SUBSET Nat
    BY DescriptorsAssumption DEF Free, Opened
  <2>2. Lowest(Free(t)) \in Free(t)
    BY <1>2, <2>1, LowestIsLeast
  <2> QED BY <1>2, <2>2 DEF OpensFd, Free
<1> QED BY <1>1, <1>2 DEF open

LEMMA ReadKinds ==
  ASSUME NEW t \in Terms, TypeOK, NEW fd \in AnyFd, NEW buf, NEW n \in Counts,
         read(t, fd, buf, n)
  PROVE  GivesValue \/ ReadsDir(t) \/ ReadsFile(t)
<1>1. -1 \in Values /\ 0..n \subseteq Values
  BY DescriptorsAssumption DEF Values, Counts
<1>2. CASE Returns(-1)
  BY <1>1, <1>2 DEF GivesValue
<1>3. CASE ~Returns(-1)
  <2>1. InUse(t, fd) /\ fd \in Fds
    BY <1>3 DEF read, InUse
  <2> DEFINE table == fd_array[t][fd].table
  <2>2. table \in Tables
    BY <2>1 DEF TypeOK, Tables
  <2>3. \/ terminal_read(n) \/ Returns(0)
        \/ Operation(table, "read") = "dir_read" /\ (DirEntry(t, fd, n) \/ DirEnd(t, fd, n))
        \/ Operation(table, "read") = "file_read" /\ file_read(t, fd, n)
    BY <1>3 DEF read
  <2>4. CASE terminal_read(n) \/ Returns(0)
    <3>1. 0 \in 0..n
      BY DEF Counts
    <3> QED BY <1>1, <2>4, <3>1 DEF terminal_read, GivesValue
  <2>5. CASE DirEntry(t, fd, n) \/ DirEnd(t, fd, n)
    BY <2>1, <2>5 DEF ReadsDir
  <2>6. CASE Operation(table, "read") = "file_read" /\ file_read(t, fd, n)
    BY <2>1, <2>2, <2>6, OperationOf DEF ReadsFile
  <2> QED BY <2>3, <2>4, <2>5, <2>6
<1> QED BY <1>2, <1>3

LEMMA WriteKinds ==
  ASSUME NEW t, NEW fd, NEW buf, NEW n \in Counts, write(t, fd, buf, n)
  PROVE  GivesValue
<1>1. -1 \in Values /\ 0 \in Values /\ 0..n \subseteq Values
  BY DescriptorsAssumption DEF Values, Counts
<1>2. Returns(-1) \/ terminal_write(n) \/ RTC_write
  BY DEF write
<1> QED BY <1>1, <1>2 DEF terminal_write, RTC_write, GivesValue

LEMMA CallKinds ==
  ASSUME TypeOK, NEW t \in Terms, NEW c \in Calls, system_call(t, c)
  PROVE  GivesValue \/ OpensFd(t) \/ ClosesFd(t) \/ ReadsDir(t) \/ ReadsFile(t)
         \/ halt_handler(t)
<1>1. -1 \in Values /\ 0 \in Values
  BY DescriptorsAssumption DEF Values
<1>2. CASE Returns(-1) \/ Returns(0)
  BY <1>1, <1>2 DEF GivesValue
<1>3. CASE /\ c.eax \in 1..10 /\ jump_table[c.eax] = "read"
           /\ read(t, c.fd, c.buf, c.nbytes)
  BY <1>3, CallArguments, ReadKinds
<1>4. CASE /\ c.eax \in 1..10 /\ jump_table[c.eax] = "write"
           /\ write(t, c.fd, c.buf, c.nbytes)
  BY <1>4, CallArguments, WriteKinds
<1>5. CASE c.eax \in 1..10 /\ jump_table[c.eax] = "open" /\ open(t, c.name)
  BY <1>5, CallArguments, OpenKinds
<1>6. CASE close(t, c.fd)
  BY <1>2, <1>6 DEF close, ClosesFd
<1>7. CASE getargs_handler(c.buf) \/ vidmap_handler(c.buf)
  BY <1>2, <1>7 DEF getargs_handler, vidmap_handler
<1> QED BY <1>2, <1>3, <1>4, <1>5, <1>6, <1>7 DEF system_call

-----------------------------------------------------------------------------
(* Types                                                                   *)

LEMMA Types ==
  TypeOK <=> /\ fd_array \in [Terms -> [Fds -> FdRec]]
             /\ dir_open_file_idx \in 0..NumEntry
             /\ ret \in Values
             /\ file \in [Terms -> [Fds -> 0..NumEntry]]
             /\ listing \in [Terms -> [Fds -> ListRec]]
  BY DEF TypeOK, FdRec, Tables, Values, ListRec

LEMMA DescTypes ==
  /\ \A name \in Entries : OpenDesc(name) \in FdRec
  /\ fd_arr \in [Fds -> FdRec]
  /\ NoListing \in ListRec
<1>1. \A table \in Tables, inode \in Entries : Desc(table, inode) \in FdRec
  BY DescriptorsAssumption DEF Desc, FdRec
<1>2. \A name : TypeOf(name) \in Tables
  BY DEF TypeOf, Tables
<1>3. Unused \in FdRec
  BY DescriptorsAssumption, FdFacts DEF Unused, FdRec, Tables
<1>4. \A name \in Entries : OpenDesc(name) \in FdRec
  BY <1>1, <1>2, FdFacts DEF OpenDesc
<1>5. fd_arr \in [Fds -> FdRec]
  BY <1>1, <1>3, FdFacts DEF fd_arr, Tables
<1>6. NoListing \in ListRec
  BY DEF NoListing, ListRec
<1> QED BY <1>4, <1>5, <1>6

\* What set and clear leave in the tables of all programs.
LEMMA SetFdEffect ==
  ASSUME TypeOK, NEW t \in Terms, NEW fd \in Fds, NEW desc \in FdRec,
         NEW name \in 0..NumEntry, NEW value \in Values,
         SetFd(t, fd, desc, name, value)
  PROVE  /\ TypeOK'
         /\ fd_array'[t][fd] = desc /\ file'[t][fd] = name
         /\ listing'[t][fd] = NoListing
         /\ \A u \in Terms, g \in Fds : u # t \/ g # fd =>
              /\ fd_array'[u][g] = fd_array[u][g]
              /\ file'[u][g] = file[u][g]
              /\ listing'[u][g] = listing[u][g]
<1>1. /\ fd_array \in [Terms -> [Fds -> FdRec]]
      /\ file \in [Terms -> [Fds -> 0..NumEntry]]
      /\ listing \in [Terms -> [Fds -> ListRec]]
  BY Types
<1>2. /\ fd_array' \in [Terms -> [Fds -> FdRec]]
      /\ fd_array'[t][fd] = desc
      /\ \A u \in Terms, g \in Fds : u # t \/ g # fd =>
           fd_array'[u][g] = fd_array[u][g]
  BY <1>1 DEF SetFd
<1>3. /\ file' \in [Terms -> [Fds -> 0..NumEntry]]
      /\ file'[t][fd] = name
      /\ \A u \in Terms, g \in Fds : u # t \/ g # fd =>
           file'[u][g] = file[u][g]
  BY <1>1 DEF SetFd
<1>4. /\ listing' \in [Terms -> [Fds -> ListRec]]
      /\ listing'[t][fd] = NoListing
      /\ \A u \in Terms, g \in Fds : u # t \/ g # fd =>
           listing'[u][g] = listing[u][g]
  <2> DEFINE none == NoListing
  <2>1. none \in ListRec /\ listing' = [listing EXCEPT ![t][fd] = none]
    BY DescTypes DEF SetFd
  <2> HIDE DEF none
  <2>2. /\ listing' \in [Terms -> [Fds -> ListRec]]
        /\ listing'[t][fd] = none
        /\ \A u \in Terms, g \in Fds : u # t \/ g # fd =>
             listing'[u][g] = listing[u][g]
    BY <1>1, <2>1
  <2> QED BY <2>2 DEF none
<1>5. TypeOK'
  <2>1. dir_open_file_idx' \in 0..NumEntry /\ ret' \in Values
    BY Types DEF SetFd
  <2> QED BY <1>2, <1>3, <1>4, <2>1 DEF TypeOK, FdRec, Tables, Values, ListRec
<1> QED BY <1>2, <1>3, <1>4, <1>5

LEMMA OpensEffect ==
  ASSUME TypeOK, NEW t \in Terms, NEW fd \in Opened, NEW name \in Entries,
         SetFd(t, fd, OpenDesc(name), name, fd)
  PROVE  /\ TypeOK' /\ ret' # -1
         /\ fd_array'[t][fd] = OpenDesc(name) /\ file'[t][fd] = name
         /\ listing'[t][fd] = NoListing /\ dir_open_file_idx' = dir_open_file_idx
         /\ \A u \in Terms, g \in Fds : u # t \/ g # fd =>
              /\ fd_array'[u][g] = fd_array[u][g]
              /\ file'[u][g] = file[u][g]
              /\ listing'[u][g] = listing[u][g]
<1>1. OpenDesc(name) \in FdRec /\ name \in 0..NumEntry /\ fd \in Fds /\ fd \in Values
  BY DescTypes, DescriptorsAssumption DEF Entries, Opened, Fds, Values
<1>2. ret' = fd /\ dir_open_file_idx' = dir_open_file_idx /\ fd # -1
  BY DEF SetFd, Opened
<1> QED BY <1>1, <1>2, SetFdEffect

LEMMA ClosesEffect ==
  ASSUME TypeOK, NEW t \in Terms, NEW fd \in Opened,
         SetFd(t, fd, [fd_array[t][fd] EXCEPT !.flags = 0], NoFile, 0)
  PROVE  /\ TypeOK' /\ ret' # -1
         /\ fd_array'[t][fd].flags = 0 /\ file'[t][fd] = NoFile
         /\ listing'[t][fd] = NoListing /\ dir_open_file_idx' = dir_open_file_idx
         /\ \A u \in Terms, g \in Fds : u # t \/ g # fd =>
              /\ fd_array'[u][g] = fd_array[u][g]
              /\ file'[u][g] = file[u][g]
              /\ listing'[u][g] = listing[u][g]
<1> DEFINE desc == [fd_array[t][fd] EXCEPT !.flags = 0]
<1>1. fd \in Fds /\ NoFile \in 0..NumEntry /\ 0 \in Values
  BY FdFacts, DescriptorsAssumption DEF Values
<1>2. fd_array[t][fd] \in FdRec
  BY <1>1, Types
<1>3. desc \in FdRec /\ desc.flags = 0
  BY <1>2 DEF FdRec
<1>4. ret' = 0 /\ dir_open_file_idx' = dir_open_file_idx
  BY DEF SetFd
<1>5. SetFd(t, fd, desc, NoFile, 0)
  OBVIOUS
<1> HIDE DEF desc
<1> QED BY <1>1, <1>3, <1>4, <1>5, SetFdEffect

\* A read of a file moves one position, inside the file.
LEMMA FileEffect ==
  ASSUME TypeOK, NEW t \in Terms, NEW fd \in Fds, NEW n \in Counts,
         file_read(t, fd, n)
  PROVE  /\ TypeOK' /\ ret' # -1
         /\ UNCHANGED <<dir_open_file_idx, file, listing>>
         /\ \A u \in Terms, g \in Fds :
              /\ u # t \/ g # fd => fd_array'[u][g] = fd_array[u][g]
              /\ fd_array'[u][g].table = fd_array[u][g].table
              /\ fd_array'[u][g].flags = fd_array[u][g].flags
              /\ fd_array'[u][g].inode = fd_array[u][g].inode
<1> DEFINE pos == fd_array[t][fd].pos
           left == Least(n, Length - pos)
           d == [fd_array[t][fd] EXCEPT !.pos = pos + left]
<1>1. fd_array \in [Terms -> [Fds -> FdRec]] /\ fd_array[t][fd] \in FdRec
  BY Types
<1>2. pos \in 0..Length
  BY <1>1 DEF FdRec
<1>3. left \in 0..MaxCount /\ pos + left \in 0..Length
  BY <1>2, DescriptorsAssumption DEF Least, Counts
<1>4. /\ fd_array' = [fd_array EXCEPT ![t][fd].pos = pos + left]
      /\ ret' = left
      /\ UNCHANGED <<dir_open_file_idx, file, listing>>
  BY DEF file_read
<1>5. /\ d \in FdRec /\ d.table = fd_array[t][fd].table
      /\ d.flags = fd_array[t][fd].flags /\ d.inode = fd_array[t][fd].inode
  BY <1>1, <1>3 DEF FdRec
<1>6. fd_array' = [fd_array EXCEPT ![t][fd] = d]
  BY <1>1, <1>4
<1> HIDE DEF d, pos, left
<1>7. /\ fd_array' \in [Terms -> [Fds -> FdRec]]
      /\ fd_array'[t][fd] = d
      /\ \A u \in Terms, g \in Fds : u # t \/ g # fd =>
           fd_array'[u][g] = fd_array[u][g]
  BY <1>1, <1>5, <1>6
<1>8. ret' \in Values /\ ret' # -1
  BY <1>3, <1>4, DescriptorsAssumption DEF Values
<1>9. TypeOK'
  BY <1>4, <1>7, <1>8, Types DEF TypeOK, FdRec, Tables, Values, ListRec
<1> QED BY <1>4, <1>5, <1>7, <1>8, <1>9

\* Which listings are still alone after a read of the directory.
LEMMA DisturbedEffect ==
  ASSUME TypeOK, NEW t \in Terms, NEW fd \in Fds, NEW n \in Nat
  PROVE  /\ Disturbed(t, fd, n) \in [Terms -> [Fds -> ListRec]]
         /\ \A u \in Terms, g \in Fds :
              /\ Disturbed(t, fd, n)[u][g].got = listing[u][g].got
              /\ Disturbed(t, fd, n)[u][g].alone =>
                   /\ listing[u][g].alone
                   /\ listing[u][g].got = {} \/ (u = t /\ g = fd /\ n > 0)
<1>1. listing \in [Terms -> [Fds -> ListRec]]
  BY Types
<1> DEFINE one(u, g) ==
      [listing[u][g] EXCEPT
         !.alone = @ /\ (listing[u][g].got = {} \/ (u = t /\ g = fd /\ n > 0))]
<1>2. ASSUME NEW u \in Terms, NEW g \in Fds
      PROVE  /\ one(u, g) \in ListRec
             /\ one(u, g).got = listing[u][g].got
             /\ one(u, g).alone =>
                   /\ listing[u][g].alone
                   /\ listing[u][g].got = {} \/ (u = t /\ g = fd /\ n > 0)
  <2>1. listing[u][g] \in ListRec
    BY <1>1
  <2>2. one(u, g).got = listing[u][g].got
    BY <2>1, Zenon DEF ListRec
  <2>3. one(u, g).alone = (listing[u][g].alone
                /\ (listing[u][g].got = {} \/ (u = t /\ g = fd /\ n > 0)))
    BY <2>1 DEF ListRec
  <2>4. one(u, g) \in ListRec
    BY <2>1 DEF ListRec
  <2> QED BY <2>2, <2>3, <2>4
<1>3. Disturbed(t, fd, n) = [u \in Terms |-> [g \in Fds |-> one(u, g)]]
  BY DEF Disturbed
<1> HIDE DEF one
<1> QED BY <1>2, <1>3

LEMMA EntryEffect ==
  ASSUME TypeOK, NEW t \in Terms, NEW fd \in Fds, NEW n \in Counts,
         DirEntry(t, fd, n)
  PROVE  /\ TypeOK' /\ ret' # -1
         /\ UNCHANGED <<fd_array, file>>
         /\ dir_open_file_idx < NumEntry
         /\ dir_open_file_idx' = dir_open_file_idx + 1
         /\ \A u \in Terms, g \in Fds : listing'[u][g].alone =>
              /\ listing[u][g].alone
              /\ listing[u][g].got = {} \/ (u = t /\ g = fd /\ n > 0)
         /\ \A u \in Terms, g \in Fds : u = t /\ g = fd /\ n > 0 =>
              listing'[u][g].got = listing[u][g].got \cup {dir_open_file_idx}
         /\ \A u \in Terms, g \in Fds : ~ (u = t /\ g = fd /\ n > 0) =>
              listing'[u][g].got = listing[u][g].got
<1> DEFINE D == Disturbed(t, fd, n)
           more == IF n > 0 THEN D[t][fd].got \cup {dir_open_file_idx} ELSE D[t][fd].got
           l == [D[t][fd] EXCEPT !.got = more]
<1>0. n \in Nat /\ dir_open_file_idx \in 0..NumEntry
  BY Types, DescriptorsAssumption DEF Counts
<1>1. /\ D \in [Terms -> [Fds -> ListRec]]
      /\ \A u \in Terms, g \in Fds :
              /\ D[u][g].got = listing[u][g].got
              /\ D[u][g].alone =>
                   /\ listing[u][g].alone
                   /\ listing[u][g].got = {} \/ (u = t /\ g = fd /\ n > 0)
  BY <1>0, DisturbedEffect
<1>2. /\ dir_open_file_idx < NumEntry /\ dir_open_file_idx' = dir_open_file_idx + 1
      /\ listing' = [D EXCEPT ![t][fd].got =
                       IF n > 0 THEN @ \cup {dir_open_file_idx} ELSE @]
      /\ ret' = Least(NameSize, n) /\ UNCHANGED <<fd_array, file>>
  BY DEF DirEntry
<1> HIDE DEF D
<1>3. D[t][fd] \in ListRec
  BY <1>1
<1>4. dir_open_file_idx \in Entries
  BY <1>0, <1>2, DescriptorsAssumption DEF Entries
<1>5. l \in ListRec /\ l.got = more /\ (l.alone <=> D[t][fd].alone)
  BY <1>3, <1>4 DEF ListRec
<1>6. listing' = [D EXCEPT ![t][fd] = l]
  BY <1>1, <1>2
<1> HIDE DEF l
<1>7. /\ listing' \in [Terms -> [Fds -> ListRec]]
      /\ listing'[t][fd] = l
      /\ \A u \in Terms, g \in Fds : u # t \/ g # fd => listing'[u][g] = D[u][g]
  BY <1>1, <1>5, <1>6
<1>8. ret' \in Values /\ ret' # -1
  BY <1>2, DescriptorsAssumption DEF Least, Counts, Values
<1>9. TypeOK'
  <2>1. dir_open_file_idx' \in 0..NumEntry
    BY <1>0, <1>2, DescriptorsAssumption
  <2> QED BY <1>2, <1>7, <1>8, <2>1, Types DEF TypeOK, FdRec, Tables, Values, ListRec
<1>10. ASSUME NEW u \in Terms, NEW g \in Fds
       PROVE  /\ listing'[u][g].alone => D[u][g].alone
              /\ u = t /\ g = fd /\ n > 0 =>
                   listing'[u][g].got = listing[u][g].got \cup {dir_open_file_idx}
              /\ ~ (u = t /\ g = fd /\ n > 0) =>
                   listing'[u][g].got = listing[u][g].got
  <2>1. CASE u = t /\ g = fd
    BY <1>1, <1>5, <1>7, <2>1
  <2>2. CASE ~ (u = t /\ g = fd)
    BY <1>1, <1>7, <2>2
  <2> QED BY <2>1, <2>2
<1> QED BY <1>1, <1>2, <1>8, <1>9, <1>10

LEMMA EndEffect ==
  ASSUME TypeOK, NEW t \in Terms, NEW fd \in Fds, NEW n \in Counts,
         DirEnd(t, fd, n)
  PROVE  /\ TypeOK' /\ ret' # -1
         /\ UNCHANGED <<fd_array, file>>
         /\ dir_open_file_idx' = 0
         /\ \A u \in Terms, g \in Fds : listing'[u][g].alone =>
              listing'[u][g].got = {}
<1> DEFINE D == Disturbed(t, fd, 1)
           none == NoListing
<1>1. /\ D \in [Terms -> [Fds -> ListRec]]
      /\ \A u \in Terms, g \in Fds :
              /\ D[u][g].got = listing[u][g].got
              /\ D[u][g].alone =>
                   listing[u][g].got = {} \/ (u = t /\ g = fd)
  BY DisturbedEffect
<1>2. /\ dir_open_file_idx' = 0 /\ listing' = [D EXCEPT ![t][fd] = none]
      /\ ret' = 0 /\ UNCHANGED <<fd_array, file>>
  BY DEF DirEnd
<1>3. none \in ListRec /\ none.got = {}
  BY DescTypes DEF NoListing
<1> HIDE DEF D, none
<1>4. /\ listing' \in [Terms -> [Fds -> ListRec]]
      /\ listing'[t][fd] = none
      /\ \A u \in Terms, g \in Fds : u # t \/ g # fd => listing'[u][g] = D[u][g]
  BY <1>1, <1>2, <1>3
<1>5. TypeOK'
  <2>1. dir_open_file_idx' \in 0..NumEntry /\ ret' \in Values
    BY <1>2, DescriptorsAssumption DEF Values
  <2> QED BY <1>2, <1>4, <2>1, Types DEF TypeOK, FdRec, Tables, Values, ListRec
<1> QED BY <1>1, <1>2, <1>3, <1>4, <1>5

\* halt of the program of a terminal.
LEMMA HaltEffect ==
  ASSUME TypeOK, NEW t \in Terms, halt_handler(t)
  PROVE  /\ TypeOK' /\ ret' # -1
         /\ fd_array'[t] = fd_arr
         /\ \A fd \in Fds : file'[t][fd] = NoFile /\ listing'[t][fd] = NoListing
         /\ \A u \in Terms : u # t =>
              /\ fd_array'[u] = fd_array[u] /\ file'[u] = file[u]
              /\ listing'[u] = listing[u]
         /\ dir_open_file_idx' = dir_open_file_idx
<1>1. /\ NoFiles \in [Fds -> 0..NumEntry] /\ NoListings \in [Fds -> ListRec]
      /\ \A fd \in Fds : NoFiles[fd] = NoFile /\ NoListings[fd] = NoListing
  BY DescTypes, FdFacts DEF NoFiles, NoListings
<1>2. fd_arr \in [Fds -> FdRec]
  BY DescTypes
<1>3. /\ fd_array' = [fd_array EXCEPT ![t] = fd_arr]
      /\ file' = [file EXCEPT ![t] = NoFiles]
      /\ listing' = [listing EXCEPT ![t] = NoListings]
      /\ ret' = 0 /\ dir_open_file_idx' = dir_open_file_idx
  BY DEF halt_handler
<1>4. /\ fd_array' \in [Terms -> [Fds -> FdRec]]
      /\ file' \in [Terms -> [Fds -> 0..NumEntry]]
      /\ listing' \in [Terms -> [Fds -> ListRec]]
  BY <1>1, <1>2, <1>3, Types
<1>5. TypeOK'
  <2>1. dir_open_file_idx' \in 0..NumEntry /\ ret' \in Values
    BY <1>3, Types, DescriptorsAssumption DEF Values
  <2> QED BY <1>4, <2>1 DEF TypeOK, FdRec, Tables, Values, ListRec
<1>6. /\ fd_array'[t] = fd_arr /\ file'[t] = NoFiles /\ listing'[t] = NoListings
      /\ \A u \in Terms : u # t =>
              /\ fd_array'[u] = fd_array[u] /\ file'[u] = file[u]
              /\ listing'[u] = listing[u]
  BY <1>3, Types
<1> QED BY <1>1, <1>3, <1>5, <1>6

-----------------------------------------------------------------------------
(* The invariants                                                          *)

LEMMA ReturnsInv ==
  ASSUME IInv, GivesValue
  PROVE  IInv'
<1>1. UNCHANGED <<fd_array, dir_open_file_idx, file, listing>> /\ ret' \in Values
  BY DEF GivesValue, Returns
<1>2. TypeOK'
  BY <1>1, Types DEF IInv, TypeOK, FdRec, Tables, Values, ListRec
<1>3. DescriptorsFollowOpens'
  BY <1>1 DEF IInv, DescriptorsFollowOpens
<1>4. UndisturbedListings'
  BY <1>1 DEF IInv, UndisturbedListings
<1> QED BY <1>2, <1>3, <1>4 DEF IInv

\* What a descriptor from 2 on must be, given the entry opened there.
Follows(d, name) ==
  IF name = NoFile THEN d.flags = 0
  ELSE /\ d.flags = 1 /\ d.table = TypeOf(name)
       /\ d.table = "file" => d.inode = name

LEMMA FollowsAll ==
  DescriptorsFollowOpens <=>
    \A t \in Terms :
      /\ fd_array[t][0] = Desc("stdout", 0) /\ fd_array[t][1] = Desc("stdin", 0)
      /\ \A fd \in Opened : Follows(fd_array[t][fd], file[t][fd])
  BY DEF DescriptorsFollowOpens, Follows

LEMMA DescFields ==
  \A table, inode : /\ Desc(table, inode).table = table
                    /\ Desc(table, inode).inode = inode
                    /\ Desc(table, inode).flags = 1
  BY DEF Desc

\* What a listing must have got.
Complete(l, idx) == l.got # {} /\ l.alone => l.got = Lowest(l.got)..(idx - 1)

LEMMA CompleteAll ==
  UndisturbedListings <=>
    \A t \in Terms, fd \in Fds : Complete(listing[t][fd], dir_open_file_idx)
  BY DEF UndisturbedListings, Complete

LEMMA NothingListed == \A idx : Complete(NoListing, idx)
  BY DEF Complete, NoListing

\* open and close change one descriptor, and end its listing.
LEMMA SetInv ==
  ASSUME IInv, NEW t \in Terms, NEW fd \in Opened, TypeOK',
         Follows(fd_array'[t][fd], file'[t][fd]),
         listing'[t][fd] = NoListing, dir_open_file_idx' = dir_open_file_idx,
         \A u \in Terms, g \in Fds : u # t \/ g # fd =>
              /\ fd_array'[u][g] = fd_array[u][g]
              /\ file'[u][g] = file[u][g]
              /\ listing'[u][g] = listing[u][g]
  PROVE  IInv'
<1>1. ASSUME NEW u \in Terms
      PROVE  /\ fd_array'[u][0] = Desc("stdout", 0)
             /\ fd_array'[u][1] = Desc("stdin", 0)
             /\ \A g \in Opened : Follows(fd_array'[u][g], file'[u][g])
  <2>1. fd_array'[u][0] = fd_array[u][0] /\ fd_array'[u][1] = fd_array[u][1]
    BY FdFacts
  <2>2. ASSUME NEW g \in Opened PROVE Follows(fd_array'[u][g], file'[u][g])
    <3>1. CASE u = t /\ g = fd
      BY <3>1
    <3>2. CASE ~ (u = t /\ g = fd)
      BY <3>2, FdFacts, FollowsAll DEF IInv
    <3> QED BY <3>1, <3>2
  <2> QED BY <2>1, <2>2, FollowsAll DEF IInv
<1>2. DescriptorsFollowOpens'
  BY <1>1, FollowsAll DEF DescriptorsFollowOpens, Follows
<1>3. ASSUME NEW u \in Terms, NEW g \in Fds
      PROVE  Complete(listing'[u][g], dir_open_file_idx')
  BY CompleteAll, NothingListed DEF IInv
<1>4. UndisturbedListings'
  BY <1>3 DEF UndisturbedListings, Complete
<1> QED BY <1>2, <1>4 DEF IInv

LEMMA OpensInv ==
  ASSUME IInv, NEW t \in Terms, OpensFd(t)
  PROVE  IInv'
<1>1. PICK fd \in Opened, name \in Entries :
        ~InUse(t, fd) /\ SetFd(t, fd, OpenDesc(name), name, fd)
  BY DEF OpensFd
<1>2. Follows(OpenDesc(name), name)
  BY FdFacts, DescFields DEF Follows, OpenDesc
<1> QED BY <1>1, <1>2, OpensEffect, SetInv DEF IInv

LEMMA ClosesInv ==
  ASSUME IInv, NEW t \in Terms, ClosesFd(t)
  PROVE  IInv'
<1>1. PICK fd \in Opened : SetFd(t, fd, [fd_array[t][fd] EXCEPT !.flags = 0], NoFile, 0)
  BY DEF ClosesFd
<1>2. Follows(fd_array'[t][fd], file'[t][fd])
  BY <1>1, ClosesEffect DEF Follows, IInv
<1> QED BY <1>1, <1>2, ClosesEffect, SetInv DEF IInv

LEMMA FileInv ==
  ASSUME IInv, NEW t \in Terms, ReadsFile(t)
  PROVE  IInv'
<1>1. PICK fd \in Fds, n \in Counts :
        fd_array[t][fd].table = "file" /\ file_read(t, fd, n)
  BY DEF ReadsFile
<1>2. /\ TypeOK' /\ UNCHANGED <<dir_open_file_idx, file, listing>>
      /\ \A u \in Terms, g \in Fds :
              /\ u # t \/ g # fd => fd_array'[u][g] = fd_array[u][g]
              /\ fd_array'[u][g].table = fd_array[u][g].table
              /\ fd_array'[u][g].flags = fd_array[u][g].flags
              /\ fd_array'[u][g].inode = fd_array[u][g].inode
  BY <1>1, FileEffect DEF IInv
<1>3. fd # 0 /\ fd # 1
  BY <1>1, FollowsAll, DescFields DEF IInv
<1>4. DescriptorsFollowOpens'
  <2>1. ASSUME NEW u \in Terms
        PROVE  /\ fd_array'[u][0] = fd_array[u][0]
               /\ fd_array'[u][1] = fd_array[u][1]
               /\ \A g \in Opened : Follows(fd_array'[u][g], file'[u][g])
    <3>1. fd_array'[u][0] = fd_array[u][0] /\ fd_array'[u][1] = fd_array[u][1]
      BY <1>2, <1>3, FdFacts
    <3>2. ASSUME NEW g \in Opened PROVE Follows(fd_array'[u][g], file'[u][g])
      <4>1. Follows(fd_array[u][g], file[u][g]) /\ g \in Fds /\ file' = file
        BY <1>2, FdFacts, FollowsAll DEF IInv
      <4> QED BY <1>2, <4>1 DEF Follows
    <3> QED BY <3>1, <3>2
  <2> QED BY <2>1, FollowsAll DEF IInv, DescriptorsFollowOpens, Follows
<1>5. UndisturbedListings'
  BY <1>2 DEF IInv, UndisturbedListings
<1> QED BY <1>2, <1>4, <1>5 DEF IInv

\* The next entry goes to one listing, which grows at its end; every other
\* listing that got something before is no longer alone.
LEMMA EntryInv ==
  ASSUME IInv, NEW t \in Terms, NEW fd \in Fds, NEW n \in Counts,
         DirEntry(t, fd, n)
  PROVE  IInv'
<1> DEFINE idx == dir_open_file_idx
<1>1. /\ TypeOK' /\ UNCHANGED <<fd_array, file>>
      /\ dir_open_file_idx' = idx + 1 /\ idx < NumEntry
      /\ \A u \in Terms, g \in Fds : listing'[u][g].alone =>
              /\ listing[u][g].alone
              /\ listing[u][g].got = {} \/ (u = t /\ g = fd /\ n > 0)
      /\ \A u \in Terms, g \in Fds : u = t /\ g = fd /\ n > 0 =>
              listing'[u][g].got = listing[u][g].got \cup {idx}
      /\ \A u \in Terms, g \in Fds : ~ (u = t /\ g = fd /\ n > 0) =>
              listing'[u][g].got = listing[u][g].got
  <2>1. TypeOK
    BY DEF IInv
  <2> QED BY <2>1, EntryEffect
<1>2. idx \in Nat /\ Entries \subseteq Nat
  BY Types, DescriptorsAssumption DEF IInv, Entries
<1>3. ASSUME NEW u \in Terms, NEW g \in Fds,
             listing'[u][g].got # {}, listing'[u][g].alone
      PROVE  listing'[u][g].got = Lowest(listing'[u][g].got)..((idx + 1) - 1)
  <2> DEFINE old == listing[u][g].got
             new == listing'[u][g].got
  <2>1. listing[u][g].alone /\ new = old \cup {idx}
    BY <1>1, <1>3
  <2>2. old \in SUBSET Entries
    BY Types DEF IInv, ListRec
  <2>3. new \in SUBSET Nat
    BY <1>2, <2>1, <2>2
  <2>4. /\ Lowest(new) \in new /\ \A k \in new : Lowest(new) <= k
    BY <1>3, <2>3, LowestIsLeast
  <2> HIDE DEF new, old
  <2>5. CASE old = {}
    <3>1. new = {idx} /\ Lowest(new) = idx
      BY <2>1, <2>4, <2>5
    <3> QED BY <1>2, <3>1 DEF new
  <2>6. CASE old # {}
    <3>1. old = Lowest(old)..(idx - 1)
      BY <2>1, <2>6, CompleteAll DEF IInv, Complete, old
    <3>2. Lowest(old) \in old /\ (\A k \in old : Lowest(old) <= k)
      BY <1>2, <2>2, <2>6, LowestIsLeast
    <3>3. Lowest(old) \in Nat /\ Lowest(old) <= idx - 1
      <4>1. Lowest(old) \in Nat
        BY <1>2, <2>2, <3>2
      <4>2. Lowest(old) \in Lowest(old)..(idx - 1)
        BY <3>1, <3>2
      <4> QED BY <1>2, <4>1, <4>2
    <3>4. new = Lowest(old)..idx
      BY <1>2, <2>1, <3>1, <3>3
    <3>5. Lowest(new) = Lowest(old)
      BY <1>2, <2>4, <3>3, <3>4
    <3>6. idx = (idx + 1) - 1
      BY <1>2
    <3> QED BY <3>4, <3>5, <3>6 DEF new
  <2> QED BY <2>5, <2>6
<1>4. UndisturbedListings'
  BY <1>1, <1>3 DEF UndisturbedListings
<1>5. DescriptorsFollowOpens'
  BY <1>1 DEF IInv, DescriptorsFollowOpens
<1> QED BY <1>1, <1>4, <1>5 DEF IInv

LEMMA EndInv ==
  ASSUME IInv, NEW t \in Terms, NEW fd \in Fds, NEW n \in Counts,
         DirEnd(t, fd, n)
  PROVE  IInv'
<1>1. /\ TypeOK' /\ UNCHANGED <<fd_array, file>>
      /\ \A u \in Terms, g \in Fds : listing'[u][g].alone => listing'[u][g].got = {}
  BY EndEffect DEF IInv
<1>2. UndisturbedListings'
  BY <1>1 DEF UndisturbedListings
<1>3. DescriptorsFollowOpens'
  BY <1>1 DEF IInv, DescriptorsFollowOpens
<1> QED BY <1>1, <1>2, <1>3 DEF IInv

LEMMA NewArray ==
  /\ fd_arr[0] = Desc("stdout", 0) /\ fd_arr[1] = Desc("stdin", 0)
  /\ \A fd \in Opened : Follows(fd_arr[fd], NoFile)
<1>1. fd_arr[0] = Desc("stdout", 0) /\ fd_arr[1] = Desc("stdin", 0)
  BY FdFacts DEF fd_arr
<1>2. \A fd \in Opened : fd_arr[fd] = Unused
  BY FdFacts DEF fd_arr
<1> QED BY <1>1, <1>2 DEF Follows, Unused

LEMMA HaltInv ==
  ASSUME IInv, NEW t \in Terms, halt_handler(t)
  PROVE  IInv'
<1>1. /\ TypeOK' /\ fd_array'[t] = fd_arr
      /\ \A fd \in Fds : file'[t][fd] = NoFile /\ listing'[t][fd] = NoListing
      /\ \A u \in Terms : u # t =>
           /\ fd_array'[u] = fd_array[u] /\ file'[u] = file[u]
           /\ listing'[u] = listing[u]
      /\ dir_open_file_idx' = dir_open_file_idx
  BY HaltEffect DEF IInv
<1>2. ASSUME NEW u \in Terms
      PROVE  /\ fd_array'[u][0] = Desc("stdout", 0)
             /\ fd_array'[u][1] = Desc("stdin", 0)
             /\ \A g \in Opened : Follows(fd_array'[u][g], file'[u][g])
  <2>1. CASE u = t
    BY <1>1, <2>1, FdFacts, NewArray
  <2>2. CASE u # t
    BY <1>1, <2>2, FollowsAll DEF IInv
  <2> QED BY <2>1, <2>2
<1>3. DescriptorsFollowOpens'
  BY <1>2 DEF DescriptorsFollowOpens, Follows
<1>4. ASSUME NEW u \in Terms, NEW g \in Fds
      PROVE  Complete(listing'[u][g], dir_open_file_idx')
  <2>1. CASE u = t
    BY <1>1, <2>1, NothingListed
  <2>2. CASE u # t
    BY <1>1, <2>2, CompleteAll DEF IInv
  <2> QED BY <2>1, <2>2
<1>5. UndisturbedListings'
  BY <1>4 DEF UndisturbedListings, Complete
<1> QED BY <1>1, <1>3, <1>5 DEF IInv

LEMMA InitInv == Init => IInv
<1> SUFFICES ASSUME Init PROVE IInv
  OBVIOUS
<1>1. /\ \A fd \in Fds : NoFiles[fd] = NoFile /\ NoListings[fd] = NoListing
      /\ NoFiles \in [Fds -> 0..NumEntry] /\ NoListings \in [Fds -> ListRec]
      /\ fd_arr \in [Fds -> FdRec]
  BY DescTypes, FdFacts DEF NoFiles, NoListings
<1>2. TypeOK
  <2>1. 0 \in 0..NumEntry /\ 0 \in Values
    BY DescriptorsAssumption DEF Values
  <2> QED BY <1>1, <2>1, Types DEF Init
<1>3. DescriptorsFollowOpens
  BY <1>1, FdFacts, NewArray, FollowsAll DEF Init
<1>4. UndisturbedListings
  BY <1>1, NothingListed, CompleteAll DEF Init
<1> QED BY <1>2, <1>3, <1>4 DEF IInv

LEMMA NextInv == IInv /\ [Next]_vars => IInv'
<1> SUFFICES ASSUME IInv, [Next]_vars PROVE IInv'
  OBVIOUS
<1>1. CASE UNCHANGED vars
  <2>1. UNCHANGED <<fd_array, dir_open_file_idx, ret, file, listing>>
    BY <1>1 DEF vars
  <2>2. ret' \in Values
    BY <2>1, Types DEF IInv
  <2> QED BY <2>1, <2>2 DEF IInv, TypeOK, DescriptorsFollowOpens, UndisturbedListings
<1>2. ASSUME NEW t \in Terms, NEW c \in Calls, system_call(t, c)
      PROVE  IInv'
  <2>1. GivesValue \/ OpensFd(t) \/ ClosesFd(t) \/ ReadsDir(t) \/ ReadsFile(t)
        \/ halt_handler(t)
    BY <1>2, CallKinds DEF IInv
  <2>2. CASE ReadsDir(t)
    BY <2>2, EntryInv, EndInv DEF ReadsDir
  <2> QED BY <2>1, <2>2, ReturnsInv, OpensInv, ClosesInv, FileInv, HaltInv
<1> QED BY <1>1, <1>2 DEF Next

THEOREM Invariance == Spec => []IInv
  BY InitInv, NextInv, PTL DEF Spec

\* No call takes a descriptor, a position or the directory index out of range.
THEOREM TypeCorrect == Spec => []TypeOK
  BY Invariance, PTL DEF IInv

\* A descriptor works on what its own program opened there last.
THEOREM DescriptorsRight == Spec => []DescriptorsFollowOpens
  BY Invariance, PTL DEF IInv

\* A listing nobody came into got every entry since its first one.
THEOREM ListingsRight == Spec => []UndisturbedListings
  BY Invariance, PTL DEF IInv

\* A call that returns -1 changed nothing.
THEOREM ErrorsHarmless == Spec => ErrorsChangeNothing
<1>1. ASSUME IInv, [Next]_vars
      PROVE  [ret' = -1 => UNCHANGED <<fd_array, dir_open_file_idx>>]_vars
  <2> SUFFICES ASSUME Next, ret' = -1
               PROVE  UNCHANGED <<fd_array, dir_open_file_idx>>
    BY <1>1
  <2>1. PICK t \in Terms, c \in Calls : system_call(t, c)
    BY DEF Next
  <2>2. GivesValue \/ OpensFd(t) \/ ClosesFd(t) \/ ReadsDir(t) \/ ReadsFile(t)
        \/ halt_handler(t)
    BY <1>1, <2>1, CallKinds DEF IInv
  <2>3. ~OpensFd(t) /\ ~ClosesFd(t)
    BY <1>1, OpensEffect, ClosesEffect DEF IInv, OpensFd, ClosesFd
  <2>4. ~ReadsDir(t)
    BY <1>1, EntryEffect, EndEffect DEF IInv, ReadsDir
  <2>5. ~ReadsFile(t) /\ ~halt_handler(t)
    BY <1>1, FileEffect, HaltEffect DEF IInv, ReadsFile
  <2> QED BY <2>2, <2>3, <2>4, <2>5 DEF GivesValue, Returns
<1> QED BY <1>1, Invariance, PTL DEF Spec, ErrorsChangeNothing

-----------------------------------------------------------------------------
(* The test program                                                        *)

AllClosed == \A fd \in Opened : ~InUse(Tester, fd)

\* The calls that must fail while nothing but the console is open.
FailingCalls ==
  {Read(fd) : fd \in AnyFd \ {0}} \cup {Write(fd) : fd \in AnyFd \ {1}}
  \cup {Close(fd) : fd \in AnyFd} \cup {Open(NoFile)}
  \cup {Vidmap(ptr) : ptr \in {"NULL", "kernel"}}
  \cup {Number(n) : n \in {11, -1, 0}}

\* How far a test has come.  err_open_lots (3) opens 2, 3, ... until the table is
\* full, fails once and closes them in that order; in the others every call fails.
OpenLots ==
  /\ step \in 1..(2 * NumFd - 2)
  /\ step < NumFd =>
       errors = 0 /\ \A fd \in Opened : InUse(Tester, fd) <=> fd <= step
  /\ step >= NumFd =>
       errors = 1 /\ \A fd \in Opened : InUse(Tester, fd) <=> fd > step - NumFd + 1

AllFailed(n) ==
  step \in 1..(Len(Tests[n].calls) + 1) /\ errors = step - 1 /\ AllClosed

Progress(n) == IF n = 3 THEN OpenLots ELSE AllFailed(n)

TInv ==
  /\ IInv /\ failed = {} /\ todo \in SUBSET (1..8)
  /\ IF todo = {} THEN AllClosed ELSE Progress(Lowest(todo))

LEMMA TableFull ==
  /\ NEG_FD = -1 /\ BIG_FD = NumFd
  /\ AnyFd = (-1)..NumFd /\ MaxCount \in Counts
  /\ Dot \in Entries
  BY DescriptorsAssumption, TesterAssumption
  DEF NEG_FD, BIG_FD, AnyFd, Counts, Dot

LEMMA TesterCalls ==
  /\ \A fd \in AnyFd : Read(fd) \in Calls /\ Write(fd) \in Calls /\ Close(fd) \in Calls
  /\ Open(NoFile) \in Calls /\ Open(Dot) \in Calls
  /\ \A ptr \in {"NULL", "kernel"} : Vidmap(ptr) \in Calls
  /\ \A n \in {11, -1, 0, 1} : Number(n) \in Calls
<1>1. \A fd \in AnyFd : Read(fd) \in Calls /\ Write(fd) \in Calls
  BY TableFull DEF Calls, Read, Write
<1>2. \A fd \in AnyFd : Close(fd) \in Calls
  BY DEF Calls, Close
<1>3. Open(NoFile) \in Calls /\ Open(Dot) \in Calls
  BY TableFull DEF Calls, Open
<1>4. \A ptr \in {"NULL", "kernel"} : Vidmap(ptr) \in Calls
  BY DEF Calls, Vidmap, Pointers
<1>5. \A n \in {11, -1, 0, 1} : Number(n) \in Calls
  BY DEF Calls, Number
<1> QED BY <1>1, <1>2, <1>3, <1>4, <1>5

LEMMA FailingAreCalls == FailingCalls \subseteq Calls
  BY TesterCalls DEF FailingCalls

\* Nothing but the console is open: a call of the set returns -1 and changes
\* nothing.
LEMMA FailingFails ==
  ASSUME IInv, AllClosed, NEW c \in FailingCalls, system_call(Tester, c)
  PROVE  Returns(-1)
<1>1. Tester \in Terms
  BY TesterAssumption
<1>2. /\ fd_array[Tester][0] = Desc("stdout", 0)
      /\ fd_array[Tester][1] = Desc("stdin", 0)
  BY <1>1, FollowsAll DEF IInv
<1>3. ASSUME NEW fd \in AnyFd, InUse(Tester, fd)
      PROVE  fd = 0 \/ fd = 1
  BY <1>3, FdFacts DEF AllClosed, InUse
<1>4. ASSUME NEW fd \in AnyFd, fd # 0, c = Read(fd)
      PROVE  Returns(-1)
  <2>1. c.eax = 3 /\ c.fd = fd /\ c.nbytes = MaxCount /\ c.buf = "user"
    BY <1>4 DEF Read
  <2>2. read(Tester, fd, "user", MaxCount)
    BY <2>1 DEF system_call, jump_table
  <2>3. CASE ~InUse(Tester, fd)
    BY <2>2, <2>3 DEF read
  <2>4. CASE InUse(Tester, fd)
    <3>1. fd = 1
      BY <1>3, <1>4, <2>4
    <3>2. Operation(fd_array[Tester][fd].table, "read") = "badcall_read"
      BY <1>2, <3>1, DescFields DEF Operation
    <3> QED BY <2>2, <2>4, <3>2 DEF read
  <2> QED BY <2>3, <2>4
<1>5. ASSUME NEW fd \in AnyFd, fd # 1, c = Write(fd)
      PROVE  Returns(-1)
  <2>1. c.eax = 4 /\ c.fd = fd /\ c.nbytes = MaxCount /\ c.buf = "user"
    BY <1>5 DEF Write
  <2>2. write(Tester, fd, "user", MaxCount)
    BY <2>1 DEF system_call, jump_table
  <2>3. CASE ~InUse(Tester, fd)
    BY <2>2, <2>3 DEF write
  <2>4. CASE InUse(Tester, fd)
    <3>1. fd = 0
      BY <1>3, <1>5, <2>4
    <3>2. Operation(fd_array[Tester][fd].table, "write") = "badcall_write"
      BY <1>2, <3>1, DescFields DEF Operation
    <3> QED BY <2>2, <2>4, <3>2 DEF write
  <2> QED BY <2>3, <2>4
<1>6. ASSUME NEW fd \in AnyFd, c = Close(fd)
      PROVE  Returns(-1)
  <2>1. c.eax = 6 /\ c.fd = fd
    BY <1>6 DEF Close
  <2>2. close(Tester, fd)
    BY <2>1 DEF system_call, jump_table
  <2> QED BY <2>2 DEF close, AllClosed
<1>7. CASE c = Open(NoFile)
  <2>1. c.eax = 5 /\ c.name = NoFile
    BY <1>7 DEF Open
  <2>2. open(Tester, NoFile)
    BY <2>1 DEF system_call, jump_table
  <2> QED BY <2>2, FdFacts DEF open
<1>8. ASSUME NEW ptr \in {"NULL", "kernel"}, c = Vidmap(ptr)
      PROVE  Returns(-1)
  <2>1. c.eax = 8 /\ c.buf = ptr
    BY <1>8 DEF Vidmap
  <2>2. vidmap_handler(ptr)
    BY <2>1 DEF system_call, jump_table
  <2> QED BY <2>2 DEF vidmap_handler
<1>9. ASSUME NEW n \in {11, -1, 0}, c = Number(n)
      PROVE  Returns(-1)
  <2>1. c.eax = n
    BY <1>9 DEF Number
  <2> QED BY <2>1 DEF system_call
<1> QED BY <1>4, <1>5, <1>6, <1>7, <1>8, <1>9 DEF FailingCalls

\* In every test but the third, all calls are of that set and all are checked.
LEMMA OtherTests ==
  ASSUME NEW n \in (1..8) \ {3}
  PROVE  /\ Tests[n].calls \in Seq(FailingCalls)
         /\ Tests[n].checked = Len(Tests[n].calls)
         /\ Tests[n].expected = Len(Tests[n].calls)
<1> DEFINE F == FailingCalls
<1>1. \A calls : /\ AllFail(calls).calls = calls
                 /\ AllFail(calls).checked = Len(calls)
                 /\ AllFail(calls).expected = Len(calls)
  BY DEF AllFail, Test
<1>2. /\ NEG_FD \in AnyFd \ {0, 1} /\ BIG_FD \in AnyFd \ {0, 1}
      /\ 0 \in AnyFd \ {1} /\ 1 \in AnyFd \ {0}
  BY TableFull, DescriptorsAssumption
<1>3. /\ \A fd \in AnyFd \ {0} : Read(fd) \in F
      /\ \A fd \in AnyFd \ {1} : Write(fd) \in F
      /\ \A fd \in AnyFd : Close(fd) \in F
      /\ Open(NoFile) \in F
      /\ Vidmap("NULL") \in F /\ Vidmap("kernel") \in F
      /\ Number(11) \in F /\ Number(-1) \in F /\ Number(0) \in F
  BY DEF FailingCalls
<1> HIDE DEF F
<1>4. \E s \in Seq(F) : err_neg_fd = AllFail(s)
  <2>1. <<Read(NEG_FD), Write(NEG_FD), Close(NEG_FD)>> \in Seq(F)
    BY <1>2, <1>3
  <2> QED BY <2>1 DEF err_neg_fd
<1>5. \E s \in Seq(F) : err_big_fd = AllFail(s)
  <2>1. <<Read(BIG_FD), Write(BIG_FD), Close(BIG_FD)>> \in Seq(F)
    BY <1>2, <1>3
  <2> QED BY <2>1 DEF err_big_fd
<1>6. \E s \in Seq(F) : err_open = AllFail(s)
  <2>1. <<Open(NoFile), Open(NoFile), Open(NoFile)>> \in Seq(F)
    BY <1>3
  <2> QED BY <2>1 DEF err_open
<1>7. \E s \in Seq(F) : err_unopened = AllFail(s)
  <2> DEFINE closes == [k \in 1..NumFd |-> Close(k - 1)]
             reads == [k \in 1..(NumFd - 2) |-> Read(k + 1)]
             writes == [k \in 1..(NumFd - 2) |-> Write(k + 1)]
  <2>1. NumFd \in Nat /\ NumFd - 2 \in Nat
    BY DescriptorsAssumption
  <2>2. \A k \in 1..NumFd : k - 1 \in AnyFd
    BY TableFull, DescriptorsAssumption
  <2>3. \A k \in 1..(NumFd - 2) : k + 1 \in AnyFd \ {0} /\ k + 1 \in AnyFd \ {1}
    BY TableFull, DescriptorsAssumption
  <2>4. closes \in [1..NumFd -> F]
    BY <1>3, <2>2
  <2>5. reads \in [1..(NumFd - 2) -> F] /\ writes \in [1..(NumFd - 2) -> F]
    BY <1>3, <2>3
  <2>6. err_unopened = AllFail(closes \o reads \o writes)
    BY DEF err_unopened, OnOpened
  <2> HIDE DEF closes, reads, writes
  <2>7. closes \in Seq(F) /\ reads \in Seq(F) /\ writes \in Seq(F)
    BY <2>1, <2>4, <2>5, SeqDef
  <2>8. closes \o reads \o writes \in Seq(F)
    BY <2>7
  <2> QED BY <2>6, <2>8
<1>8. \E s \in Seq(F) : err_vidmap = AllFail(s)
  <2>1. <<Vidmap("NULL"), Vidmap("kernel")>> \in Seq(F)
    BY <1>3
  <2> QED BY <2>1 DEF err_vidmap
<1>9. \E s \in Seq(F) : err_stdin_out = AllFail(s)
  <2>1. <<Write(0), Read(1)>> \in Seq(F)
    BY <1>2, <1>3
  <2> QED BY <2>1 DEF err_stdin_out
<1>10. \E s \in Seq(F) : err_syscall_num = AllFail(s)
  <2>1. <<Number(11), Number(-1), Number(0)>> \in Seq(F)
    BY <1>3
  <2> QED BY <2>1 DEF err_syscall_num
<1>11. Tests[n] \in {err_neg_fd, err_big_fd, err_open, err_unopened,
                     err_vidmap, err_stdin_out, err_syscall_num}
  BY DEF Tests
<1>12. PICK s \in Seq(F) : Tests[n] = AllFail(s)
  BY <1>4, <1>5, <1>6, <1>7, <1>8, <1>9, <1>10, <1>11
<1> QED BY <1>1, <1>12 DEF F

LEMMA ThirdTest ==
  /\ Len(Tests[3].calls) = 2 * NumFd - 3
  /\ Tests[3].checked = NumFd - 1 /\ Tests[3].expected = 1
  /\ \A k \in 1..(2 * NumFd - 3) :
       Tests[3].calls[k] = IF k < NumFd THEN Open(Dot) ELSE Close(k - NumFd + 2)
<1> DEFINE opens == [k \in 1..(NumFd - 1) |-> Open(Dot)]
           closes == [k \in 1..(NumFd - 2) |-> Close(k + 1)]
<1>1. Tests[3] = Test(opens \o closes, NumFd - 1, 1)
  BY DEF Tests, err_open_lots, OnOpened
<1>2. /\ Tests[3].calls = opens \o closes
      /\ Tests[3].checked = NumFd - 1 /\ Tests[3].expected = 1
  <2> DEFINE calls == opens \o closes
             m == NumFd - 1
  <2>1. Tests[3] = Test(calls, m, 1)
    BY <1>1
  <2> HIDE DEF calls, m
  <2>2. Tests[3].calls = calls /\ Tests[3].checked = m /\ Tests[3].expected = 1
    BY <2>1 DEF Test
  <2> QED BY <2>2 DEF calls, m
<1>3. NumFd - 1 \in Nat /\ NumFd - 2 \in Nat /\ NumFd \in Nat
  BY DescriptorsAssumption
<1>4. /\ opens \in Seq({Open(Dot)}) /\ Len(opens) = NumFd - 1
      /\ \A k \in 1..(NumFd - 1) : opens[k] = Open(Dot)
  BY <1>3
<1> DEFINE C == {Close(fd) : fd \in Int}
<1>5. /\ closes \in Seq(C) /\ Len(closes) = NumFd - 2
      /\ \A k \in 1..(NumFd - 2) : closes[k] = Close(k + 1)
  <2>1. \A k \in 1..(NumFd - 2) : Close(k + 1) \in C
    OBVIOUS
  <2> HIDE DEF C
  <2> QED BY <1>3, <2>1
<1> DEFINE D == C \cup {Open(Dot)}
<1>6. opens \in Seq(D) /\ closes \in Seq(D)
  <2>1. C \subseteq D /\ {Open(Dot)} \subseteq D
    OBVIOUS
  <2> HIDE DEF opens, closes, C, D
  <2> QED BY <1>4, <1>5, <2>1, SeqMonotonic
<1> HIDE DEF opens, closes, C, D
<1>7. /\ Len(opens \o closes) = Len(opens) + Len(closes)
      /\ \A k \in 1..(Len(opens) + Len(closes)) :
           (opens \o closes)[k] = IF k <= Len(opens) THEN opens[k]
                                  ELSE closes[k - Len(opens)]
  BY <1>6, ConcatProperties
<1>8. ASSUME NEW k \in 1..(2 * NumFd - 3)
      PROVE  (opens \o closes)[k] = IF k < NumFd THEN Open(Dot)
                                    ELSE Close(k - NumFd + 2)
  <2>1. k \in 1..(Len(opens) + Len(closes))
    BY <1>3, <1>4, <1>5
  <2>2. CASE k < NumFd
    <3>1. k \in 1..(NumFd - 1)
      BY <1>3, <2>2
    <3>2. k <= Len(opens)
      BY <1>3, <1>4, <3>1
    <3> QED BY <1>4, <1>7, <2>1, <2>2, <3>1, <3>2
  <2>3. CASE ~ (k < NumFd)
    <3>1. /\ k - Len(opens) \in 1..(NumFd - 2) /\ ~ (k <= Len(opens))
          /\ k - Len(opens) + 1 = k - NumFd + 2
      BY <1>3, <1>4, <2>3
    <3> QED BY <1>5, <1>7, <2>1, <2>3, <3>1
  <2> QED BY <2>2, <2>3
<1>9. Len(opens \o closes) = 2 * NumFd - 3
  BY <1>3, <1>4, <1>5, <1>7
<1> QED BY <1>2, <1>8, <1>9

-----------------------------------------------------------------------------
(* Steps of the test program                                               *)

\* What no call of another program changes.
SameOpen ==
  \A fd \in Fds : fd_array'[Tester][fd].flags = fd_array[Tester][fd].flags

LEMMA SameInUse ==
  ASSUME SameOpen, NEW fd \in Opened
  PROVE  InUse(Tester, fd)' <=> InUse(Tester, fd)
  BY FdFacts DEF SameOpen, InUse

LEMMA OthersKeep ==
  ASSUME IInv, NEW t \in Terms \ {Tester}, NEW c \in Calls, system_call(t, c)
  PROVE  SameOpen
<1>1. TypeOK /\ Tester \in Terms /\ t # Tester
  BY TesterAssumption DEF IInv
<1>2. GivesValue \/ OpensFd(t) \/ ClosesFd(t) \/ ReadsDir(t) \/ ReadsFile(t)
      \/ halt_handler(t)
  BY <1>1, CallKinds
<1>3. CASE GivesValue
  BY <1>3 DEF GivesValue, Returns, SameOpen
<1>4. CASE OpensFd(t)
  BY <1>1, <1>4, OpensEffect DEF OpensFd, SameOpen
<1>5. CASE ClosesFd(t)
  BY <1>1, <1>5, ClosesEffect DEF ClosesFd, SameOpen
<1>6. CASE ReadsDir(t)
  BY <1>1, <1>6, EntryEffect, EndEffect DEF ReadsDir, SameOpen
<1>7. CASE ReadsFile(t)
  BY <1>1, <1>7, FileEffect DEF ReadsFile, SameOpen
<1>8. CASE halt_handler(t)
  BY <1>1, <1>8, HaltEffect DEF SameOpen
<1> QED BY <1>2, <1>3, <1>4, <1>5, <1>6, <1>7, <1>8

\* A test begins with nothing open and ends so, with as many failures as expected.
LEMMA TestStarts ==
  ASSUME NEW n \in 1..8, AllClosed, step = 1, errors = 0
  PROVE  Progress(n)
<1>1. CASE n = 3
  <2>1. 1 \in 1..(2 * NumFd - 2) /\ 1 < NumFd /\ ~ (1 >= NumFd)
    BY DescriptorsAssumption
  <2>2. \A fd \in Opened : InUse(Tester, fd) <=> fd <= 1
    BY DEF AllClosed, Opened
  <2> QED BY <1>1, <2>1, <2>2 DEF Progress, OpenLots
<1>2. CASE n # 3
  <2>1. Len(Tests[n].calls) \in Nat
    BY <1>2, OtherTests
  <2>2. step \in 1..(Len(Tests[n].calls) + 1) /\ errors = step - 1
    BY <2>1
  <2> QED BY <1>2, <2>2 DEF Progress, AllFailed
<1> QED BY <1>1, <1>2

LEMMA TestsReady ==
  AllClosed /\ step = 1 /\ errors = 0 => \A n \in 1..8 : Progress(n)
  BY TestStarts

LEMMA TestEnds ==
  ASSUME NEW n \in 1..8, Progress(n), step > Len(Tests[n].calls)
  PROVE  AllClosed /\ errors = Tests[n].expected
<1>1. CASE n = 3
  <2>1. step = 2 * NumFd - 2 /\ step >= NumFd
    <3>1. step > 2 * NumFd - 3
      BY <1>1, ThirdTest
    <3>2. step \in 1..(2 * NumFd - 2)
      BY <1>1 DEF Progress, OpenLots
    <3> QED BY <3>1, <3>2, DescriptorsAssumption
  <2>2. errors = 1 /\ \A fd \in Opened : InUse(Tester, fd) <=> fd > step - NumFd + 1
    BY <1>1, <2>1 DEF Progress, OpenLots
  <2>3. \A fd \in Opened : ~ (fd > step - NumFd + 1)
    BY <2>1, DescriptorsAssumption DEF Opened
  <2> QED BY <1>1, <2>2, <2>3, ThirdTest DEF AllClosed
<1>2. CASE n # 3
  <2> DEFINE L == Len(Tests[n].calls)
  <2>1. L \in Nat /\ Tests[n].expected = L
    BY <1>2, OtherTests
  <2>2. step \in 1..(L + 1) /\ errors = step - 1 /\ AllClosed /\ step > L
    BY <1>2 DEF Progress, AllFailed
  <2> HIDE DEF L
  <2>3. errors = L
    BY <2>1, <2>2
  <2> QED BY <2>1, <2>2, <2>3
<1> QED BY <1>1, <1>2

\* The call under way is one of those programs make.
LEMMA CallUnderWay ==
  ASSUME NEW n \in 1..8, Progress(n), step <= Len(Tests[n].calls)
  PROVE  /\ Tests[n].calls[step] \in Calls
         /\ n # 3 => /\ Tests[n].calls[step] \in FailingCalls
                     /\ step \in 1..Len(Tests[n].calls)
         /\ n = 3 => /\ step \in 1..(2 * NumFd - 3)
                     /\ Tests[3].calls[step] =
                          IF step < NumFd THEN Open(Dot) ELSE Close(step - NumFd + 2)
<1>1. CASE n = 3
  <2>1. step \in 1..(2 * NumFd - 3)
    BY <1>1, ThirdTest, DescriptorsAssumption DEF Progress, OpenLots
  <2>2. Tests[3].calls[step] =
          IF step < NumFd THEN Open(Dot) ELSE Close(step - NumFd + 2)
    BY <2>1, ThirdTest
  <2>3. step >= NumFd => step - NumFd + 2 \in AnyFd
    BY <2>1, TableFull, DescriptorsAssumption
  <2>4. step < NumFd \/ step >= NumFd
    BY <2>1, DescriptorsAssumption
  <2>5. Tests[3].calls[step] \in Calls
    BY <2>2, <2>3, <2>4, TesterCalls
  <2> QED BY <1>1, <2>1, <2>2, <2>5
<1>2. CASE n # 3
  <2>1. Tests[n].calls \in Seq(FailingCalls)
    BY <1>2, OtherTests
  <2>2. step \in 1..Len(Tests[n].calls)
    BY <1>2, <2>1 DEF Progress, AllFailed
  <2>3. Tests[n].calls[step] \in FailingCalls
    BY <2>1, <2>2, ElementOfSeq
  <2> QED BY <1>2, <2>2, <2>3, FailingAreCalls
<1> QED BY <1>1, <1>2

LEMMA FailingStep ==
  ASSUME IInv, NEW n \in (1..8) \ {3}, AllFailed(n), step <= Len(Tests[n].calls),
         system_call(Tester, Tests[n].calls[step]),
         errors' = IF step <= Tests[n].checked /\ ret' = -1
                   THEN errors + 1 ELSE errors,
         step' = step + 1
  PROVE  AllFailed(n)'
<1> DEFINE L == Len(Tests[n].calls)
<1>1. Progress(n) /\ AllClosed
  BY DEF Progress, AllFailed
<1>2. Tests[n].calls[step] \in FailingCalls /\ step \in 1..L
  BY <1>1, CallUnderWay
<1>3. Returns(-1)
  BY <1>1, <1>2, FailingFails
<1>4. Tests[n].checked = L /\ L \in Nat
  BY OtherTests
<1>5. AllClosed'
  BY <1>1, <1>3 DEF Returns, AllClosed, InUse
<1>6. errors = step - 1
  BY DEF AllFailed
<1>7. ret' = -1
  BY <1>3 DEF Returns
<1> HIDE DEF L
<1>8. errors' = step' - 1 /\ step' \in 1..(L + 1)
  BY <1>2, <1>4, <1>6, <1>7
<1> QED BY <1>5, <1>8 DEF AllFailed, L

\* The next open of err_open_lots takes the descriptor after those in use, the
\* last one finds the table full.
LEMMA OpensOneMore ==
  ASSUME IInv, OpenLots, step < NumFd, open(Tester, Dot)
  PROVE  /\ step < NumFd - 1 =>
              /\ ret' # -1
              /\ \A fd \in Opened : InUse(Tester, fd)' <=> fd <= step + 1
         /\ step = NumFd - 1 => Returns(-1)
<1>1. /\ Tester \in Terms /\ Dot \in Entries /\ TypeOK
      /\ step \in Nat /\ step >= 1 /\ NumFd \in Nat
      /\ \A fd \in Opened : InUse(Tester, fd) <=> fd <= step
  BY TesterAssumption, TableFull, DescriptorsAssumption DEF OpenLots, IInv
<1>2. CASE step < NumFd - 1
  <2>1. step + 1 \in Free(Tester)
    BY <1>1, <1>2 DEF Free, Opened
  <2>2. Free(Tester) \in SUBSET Nat
    BY <1>1 DEF Free, Opened
  <2> DEFINE fd == Lowest(Free(Tester))
  <2>3. fd \in Free(Tester) /\ fd <= step + 1
    BY <2>1, <2>2, LowestIsLeast
  <2>4. fd \in Opened /\ ~InUse(Tester, fd) /\ fd \in Nat
    BY <2>2, <2>3 DEF Free
  <2>5. SetFd(Tester, fd, OpenDesc(Dot), Dot, fd)
    BY <1>1, <2>1 DEF open
  <2> HIDE DEF fd
  <2>6. fd = step + 1
    BY <1>1, <2>3, <2>4
  <2>7. /\ ret' # -1 /\ fd_array'[Tester][fd] = OpenDesc(Dot)
        /\ \A g \in Fds : g # fd => fd_array'[Tester][g] = fd_array[Tester][g]
    BY <1>1, <2>4, <2>5, OpensEffect
  <2>8. ASSUME NEW g \in Opened
        PROVE  InUse(Tester, g)' <=> g <= step + 1
    <3>1. CASE g = fd
      BY <1>1, <2>4, <2>6, <2>7, <3>1, FdFacts, DescFields DEF InUse, OpenDesc
    <3>2. CASE g # fd
      <4>1. InUse(Tester, g)' <=> g <= step
        BY <1>1, <2>7, <3>2, FdFacts DEF InUse
      <4>2. g <= step <=> g <= step + 1
        BY <1>1, <2>6, <3>2 DEF Opened
      <4> QED BY <4>1, <4>2
    <3> QED BY <3>1, <3>2
  <2> QED BY <1>1, <1>2, <2>7, <2>8
<1>3. CASE step = NumFd - 1
  <2>1. Free(Tester) = {}
    BY <1>1, <1>3 DEF Free, Opened
  <2>2. Returns(-1)
    BY <2>1 DEF open
  <2> QED BY <1>1, <1>3, <2>2
<1> QED BY <1>1, <1>2, <1>3

LEMMA ClosesNext ==
  ASSUME IInv, OpenLots, step >= NumFd, step \in 1..(2 * NumFd - 3),
         close(Tester, step - NumFd + 2)
  PROVE  /\ ret' # -1
         /\ \A fd \in Opened : InUse(Tester, fd)' <=> fd > step - NumFd + 2
<1> DEFINE fd == step - NumFd + 2
<1>1. /\ Tester \in Terms /\ TypeOK /\ step \in Nat /\ NumFd \in Nat
      /\ \A g \in Opened : InUse(Tester, g) <=> g > step - NumFd + 1
  BY TesterAssumption, DescriptorsAssumption DEF OpenLots, IInv
<1>2. fd \in Opened /\ fd > step - NumFd + 1
  BY <1>1 DEF Opened
<1>3. InUse(Tester, fd)
  BY <1>1, <1>2
<1>4. SetFd(Tester, fd, [fd_array[Tester][fd] EXCEPT !.flags = 0], NoFile, 0)
  BY <1>2, <1>3 DEF close
<1> HIDE DEF fd
<1>5. /\ ret' # -1 /\ fd_array'[Tester][fd].flags = 0
      /\ \A g \in Fds : g # fd => fd_array'[Tester][g] = fd_array[Tester][g]
  BY <1>1, <1>2, <1>4, ClosesEffect
<1>6. ASSUME NEW g \in Opened
      PROVE  InUse(Tester, g)' <=> g > step - NumFd + 2
  <2>1. CASE g = fd
    <3>1. ~InUse(Tester, g)'
      BY <1>5, <2>1 DEF InUse
    <3>2. ~ (g > step - NumFd + 2)
      BY <1>1, <2>1 DEF fd
    <3> QED BY <3>1, <3>2
  <2>2. CASE g # fd
    <3>1. InUse(Tester, g)' <=> g > step - NumFd + 1
      BY <1>1, <1>5, <2>2, FdFacts DEF InUse
    <3>2. g > step - NumFd + 1 <=> g > step - NumFd + 2
      BY <1>1, <2>2 DEF fd, Opened
    <3> QED BY <3>1, <3>2
  <2> QED BY <2>1, <2>2
<1> QED BY <1>5, <1>6

LEMMA OpenLotsStep ==
  ASSUME IInv, OpenLots, step <= Len(Tests[3].calls),
         system_call(Tester, Tests[3].calls[step]),
         errors' = IF step <= Tests[3].checked /\ ret' = -1
                   THEN errors + 1 ELSE errors,
         step' = step + 1
  PROVE  OpenLots'
<1>1. /\ step \in 1..(2 * NumFd - 3)
      /\ Tests[3].calls[step] =
           IF step < NumFd THEN Open(Dot) ELSE Close(step - NumFd + 2)
  BY CallUnderWay DEF Progress
<1>2. Tests[3].checked = NumFd - 1 /\ NumFd \in Nat /\ NumFd > 2 /\ step \in Nat
  BY <1>1, ThirdTest, DescriptorsAssumption
<1>3. step' \in 1..(2 * NumFd - 2)
  BY <1>1, <1>2
<1>4. CASE step < NumFd
  <2>1. Open(Dot).eax = 5 /\ Open(Dot).name = Dot
    BY DEF Open
  <2>2. open(Tester, Dot)
    BY <1>1, <1>4, <2>1 DEF system_call, jump_table
  <2>3. /\ step < NumFd - 1 =>
              /\ ret' # -1
              /\ \A fd \in Opened : InUse(Tester, fd)' <=> fd <= step + 1
        /\ step = NumFd - 1 => Returns(-1)
    BY <1>4, <2>2, OpensOneMore
  <2>4. errors = 0 /\ \A fd \in Opened : InUse(Tester, fd) <=> fd <= step
    BY <1>4 DEF OpenLots
  <2>5. CASE step < NumFd - 1
    <3>1. step' < NumFd /\ ~ (step' >= NumFd) /\ errors' = 0
      BY <1>2, <2>3, <2>4, <2>5
    <3> QED BY <1>3, <2>3, <2>5, <3>1 DEF OpenLots
  <2>6. CASE step = NumFd - 1
    <3>1. ret' = -1 /\ UNCHANGED fd_array
      BY <2>3, <2>6 DEF Returns
    <3>2. ~ (step' < NumFd) /\ errors' = 1 /\ step' - NumFd + 1 = 1
      BY <1>2, <2>4, <2>6, <3>1
    <3>3. \A fd \in Opened : InUse(Tester, fd)' <=> InUse(Tester, fd)
      BY <3>1 DEF InUse
    <3>4. \A fd \in Opened : fd <= step /\ fd > 1
      BY <1>2, <2>6 DEF Opened
    <3> QED BY <1>3, <2>4, <3>2, <3>3, <3>4 DEF OpenLots
  <2> QED BY <1>2, <1>4, <2>5, <2>6
<1>5. CASE step >= NumFd
  <2> DEFINE fd == step - NumFd + 2
  <2>1. Close(fd).eax = 6 /\ Close(fd).fd = fd
    BY DEF Close
  <2>2. Tests[3].calls[step] = Close(fd)
    BY <1>1, <1>2, <1>5
  <2> HIDE DEF fd
  <2>3. close(Tester, fd)
    BY <2>1, <2>2 DEF system_call, jump_table
  <2>4. /\ ret' # -1
        /\ \A g \in Opened : InUse(Tester, g)' <=> g > step - NumFd + 2
    BY <1>1, <1>5, <2>3, ClosesNext DEF fd
  <2>5. errors = 1
    BY <1>5 DEF OpenLots
  <2>6. ~ (step' < NumFd) /\ errors' = 1 /\ step' - NumFd + 1 = step - NumFd + 2
    BY <1>2, <1>5, <2>4, <2>5
  <2> QED BY <1>3, <2>4, <2>6 DEF OpenLots
<1> QED BY <1>2, <1>4, <1>5

LEMMA ProgressKept ==
  ASSUME NEW n \in 1..8, Progress(n), SameOpen, UNCHANGED script
  PROVE  Progress(n)'
<1>1. UNCHANGED <<step, errors>>
  BY DEF script
<1>2. \A fd \in Opened : InUse(Tester, fd)' <=> InUse(Tester, fd)
  BY SameInUse
<1>3. CASE n = 3
  BY <1>1, <1>2, <1>3 DEF Progress, OpenLots
<1>4. CASE n # 3
  BY <1>1, <1>2, <1>4 DEF Progress, AllFailed, AllClosed
<1> QED BY <1>3, <1>4

-----------------------------------------------------------------------------
(* The invariant of the test program                                       *)

LEMMA TodoLowest ==
  ASSUME TInv, todo # {}
  PROVE  /\ Lowest(todo) \in 1..8 /\ Lowest(todo) \in todo
         /\ Progress(Lowest(todo))
<1>1. todo \in SUBSET Nat /\ todo \subseteq 1..8
  BY DEF TInv
<1> QED BY <1>1, LowestIsLeast DEF TInv

\* Every step of the program and of the others is a step of Descriptors.
LEMMA TestSteps ==
  ASSUME TInv, [TestNext]_allVars
  PROVE  [Next]_vars
<1>1. ASSUME NEW c \in Calls, system_call(Tester, c) PROVE Next
  BY <1>1, TesterAssumption DEF Next
<1>2. ASSUME NEW number \in 0..9, Select(number) PROVE Next
  <2>1. read(Tester, 0, "user", MaxCount)
    BY <1>2 DEF Select
  <2>2. /\ Read(0).eax = 3 /\ Read(0).fd = 0 /\ Read(0).buf = "user"
        /\ Read(0).nbytes = MaxCount
    BY DEF Read
  <2>3. system_call(Tester, Read(0))
    BY <2>1, <2>2 DEF system_call, jump_table
  <2> QED BY <1>1, <2>3, TesterCalls, TableFull, DescriptorsAssumption
<1>3. CASE MakeCall
  <2> DEFINE n == Lowest(todo)
  <2>1. n \in 1..8 /\ Progress(n)
    BY <1>3, TodoLowest DEF MakeCall
  <2>2. step <= Len(Tests[n].calls) /\ system_call(Tester, Tests[n].calls[step])
    BY <1>3 DEF MakeCall
  <2> HIDE DEF n
  <2> QED BY <1>1, <2>1, <2>2, CallUnderWay
<1>4. CASE Verdict
  BY <1>4 DEF Verdict
<1>5. CASE Exit
  <2>1. halt_handler(Tester) /\ Number(1).eax = 1
    BY <1>5 DEF Exit, Number
  <2>2. system_call(Tester, Number(1))
    BY <2>1 DEF system_call, jump_table
  <2> QED BY <1>1, <2>2, TesterCalls
<1>6. CASE Others
  BY <1>6 DEF Others, Next
<1>7. CASE UNCHANGED allVars
  BY <1>7 DEF allVars
<1> QED BY <1>2, <1>3, <1>4, <1>5, <1>6, <1>7 DEF TestNext

\* The remaining tests start with nothing open.
LEMMA TestsStart ==
  ASSUME IInv', failed' = {}, todo' \in SUBSET (1..8), AllClosed',
         todo' # {} => step' = 1 /\ errors' = 0
  PROVE  TInv'
<1>1. ASSUME todo' # {} PROVE Progress(Lowest(todo))'
  <2>1. todo' \in SUBSET Nat
    OBVIOUS
  <2>2. Lowest(todo') \in 1..8
    BY <1>1, <2>1, LowestIsLeast
  <2>3. (AllClosed /\ step = 1 /\ errors = 0 => \A n \in 1..8 : Progress(n))'
    BY TestsReady, PTL
  <2>4. step' = 1 /\ errors' = 0
    BY <1>1
  <2>5. \A n \in 1..8 : Progress(n)'
    BY <2>3, <2>4
  <2> DEFINE m == Lowest(todo')
  <2>6. PICK n \in 1..8 : n = m
    BY <2>2
  <2>7. Progress(n)'
    BY <2>5
  <2> QED BY <2>6, <2>7
<1> QED BY <1>1 DEF TInv

\* The terminal answers: main gets a number and selects tests.
LEMMA SelectTInv ==
  ASSUME TInv, IInv', NEW number \in 0..9, Select(number)
  PROVE  TInv'
<1>1. IInv /\ AllClosed /\ failed = {} /\ todo = {}
  BY DEF TInv, Select
<1>2. read(Tester, 0, "user", MaxCount)
  BY DEF Select
<1>3. fd_array[Tester][0] = Desc("stdout", 0)
  BY <1>1, TesterAssumption, FollowsAll DEF IInv
<1>4. InUse(Tester, 0)
  BY <1>3, FdFacts, DescFields DEF InUse
<1>5. Operation(fd_array[Tester][0].table, "read") = "terminal_read"
  BY <1>3, DescFields DEF Operation
<1>6. terminal_read(MaxCount)
  BY <1>2, <1>4, <1>5 DEF read
<1>7. ret' # -1 /\ UNCHANGED fd_array
  BY <1>6 DEF terminal_read, Returns
<1>8. AllClosed'
  BY <1>1, <1>7 DEF AllClosed, InUse
<1>9. /\ todo' = IF number = 0 THEN 1..8 ELSE {number} \cap (1..8)
      /\ step' = 1 /\ errors' = 0 /\ failed' = failed
  BY <1>7 DEF Select
<1>10. todo' \in SUBSET (1..8)
  BY <1>9
<1> QED BY <1>1, <1>8, <1>9, <1>10, TestsStart

LEMMA CallTInv ==
  ASSUME TInv, IInv', MakeCall
  PROVE  TInv'
<1>1. PICK n \in 1..8 : n = Lowest(todo)
  BY TodoLowest DEF MakeCall
<1>2. /\ todo # {} /\ todo' = todo /\ failed' = failed
      /\ step <= Len(Tests[n].calls)
      /\ system_call(Tester, Tests[n].calls[step])
      /\ errors' = IF step <= Tests[n].checked /\ ret' = -1
                   THEN errors + 1 ELSE errors
      /\ step' = step + 1
  BY <1>1 DEF MakeCall
<1>3. Lowest(todo') = n
  BY <1>1, <1>2
<1>4. Progress(n) /\ IInv
  BY <1>1, TodoLowest DEF MakeCall, TInv
<1>5. Progress(n)'
  <2>1. CASE n = 3
    BY <1>2, <1>4, <2>1, OpenLotsStep DEF Progress
  <2>2. CASE n # 3
    BY <1>2, <1>4, <2>2, FailingStep DEF Progress
  <2> QED BY <2>1, <2>2
<1> QED BY <1>2, <1>3, <1>5 DEF TInv

LEMMA VerdictTInv ==
  ASSUME TInv, IInv', Verdict
  PROVE  TInv'
<1> DEFINE n == Lowest(todo)
<1>1. n \in 1..8 /\ Progress(n) /\ failed = {} /\ todo \in SUBSET (1..8)
  BY TodoLowest DEF Verdict, TInv
<1>2. /\ step > Len(Tests[n].calls)
      /\ failed' = IF errors = Tests[n].expected THEN failed ELSE failed \cup {n}
      /\ todo' = todo \ {n} /\ step' = 1 /\ errors' = 0
      /\ UNCHANGED vars
  BY DEF Verdict
<1> HIDE DEF n
<1>3. AllClosed /\ errors = Tests[n].expected
  BY <1>1, <1>2, TestEnds
<1>4. AllClosed'
  BY <1>2, <1>3 DEF AllClosed, InUse, vars
<1> QED BY <1>1, <1>2, <1>3, <1>4, TestsStart

LEMMA ExitTInv ==
  ASSUME TInv, IInv', Exit
  PROVE  TInv'
<1>1. /\ IInv /\ failed = {} /\ todo = {} /\ todo' = todo /\ failed' = failed
      /\ halt_handler(Tester)
  BY DEF TInv, Exit
<1>2. fd_array'[Tester] = fd_arr
  BY <1>1, TesterAssumption, HaltEffect DEF IInv
<1>3. AllClosed'
  BY <1>2, NewArray, FdFacts DEF AllClosed, InUse, Follows
<1> QED BY <1>1, <1>3, TestsStart

LEMMA KeepTInv ==
  ASSUME TInv, IInv', SameOpen, UNCHANGED script
  PROVE  TInv'
<1>1. UNCHANGED <<todo, step, errors, failed>>
  BY DEF script
<1>2. CASE todo = {}
  <2>1. AllClosed'
    BY <1>2, SameInUse DEF TInv, AllClosed
  <2> QED BY <1>1, <1>2, <2>1 DEF TInv
<1>3. CASE todo # {}
  <2>1. PICK n \in 1..8 : n = Lowest(todo)
    BY <1>3, TodoLowest
  <2>2. Progress(n) /\ Lowest(todo') = n
    BY <1>1, <1>3, <2>1, TodoLowest
  <2>3. Progress(n)'
    BY <2>2, ProgressKept
  <2> QED BY <1>1, <1>3, <2>2, <2>3 DEF TInv
<1> QED BY <1>2, <1>3

LEMMA TestInv ==
  ASSUME TInv, [TestNext]_allVars
  PROVE  TInv'
<1>1. IInv'
  BY TestSteps, NextInv DEF TInv
<1>2. CASE Others
  BY <1>1, <1>2, OthersKeep, KeepTInv DEF Others, TInv
<1>3. CASE UNCHANGED allVars
  <2>1. SameOpen /\ UNCHANGED script
    BY <1>3 DEF allVars, vars, SameOpen
  <2> QED BY <1>1, <2>1, KeepTInv
<1> QED BY <1>1, <1>2, <1>3, SelectTInv, CallTInv, VerdictTInv, ExitTInv
        DEF TestNext

LEMMA TestStart == TestInit => TInv
<1> SUFFICES ASSUME TestInit PROVE TInv
  OBVIOUS
<1>1. IInv /\ todo = {} /\ failed = {}
  BY InitInv DEF TestInit
<1>2. fd_array[Tester] = fd_arr
  BY TesterAssumption DEF TestInit, Init
<1>3. AllClosed
  BY <1>2, NewArray, FdFacts DEF AllClosed, InUse, Follows
<1> QED BY <1>1, <1>3 DEF TInv

\* The program for failing calls never prints FAIL, whatever the programs on
\* the other terminals do between its calls.
THEOREM TestsRight == TestSpec => []TestsPass
<1>1. TInv => TestsPass
  BY DEF TInv, TestsPass
<1> QED BY <1>1, TestStart, TestInv, PTL DEF TestSpec

\* The test program and the others make calls of Descriptors and nothing else, so
\* what is proved of all calls holds of it.
THEOREM TestsUseTheCalls == TestSpec => Spec
<1>1. TestInit => Init
  BY DEF TestInit
<1> QED BY <1>1, TestStart, TestInv, TestSteps, PTL DEF TestSpec, Spec
=============================================================================
