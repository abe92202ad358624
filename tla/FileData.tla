------------------------------ MODULE FileData ------------------------------
(***************************************************************************)
(* Reading files (filesystem.c).  A byte is named by its offset in the     *)
(* file, so a buffer is a sequence of offsets: block i holds the offsets   *)
(* from i * DATA_SIZE on, past the length of the file too.  The calls run  *)
(* with interrupts off, so each is one step; what they share is the global *)
(* last_read, and a position in every descriptor.                          *)
(***************************************************************************)
EXTENDS Integers, Sequences

CONSTANTS
  DATA_SIZE,    \* bytes in a block, 4096 in the code
  MaxLength,    \* bound on the length of a file
  MaxCount,     \* bound on the bytes a call asks for
  Files,        \* the files of the image
  Fds           \* the descriptors of the running programs

ASSUME FileAssumption ==
  /\ DATA_SIZE \in Nat \ {0} /\ MaxLength \in Nat /\ MaxCount \in Nat
  /\ "none" \notin Files

Offsets == 0..MaxLength
Counts == 0..MaxCount
None == "none"

VARIABLES
  length,      \* of every file, fixed when the image is made
  fd_array,    \* file and file_position of every open descriptor
  last_read,   \* the global position read_data works on
  got,         \* history: what the reads of a descriptor delivered since open
  spilt        \* history: bytes the last call wrote after those it returned

vars == <<length, fd_array, last_read, got, spilt>>

-----------------------------------------------------------------------------
(* The copy loop                                                           *)

\* Seeded fault: the offset in the block is not reset.
CopyBlock_NoReset(s, i) ==
  LET full == s.cur_byte < DATA_SIZE /\ s.cur_byte + s.total_bytes >= DATA_SIZE
      n == IF full THEN DATA_SIZE - s.cur_byte ELSE s.total_bytes
      bytes == [k \in 1..n |-> i * DATA_SIZE + s.cur_byte + k - 1]
  IN  [cur_byte |-> s.cur_byte + n,
       total_bytes |-> IF full THEN s.total_bytes - (n - 1) ELSE s.total_bytes,
       buf |-> s.buf \o bytes]

\* The bytes of block i.  Where the block ends before the count, the index of
\* the last byte is subtracted, which is one less than the bytes copied.
CopyBlock(s, i) ==
  LET full == s.total_bytes > 0 /\ s.cur_byte + s.total_bytes >= DATA_SIZE
      n == IF full THEN DATA_SIZE - s.cur_byte ELSE s.total_bytes
      bytes == [k \in 1..n |-> i * DATA_SIZE + s.cur_byte + k - 1]
  IN  [cur_byte |-> IF full THEN 0 ELSE s.cur_byte + n,
       total_bytes |-> IF full THEN s.total_bytes - (n - 1) ELSE s.total_bytes,
       buf |-> s.buf \o bytes]

\* The loop over the blocks: what it has done after i of them.
Copied(from, nbytes) ==
  LET after[i \in Nat] ==
        IF i = 0
        THEN [cur_byte |-> from % DATA_SIZE, total_bytes |-> nbytes, buf |-> <<>>]
        ELSE CopyBlock(after[i - 1], (from \div DATA_SIZE) + i - 1)
  IN  after

\* Everything it writes to the buffer.
read_data(from, nbytes) ==
  LET block_begin == from \div DATA_SIZE
      block_end == (from + nbytes) \div DATA_SIZE
  IN  Copied(from, nbytes)[block_end - block_begin + 1].buf

\* read_data_execute always starts at the first byte.
read_data_execute(nbytes) == read_data(0, nbytes)

\* Seeded fault: the count is not cut at the end of the file.
ByteLeft_Uncut(f, from, nbytes) == nbytes

\* What file_read asks of read_data, and returns.
ByteLeft(f, from, nbytes) ==
  IF nbytes > length[f] - from THEN length[f] - from ELSE nbytes

execute_read(f, nbytes) ==
  read_data_execute(IF nbytes > length[f] THEN length[f] ELSE nbytes)

-----------------------------------------------------------------------------
Closed == [file |-> None, file_position |-> 0]
IsOpen(fd) == fd_array[fd].file # None

Init ==
  /\ length \in [Files -> Offsets]
  /\ fd_array = [fd \in Fds |-> Closed]
  /\ last_read = 0
  /\ got = [fd \in Fds |-> <<>>]
  /\ spilt = 0

\* Seeded fault: a descriptor keeps the position of its last use.
Open_Keep(fd, f) ==
  /\ ~IsOpen(fd)
  /\ fd_array' = [fd_array EXCEPT ![fd].file = f]
  /\ last_read' = 0
  /\ got' = [got EXCEPT ![fd] = <<>>]
  /\ UNCHANGED <<length, spilt>>

\* open of a regular file; file_open clears last_read.
Open(fd, f) ==
  /\ ~IsOpen(fd)
  /\ fd_array' = [fd_array EXCEPT ![fd] = [file |-> f, file_position |-> 0]]
  /\ last_read' = 0
  /\ got' = [got EXCEPT ![fd] = <<>>]
  /\ UNCHANGED <<length, spilt>>

\* Seeded faults: the position of the last call of any descriptor is used; the
\* new position is not written back.
Read_Global(fd, nbytes) ==
  /\ IsOpen(fd)
  /\ LET f == fd_array[fd].file
         n == ByteLeft(f, last_read, nbytes)
         buf == read_data(last_read, n)
     IN  /\ last_read' = last_read + n
         /\ fd_array' = [fd_array EXCEPT ![fd].file_position = last_read + n]
         /\ got' = [got EXCEPT ![fd] = @ \o SubSeq(buf, 1, n)]
         /\ spilt' = Len(buf) - n
  /\ UNCHANGED length
Read_NoWriteBack(fd, nbytes) ==
  /\ IsOpen(fd)
  /\ LET f == fd_array[fd].file
         from == fd_array[fd].file_position
     IN  last_read' = from + ByteLeft(f, from, nbytes)
  /\ UNCHANGED <<length, fd_array, got, spilt>>

\* file_read: returns n bytes, the first n of the buffer.
Read(fd, nbytes) ==
  /\ IsOpen(fd)
  /\ LET f == fd_array[fd].file
         from == fd_array[fd].file_position
         n == ByteLeft(f, from, nbytes)
         buf == read_data(from, n)
     IN  /\ last_read' = from + n
         /\ fd_array' = [fd_array EXCEPT ![fd].file_position = from + n]
         /\ got' = [got EXCEPT ![fd] = @ \o SubSeq(buf, 1, n)]
         /\ spilt' = Len(buf) - n
  /\ UNCHANGED length

Close(fd) ==
  /\ IsOpen(fd)
  /\ fd_array' = [fd_array EXCEPT ![fd] = [@ EXCEPT !.file = None]]
  /\ UNCHANGED <<length, last_read, got, spilt>>

Next ==
  \E fd \in Fds : \/ \E f \in Files : Open(fd, f)
                  \/ \E nbytes \in Counts : Read(fd, nbytes)
                  \/ Close(fd)

Spec == Init /\ [][Next]_vars

\* A program such as cat reads on until a read returns 0.
FairSpec ==
  Spec /\ \A fd \in Fds : WF_vars(\E nbytes \in Counts \ {0} : Read(fd, nbytes))

-----------------------------------------------------------------------------
(* Properties                                                              *)

TypeOK ==
  /\ length \in [Files -> Offsets]
  /\ fd_array \in [Fds -> [file : Files \cup {None}, file_position : Offsets]]
  /\ last_read \in Offsets
  /\ got \in [Fds -> Seq(Offsets)]
  /\ spilt \in Nat

\* The reads of one descriptor deliver the file from its start without a gap or
\* a repetition, whatever is read through other descriptors in between.
ReadsFollowEachOther ==
  \A fd \in Fds : IsOpen(fd) =>
    got[fd] = [k \in 1..fd_array[fd].file_position |-> k - 1]

\* No descriptor gets past the end of its file.
PositionsInFile ==
  \A fd \in Fds : IsOpen(fd) =>
    fd_array[fd].file_position <= length[fd_array[fd].file]

\* execute loads the whole program, however many blocks it has.
LoadsWholeProgram ==
  \A f \in Files : SubSeq(execute_read(f, MaxLength), 1, length[f])
                     = [k \in 1..length[f] |-> k - 1]

\* A program that goes on reading gets all of the file, unless it closes it.
ReadsToTheEnd ==
  \A fd \in Fds, f \in Files :
    fd_array[fd].file = f ~> \/ fd_array[fd].file # f
                             \/ Len(got[fd]) = length[f]

\* "nbytes: the number of bytes store in the buf" (filesystem.c:185).
CopiesNoMore == spilt = 0
=============================================================================
