--------------------------- MODULE FileDataProofs ---------------------------
(***************************************************************************)
(* For every block size, file length and count: no descriptor gets past    *)
(* the end of its file, so file_read never asks for a negative number of   *)
(* bytes and its signed subtraction is safe; and the copy loop delivers    *)
(* the bytes that were asked for, in spite of a count that goes down by    *)
(* one byte too few in every block, so that reads follow each other and    *)
(* execute loads whole programs.                                           *)
(***************************************************************************)
EXTENDS FileData, WellFoundedInduction, TLAPS

-----------------------------------------------------------------------------
(* Induction over sets of numbers, and functions defined by recursion      *)

\* Induction: a set that has 0 and the successor of each of its numbers has
\* all of them.
LEMMA NatInd ==
  ASSUME NEW S, 0 \in S, \A n \in Nat : n \in S => n + 1 \in S
  PROVE  \A n \in Nat : n \in S
<1> DEFINE R == OpToRel(<, Nat)
           B == {n \in Nat : n \notin S}
<1>1. IsWellFoundedOn(R, Nat)
  BY NatLessThanWellFounded
<1>2. \A m, n \in Nat : m < n => <<m, n>> \in R
  BY DEF OpToRel
<1> HIDE DEF R
<1>3. SUFFICES ASSUME B # {} PROVE FALSE
  OBVIOUS
<1>4. B \subseteq Nat
  OBVIOUS
<1>5. PICK x \in B : \A y \in B : ~ (<<y, x>> \in R)
  BY <1>1, <1>3, <1>4, WFMin
<1>6. x \in Nat /\ x # 0
  BY <1>5
<1>7. x - 1 \in Nat /\ x - 1 < x /\ (x - 1) + 1 = x
  BY <1>6
<1>8. x - 1 \notin B
  BY <1>2, <1>5, <1>6, <1>7
<1> QED BY <1>5, <1>7, <1>8

\* A loop whose step is a function of the round and the state has a function
\* that gives the state after each round.
LEMMA Iterate ==
  ASSUME NEW S, NEW a \in S, NEW G \in [Nat \X S -> S]
  PROVE  \E f \in [Nat -> S] : f[0] = a /\ \A n \in Nat : f[n + 1] = G[<<n, f[n]>>]
<1> DEFINE Good(n, g) == g[0] = a /\ \A i \in 0..(n - 1) : g[i + 1] = G[<<i, g[i]>>]
           Upto(n) == {g \in [0..n -> S] : Good(n, g)}
           E == {n \in Nat : Upto(n) # {}}
<1>1. 0 \in E
  <2>1. [i \in 0..0 |-> a] \in Upto(0)
    OBVIOUS
  <2> QED BY <2>1
<1>2. ASSUME NEW n \in Nat, n \in E PROVE n + 1 \in E
  <2>1. PICK g : g \in Upto(n)
    BY <1>2
  <2> DEFINE h == [i \in 0..(n + 1) |-> IF i = n + 1 THEN G[<<n, g[n]>>] ELSE g[i]]
  <2>2. h \in [0..(n + 1) -> S]
    BY <2>1
  <2>3. h[0] = a
    BY <2>1
  <2>4. ASSUME NEW i \in 0..n PROVE h[i + 1] = G[<<i, h[i]>>]
    <3>1. h[i] = g[i]
      OBVIOUS
    <3>2. CASE i = n
      <4>1. h[i + 1] = G[<<n, g[n]>>]
        BY <3>2
      <4> QED BY <3>1, <3>2, <4>1
    <3>3. CASE i # n
      <4>1. i \in 0..(n - 1) /\ h[i + 1] = g[i + 1]
        BY <3>3
      <4>2. g[i + 1] = G[<<i, g[i]>>]
        BY <2>1, <4>1
      <4> HIDE DEF h
      <4> QED BY <3>1, <4>1, <4>2
    <3> QED BY <3>2, <3>3
  <2> HIDE DEF h
  <2>5. Good(n + 1, h)
    <3>1. \A i \in 0..((n + 1) - 1) : i \in 0..n
      OBVIOUS
    <3> QED BY <2>3, <2>4, <3>1
  <2> QED BY <2>2, <2>5
<1>3. \A n \in Nat : n \in E
  <2> HIDE DEF E
  <2> QED BY <1>1, <1>2, NatInd
<1>4. ASSUME NEW m \in Nat, NEW n \in Nat, NEW g \in Upto(m), NEW h \in Upto(n),
             NEW i \in Nat, i <= m, i <= n
      PROVE  g[i] = h[i]
  <2> DEFINE A == {k \in Nat : k <= m /\ k <= n => g[k] = h[k]}
  <2>1. 0 \in A
    OBVIOUS
  <2>2. ASSUME NEW k \in Nat, k \in A PROVE k + 1 \in A
    <3> SUFFICES ASSUME k + 1 <= m, k + 1 <= n PROVE g[k + 1] = h[k + 1]
      OBVIOUS
    <3>1. k \in 0..(m - 1) /\ k \in 0..(n - 1)
      OBVIOUS
    <3>2. g[k + 1] = G[<<k, g[k]>>] /\ h[k + 1] = G[<<k, h[k]>>]
      BY <3>1
    <3>3. g[k] = h[k]
      BY <2>2, <3>1
    <3> QED BY <3>2, <3>3
  <2>3. \A k \in Nat : k \in A
    <3> HIDE DEF A
    <3> QED BY <2>1, <2>2, NatInd
  <2> QED BY <1>4, <2>3
<1> DEFINE w(n) == CHOOSE g : g \in Upto(n)
           f == [n \in Nat |-> w(n)[n]]
<1>5. ASSUME NEW n \in Nat PROVE w(n) \in Upto(n)
  BY <1>3
<1> HIDE DEF w
<1>6. f \in [Nat -> S]
  BY <1>5
<1>7. f[0] = a
  BY <1>5
<1>8. ASSUME NEW n \in Nat PROVE f[n + 1] = G[<<n, f[n]>>]
  <2>1. w(n + 1)[n + 1] = G[<<n, w(n + 1)[n]>>]
    BY <1>5
  <2>2. w(n) \in Upto(n) /\ w(n + 1) \in Upto(n + 1)
    BY <1>5
  <2> HIDE DEF Upto
  <2>3. w(n + 1)[n] = w(n)[n]
    BY <1>4, <2>2
  <2> QED BY <2>1, <2>3
<1> HIDE DEF f
<1> QED BY <1>6, <1>7, <1>8

-----------------------------------------------------------------------------
(* The copy loop of read_data                                              *)

\* The states of the loop: the count may be too high, never negative.
LoopStates ==
  [cur_byte : 0..(DATA_SIZE - 1), total_bytes : Nat, buf : Seq(Int)]

LoopStart(from, nbytes) ==
  [cur_byte |-> from % DATA_SIZE, total_bytes |-> nbytes, buf |-> <<>>]

\* What is in the buffer are the bytes from the position on, in their order.
InOrder(buf, from) == \A k \in 1..Len(buf) : buf[k] = from + k - 1

\* A block is copied either to its end or as far as the count goes.
LEMMA CopyBlockEffect ==
  ASSUME NEW s \in LoopStates, NEW i \in Nat
  PROVE  LET full == s.total_bytes > 0 /\ s.cur_byte + s.total_bytes >= DATA_SIZE
             n == IF full THEN DATA_SIZE - s.cur_byte ELSE s.total_bytes
             r == CopyBlock(s, i)
         IN  /\ n \in Nat
             /\ r \in LoopStates
             /\ full => r.cur_byte = 0 /\ r.total_bytes = s.total_bytes - (n - 1)
             /\ Len(r.buf) = Len(s.buf) + n
             /\ \A k \in 1..Len(s.buf) : r.buf[k] = s.buf[k]
             /\ \A k \in 1..n :
                   r.buf[Len(s.buf) + k] = i * DATA_SIZE + s.cur_byte + k - 1
<1> DEFINE full == s.total_bytes > 0 /\ s.cur_byte + s.total_bytes >= DATA_SIZE
           n == IF full THEN DATA_SIZE - s.cur_byte ELSE s.total_bytes
           bytes == [k \in 1..n |-> i * DATA_SIZE + s.cur_byte + k - 1]
           r == CopyBlock(s, i)
<1>1. /\ DATA_SIZE \in Nat \ {0} /\ s.cur_byte \in 0..(DATA_SIZE - 1)
      /\ s.total_bytes \in Nat /\ s.buf \in Seq(Int)
  BY FileAssumption DEF LoopStates
<1>2. n \in Nat
  BY <1>1
<1>3. r = [cur_byte |-> IF full THEN 0 ELSE s.cur_byte + n,
           total_bytes |-> IF full THEN s.total_bytes - (n - 1) ELSE s.total_bytes,
           buf |-> s.buf \o bytes]
  BY DEF CopyBlock
<1>4. bytes \in Seq(Int) /\ Len(bytes) = n
  <2>1. \A k \in 1..n : i * DATA_SIZE + s.cur_byte + k - 1 \in Int
    BY <1>1
  <2> HIDE DEF n
  <2> QED BY <1>2, <2>1
<1>5. \A k \in 1..n : bytes[k] = i * DATA_SIZE + s.cur_byte + k - 1
  OBVIOUS
<1>6. /\ r.cur_byte = IF full THEN 0 ELSE s.cur_byte + n
      /\ r.total_bytes = IF full THEN s.total_bytes - (n - 1) ELSE s.total_bytes
      /\ r.buf = s.buf \o bytes
  <2> HIDE DEF n, bytes, full, r
  <2> QED BY <1>3
<1>7. /\ full => r.cur_byte = 0 /\ r.total_bytes = s.total_bytes - (n - 1)
      /\ r.cur_byte \in 0..(DATA_SIZE - 1) /\ r.total_bytes \in Nat
  <2>1. CASE full
    <3>1. n = DATA_SIZE - s.cur_byte /\ r.cur_byte = 0
          /\ r.total_bytes = s.total_bytes - (n - 1)
      BY <1>6, <2>1
    <3> HIDE DEF r, n
    <3> QED BY <1>1, <2>1, <3>1
  <2>2. CASE ~full
    <3>1. n = s.total_bytes /\ r.cur_byte = s.cur_byte + n
          /\ r.total_bytes = s.total_bytes
      BY <1>6, <2>2
    <3> HIDE DEF r, n
    <3> QED BY <1>1, <2>2, <3>1
  <2> QED BY <2>1, <2>2
<1> HIDE DEF n, bytes
<1> HIDE DEF r
<1>8. r.buf \in Seq(Int)
  BY <1>1, <1>4, <1>6
<1>9. Len(r.buf) = Len(s.buf) + n
  <2>1. \A p, q \in Seq(Int) : Len(p \o q) = Len(p) + Len(q)
    OBVIOUS
  <2>2. s.buf \in Seq(Int) /\ Len(s.buf \o bytes) = Len(s.buf) + Len(bytes)
    BY <1>1, <1>4, <2>1
  <2> QED BY <1>4, <1>6, <2>2
<1>10. \A k \in 1..Len(s.buf) : r.buf[k] = s.buf[k]
  BY <1>1, <1>4, <1>6
<1>11. \A k \in 1..n : r.buf[Len(s.buf) + k] = bytes[k]
  BY <1>1, <1>2, <1>4, <1>6
<1>12. r \in LoopStates
  <2> USE DEF r
  <2>1. r = [cur_byte |-> r.cur_byte, total_bytes |-> r.total_bytes, buf |-> r.buf]
    <3> HIDE DEF full
    <3> QED BY <1>3
  <2> HIDE DEF r
  <2> QED BY <2>1, <1>7, <1>8 DEF LoopStates
<1> QED BY <1>2, <1>5, <1>7, <1>9, <1>10, <1>11, <1>12 DEF n, r

\* The loop of read_data exists as a function of the number of blocks done.
LEMMA CopiedStep ==
  ASSUME NEW from \in Nat, NEW nbytes \in Nat
  PROVE  /\ Copied(from, nbytes)[0] = LoopStart(from, nbytes)
         /\ \A i \in Nat :
              /\ Copied(from, nbytes)[i] \in LoopStates
              /\ Copied(from, nbytes)[i + 1]
                   = CopyBlock(Copied(from, nbytes)[i], from \div DATA_SIZE + i)
<1> DEFINE S == LoopStates
           start == LoopStart(from, nbytes)
           b == from \div DATA_SIZE
           G == [x \in Nat \X S |-> CopyBlock(x[2], b + x[1])]
           Body(f) == [i \in Nat |-> IF i = 0 THEN start
                                      ELSE CopyBlock(f[i - 1], b + i - 1)]
           C == Copied(from, nbytes)
<1>1. b \in Nat /\ from % DATA_SIZE \in 0..(DATA_SIZE - 1)
  BY FileAssumption
<1>2. start \in S
  BY <1>1 DEF LoopStart, LoopStates
<1>3. G \in [Nat \X S -> S]
  <2>1. ASSUME NEW i \in Nat, NEW s \in S PROVE CopyBlock(s, b + i) \in S
    <3>1. b + i \in Nat
      BY <1>1
    <3> HIDE DEF b
    <3> QED BY <3>1, CopyBlockEffect
  <2> HIDE DEF S
  <2> QED BY <2>1
<1>4. PICK f \in [Nat -> S] : f[0] = start /\ \A i \in Nat : f[i + 1] = G[<<i, f[i]>>]
  <2> DEFINE P(T) == \A a \in T, g \in [Nat \X T -> T] :
          \E f \in [Nat -> T] : f[0] = a /\ \A n \in Nat : f[n + 1] = g[<<n, f[n]>>]
  <2>1. \A T : P(T)
    BY Iterate
  <2> HIDE DEF S, P
  <2>2. P(S)
    BY <2>1
  <2> USE DEF P
  <2> HIDE DEF G, start
  <2> QED BY <1>2, <1>3, <2>2
<1> HIDE DEF start, b, S
<1>5. \A i \in Nat : f[i + 1] = CopyBlock(f[i], b + i)
  BY <1>4
<1>6. f = Body(f)
  <2>1. ASSUME NEW i \in Nat
        PROVE  f[i] = IF i = 0 THEN start ELSE CopyBlock(f[i - 1], b + i - 1)
    <3>1. CASE i = 0
      BY <1>4, <3>1
    <3>2. CASE i # 0
      <4>1. i - 1 \in Nat /\ (i - 1) + 1 = i /\ b + (i - 1) = b + i - 1
        BY <1>1, <3>2
      <4>2. f[i] = CopyBlock(f[i - 1], b + (i - 1))
        BY <1>5, <4>1
      <4> QED BY <3>2, <4>1, <4>2
    <3> QED BY <3>1, <3>2
  <2> QED BY <1>4, <2>1
<1>7. C = Body(C)
  <2>1. C = CHOOSE g : g = Body(g)
    BY DEF Copied, start, LoopStart, b
  <2> HIDE DEF C, Body
  <2> QED BY <1>6, <2>1
<1> HIDE DEF C
<1>8. C[0] = start /\ \A i \in Nat : C[i + 1] = CopyBlock(C[i], b + i)
  <2>1. \A i \in Nat : C[i] = IF i = 0 THEN start ELSE CopyBlock(C[i - 1], b + i - 1)
    BY <1>7
  <2>2. C[0] = start
    BY <2>1
  <2>3. ASSUME NEW i \in Nat PROVE C[i + 1] = CopyBlock(C[i], b + i)
    <3>1. i + 1 \in Nat /\ i + 1 # 0 /\ (i + 1) - 1 = i /\ b + (i + 1) - 1 = b + i
      BY <1>1
    <3> QED BY <2>1, <3>1
  <2> QED BY <2>2, <2>3
<1>9. \A i \in Nat : C[i] \in S
  <2> DEFINE A == {i \in Nat : C[i] \in S}
  <2>1. 0 \in A
    BY <1>2, <1>8
  <2>2. ASSUME NEW i \in Nat, i \in A PROVE i + 1 \in A
    <3>1. CopyBlock(C[i], b + i) = G[<<i, C[i]>>]
      BY <2>2
    <3>2. G[<<i, C[i]>>] \in S
      <4> HIDE DEF G
      <4> QED BY <1>3, <2>2
    <3> QED BY <1>8, <3>1, <3>2
  <2> HIDE DEF A
  <2>3. \A i \in Nat : i \in A
    BY <2>1, <2>2, NatInd
  <2> QED BY <2>3 DEF A
<1> QED BY <1>8, <1>9 DEF C, S, start, b

\* The offset of a byte in its block.
LEMMA Blocks ==
  ASSUME NEW x \in Nat
  PROVE  LET b == x \div DATA_SIZE IN
         /\ b \in Nat
         /\ x = b * DATA_SIZE + (x % DATA_SIZE)
         /\ x % DATA_SIZE \in 0..(DATA_SIZE - 1)
<1>1. DATA_SIZE \in Nat \ {0}
  BY FileAssumption
<1> QED BY <1>1

\* After a block the bytes are still in their order.
LEMMA StaysInOrder ==
  ASSUME NEW from \in Nat, NEW s \in LoopStates, NEW i \in Nat,
         InOrder(s.buf, from),
         from + Len(s.buf) = i * DATA_SIZE + s.cur_byte
  PROVE  InOrder(CopyBlock(s, i).buf, from)
<1> DEFINE r == CopyBlock(s, i)
           n == IF s.total_bytes > 0 /\ s.cur_byte + s.total_bytes >= DATA_SIZE
                THEN DATA_SIZE - s.cur_byte ELSE s.total_bytes
           len == Len(s.buf)
           base == i * DATA_SIZE
<1>1. /\ n \in Nat /\ Len(r.buf) = len + n
      /\ \A k \in 1..len : r.buf[k] = s.buf[k]
      /\ \A k \in 1..n : r.buf[len + k] = base + s.cur_byte + k - 1
  BY CopyBlockEffect
<1>2. len \in Nat /\ base \in Int /\ s.cur_byte \in Int
  BY FileAssumption DEF LoopStates
<1>3. from + len = base + s.cur_byte
  OBVIOUS
<1>4. \A k \in 1..len : s.buf[k] = from + k - 1
  BY DEF InOrder
<1> HIDE DEF r, n, len, base
<1>5. ASSUME NEW k \in 1..Len(r.buf) PROVE r.buf[k] = from + k - 1
  <2>1. CASE k <= len
    BY <1>1, <1>2, <1>4, <2>1
  <2>2. CASE k > len
    <3>1. k - len \in 1..n /\ len + (k - len) = k
      BY <1>1, <1>2, <2>2
    <3>2. r.buf[k] = base + s.cur_byte + (k - len) - 1
      BY <1>1, <3>1
    <3> QED BY <1>2, <1>3, <3>2
  <2> QED BY <1>2, <2>1, <2>2
<1> QED BY <1>5 DEF InOrder, r

\* What the loop over the blocks keeps until the last one: it is at the offset
\* its buffer has come to, and its count is not too low.
LoopInv(s, i, from, nbytes) ==
  /\ from + Len(s.buf) = i * DATA_SIZE + s.cur_byte
  /\ s.total_bytes >= nbytes - Len(s.buf)
  /\ InOrder(s.buf, from)

LEMMA LoopKeeps ==
  ASSUME NEW from \in Nat, NEW nbytes \in Nat, NEW s \in LoopStates, NEW i \in Nat,
         LoopInv(s, i, from, nbytes),
         i + 1 <= (from + nbytes) \div DATA_SIZE
  PROVE  LoopInv(CopyBlock(s, i), i + 1, from, nbytes)
<1> DEFINE r == CopyBlock(s, i)
           full == s.total_bytes > 0 /\ s.cur_byte + s.total_bytes >= DATA_SIZE
           n == IF full THEN DATA_SIZE - s.cur_byte ELSE s.total_bytes
           e == (from + nbytes) \div DATA_SIZE
           base == i * DATA_SIZE
           len == Len(s.buf)
<1>1. DATA_SIZE \in Nat \ {0} /\ s.cur_byte \in 0..(DATA_SIZE - 1)
      /\ s.total_bytes \in Nat /\ len \in Nat /\ base \in Nat
  BY FileAssumption DEF LoopStates
<1>2. (i + 1) * DATA_SIZE = base + DATA_SIZE
  BY <1>1
<1>3. base + DATA_SIZE <= from + nbytes
  <2>1. e \in Nat /\ e * DATA_SIZE <= from + nbytes
    <3>1. from + nbytes \in Nat
      OBVIOUS
    <3>2. /\ e \in Nat /\ (from + nbytes) % DATA_SIZE \in 0..(DATA_SIZE - 1)
          /\ from + nbytes = e * DATA_SIZE + ((from + nbytes) % DATA_SIZE)
      <4> HIDE DEF base, len, n, full, r
      <4> QED BY <3>1, Blocks
    <3>3. e * DATA_SIZE \in Int
      BY <1>1, <3>2
    <3> HIDE DEF e
    <3> QED BY <3>1, <3>2, <3>3
  <2>2. (i + 1) * DATA_SIZE <= e * DATA_SIZE
    <3> HIDE DEF e
    <3>1. PICK d \in Nat : e = (i + 1) + d
      <4>1. e - (i + 1) \in Nat /\ e = (i + 1) + (e - (i + 1))
        BY <2>1 DEF e
      <4> QED BY <4>1
    <3>2. e * DATA_SIZE = (i + 1) * DATA_SIZE + d * DATA_SIZE /\ d * DATA_SIZE >= 0
      BY <1>1, <3>1
    <3>3. (i + 1) * DATA_SIZE \in Int /\ d * DATA_SIZE \in Int
      BY <1>1
    <3> QED BY <3>2, <3>3
  <2> HIDE DEF e, base
  <2>3. e * DATA_SIZE \in Int
    BY <1>1, <2>1
  <2> DEFINE p == e * DATA_SIZE
             q == (i + 1) * DATA_SIZE
  <2>4. p <= from + nbytes /\ q <= p /\ q = base + DATA_SIZE /\ p \in Int
    BY <1>2, <2>1, <2>2, <2>3
  <2> HIDE DEF p, q
  <2> QED BY <1>1, <2>4
<1>4. from + len = base + s.cur_byte /\ s.total_bytes >= nbytes - len
  BY DEF LoopInv
<1>5. /\ full => r.cur_byte = 0 /\ r.total_bytes = s.total_bytes - (n - 1)
      /\ Len(r.buf) = len + n
  BY CopyBlockEffect
<1>6. InOrder(r.buf, from)
  BY StaysInOrder DEF LoopInv
<1> HIDE DEF base, len, r
<1>7. full /\ n = DATA_SIZE - s.cur_byte
  BY <1>1, <1>3, <1>4
<1> HIDE DEF full, n
<1>8. from + Len(r.buf) = (i + 1) * DATA_SIZE + r.cur_byte
  <2> DEFINE L == Len(r.buf)
             q == (i + 1) * DATA_SIZE
  <2>1. L = len + n /\ r.cur_byte = 0 /\ q = base + DATA_SIZE
    BY <1>2, <1>5, <1>7
  <2> HIDE DEF L, q
  <2>2. from + L = q + r.cur_byte
    BY <1>1, <1>4, <1>7, <2>1
  <2> QED BY <2>2 DEF L, q
<1>9. r.total_bytes >= nbytes - Len(r.buf)
  <2> DEFINE L == Len(r.buf)
  <2>1. L = len + n /\ r.total_bytes = s.total_bytes - (n - 1)
    BY <1>5, <1>7
  <2> HIDE DEF L
  <2>2. r.total_bytes >= nbytes - L
    BY <1>1, <1>4, <1>7, <2>1
  <2> QED BY <2>2 DEF L
<1> QED BY <1>6, <1>8, <1>9 DEF LoopInv, r

\* In the last block the count ends the copy, or the block is copied to its
\* end, which is past the count.
LEMMA LoopEnds ==
  ASSUME NEW from \in Nat, NEW nbytes \in Nat, NEW s \in LoopStates, NEW i \in Nat,
         LoopInv(s, i, from, nbytes),
         i = (from + nbytes) \div DATA_SIZE
  PROVE  Len(CopyBlock(s, i).buf) >= nbytes
<1> DEFINE r == CopyBlock(s, i)
           full == s.total_bytes > 0 /\ s.cur_byte + s.total_bytes >= DATA_SIZE
           n == IF full THEN DATA_SIZE - s.cur_byte ELSE s.total_bytes
           base == i * DATA_SIZE
           len == Len(s.buf)
<1>1. DATA_SIZE \in Nat \ {0} /\ s.cur_byte \in 0..(DATA_SIZE - 1)
      /\ s.total_bytes \in Nat /\ len \in Nat /\ base \in Nat
  BY FileAssumption DEF LoopStates
<1>2. from + nbytes < base + DATA_SIZE
  <2>1. from + nbytes \in Nat
    OBVIOUS
  <2>2. /\ from + nbytes = base + ((from + nbytes) % DATA_SIZE)
        /\ (from + nbytes) % DATA_SIZE \in 0..(DATA_SIZE - 1)
    BY <2>1, Blocks
  <2> HIDE DEF base
  <2> QED BY <1>1, <2>1, <2>2
<1>3. from + len = base + s.cur_byte /\ s.total_bytes >= nbytes - len
  BY DEF LoopInv
<1>4. Len(r.buf) = len + n
  BY CopyBlockEffect
<1> HIDE DEF base, len, r
<1>5. n >= nbytes - len /\ n \in Int
  BY <1>1, <1>2, <1>3
<1> HIDE DEF n
<1>6. Len(r.buf) >= nbytes
  BY <1>1, <1>4, <1>5
<1> QED BY <1>6 DEF r

\* read_data delivers at least the bytes asked for, from the position on and
\* in their order, for every position and every count.
THEOREM ReadDataDelivers ==
  ASSUME NEW from \in Nat, NEW nbytes \in Nat
  PROVE  /\ read_data(from, nbytes) \in Seq(Int)
         /\ Len(read_data(from, nbytes)) >= nbytes
         /\ InOrder(read_data(from, nbytes), from)
<1> DEFINE b == from \div DATA_SIZE
           e == (from + nbytes) \div DATA_SIZE
           C == Copied(from, nbytes)
           A == {i \in Nat : b + i <= e => LoopInv(C[i], b + i, from, nbytes)}
<1>1. b \in Nat /\ e \in Nat
  BY Blocks
<1>2. b <= e
  BY FileAssumption
<1>3. /\ C[0] = LoopStart(from, nbytes)
      /\ \A i \in Nat : C[i] \in LoopStates /\ C[i + 1] = CopyBlock(C[i], b + i)
  BY CopiedStep
<1>4. read_data(from, nbytes) = C[e - b + 1].buf
  BY DEF read_data
<1> HIDE DEF C
<1>5. 0 \in A
  <2>1. C[0].buf = <<>> /\ C[0].cur_byte = from % DATA_SIZE /\ C[0].total_bytes = nbytes
    BY <1>3 DEF LoopStart
  <2>2. from = b * DATA_SIZE + (from % DATA_SIZE)
    BY Blocks
  <2>3. Len(C[0].buf) = 0 /\ InOrder(C[0].buf, from)
    BY <2>1 DEF InOrder
  <2>4. LoopInv(C[0], b, from, nbytes)
    <3>1. from + Len(C[0].buf) = b * DATA_SIZE + C[0].cur_byte
      <4>1. from + 0 = from
        OBVIOUS
      <4> QED BY <2>1, <2>2, <2>3, <4>1
    <3>2. C[0].total_bytes >= nbytes - Len(C[0].buf)
      BY <2>1, <2>3
    <3> QED BY <2>3, <3>1, <3>2 DEF LoopInv
  <2>5. b + 0 = b
    BY <1>1
  <2> QED BY <2>4, <2>5
<1>6. ASSUME NEW i \in Nat, i \in A PROVE i + 1 \in A
  <2> SUFFICES ASSUME b + (i + 1) <= e PROVE LoopInv(C[i + 1], b + (i + 1), from, nbytes)
    OBVIOUS
  <2>1. b + i \in Nat /\ b + i <= e /\ (b + i) + 1 = b + (i + 1)
    BY <1>1
  <2>2. LoopInv(C[i], b + i, from, nbytes)
    BY <1>6, <2>1
  <2>3. (b + i) + 1 <= e
    BY <2>1
  <2>4. C[i] \in LoopStates
    BY <1>3
  <2>5. LoopInv(CopyBlock(C[i], b + i), (b + i) + 1, from, nbytes)
    BY <2>1, <2>2, <2>3, <2>4, LoopKeeps
  <2> QED BY <1>3, <2>1, <2>5
<1>7. \A i \in Nat : i \in A
  <2> HIDE DEF A
  <2> QED BY <1>5, <1>6, NatInd
<1>8. e - b \in Nat /\ b + (e - b) = e /\ (e - b) + 1 = e - b + 1
  BY <1>1, <1>2
<1>9. LoopInv(C[e - b], e, from, nbytes)
  <2>1. e - b \in A
    BY <1>7, <1>8
  <2>2. e <= e
    BY <1>1
  <2> QED BY <1>8, <2>1, <2>2
<1>10. C[e - b] \in LoopStates /\ C[e - b + 1] = CopyBlock(C[e - b], e)
  BY <1>3, <1>8
<1>11. CopyBlock(C[e - b], e) \in LoopStates
  BY <1>1, <1>10, CopyBlockEffect
<1>12. Len(CopyBlock(C[e - b], e).buf) >= nbytes
  BY <1>1, <1>9, <1>10, LoopEnds
<1>13. InOrder(CopyBlock(C[e - b], e).buf, from)
  BY <1>1, <1>9, <1>10, StaysInOrder DEF LoopInv
<1> QED BY <1>4, <1>10, <1>11, <1>12, <1>13 DEF LoopStates

-----------------------------------------------------------------------------
(* The descriptors                                                         *)

FInv == TypeOK /\ PositionsInFile /\ ReadsFollowEachOther

\* file_read never delivers more than asked for or than the file has left.
LEMMA ByteLeftBounds ==
  ASSUME NEW f \in Files, length[f] \in Offsets,
         NEW from \in 0..length[f], NEW nbytes \in Counts
  PROVE  ByteLeft(f, from, nbytes) \in 0..(length[f] - from)
<1>1. length[f] \in Nat /\ from \in Nat /\ from <= length[f] /\ nbytes \in Nat
  BY FileAssumption DEF Offsets, Counts
<1> QED BY <1>1 DEF ByteLeft

\* What a caller gets of the buffer.
LEMMA Delivered ==
  ASSUME NEW from \in Nat, NEW n \in Nat
  PROVE  /\ SubSeq(read_data(from, n), 1, n) = [k \in 1..n |-> from + k - 1]
         /\ Len(read_data(from, n)) - n \in Nat
<1> DEFINE buf == read_data(from, n)
<1>1. buf \in Seq(Int) /\ Len(buf) \in Nat /\ Len(buf) >= n
      /\ \A k \in 1..Len(buf) : buf[k] = from + k - 1
  <2>1. buf \in Seq(Int) /\ Len(buf) >= n /\ InOrder(buf, from)
    BY ReadDataDelivers
  <2> HIDE DEF buf
  <2>2. Len(buf) \in Nat
    BY <2>1
  <2> QED BY <2>1, <2>2 DEF InOrder
<1> HIDE DEF buf
<1>2. SubSeq(buf, 1, n) = [k \in 1..n |-> buf[k]]
  BY <1>1
<1>3. \A k \in 1..n : buf[k] = from + k - 1
  BY <1>1
<1>4. SubSeq(buf, 1, n) = [k \in 1..n |-> from + k - 1]
  BY <1>2, <1>3
<1>5. Len(buf) - n \in Nat
  BY <1>1
<1> QED BY <1>4, <1>5 DEF buf

\* A read that starts where the reads before it ended continues them.
LEMMA Continues ==
  ASSUME NEW from \in Nat, NEW n \in Nat
  PROVE  [k \in 1..from |-> k - 1] \o [k \in 1..n |-> from + k - 1]
           = [k \in 1..(from + n) |-> k - 1]
<1> DEFINE p == [k \in 1..from |-> k - 1]
           q == [k \in 1..n |-> from + k - 1]
           r == [k \in 1..(from + n) |-> k - 1]
<1>1. p \in Seq(Int) /\ Len(p) = from /\ q \in Seq(Int) /\ Len(q) = n
  OBVIOUS
<1>2. r \in Seq(Int) /\ Len(r) = from + n
  OBVIOUS
<1>3. /\ p \o q \in Seq(Int) /\ Len(p \o q) = from + n
      /\ \A k \in 1..(from + n) :
           (p \o q)[k] = IF k <= from THEN p[k] ELSE q[k - from]
  <2> HIDE DEF p, q
  <2>1. p \o q \in Seq(Int) /\ Len(p \o q) = Len(p) + Len(q)
    <3>1. \A u, v \in Seq(Int) : u \o v \in Seq(Int) /\ Len(u \o v) = Len(u) + Len(v)
      OBVIOUS
    <3> QED BY <1>1, <3>1
  <2>2. \A k \in 1..from : (p \o q)[k] = p[k]
    <3>1. \A u, v \in Seq(Int) : \A k \in 1..Len(u) : (u \o v)[k] = u[k]
      OBVIOUS
    <3> QED BY <1>1, <3>1
  <2>3. \A k \in 1..n : (p \o q)[from + k] = q[k]
    <3>1. \A u, v \in Seq(Int) : \A k \in 1..Len(v) : (u \o v)[Len(u) + k] = v[k]
      OBVIOUS
    <3> QED BY <1>1, <3>1
  <2>4. ASSUME NEW k \in 1..(from + n), ~(k <= from) PROVE (p \o q)[k] = q[k - from]
    <3>1. k - from \in 1..n /\ from + (k - from) = k
      BY <2>4
    <3> QED BY <2>3, <3>1
  <2> QED BY <1>1, <2>1, <2>2, <2>4
<1>4. ASSUME NEW k \in 1..(from + n) PROVE (p \o q)[k] = r[k]
  <2>1. CASE k <= from
    <3>1. (p \o q)[k] = p[k]
      BY <1>3, <2>1
    <3> QED BY <2>1, <3>1
  <2>2. CASE ~(k <= from)
    <3>1. (p \o q)[k] = q[k - from]
      BY <1>3, <2>2
    <3>2. k - from \in 1..n
      BY <2>2
    <3>3. q[k - from] = from + (k - from) - 1
      BY <3>2
    <3> QED BY <3>1, <3>3
  <2> QED BY <2>1, <2>2
<1> HIDE DEF p, q, r
<1>5. p \o q = r
  <2> DEFINE w == p \o q
  <2>1. w \in Seq(Int) /\ Len(w) = from + n /\ \A k \in 1..(from + n) : w[k] = r[k]
    BY <1>3, <1>4
  <2> HIDE DEF w
  <2>2. w = r
    BY <1>2, <2>1
  <2> QED BY <2>2 DEF w
<1> QED BY <1>5 DEF p, q, r

LEMMA FInvInit == Init => FInv
<1> SUFFICES ASSUME Init PROVE FInv
  OBVIOUS
<1>1. 0 \in Offsets
  BY FileAssumption DEF Offsets
<1>2. Closed \in [file : Files \cup {None}, file_position : Offsets]
  BY <1>1 DEF Closed
<1>3. \A fd \in Fds : ~IsOpen(fd)
  BY DEF Init, IsOpen, Closed
<1>4. TypeOK
  BY <1>1, <1>2 DEF Init, TypeOK
<1> QED BY <1>3, <1>4 DEF FInv, PositionsInFile, ReadsFollowEachOther

LEMMA FInvNext == FInv /\ [Next]_vars => FInv'
<1> SUFFICES ASSUME FInv, [Next]_vars PROVE FInv'
  OBVIOUS
<1> DEFINE Descriptor == [file : Files \cup {None}, file_position : Offsets]
<1>0. TypeOK /\ PositionsInFile /\ ReadsFollowEachOther
  BY DEF FInv
<1>t. /\ length \in [Files -> Offsets] /\ fd_array \in [Fds -> Descriptor]
      /\ last_read \in Offsets /\ got \in [Fds -> Seq(Offsets)] /\ spilt \in Nat
  BY <1>0 DEF TypeOK
<1>o. Offsets \subseteq Nat /\ 0 \in Offsets
  BY FileAssumption DEF Offsets
<1>1. CASE UNCHANGED vars
  BY <1>0, <1>1 DEF vars, FInv, TypeOK, PositionsInFile, ReadsFollowEachOther, IsOpen
<1>2. ASSUME NEW fd \in Fds, NEW f \in Files, Open(fd, f) PROVE FInv'
  <2>1. 0 <= length[f] /\ <<>> \in Seq(Offsets)
    <3>1. length[f] \in Nat
      BY <1>t, <1>o
    <3> QED BY <3>1
  <2>2. /\ length' = length /\ spilt' = spilt /\ last_read' = 0
        /\ fd_array' = [fd_array EXCEPT ![fd] = [file |-> f, file_position |-> 0]]
        /\ got' = [got EXCEPT ![fd] = <<>>]
    BY <1>2 DEF Open
  <2>3. /\ fd_array'[fd].file = f /\ fd_array'[fd].file_position = 0
        /\ got'[fd] = <<>>
    BY <1>t, <2>2
  <2>4. \A other \in Fds \ {fd} : fd_array'[other] = fd_array[other]
                                  /\ got'[other] = got[other]
    BY <1>t, <2>2
  <2>5. TypeOK'
    BY <1>t, <1>o, <2>1, <2>2 DEF TypeOK
  <2>6. PositionsInFile'
    BY <1>0, <2>1, <2>2, <2>3, <2>4 DEF PositionsInFile, IsOpen
  <2>7. ReadsFollowEachOther'
    <3>1. <<>> = [k \in 1..0 |-> k - 1]
      OBVIOUS
    <3> QED BY <1>0, <2>3, <2>4, <3>1 DEF ReadsFollowEachOther, IsOpen
  <2> QED BY <2>5, <2>6, <2>7 DEF FInv
<1>3. ASSUME NEW fd \in Fds, NEW nbytes \in Counts, Read(fd, nbytes) PROVE FInv'
  <2> DEFINE f == fd_array[fd].file
             from == fd_array[fd].file_position
             n == ByteLeft(f, from, nbytes)
             buf == read_data(from, n)
             bytes == [k \in 1..n |-> from + k - 1]
  <2>1. f \in Files /\ IsOpen(fd)
    BY <1>t, <1>3 DEF Read, IsOpen
  <2>2. /\ length' = length /\ last_read' = from + n
        /\ fd_array' = [fd_array EXCEPT ![fd].file_position = from + n]
        /\ got' = [got EXCEPT ![fd] = got[fd] \o SubSeq(buf, 1, n)]
        /\ spilt' = Len(buf) - n
    BY <1>3 DEF Read
  <2>3. length[f] \in Offsets /\ from \in Offsets /\ from <= length[f]
    BY <1>0, <1>t, <2>1 DEF PositionsInFile
  <2>4. n \in 0..(length[f] - from)
    <3> HIDE DEF f, from
    <3>1. from \in 0..length[f]
      BY <1>o, <2>3
    <3> QED BY <2>1, <2>3, <3>1, ByteLeftBounds
  <2>5. from + n \in Offsets /\ from + n <= length[f] /\ from \in Nat /\ n \in Nat
    BY <1>o, <2>3, <2>4, FileAssumption DEF Offsets
  <2> HIDE DEF n
  <2>6. SubSeq(buf, 1, n) = bytes /\ spilt' \in Nat
    BY <2>2, <2>5, Delivered
  <2> HIDE DEF buf
  <2>7. fd_array'[fd].file = f /\ fd_array'[fd].file_position = from + n
    BY <1>t, <2>2
  <2>8. got'[fd] = [k \in 1..(from + n) |-> k - 1]
    <3>1. got[fd] = [k \in 1..from |-> k - 1]
      BY <1>0, <2>1 DEF ReadsFollowEachOther
    <3>2. got'[fd] = got[fd] \o bytes
      BY <1>t, <2>2, <2>6
    <3> QED BY <2>5, <3>1, <3>2, Continues
  <2>9. \A other \in Fds \ {fd} : fd_array'[other] = fd_array[other]
                                  /\ got'[other] = got[other]
    BY <1>t, <2>2
  <2>10. TypeOK'
    <3>1. fd_array' \in [Fds -> Descriptor]
      BY <1>t, <2>2, <2>5
    <3>2. got'[fd] \in Seq(Offsets)
      <4>1. \A k \in 1..(from + n) : k - 1 \in Offsets
        BY <2>5, FileAssumption DEF Offsets
      <4> QED BY <2>5, <2>8, <4>1
    <3>3. got' \in [Fds -> Seq(Offsets)]
      BY <1>t, <2>2, <2>9, <3>2
    <3> QED BY <1>t, <2>2, <2>5, <2>6, <3>1, <3>3 DEF TypeOK
  <2>11. PositionsInFile'
    BY <1>0, <2>2, <2>5, <2>7, <2>9 DEF PositionsInFile, IsOpen
  <2>12. ReadsFollowEachOther'
    BY <1>0, <2>7, <2>8, <2>9 DEF ReadsFollowEachOther, IsOpen
  <2> QED BY <2>10, <2>11, <2>12 DEF FInv
<1>4. ASSUME NEW fd \in Fds, Close(fd) PROVE FInv'
  <2>1. /\ UNCHANGED <<length, last_read, got, spilt>>
        /\ fd_array' = [fd_array EXCEPT ![fd] = [fd_array[fd] EXCEPT !.file = None]]
    BY <1>4 DEF Close
  <2>2. fd_array'[fd].file = None
    BY <1>t, <2>1
  <2>3. \A other \in Fds \ {fd} : fd_array'[other] = fd_array[other]
    BY <1>t, <2>1
  <2>4. fd_array' \in [Fds -> Descriptor]
    BY <1>t, <2>1
  <2>5. TypeOK'
    BY <1>t, <2>1, <2>4 DEF TypeOK
  <2> QED BY <1>0, <2>1, <2>2, <2>3, <2>5
          DEF FInv, PositionsInFile, ReadsFollowEachOther, IsOpen
<1> QED BY <1>1, <1>2, <1>3, <1>4 DEF Next

LEMMA Invariance == Spec => []FInv
BY FInvInit, FInvNext, PTL DEF Spec

\* The descriptors, the buffers and the count of the bytes that were written
\* too many keep their types: file_read never asks for a negative number.
THEOREM TypeCorrect == Spec => []TypeOK
<1>1. FInv => TypeOK
  BY DEF FInv
<1> QED BY Invariance, <1>1, PTL

\* No sequence of opens, reads and closes takes a descriptor past the end of
\* its file.
THEOREM PositionsBounded == Spec => []PositionsInFile
<1>1. FInv => PositionsInFile
  BY DEF FInv
<1> QED BY Invariance, <1>1, PTL

\* The reads of a descriptor deliver its file from the start on without a gap
\* or a repetition, for every block size and however reads are interleaved.
THEOREM ReadsInSequence == Spec => []ReadsFollowEachOther
<1>1. FInv => ReadsFollowEachOther
  BY DEF FInv
<1> QED BY Invariance, <1>1, PTL

\* execute loads every program whole, however many blocks it has.
THEOREM ProgramsLoaded == Spec => []LoadsWholeProgram
<1>1. ASSUME FInv PROVE LoadsWholeProgram
  <2>1. SUFFICES ASSUME NEW f \in Files
                 PROVE  SubSeq(execute_read(f, MaxLength), 1, length[f])
                          = [k \in 1..length[f] |-> k - 1]
    BY DEF LoadsWholeProgram
  <2>2. length[f] \in Nat /\ length[f] <= MaxLength /\ MaxLength \in Nat
    BY <1>1, FileAssumption DEF FInv, TypeOK, Offsets
  <2>3. execute_read(f, MaxLength) = read_data(0, length[f])
    <3>1. (IF MaxLength > length[f] THEN length[f] ELSE MaxLength) = length[f]
      BY <2>2
    <3> QED BY <3>1 DEF execute_read, read_data_execute
  <2>4. SubSeq(read_data(0, length[f]), 1, length[f])
          = [k \in 1..length[f] |-> 0 + k - 1]
    BY <2>2, Delivered
  <2>5. \A k \in 1..length[f] : 0 + k - 1 = k - 1
    BY <2>2
  <2> QED BY <2>3, <2>4, <2>5
<1> QED BY Invariance, <1>1, PTL
=============================================================================
