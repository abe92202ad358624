--------------------------- MODULE CommandsProofs ---------------------------
(***************************************************************************)
(* Proofs about Commands, for any letters, sizes and directory.  The first *)
(* part shows what the loops of execute_handler and read_dentry_by_name    *)
(* find: the three places at which a command is cut determine its first    *)
(* word and its rest, and a lookup finds the one entry of that name.  The  *)
(* invariant CInv then follows the argument from the command through the   *)
(* pcb to the buffer of the program.                                       *)
(***************************************************************************)
EXTENDS Commands, SequenceTheorems, WellFoundedInduction, TLAPS

\* A set of numbers that is not empty has a least one: every loop over a string
\* ends on it.
LEMMA Least ==
  ASSUME NEW S \in SUBSET Nat, S # {}
  PROVE  \E x \in S : \A y \in S : x <= y
<1> DEFINE R == OpToRel(<, Nat)
<1>1. IsWellFoundedOn(R, Nat)
  BY NatLessThanWellFounded
<1>2. \A m, n \in Nat : m < n => <<m, n>> \in R
  BY DEF OpToRel
<1> HIDE DEF R
<1>3. PICK x \in S : \A y \in S : ~ (<<y, x>> \in R)
  BY <1>1, WFMin
<1>4. ASSUME NEW y \in S PROVE x <= y
  <2>1. x \in Nat /\ y \in Nat
    BY <1>3
  <2>2. ~ (y < x)
    BY <1>2, <1>3, <2>1
  <2> QED BY <2>1, <2>2
<1> QED BY <1>3, <1>4

-----------------------------------------------------------------------------
(* Strings                                                                 *)

LEMMA Distinct ==
  /\ NUL # Space /\ NUL # Newline /\ NUL # Exit /\ Space # Newline
  /\ Space # Exit /\ Newline # Exit
  /\ NUL \notin Letters /\ Space \notin Letters /\ Newline \notin Letters
  BY CommandsAssumption DEF NUL, Space, Newline, Exit

LEMMA StringIsSeq ==
  ASSUME NEW C, NEW max \in Nat, NEW s
  PROVE  s \in Strings(C, max) <=> s \in Seq(C) /\ Len(s) <= max
<1>1. ASSUME s \in Strings(C, max) PROVE s \in Seq(C) /\ Len(s) <= max
  <2>1. PICK n \in 0..max : s \in [1..n -> C]
    BY <1>1 DEF Strings
  <2>2. s = [i \in 1..n |-> s[i]] /\ \A i \in 1..n : s[i] \in C
    BY <2>1
  <2> QED BY <2>1, <2>2
<1>2. ASSUME s \in Seq(C), Len(s) <= max PROVE s \in Strings(C, max)
  <2>1. Len(s) \in 0..max /\ s \in [1..Len(s) -> C]
    BY <1>2, LenProperties
  <2> QED BY <2>1 DEF Strings
<1> QED BY <1>1, <1>2

\* A piece of a string.
LEMMA Piece ==
  ASSUME NEW C, NEW s \in Seq(C), NEW m \in 0..Len(s), NEW n \in m..Len(s)
  PROVE  /\ SubSeq(s, m + 1, n) \in Seq(C) /\ Len(SubSeq(s, m + 1, n)) = n - m
         /\ \A i \in 1..(n - m) : SubSeq(s, m + 1, n)[i] = s[m + i]
<1>1. \A i \in (m + 1)..n : s[i] \in C
  BY ElementOfSeq
<1>2. m + 1 \in Int /\ n \in Int
  OBVIOUS
<1>3. /\ SubSeq(s, m + 1, n) \in Seq(C)
      /\ Len(SubSeq(s, m + 1, n)) = IF m + 1 <= n THEN n - (m + 1) + 1 ELSE 0
      /\ \A i \in 1..(n - (m + 1) + 1) : SubSeq(s, m + 1, n)[i] = s[(m + 1) + i - 1]
  BY <1>1, <1>2, SubSeqProperties
<1>4. n - (m + 1) + 1 = n - m /\ \A i \in 1..(n - m) : (m + 1) + i - 1 = m + i
  OBVIOUS
<1>5. m + 1 <= n \/ n - m = 0
  OBVIOUS
<1> QED BY <1>3, <1>4, <1>5

LEMMA UntilFinds ==
  ASSUME NEW C, NEW s \in Seq(C), NEW from \in 0..Len(s), NEW chars
  PROVE  LET u == Until(s, from, chars)
         IN  /\ u \in from..Len(s)
             /\ At(s, u) \in chars \cup {NUL}
             /\ \A k \in from..(u - 1) : At(s, k) \notin chars
<1> DEFINE S == {i \in from..Len(s) : At(s, i) \in chars \cup {NUL}}
<1>1. Len(s) \in S /\ S \in SUBSET Nat
  BY DEF At
<1>2. PICK u \in S : \A k \in S : u <= k
  BY <1>1, Least
<1>3. \A k \in from..(u - 1) : k \notin S /\ k \in from..Len(s)
  BY <1>2
<1>4. \A k \in from..(u - 1) : At(s, k) \notin chars
  BY <1>3
<1> QED BY <1>2, <1>4 DEF Until

LEMMA PastFinds ==
  ASSUME NEW C, NEW s \in Seq(C), NEW from \in 0..Len(s)
  PROVE  LET u == Past(s, from)
         IN  /\ u \in from..Len(s)
             /\ At(s, u) # Space
             /\ \A k \in from..(u - 1) : At(s, k) = Space
<1> DEFINE S == {i \in from..Len(s) : At(s, i) # Space}
<1>1. Len(s) \in S /\ S \in SUBSET Nat
  BY Distinct DEF At
<1>2. PICK u \in S : \A k \in S : u <= k
  BY <1>1, Least
<1>3. \A k \in from..(u - 1) : k \notin S /\ k \in from..Len(s)
  BY <1>2
<1>4. \A k \in from..(u - 1) : At(s, k) = Space
  BY <1>3
<1> QED BY <1>2, <1>4 DEF Past

-----------------------------------------------------------------------------
(* The command line                                                        *)

Chars == Letters \cup {Space, Newline}

\* c is cut at u, where its first word ends, at m, where the rest starts, and
\* at v, where the line ends.
Cut(c, u, m, v) ==
  /\ u \in 0..Len(c) /\ m \in u..Len(c) /\ v \in m..Len(c)
  /\ \A i \in 1..u : c[i] \notin {Space, Newline}
  /\ u < Len(c) => c[u + 1] \in {Space, Newline}
  /\ \A i \in (u + 1)..m : c[i] = Space
  /\ m < Len(c) => c[m + 1] # Space
  /\ \A i \in (m + 1)..v : c[i] # Newline
  /\ v < Len(c) => c[v + 1] = Newline

\* execute_handler cuts every command in this way.
LEMMA Parsed ==
  ASSUME NEW c \in Seq(Chars)
  PROVE  \E u, m, v \in 0..Len(c) :
           /\ Cut(c, u, m, v)
           /\ Program(c) = SubSeq(c, 1, u) /\ Argument(c) = SubSeq(c, m + 1, v)
<1> DEFINE u == Until(c, 0, {Space, Newline})
           m == Past(c, u)
           v == Until(c, m, {Newline})
<1>1. /\ u \in 0..Len(c) /\ At(c, u) \in {Space, Newline, NUL}
      /\ \A k \in 0..(u - 1) : At(c, k) \notin {Space, Newline}
  <2>1. 0 \in 0..Len(c)
    OBVIOUS
  <2> QED BY <2>1, UntilFinds
<1> HIDE DEF u
<1>2. /\ m \in u..Len(c) /\ At(c, m) # Space
      /\ \A k \in u..(m - 1) : At(c, k) = Space
  BY <1>1, PastFinds
<1> HIDE DEF m
<1>3. /\ v \in m..Len(c) /\ At(c, v) \in {Newline, NUL}
      /\ \A k \in m..(v - 1) : At(c, k) # Newline
  <2>1. m \in 0..Len(c)
    BY <1>1, <1>2
  <2> QED BY <2>1, UntilFinds
<1> HIDE DEF v
<1>4. \A i \in 1..Len(c) : At(c, i - 1) = c[i] /\ c[i] # NUL
  <2> SUFFICES ASSUME NEW i \in 1..Len(c) PROVE At(c, i - 1) = c[i] /\ c[i] # NUL
    OBVIOUS
  <2>1. i - 1 < Len(c) /\ (i - 1) + 1 = i
    OBVIOUS
  <2>2. c[i] \in Chars
    OBVIOUS
  <2> QED BY <2>1, <2>2, Distinct DEF At, Chars
<1>5. \A k \in 0..(Len(c) - 1) : At(c, k) = c[k + 1] /\ At(c, k) # NUL
  <2> SUFFICES ASSUME NEW k \in 0..(Len(c) - 1) PROVE At(c, k) = c[k + 1] /\ At(c, k) # NUL
    OBVIOUS
  <2>1. k + 1 \in 1..Len(c) /\ (k + 1) - 1 = k
    OBVIOUS
  <2> QED BY <1>4, <2>1
<1>6. Cut(c, u, m, v)
  <2>1. \A i \in 1..u : c[i] \notin {Space, Newline}
    <3>1. \A i \in 1..u : i \in 1..Len(c) /\ i - 1 \in 0..(u - 1)
      BY <1>1
    <3> QED BY <1>1, <1>4, <3>1
  <2>2. \A i \in (u + 1)..m : c[i] = Space
    <3>1. \A i \in (u + 1)..m : i \in 1..Len(c) /\ i - 1 \in u..(m - 1)
      BY <1>1, <1>2
    <3> QED BY <1>2, <1>4, <3>1
  <2>3. \A i \in (m + 1)..v : c[i] # Newline
    <3>1. \A i \in (m + 1)..v : i \in 1..Len(c) /\ i - 1 \in m..(v - 1)
      BY <1>1, <1>2, <1>3
    <3> QED BY <1>3, <1>4, <3>1
  <2>4. u < Len(c) => c[u + 1] \in {Space, Newline}
    <3>1. u < Len(c) => u \in 0..(Len(c) - 1)
      BY <1>1
    <3> QED BY <1>1, <1>5, <3>1
  <2>5. m < Len(c) => c[m + 1] # Space
    <3>1. m < Len(c) => m \in 0..(Len(c) - 1)
      BY <1>1, <1>2
    <3> QED BY <1>2, <1>5, <3>1
  <2>6. v < Len(c) => c[v + 1] = Newline
    <3>1. v < Len(c) => v \in 0..(Len(c) - 1)
      BY <1>1, <1>2, <1>3
    <3> QED BY <1>3, <1>5, <3>1
  <2> QED BY <1>1, <1>2, <1>3, <2>1, <2>2, <2>3, <2>4, <2>5, <2>6 DEF Cut
<1>7. Program(c) = SubSeq(c, 1, u) /\ Argument(c) = SubSeq(c, m + 1, v)
  BY DEF Program, Argument, u, m, v
<1>8. m \in 0..Len(c) /\ v \in 0..Len(c)
  BY <1>1, <1>2, <1>3
<1> QED BY <1>1, <1>6, <1>7, <1>8

\* The line ends at v.
LEMMA LineEnds ==
  ASSUME NEW c \in Seq(Chars), NEW u, NEW m, NEW v, Cut(c, u, m, v)
  PROVE  UpToNewline(c) = SubSeq(c, 1, v)
<1> DEFINE Good(l) == /\ \A i \in 1..Len(l) : l[i] # Newline
                      /\ l = c \/ c[Len(l) + 1] = Newline
           Prefixes == {SubSeq(c, 1, n) : n \in 0..Len(c)}
<1>1. u \in 0..Len(c) /\ m \in u..Len(c) /\ v \in m..Len(c)
  BY DEF Cut
<1>2. \A n \in 0..Len(c) :
        /\ SubSeq(c, 1, n) \in Seq(Chars) /\ Len(SubSeq(c, 1, n)) = n
        /\ \A i \in 1..n : SubSeq(c, 1, n)[i] = c[i]
  <2> SUFFICES ASSUME NEW n \in 0..Len(c)
               PROVE  /\ SubSeq(c, 1, n) \in Seq(Chars) /\ Len(SubSeq(c, 1, n)) = n
                      /\ \A i \in 1..n : SubSeq(c, 1, n)[i] = c[i]
    OBVIOUS
  <2>1. 0 \in 0..Len(c) /\ 0 + 1 = 1 /\ n - 0 = n /\ \A i \in 1..n : 0 + i = i
    OBVIOUS
  <2> QED BY <2>1, Piece
<1>3. \A i \in 1..v : c[i] # Newline
  <2> SUFFICES ASSUME NEW i \in 1..v PROVE c[i] # Newline
    OBVIOUS
  <2>1. i \in 1..u \/ i \in (u + 1)..m \/ i \in (m + 1)..v
    BY <1>1
  <2> QED BY <2>1, Distinct DEF Cut
<1>4. v \in 0..Len(c) /\ Good(SubSeq(c, 1, v)) /\ SubSeq(c, 1, v) \in Prefixes
  <2>1. v \in 0..Len(c)
    BY <1>1
  <2>2. CASE v = Len(c)
    BY <1>2, <1>3, <2>1, <2>2, SubSeqFull
  <2>3. CASE v < Len(c)
    BY <1>2, <1>3, <2>1, <2>3 DEF Cut
  <2> QED BY <1>1, <2>1, <2>2, <2>3
<1>5. ASSUME NEW l \in Prefixes, Good(l) PROVE l = SubSeq(c, 1, v)
  <2>1. PICK n \in 0..Len(c) : l = SubSeq(c, 1, n)
    OBVIOUS
  <2>2. Len(l) = n /\ \A i \in 1..n : l[i] = c[i]
    BY <1>2, <2>1
  <2>3. ~ (n < v)
    <3> SUFFICES ASSUME n < v PROVE FALSE
      OBVIOUS
    <3>1. n + 1 \in 1..v /\ n # Len(c)
      BY <1>1
    <3>2. l # c
      BY <2>2, <3>1
    <3>3. c[n + 1] = Newline
      BY <1>5, <2>2, <3>2
    <3> QED BY <1>3, <3>1, <3>3
  <2>4. ~ (v < n)
    <3> SUFFICES ASSUME v < n PROVE FALSE
      OBVIOUS
    <3>1. v + 1 \in 1..n /\ v < Len(c)
      BY <1>4
    <3>2. c[v + 1] = Newline
      BY <3>1 DEF Cut
    <3> QED BY <1>5, <2>2, <3>1, <3>2
  <2>5. n = v
    BY <1>4, <2>3, <2>4
  <2> QED BY <2>1, <2>5
<1>6. UpToNewline(c) = CHOOSE l \in Prefixes : Good(l)
  BY DEF UpToNewline
<1> HIDE DEF Good, Prefixes
<1> QED BY <1>4, <1>5, <1>6

\* The first word of a command, as HasWord describes it, is what execute_handler
\* cuts off.
LEMMA WordIs ==
  ASSUME NEW c \in Seq(Chars), NEW w \in Seq(Letters)
  PROVE  HasWord(c, w) <=> w = Program(c)
<1>1. PICK u, m, v \in 0..Len(c) : Cut(c, u, m, v) /\ Program(c) = SubSeq(c, 1, u)
  BY Parsed
<1> DEFINE l == SubSeq(c, 1, v)
           p == SubSeq(c, 1, u)
<1>2. u \in 0..Len(c) /\ m \in u..Len(c) /\ v \in m..Len(c) /\ UpToNewline(c) = l
  BY <1>1, LineEnds DEF Cut
<1>3. /\ l \in Seq(Chars) /\ Len(l) = v /\ \A i \in 1..v : l[i] = c[i]
      /\ p \in Seq(Chars) /\ Len(p) = u /\ \A i \in 1..u : p[i] = c[i]
  <2> SUFFICES ASSUME NEW n \in 0..Len(c)
               PROVE  /\ SubSeq(c, 1, n) \in Seq(Chars) /\ Len(SubSeq(c, 1, n)) = n
                      /\ \A i \in 1..n : SubSeq(c, 1, n)[i] = c[i]
    BY <1>2
  <2>1. 0 \in 0..Len(c) /\ 0 + 1 = 1 /\ n - 0 = n /\ \A i \in 1..n : 0 + i = i
    OBVIOUS
  <2> QED BY <2>1, Piece
<1>4. /\ \A i \in 1..u : i \in 1..v /\ c[i] \notin {Space, Newline}
      /\ u < v => c[u + 1] = Space /\ u + 1 \in 1..v
  <2>1. \A i \in 1..u : i \in 1..v
    BY <1>2
  <2>2. ASSUME u < v PROVE c[u + 1] = Space /\ u + 1 \in 1..v
    <3>1. u < Len(c) /\ u + 1 \in 1..v
      BY <1>2, <2>2
    <3>2. c[u + 1] \in {Space, Newline}
      BY <1>1, <3>1 DEF Cut
    <3>3. CASE m = u
      <4>1. u + 1 \in (m + 1)..v
        BY <1>2, <2>2, <3>3
      <4> QED BY <1>1, <3>1, <3>2, <4>1 DEF Cut
    <3>4. CASE m # u
      <4>1. u + 1 \in (u + 1)..m
        BY <1>2, <3>4
      <4> QED BY <1>1, <3>1, <4>1 DEF Cut
    <3> QED BY <3>3, <3>4
  <2> QED BY <1>1, <2>1, <2>2 DEF Cut
<1>5. HasWord(c, w) <=>
        /\ \A i \in 1..Len(w) : i <= v /\ l[i] = w[i] /\ l[i] # Space
        /\ v > Len(w) => l[Len(w) + 1] = Space
  BY <1>2, <1>3 DEF HasWord
<1> HIDE DEF l, p
<1>6. ASSUME w = p PROVE HasWord(c, w)
  BY <1>2, <1>3, <1>4, <1>5, <1>6
<1>7. ASSUME HasWord(c, w) PROVE w = p
  <2>1. Len(w) \in Nat /\ Len(w) <= v
    <3>1. Len(w) \in Nat /\ (Len(w) = 0 \/ Len(w) \in 1..Len(w))
      OBVIOUS
    <3> QED BY <1>2, <1>5, <1>7, <3>1
  <2>2. ~ (Len(w) < u)
    <3> SUFFICES ASSUME Len(w) < u PROVE FALSE
      OBVIOUS
    <3>1. Len(w) + 1 \in 1..u /\ v > Len(w)
      BY <1>2, <2>1
    <3> QED BY <1>3, <1>4, <1>5, <1>7, <3>1
  <2>3. ~ (u < Len(w))
    <3> SUFFICES ASSUME u < Len(w) PROVE FALSE
      OBVIOUS
    <3>1. u < v /\ u + 1 \in 1..Len(w) /\ u + 1 \in 1..v
      BY <1>2, <2>1
    <3> QED BY <1>3, <1>4, <1>5, <1>7, <3>1
  <2>4. Len(w) = u
    BY <1>2, <2>1, <2>2, <2>3
  <2>5. \A i \in 1..u : w[i] = p[i]
    BY <1>3, <1>4, <1>5, <1>7, <2>4
  <2>6. w \in Seq(Chars)
    BY DEF Chars
  <2> QED BY <1>3, <2>4, <2>5, <2>6, SeqEqual
<1>8. Program(c) = p
  BY <1>1 DEF p
<1> QED BY <1>6, <1>7, <1>8

\* What follows the spaces after the first word, as HasRest describes it, is the
\* argument that execute_handler keeps.
LEMMA RestIs ==
  ASSUME NEW c \in Seq(Chars), NEW r \in Seq(Chars)
  PROVE  HasRest(c, r) <=> r = Argument(c)
<1>1. PICK u, m, v \in 0..Len(c) : Cut(c, u, m, v) /\ Argument(c) = SubSeq(c, m + 1, v)
  BY Parsed
<1> DEFINE l == SubSeq(c, 1, v)
           Rest(k) == SubSeq(c, k + 1, v)
<1>2. u \in 0..Len(c) /\ m \in u..Len(c) /\ v \in m..Len(c) /\ UpToNewline(c) = l
  BY <1>1, LineEnds DEF Cut
<1>3. l \in Seq(Chars) /\ Len(l) = v /\ \A i \in 1..v : l[i] = c[i]
  <2>1. 0 \in 0..Len(c) /\ 0 + 1 = 1 /\ v - 0 = v /\ \A i \in 1..v : 0 + i = i
        /\ v \in 0..Len(c)
    BY <1>2
  <2> QED BY <2>1, Piece
<1>4. \A k \in 0..v : /\ Rest(k) \in Seq(Chars) /\ Len(Rest(k)) = v - k
                       /\ \A i \in 1..(v - k) : Rest(k)[i] = c[k + i]
                       /\ SubSeq(l, k + 1, v) = Rest(k)
  <2> SUFFICES ASSUME NEW k \in 0..v
               PROVE  /\ Rest(k) \in Seq(Chars) /\ Len(Rest(k)) = v - k
                      /\ \A i \in 1..(v - k) : Rest(k)[i] = c[k + i]
                      /\ SubSeq(l, k + 1, v) = Rest(k)
    OBVIOUS
  <2>1. k \in 0..Len(c) /\ v \in k..Len(c) /\ k \in 0..Len(l) /\ v \in k..Len(l)
    BY <1>2, <1>3
  <2> HIDE DEF l
  <2>2. /\ Rest(k) \in Seq(Chars) /\ Len(Rest(k)) = v - k
        /\ \A i \in 1..(v - k) : Rest(k)[i] = c[k + i]
    BY <2>1, Piece
  <2> DEFINE s == SubSeq(l, k + 1, v)
  <2>3. /\ s \in Seq(Chars) /\ Len(s) = v - k
        /\ \A i \in 1..(v - k) : s[i] = l[k + i]
    BY <1>3, <2>1, Piece
  <2> HIDE DEF s, Rest
  <2>4. \A i \in 1..(v - k) : s[i] = Rest(k)[i]
    <3>1. \A i \in 1..(v - k) : k + i \in 1..v
      BY <1>2
    <3> QED BY <1>3, <2>2, <2>3, <3>1
  <2>5. s = Rest(k)
    BY <2>2, <2>3, <2>4, SeqEqual
  <2> QED BY <2>2, <2>5 DEF s
<1>5. HasRest(c, r) <=>
        LET k == v - Len(r)
        IN  /\ k >= 0 /\ r = SubSeq(l, k + 1, v)
            /\ r # <<>> => r[1] # Space /\ k > 0 /\ l[k] = Space
            /\ \A i, j \in 1..k : i < j /\ l[i] = Space => l[j] = Space
  BY <1>2, <1>3 DEF HasRest
<1>6. ASSUME r = Rest(m) PROVE HasRest(c, r)
  <2>1. m \in 0..v /\ Len(r) = v - m /\ v - Len(r) = m
    BY <1>2, <1>4, <1>6
  <2>2. r = SubSeq(l, m + 1, v) /\ m >= 0
    BY <1>4, <1>6, <2>1
  <2>3. ASSUME r # <<>> PROVE r[1] # Space /\ m > 0 /\ l[m] = Space
    <3>1. v > m
      BY <2>1, <2>3
    <3>2. 1 \in 1..(v - m) /\ m < Len(c) /\ u \in Int
      BY <1>2, <3>1
    <3>3. r[1] = c[m + 1]
      BY <1>4, <1>6, <2>1, <3>2
    <3>4. r[1] # Space
      BY <1>1, <3>2, <3>3 DEF Cut
    <3>5. u < m
      <4> SUFFICES ASSUME u = m PROVE FALSE
        BY <1>2
      <4>1. m + 1 \in (m + 1)..v
        BY <1>2, <3>1
      <4> QED BY <1>1, <3>2, <3>3, <3>4, <4>1 DEF Cut
    <3>6. m \in (u + 1)..m /\ m \in 1..v
      BY <1>2, <3>5
    <3> QED BY <1>1, <1>3, <3>4, <3>6 DEF Cut
  <2>4. ASSUME NEW i \in 1..m, NEW j \in 1..m, i < j, l[i] = Space
        PROVE  l[j] = Space
    <3>1. i \in 1..v /\ j \in 1..v
      BY <1>2
    <3>2. ~ (i <= u)
      <4> SUFFICES ASSUME i <= u PROVE FALSE
        OBVIOUS
      <4>1. i \in 1..u
        OBVIOUS
      <4> QED BY <1>1, <1>3, <2>4, <3>1, <4>1 DEF Cut
    <3>3. j \in (u + 1)..m
      BY <1>2, <2>4, <3>2
    <3> QED BY <1>1, <1>3, <3>1, <3>3 DEF Cut
  <2> HIDE DEF l, Rest
  <2> QED BY <1>5, <2>1, <2>2, <2>3, <2>4
<1>7. ASSUME HasRest(c, r) PROVE r = Rest(m)
  <2> DEFINE k == v - Len(r)
  <2>1. k \in 0..v /\ Len(r) = v - k
    BY <1>2, <1>5, <1>7
  <2>2. /\ r = SubSeq(l, k + 1, v)
        /\ r # <<>> => r[1] # Space /\ k > 0 /\ l[k] = Space
        /\ \A i, j \in 1..k : i < j /\ l[i] = Space => l[j] = Space
    BY <1>5, <1>7
  <2> HIDE DEF k
  <2>3. ~ (k < m)
    <3> SUFFICES ASSUME k < m PROVE FALSE
      OBVIOUS
    <3>1. k < v /\ r # <<>> /\ 1 \in 1..(v - k) /\ k + 1 \in 1..m
      BY <1>2, <2>1
    <3>2. r[1] = c[k + 1] /\ c[k + 1] # Space /\ k > 0 /\ l[k] = Space /\ k \in 1..v
      BY <1>4, <2>1, <2>2, <3>1
    <3>3. c[k] = Space
      BY <1>3, <3>2
    <3>4. ~ (k <= u)
      <4> SUFFICES ASSUME k <= u PROVE FALSE
        OBVIOUS
      <4>1. k \in 1..u
        BY <3>2
      <4> QED BY <1>1, <3>3, <4>1 DEF Cut
    <3>5. k + 1 \in (u + 1)..m
      BY <1>2, <2>1, <3>1, <3>4
    <3> QED BY <1>1, <3>2, <3>5 DEF Cut
  <2>4. ~ (m < k)
    <3> SUFFICES ASSUME m < k PROVE FALSE
      OBVIOUS
    <3>1. m < Len(c) /\ m < v /\ m + 1 \in 1..k /\ m + 1 \in 1..v
      BY <1>2, <2>1
    <3>2. c[m + 1] # Space
      BY <1>1, <3>1 DEF Cut
    <3>3. u < m
      <4> SUFFICES ASSUME u = m PROVE FALSE
        BY <1>2
      <4>1. m + 1 \in (m + 1)..v
        BY <1>2, <3>1
      <4> QED BY <1>1, <3>1, <3>2, <4>1 DEF Cut
    <3>4. m \in (u + 1)..m /\ m \in 1..v /\ m \in 1..k
      BY <1>2, <2>1, <3>1, <3>3
    <3>5. l[m] = Space
      BY <1>1, <1>3, <3>4 DEF Cut
    <3>6. l[m + 1] = Space
      BY <2>2, <3>1, <3>4, <3>5
    <3> QED BY <1>3, <3>1, <3>2, <3>6
  <2>5. k = m
    BY <1>2, <2>1, <2>3, <2>4
  <2> QED BY <1>4, <2>1, <2>2, <2>5
<1>8. Argument(c) = Rest(m)
  BY <1>1
<1> HIDE DEF Rest
<1> QED BY <1>6, <1>7, <1>8

LEMMA PiecesOf ==
  ASSUME NEW c \in Seq(Chars)
  PROVE  /\ Program(c) \in Seq(Chars) /\ Len(Program(c)) <= Len(c)
         /\ \A i \in 1..Len(Program(c)) : Program(c)[i] \notin {Space, Newline}
         /\ Argument(c) \in Seq(Chars) /\ Len(Argument(c)) <= Len(c)
         /\ \A i \in 1..Len(Argument(c)) : Argument(c)[i] # Newline
         /\ \E n \in 1..(Len(c) + 1), k \in 0..Len(c) : Argument(c) = SubSeq(c, n, k)
<1>1. PICK u, m, v \in 0..Len(c) :
        /\ Cut(c, u, m, v)
        /\ Program(c) = SubSeq(c, 1, u) /\ Argument(c) = SubSeq(c, m + 1, v)
  BY Parsed
<1>2. u \in 0..Len(c) /\ m \in u..Len(c) /\ v \in m..Len(c)
  BY <1>1 DEF Cut
<1> DEFINE p == SubSeq(c, 1, u)
           a == SubSeq(c, m + 1, v)
<1>3. p \in Seq(Chars) /\ Len(p) = u /\ \A i \in 1..u : p[i] = c[i]
  <2>1. 0 \in 0..Len(c) /\ 0 + 1 = 1 /\ u - 0 = u /\ \A i \in 1..u : 0 + i = i
    BY <1>2
  <2> QED BY <1>2, <2>1, Piece
<1>4. a \in Seq(Chars) /\ Len(a) = v - m /\ \A i \in 1..(v - m) : a[i] = c[m + i]
  BY <1>2, Piece
<1>5. \A i \in 1..(v - m) : m + i \in (m + 1)..v
  BY <1>2
<1>6. m + 1 \in 1..(Len(c) + 1) /\ v \in 0..Len(c)
  BY <1>2
<1>7. /\ \A i \in 1..u : p[i] \notin {Space, Newline}
      /\ \A i \in 1..(v - m) : a[i] # Newline
  BY <1>1, <1>3, <1>4, <1>5 DEF Cut
<1>8. Program(c) = p /\ Argument(c) = a
  BY <1>1
<1>9. \E n \in 1..(Len(c) + 1), k \in 0..Len(c) : Argument(c) = SubSeq(c, n, k)
  BY <1>1, <1>6
<1> HIDE DEF p, a
<1>10. u <= Len(c) /\ v - m <= Len(c)
  BY <1>2
<1>11. Len(p) = u /\ Len(a) = v - m
  BY <1>3, <1>4
<1>12. /\ p \in Seq(Chars) /\ Len(p) <= Len(c)
       /\ \A i \in 1..Len(p) : p[i] \notin {Space, Newline}
       /\ a \in Seq(Chars) /\ Len(a) <= Len(c)
       /\ \A i \in 1..Len(a) : a[i] # Newline
  BY <1>3, <1>4, <1>7, <1>10, <1>11
<1> QED BY <1>8, <1>9, <1>12

-----------------------------------------------------------------------------
(* The directory                                                           *)

\* strncmp decides equality of strings that fit in NameLen bytes.
LEMMA Compares ==
  ASSUME NEW C, NUL \notin C, NEW s \in Seq(C), NEW t \in Seq(C),
         Len(s) <= NameLen, Len(t) <= NameLen
  PROVE  strncmp(s, t, NameLen) <=> s = t
<1>1. NameLen \in Nat /\ Len(s) \in Nat /\ Len(t) \in Nat
  BY CommandsAssumption
<1>2. ASSUME NEW q \in Seq(C)
      PROVE  /\ \A i \in 1..Len(q) : At(q, i - 1) = q[i] /\ q[i] # NUL
             /\ At(q, Len(q)) = NUL
  <2>1. \A i \in 1..Len(q) : i - 1 < Len(q) /\ (i - 1) + 1 = i /\ q[i] \in C
    OBVIOUS
  <2> QED BY <2>1 DEF At
<1>3. ASSUME strncmp(s, t, NameLen) PROVE s = t
  <2> DEFINE D == {i \in 0..(NameLen - 1) : At(s, i) # At(t, i) \/ At(s, i) = NUL}
             same(n) == \A i \in 1..n : i <= Len(s) /\ i <= Len(t) /\ s[i] = t[i]
  <2>1. ASSUME NEW n \in 0..NameLen, \A k \in 0..(n - 1) : k \notin D
        PROVE  same(n)
    <3> SUFFICES ASSUME NEW i \in 1..n
                 PROVE  i <= Len(s) /\ i <= Len(t) /\ s[i] = t[i]
      OBVIOUS
    <3>1. i - 1 \in 0..(n - 1) /\ i - 1 \in 0..(NameLen - 1)
      BY <1>1
    <3>2. At(s, i - 1) = At(t, i - 1) /\ At(s, i - 1) # NUL
      BY <2>1, <3>1
    <3>3. i <= Len(s) /\ i <= Len(t)
      BY <1>1, <3>2 DEF At
    <3> QED BY <1>2, <3>2, <3>3
  <2>2. CASE D = {}
    <3>1. same(NameLen)
      BY <1>1, <2>1, <2>2
    <3>2. Len(s) = NameLen /\ Len(t) = NameLen
      BY <1>1, <3>1, CommandsAssumption
    <3> QED BY <3>1, <3>2, SeqEqual
  <2>3. CASE D # {}
    <3>1. D \in SUBSET Nat
      OBVIOUS
    <3>2. PICK n \in D : \A k \in D : n <= k
      BY <2>3, <3>1, Least
    <3>3. n \in 0..(NameLen - 1) /\ n \in 0..NameLen
      BY <1>1
    <3>4. \A k \in 0..(n - 1) : k \notin D /\ k \in 0..(NameLen - 1)
      BY <1>1, <3>2, <3>3
    <3>5. \A k \in 0..(n - 1) : At(s, k) = At(t, k) /\ At(s, k) # NUL
      BY <3>4
    <3>6. At(s, n) = At(t, n)
      BY <1>3, <3>3, <3>5 DEF strncmp
    <3>7. At(s, n) = NUL /\ At(t, n) = NUL
      BY <3>2, <3>6
    <3>8. same(n)
      BY <2>1, <3>3, <3>4
    <3>9. Len(s) = n /\ Len(t) = n
      <4>1. ASSUME NEW q \in Seq(C), At(q, n) = NUL, n <= Len(q) PROVE Len(q) = n
        <5> SUFFICES ASSUME n < Len(q) PROVE FALSE
          BY <3>3, <4>1
        <5>1. n + 1 \in 1..Len(q) /\ (n + 1) - 1 = n
          BY <3>3
        <5> QED BY <1>2, <4>1, <5>1
      <4>2. n <= Len(s) /\ n <= Len(t)
        <5>1. n = 0 \/ n \in 1..n
          BY <3>3
        <5> QED BY <1>1, <3>8, <5>1
      <4> QED BY <3>7, <4>1, <4>2
    <3> QED BY <3>8, <3>9, SeqEqual
  <2> QED BY <2>2, <2>3
<1>4. ASSUME s = t PROVE strncmp(s, t, NameLen)
  BY <1>4 DEF strncmp
<1> QED BY <1>3, <1>4

LEMMA Names ==
  /\ 0 \notin DOMAIN Entries
  /\ \A k \in DOMAIN Entries :
       /\ Entries[k].name \in Seq(Letters) /\ Len(Entries[k].name) <= NameLen
       /\ Entries[k].kind \in Programs \cup {"text"}
  /\ \A i, k \in DOMAIN Entries : Entries[i].name = Entries[k].name => i = k
<1>1. /\ Entries \in Seq([name : Strings(Letters, NameLen), kind : Programs \cup {"text"}])
      /\ NameLen \in Nat
      /\ \A i, k \in DOMAIN Entries : Entries[i].name = Entries[k].name => i = k
  BY CommandsAssumption
<1>2. ASSUME NEW k \in DOMAIN Entries
      PROVE  /\ k # 0 /\ Entries[k].name \in Strings(Letters, NameLen)
             /\ Entries[k].kind \in Programs \cup {"text"}
  <2> DEFINE R == [name : Strings(Letters, NameLen), kind : Programs \cup {"text"}]
  <2>1. k \in 1..Len(Entries)
    BY <1>1
  <2>2. Entries \in Seq(R)
    BY <1>1
  <2> HIDE DEF R
  <2>3. Entries[k] \in R /\ k # 0
    BY <2>1, <2>2, ElementOfSeq
  <2> QED BY <2>3 DEF R
<1>3. 0 \notin DOMAIN Entries
  BY <1>2
<1> QED BY <1>1, <1>2, <1>3, StringIsSeq

\* A lookup finds the entry of that name and no other.
LEMMA Lookup ==
  ASSUME NEW f \in Seq(Chars), \A i \in 1..Len(f) : f[i] # Newline
  PROVE  /\ read_dentry_by_name(f) = 0 \/ read_dentry_by_name(f) \in DOMAIN Entries
         /\ \A k \in DOMAIN Entries : read_dentry_by_name(f) = k <=> f = Entries[k].name
<1> DEFINE fits == \E i \in 0..NameLen : At(f, i) \in {NUL, Newline}
           same == {i \in DOMAIN Entries : strncmp(f, Entries[i].name, NameLen)}
           d == read_dentry_by_name(f)
<1>1. NameLen \in Nat /\ Len(f) \in Nat /\ NUL \notin Chars
  BY CommandsAssumption, Distinct DEF Chars
<1>2. fits <=> Len(f) <= NameLen
  <2>1. ASSUME Len(f) <= NameLen PROVE fits
    <3>1. Len(f) \in 0..NameLen /\ At(f, Len(f)) = NUL
      BY <1>1, <2>1 DEF At
    <3> QED BY <3>1
  <2>2. ASSUME NEW i \in 0..NameLen, At(f, i) \in {NUL, Newline} PROVE Len(f) <= NameLen
    <3> SUFFICES ASSUME i < Len(f) PROVE FALSE
      BY <1>1
    <3>1. i + 1 \in 1..Len(f) /\ At(f, i) = f[i + 1]
      BY DEF At
    <3>2. f[i + 1] \in Chars
      BY <3>1
    <3> QED BY <1>1, <2>2, <3>1, <3>2
  <2> QED BY <2>1, <2>2
<1>3. d = IF fits /\ same # {} THEN CHOOSE i \in same : \A k \in same : i <= k ELSE 0
  BY DEF read_dentry_by_name
<1>4. CASE NameLen < Len(f)
  <2>1. d = 0
    BY <1>1, <1>2, <1>3, <1>4
  <2>2. \A k \in DOMAIN Entries : f # Entries[k].name
    BY <1>1, <1>4, Names
  <2> QED BY <2>1, <2>2, Names
<1>5. CASE Len(f) <= NameLen
  <2>1. \A k \in DOMAIN Entries : k \in same <=> f = Entries[k].name
    <3> SUFFICES ASSUME NEW k \in DOMAIN Entries
                 PROVE  strncmp(f, Entries[k].name, NameLen) <=> f = Entries[k].name
      OBVIOUS
    <3>1. Entries[k].name \in Seq(Chars) /\ Len(Entries[k].name) <= NameLen
      BY Names DEF Chars
    <3> QED BY <1>1, <1>5, <3>1, Compares
  <2>2. CASE same = {}
    <3>1. d = 0
      BY <1>3, <2>2
    <3> QED BY <2>1, <2>2, <3>1, Names
  <2>3. ASSUME NEW j \in same
        PROVE  d = j
    <3>1. \A k \in same : k = j
      BY <2>1, <2>3, Names
    <3>2. j <= j /\ same = {j}
      <4>1. j \in DOMAIN Entries /\ j \in Nat
        BY CommandsAssumption
      <4> QED BY <3>1, <4>1
    <3>3. fits
      BY <1>2, <1>5
    <3> HIDE DEF fits, same, d
    <3> QED BY <1>3, <3>2, <3>3
  <2>4. CASE same # {}
    <3>1. PICK j \in same : TRUE
      BY <2>4
    <3>2. d = j /\ j \in DOMAIN Entries
      BY <2>3, <3>1
    <3> QED BY <2>1, <2>3, <3>1, <3>2, Names
  <2> QED BY <2>2, <2>4
<1> QED BY <1>1, <1>4, <1>5

\* The bytes that getargs leaves in a buffer read as the argument, or as its first
\* n - 1 characters.
LEMMA TextIs ==
  ASSUME NEW a \in Seq(Chars), NEW n \in 1..BufLen, NEW bytes,
         \A i \in 0..(n - 2) : bytes[i] = At(a, i), bytes[n - 1] = NUL
  PROVE  Text(bytes, BufLen) = IF Len(a) < n THEN a ELSE SubSeq(a, 1, n - 1)
<1> DEFINE e == IF Len(a) < n THEN Len(a) ELSE n - 1
           Ends(x) == /\ x = BufLen \/ bytes[x] = NUL
                      /\ \A k \in 0..(x - 1) : bytes[k] # NUL
           end == CHOOSE x \in 0..BufLen : Ends(x)
<1>1. BufLen \in Nat /\ Len(a) \in Nat /\ n \in Nat
  BY CommandsAssumption
<1>2. e \in 0..BufLen /\ e <= Len(a) /\ e <= n - 1 /\ e # BufLen
  BY <1>1
<1>3. \A k \in 0..(e - 1) : /\ bytes[k] = a[k + 1] /\ bytes[k] # NUL
  <2> SUFFICES ASSUME NEW k \in 0..(e - 1)
               PROVE  bytes[k] = a[k + 1] /\ bytes[k] # NUL
    OBVIOUS
  <2>1. k \in 0..(n - 2) /\ k < Len(a) /\ k + 1 \in 1..Len(a)
    BY <1>1, <1>2
  <2>2. a[k + 1] \in Chars
    BY <2>1
  <2> QED BY <2>1, <2>2, Distinct DEF At, Chars
<1>4. bytes[e] = NUL
  <2>1. CASE e = n - 1
    BY <2>1
  <2>2. CASE e # n - 1
    <3>1. e = Len(a) /\ e \in 0..(n - 2)
      BY <1>1, <1>2, <2>2
    <3> QED BY <3>1 DEF At
  <2> QED BY <2>1, <2>2
<1> HIDE DEF e
<1>5. e \in 0..BufLen /\ Ends(e)
  BY <1>2, <1>3, <1>4
<1>6. ASSUME NEW x \in 0..BufLen, Ends(x) PROVE x = e
  <2>1. ~ (x < e)
    <3> SUFFICES ASSUME x < e PROVE FALSE
      OBVIOUS
    <3>1. x \in 0..(e - 1) /\ x # BufLen
      BY <1>2
    <3> QED BY <1>3, <1>6, <3>1
  <2>2. ~ (e < x)
    <3> SUFFICES ASSUME e < x PROVE FALSE
      OBVIOUS
    <3>1. e \in 0..(x - 1)
      BY <1>2
    <3> QED BY <1>4, <1>6, <3>1
  <2> QED BY <1>2, <2>1, <2>2
<1>7. end = e
  <2> HIDE DEF Ends
  <2> QED BY <1>5, <1>6
<1>8. Text(bytes, BufLen) = [i \in 1..end |-> bytes[i - 1]]
  BY DEF Text
<1> HIDE DEF end
<1> DEFINE s == SubSeq(a, 1, e)
<1>9. s \in Seq(Chars) /\ Len(s) = e /\ \A i \in 1..e : s[i] = a[i]
  <2>1. 0 \in 0..Len(a) /\ e \in 0..Len(a) /\ 0 + 1 = 1 /\ e - 0 = e
        /\ \A i \in 1..e : 0 + i = i
    BY <1>2
  <2> QED BY <2>1, Piece
<1> HIDE DEF s
<1>10. [i \in 1..e |-> bytes[i - 1]] = s
  <2>1. \A i \in 1..e : i - 1 \in 0..(e - 1) /\ (i - 1) + 1 = i
    BY <1>2
  <2>2. \A i \in 1..e : bytes[i - 1] = s[i]
    BY <1>3, <1>9, <2>1
  <2>3. s = [i \in 1..e |-> s[i]]
    BY <1>2, <1>9
  <2> QED BY <2>2, <2>3
<1>11. s = IF Len(a) < n THEN a ELSE SubSeq(a, 1, n - 1)
  BY SubSeqFull DEF s, e
<1> QED BY <1>7, <1>8, <1>10, <1>11

-----------------------------------------------------------------------------
(* The invariant                                                           *)

\* The field of the pcb in this slot holds the argument of this command.
Kept(slot, command) ==
  \A b \in 0..(ArgLen - 1) : execute_arg[slot][b] = At(Argument(command), b)

\* The program is the one its first word names.
Named(job) ==
  \E k \in DOMAIN Entries : /\ job.kind = Entries[k].kind /\ job.kind # "text"
                            /\ Entries[k].name = Program(job.command)

Lines == {c \in Seq(Chars) : Len(c) <= MaxLine}
JobSet == [slot : Slots, kind : Programs, command : Lines]

\* The pcbs in use are those of the stack, each in a slot of its own.
StackInv ==
  /\ jobs \in Seq(JobSet) /\ Len(jobs) > 0 /\ jobs[1].kind = "shell"
  /\ id_array = {jobs[i].slot : i \in 1..Len(jobs)}
  /\ \A i, k \in 1..Len(jobs) : jobs[i].slot = jobs[k].slot => i = k

\* Every pcb above the first shell keeps the argument of its own command, the
\* bytes a former process left in the slot are gone.
PcbInv ==
  /\ execute_arg \in [Slots -> [0..(ArgLen - 1) -> Chars \cup {NUL}]]
  /\ \A i \in 2..Len(jobs) : Named(jobs[i]) /\ Kept(jobs[i].slot, jobs[i].command)

\* What the last call of the running program gave.
ExecuteInv ==
  last.call = "execute" /\ last.ret = -1 =>
    /\ last.arg \in Lines
    /\ id_array = Slots
         \/ \A k \in DOMAIN Entries :
              Entries[k].kind = "text" \/ Entries[k].name # Program(last.arg)

GetargsInv ==
  last.call = "getargs" =>
    /\ Len(jobs) > 1 /\ last.arg \in (-1)..BufLen /\ last.ret \in {-1, 0}
    /\ Job.kind = "cat" => last.arg = BufLen
    /\ last.arg >= 0 => (last.ret = -1 <=> Argument(Job.command) = <<>>)
    /\ last.ret = 0 /\ last.arg > 0 =>
         /\ \A i \in 0..(last.arg - 2) : buf[i] = At(Argument(Job.command), i)
         /\ buf[last.arg - 1] = NUL

OpenInv ==
  last.call = "open" =>
    /\ Len(jobs) > 1
    /\ \A k \in DOMAIN Entries : last.ret = k <=> Entries[k].name = Argument(Job.command)

CInv == StackInv /\ PcbInv /\ DOMAIN buf = 0..(BufLen - 1)
          /\ ExecuteInv /\ GetargsInv /\ OpenInv

-----------------------------------------------------------------------------
(* What the invariant gives                                                *)

LEMMA RunningJob ==
  ASSUME StackInv
  PROVE  /\ Len(jobs) \in 1..Len(jobs) /\ Job \in JobSet /\ Job.slot \in Slots
         /\ Job.command \in Seq(Chars) /\ Len(Job.command) <= MaxLine
         /\ Job.kind \in Programs
         /\ Job.kind # "shell" => Len(jobs) \in 2..Len(jobs)
<1>1. Len(jobs) \in Nat /\ Len(jobs) \in 1..Len(jobs)
  BY DEF StackInv
<1>2. Job \in JobSet
  BY <1>1, ElementOfSeq DEF StackInv, Job
<1>3. Job.slot \in Slots /\ Job.command \in Lines /\ Job.kind \in Programs
  BY <1>2 DEF JobSet
<1>4. Job.kind # "shell" => Len(jobs) # 1
  BY DEF Job, StackInv
<1>5. Job.command \in Seq(Chars) /\ Len(Job.command) <= MaxLine
  BY <1>3 DEF Lines
<1>6. Job.kind # "shell" => Len(jobs) \in 2..Len(jobs)
  <2>1. \A n \in Nat : n \in 1..n /\ n # 1 => n \in 2..n
    OBVIOUS
  <2> QED BY <1>1, <1>4, <2>1
<1> QED BY <1>1, <1>2, <1>3, <1>5, <1>6

\* The invariant implies the three properties.
LEMMA NamesFollow ==
  ASSUME CInv PROVE ProgramsFollowNames
<1>1. ASSUME NEW i \in 2..Len(jobs)
      PROVE  \E k \in DOMAIN Entries :
               /\ jobs[i].kind = Entries[k].kind /\ Entries[k].kind # "text"
               /\ HasWord(jobs[i].command, Entries[k].name)
  <2>1. PICK k \in DOMAIN Entries : /\ jobs[i].kind = Entries[k].kind /\ jobs[i].kind # "text"
                                    /\ Entries[k].name = Program(jobs[i].command)
    BY DEF CInv, PcbInv, Named
  <2>2. jobs[i] \in JobSet
    <3>1. i \in 1..Len(jobs)
      BY DEF CInv, StackInv
    <3> QED BY <3>1, ElementOfSeq DEF CInv, StackInv
  <2>3. jobs[i].command \in Seq(Chars)
    BY <2>2 DEF JobSet, Lines
  <2>4. Entries[k].name \in Seq(Letters)
    BY Names
  <2>5. HasWord(jobs[i].command, Entries[k].name)
    BY <2>1, <2>3, <2>4, WordIs
  <2> QED BY <2>1, <2>5
<1>2. ASSUME last.call = "execute", last.ret = -1
      PROVE  \/ id_array = Slots
             \/ \A k \in DOMAIN Entries :
                  Entries[k].kind = "text" \/ ~HasWord(last.arg, Entries[k].name)
  <2>1. /\ last.arg \in Seq(Chars)
        /\ id_array = Slots
             \/ \A k \in DOMAIN Entries :
                  Entries[k].kind = "text" \/ Entries[k].name # Program(last.arg)
    BY <1>2 DEF CInv, ExecuteInv, Lines
  <2>2. \A k \in DOMAIN Entries :
          HasWord(last.arg, Entries[k].name) <=> Entries[k].name = Program(last.arg)
    BY <2>1, WordIs, Names
  <2> QED BY <2>1, <2>2
<1> QED BY <1>1, <1>2 DEF ProgramsFollowNames

LEMMA OwnArguments ==
  ASSUME CInv PROVE ArgumentsAreOwn
<1> SUFFICES ASSUME last.call = "getargs", last.arg >= 0
             PROVE  \E rest \in {SubSeq(Job.command, n, k) :
                                   n \in 1..(MaxLine + 1), k \in 0..Len(Job.command)} :
                      /\ HasRest(Job.command, rest)
                      /\ (last.ret = -1) <=> (rest = <<>>)
                      /\ last.ret = 0 /\ last.arg > 0 =>
                           Text(buf, BufLen) =
                             IF Len(rest) < last.arg THEN rest
                                                     ELSE SubSeq(rest, 1, last.arg - 1)
  BY DEF ArgumentsAreOwn
<1> DEFINE c == Job.command
           a == Argument(c)
<1>1. c \in Seq(Chars) /\ Len(c) <= MaxLine /\ Len(c) \in Nat /\ MaxLine \in Nat
  BY RunningJob, CommandsAssumption DEF CInv
<1>2. /\ last.arg \in (-1)..BufLen
      /\ last.ret = -1 <=> a = <<>>
      /\ last.ret = 0 /\ last.arg > 0 =>
           /\ \A i \in 0..(last.arg - 2) : buf[i] = At(a, i)
           /\ buf[last.arg - 1] = NUL
  BY DEF CInv, GetargsInv
<1> HIDE DEF c
<1>3. a \in Seq(Chars) /\ \E n \in 1..(Len(c) + 1), k \in 0..Len(c) : a = SubSeq(c, n, k)
  BY <1>1, PiecesOf
<1>4. a \in {SubSeq(c, n, k) : n \in 1..(MaxLine + 1), k \in 0..Len(c)}
  BY <1>1, <1>3
<1>5. HasRest(c, a)
  BY <1>1, <1>3, RestIs
<1> HIDE DEF a
<1>6. ASSUME last.ret = 0, last.arg > 0
      PROVE  Text(buf, BufLen) = IF Len(a) < last.arg THEN a ELSE SubSeq(a, 1, last.arg - 1)
  <2>1. BufLen \in Nat
    BY CommandsAssumption
  <2>2. last.arg \in 1..BufLen
    BY <1>2, <1>6, <2>1
  <2> QED BY <1>2, <1>3, <1>6, <2>2, TextIs
<1>7. /\ HasRest(c, a) /\ (last.ret = -1 <=> a = <<>>)
      /\ last.ret = 0 /\ last.arg > 0 =>
           Text(buf, BufLen) = IF Len(a) < last.arg THEN a ELSE SubSeq(a, 1, last.arg - 1)
  BY <1>2, <1>5, <1>6
<1> QED BY <1>4, <1>7 DEF c

LEMMA OpensNamed ==
  ASSUME CInv PROVE CatOpensNamedFile
<1> SUFFICES ASSUME last.call = "open", NEW k \in DOMAIN Entries
             PROVE  (last.ret = k) <=> HasRest(Job.command, Entries[k].name)
  BY DEF CatOpensNamedFile
<1>1. Job.command \in Seq(Chars)
  BY RunningJob DEF CInv
<1>2. last.ret = k <=> Entries[k].name = Argument(Job.command)
  BY DEF CInv, OpenInv
<1>3. Entries[k].name \in Seq(Chars)
  BY Names DEF Chars
<1> QED BY <1>1, <1>2, <1>3, RestIs
-----------------------------------------------------------------------------
(* The steps                                                               *)

LEMMA Unmoved ==
  ASSUME StackInv, PcbInv, UNCHANGED <<id_array, execute_arg, jobs>>
  PROVE  StackInv' /\ PcbInv'
  BY DEF StackInv, PcbInv, Named, Kept

LEMMA FreeSlotIs ==
  ASSUME StackInv, id_array # Slots
  PROVE  FreeSlot \in Slots /\ FreeSlot \notin id_array
<1>1. \A i \in 1..Len(jobs) : jobs[i].slot \in Slots
  <2> SUFFICES ASSUME NEW i \in 1..Len(jobs) PROVE jobs[i].slot \in Slots
    OBVIOUS
  <2>1. jobs[i] \in JobSet
    BY ElementOfSeq DEF StackInv
  <2> QED BY <2>1 DEF JobSet
<1>2. id_array \subseteq Slots
  BY <1>1 DEF StackInv
<1>3. Slots \ id_array \in SUBSET Nat /\ Slots \ id_array # {}
  <2>1. Slots \subseteq Nat
    BY CommandsAssumption DEF Slots
  <2>2. \E x \in Slots : x \notin id_array
    BY <1>2
  <2> QED BY <2>1, <2>2
<1>4. \E x \in Slots \ id_array : \A y \in Slots \ id_array : x <= y
  BY <1>3, Least
<1> QED BY <1>4 DEF FreeSlot

\* The bytes that are copied into the pcb are those of the argument.
LEMMA Copies ==
  ASSUME NEW slot, NEW c \in Lines
  PROVE  /\ ArgBytes(slot, Argument(c)) \in [0..(ArgLen - 1) -> Chars \cup {NUL}]
         /\ \A b \in 0..(ArgLen - 1) : ArgBytes(slot, Argument(c))[b] = At(Argument(c), b)
<1> DEFINE a == Argument(c)
<1>1. a \in Seq(Chars) /\ Len(a) \in Nat
  BY PiecesOf DEF Lines
<1> HIDE DEF a
<1>2. \A b \in 0..(ArgLen - 1) :
        /\ At(a, b) \in Chars \cup {NUL}
        /\ (IF b <= Len(a) THEN At(a, b) ELSE NUL) = At(a, b)
  <2> SUFFICES ASSUME NEW b \in 0..(ArgLen - 1)
               PROVE  /\ At(a, b) \in Chars \cup {NUL}
                      /\ (IF b <= Len(a) THEN At(a, b) ELSE NUL) = At(a, b)
    OBVIOUS
  <2>1. CASE b < Len(a)
    <3>1. b + 1 \in 1..Len(a) /\ b <= Len(a)
      BY <1>1, <2>1
    <3>2. a[b + 1] \in Chars
      BY <1>1, <3>1, ElementOfSeq
    <3> QED BY <2>1, <3>1, <3>2 DEF At
  <2>2. CASE ~ (b < Len(a))
    BY <2>2 DEF At
  <2> QED BY <2>1, <2>2
<1>3. ArgBytes(slot, a) = [b \in 0..(ArgLen - 1) |-> IF b <= Len(a) THEN At(a, b) ELSE NUL]
  BY DEF ArgBytes
<1>4. /\ ArgBytes(slot, a) \in [0..(ArgLen - 1) -> Chars \cup {NUL}]
      /\ \A b \in 0..(ArgLen - 1) : ArgBytes(slot, a)[b] = At(a, b)
  BY <1>2, <1>3
<1> QED BY <1>4 DEF a

LEMMA Executes ==
  ASSUME CInv, NEW c \in Lines, execute_handler(c), buf' = Blank
  PROVE  CInv'
<1> DEFINE p == Program(c)
           entry == read_dentry_by_name(p)
<1>1. StackInv /\ PcbInv /\ DOMAIN buf' = 0..(BufLen - 1)
  BY DEF CInv, Blank
<1>2. p \in Seq(Chars) /\ \A i \in 1..Len(p) : p[i] # Newline
  BY PiecesOf DEF Lines
<1> HIDE DEF p
<1>3. /\ entry = 0 \/ entry \in DOMAIN Entries
      /\ \A k \in DOMAIN Entries : entry = k <=> p = Entries[k].name
  BY <1>2, Lookup
<1>4. IF id_array = Slots \/ entry = 0 THEN ExecuteFails(c)
      ELSE IF Entries[entry].kind = "text" THEN ExecuteFails(c)
      ELSE ExecuteStarts(c, entry)
  BY DEF execute_handler, p
<1> HIDE DEF entry
<1>5. ASSUME ExecuteFails(c),
             id_array = Slots \/ entry = 0 \/ Entries[entry].kind = "text"
      PROVE  CInv'
  <2>1. last' = [call |-> "execute", arg |-> c, ret |-> -1]
        /\ UNCHANGED <<id_array, execute_arg, jobs>>
    BY <1>5 DEF ExecuteFails, Returned
  <2>2. id_array' = Slots
          \/ \A k \in DOMAIN Entries : Entries[k].kind = "text" \/ Entries[k].name # p
    BY <1>3, <1>5, <2>1, Names
  <2>3. StackInv' /\ PcbInv'
    BY <1>1, <2>1, Unmoved
  <2>4. last'.call = "execute" /\ last'.arg = c
    BY <2>1
  <2>5. ExecuteInv'
    BY <2>2, <2>4 DEF ExecuteInv, p, Slots
  <2> QED BY <1>1, <2>3, <2>4, <2>5 DEF CInv, GetargsInv, OpenInv
<1>6. ASSUME ExecuteStarts(c, entry), id_array # Slots, entry # 0, Entries[entry].kind # "text"
      PROVE  CInv'
  <2> DEFINE f == FreeSlot
             j == [slot |-> f, kind |-> Entries[entry].kind, command |-> c]
             n == Len(jobs)
  <2>1. /\ id_array' = id_array \cup {f}
        /\ execute_arg' = [execute_arg EXCEPT ![f] = ArgBytes(f, Argument(c))]
        /\ jobs' = Append(jobs, j)
        /\ last' = Nothing
    BY <1>6 DEF ExecuteStarts
  <2>2. f \in Slots /\ f \notin id_array
    BY <1>1, <1>6, FreeSlotIs
  <2> HIDE DEF f
  <2>3. /\ ArgBytes(f, Argument(c)) \in [0..(ArgLen - 1) -> Chars \cup {NUL}]
        /\ \A b \in 0..(ArgLen - 1) : ArgBytes(f, Argument(c))[b] = At(Argument(c), b)
    BY Copies
  <2>4. entry \in DOMAIN Entries /\ Entries[entry].kind \in Programs
    BY <1>3, <1>6, Names
  <2>5. j \in JobSet /\ j.slot = f /\ j.command = c /\ j.kind = Entries[entry].kind
    BY <2>2, <2>4 DEF JobSet
  <2> HIDE DEF j
  <2>6. jobs \in Seq(JobSet) /\ n \in Nat /\ n > 0
    BY <1>1 DEF StackInv
  <2>7. /\ jobs' \in Seq(JobSet) /\ Len(jobs') = n + 1
        /\ \A i \in 1..n : jobs'[i] = jobs[i]
        /\ jobs'[n + 1] = j
    BY <2>1, <2>5, <2>6, AppendProperties
  <2> HIDE DEF n
  <2>8. /\ 1 \in 1..n
        /\ \A i \in 1..(n + 1) : i \in 1..n \/ i = n + 1
        /\ \A i \in 2..(n + 1) : i \in 2..n \/ i = n + 1
        /\ \A i \in 2..n : i \in 1..n
        /\ n + 1 \in 1..(n + 1)
        /\ \A i \in 1..n : i \in 1..(n + 1)
    BY <2>6
  <2>9. \A i \in 1..n : jobs[i].slot # f /\ jobs[i].slot \in id_array
    BY <1>1, <2>2 DEF StackInv, n
  <2>10. StackInv'
    <3>1. id_array' = {jobs'[i].slot : i \in 1..(n + 1)}
      BY <1>1, <2>1, <2>5, <2>7, <2>8 DEF StackInv, n
    <3>2. \A i, k \in 1..(n + 1) : jobs'[i].slot = jobs'[k].slot => i = k
      <4>1. \A i, k \in 1..n : jobs[i].slot = jobs[k].slot => i = k
        BY <1>1 DEF StackInv, n
      <4> QED BY <2>5, <2>7, <2>8, <2>9, <4>1
    <3>3. Len(jobs') > 0 /\ jobs'[1].kind = "shell"
      BY <1>1, <2>6, <2>7, <2>8 DEF StackInv
    <3> QED BY <2>7, <3>1, <3>2, <3>3 DEF StackInv
  <2>11. /\ execute_arg' \in [Slots -> [0..(ArgLen - 1) -> Chars \cup {NUL}]]
         /\ execute_arg'[f] = ArgBytes(f, Argument(c))
         /\ \A s \in Slots : s # f => execute_arg'[s] = execute_arg[s]
    BY <1>1, <2>1, <2>2, <2>3 DEF PcbInv
  <2>12. ASSUME NEW i \in 2..(n + 1)
         PROVE  /\ Named(jobs'[i])
                /\ \A b \in 0..(ArgLen - 1) :
                     execute_arg'[jobs'[i].slot][b] = At(Argument(jobs'[i].command), b)
    <3>1. CASE i \in 2..n
      <4>1. i \in 1..n /\ jobs'[i] = jobs[i]
        BY <2>7, <2>8, <3>1
      <4>2. Named(jobs[i]) /\ Kept(jobs[i].slot, jobs[i].command)
        BY <1>1, <3>1 DEF PcbInv, n
      <4>3. jobs[i].slot \in Slots /\ jobs[i].slot # f
        <5>1. jobs[i] \in JobSet
          BY <2>6, <4>1, ElementOfSeq DEF n
        <5> QED BY <2>9, <4>1, <5>1 DEF JobSet
      <4>4. execute_arg'[jobs[i].slot] = execute_arg[jobs[i].slot]
        BY <2>11, <4>3
      <4> QED BY <4>1, <4>2, <4>4 DEF Kept
    <3>2. CASE i = n + 1
      <4>1. jobs'[i] = j
        BY <2>7, <3>2
      <4>2. Named(j)
        BY <1>3, <1>6, <2>4, <2>5 DEF Named, p
      <4> QED BY <2>3, <2>5, <2>11, <4>1, <4>2 DEF Kept
    <3> QED BY <2>8, <3>1, <3>2
  <2>13. PcbInv'
    BY <2>7, <2>11, <2>12 DEF PcbInv, Named, Kept, Slots
  <2>14. last'.call = "none"
    BY <2>1 DEF Nothing
  <2> QED BY <1>1, <2>10, <2>13, <2>14 DEF CInv, ExecuteInv, GetargsInv, OpenInv
<1> QED BY <1>4, <1>5, <1>6
LEMMA Halts ==
  ASSUME CInv, halt_handler, buf' = Blank
  PROVE  CInv'
<1>1. StackInv /\ PcbInv /\ DOMAIN buf' = 0..(BufLen - 1)
  BY DEF CInv, Blank
<1>2. CASE Len(jobs) = 1
  <2>1. last' = Nothing /\ UNCHANGED <<id_array, execute_arg, jobs>>
    BY <1>2 DEF halt_handler
  <2>2. StackInv' /\ PcbInv'
    BY <1>1, <2>1, Unmoved
  <2>3. last'.call = "none"
    BY <2>1 DEF Nothing
  <2> QED BY <1>1, <2>2, <2>3 DEF CInv, ExecuteInv, GetargsInv, OpenInv
<1>3. CASE Len(jobs) # 1
  <2> DEFINE n == Len(jobs) - 1
             f == Job.slot
  <2>1. /\ id_array' = id_array \ {f} /\ jobs' = SubSeq(jobs, 1, n)
        /\ execute_arg' = execute_arg
        /\ last' = [call |-> "execute", arg |-> Job.command, ret |-> 0]
    BY <1>3 DEF halt_handler, Returned
  <2>2. jobs \in Seq(JobSet) /\ Len(jobs) \in Nat /\ Len(jobs) > 0
    BY <1>1 DEF StackInv
  <2>3. n \in Nat /\ n > 0 /\ Len(jobs) = n + 1
    <3>1. \A k \in Nat : k > 0 /\ k # 1 => k - 1 \in Nat /\ k - 1 > 0 /\ k = (k - 1) + 1
      OBVIOUS
    <3> QED BY <1>3, <2>2, <3>1
  <2> HIDE DEF n
  <2>4. /\ jobs' \in Seq(JobSet) /\ Len(jobs') = n
        /\ \A i \in 1..n : jobs'[i] = jobs[i]
    <3>1. 0 \in 0..Len(jobs) /\ n \in 0..Len(jobs) /\ 0 + 1 = 1 /\ n - 0 = n
          /\ \A i \in 1..n : 0 + i = i
      BY <2>3
    <3> QED BY <2>1, <2>2, <3>1, Piece
  <2>5. /\ 1 \in 1..n
        /\ \A i \in 1..(n + 1) : i \in 1..n \/ i = n + 1
        /\ \A i \in 2..n : i \in 1..n /\ i \in 2..(n + 1)
        /\ \A i \in 1..n : i \in 1..(n + 1) /\ i # n + 1
        /\ n + 1 \in 1..(n + 1)
    BY <2>3
  <2>6. f = jobs[n + 1].slot
    BY <2>3 DEF Job
  <2> HIDE DEF f
  <2>7. /\ \A i, k \in 1..(n + 1) : jobs[i].slot = jobs[k].slot => i = k
        /\ id_array = {jobs[i].slot : i \in 1..(n + 1)}
    BY <1>1, <2>3 DEF StackInv
  <2>8. \A i \in 1..n : jobs[i].slot # f
    BY <2>5, <2>6, <2>7
  <2>9. id_array' = {jobs'[i].slot : i \in 1..n}
    BY <2>1, <2>4, <2>5, <2>6, <2>7, <2>8
  <2>10. \A i, k \in 1..n : jobs'[i].slot = jobs'[k].slot => i = k
    BY <2>4, <2>5, <2>7
  <2>11. StackInv'
    <3>1. jobs'[1].kind = "shell"
      BY <1>1, <2>4, <2>5 DEF StackInv
    <3> QED BY <2>3, <2>4, <2>9, <2>10, <3>1 DEF StackInv
  <2>12. PcbInv'
    <3>1. \A i \in 2..n : Named(jobs[i]) /\ Kept(jobs[i].slot, jobs[i].command)
      BY <1>1, <2>3, <2>5 DEF PcbInv
    <3>2. \A i \in 2..n : jobs'[i] = jobs[i]
      BY <2>4, <2>5
    <3> QED BY <1>1, <2>1, <2>4, <3>1, <3>2 DEF PcbInv, Named, Kept, Slots
  <2>13. last'.call = "execute" /\ last'.ret = 0
    BY <2>1
  <2> QED BY <1>1, <2>11, <2>12, <2>13 DEF CInv, ExecuteInv, GetargsInv, OpenInv
<1> QED BY <1>2, <1>3

\* The bytes that getargs copies are those of the argument.
LEMMA Getargs ==
  ASSUME CInv, Job.kind # "shell", NEW n \in (-1)..BufLen,
         Job.kind = "cat" => n = BufLen, getargs_handler(n)
  PROVE  CInv'
<1> DEFINE a == Argument(Job.command)
           arg == execute_arg[Job.slot]
<1>1. StackInv /\ PcbInv /\ DOMAIN buf = 0..(BufLen - 1)
  BY DEF CInv
<1>2. BufLen \in Nat /\ ArgLen \in Nat /\ ArgLen > MaxLine /\ MaxLine \in Nat /\ n \in Int
  BY CommandsAssumption
<1>3. Len(jobs) \in 2..Len(jobs) /\ a \in Seq(Chars) /\ Len(a) <= MaxLine /\ Len(a) \in Nat
  <2>1. Job.command \in Seq(Chars) /\ Len(Job.command) <= MaxLine
        /\ Len(Job.command) \in Nat /\ Len(jobs) \in 2..Len(jobs)
    BY <1>1, RunningJob
  <2>2. a \in Seq(Chars) /\ Len(a) <= Len(Job.command) /\ Len(a) \in Nat
    BY <2>1, PiecesOf
  <2> HIDE DEF a
  <2> QED BY <1>2, <2>1, <2>2
<1>4. \A b \in 0..(ArgLen - 1) : arg[b] = At(a, b)
  <2>1. Kept(jobs[Len(jobs)].slot, jobs[Len(jobs)].command)
    BY <1>1, <1>3 DEF PcbInv
  <2> QED BY <2>1 DEF Kept, Job
<1>5. /\ UNCHANGED <<id_array, execute_arg, jobs>>
      /\ IF arg[0] = NUL \/ n < 0
           THEN last' = [call |-> "getargs", arg |-> n, ret |-> -1] /\ buf' = buf
           ELSE last' = [call |-> "getargs", arg |-> n, ret |-> 0] /\ buf' = Copied(n)
  BY DEF getargs_handler, Returned
<1>6. StackInv' /\ PcbInv'
  BY <1>1, <1>5, Unmoved
<1>7. last'.call = "getargs" /\ last'.arg = n /\ last'.ret \in {-1, 0}
      /\ Job' = Job /\ Len(jobs') > 1
  <2>1. Len(jobs) > 1
    BY <1>3
  <2> QED BY <1>5, <2>1 DEF Job
<1>8. DOMAIN buf' = 0..(BufLen - 1)
  BY <1>1, <1>5 DEF Copied
<1> HIDE DEF a
<1>9. arg[0] = NUL <=> a = <<>>
  <2>1. 0 \in 0..(ArgLen - 1)
    BY <1>2
  <2>2. arg[0] = At(a, 0)
    BY <1>4, <2>1
  <2>3. CASE a = <<>>
    BY <2>2, <2>3 DEF At
  <2>4. CASE a # <<>>
    <3>1. Len(a) > 0 /\ 1 \in 1..Len(a)
      BY <1>3, <2>4, EmptySeq
    <3>2. a[1] \in Chars
      BY <1>3, <3>1, ElementOfSeq
    <3>3. a[1] # NUL
      BY <3>2, Distinct DEF Chars
    <3> QED BY <2>2, <2>4, <3>1, <3>3 DEF At
  <2> QED BY <2>3, <2>4
<1>10. n >= 0 => (last'.ret = -1 <=> a = <<>>)
  BY <1>2, <1>5, <1>9
<1>11. ASSUME last'.ret = 0, n > 0
       PROVE  /\ \A i \in 0..(n - 2) : buf'[i] = At(a, i)
              /\ buf'[n - 1] = NUL
  <2>1. buf' = Copied(n)
    BY <1>5, <1>11
  <2>2. n - 1 \in DOMAIN buf /\ \A i \in 0..(n - 2) : i \in DOMAIN buf
    BY <1>1, <1>2, <1>11
  <2>3. buf'[n - 1] = NUL
    BY <1>2, <2>1, <2>2 DEF Copied
  <2>4. ASSUME NEW i \in 0..(n - 2) PROVE buf'[i] = At(a, i)
    <3>1. buf'[i] = IF i < ArgLen THEN arg[i] ELSE NUL
      <4>1. i < n - 1
        BY <1>2
      <4> QED BY <2>1, <2>2, <4>1 DEF Copied
    <3>2. CASE i < ArgLen
      <4>1. i \in 0..(ArgLen - 1)
        BY <1>2, <3>2
      <4> QED BY <1>4, <3>1, <3>2, <4>1
    <3>3. CASE ~ (i < ArgLen)
      <4>1. ~ (i < Len(a))
        BY <1>2, <1>3, <3>3
      <4> QED BY <3>1, <3>3, <4>1 DEF At
    <3> QED BY <3>2, <3>3
  <2> QED BY <2>3, <2>4
<1>12. GetargsInv'
  <2>1. Argument(Job'.command) = a
    BY <1>7 DEF a
  <2> QED BY <1>7, <1>10, <1>11, <2>1 DEF GetargsInv
<1> QED BY <1>6, <1>7, <1>8, <1>12 DEF CInv, ExecuteInv, OpenInv

\* A name is shorter than the buffer of cat: when the argument was cut, it was
\* not a name, and what is left of it is none either.
LEMMA Opens ==
  ASSUME CInv, Job.kind = "cat", last.call = "getargs", last.ret = 0,
         open(Text(buf, BufLen))
  PROVE  CInv'
<1> DEFINE a == Argument(Job.command)
           t == Text(buf, BufLen)
<1>1. StackInv /\ PcbInv /\ DOMAIN buf = 0..(BufLen - 1) /\ GetargsInv
  BY DEF CInv
<1>2. BufLen \in Nat /\ NameLen \in Nat /\ BufLen > NameLen + 1
  BY CommandsAssumption
<1>3. /\ UNCHANGED <<id_array, execute_arg, jobs, buf>>
      /\ last' = [call |-> "open", arg |-> t, ret |-> read_dentry_by_name(t)]
  BY DEF open, Returned
<1>4. /\ a \in Seq(Chars) /\ Len(a) \in Nat /\ \A i \in 1..Len(a) : a[i] # Newline
      /\ Len(jobs) > 1
  <2>1. Job.command \in Seq(Chars)
    BY <1>1, RunningJob
  <2> QED BY <1>1, <2>1, PiecesOf DEF GetargsInv
<1>5. (\A i \in 0..(BufLen - 2) : buf[i] = At(a, i)) /\ buf[BufLen - 1] = NUL
  <2>1. last.arg = BufLen /\ BufLen > 0
    BY <1>1, <1>2 DEF GetargsInv
  <2> QED BY <1>1, <2>1 DEF GetargsInv
<1> HIDE DEF a
<1>6. t = IF Len(a) < BufLen THEN a ELSE SubSeq(a, 1, BufLen - 1)
  <2>1. BufLen \in 1..BufLen
    BY <1>2
  <2> QED BY <1>4, <1>5, <2>1, TextIs
<1> HIDE DEF t
<1>7. /\ t \in Seq(Chars) /\ \A i \in 1..Len(t) : t[i] # Newline
      /\ \A k \in DOMAIN Entries : t = Entries[k].name <=> Entries[k].name = a
  <2>1. CASE Len(a) < BufLen
    BY <1>4, <1>6, <2>1
  <2>2. CASE ~ (Len(a) < BufLen)
    <3>1. t = SubSeq(a, 1, BufLen - 1)
      BY <1>6, <2>2
    <3>2. t \in Seq(Chars) /\ Len(t) = BufLen - 1
          /\ \A i \in 1..(BufLen - 1) : t[i] = a[i] /\ i \in 1..Len(a)
      <4>1. 0 \in 0..Len(a) /\ BufLen - 1 \in 0..Len(a) /\ 0 + 1 = 1
            /\ (BufLen - 1) - 0 = BufLen - 1
            /\ \A i \in 1..(BufLen - 1) : 0 + i = i /\ i \in 1..Len(a)
        BY <1>2, <1>4, <2>2
      <4> QED BY <1>4, <3>1, <4>1, Piece
    <3>3. \A k \in DOMAIN Entries : Len(Entries[k].name) <= NameLen
                                    /\ Len(Entries[k].name) \in Nat
      BY Names
    <3>4. Len(t) > NameLen /\ Len(a) > NameLen
      BY <1>2, <1>4, <2>2, <3>2
    <3>5. \A k \in DOMAIN Entries : t # Entries[k].name /\ a # Entries[k].name
      BY <1>2, <3>3, <3>4
    <3> QED BY <1>4, <3>2, <3>5
  <2> QED BY <2>1, <2>2
<1>8. \A k \in DOMAIN Entries : read_dentry_by_name(t) = k <=> t = Entries[k].name
  BY <1>7, Lookup
<1>9. last'.call = "open" /\ last'.ret = read_dentry_by_name(t) /\ Job' = Job
      /\ Len(jobs') > 1
  BY <1>3, <1>4 DEF Job
<1>10. OpenInv'
  BY <1>7, <1>8, <1>9, Names DEF OpenInv, a
<1>11. StackInv' /\ PcbInv'
  BY <1>1, <1>3, Unmoved
<1> QED BY <1>1, <1>3, <1>9, <1>10, <1>11 DEF CInv, ExecuteInv, GetargsInv
\* The shell reads an empty line.
LEMMA Idles ==
  ASSUME CInv, UNCHANGED <<id_array, execute_arg, jobs>>, last' = Nothing, buf' = Blank
  PROVE  CInv'
<1>1. StackInv' /\ PcbInv'
  BY Unmoved DEF CInv
<1>2. last'.call = "none" /\ DOMAIN buf' = 0..(BufLen - 1)
  BY DEF Nothing, Blank
<1> QED BY <1>1, <1>2 DEF CInv, ExecuteInv, GetargsInv, OpenInv

\* Everything that is executed is a line that fits.
LEMMA LinesFit ==
  /\ \A c \in Typed : c # <<Exit>> => c \in Lines
  /\ \A c \in Passed : c \in Lines
<1>1. MaxLine \in Nat /\ MaxPassed \in Nat /\ MaxPassed - 2 \in Nat /\ MaxPassed <= MaxLine
  BY CommandsAssumption
<1>2. ASSUME NEW n \in Nat, n <= MaxLine, NEW c \in Strings(Letters \cup {Space}, n)
      PROVE  c \in Lines
  <2>1. c \in Seq(Letters \cup {Space}) /\ Len(c) \in Nat /\ Len(c) <= MaxLine
    <3>1. c \in Seq(Letters \cup {Space}) /\ Len(c) <= n
      BY <1>2, StringIsSeq
    <3> QED BY <1>1, <1>2, <3>1
  <2>2. c \in Seq(Chars)
    BY <2>1 DEF Chars
  <2> QED BY <2>1, <2>2 DEF Lines
<1>3. ASSUME NEW s \in Strings(Letters \cup {Space}, MaxPassed - 2),
             NEW t \in Strings(Letters, 1)
      PROVE  s \o <<Newline>> \o t \in Lines
  <2>1. s \in Seq(Letters \cup {Space}) /\ Len(s) <= MaxPassed - 2
    BY <1>1, StringIsSeq
  <2>2. t \in Seq(Letters) /\ Len(t) <= 1
    BY StringIsSeq
  <2>3. s \in Seq(Chars) /\ t \in Seq(Chars) /\ <<Newline>> \in Seq(Chars)
        /\ Len(<<Newline>>) = 1
    BY <2>1, <2>2 DEF Chars
  <2>4. s \o <<Newline>> \in Seq(Chars) /\ Len(s \o <<Newline>>) = Len(s) + 1
    BY <2>3, ConcatProperties
  <2>5. s \o <<Newline>> \o t \in Seq(Chars)
        /\ Len(s \o <<Newline>> \o t) = (Len(s) + 1) + Len(t)
    BY <2>3, <2>4, ConcatProperties
  <2>6. Len(s) \in Nat /\ Len(t) \in Nat
    BY <2>3
  <2>7. Len(s \o <<Newline>> \o t) <= MaxLine
    BY <1>1, <2>1, <2>2, <2>5, <2>6
  <2> QED BY <2>5, <2>7 DEF Lines
<1> DEFINE A == Strings(Letters \cup {Space}, MaxPassed)
           B == Strings(Letters \cup {Space}, MaxPassed - 2)
           C == Strings(Letters, 1)
           Join(s, t) == s \o <<Newline>> \o t
<1>4. Passed = A \cup {Join(s, t) : s \in B, t \in C}
  BY DEF Passed
<1>5. ASSUME NEW c \in Passed PROVE c \in Lines
  <2>1. \A s \in B, t \in C : Join(s, t) \in Lines
    BY <1>3
  <2>2. \A s \in A : s \in Lines
    BY <1>1, <1>2
  <2> HIDE DEF A, B, C, Join
  <2> QED BY <1>4, <2>1, <2>2
<1>6. \A c \in Strings(Letters \cup {Space}, MaxLine) : c \in Lines
  BY <1>1, <1>2
<1> HIDE DEF A, B, C, Join
<1> QED BY <1>5, <1>6 DEF Typed

-----------------------------------------------------------------------------
(* The theorems                                                            *)

LEMMA InitCInv == Init => CInv
<1> SUFFICES ASSUME Init PROVE CInv
  OBVIOUS
<1> DEFINE j == [slot |-> 0, kind |-> "shell", command |-> <<>>]
<1>1. PICK g \in Garbage : execute_arg = [s \in Slots |-> [i \in 0..(ArgLen - 1) |-> g]]
  BY DEF Init
<1>2. id_array = {0} /\ jobs = <<j>> /\ buf = Blank /\ last = Nothing
  BY DEF Init
<1>3. j \in JobSet /\ j.slot = 0 /\ j.kind = "shell"
  <2>1. 0 \in Slots /\ "shell" \in Programs
    BY CommandsAssumption DEF Slots, Programs
  <2>2. <<>> \in Lines
    BY CommandsAssumption DEF Lines
  <2> QED BY <2>1, <2>2 DEF JobSet
<1> HIDE DEF j
<1>4. jobs \in Seq(JobSet) /\ Len(jobs) = 1 /\ jobs[1] = j
  BY <1>2, <1>3
<1>5. 1..Len(jobs) = {1}
  BY <1>4
<1>6. StackInv
  <2>1. id_array = {jobs[i].slot : i \in {1}}
    BY <1>2, <1>3, <1>4
  <2> QED BY <1>3, <1>4, <1>5, <2>1 DEF StackInv
<1>7. PcbInv
  <2>1. 2..Len(jobs) = {}
    BY <1>4
  <2>2. g \in Chars \cup {NUL}
    BY CommandsAssumption DEF Chars
  <2> QED BY <1>1, <2>1, <2>2 DEF PcbInv
<1>8. last.call = "none" /\ DOMAIN buf = 0..(BufLen - 1)
  BY <1>2 DEF Nothing, Blank
<1> QED BY <1>6, <1>7, <1>8 DEF CInv, ExecuteInv, GetargsInv, OpenInv

LEMMA NextCInv == CInv /\ [Next]_vars => CInv'
<1> SUFFICES ASSUME CInv, [Next]_vars PROVE CInv'
  OBVIOUS
<1>1. ASSUME ShellLine PROVE CInv'
  <2>1. PICK line \in Typed :
          IF line = <<Exit>> THEN halt_handler
          ELSE IF line = <<>> THEN last' = Nothing /\ UNCHANGED <<id_array, execute_arg, jobs>>
          ELSE execute_handler(line)
    BY <1>1 DEF ShellLine
  <2>2. buf' = Blank
    BY <1>1 DEF ShellLine
  <2>3. CASE line = <<Exit>>
    BY <2>1, <2>2, <2>3, Halts
  <2>4. CASE line # <<Exit>> /\ line = <<>>
    BY <2>1, <2>2, <2>4, Idles
  <2>5. CASE line # <<Exit>> /\ line # <<>>
    <3>1. line \in Lines /\ execute_handler(line)
      BY <2>1, <2>5, LinesFit
    <3> QED BY <2>2, <3>1, Executes
  <2> QED BY <2>3, <2>4, <2>5
<1>2. ASSUME CatArgs PROVE CInv'
  <2>1. BufLen \in (-1)..BufLen
    BY CommandsAssumption
  <2> QED BY <1>2, <2>1, Getargs DEF CatArgs
<1>3. ASSUME CatOpen PROVE CInv'
  BY <1>3, Opens DEF CatOpen
<1>4. ASSUME CatEnds PROVE CInv'
  BY <1>4, Halts DEF CatEnds
<1>5. ASSUME AnyCall PROVE CInv'
  <2>1. Job.kind = "any"
    BY <1>5 DEF AnyCall
  <2>2. CASE buf' = Blank /\ \E command \in Passed : execute_handler(command)
    BY <2>2, LinesFit, Executes
  <2>3. CASE \E nbytes \in (-1)..BufLen : getargs_handler(nbytes)
    BY <2>1, <2>3, Getargs
  <2>4. CASE halt_handler /\ buf' = Blank
    BY <2>4, Halts
  <2> QED BY <1>5, <2>2, <2>3, <2>4 DEF AnyCall
<1>6. ASSUME UNCHANGED vars PROVE CInv'
  <2>1. UNCHANGED <<id_array, execute_arg, jobs>> /\ buf' = buf /\ last' = last
    BY <1>6 DEF vars
  <2>2. StackInv' /\ PcbInv'
    BY <2>1, Unmoved DEF CInv
  <2>3. ExecuteInv'
    BY <2>1 DEF CInv, ExecuteInv
  <2>4. GetargsInv'
    BY <2>1 DEF CInv, GetargsInv, Job
  <2>5. OpenInv'
    BY <2>1 DEF CInv, OpenInv, Job
  <2> QED BY <2>1, <2>2, <2>3, <2>4, <2>5 DEF CInv
<1> QED BY <1>1, <1>2, <1>3, <1>4, <1>5, <1>6 DEF Next

THEOREM Invariance == Spec => []CInv
  BY InitCInv, NextCInv, PTL DEF Spec

\* Every program above the first shell is the one its first word names in full,
\* and execute fails only when no program has that name or no slot is left.
THEOREM NamesAreFollowed == Spec => []ProgramsFollowNames
<1>1. CInv => ProgramsFollowNames
  BY NamesFollow
<1> QED BY <1>1, Invariance, PTL

\* getargs hands out the rest of the program's own command line, whatever ran in
\* its slot before, cut to the size it gave, and fails only when there is none.
THEOREM ArgumentsStayOwn == Spec => []ArgumentsAreOwn
<1>1. CInv => ArgumentsAreOwn
  BY OwnArguments
<1> QED BY <1>1, Invariance, PTL

\* cat opens the file its command line names, and no other when there is none.
THEOREM CatOpensItsFile == Spec => []CatOpensNamedFile
<1>1. CInv => CatOpensNamedFile
  BY OpensNamed
<1> QED BY <1>1, Invariance, PTL
=============================================================================
