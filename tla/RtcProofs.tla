----------------------------- MODULE RtcProofs -----------------------------
(***************************************************************************)
(* Proofs about Rtc, for any number of terminals and any top rate.  The    *)
(* two loops of rtc.c, the doublings of RTC_vir_rate and the halvings of   *)
(* check_power, are recursive functions; that they exist, and what they    *)
(* compute, is shown by induction over sets of numbers.                    *)
(***************************************************************************)
EXTENDS Rtc, WellFoundedInduction, TLAPS

-----------------------------------------------------------------------------
(* Induction over sets of numbers, and functions defined by recursion      *)

\* Induction: a set that has 0 and the successor of each of its numbers has
\* all of them.
LEMMA NatInd ==
  ASSUME NEW S, 0 \in S, \A n \in Nat : n \in S => n + 1 \in S
  PROVE  \A n \in Nat : n \in S
<1> DEFINE R == OpToRel(<, Nat)
           B == {n \in Nat : n \notin S}
<1>1. IsWellFoundedOn(R, Nat)
  BY NatLessThanWellFounded
<1>2. \A m, n \in Nat : m < n => <<m, n>> \in R
  BY DEF OpToRel
<1> HIDE DEF R
<1>3. SUFFICES ASSUME B # {} PROVE FALSE
  OBVIOUS
<1>4. B \subseteq Nat
  OBVIOUS
<1>5. PICK x \in B : \A y \in B : ~ (<<y, x>> \in R)
  BY <1>1, <1>3, <1>4, WFMin
<1>6. x \in Nat /\ x # 0
  BY <1>5
<1>7. x - 1 \in Nat /\ x - 1 < x /\ (x - 1) + 1 = x
  BY <1>6
<1>8. x - 1 \notin B
  BY <1>2, <1>5, <1>6, <1>7
<1> QED BY <1>5, <1>7, <1>8

\* A loop whose step is a function of the round and the state has a function
\* that gives the state after each round.
LEMMA Iterate ==
  ASSUME NEW S, NEW a \in S, NEW G \in [Nat \X S -> S]
  PROVE  \E f \in [Nat -> S] : f[0] = a /\ \A n \in Nat : f[n + 1] = G[<<n, f[n]>>]
<1> DEFINE Good(n, g) == g[0] = a /\ \A i \in 0..(n - 1) : g[i + 1] = G[<<i, g[i]>>]
           Upto(n) == {g \in [0..n -> S] : Good(n, g)}
           E == {n \in Nat : Upto(n) # {}}
<1>1. 0 \in E
  <2>1. [i \in 0..0 |-> a] \in Upto(0)
    OBVIOUS
  <2> QED BY <2>1
<1>2. ASSUME NEW n \in Nat, n \in E PROVE n + 1 \in E
  <2>1. PICK g : g \in Upto(n)
    BY <1>2
  <2> DEFINE h == [i \in 0..(n + 1) |-> IF i = n + 1 THEN G[<<n, g[n]>>] ELSE g[i]]
  <2>2. h \in [0..(n + 1) -> S]
    BY <2>1
  <2>3. h[0] = a
    BY <2>1
  <2>4. ASSUME NEW i \in 0..n PROVE h[i + 1] = G[<<i, h[i]>>]
    <3>1. h[i] = g[i]
      OBVIOUS
    <3>2. CASE i = n
      <4>1. h[i + 1] = G[<<n, g[n]>>]
        BY <3>2
      <4> QED BY <3>1, <3>2, <4>1
    <3>3. CASE i # n
      <4>1. i \in 0..(n - 1) /\ h[i + 1] = g[i + 1]
        BY <3>3
      <4>2. g[i + 1] = G[<<i, g[i]>>]
        BY <2>1, <4>1
      <4> HIDE DEF h
      <4> QED BY <3>1, <4>1, <4>2
    <3> QED BY <3>2, <3>3
  <2> HIDE DEF h
  <2>5. Good(n + 1, h)
    <3>1. \A i \in 0..((n + 1) - 1) : i \in 0..n
      OBVIOUS
    <3> QED BY <2>3, <2>4, <3>1
  <2> QED BY <2>2, <2>5
<1>3. \A n \in Nat : n \in E
  <2> HIDE DEF E
  <2> QED BY <1>1, <1>2, NatInd
<1>4. ASSUME NEW m \in Nat, NEW n \in Nat, NEW g \in Upto(m), NEW h \in Upto(n),
             NEW i \in Nat, i <= m, i <= n
      PROVE  g[i] = h[i]
  <2> DEFINE A == {k \in Nat : k <= m /\ k <= n => g[k] = h[k]}
  <2>1. 0 \in A
    OBVIOUS
  <2>2. ASSUME NEW k \in Nat, k \in A PROVE k + 1 \in A
    <3> SUFFICES ASSUME k + 1 <= m, k + 1 <= n PROVE g[k + 1] = h[k + 1]
      OBVIOUS
    <3>1. k \in 0..(m - 1) /\ k \in 0..(n - 1)
      OBVIOUS
    <3>2. g[k + 1] = G[<<k, g[k]>>] /\ h[k + 1] = G[<<k, h[k]>>]
      BY <3>1
    <3>3. g[k] = h[k]
      BY <2>2, <3>1
    <3> QED BY <3>2, <3>3
  <2>3. \A k \in Nat : k \in A
    <3> HIDE DEF A
    <3> QED BY <2>1, <2>2, NatInd
  <2> QED BY <1>4, <2>3
<1> DEFINE w(n) == CHOOSE g : g \in Upto(n)
           f == [n \in Nat |-> w(n)[n]]
<1>5. ASSUME NEW n \in Nat PROVE w(n) \in Upto(n)
  BY <1>3
<1> HIDE DEF w
<1>6. f \in [Nat -> S]
  BY <1>5
<1>7. f[0] = a
  BY <1>5
<1>8. ASSUME NEW n \in Nat PROVE f[n + 1] = G[<<n, f[n]>>]
  <2>1. w(n + 1)[n + 1] = G[<<n, w(n + 1)[n]>>]
    BY <1>5
  <2>2. w(n) \in Upto(n) /\ w(n + 1) \in Upto(n + 1)
    BY <1>5
  <2> HIDE DEF Upto
  <2>3. w(n + 1)[n] = w(n)[n]
    BY <1>4, <2>2
  <2> QED BY <2>1, <2>3
<1> HIDE DEF f
<1> QED BY <1>6, <1>7, <1>8

-----------------------------------------------------------------------------
(* The doublings of RTC_vir_rate                                           *)

LEMMA DoubledStep ==
  /\ Doubled[0] = 1
  /\ \A n \in Nat : Doubled[n] \in Nat \ {0} /\ Doubled[n + 1] = 2 * Doubled[n]
<1> DEFINE N == Nat \ {0}
           G == [x \in Nat \X N |-> 2 * x[2]]
           Body(f) == [n \in Nat |-> IF n = 0 THEN 1 ELSE 2 * f[n - 1]]
<1>1. G \in [Nat \X N -> N] /\ 1 \in N
  OBVIOUS
<1>2. PICK f \in [Nat -> N] : f[0] = 1 /\ \A n \in Nat : f[n + 1] = G[<<n, f[n]>>]
  <2> DEFINE P(S) == \A a \in S, g \in [Nat \X S -> S] :
          \E f \in [Nat -> S] : f[0] = a /\ \A n \in Nat : f[n + 1] = g[<<n, f[n]>>]
  <2>1. \A S : P(S)
    BY Iterate
  <2> HIDE DEF N, P
  <2>2. P(N)
    BY <2>1
  <2> USE DEF P
  <2> HIDE DEF G
  <2> QED BY <1>1, <2>2
<1>3. f = Body(f)
  <2>1. ASSUME NEW n \in Nat PROVE f[n] = IF n = 0 THEN 1 ELSE 2 * f[n - 1]
    <3>1. CASE n = 0
      BY <1>2, <3>1
    <3>2. CASE n # 0
      <4>1. n - 1 \in Nat /\ (n - 1) + 1 = n
        BY <3>2
      <4>2. f[n] = G[<<n - 1, f[n - 1]>>] /\ f[n - 1] \in N
        BY <1>2, <4>1
      <4> QED BY <3>2, <4>2
    <3> QED BY <3>1, <3>2
  <2> QED BY <2>1
<1>4. Doubled = Body(Doubled)
  <2> HIDE DEF G, N
  <2> QED BY <1>3 DEF Doubled
<1>5. Doubled[0] = 1 /\ \A n \in Nat : Doubled[n + 1] = 2 * Doubled[n]
  <2>1. \A n \in Nat : Doubled[n] = IF n = 0 THEN 1 ELSE 2 * Doubled[n - 1]
    BY <1>4
  <2> QED BY <2>1
<1>6. \A n \in Nat : Doubled[n] \in N
  <2> DEFINE A == {n \in Nat : Doubled[n] \in N}
  <2>1. 0 \in A
    BY <1>5
  <2>2. ASSUME NEW n \in Nat, n \in A PROVE n + 1 \in A
    BY <1>5, <2>2
  <2> HIDE DEF A
  <2>3. \A n \in Nat : n \in A
    BY <2>1, <2>2, NatInd
  <2> QED BY <2>3 DEF A
<1> QED BY <1>5, <1>6

\* The doublings add up.
LEMMA DoubledSum ==
  ASSUME NEW m \in Nat, NEW n \in Nat
  PROVE  Doubled[m + n] = Doubled[m] * Doubled[n]
<1> DEFINE A == {k \in Nat : Doubled[m + k] = Doubled[m] * Doubled[k]}
<1>1. 0 \in A
  BY DoubledStep
<1>2. ASSUME NEW k \in Nat, k \in A PROVE k + 1 \in A
  <2>1. /\ Doubled[m + (k + 1)] = 2 * Doubled[m + k]
        /\ Doubled[k + 1] = 2 * Doubled[k]
    <3>1. m + k \in Nat /\ m + (k + 1) = (m + k) + 1
      OBVIOUS
    <3> QED BY <3>1, DoubledStep
  <2>2. Doubled[m + k] = Doubled[m] * Doubled[k]
    BY <1>2
  <2>3. \A x, y \in Nat : 2 * (x * y) = x * (2 * y)
    OBVIOUS
  <2>4. Doubled[m] \in Nat /\ Doubled[k] \in Nat
    BY DoubledStep
  <2>5. 2 * (Doubled[m] * Doubled[k]) = Doubled[m] * (2 * Doubled[k])
    BY <2>3, <2>4
  <2> QED BY <2>1, <2>2, <2>5
<1> HIDE DEF A
<1>3. \A k \in Nat : k \in A
  BY <1>1, <1>2, NatInd
<1> QED BY <1>3 DEF A

\* Counter is what the code divides out, exactly: the counter waits for one
\* interrupt less than the period.
LEMMA CounterExact ==
  ASSUME NEW k \in 1..MaxPower
  PROVE  /\ Counter(k) \in 0..(MAX_FREQ \div 2 - 1)
         /\ (Counter(k) + 1) * Doubled[k] = MAX_FREQ
         /\ Doubled[k] \in 2..MAX_FREQ
<1>1. k \in Nat /\ k - 1 \in Nat /\ MaxPower - k \in Nat /\ MaxPower \in Nat
  BY RtcAssumption
<1> DEFINE d == Doubled[k]
           q == Doubled[MaxPower - k]
           e == Doubled[k - 1]
<1>2. d \in Nat \ {0} /\ q \in Nat \ {0} /\ e \in Nat \ {0} /\ d = 2 * e
  <2>1. k = (k - 1) + 1
    BY <1>1
  <2> QED BY <1>1, <2>1, DoubledStep
<1>3. MAX_FREQ = d * q
  <2>1. k + (MaxPower - k) = MaxPower
    BY <1>1
  <2> QED BY <1>1, <2>1, DoubledSum DEF MAX_FREQ
<1> HIDE DEF d, q, e
<1>4. (d * q) \div d = q
  BY <1>2
<1>5. q <= (d * q) \div 2
  <2>1. d * q = 2 * (e * q)
    BY <1>2
  <2>2. (2 * (e * q)) \div 2 = e * q
    BY <1>2
  <2>3. q <= e * q
    BY <1>2
  <2> QED BY <2>1, <2>2, <2>3
<1>6. 2 <= d /\ d <= d * q
  BY <1>2
<1>7. Counter(k) = q - 1
  BY <1>3, <1>4 DEF Counter, d
<1>8. (d * q) \div 2 \in Int
  BY <1>2
<1>9. q - 1 \in 0..(MAX_FREQ \div 2 - 1)
  BY <1>2, <1>3, <1>5, <1>8
<1>10. (Counter(k) + 1) * d = MAX_FREQ
  BY <1>2, <1>3, <1>7
<1>11. d \in 2..MAX_FREQ
  BY <1>2, <1>3, <1>6
<1> QED BY <1>7, <1>9, <1>10, <1>11 DEF d

-----------------------------------------------------------------------------
(* The halvings of check_power                                             *)

Power(n) == \E k \in Nat : Doubled[k] = n
Log(n) == CHOOSE k \in Nat : Doubled[k] = n

LEMMA DoubledGrows ==
  ASSUME NEW j \in Nat, NEW k \in Nat, j < k
  PROVE  Doubled[j] < Doubled[k]
<1>1. k - j \in Nat /\ (k - j) - 1 \in Nat /\ k = j + (k - j) /\ k - j = ((k - j) - 1) + 1
  OBVIOUS
<1> DEFINE a == Doubled[j]
           b == Doubled[(k - j) - 1]
<1>2. a \in Nat \ {0} /\ b \in Nat \ {0}
  BY <1>1, DoubledStep
<1>3. Doubled[k - j] = 2 * b
  BY <1>1, DoubledStep
<1>4. Doubled[k] = a * (2 * b)
  BY <1>1, <1>3, DoubledSum
<1> HIDE DEF a, b
<1>5. a < a * (2 * b)
  BY <1>2
<1> QED BY <1>4, <1>5 DEF a

LEMMA LogOf ==
  ASSUME NEW k \in Nat
  PROVE  Power(Doubled[k]) /\ Log(Doubled[k]) = k
<1>1. \A j \in Nat : Doubled[j] = Doubled[k] => j = k
  <2>1. ASSUME NEW j \in Nat, Doubled[j] = Doubled[k] PROVE j = k
    <3>1. ~ (j < k) /\ ~ (k < j)
      <4>1. Doubled[j] \in Nat /\ Doubled[k] \in Nat
        BY DoubledStep
      <4> QED BY <2>1, <4>1, DoubledGrows
    <3> QED BY <3>1
  <2> QED BY <2>1
<1>2. Log(Doubled[k]) \in Nat /\ Doubled[Log(Doubled[k])] = Doubled[k]
  BY DEF Log
<1> QED BY <1>1, <1>2 DEF Power

\* Twice a power is the next power, and an odd number above one is none.
LEMMA PowerHalves ==
  ASSUME NEW m \in Nat \ {0}
  PROVE  /\ Power(2 * m) <=> Power(m)
         /\ Power(m) => Log(m) \in Nat /\ Log(2 * m) = Log(m) + 1
         /\ ~ Power(2 * m + 1)
<1>1. ASSUME NEW k \in Nat, Doubled[k] = m
      PROVE  Doubled[k + 1] = 2 * m
  BY <1>1, DoubledStep
<1>2. ASSUME NEW k \in Nat, Doubled[k] = 2 * m
      PROVE  k # 0 /\ Doubled[k - 1] = m
  <2>1. k # 0
    BY <1>2, DoubledStep
  <2>2. k - 1 \in Nat /\ (k - 1) + 1 = k
    BY <2>1
  <2>3. Doubled[k] = 2 * Doubled[k - 1] /\ Doubled[k - 1] \in Nat
    BY <2>2, DoubledStep
  <2> QED BY <1>2, <2>1, <2>3
<1>3. ASSUME NEW k \in Nat, Doubled[k] = 2 * m + 1
      PROVE  FALSE
  <2>1. k # 0
    BY <1>3, DoubledStep
  <2>2. k - 1 \in Nat /\ (k - 1) + 1 = k
    BY <2>1
  <2>3. Doubled[k] = 2 * Doubled[k - 1] /\ Doubled[k - 1] \in Nat
    BY <2>2, DoubledStep
  <2> QED BY <1>3, <2>3
<1>4. Power(2 * m) <=> Power(m)
  <2>1. ASSUME Power(m) PROVE Power(2 * m)
    <3>1. PICK k \in Nat : Doubled[k] = m
      BY <2>1 DEF Power
    <3>2. k + 1 \in Nat /\ Doubled[k + 1] = 2 * m
      BY <1>1, <3>1
    <3> QED BY <3>2 DEF Power
  <2>2. ASSUME Power(2 * m) PROVE Power(m)
    <3>1. PICK k \in Nat : Doubled[k] = 2 * m
      BY <2>2 DEF Power
    <3>2. k - 1 \in Nat /\ Doubled[k - 1] = m
      BY <1>2, <3>1
    <3> QED BY <3>2 DEF Power
  <2> QED BY <2>1, <2>2
<1>5. ASSUME Power(m) PROVE Log(m) \in Nat /\ Log(2 * m) = Log(m) + 1
  <2>1. PICK k \in Nat : Doubled[k] = m
    BY <1>5 DEF Power
  <2>2. k + 1 \in Nat /\ Doubled[k + 1] = 2 * m
    BY <1>1, <2>1
  <2>3. Log(m) = k
    BY <2>1, LogOf
  <2>4. Log(2 * m) = k + 1
    BY <2>2, LogOf
  <2> QED BY <2>3, <2>4
<1>6. ~ Power(2 * m + 1)
  BY <1>3 DEF Power
<1> QED BY <1>4, <1>5, <1>6

Closed(n) == IF n <= 1 THEN 0 ELSE IF Power(n) THEN Log(n) ELSE -1
Halve(n, half) == IF n <= 1 THEN 0 ELSE IF n % 2 = 1 \/ half = -1 THEN -1 ELSE half + 1

LEMMA ClosedStep ==
  ASSUME NEW n \in Int
  PROVE  Closed(n) \in Int /\ Closed(n) = Halve(n, Closed(n \div 2))
<1>1. CASE n <= 1
  BY <1>1 DEF Closed, Halve
<1>2. CASE n > 1
  <2>1. PICK m \in Nat \ {0} :
          /\ m = n \div 2
          /\ n % 2 = 1 => n = 2 * m + 1
          /\ n % 2 # 1 => n = 2 * m
    BY <1>2
  <2>2. Closed(n) = IF Power(n) THEN Log(n) ELSE -1
    BY <1>2 DEF Closed
  <2>3. Closed(m) = IF Power(m) THEN Log(m) ELSE -1
    <3>1. CASE m = 1
      <4>1. Power(1) /\ Log(1) = 0
        BY DoubledStep, LogOf
      <4> QED BY <3>1, <4>1 DEF Closed
    <3>2. CASE m # 1
      BY <3>2 DEF Closed
    <3> QED BY <3>1, <3>2
  <2>4. CASE n % 2 = 1
    <3>1. ~ Power(n)
      BY <2>1, <2>4, PowerHalves
    <3> QED BY <1>2, <2>2, <2>4, <3>1 DEF Halve
  <2>5. CASE n % 2 # 1 /\ Power(m)
    <3>1. Power(n) /\ Log(n) = Log(m) + 1 /\ Log(m) \in Nat
      <4>1. n = 2 * m
        BY <2>1, <2>5
      <4>2. Power(2 * m) /\ Log(2 * m) = Log(m) + 1 /\ Log(m) \in Nat
        BY <2>5, PowerHalves
      <4> QED BY <4>1, <4>2
    <3> QED BY <1>2, <2>1, <2>2, <2>3, <2>5, <3>1 DEF Halve
  <2>6. CASE n % 2 # 1 /\ ~ Power(m)
    <3>1. ~ Power(n)
      BY <2>1, <2>6, PowerHalves
    <3> QED BY <1>2, <2>1, <2>2, <2>3, <2>6, <3>1 DEF Halve
  <2> QED BY <2>4, <2>5, <2>6
<1> QED BY <1>1, <1>2

LEMMA HalvingsStep == \A n \in Int : Halvings[n] = Halve(n, Halvings[n \div 2])
<1> DEFINE H == [n \in Int |-> Closed(n)]
           Body(f) == [n \in Int |-> IF n <= 1 THEN 0
                                    ELSE IF n % 2 = 1 \/ f[n \div 2] = -1 THEN -1
                                    ELSE f[n \div 2] + 1]
<1>1. \A n \in Int : H[n] = Halve(n, H[n \div 2])
  BY ClosedStep
<1>2. H = Body(H)
  <2>1. H = [n \in Int |-> H[n]]
    OBVIOUS
  <2> HIDE DEF H
  <2> QED BY <1>1, <2>1 DEF Halve
<1>3. Halvings = Body(Halvings)
  <2> HIDE DEF H
  <2> QED BY <1>2 DEF Halvings
<1> HIDE DEF H
<1> QED BY <1>3 DEF Halve

\* The loop of check_power ends with the logarithm.
LEMMA HalvingsClosed == \A n \in Int : Halvings[n] = Closed(n)
<1> DEFINE A == {n \in Nat : \A m \in 0..n : Halvings[m] = Closed(m)}
<1>1. \A n \in Int : n <= 1 => Halvings[n] = Closed(n)
  BY HalvingsStep DEF Halve, Closed
<1>2. 0 \in A
  BY <1>1
<1>3. ASSUME NEW n \in Nat, n \in A PROVE n + 1 \in A
  <2>1. ASSUME n + 1 > 1 PROVE Halvings[n + 1] = Closed(n + 1)
    <3>1. (n + 1) \div 2 \in 0..n /\ n + 1 \in Int
      BY <2>1
    <3>2. Halvings[(n + 1) \div 2] = Closed((n + 1) \div 2)
      BY <1>3, <3>1
    <3> QED BY <3>1, <3>2, HalvingsStep, ClosedStep
  <2>2. \A m \in 0..(n + 1) : m \in 0..n \/ m = n + 1
    OBVIOUS
  <2> QED BY <1>1, <1>3, <2>1, <2>2
<1> HIDE DEF A
<1>4. \A n \in Nat : n \in A
  BY <1>2, <1>3, NatInd
<1>5. \A n \in Nat : Halvings[n] = Closed(n)
  BY <1>4 DEF A
<1> QED BY <1>1, <1>5

\* check_power answers k for exactly the k-th power of two, for every number a
\* program may write and every k above 0 (rtc.c, check_power).
THEOREM CheckPowerExact ==
  ASSUME NEW n \in Int, NEW k \in Nat \ {0}
  PROVE  check_power(n) = k <=> n = Doubled[k]
<1>1. check_power(n) = Closed(n)
  BY HalvingsClosed DEF check_power
<1>2. ASSUME Closed(n) = k PROVE n = Doubled[k]
  <2>1. Power(n) /\ Log(n) = k
    BY <1>2 DEF Closed
  <2> QED BY <2>1, LogOf DEF Power
<1>3. ASSUME n = Doubled[k] PROVE Closed(n) = k
  <2>1. Power(n) /\ Log(n) = k
    BY <1>3, LogOf
  <2>2. n > 1
    <3>1. Doubled[0] < Doubled[k] /\ Doubled[0] = 1
      BY DoubledGrows, DoubledStep
    <3> QED BY <1>3, <3>1
  <2> QED BY <2>1, <2>2 DEF Closed
<1> QED BY <1>1, <1>2, <1>3

-----------------------------------------------------------------------------
(* The invariant                                                           *)

\* Register B is never selected after RTC_init, so no write that lands in the
\* wrong register can clear the enable bit; a read that waits has counted no
\* more than what came since it was called.
IInv ==
  /\ TypeOK /\ ChipKeepsRate /\ RatesHold /\ ReadsWait
  /\ cmos.index # RegB
  /\ \A t \in Terms : pc[t] = "spin" => rtc_itr_rec[t] <= since[t]

LEMMA Constants ==
  /\ MAX_FREQ \in Nat /\ 2 \in Inputs /\ 0 \in Inputs /\ 1 \in 1..MaxPower
  /\ 0 \in 0..(MAX_FREQ \div 2 - 1) /\ MAX_FREQ \div 2 \in Int
  /\ 0 \in Terms /\ MaxCount \in Nat
<1>1. MaxPower \in Nat /\ 1 \in 1..MaxPower
  BY RtcAssumption
<1>2. MAX_FREQ \in Nat
  BY <1>1, DoubledStep DEF MAX_FREQ
<1>3. 2 <= MAX_FREQ
  BY <1>1, <1>2, CounterExact
<1> QED BY <1>1, <1>2, <1>3, RtcAssumption DEF Inputs, Terms

LEMMA BumpFacts ==
  /\ \A n \in 0..MaxCount : Bump(n) \in 0..MaxCount
  /\ \A m, n \in 0..MaxCount : m <= n => Bump(m) <= Bump(n)
  BY Constants DEF Bump

LEMMA Initial == Init => IInv
  BY Constants DEF Init, IInv, TypeOK, ChipKeepsRate, RatesHold, ReadsWait,
     RegA, RegB, RegC, RegD

\* What a terminal is given when its program sets a rate.
LEMMA RateSet ==
  ASSUME NEW k \in 1..MaxPower, NEW n \in Int, n = Doubled[k]
  PROVE  /\ Counter(k) \in 0..(MAX_FREQ \div 2 - 1)
         /\ \E j \in 1..MaxPower : n = Doubled[j]
         /\ (Counter(k) + 1) * n = MAX_FREQ
  BY CounterExact

LEMMA OpenKeeps ==
  ASSUME IInv, NEW t \in Terms, RTC_open(t)
  PROVE  IInv'
<1> USE DEF IInv
<1>1. Counter(1) \in 0..(MAX_FREQ \div 2 - 1) /\ (Counter(1) + 1) * 2 = MAX_FREQ
      /\ \E j \in 1..MaxPower : 2 = Doubled[j]
  <2>1. Doubled[1] = 2
    <3>1. 0 + 1 = 1 /\ 2 * 1 = 2
      OBVIOUS
    <3> QED BY <3>1, DoubledStep
  <2> QED BY <2>1, RateSet, Constants
<1>2. /\ cmos'.index = RegA /\ cmos'.pie = cmos.pie /\ cmos'.rate = "1024"
      /\ cmos' \in [index : {RegA, RegB, RegC, RegD}, rate : {"256", "1024"},
                    pie : BOOLEAN]
  <2> DEFINE c == [cmos EXCEPT !.index = RegA]
  <2>1. /\ c.index = RegA /\ c.pie = cmos.pie /\ c.index # RegB
        /\ c \in [index : {RegA, RegB, RegC, RegD}, rate : {"256", "1024"},
                 pie : BOOLEAN]
    BY DEF TypeOK, RegA, RegB
  <2>2. cmos' = OutData(c, "1024")
    BY DEF RTC_open
  <2> HIDE DEF c
  <2>3. cmos'.index = RegA /\ cmos'.rate = "1024"
    BY <2>1, <2>2 DEF OutData
  <2>4. cmos'.pie = (c.pie /\ c.index # RegB) /\ cmos'.pie \in BOOLEAN
    BY <2>1, <2>2 DEF OutData
  <2>5. cmos'.pie = cmos.pie
    BY <2>1, <2>4, Zenon
  <2>6. cmos' \in [index : {RegA, RegB, RegC, RegD}, rate : {"256", "1024"},
                  pie : BOOLEAN]
    BY <2>1, <2>2, <2>4 DEF OutData
  <2> QED BY <2>3, <2>5, <2>6
<1>3. TypeOK'
  BY <1>1, <1>2, Constants DEF RTC_open, TypeOK
<1>4. ChipKeepsRate' /\ cmos'.index # RegB
  BY <1>2 DEF TypeOK, ChipKeepsRate, RegA, RegB
<1>5. RatesHold'
  BY <1>1 DEF RTC_open, RatesHold, TypeOK
<1>6. ReadsWait' /\ \A u \in Terms : pc'[u] = "spin" => rtc_itr_rec'[u] <= since'[u]
  BY DEF RTC_open, ReadsWait, TypeOK
<1> QED BY <1>3, <1>4, <1>5, <1>6

LEMMA WriteKeeps ==
  ASSUME IInv, NEW t \in Terms, NEW n \in Inputs, RTC_write(t, n)
  PROVE  IInv'
<1> USE DEF IInv
<1> DEFINE k == check_power(n)
<1>1. n \in Int /\ k \in 1..MaxPower
  BY Constants DEF Inputs, RTC_write, Accepted
<1>2. n = Doubled[k]
  <2>1. k \in Nat \ {0}
    BY <1>1
  <2> QED BY <1>1, <2>1, CheckPowerExact
<1> HIDE DEF k
<1>3. /\ Counter(k) \in 0..(MAX_FREQ \div 2 - 1) /\ (Counter(k) + 1) * n = MAX_FREQ
      /\ \E j \in 1..MaxPower : n = Doubled[j]
  BY <1>1, <1>2, RateSet
<1>4. vir_counter' = [vir_counter EXCEPT ![t] = Counter(k)]
  BY DEF RTC_write, k
<1>5. TypeOK'
  BY <1>3, <1>4 DEF RTC_write, TypeOK
<1>6. ChipKeepsRate' /\ cmos'.index # RegB
  BY DEF RTC_write, ChipKeepsRate
<1>7. RatesHold'
  BY <1>3, <1>4 DEF RTC_write, RatesHold, TypeOK
<1>8. ReadsWait' /\ \A u \in Terms : pc'[u] = "spin" => rtc_itr_rec'[u] <= since'[u]
  BY <1>4 DEF RTC_write, ReadsWait, TypeOK
<1> QED BY <1>5, <1>6, <1>7, <1>8

LEMMA StepKeeps ==
  ASSUME IInv, NEW t \in Terms, Step(t)
  PROVE  IInv'
<1> USE DEF IInv
<1>1. CASE WriteSelect(t)
  BY <1>1 DEF WriteSelect, TypeOK, ChipKeepsRate, RatesHold, ReadsWait, RegA, RegB
<1>2. CASE WriteData(t)
  <2>1. /\ cmos'.index = cmos.index /\ cmos'.pie = cmos.pie
        /\ cmos'.rate \in {cmos.rate, "1024"}
        /\ cmos' \in [index : {RegA, RegB, RegC, RegD}, rate : {"256", "1024"},
                      pie : BOOLEAN]
    BY <1>2 DEF WriteData, OutData, TypeOK
  <2> QED BY <1>2, <2>1 DEF WriteData, TypeOK, ChipKeepsRate, RatesHold, ReadsWait
<1>3. CASE ReadClear(t)
  BY <1>3, Constants DEF ReadClear, TypeOK, ChipKeepsRate, RatesHold, ReadsWait
<1>4. CASE ReadLeave(t)
  <2>1. since[t] >= vir_counter[t]
    <3>1. /\ rtc_itr_rec[t] <= since[t] /\ rtc_itr_rec[t] >= vir_counter[t]
          /\ rtc_itr_rec[t] \in Int /\ since[t] \in Int /\ vir_counter[t] \in Int
      BY <1>4, Constants DEF ReadLeave, TypeOK
    <3> QED BY <3>1
  <2> QED BY <1>4, <2>1 DEF ReadLeave, TypeOK, ChipKeepsRate, RatesHold, ReadsWait
<1>5. CASE ReadReturn(t)
  BY <1>5, Constants DEF ReadReturn, TypeOK, ChipKeepsRate, RatesHold, ReadsWait
<1> QED BY <1>1, <1>2, <1>3, <1>4, <1>5 DEF Step

LEMMA HandlerKeeps == IInv /\ RTC_handler => IInv'
<1> SUFFICES ASSUME IInv, RTC_handler PROVE IInv'
  OBVIOUS
<1> USE DEF IInv
<1> DEFINE t == cur_execute_term
<1>1. t \in Terms
  BY DEF TypeOK
<1>2. /\ rtc_itr_rec[t] \in 0..MaxCount /\ since[t] \in 0..MaxCount
      /\ Bump(rtc_itr_rec[t]) \in 0..MaxCount /\ Bump(since[t]) \in 0..MaxCount
      /\ rtc_itr_rec[t] <= since[t] => Bump(rtc_itr_rec[t]) <= Bump(since[t])
  BY <1>1, BumpFacts DEF TypeOK
<1>3. /\ rtc_itr_rec' = [rtc_itr_rec EXCEPT ![t] = Bump(rtc_itr_rec[t])]
      /\ pc[t] = "spin" => since' = [since EXCEPT ![t] = Bump(since[t])]
      /\ pc[t] # "clear" /\ pc[t] # "spin" => since' = since
      /\ since' \in {since, [since EXCEPT ![t] = Bump(since[t])]}
      /\ UNCHANGED <<cur_execute_term, vir_counter, pc, opened, asked>>
      /\ cmos' = [cmos EXCEPT !.index = RegC]
  BY DEF RTC_handler, Since
<1>4. TypeOK'
  BY <1>1, <1>2, <1>3 DEF TypeOK
<1>5. ChipKeepsRate' /\ cmos'.index # RegB
  BY <1>3 DEF TypeOK, ChipKeepsRate, RegB, RegC
<1>6. RatesHold'
  BY <1>3 DEF RatesHold
<1> HIDE DEF t
<1>7. \A u \in Terms : u # t => rtc_itr_rec'[u] = rtc_itr_rec[u] /\ since'[u] = since[u]
  BY <1>3 DEF TypeOK
<1>8. ReadsWait'
  <2>1. \A u \in Terms : pc[u] = "reset" => since'[u] = since[u]
    BY <1>3, <1>7
  <2> QED BY <1>3, <2>1 DEF ReadsWait
<1>9. \A u \in Terms : pc'[u] = "spin" => rtc_itr_rec'[u] <= since'[u]
  <2>1. pc[t] = "spin" => rtc_itr_rec'[t] <= since'[t]
    BY <1>1, <1>2, <1>3 DEF TypeOK
  <2> QED BY <1>3, <1>7, <2>1
<1> QED BY <1>4, <1>5, <1>6, <1>8, <1>9

THEOREM Invariance == Spec => []IInv
<1>1. IInv /\ [Next]_vars => IInv'
  <2> SUFFICES ASSUME IInv, [Next]_vars PROVE IInv'
    OBVIOUS
  <2>1. CASE \E t \in Terms : RTC_open(t)
    BY <2>1, OpenKeeps
  <2>2. CASE \E t \in Terms : RTC_read(t)
    BY <2>2 DEF RTC_read, IInv, TypeOK, ChipKeepsRate, RatesHold, ReadsWait
  <2>3. CASE \E t \in Terms : Step(t)
    BY <2>3, StepKeeps
  <2>4. CASE \E t \in Terms : Switch(t)
    BY <2>4 DEF Switch, IInv, TypeOK, ChipKeepsRate, RatesHold, ReadsWait
  <2>5. CASE \E t \in Terms, n \in Inputs : RTC_write(t, n)
    BY <2>5, WriteKeeps
  <2>6. CASE (\E t \in Terms, n \in Inputs : RTC_writeFails(t, n)) \/ UNCHANGED vars
    BY <2>6 DEF RTC_writeFails, vars, IInv, TypeOK, ChipKeepsRate, RatesHold, ReadsWait
  <2>7. CASE RTC_handler
    BY <2>7, HandlerKeeps
  <2> QED BY <2>1, <2>2, <2>3, <2>4, <2>5, <2>6, <2>7 DEF Next
<1> QED BY <1>1, Initial, PTL DEF Spec

\* The types of the counters, the chip and the programs (rtc.c:41-48).
THEOREM TypeCorrect == Spec => []TypeOK
<1>1. IInv => TypeOK
  BY DEF IInv
<1> QED BY <1>1, Invariance, PTL

\* The chip keeps interrupting at the top rate, wherever RTC_handler comes
\* between the two ports of RTC_vir_rate (rtc.c:121, 164-165).
THEOREM ChipRight == Spec => []ChipKeepsRate
<1>1. IInv => ChipKeepsRate
  BY DEF IInv
<1> QED BY <1>1, Invariance, PTL

\* No read returns before the interrupts of its rate came (rtc.c:206-233).
THEOREM ReadsNotShort == Spec => []ReadsWait
<1>1. IInv => ReadsWait
  BY DEF IInv
<1> QED BY <1>1, Invariance, PTL

\* Every terminal waits for exactly the rate its program was granted
\* (rtc.c:146-161, 250-258, 302-313).
THEOREM RatesRight == Spec => []RatesHold
<1>1. IInv => RatesHold
  BY DEF IInv
<1> QED BY <1>1, Invariance, PTL
=============================================================================
