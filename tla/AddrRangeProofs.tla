-------------------------- MODULE AddrRangeProofs --------------------------
(***************************************************************************)
(* What the operators of AddrRange return, for every width of the          *)
(* addresses, and those of Lists, for lists of any length.                 *)
(***************************************************************************)
EXTENDS AddrRange, Lists, SequenceTheorems, WellFoundedInduction, TLAPS

USE AddrRangeAssumption

-----------------------------------------------------------------------------
(* Numbers, and functions defined by recursion on them                     *)

\* A set with 0 in it, and with each number the next one, has all of them.
LEMMA Induction ==
    ASSUME NEW P, 0 \in P, \A n \in Nat : n \in P => n + 1 \in P
    PROVE  Nat \subseteq P
<1> SUFFICES ASSUME Nat \ P # {}
             PROVE  FALSE
  OBVIOUS
<1>1. PICK x \in Nat \ P : \A y \in Nat \ P : ~(<<y, x>> \in OpToRel(<, Nat))
  BY NatLessThanWellFounded, WFMin
<1>2. \A y \in Nat \ P : ~(y < x)
  BY <1>1, Zenon DEF OpToRel
<1>3. x # 0 /\ x - 1 \in Nat /\ x - 1 < x /\ (x - 1) + 1 = x
  OBVIOUS
<1>4. x - 1 \in P
  BY <1>2, <1>3, Zenon
<1> QED
  BY <1>3, <1>4, Zenon

\* g goes on from b, its value for 0, with the steps of f up to n.
FollowsSteps(g, S, b, f, n) ==
    /\ g \in [0..n -> S]
    /\ g[0] = b
    /\ \A k \in 1..n : g[k] = f[k][g[k - 1]]

\* There is a function with a given first value and given steps.
LEMMA Recursion ==
    ASSUME NEW S, NEW b \in S, NEW f \in [Nat -> [S -> S]], NEW n \in Nat
    PROVE  \E g : FollowsSteps(g, S, b, f, n)
<1> DEFINE P == {m \in Nat : \E g : FollowsSteps(g, S, b, f, m)}
<1>1. 0 \in P
  <2> DEFINE g == [k \in 0..0 |-> b]
  <2>1. FollowsSteps(g, S, b, f, 0)
    BY DEF FollowsSteps
  <2> QED
    BY <2>1
<1>2. ASSUME NEW m \in Nat, m \in P
      PROVE  m + 1 \in P
  <2>1. PICK g : FollowsSteps(g, S, b, f, m)
    BY <1>2
  <2> DEFINE h == [k \in 0..(m + 1) |-> IF k = m + 1 THEN f[m + 1][g[m]] ELSE g[k]]
  <2>2. h \in [0..(m + 1) -> S]
    BY <2>1 DEF FollowsSteps
  <2>3. h[0] = b
    BY <2>1 DEF FollowsSteps
  <2>4. ASSUME NEW k \in 1..(m + 1)
        PROVE  h[k] = f[k][h[k - 1]]
    <3>1. k - 1 \in 0..m /\ h[k - 1] = g[k - 1]
      OBVIOUS
    <3>2. CASE k = m + 1
      <4>1. k - 1 = m /\ h[k - 1] = g[m] /\ h[k] = f[m + 1][g[m]]
        BY <3>1, <3>2
      <4> QED
        BY <3>2, <4>1
    <3>3. CASE k # m + 1
      BY <2>1, <3>1, <3>3 DEF FollowsSteps
    <3> QED
      BY <3>2, <3>3
  <2> HIDE DEF h
  <2>5. FollowsSteps(h, S, b, f, m + 1)
    BY <2>2, <2>3, <2>4, Zenon DEF FollowsSteps
  <2> QED
    BY <2>5
<1> HIDE DEF P
<1>3. n \in P
  BY <1>1, <1>2, Induction
<1> QED
  BY <1>3 DEF P

\* A set which has 0, and with each number before n the next one, has all of
\* the numbers up to n.
LEMMA InductionUpTo ==
    ASSUME NEW n \in Nat, NEW P, 0 \in P,
           \A k \in 1..n : k - 1 \in P => k \in P
    PROVE  0..n \subseteq P
<1> DEFINE Q == {k \in Nat : k <= n => k \in P}
<1>1. 0 \in Q
  OBVIOUS
<1>2. ASSUME NEW k \in Nat, k \in Q
      PROVE  k + 1 \in Q
  <2>1. CASE k + 1 <= n
    <3>1. k + 1 \in 1..n /\ (k + 1) - 1 = k /\ k \in P
      BY <1>2, <2>1
    <3> QED
      BY <3>1
  <2> QED
    BY <2>1
<1> HIDE DEF Q
<1>3. Nat \subseteq Q
  BY <1>1, <1>2, Induction
<1> QED
  BY <1>3 DEF Q

-----------------------------------------------------------------------------
(* Lists                                                                   *)

\* The first of some places is one of them, and not after any other.
LEMMA FirstPlace ==
    ASSUME NEW places \in SUBSET (Nat \ {0})
    PROVE  /\ First(places) = 0 <=> places = {}
           /\ places # {} => /\ First(places) \in places
                             /\ \A k \in places : First(places) <= k
<1>1. ASSUME places # {}
      PROVE  Min(places) \in places /\ \A k \in places : Min(places) <= k
  <2>1. PICK x \in places : \A y \in places : ~(<<y, x>> \in OpToRel(<, Nat))
    <3>1. places \subseteq Nat
      OBVIOUS
    <3> QED
      BY <1>1, <3>1, NatLessThanWellFounded, WFMin
  <2>2. \A y \in places : ~(y < x)
    <3>1. \A y \in places : x \in Nat /\ y \in Nat
      OBVIOUS
    <3> QED
      BY <2>1, <3>1, Zenon DEF OpToRel
  <2>3. x \in places /\ \A y \in places : x <= y
    BY <2>2
  <2> QED
    BY <2>3, Zenon DEF Min
<1> QED
  BY <1>1 DEF First

\* What is selected, element after element.
LEMMA SelectedSteps ==
    ASSUME NEW T, NEW s \in Seq(T), NEW places
    PROVE  /\ SelectedUpTo(s, places) \in [0..Len(s) -> Seq(T)]
           /\ SelectedUpTo(s, places)[0] = <<>>
           /\ \A k \in 1..Len(s) : SelectedUpTo(s, places)[k] =
                    IF k \in places THEN Append(SelectedUpTo(s, places)[k - 1], s[k])
                    ELSE SelectedUpTo(s, places)[k - 1]
<1> DEFINE S == Seq(T)
           N == Len(s)
           Step(x, k) == IF k \in places THEN Append(x, s[k]) ELSE x
           Is(g) == g = [n \in 0..N |->
                            IF n = 0 THEN <<>>
                            ELSE IF n \in places THEN Append(g[n - 1], s[n])
                            ELSE g[n - 1]]
           step == [k \in Nat |-> [x \in S |-> IF k \in 1..N THEN Step(x, k) ELSE x]]
           F == SelectedUpTo(s, places)
<1>1. N \in Nat /\ <<>> \in S
  OBVIOUS
<1>2. \A k \in 1..N : \A x \in S : Step(x, k) \in S
  BY ElementOfSeq, AppendProperties
<1> HIDE DEF S
<1>3. step \in [Nat -> [S -> S]]
  <2> HIDE DEF Step
  <2> QED
    BY <1>2
<1>4. \A k \in 1..N : \A x \in S : step[k][x] = Step(x, k)
  <2> HIDE DEF Step
  <2> QED
    BY <1>1
<1> HIDE DEF step
<1>5. PICK g : FollowsSteps(g, S, <<>>, step, N)
  BY <1>1, <1>3, Recursion
<1>6. g \in [0..N -> S] /\ g[0] = <<>> /\ \A k \in 1..N : g[k] = Step(g[k - 1], k)
  <2>1. ASSUME NEW k \in 1..N
        PROVE  g[k] = Step(g[k - 1], k)
    <3>1. g[k - 1] \in S
      BY <1>1, <1>5 DEF FollowsSteps
    <3> HIDE DEF Step
    <3> QED
      BY <1>4, <1>5, <3>1, Zenon DEF FollowsSteps
  <2> HIDE DEF Step
  <2> QED
    BY <1>5, <2>1, Zenon DEF FollowsSteps
<1>7. Is(g)
  <2>1. \A n \in 0..N : n = 0 \/ n \in 1..N
    BY <1>1
  <2>2. \A n \in 0..N : g[n] = IF n = 0 THEN <<>> ELSE Step(g[n - 1], n)
    BY <1>6, <2>1, Zenon
  <2> QED
    BY <1>6, <2>2
<1>8. Is(F)
  BY <1>7, Zenon DEF SelectedUpTo
<1>9. F[0] = <<>> /\ \A k \in 1..N : F[k] = Step(F[k - 1], k)
  <2>1. F = [n \in 0..N |-> IF n = 0 THEN <<>> ELSE Step(F[n - 1], n)]
    BY <1>8
  <2> HIDE DEF F, Step
  <2>2. \A n \in 0..N : F[n] = IF n = 0 THEN <<>> ELSE Step(F[n - 1], n)
    BY <2>1, Zenon
  <2>3. 0 \in 0..N /\ \A k \in 1..N : k \in 0..N /\ k # 0
    BY <1>1
  <2> QED
    BY <2>2, <2>3, Zenon
<1>10. 0..N \subseteq {n \in 0..N : F[n] \in S}
  <2> DEFINE P == {n \in 0..N : F[n] \in S}
  <2> HIDE DEF F, Step
  <2>1. 0 \in P
    BY <1>1, <1>9
  <2>2. ASSUME NEW k \in 1..N, k - 1 \in P
        PROVE  k \in P
    <3>1. F[k - 1] \in S /\ k \in 0..N
      BY <1>1, <2>2
    <3>2. F[k] \in S
      BY <1>2, <1>9, <3>1, Zenon
    <3> QED
      BY <3>1, <3>2
  <2> HIDE DEF P
  <2>3. 0..N \subseteq P
    BY <1>1, <2>1, <2>2, InductionUpTo
  <2> QED
    BY <2>3 DEF P
<1>11. F \in [0..N -> S]
  <2>1. F = [n \in 0..N |-> F[n]]
    BY <1>8
  <2> HIDE DEF F
  <2> QED
    BY <1>10, <2>1
<1> HIDE DEF F
<1> QED
  BY <1>9, <1>11 DEF S, F

\* The place in the selection of the element of s at k, when it is selected.
Rank(s, places, k) == Len(SelectedUpTo(s, places)[k])

\* The selection has the elements at the places, each of them once and in the
\* order they have in s, and no other.
LEMMA SelectedPlaces ==
    ASSUME NEW T, NEW s \in Seq(T), NEW places \in SUBSET (1..Len(s))
    PROVE  /\ Selected(s, places) \in Seq(T)
           /\ \A j \in places : /\ Rank(s, places, j) \in DOMAIN Selected(s, places)
                                /\ Selected(s, places)[Rank(s, places, j)] = s[j]
           /\ \A k \in DOMAIN Selected(s, places) :
                    \E j \in places : Rank(s, places, j) = k
           /\ \A i, j \in places : i < j => Rank(s, places, i) < Rank(s, places, j)
<1> DEFINE F == SelectedUpTo(s, places)
           N == Len(s)
           L(k) == Len(F[k])
           Good(n) ==
               /\ \A j \in places : j <= n => L(j) \in 1..L(n) /\ F[n][L(j)] = s[j]
               /\ \A k \in 1..L(n) : \E j \in places : j <= n /\ L(j) = k
               /\ \A k \in 0..n : L(k) <= L(n)
           P == {n \in 0..N : Good(n)}
<1>1. /\ F \in [0..N -> Seq(T)] /\ F[0] = <<>> /\ N \in Nat
      /\ \A k \in 1..N : F[k] = IF k \in places THEN Append(F[k - 1], s[k]) ELSE F[k - 1]
      /\ \A k \in 1..N : s[k] \in T
  BY SelectedSteps, ElementOfSeq
<1> HIDE DEF F
<1>2. ASSUME NEW k \in 0..N
      PROVE  L(k) \in Nat /\ F[k] \in Seq(T)
  <2>1. F[k] \in Seq(T)
    BY <1>1, Zenon
  <2> QED
    BY <2>1, LenProperties, Zenon
<1>3. \A k \in 1..N : k - 1 \in 0..N /\ k \in 0..N
  BY <1>1
<1>4. ASSUME NEW n \in 1..N, n \in places
      PROVE  /\ L(n) = L(n - 1) + 1 /\ F[n][L(n)] = s[n]
             /\ \A k \in 1..L(n - 1) : F[n][k] = F[n - 1][k]
  <2>1. F[n] = Append(F[n - 1], s[n]) /\ F[n - 1] \in Seq(T) /\ s[n] \in T
    BY <1>1, <1>2, <1>3, <1>4
  <2> QED
    BY <2>1, AppendProperties
<1>5. ASSUME NEW n \in 1..N, n \notin places
      PROVE  F[n] = F[n - 1]
  BY <1>1, <1>5
<1>6. 0 \in P
  <2>1. L(0) = 0
    BY <1>1
  <2>2. \A j \in places : ~(j <= 0)
    BY <1>1
  <2>3. \A k \in 0..0 : L(k) <= L(0)
    BY <2>1
  <2> QED
    BY <1>1, <2>1, <2>2, <2>3
<1>7. ASSUME NEW n \in 1..N, n - 1 \in P
      PROVE  n \in P
  <2>1. Good(n - 1)
    BY <1>7
  <2>2. n \in Nat /\ n - 1 \in Nat /\ \A j \in places : j \in Nat
    BY <1>1
  <2>3. L(n) \in Nat /\ L(n - 1) \in Nat /\ \A j \in places : L(j) \in Nat
    BY <1>1, <1>2, <1>3
  <2>4. CASE n \in places
    <3>1. ASSUME NEW j \in places, j <= n
          PROVE  L(j) \in 1..L(n) /\ F[n][L(j)] = s[j]
      <4>1. CASE j = n
        BY <1>4, <2>3, <2>4, <4>1
      <4>2. CASE j # n
        <5>1. j <= n - 1
          BY <2>2, <3>1, <4>2
        <5>2. L(j) \in 1..L(n - 1) /\ F[n - 1][L(j)] = s[j]
          BY <2>1, <5>1
        <5>3. L(n) = L(n - 1) + 1 /\ F[n][L(j)] = F[n - 1][L(j)]
          BY <1>4, <2>4, <5>2
        <5> QED
          BY <2>3, <5>2, <5>3
      <4> QED
        BY <4>1, <4>2
    <3>2. ASSUME NEW k \in 1..L(n)
          PROVE  \E j \in places : j <= n /\ L(j) = k
      <4>1. k = L(n) \/ k \in 1..L(n - 1)
        BY <1>4, <2>3, <2>4
      <4>2. CASE k = L(n)
        BY <2>2, <2>4, <4>2
      <4>3. CASE k \in 1..L(n - 1)
        <5>1. PICK j \in places : j <= n - 1 /\ L(j) = k
          BY <2>1, <4>3
        <5> QED
          BY <2>2, <5>1
      <4> QED
        BY <4>1, <4>2, <4>3
    <3>3. ASSUME NEW k \in 0..n
          PROVE  L(k) <= L(n)
      <4>1. k = n \/ k \in 0..(n - 1)
        BY <2>2
      <4>2. L(k) \in Nat
        BY <1>2, <2>2
      <4>3. k \in 0..(n - 1) => L(k) <= L(n - 1)
        BY <2>1
      <4> QED
        BY <1>4, <2>3, <2>4, <4>1, <4>2, <4>3
    <3> QED
      BY <1>3, <3>1, <3>2, <3>3
  <2>5. CASE n \notin places
    <3>1. F[n] = F[n - 1]
      BY <1>5, <2>5
    <3>2. \A j \in places : j <= n => j <= n - 1
      BY <2>2, <2>5
    <3>3. \A j \in places : j <= n - 1 => j <= n
      BY <2>2
    <3>4. \A k \in 0..n : k = n \/ k \in 0..(n - 1)
      BY <2>2
    <3>5. \A k \in 0..n : L(k) <= L(n)
      BY <2>1, <2>3, <3>1, <3>4
    <3>6. \A j \in places : j <= n => L(j) \in 1..L(n) /\ F[n][L(j)] = s[j]
      BY <2>1, <3>1, <3>2
    <3>7. \A k \in 1..L(n) : \E j \in places : j <= n /\ L(j) = k
      BY <2>1, <3>1, <3>3
    <3> QED
      BY <1>3, <3>5, <3>6, <3>7
  <2> QED
    BY <2>4, <2>5
<1> HIDE DEF P
<1>8. 0..N \subseteq P
  BY <1>1, <1>6, <1>7, InductionUpTo
<1>9. \A n \in 0..N : Good(n)
  BY <1>8 DEF P
<1>10. /\ F[N] \in Seq(T) /\ DOMAIN F[N] = 1..L(N)
       /\ \A j \in places : j <= N /\ j \in 1..N
  BY <1>1, <1>2
<1>11. ASSUME NEW i \in places, NEW j \in places, i < j
       PROVE  L(i) < L(j)
  <2>1. i \in 0..(j - 1) /\ j - 1 \in 0..N
    BY <1>1, <1>11
  <2>2. L(i) <= L(j - 1)
    BY <1>9, <2>1
  <2>3. L(j) = L(j - 1) + 1
    BY <1>4, <1>10
  <2>4. L(i) \in Nat /\ L(j - 1) \in Nat
    BY <1>2, <1>3, <1>10, <2>1
  <2> QED
    BY <2>2, <2>3, <2>4
<1>12. N \in 0..N
  BY <1>1
<1>13. /\ \A j \in places : L(j) \in 1..L(N) /\ F[N][L(j)] = s[j]
       /\ \A k \in 1..L(N) : \E j \in places : L(j) = k
  <2>1. Good(N)
    BY <1>9, <1>12
  <2> QED
    BY <1>10, <2>1
<1> QED
  BY <1>10, <1>11, <1>13, Zenon DEF Rank, Selected, F

\* Each bit weighs twice as much as the one below it.
LEMMA Weights ==
    /\ Weight[0] = 1
    /\ \A n \in 0..Bits : Weight[n] \in Nat /\ Weight[n] > 0
    /\ \A n \in 1..Bits : Weight[n] = 2 * Weight[n - 1]
<1> DEFINE Is(g) == g = [n \in 0..Bits |-> IF n = 0 THEN 1 ELSE 2 * g[n - 1]]
<1>0. Bits \in Nat
  BY DEF AddrRangeAssumption
<1>1. \E g : Is(g)
  <2> DEFINE step == [k \in Nat |-> [x \in Nat |-> 2 * x]]
  <2>1. step \in [Nat -> [Nat -> Nat]] /\ 1 \in Nat
    OBVIOUS
  <2>2. \A k, x \in Nat : step[k][x] = 2 * x
    OBVIOUS
  <2> HIDE DEF step
  <2>3. PICK g : FollowsSteps(g, Nat, 1, step, Bits)
    BY <1>0, <2>1, Recursion
  <2>4. ASSUME NEW k \in 1..Bits
        PROVE  g[k] = 2 * g[k - 1]
    <3>1. k \in Nat /\ g[k - 1] \in Nat
      BY <1>0, <2>3 DEF FollowsSteps
    <3>2. step[k][g[k - 1]] = 2 * g[k - 1]
      BY <2>2, <3>1, Zenon
    <3> QED
      BY <2>3, <3>2, Zenon DEF FollowsSteps
  <2>5. \A k \in 0..Bits : g[k] = IF k = 0 THEN 1 ELSE 2 * g[k - 1]
    BY <1>0, <2>3, <2>4 DEF FollowsSteps
  <2>6. g = [k \in 0..Bits |-> g[k]]
    BY <2>3 DEF FollowsSteps
  <2> QED
    BY <2>5, <2>6
<1>2. Is(Pow2)
  BY <1>1, Zenon DEF Pow2
<1>3. \A n \in 0..Bits : Weight[n] = IF n = 0 THEN 1 ELSE 2 * Weight[n - 1]
  BY <1>0, <1>2 DEF Weight
<1> DEFINE P == {n \in Nat : n <= Bits => Weight[n] \in Nat /\ Weight[n] > 0}
<1>4. 0 \in P
  BY <1>0, <1>3
<1>5. ASSUME NEW n \in Nat, n \in P
      PROVE  n + 1 \in P
  BY <1>0, <1>3, <1>5
<1> HIDE DEF P
<1>6. Nat \subseteq P
  BY <1>4, <1>5, Induction
<1>7. \A n \in 0..Bits : Weight[n] \in Nat /\ Weight[n] > 0
  BY <1>0, <1>6 DEF P
<1> QED
  BY <1>0, <1>3, <1>7

-----------------------------------------------------------------------------
(* Bits of addresses                                                       *)

\* What is left of a number when it is divided.
LEMMA Quotient ==
    ASSUME NEW x \in Nat, NEW d \in Nat, d > 0
    PROVE  /\ x \div d \in Nat
           /\ (x \div d) * d <= x
           /\ x < (x \div d) * d + d
OBVIOUS

\* The quotient is the only number which does that.
LEMMA QuotientUnique ==
    ASSUME NEW x \in Nat, NEW d \in Nat, d > 0, NEW q \in Int,
           q * d <= x, x < q * d + d
    PROVE  x \div d = q
<1> DEFINE p == x \div d
<1>1. p \in Nat /\ p * d <= x /\ x < p * d + d
  BY Quotient
<1> HIDE DEF p
<1>2. ~(p < q)
  <2> SUFFICES ASSUME p + 1 <= q PROVE FALSE
    BY <1>1
  <2>1. (p + 1) * d <= q * d
    BY <1>1
  <2>2. (p + 1) * d = p * d + d
    BY <1>1
  <2> QED
    BY <1>1, <2>1, <2>2
<1>3. ~(q < p)
  <2> SUFFICES ASSUME q + 1 <= p PROVE FALSE
    BY <1>1
  <2>1. (q + 1) * d <= p * d
    BY <1>1
  <2>2. (q + 1) * d = q * d + d
    BY <1>1
  <2> QED
    BY <1>1, <2>1, <2>2
<1> QED
  BY <1>1, <1>2, <1>3 DEF p

\* Dividing in two steps.
LEMMA Halving ==
    ASSUME NEW x \in Nat, NEW d \in Nat, d > 0
    PROVE  /\ x \div (2 * d) = (x \div d) \div 2
           /\ x \div d = (2 * (x \div (2 * d))) + ((x \div d) % 2)
<1> DEFINE p == x \div d
           q == p \div 2
<1>1. p \in Nat /\ p * d <= x /\ x < p * d + d
  BY Quotient
<1> HIDE DEF p
<1>2. q \in Nat /\ 2 * q <= p /\ p <= 2 * q + 1 /\ p = (2 * q) + (p % 2)
  BY <1>1
<1> HIDE DEF q
<1>3. q * (2 * d) <= x
  <2>1. (2 * q) * d <= p * d
    BY <1>1, <1>2
  <2>2. q * (2 * d) = (2 * q) * d
    BY <1>2
  <2> QED
    BY <1>1, <1>2, <2>1, <2>2
<1>4. x < q * (2 * d) + 2 * d
  <2>1. (p + 1) * d <= (2 * q + 2) * d
    BY <1>1, <1>2
  <2>2. (p + 1) * d = p * d + d /\ (2 * q + 2) * d = q * (2 * d) + 2 * d
    BY <1>1, <1>2
  <2> QED
    BY <1>1, <1>2, <2>1, <2>2
<1>5. x \div (2 * d) = q
  BY <1>2, <1>3, <1>4, QuotientUnique
<1> QED
  BY <1>2, <1>5 DEF p, q

\* Addresses which agree on their highest bits are the same number without
\* the other ones ...
LEMMA SameHighBits ==
    ASSUME NEW x \in Ips, NEW y \in Ips, NEW p \in 0..Bits,
           \A i \in p..(Bits - 1) : BitOf(x, i) = BitOf(y, i)
    PROVE  x \div Weight[p] = y \div Weight[p]
<1>0. Bits \in Nat /\ x \in Nat /\ y \in Nat /\ MaxIp = Weight[Bits] - 1
  BY DEF AddrRangeAssumption, Ips
<1> DEFINE P == {n \in Nat : n <= Bits - p =>
                    x \div Weight[Bits - n] = y \div Weight[Bits - n]}
<1>1. 0 \in P
  <2>1. Weight[Bits] \in Nat /\ Weight[Bits] > 0 /\ Bits - 0 = Bits
    BY <1>0, Weights
  <2>2. x < Weight[Bits] /\ y < Weight[Bits]
    BY <1>0, <2>1 DEF Ips
  <2>3. x \div Weight[Bits] = 0 /\ y \div Weight[Bits] = 0
    BY <1>0, <2>1, <2>2, QuotientUnique
  <2> QED
    BY <2>1, <2>3
<1>2. ASSUME NEW n \in Nat, n \in P
      PROVE  n + 1 \in P
  <2> SUFFICES ASSUME n + 1 <= Bits - p
               PROVE  x \div Weight[Bits - (n + 1)] = y \div Weight[Bits - (n + 1)]
    OBVIOUS
  <2> DEFINE k == Bits - (n + 1)
             d == Weight[k]
  <2>1. k \in p..(Bits - 1) /\ k \in 0..Bits /\ k + 1 \in 1..Bits /\ k + 1 = Bits - n
    BY <1>0
  <2> HIDE DEF k
  <2>2. d \in Nat /\ d > 0 /\ Weight[k + 1] = 2 * d
    <3>1. (k + 1) - 1 = k
      BY <2>1
    <3> QED
      BY <2>1, <3>1, Weights
  <2>3. x \div Weight[Bits - n] = y \div Weight[Bits - n]
    BY <1>2
  <2>4. x \div (2 * d) = y \div (2 * d)
    BY <2>1, <2>2, <2>3
  <2>5. (x \div d) % 2 = (y \div d) % 2
    BY <2>1 DEF BitOf
  <2> HIDE DEF d
  <2>6. x \div d = y \div d
    BY <1>0, <2>2, <2>4, <2>5, Halving
  <2> QED
    BY <2>6 DEF k, d
<1> HIDE DEF P
<1>3. Bits - p \in P
  <2>1. Bits - p \in Nat
    BY <1>0
  <2> QED
    BY <1>1, <1>2, <2>1, Induction
<1>4. Bits - (Bits - p) = p
  BY <1>0
<1> QED
  BY <1>0, <1>3, <1>4 DEF P

\* ... and conversely.
LEMMA HighBitsSame ==
    ASSUME NEW x \in Ips, NEW y \in Ips, NEW p \in 0..Bits,
           x \div Weight[p] = y \div Weight[p]
    PROVE  \A i \in p..(Bits - 1) : BitOf(x, i) = BitOf(y, i)
<1>0. Bits \in Nat /\ x \in Nat /\ y \in Nat
  BY DEF AddrRangeAssumption, Ips
<1> DEFINE P == {n \in Nat : p + n <= Bits =>
                    x \div Weight[p + n] = y \div Weight[p + n]}
<1>1. 0 \in P
  <2>1. p + 0 = p
    BY <1>0
  <2> QED
    BY <2>1
<1>2. ASSUME NEW n \in Nat, n \in P
      PROVE  n + 1 \in P
  <2> SUFFICES ASSUME p + (n + 1) <= Bits
               PROVE  x \div Weight[p + (n + 1)] = y \div Weight[p + (n + 1)]
    OBVIOUS
  <2> DEFINE k == p + n
             d == Weight[k]
  <2>1. k \in 0..Bits /\ k + 1 \in 1..Bits /\ k + 1 = p + (n + 1)
    BY <1>0
  <2>2. x \div d = y \div d
    BY <1>0, <1>2
  <2> HIDE DEF k
  <2>3. d \in Nat /\ d > 0 /\ Weight[k + 1] = 2 * d
    <3>1. (k + 1) - 1 = k
      BY <2>1
    <3> QED
      BY <2>1, <3>1, Weights
  <2> HIDE DEF d
  <2>4. x \div (2 * d) = y \div (2 * d)
    BY <1>0, <2>2, <2>3, Halving
  <2> QED
    BY <2>1, <2>3, <2>4
<1> HIDE DEF P
<1>3. ASSUME NEW i \in p..(Bits - 1)
      PROVE  BitOf(x, i) = BitOf(y, i)
  <2>1. i - p \in Nat /\ p + (i - p) = i /\ i <= Bits
    BY <1>0
  <2>2. i - p \in P
    BY <1>1, <1>2, <2>1, Induction
  <2>3. x \div Weight[i] = y \div Weight[i]
    BY <2>1, <2>2 DEF P
  <2> QED
    BY <2>3, Zenon DEF BitOf
<1> QED
  BY <1>3

\* The network of an address is made of the addresses which only differ in
\* the bits its mask leaves free ...
LEMMA PrefixMatched ==
    ASSUME NEW a \in Addrs, NEW n \in 0..Bits, a.mask = PrefixMask(n)
    PROVE  /\ Bits - n \in 0..Bits
           /\ Matched(a) = {ip \in Ips : ip \div Weight[Bits - n] = a.ip \div Weight[Bits - n]}
<1>0. Bits - n \in 0..Bits /\ a.ip \in Ips
  BY DEF AddrRangeAssumption, Addrs
<1>1. ASSUME NEW ip \in Ips
      PROVE  ip \in Matched(a) <=> ip \div Weight[Bits - n] = a.ip \div Weight[Bits - n]
  BY <1>0, SameHighBits, HighBitsSame, SMTT(30) DEF Matched, PrefixMask
<1>2. Matched(a) \subseteq Ips
  BY DEF Matched
<1> QED
  BY <1>0, <1>1, <1>2

\* ... and an address between two of them is one of them.
LEMMA PrefixConvex ==
    ASSUME NEW a \in Addrs, NEW n \in 0..Bits, a.mask = PrefixMask(n),
           NEW x \in Matched(a), NEW z \in Matched(a), NEW y \in Ips,
           x <= y, y <= z
    PROVE  y \in Matched(a)
<1> DEFINE d == Weight[Bits - n]
<1>1. d \in Nat /\ d > 0
  BY PrefixMatched, Weights
<1>2. x \in Nat /\ y \in Nat /\ z \in Nat
  BY DEF Matched, Ips
<1>3. x \div d = a.ip \div d /\ z \div d = a.ip \div d
  BY PrefixMatched
<1> HIDE DEF d
<1>4. x \div d <= y \div d /\ y \div d <= z \div d
  BY <1>1, <1>2
<1>5. y \div d \in Nat /\ x \div d \in Nat
  BY <1>1, <1>2, Quotient
<1>6. y \div d = a.ip \div d
  BY <1>3, <1>4, <1>5
<1> QED
  BY <1>6, PrefixMatched DEF d

-----------------------------------------------------------------------------
(* Bounds of sets of addresses                                             *)

\* A set of addresses which is not empty has a first one ...
LEMMA MinOfIps ==
    ASSUME NEW S \in SUBSET Ips, S # {}
    PROVE  Min(S) \in S /\ \A x \in S : Min(S) <= x
<1>1. S \subseteq Nat
  BY DEF Ips
<1>2. PICK x \in S : \A y \in S : ~(<<y, x>> \in OpToRel(<, Nat))
  BY <1>1, NatLessThanWellFounded, WFMin
<1>3. \A y \in S : ~(y < x)
  BY <1>1, <1>2, Zenon DEF OpToRel
<1>4. \A y \in S : x <= y
  BY <1>1, <1>3
<1> QED
  BY <1>4 DEF Min

\* ... and a last one.
LEMMA MaxOfIps ==
    ASSUME NEW S \in SUBSET Ips, S # {}
    PROVE  Max(S) \in S /\ \A x \in S : Max(S) >= x
<1> DEFINE T == {MaxIp - x : x \in S}
<1>1. S \subseteq 0..MaxIp
  BY DEF Ips
<1>2. T \subseteq Nat /\ T # {}
  <2>1. \A x \in S : MaxIp - x \in Nat
    BY <1>1
  <2> QED
    BY <2>1
<1>3. PICK t \in T : \A y \in T : ~(<<y, t>> \in OpToRel(<, Nat))
  BY <1>2, NatLessThanWellFounded, WFMin
<1>4. \A y \in T : ~(y < t)
  BY <1>2, <1>3, Zenon DEF OpToRel
<1>5. PICK x \in S : t = MaxIp - x
  OBVIOUS
<1>6. ASSUME NEW y \in S
      PROVE  x >= y
  <2>1. MaxIp - y \in T
    OBVIOUS
  <2>2. ~(MaxIp - y < MaxIp - x)
    BY <1>4, <1>5, <2>1, Zenon
  <2> QED
    BY <1>1, <2>2
<1> QED
  BY <1>6 DEF Max

\* An address is one of those which agree with it on its mask, and turning
\* the other bits off, or on, gives the first, or the last, of them.
LEMMA MatchedBounds ==
    ASSUME NEW a \in Addrs
    PROVE  /\ a.ip \in Matched(a) /\ Matched(a) \subseteq Ips
           /\ ApplyMask(a) \in Addrs /\ ApplyMask(a).mask = a.mask
           /\ ApplyMask(a).ip \in Matched(a)
           /\ \A ip \in Matched(a) : ApplyMask(a).ip <= ip
           /\ ApplyMaskInversed(a) \in Addrs /\ ApplyMaskInversed(a).mask = a.mask
           /\ ApplyMaskInversed(a).ip \in Matched(a)
           /\ \A ip \in Matched(a) : ApplyMaskInversed(a).ip >= ip
<1>1. a.ip \in Matched(a) /\ Matched(a) \subseteq Ips
  BY DEF Matched, Addrs
<1>2. /\ Min(Matched(a)) \in Matched(a) /\ \A ip \in Matched(a) : Min(Matched(a)) <= ip
      /\ Max(Matched(a)) \in Matched(a) /\ \A ip \in Matched(a) : Max(Matched(a)) >= ip
  BY <1>1, MinOfIps, MaxOfIps
<1>3. /\ ApplyMask(a).ip = Min(Matched(a))
      /\ ApplyMaskInversed(a).ip = Max(Matched(a))
  BY DEF ApplyMask, ApplyMaskInversed, Addrs
<1>4. /\ ApplyMask(a) \in Addrs /\ ApplyMask(a).mask = a.mask
      /\ ApplyMaskInversed(a) \in Addrs /\ ApplyMaskInversed(a).mask = a.mask
  BY <1>1, <1>2 DEF ApplyMask, ApplyMaskInversed, Addrs
<1> QED
  BY <1>1, <1>2, <1>3, <1>4

\* The ranges class addr_range makes.
LEMMA RangeTypes ==
    /\ DefaultAddr \in Addrs /\ NoRange \in Ranges
    /\ \A r \in Ranges, a \in Addrs : SetFrom(r, a) \in Ranges /\ SetTo(r, a) \in Ranges
    /\ \A a \in Addrs : FromCidr(a) \in Ranges
<1>1. DefaultAddr \in Addrs
  BY DEF AddrRangeAssumption, DefaultAddr, Addrs, Ips, Masks, PrefixMask
<1>2. NoRange \in Ranges
  BY <1>1 DEF NoRange, Ranges
<1>3. \A r \in Ranges, a \in Addrs : SetFrom(r, a) \in Ranges /\ SetTo(r, a) \in Ranges
  BY DEF SetFrom, SetTo, Ranges
<1>4. \A a \in Addrs : FromCidr(a) \in Ranges
  BY <1>2, <1>3, MatchedBounds DEF FromCidr
<1> QED
  BY <1>1, <1>2, <1>3, <1>4

-----------------------------------------------------------------------------
(* Bounds of networks                                                      *)

\* A product is less than another one with the same factor when the other
\* factor is.
LEMMA LessFactor ==
    ASSUME NEW x \in Int, NEW y \in Int, NEW d \in Nat, d > 0
    PROVE  x * d < y * d => x + 1 <= y
<1> SUFFICES ASSUME y <= x
             PROVE  y * d <= x * d
  OBVIOUS
<1> QED
  OBVIOUS

\* A bit weighs a multiple of what each of those below weighs.
LEMMA WeightMultiple ==
    ASSUME NEW k \in 0..Bits, NEW h \in k..Bits
    PROVE  \E c \in Nat : c > 0 /\ Weight[h] = c * Weight[k]
<1>0. Bits \in Nat
  BY DEF AddrRangeAssumption
<1> DEFINE d == Weight[k]
           P == {n \in Nat : k + n <= Bits => \E c \in Nat : c > 0 /\ Weight[k + n] = c * d}
<1>1. d \in Nat
  BY Weights
<1>2. 0 \in P
  <2>1. 1 \in Nat /\ 1 > 0 /\ Weight[k + 0] = 1 * d
    BY <1>1
  <2> QED
    BY <2>1
<1> HIDE DEF d
<1>3. ASSUME NEW n \in Nat, n \in P
      PROVE  n + 1 \in P
  <2> SUFFICES ASSUME k + (n + 1) <= Bits
               PROVE  \E c \in Nat : c > 0 /\ Weight[k + (n + 1)] = c * d
    OBVIOUS
  <2>1. PICK c \in Nat : c > 0 /\ Weight[k + n] = c * d
    BY <1>0, <1>3
  <2>2. k + (n + 1) \in 1..Bits /\ (k + (n + 1)) - 1 = k + n
    BY <1>0
  <2>3. Weight[k + (n + 1)] = 2 * (c * d)
    BY <2>1, <2>2, Weights
  <2>4. 2 * (c * d) = (2 * c) * d /\ 2 * c \in Nat /\ 2 * c > 0
    BY <1>1, <2>1
  <2> QED
    BY <2>3, <2>4
<1> HIDE DEF P
<1>4. h - k \in Nat /\ k + (h - k) = h /\ h <= Bits
  BY <1>0
<1>5. h - k \in P
  BY <1>2, <1>3, <1>4, Induction
<1> QED
  BY <1>4, <1>5 DEF P, d

\* A network is the block of addresses from the multiple of the weight of its
\* lowest mask bit to the next one.
LEMMA PrefixBounds ==
    ASSUME NEW a \in Addrs, NEW n \in 0..Bits, a.mask = PrefixMask(n)
    PROVE  LET d == Weight[Bits - n]
               q == a.ip \div d
           IN  /\ ApplyMask(a).ip = q * d
               /\ ApplyMaskInversed(a).ip = q * d + (d - 1)
<1> DEFINE d == Weight[Bits - n]
           q == a.ip \div d
           first == q * d
           last == q * d + (d - 1)
<1>0. /\ Bits \in Nat /\ MaxIp = Weight[Bits] - 1 /\ Bits - n \in 0..Bits
      /\ a.ip \in Nat /\ a.ip <= MaxIp
  BY DEF AddrRangeAssumption, Addrs, Ips
<1>1. d \in Nat /\ d > 0 /\ Weight[Bits] \in Nat
  BY <1>0, Weights
<1>2. PICK c \in Nat : Weight[Bits] = c * d
  BY <1>0, WeightMultiple
<1>3. Matched(a) = {ip \in Ips : ip \div d = q}
  BY PrefixMatched
<1> HIDE DEF d
<1>4. q \in Nat /\ first <= a.ip /\ a.ip < first + d
  BY <1>0, <1>1, Quotient
<1> HIDE DEF q
<1>5. first \in Nat /\ last \in Nat
  BY <1>1, <1>4
<1>6. last <= MaxIp
  <2>1. q * d < c * d
    BY <1>0, <1>1, <1>2, <1>4
  <2>2. q + 1 <= c
    BY <1>1, <1>2, <1>4, <2>1, LessFactor
  <2>3. (q + 1) * d <= c * d /\ (q + 1) * d = q * d + d
    BY <1>1, <1>4, <2>2
  <2> QED
    BY <1>0, <1>1, <1>2, <1>4, <2>3
<1>7. first \div d = q /\ last \div d = q
  BY <1>1, <1>4, <1>5, QuotientUnique
<1>8. first \in Matched(a) /\ last \in Matched(a)
  BY <1>0, <1>1, <1>3, <1>5, <1>6, <1>7 DEF Ips
<1>9. ASSUME NEW x \in Matched(a)
      PROVE  first <= x /\ x <= last
  <2>1. x \in Nat /\ x \div d = q
    BY <1>3 DEF Ips
  <2> QED
    BY <1>1, <2>1, Quotient
<1> HIDE DEF first, last
<1>10. ApplyMask(a).ip = first /\ ApplyMaskInversed(a).ip = last
  <2>1. /\ ApplyMask(a).ip \in Matched(a) /\ ApplyMask(a).ip <= first
        /\ ApplyMaskInversed(a).ip \in Matched(a) /\ ApplyMaskInversed(a).ip >= last
    BY <1>8, MatchedBounds
  <2>2. /\ first <= ApplyMask(a).ip /\ ApplyMaskInversed(a).ip <= last
    BY <1>9, <2>1
  <2>3. ApplyMask(a).ip \in Int /\ ApplyMaskInversed(a).ip \in Int
    BY <1>3, <2>1 DEF Ips
  <2> QED
    BY <1>5, <2>1, <2>2, <2>3
<1> QED
  BY <1>10 DEF first, last, q, d

\* An address with its lowest bits off is the multiple it starts from ...
LEMMA LowBitsOff ==
    ASSUME NEW x \in Ips, NEW h \in 0..Bits, \A k \in 0..(h - 1) : BitOf(x, k) = 0
    PROVE  x = (x \div Weight[h]) * Weight[h]
<1>0. Bits \in Nat /\ x \in Nat
  BY DEF AddrRangeAssumption, Ips
<1> DEFINE P == {n \in Nat : n <= h => x = (x \div Weight[n]) * Weight[n]}
<1>1. 0 \in P
  <2>1. x \div 1 = x
    BY <1>0
  <2> QED
    BY <1>0, <2>1, Weights
<1>2. ASSUME NEW n \in Nat, n \in P
      PROVE  n + 1 \in P
  <2> SUFFICES ASSUME n + 1 <= h
               PROVE  x = (x \div Weight[n + 1]) * Weight[n + 1]
    OBVIOUS
  <2> DEFINE d == Weight[n]
             q == x \div (2 * d)
  <2>1. n \in 0..(h - 1) /\ n \in 0..Bits /\ n + 1 \in 1..Bits /\ (n + 1) - 1 = n
    BY <1>0
  <2>2. d \in Nat /\ d > 0 /\ Weight[n + 1] = 2 * d
    BY <2>1, Weights
  <2>3. x = (x \div d) * d /\ (x \div d) % 2 = 0
    BY <1>2, <2>1 DEF BitOf
  <2> HIDE DEF d
  <2>4. q \in Nat /\ x \div d = 2 * q
    <3>1. x \div d = (2 * q) + ((x \div d) % 2)
      BY <1>0, <2>2, Halving
    <3>2. 2 * d \in Nat /\ 2 * d > 0
      BY <2>2
    <3>3. q \in Nat
      BY <1>0, <3>2, Quotient
    <3> QED
      BY <2>3, <3>1, <3>3
  <2> HIDE DEF q
  <2>5. (2 * q) * d = q * (2 * d)
    BY <2>2, <2>4
  <2> QED
    BY <2>2, <2>3, <2>4, <2>5 DEF q
<1> HIDE DEF P
<1>3. h \in Nat /\ h \in P
  BY <1>0, <1>1, <1>2, Induction
<1> QED
  BY <1>3 DEF P

\* ... and with its lowest bits on the one before the next multiple.
LEMMA LowBitsOn ==
    ASSUME NEW x \in Ips, NEW h \in 0..Bits, \A k \in 0..(h - 1) : BitOf(x, k) = 1
    PROVE  x = (x \div Weight[h]) * Weight[h] + (Weight[h] - 1)
<1>0. Bits \in Nat /\ x \in Nat
  BY DEF AddrRangeAssumption, Ips
<1> DEFINE P == {n \in Nat : n <= h => x = (x \div Weight[n]) * Weight[n] + (Weight[n] - 1)}
<1>1. 0 \in P
  <2>1. x \div 1 = x
    BY <1>0
  <2> QED
    BY <1>0, <2>1, Weights
<1>2. ASSUME NEW n \in Nat, n \in P
      PROVE  n + 1 \in P
  <2> SUFFICES ASSUME n + 1 <= h
               PROVE  x = (x \div Weight[n + 1]) * Weight[n + 1] + (Weight[n + 1] - 1)
    OBVIOUS
  <2> DEFINE d == Weight[n]
             q == x \div (2 * d)
  <2>1. n \in 0..(h - 1) /\ n \in 0..Bits /\ n + 1 \in 1..Bits /\ (n + 1) - 1 = n
    BY <1>0
  <2>2. d \in Nat /\ d > 0 /\ Weight[n + 1] = 2 * d
    BY <2>1, Weights
  <2>3. x = (x \div d) * d + (d - 1) /\ (x \div d) % 2 = 1
    BY <1>2, <2>1 DEF BitOf
  <2> HIDE DEF d
  <2>4. q \in Nat /\ x \div d = 2 * q + 1
    <3>1. x \div d = (2 * q) + ((x \div d) % 2)
      BY <1>0, <2>2, Halving
    <3>2. 2 * d \in Nat /\ 2 * d > 0
      BY <2>2
    <3>3. q \in Nat
      BY <1>0, <3>2, Quotient
    <3> QED
      BY <2>3, <3>1, <3>3
  <2> HIDE DEF q
  <2>5. (2 * q + 1) * d = q * (2 * d) + d
    BY <2>2, <2>4
  <2>6. q * (2 * d) \in Int
    BY <2>2, <2>4
  <2> QED
    BY <2>2, <2>3, <2>4, <2>5, <2>6 DEF q
<1> HIDE DEF P
<1>3. h \in Nat /\ h \in P
  BY <1>0, <1>1, <1>2, Induction
<1> QED
  BY <1>3 DEF P

\* Conversely the lowest bits of a multiple are off, and those of the number
\* before the next one are on.
LEMMA BlockBits ==
    ASSUME NEW q \in Nat, NEW h \in 0..Bits, NEW k \in 0..(h - 1)
    PROVE  /\ BitOf(q * Weight[h], k) = 0
           /\ BitOf(q * Weight[h] + (Weight[h] - 1), k) = 1
<1>0. /\ Bits \in Nat /\ k \in 0..Bits /\ k + 1 \in 1..Bits /\ h \in (k + 1)..Bits
      /\ k + 1 \in 0..Bits /\ (k + 1) - 1 = k
  BY DEF AddrRangeAssumption
<1> DEFINE d == Weight[k]
<1>1. d \in Nat /\ d > 0 /\ Weight[k + 1] = 2 * d
  BY <1>0, Weights
<1>2. PICK c \in Nat : c > 0 /\ Weight[h] = c * Weight[k + 1]
  BY <1>0, WeightMultiple
<1> HIDE DEF d
<1> DEFINE m == q * c
           t == (q + 1) * c
<1>3. m \in Nat /\ t \in Nat /\ t > 0 /\ t = m + c
  <2>1. t = q * c + c /\ q * c \in Nat
    BY <1>2
  <2> QED
    BY <1>2, <2>1
<1>4. q * Weight[h] = (2 * m) * d
  BY <1>1, <1>2
<1>5. q * Weight[h] + (Weight[h] - 1) = (2 * t - 1) * d + (d - 1)
  <2>1. Weight[h] = (2 * c) * d
    BY <1>1, <1>2
  <2> HIDE DEF m, t
  <2>2. (2 * m) * d + (2 * c) * d = (2 * (m + c)) * d
    BY <1>1, <1>2, <1>3
  <2>3. (2 * t) * d = (2 * t - 1) * d + d
    BY <1>1, <1>3
  <2>4. (2 * m) * d \in Int /\ (2 * c) * d \in Int /\ (2 * t - 1) * d \in Int
    BY <1>1, <1>2, <1>3
  <2> QED
    BY <1>1, <1>3, <1>4, <2>1, <2>2, <2>3, <2>4
<1> HIDE DEF m, t
<1>6. (q * Weight[h]) \div d = 2 * m
  <2>1. (2 * m) * d \in Nat
    BY <1>1, <1>3
  <2> QED
    BY <1>1, <1>3, <1>4, <2>1, QuotientUnique
<1>7. (q * Weight[h] + (Weight[h] - 1)) \div d = 2 * t - 1
  <2>1. 2 * t - 1 \in Nat /\ (2 * t - 1) * d \in Nat
    BY <1>1, <1>3
  <2>2. (2 * t - 1) * d + (d - 1) \in Nat
    BY <1>1, <2>1
  <2> QED
    BY <1>1, <1>3, <1>5, <2>1, <2>2, QuotientUnique
<1>8. (2 * m) % 2 = 0 /\ (2 * t - 1) % 2 = 1
  BY <1>3
<1> QED
  BY <1>6, <1>7, <1>8 DEF BitOf, d

-----------------------------------------------------------------------------
(* Unions of two ranges                                                    *)

\* The bounds of a range are addresses.
LEMMA BoundsType ==
    ASSUME NEW r \in Ranges
    PROVE  /\ Low(r) \in Addrs /\ High(r) \in Addrs
           /\ Low(r).ip \in Int /\ High(r).ip \in Int
BY DEF Low, High, Ranges, Addrs, Ips

\* A mask set_mask_count() accepts is a mask.
LEMMA SetMaskCountType ==
    ASSUME NEW a \in Addrs, NEW n, AcceptsMaskCount(a, n)
    PROVE  SetMaskCount(a, n) \in Addrs
<1>1. n \in Int /\ 0 <= n /\ n <= Bits
  BY DEF AcceptsMaskCount
<1>2. PrefixMask(n) \in Masks
  BY <1>1 DEF PrefixMask, Masks
<1> QED
  BY <1>2 DEF SetMaskCount, Addrs

\* What union_if_possible() returns, when it returns, is a range.
LEMMA UnionType ==
    ASSUME NEW l \in Ranges, NEW r \in Ranges, ~UnionThrows(l, r)
    PROVE  UnionIfPossible(l, r) \in Ranges
<1>1. DefaultAddr \in Addrs
  BY DEF DefaultAddr, Addrs, Ips, Masks, PrefixMask
<1>2. NoRange \in Ranges
  BY <1>1 DEF NoRange, Ranges
<1>3. \A s \in Ranges, a \in Addrs : SetFrom(s, a) \in Ranges /\ SetTo(s, a) \in Ranges
  BY DEF SetFrom, SetTo, Ranges
<1>4. CASE ~((IsDefined(l) \/ IsDefined(r)) /\ Touches(l, r))
  BY <1>2, <1>4 DEF UnionIfPossible
<1>5. CASE (IsDefined(l) \/ IsDefined(r)) /\ Touches(l, r)
  <2>1. LowerAddr(l, r) \in Addrs /\ HigherAddr(l, r) \in Addrs
    BY BoundsType DEF LowerAddr, HigherAddr
  <2>2. /\ SetMaskCount(LowerAddr(l, r), UnionMask(l.from, r.from)) \in Addrs
        /\ SetMaskCount(HigherAddr(l, r), UnionMask(l.to, r.to)) \in Addrs
    BY <1>5, <2>1, SetMaskCountType DEF UnionThrows
  <2> QED
    BY <1>2, <1>3, <1>5, <2>2 DEF UnionIfPossible
<1> QED
  BY <1>4, <1>5

\* A union which is defined starts at the lower of the lower bounds and
\* ends at the higher of the higher ones, and is made of ranges which touch.
LEMMA UnionBounds ==
    ASSUME NEW l \in Ranges, NEW r \in Ranges,
           IsDefined(UnionIfPossible(l, r))
    PROVE  /\ Touches(l, r)
           /\ Low(UnionIfPossible(l, r)).ip = Smaller(Low(l).ip, Low(r).ip)
           /\ High(UnionIfPossible(l, r)).ip =
                IF High(l).ip > High(r).ip THEN High(l).ip ELSE High(r).ip
<1> DEFINE from == SetMaskCount(LowerAddr(l, r), UnionMask(l.from, r.from))
           to == SetMaskCount(HigherAddr(l, r), UnionMask(l.to, r.to))
           u == UnionIfPossible(l, r)
<1>1. LowerAddr(l, r) \in Addrs /\ HigherAddr(l, r) \in Addrs
  BY BoundsType DEF LowerAddr, HigherAddr
<1>2. from.ip = LowerAddr(l, r).ip /\ to.ip = HigherAddr(l, r).ip
  BY <1>1 DEF SetMaskCount, Addrs
<1>3. LowerAddr(l, r).ip = Smaller(Low(l).ip, Low(r).ip)
  BY DEF LowerAddr, Smaller
<1>4. HigherAddr(l, r).ip = IF High(l).ip > High(r).ip THEN High(l).ip ELSE High(r).ip
  BY DEF HigherAddr
<1>5. ~IsDefined(NoRange)
  BY DEF IsDefined, NoRange
<1>6. (IsDefined(l) \/ IsDefined(r)) /\ Touches(l, r)
  BY <1>5 DEF UnionIfPossible
<1>7. \/ u = SetTo(SetFrom(NoRange, from), to)
      \/ u = SetFrom(NoRange, from) /\ from.ip = to.ip
  BY <1>6 DEF UnionIfPossible
<1> HIDE DEF from, to, u
<1>8. CASE u = SetTo(SetFrom(NoRange, from), to)
  <2>1. Low(u) = from /\ High(u) = to
    BY <1>8 DEF Low, High, SetTo, SetFrom, NoRange
  <2> QED
    BY <2>1, <1>2, <1>3, <1>4, <1>6 DEF u
<1>9. CASE u = SetFrom(NoRange, from) /\ from.ip = to.ip
  <2>1. Low(u) = from /\ High(u) = from
    BY <1>9 DEF Low, High, SetFrom, NoRange
  <2> QED
    BY <2>1, <1>2, <1>3, <1>4, <1>6, <1>9 DEF u
<1> QED
  BY <1>7, <1>8, <1>9

\* A range is empty when its bounds are in the wrong order.
LEMMA EmptyBounds ==
    ASSUME NEW r \in Ranges, IsDefined(r)
    PROVE  IsEmpty(r) <=> Low(r).ip > High(r).ip
BY DEF IsEmpty, IsRange, IsDefined, Low, High, Ranges, Addrs, Ips

=============================================================================
