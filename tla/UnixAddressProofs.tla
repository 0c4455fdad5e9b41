------------------------- MODULE UnixAddressProofs -------------------------
(***************************************************************************)
(* Proofs about UnixAddress, for any size of sun_path and any names.       *)
(*                                                                         *)
(* The invariant is that an address has the buffer of a name: a path which *)
(* verify_path() gives back unchanged.  It rests on what verify_path()     *)
(* does of the bytes of a path, by induction on them.                      *)
(***************************************************************************)
EXTENDS UnixAddress, FiniteSetTheorems, SequenceTheorems, WellFoundedInduction, TLAPS

-----------------------------------------------------------------------------
(* Numbers, and functions defined by recursion on them                     *)

LEMMA MinOfNats ==
    ASSUME NEW S \in SUBSET Nat, S # {}
    PROVE  Min(S) \in S /\ \A x \in S : Min(S) <= x
<1>1. PICK x \in S : \A y \in S : ~(<<y, x>> \in OpToRel(<, Nat))
  BY NatLessThanWellFounded, WFMin
<1>2. \A y \in S : ~(y < x)
  BY <1>1, Zenon DEF OpToRel
<1>3. \A y \in S : x <= y
  BY <1>2
<1> QED
  BY <1>3 DEF Min

\* A set with 0 in it, and with each number the next one, has all of them.
LEMMA Induction ==
    ASSUME NEW P, 0 \in P, \A n \in Nat : n \in P => n + 1 \in P
    PROVE  Nat \subseteq P
<1> SUFFICES ASSUME Nat \ P # {}
             PROVE  FALSE
  OBVIOUS
<1>1. PICK x \in Nat \ P : \A y \in Nat \ P : ~(<<y, x>> \in OpToRel(<, Nat))
  BY NatLessThanWellFounded, WFMin
<1>2. \A y \in Nat \ P : ~(y < x)
  BY <1>1, Zenon DEF OpToRel
<1>3. x # 0 /\ x - 1 \in Nat /\ x - 1 < x /\ (x - 1) + 1 = x
  OBVIOUS
<1>4. x - 1 \in P
  BY <1>2, <1>3, Zenon
<1> QED
  BY <1>3, <1>4, Zenon

\* g goes on from b, its value for 0, with the steps of f up to n.
FollowsSteps(g, S, b, f, n) ==
    /\ g \in [0..n -> S]
    /\ g[0] = b
    /\ \A k \in 1..n : g[k] = f[k][g[k - 1]]

\* There is a function with a given first value and given steps.
LEMMA Recursion ==
    ASSUME NEW S, NEW b \in S, NEW f \in [Nat -> [S -> S]], NEW n \in Nat
    PROVE  \E g : FollowsSteps(g, S, b, f, n)
<1> DEFINE P == {m \in Nat : \E g : FollowsSteps(g, S, b, f, m)}
<1>1. 0 \in P
  <2> DEFINE g == [k \in 0..0 |-> b]
  <2>1. FollowsSteps(g, S, b, f, 0)
    BY DEF FollowsSteps
  <2> QED
    BY <2>1
<1>2. ASSUME NEW m \in Nat, m \in P
      PROVE  m + 1 \in P
  <2>1. PICK g : FollowsSteps(g, S, b, f, m)
    BY <1>2
  <2> DEFINE h == [k \in 0..(m + 1) |-> IF k = m + 1 THEN f[m + 1][g[m]] ELSE g[k]]
  <2>2. h \in [0..(m + 1) -> S]
    BY <2>1 DEF FollowsSteps
  <2>3. h[0] = b
    BY <2>1 DEF FollowsSteps
  <2>4. ASSUME NEW k \in 1..(m + 1)
        PROVE  h[k] = f[k][h[k - 1]]
    <3>1. k - 1 \in 0..m /\ h[k - 1] = g[k - 1]
      OBVIOUS
    <3>2. CASE k = m + 1
      <4>1. k - 1 = m /\ h[k - 1] = g[m] /\ h[k] = f[m + 1][g[m]]
        BY <3>1, <3>2
      <4> QED
        BY <3>2, <4>1
    <3>3. CASE k # m + 1
      BY <2>1, <3>1, <3>3 DEF FollowsSteps
    <3> QED
      BY <3>2, <3>3
  <2> HIDE DEF h
  <2>5. FollowsSteps(h, S, b, f, m + 1)
    BY <2>2, <2>3, <2>4, Zenon DEF FollowsSteps
  <2> QED
    BY <2>5
<1> HIDE DEF P
<1>3. n \in P
  BY <1>1, <1>2, Induction
<1> QED
  BY <1>3 DEF P

-----------------------------------------------------------------------------
(* Paths without a "/" too many                                            *)

\* What is kept of a path, byte after byte.
LEMMA SqueezedSteps ==
    ASSUME NEW T, NEW path \in Seq(T)
    PROVE  /\ SqueezedUpTo(path) \in [0..Len(path) -> Seq(T)]
           /\ SqueezedUpTo(path)[0] = <<>>
           /\ \A k \in 1..Len(path) : SqueezedUpTo(path)[k] =
                    IF IsKept(path, k) THEN Append(SqueezedUpTo(path)[k - 1], path[k])
                    ELSE SqueezedUpTo(path)[k - 1]
<1> DEFINE S == Seq(T)
           Next1(x, k) == IF IsKept(path, k) THEN Append(x, path[k]) ELSE x
           Is(g) == g = [n \in 0..Len(path) |->
                            IF n = 0 THEN <<>>
                            ELSE IF IsKept(path, n) THEN Append(g[n - 1], path[n])
                            ELSE g[n - 1]]
           step == [k \in Nat |-> [x \in S |->
                            IF k \in 1..Len(path) THEN Next1(x, k) ELSE x]]
<1>1. Len(path) \in Nat /\ <<>> \in S
  OBVIOUS
<1>2. \A k \in 1..Len(path) : \A x \in S : Next1(x, k) \in S
  BY ElementOfSeq, AppendProperties
<1> HIDE DEF S
<1>3. step \in [Nat -> [S -> S]]
  <2> HIDE DEF Next1
  <2> QED
    BY <1>2
<1>4. \A k \in 1..Len(path) : \A x \in S : step[k][x] = Next1(x, k)
  <2> HIDE DEF Next1
  <2> QED
    BY <1>1
<1> HIDE DEF step
<1>5. PICK g : FollowsSteps(g, S, <<>>, step, Len(path))
  BY <1>1, <1>3, Recursion
<1>6. g \in [0..Len(path) -> S] /\ g[0] = <<>>
      /\ \A k \in 1..Len(path) : g[k] = Next1(g[k - 1], k)
  <2>1. ASSUME NEW k \in 1..Len(path)
        PROVE  g[k] = Next1(g[k - 1], k)
    <3>1. g[k - 1] \in S
      BY <1>1, <1>5 DEF FollowsSteps
    <3> HIDE DEF Next1
    <3> QED
      BY <1>4, <1>5, <3>1, Zenon DEF FollowsSteps
  <2> HIDE DEF Next1
  <2> QED
    BY <1>5, <2>1, Zenon DEF FollowsSteps
<1>7. Is(g)
  <2>1. \A n \in 0..Len(path) : n = 0 \/ n \in 1..Len(path)
    BY <1>1
  <2>2. \A n \in 0..Len(path) : g[n] = IF n = 0 THEN <<>> ELSE Next1(g[n - 1], n)
    BY <1>6, <2>1, Zenon
  <2> QED
    BY <1>6, <2>2
<1>8. Is(SqueezedUpTo(path))
  BY <1>7, Zenon DEF SqueezedUpTo
<1> DEFINE F == SqueezedUpTo(path)
<1>9. F[0] = <<>> /\ \A k \in 1..Len(path) : F[k] = Next1(F[k - 1], k)
  <2>1. F = [n \in 0..Len(path) |-> IF n = 0 THEN <<>> ELSE Next1(F[n - 1], n)]
    BY <1>8
  <2> HIDE DEF F, Next1
  <2>2. \A n \in 0..Len(path) : F[n] = IF n = 0 THEN <<>> ELSE Next1(F[n - 1], n)
    BY <2>1, Zenon
  <2>3. 0 \in 0..Len(path) /\ \A k \in 1..Len(path) : k \in 0..Len(path) /\ k # 0
    BY <1>1
  <2> QED
    BY <2>2, <2>3, Zenon
<1>10. \A n \in 0..Len(path) : F[n] \in S
  <2> DEFINE P == {n \in Nat : n <= Len(path) => F[n] \in S}
  <2> HIDE DEF F, Next1
  <2>1. 0 \in P
    BY <1>1, <1>9
  <2>2. ASSUME NEW n \in Nat, n \in P
        PROVE  n + 1 \in P
    <3>1. ASSUME NEW k \in 1..Len(path), k - 1 = n
          PROVE  F[k] \in S
      <4>1. F[k - 1] \in S
        BY <1>1, <2>2, <3>1
      <4> QED
        BY <1>2, <1>9, <4>1, Zenon
    <3>2. n + 1 <= Len(path) => n + 1 \in 1..Len(path) /\ (n + 1) - 1 = n
      BY <1>1
    <3>3. n + 1 <= Len(path) => F[n + 1] \in S
      BY <3>1, <3>2, Zenon
    <3> QED
      BY <3>3
  <2> HIDE DEF P
  <2>3. Nat \subseteq P
    BY <2>1, <2>2, Induction
  <2> QED
    BY <1>1, <2>3 DEF P
<1>11. F \in [0..Len(path) -> S]
  <2>1. F = [n \in 0..Len(path) |-> F[n]]
    BY <1>8
  <2> HIDE DEF F
  <2> QED
    BY <1>10, <2>1
<1> QED
  BY <1>9, <1>11 DEF S

\* A sequence without a "/" at its start, and without two of them in a row.
Apart(s) ==
    /\ s # <<>> => s[1] # "/"
    /\ \A k \in 2..Len(s) : s[k] # "/" \/ s[k - 1] # "/"

\* Nor one at its end: segments, with a "/" between each two of them.
Segments(s) == Apart(s) /\ (s # <<>> => s[Len(s)] # "/")

LEMMA AppendApart ==
    ASSUME NEW T, NEW s \in Seq(T), NEW e \in T, Apart(s),
           e = "/" => s # <<>> /\ s[Len(s)] # "/"
    PROVE  /\ Apart(Append(s, e)) /\ Append(s, e) # <<>>
           /\ Append(s, e)[Len(Append(s, e))] = e
           /\ Append(s, e) \in Seq(T) /\ Len(Append(s, e)) = Len(s) + 1
<1> DEFINE t == Append(s, e)
<1>1. /\ t \in Seq(T) /\ t # <<>> /\ Len(t) = Len(s) + 1 /\ Len(s) \in Nat
      /\ \A k \in 1..Len(s) : t[k] = s[k]
      /\ t[Len(s) + 1] = e
  BY AppendProperties
<1> HIDE DEF t
<1>2. s = <<>> \/ Len(s) > 0
  BY EmptySeq
<1>3. t[1] # "/"
  <2>1. CASE s = <<>>
    <3>1. Len(s) = 0
      BY <2>1
    <3> QED
      BY <1>1, <2>1, <3>1
  <2>2. CASE s # <<>>
    <3>1. 1 \in 1..Len(s)
      BY <1>1, <1>2, <2>2
    <3> QED
      BY <1>1, <2>2, <3>1 DEF Apart
  <2> QED
    BY <2>1, <2>2
<1>4. ASSUME NEW k \in 2..Len(t)
      PROVE  t[k] # "/" \/ t[k - 1] # "/"
  <2>1. CASE k <= Len(s)
    <3>1. k \in 2..Len(s) /\ k \in 1..Len(s) /\ k - 1 \in 1..Len(s)
      BY <1>1, <2>1
    <3> QED
      BY <1>1, <3>1 DEF Apart
  <2>2. CASE k = Len(s) + 1
    <3>1. k - 1 = Len(s) /\ Len(s) \in 1..Len(s)
      BY <1>1, <2>2
    <3> QED
      BY <1>1, <2>2, <3>1
  <2>3. k <= Len(s) \/ k = Len(s) + 1
    BY <1>1
  <2> QED
    BY <2>1, <2>2, <2>3
<1>5. Apart(t) /\ t[Len(t)] = e
  BY <1>1, <1>3, <1>4 DEF Apart
<1> QED
  BY <1>1, <1>5 DEF t

\* What is kept of a path are its segments.
LEMMA SqueezedSegments ==
    ASSUME NEW T, NEW path \in Seq(T)
    PROVE  /\ Squeezed(path) \in Seq(T) /\ Segments(Squeezed(path))
           /\ Len(Squeezed(path)) <= Len(path)
           /\ path # <<>> /\ path[1] # "/" => Squeezed(path) # <<>>
<1> DEFINE F == SqueezedUpTo(path)
           End(s) == s[Len(s)]
           Good(n) ==
             /\ Apart(F[n]) /\ Len(F[n]) <= n
             /\ n > 0 /\ path[n] # "/" => F[n] # <<>> /\ End(F[n]) # "/"
             /\ F[n] # <<>> /\ End(F[n]) = "/" =>
                    \E k \in (n + 1)..Len(path) : path[k] # "/"
             /\ n > 0 /\ path[1] # "/" => F[n] # <<>>
           P == {n \in Nat : n <= Len(path) => Good(n)}
<1>1. Len(path) \in Nat /\ \A k \in 1..Len(path) : path[k] \in T
  BY ElementOfSeq
<1>2. F \in [0..Len(path) -> Seq(T)] /\ F[0] = <<>>
      /\ \A k \in 1..Len(path) :
            F[k] = IF IsKept(path, k) THEN Append(F[k - 1], path[k]) ELSE F[k - 1]
  BY SqueezedSteps
<1> HIDE DEF F
<1>3. \A n \in 0..Len(path) : F[n] \in Seq(T)
  BY <1>2
<1>4. 0 \in P
  <2>1. Len(<<>>) = 0
    OBVIOUS
  <2> QED
    BY <1>2, <2>1 DEF Apart
<1>5. ASSUME NEW n \in Nat, n \in P
      PROVE  n + 1 \in P
  <2>1. ASSUME NEW k \in 1..Len(path), k - 1 = n
        PROVE  Good(k)
    <3>1. /\ k \in Nat /\ k = n + 1 /\ n \in 0..Len(path) /\ n <= Len(path) /\ k > 0
          /\ (k > 1 <=> n > 0)
      BY <1>1, <2>1
    <3>2. Good(n) /\ F[n] \in Seq(T) /\ path[k] \in T
      BY <1>1, <1>3, <1>5, <3>1
    <3>3. F[k] = IF IsKept(path, k) THEN Append(F[n], path[k]) ELSE F[n]
      BY <1>2, <2>1
    <3>4. CASE IsKept(path, k)
      <4>1. path[k] = "/" => F[n] # <<>> /\ End(F[n]) # "/"
        BY <2>1, <3>1, <3>2, <3>4 DEF IsKept
      <4>2. /\ Apart(F[k]) /\ F[k] # <<>> /\ End(F[k]) = path[k]
            /\ Len(F[k]) = Len(F[n]) + 1
        <5>1. F[k] = Append(F[n], path[k]) /\ Apart(F[n])
          BY <3>2, <3>3, <3>4
        <5>2. path[k] = "/" => F[n] # <<>> /\ F[n][Len(F[n])] # "/"
          BY <4>1
        <5> QED
          BY <3>2, <5>1, <5>2, AppendApart
      <4>3. Len(F[k]) <= k
        <5>1. Len(F[n]) \in Nat /\ Len(F[n]) <= n
          BY <3>2
        <5> QED
          BY <3>1, <4>2, <5>1
      <4>4. path[k] = "/" => \E m \in (k + 1)..Len(path) : path[m] # "/"
        <5>1. path[k] = "/" => \E m \in k..Len(path) : path[m] # "/"
          BY <3>4 DEF IsKept
        <5>2. \A m \in k..Len(path) : m = k \/ m \in (k + 1)..Len(path)
          BY <1>1, <3>1
        <5> QED
          BY <5>1, <5>2
      <4> QED
        BY <4>2, <4>3, <4>4
    <3>5. CASE ~IsKept(path, k)
      <4>1. F[k] = F[n] /\ path[k] = "/"
        BY <3>3, <3>5 DEF IsKept
      <4>2. Len(F[k]) <= k
        <5>1. Len(F[n]) \in Nat /\ Len(F[n]) <= n
          BY <3>2
        <5> QED
          BY <3>1, <4>1, <5>1
      <4>3. F[k] # <<>> /\ End(F[k]) = "/" => \E m \in (k + 1)..Len(path) : path[m] # "/"
        <5>1. F[n] # <<>> /\ End(F[n]) = "/" => \E m \in k..Len(path) : path[m] # "/"
          BY <3>1, <3>2
        <5>2. \A m \in k..Len(path) : m = k \/ m \in (k + 1)..Len(path)
          BY <1>1, <3>1
        <5> QED
          BY <4>1, <5>1, <5>2
      <4>4. path[1] # "/" => F[k] # <<>>
        <5>1. path[1] # "/" => k # 1
          BY <4>1
        <5>2. path[1] # "/" => n > 0
          BY <3>1, <5>1
        <5> QED
          BY <3>2, <4>1, <5>2
      <4> QED
        BY <3>2, <4>1, <4>2, <4>3, <4>4
    <3> QED
      BY <3>4, <3>5
  <2>2. n + 1 <= Len(path) => n + 1 \in 1..Len(path) /\ (n + 1) - 1 = n
    BY <1>1
  <2> HIDE DEF Good
  <2>3. n + 1 <= Len(path) => Good(n + 1)
    BY <2>1, <2>2, Zenon
  <2> QED
    BY <2>3
<1>6. Good(Len(path))
  <2> HIDE DEF Good
  <2>1. P \in SUBSET Nat
    OBVIOUS
  <2> HIDE DEF P
  <2>2. Len(path) \in P
    BY <1>1, <1>4, <1>5, Induction
  <2> QED
    BY <1>1, <2>2 DEF P
<1>7. Squeezed(path) = F[Len(path)]
  BY DEF Squeezed, F
<1>8. (Len(path) + 1)..Len(path) = {} /\ (path # <<>> => Len(path) > 0)
  BY <1>1, EmptySeq
<1>9. F[Len(path)] \in Seq(T)
  BY <1>1, <1>3
<1> QED
  BY <1>6, <1>7, <1>8, <1>9 DEF Segments

\* A sequence of which the first bytes, and no others, are left out is the
\* others of them.
LEMMA SqueezedSuffix ==
    ASSUME NEW T, NEW p \in Seq(T), NEW s \in Seq(T),
           \A k \in 1..(Len(p) + Len(s)) : IsKept(p \o s, k) <=> k > Len(p)
    PROVE  Squeezed(p \o s) = s
<1> DEFINE c == p \o s
           F == SqueezedUpTo(c)
           Length(n) == IF n <= Len(p) THEN 0 ELSE n - Len(p)
           Good(n) == Len(F[n]) = Length(n) /\ \A j \in 1..Length(n) : F[n][j] = s[j]
           P == {n \in Nat : n <= Len(c) => Good(n)}
<1>1. /\ c \in Seq(T) /\ Len(p) \in Nat /\ Len(s) \in Nat /\ Len(c) = Len(p) + Len(s)
      /\ \A k \in 1..Len(c) : k > Len(p) => c[k] = s[k - Len(p)] /\ c[k] \in T
  BY ConcatProperties, ElementOfSeq
<1>2. \A k \in 1..Len(c) : IsKept(c, k) <=> k > Len(p)
  BY <1>1
<1> HIDE DEF c
<1>3. /\ F \in [0..Len(c) -> Seq(T)] /\ F[0] = <<>>
      /\ \A k \in 1..Len(c) :
            F[k] = IF IsKept(c, k) THEN Append(F[k - 1], c[k]) ELSE F[k - 1]
  BY <1>1, SqueezedSteps
<1> HIDE DEF F
<1>4. \A n \in 0..Len(c) : F[n] \in Seq(T)
  BY <1>3
<1>5. 0 \in P
  <2>1. Len(<<>>) = 0 /\ Length(0) = 0
    BY <1>1
  <2> QED
    BY <1>3, <2>1
<1>6. ASSUME NEW n \in Nat, n \in P
      PROVE  n + 1 \in P
  <2>1. ASSUME NEW k \in 1..Len(c), k - 1 = n
        PROVE  Good(k)
    <3>1. k \in Nat /\ k = n + 1 /\ n \in 0..Len(c) /\ n <= Len(c)
      BY <1>1, <2>1
    <3>2. Good(n) /\ F[n] \in Seq(T)
      BY <1>4, <1>6, <3>1
    <3>3. CASE k <= Len(p)
      <4>1. F[k] = F[n]
        BY <1>1, <1>2, <1>3, <2>1, <3>1, <3>3
      <4>2. Length(k) = Length(n)
        BY <1>1, <3>1, <3>3
      <4> QED
        BY <3>2, <4>1, <4>2
    <3>4. CASE k > Len(p)
      <4>1. F[k] = Append(F[n], c[k]) /\ c[k] \in T /\ c[k] = s[k - Len(p)]
        BY <1>1, <1>2, <1>3, <2>1, <3>4
      <4>2. Length(k) = Length(n) + 1 /\ Length(k) = k - Len(p) /\ Length(n) \in Nat
        BY <1>1, <3>1, <3>4
      <4>3. /\ Len(F[k]) = Len(F[n]) + 1 /\ F[k][Len(F[n]) + 1] = c[k]
            /\ \A j \in 1..Len(F[n]) : F[k][j] = F[n][j]
        BY <3>2, <4>1, AppendProperties, SMTT(30)
      <4> HIDE DEF Length
      <4> QED
        BY <3>2, <4>1, <4>2, <4>3
    <3> QED
      BY <1>1, <3>1, <3>3, <3>4
  <2>2. n + 1 <= Len(c) => n + 1 \in 1..Len(c) /\ (n + 1) - 1 = n
    BY <1>1
  <2> HIDE DEF Good
  <2>3. n + 1 <= Len(c) => Good(n + 1)
    BY <2>1, <2>2, Zenon
  <2> QED
    BY <2>3
<1>7. Good(Len(c))
  <2> HIDE DEF Good
  <2>1. P \in SUBSET Nat
    OBVIOUS
  <2> HIDE DEF P
  <2>2. Len(c) \in Nat
    BY <1>1
  <2>3. Len(c) \in P
    BY <1>5, <1>6, <2>2, Induction
  <2> QED
    BY <2>2, <2>3 DEF P
<1>8. Squeezed(c) = F[Len(c)]
  BY DEF Squeezed, F
<1>9. F[Len(c)] \in Seq(T) /\ Length(Len(c)) = Len(s)
  BY <1>1, <1>4
<1>10. F[Len(c)] = s
  BY <1>1, <1>7, <1>9, SeqEqual
<1> QED
  BY <1>8, <1>10 DEF c

\* Segments are kept as they are, and of what is before them no "/" is.
LEMMA SegmentsAreKept ==
    ASSUME NEW T, NEW p \in Seq(T), NEW s \in Seq(T), Segments(s),
           \A k \in 1..Len(p) : p[k] = "/"
    PROVE  Squeezed(p \o s) = s
<1> DEFINE c == p \o s
<1>1. /\ c \in Seq(T) /\ Len(p) \in Nat /\ Len(s) \in Nat /\ Len(c) = Len(p) + Len(s)
      /\ \A k \in 1..Len(c) : k > Len(p) => c[k] = s[k - Len(p)]
      /\ \A k \in 1..Len(p) : c[k] = "/"
  BY ConcatProperties, ElementOfSeq
<1> HIDE DEF c
<1>2. ASSUME NEW k \in 1..Len(c), k <= Len(p)
      PROVE  ~IsKept(c, k)
  <2>1. k \in 1..Len(p) /\ (k > 1 => k - 1 \in 1..Len(p))
    BY <1>1, <1>2
  <2> QED
    BY <1>1, <2>1 DEF IsKept
<1>3. ASSUME NEW k \in 1..Len(c), k > Len(p)
      PROVE  IsKept(c, k)
  <2> DEFINE j == k - Len(p)
  <2>1. c[k] = s[j] /\ j \in 1..Len(s) /\ Len(c) > Len(p)
    BY <1>1, <1>3
  <2>2. c[Len(c)] = s[Len(s)] /\ Len(c) \in k..Len(c)
    BY <1>1, <2>1
  <2>3. s # <<>>
    BY <2>1
  <2>4. CASE c[k] = "/"
    <3>1. j # 1
      BY <2>1, <2>3, <2>4 DEF Segments, Apart
    <3>2. j \in 2..Len(s) /\ k - 1 \in 1..Len(c) /\ k - 1 > Len(p) /\ (k - 1) - Len(p) = j - 1
      <4>1. /\ k - Len(p) \in 1..Len(s) /\ k - Len(p) # 1
            /\ Len(p) \in Nat /\ Len(s) \in Nat /\ Len(c) = Len(p) + Len(s)
        BY <1>1, <2>1, <3>1
      <4>2. k \in Int
        BY <4>1
      <4> QED
        BY <4>1, <4>2
    <3>3. c[k - 1] = s[j - 1]
      BY <1>1, <3>2
    <3>4. c[k - 1] # "/" /\ c[Len(c)] # "/"
      BY <2>1, <2>2, <2>3, <2>4, <3>2, <3>3 DEF Segments, Apart
    <3>5. k > 1
      BY <1>1, <3>2
    <3> QED
      BY <2>2, <3>4, <3>5 DEF IsKept
  <2> QED
    BY <2>4 DEF IsKept
<1>4. \A k \in 1..(Len(p) + Len(s)) : IsKept(c, k) <=> k > Len(p)
  BY <1>1, <1>2, <1>3
<1> QED
  BY <1>4, SqueezedSuffix DEF c

\* The "/" before the segments of a path which has one.
Root(path) == IF path[1] = "/" THEN <<"/">> ELSE <<>>

\* What verify_path() returns is a path of its own, with no more bytes, and
\* the same path when it is verified again.
LEMMA CanonicalPath ==
    ASSUME NEW T, NEW path \in Seq(T), path # <<>>
    PROVE  /\ Canonical(path) \in Seq(T) /\ Canonical(path) # <<>>
           /\ Len(Canonical(path)) \in Nat
           /\ Canonical(Canonical(path)) = Canonical(path)
           /\ Canonical(path)[1] = "/" =>
                Canonical(<<"/", "/">> \o Canonical(path)) = Canonical(path)
<1> DEFINE s == Squeezed(path)
<1>1. /\ s \in Seq(T) /\ Segments(s)
      /\ (path[1] # "/" => s # <<>>)
  BY SqueezedSegments
<1>2. Canonical(path) = Root(path) \o s
  BY DEF Canonical, Root
<1>3. path[1] \in T /\ (s # <<>> => s[1] # "/")
  <2>1. Len(path) \in Nat \ {0}
    BY EmptySeq
  <2>2. 1 \in 1..Len(path)
    BY <2>1
  <2> HIDE DEF s
  <2> QED
    BY <1>1, <2>2, ElementOfSeq DEF Segments, Apart
<1> HIDE DEF s
<1>4. CASE path[1] # "/"
  <2>1. Canonical(path) = s /\ s # <<>> /\ s[1] # "/"
    BY <1>1, <1>2, <1>3, <1>4 DEF Root
  <2>2. Squeezed(<<>> \o s) = s
    <3>1. <<>> \in Seq(T) /\ \A k \in 1..Len(<<>>) : <<>>[k] = "/"
      BY EmptySeq
    <3> QED
      BY <1>1, <3>1, SegmentsAreKept
  <2>3. <<>> \o s = s
    BY <1>1
  <2>4. Canonical(s) = s
    BY <2>1, <2>2, <2>3 DEF Canonical
  <2>5. Len(s) \in Nat
    BY <1>1
  <2> QED
    BY <1>1, <2>1, <2>4, <2>5
<1>5. CASE path[1] = "/"
  <2>1. "/" \in T
    BY <1>3, <1>5
  <2>2. /\ <<"/">> \in Seq(T) /\ Len(<<"/">>) = 1 /\ <<"/">>[1] = "/"
        /\ <<"/", "/">> \in Seq(T)
    BY <2>1
  <2> DEFINE c == <<"/">> \o s
             d == <<"/", "/">> \o c
             triple == <<"/", "/", "/">>
  <2>3. Canonical(path) = c
    BY <1>2, <1>5 DEF Root
  <2>4. c \in Seq(T) /\ Len(c) = Len(s) + 1 /\ c[1] = "/" /\ c # <<>> /\ Len(c) \in Nat
    <3>1. /\ c \in Seq(T) /\ Len(c) = 1 + Len(s) /\ Len(s) \in Nat
          /\ c[1] = <<"/">>[1]
      BY <1>1, <2>2, ConcatProperties
    <3> HIDE DEF c
    <3> QED
      BY <2>2, <3>1
  <2>5. Squeezed(c) = s
    <3>1. \A k \in 1..Len(<<"/">>) : <<"/">>[k] = "/"
      BY <2>2
    <3> QED
      BY <1>1, <2>2, <3>1, SegmentsAreKept
  <2>6. d = triple \o s /\ d[1] = "/" /\ triple \in Seq(T)
    <3>1. triple \in Seq(T) /\ <<"/", "/">> \o <<"/">> = triple
      <4>1. \A e \in T : <<e, e, e>> \in Seq(T)
        OBVIOUS
      <4>2. ASSUME NEW e \in T
            PROVE  <<e, e>> \o <<e>> = <<e, e, e>>
        <5> DEFINE x == <<e, e>> \o <<e>>
                   y == <<e, e, e>>
        <5>1. /\ <<e, e>> \in Seq(T) /\ Len(<<e, e>>) = 2 /\ <<e>> \in Seq(T) /\ Len(<<e>>) = 1
              /\ \A k \in 1..2 : <<e, e>>[k] = e
              /\ <<e>>[1] = e
          OBVIOUS
        <5>2. x \in Seq(T) /\ Len(x) = 3 /\ \A k \in 1..3 : x[k] = e
          BY <5>1, ConcatProperties
        <5>3. y \in Seq(T) /\ Len(y) = 3 /\ \A k \in 1..3 : y[k] = e
          OBVIOUS
        <5> HIDE DEF x, y
        <5>4. x = y
          BY <5>2, <5>3, SeqEqual
        <5> QED
          BY <5>4 DEF x, y
      <4> QED
        BY <2>1, <4>1, <4>2
    <3>2. d = triple \o s
      <4>1. (<<"/", "/">> \o <<"/">>) \o s = <<"/", "/">> \o (<<"/">> \o s)
        BY <1>1, <2>2, ConcatAssociative
      <4> QED
        BY <3>1, <4>1
    <3>3. d[1] = "/"
      BY <2>2, <2>4, ConcatProperties
    <3> QED
      BY <3>1, <3>2, <3>3
  <2>7. Squeezed(d) = s
    <3>1. \A k \in 1..Len(triple) : triple[k] = "/"
      OBVIOUS
    <3> HIDE DEF d, triple
    <3>2. Squeezed(triple \o s) = s
      BY <1>1, <2>6, <3>1, SegmentsAreKept
    <3> QED
      BY <2>6, <3>2
  <2>8. Canonical(c) = c
    <3>1. Canonical(c) = <<"/">> \o Squeezed(c)
      BY <2>4 DEF Canonical
    <3> QED
      BY <2>5, <3>1
  <2>9. Canonical(d) = c
    <3>1. Canonical(d) = <<"/">> \o Squeezed(d)
      BY <2>6 DEF Canonical
    <3> QED
      BY <2>7, <3>1
  <2> QED
    BY <2>3, <2>4, <2>8, <2>9
<1> QED
  BY <1>4, <1>5

-----------------------------------------------------------------------------
(* Names, and the buffers which have them                                  *)

\* What a file or, when abstract, an abstract socket may be named.
IsName(c, abstract) ==
    c \in Seq(Bytes) /\ Canonical(c) = c /\ Verifies(c, abstract)

\* A path which is verified has such a name, and so has the path to_uri()
\* writes for a name with a "/" first.
LEMMA VerifiedName ==
    ASSUME NEW path \in Seq(Bytes), NEW abstract \in BOOLEAN, Verifies(path, abstract)
    PROVE  IsName(Canonical(path), abstract)
<1> DEFINE T == ToSet(path)
           c == Canonical(path)
<1>1. path \in Seq(T) /\ path # <<>>
  BY DEF Verifies, ToSet
<1>2. T \subseteq Bytes /\ T \cap Controls = {}
  BY DEF Verifies, ToSet
<1> HIDE DEF T
<1>3. c \in Seq(T) /\ c # <<>> /\ Canonical(c) = c
  BY <1>1, CanonicalPath
<1>4. ToSet(c) \subseteq T
  <2> HIDE DEF c
  <2> QED
    BY <1>3 DEF ToSet
<1>5. c \in Seq(Bytes)
  BY <1>2, <1>3, SeqMonotonic
<1>6. Verifies(c, abstract)
  BY <1>2, <1>3, <1>4 DEF Verifies
<1> QED
  BY <1>3, <1>5, <1>6 DEF IsName

LEMMA NameBytes ==
    ASSUME NEW c, NEW abstract \in BOOLEAN, IsName(c, abstract)
    PROVE  /\ c \in Seq(Bytes) /\ Len(c) \in Nat /\ Len(c) > 0 /\ c # <<>>
           /\ Len(c) < (IF abstract THEN PathSize - 1 ELSE PathSize)
           /\ \A k \in 1..Len(c) : c[k] \in Bytes /\ c[k] # NUL
<1>1. c \in Seq(Bytes) /\ c # <<>>
  BY DEF IsName, Verifies
<1>2. Len(c) \in Nat /\ Len(c) > 0
  BY <1>1, EmptySeq
<1>3. Len(c) < (IF abstract THEN PathSize - 1 ELSE PathSize)
  BY DEF IsName, Verifies
<1>4. \A k \in 1..Len(c) : c[k] \in Bytes
  BY <1>1, ElementOfSeq
<1> QED
  BY <1>1, <1>2, <1>3, <1>4, UnixAddressAssumption

\* The bytes of the buffers which have the name c.
FileOf(c) == [k \in 1..PathSize |-> IF k <= Len(c) THEN c[k] ELSE NUL]
AbstractOf(c) == [k \in 1..PathSize |->
    IF k = 1 THEN NUL ELSE IF k <= Len(c) + 1 THEN c[k - 1] ELSE NUL]

\* set_file() writes every byte of the buffer: the name, then NULs.
LEMMA FileBytes ==
    ASSUME NEW T, NEW b, NEW path \in Seq(T), path # <<>>
    PROVE  FileBuffer(b, path) = FileOf(Canonical(path))
<1>1. Len(Canonical(path)) \in Nat
  BY CanonicalPath
<1> QED
  BY <1>1, UnixAddressAssumption DEF FileBuffer, ClearFrom, Write, FileOf

\* set_abstract() writes every byte of the buffer as well, the first one with
\* a NUL and the one which is between the copy and the memset() too.
LEMMA AbstractBytes ==
    ASSUME NEW T, NEW b, NEW path \in Seq(T), path # <<>>
    PROVE  AbstractBuffer(b, path) = AbstractOf(Canonical(path))
<1>1. Len(Canonical(path)) \in Nat
  BY CanonicalPath
<1>2. Len(<<NUL>>) = 1 /\ <<NUL>>[1] = NUL
  OBVIOUS
<1>3. \A k \in 1..PathSize : Write(b, 1, <<NUL>>)[k] = IF k = 1 THEN NUL ELSE b[k]
  BY <1>2 DEF Write
<1> DEFINE cleared == ClearFrom(Write(b, 1, <<NUL>>), 2)
<1>4. \A k \in 1..PathSize : cleared[k] = NUL
  BY <1>3 DEF ClearFrom
<1> HIDE DEF cleared
<1> QED
  BY <1>1, <1>4, UnixAddressAssumption DEF AbstractBuffer, ClearFrom, Write, cleared, AbstractOf

\* The string at the start, or at the second byte, of a buffer.
LEMMA CStringIs ==
    ASSUME NEW b \in Buffers, NEW i \in {1, 2}, NEW c \in Seq(Bytes),
           i + Len(c) <= PathSize, b[i + Len(c)] = NUL,
           \A j \in 1..Len(c) : b[i + j - 1] = c[j]
    PROVE  CString(b, i) = c
<1> DEFINE ends == {k \in i..PathSize : b[k] = NUL}
           e == i + Len(c)
           T == Bytes \cup {NUL}
<1>1. /\ Len(c) \in Nat /\ i \in Nat /\ PathSize \in Nat
      /\ \A j \in 1..Len(c) : c[j] \in Bytes /\ c[j] # NUL
  BY UnixAddressAssumption, ElementOfSeq
<1>2. e \in ends /\ ends \in SUBSET Nat
  BY <1>1
<1>3. \A k \in ends : e <= k
  <2> SUFFICES ASSUME NEW k \in ends, k < e
               PROVE  FALSE
    BY <1>1
  <2>1. (k - i) + 1 \in 1..Len(c) /\ (i + ((k - i) + 1)) - 1 = k
    BY <1>1
  <2>2. b[k] = c[(k - i) + 1]
    BY <2>1
  <2> QED
    BY <1>1, <2>1, <2>2
<1>4. Min(ends) = e
  <2>1. Min(ends) \in ends /\ Min(ends) <= e
    BY <1>2, MinOfNats
  <2>2. Min(ends) \in Nat /\ e \in Nat /\ e <= Min(ends)
    BY <1>2, <1>3, <2>1, Zenon
  <2> HIDE DEF ends, e
  <2> QED
    BY <2>1, <2>2
<1>5. CString(b, i) = SubSeq(b, i, e - 1)
  BY <1>2, <1>4 DEF CString
<1>6. \A k \in i..(e - 1) : b[k] \in Bytes
  <2> SUFFICES ASSUME NEW k \in i..(e - 1)
               PROVE  b[k] \in Bytes
    OBVIOUS
  <2>1. (k - i) + 1 \in 1..Len(c) /\ (i + ((k - i) + 1)) - 1 = k
    BY <1>1
  <2>2. b[k] = c[(k - i) + 1]
    BY <2>1
  <2> QED
    BY <1>1, <2>1, <2>2
<1> DEFINE s == SubSeq(b, i, e - 1)
<1>7. s \in Seq(Bytes) /\ Len(s) = Len(c) /\ \A j \in 1..Len(c) : s[j] = b[i + j - 1]
  <2>1. i \in Int /\ e - 1 \in Int /\ (e - 1) - i + 1 = Len(c)
        /\ (i <= e - 1 \/ Len(c) = 0)
    BY <1>1
  <2>2. /\ s \in Seq(Bytes)
        /\ Len(s) = IF i <= e - 1 THEN (e - 1) - i + 1 ELSE 0
        /\ \A j \in 1..((e - 1) - i + 1) : s[j] = b[i + j - 1]
    BY <1>6, <2>1, SubSeqProperties
  <2> HIDE DEF s, e
  <2> QED
    BY <2>1, <2>2
<1> HIDE DEF s
<1>8. s = c
  BY <1>7, SeqEqual
<1> QED
  BY <1>5, <1>8 DEF s

LEMMA FileBuffers ==
    ASSUME NEW c, IsName(c, FALSE)
    PROVE  /\ FileOf(c) \in Buffers /\ IsFile(FileOf(c)) /\ FileOf(c)[PathSize] = NUL
           /\ ~IsAbstract(FileOf(c)) /\ ~IsUnnamed(FileOf(c))
           /\ CString(FileOf(c), 1) = c /\ Name(FileOf(c)) = c
<1> DEFINE b == FileOf(c)
<1>1. /\ c \in Seq(Bytes) /\ Len(c) \in Nat /\ Len(c) > 0 /\ Len(c) < PathSize
      /\ \A k \in 1..Len(c) : c[k] \in Bytes /\ c[k] # NUL
  BY NameBytes
<1>2. PathSize \in Nat
  BY UnixAddressAssumption
<1>3. b = [k \in 1..PathSize |-> IF k <= Len(c) THEN c[k] ELSE NUL]
  BY DEF FileOf
<1> HIDE DEF b
<1>4. b \in Buffers
  BY <1>1, <1>2, <1>3 DEF Buffers
<1>5. b[PathSize] = NUL /\ b[1] # NUL /\ b[1 + Len(c)] = NUL
  BY <1>1, <1>2, <1>3
<1>6. \A j \in 1..Len(c) : b[1 + j - 1] = c[j]
  BY <1>1, <1>2, <1>3
<1>7. CString(b, 1) = c
  BY <1>1, <1>2, <1>4, <1>5, <1>6, CStringIs
<1> QED
  BY <1>4, <1>5, <1>7 DEF IsFile, IsAbstract, IsUnnamed, Name, b

LEMMA AbstractBuffers ==
    ASSUME NEW c, IsName(c, TRUE)
    PROVE  /\ AbstractOf(c) \in Buffers /\ ~IsFile(AbstractOf(c)) /\ IsAbstract(AbstractOf(c))
           /\ ~IsUnnamed(AbstractOf(c)) /\ AbstractOf(c)[PathSize] = NUL
           /\ CString(AbstractOf(c), 2) = c /\ Name(AbstractOf(c)) = c
<1> DEFINE b == AbstractOf(c)
<1>1. /\ c \in Seq(Bytes) /\ Len(c) \in Nat /\ Len(c) > 0 /\ Len(c) < PathSize - 1
      /\ \A k \in 1..Len(c) : c[k] \in Bytes /\ c[k] # NUL
  BY NameBytes
<1>2. PathSize \in Nat /\ PathSize > 2
  BY UnixAddressAssumption
<1>3. b = [k \in 1..PathSize |->
              IF k = 1 THEN NUL ELSE IF k <= Len(c) + 1 THEN c[k - 1] ELSE NUL]
  BY DEF AbstractOf
<1> HIDE DEF b
<1>4. b \in Buffers
  <2> SUFFICES ASSUME NEW k \in 1..PathSize, k # 1, k <= Len(c) + 1
               PROVE  c[k - 1] \in Bytes
    BY <1>3 DEF Buffers
  <2>1. k - 1 \in 1..Len(c)
    BY <1>1
  <2> QED
    BY <1>1, <2>1
<1>5. b[PathSize] = NUL /\ b[1] = NUL /\ b[2 + Len(c)] = NUL
  BY <1>1, <1>2, <1>3
<1>6. \A j \in 1..Len(c) : b[2 + j - 1] = c[j]
  BY <1>1, <1>2, <1>3
<1>7. b[2] # NUL
  <2>1. 1 \in 1..Len(c) /\ 2 + 1 - 1 = 2
    BY <1>1
  <2> QED
    BY <1>1, <1>6, <2>1
<1>8. CString(b, 2) = c
  BY <1>1, <1>2, <1>4, <1>5, <1>6, CStringIs
<1> QED
  BY <1>4, <1>5, <1>7, <1>8 DEF IsFile, IsAbstract, IsUnnamed, Name, b

LEMMA NoName ==
    /\ Zeroes \in Buffers /\ ~IsFile(Zeroes) /\ ~IsAbstract(Zeroes) /\ IsUnnamed(Zeroes)
    /\ Zeroes[PathSize] = NUL /\ Name(Zeroes) = <<>>
<1>1. PathSize \in Nat /\ PathSize > 2
  BY UnixAddressAssumption
<1>2. \A k \in 1..PathSize : Zeroes[k] = NUL
  BY DEF Zeroes
<1>3. Zeroes \in Buffers
  BY DEF Zeroes, Buffers
<1>4. /\ <<>> \in Seq(Bytes) /\ Len(<<>>) = 0 /\ Zeroes[1] = NUL /\ Zeroes[2] = NUL
      /\ Zeroes[PathSize] = NUL
  BY <1>1, <1>2
<1>5. CString(Zeroes, 1) = <<>>
  <2> DEFINE c == <<>>
  <2>1. c \in Seq(Bytes) /\ Len(c) = 0 /\ 1 + Len(c) = 1 /\ 1 + Len(c) <= PathSize
    BY <1>1, <1>4
  <2>2. Zeroes[1 + Len(c)] = NUL /\ \A j \in 1..Len(c) : Zeroes[1 + j - 1] = c[j]
    BY <1>4, <2>1
  <2> HIDE DEF c
  <2>3. CString(Zeroes, 1) = c
    BY <1>3, <2>1, <2>2, CStringIs
  <2> QED
    BY <2>3 DEF c
<1> QED
  BY <1>3, <1>4, <1>5 DEF IsFile, IsAbstract, IsUnnamed, Name

\* The string of a buffer which ends.
LEMMA CStringBytes ==
    ASSUME NEW b \in Buffers, NEW i \in {1, 2}, \E k \in i..PathSize : b[k] = NUL
    PROVE  CString(b, i) \in Seq(Bytes)
<1> DEFINE ends == {k \in i..PathSize : b[k] = NUL}
<1>1. ends \in SUBSET Nat /\ ends # {} /\ ends \subseteq i..PathSize
  BY UnixAddressAssumption
<1>2. Min(ends) \in ends /\ \A k \in ends : Min(ends) <= k
  BY <1>1, MinOfNats
<1>3. CString(b, i) = SubSeq(b, i, Min(ends) - 1)
  BY <1>1 DEF CString
<1>4. Min(ends) \in Nat /\ Min(ends) <= PathSize /\ PathSize \in Nat /\ i \in Nat /\ i >= 1
  BY <1>1, <1>2, UnixAddressAssumption
<1>5. ASSUME NEW k \in i..(Min(ends) - 1)
      PROVE  b[k] \in Bytes
  <2>1. k \in i..PathSize /\ k \in 1..PathSize /\ ~(Min(ends) <= k)
    BY <1>4
  <2>2. b[k] # NUL
    BY <1>2, <2>1
  <2> QED
    BY <2>1, <2>2 DEF Buffers
<1>6. SubSeq(b, i, Min(ends) - 1) \in Seq(Bytes)
  <2>1. i \in Int /\ Min(ends) - 1 \in Int
    BY <1>4
  <2> HIDE DEF ends
  <2> QED
    BY <1>5, <2>1, SubSeqProperties
<1> QED
  BY <1>3, <1>6

\* The buffers an address may have: those of a name, and the one of none.
Addressed(u) ==
    \/ u = Zeroes
    \/ \E c : IsName(c, FALSE) /\ u = FileOf(c)
    \/ \E c : IsName(c, TRUE) /\ u = AbstractOf(c)

LEMMA AddressedBuffers ==
    ASSUME NEW u, Addressed(u)
    PROVE  /\ u \in Buffers /\ u[PathSize] = NUL
           /\ Name(u) \in Seq(Bytes) /\ Len(Name(u)) \in Nat /\ Len(Name(u)) < PathSize
<1>1. CASE u = Zeroes
  <2>1. <<>> \in Seq(Bytes) /\ Len(<<>>) = 0 /\ 0 < PathSize
    BY UnixAddressAssumption
  <2> QED
    BY <1>1, <2>1, NoName
<1>2. ASSUME NEW c, IsName(c, FALSE), u = FileOf(c)
      PROVE  /\ u \in Buffers /\ u[PathSize] = NUL
             /\ Name(u) \in Seq(Bytes) /\ Len(Name(u)) \in Nat /\ Len(Name(u)) < PathSize
  BY <1>2, FileBuffers, NameBytes
<1>3. ASSUME NEW c, IsName(c, TRUE), u = AbstractOf(c)
      PROVE  /\ u \in Buffers /\ u[PathSize] = NUL
             /\ Name(u) \in Seq(Bytes) /\ Len(Name(u)) \in Nat /\ Len(Name(u)) < PathSize
  <2>1. Len(c) \in Nat /\ Len(c) < PathSize - 1 /\ c \in Seq(Bytes)
    BY <1>3, NameBytes
  <2>2. Len(c) < PathSize
    BY <2>1, UnixAddressAssumption
  <2> QED
    BY <1>3, <2>1, <2>2, AbstractBuffers
<1> QED
  BY <1>1, <1>2, <1>3 DEF Addressed

-----------------------------------------------------------------------------
(* The calls                                                               *)

\* What f_scheme may be: set_scheme() turns "unix" to "".
HeldSchemes == (Schemes \ {"unix"}) \cup {""}

\* A call on o throws and leaves it as it was, or does not throw and gives it
\* the buffer of a name, or the one it had.
Outcome(o, q) ==
    \/ q = [un |-> o.un, scheme |-> o.scheme, threw |-> TRUE]
    \/ \E u, s : /\ u = o.un \/ Addressed(u)
                 /\ s = o.scheme \/ s \in HeldSchemes
                 /\ q = [un |-> u, scheme |-> s, threw |-> FALSE]

\* Setting a path which is verified gives the buffer of its name.
LEMMA SetPaths ==
    ASSUME NEW o, NEW path \in Seq(Bytes)
    PROVE  /\ Verifies(path, FALSE) =>
                /\ SetFile(o, path) = Holds(o, FileOf(Canonical(path)))
                /\ Addressed(FileOf(Canonical(path)))
           /\ Verifies(path, TRUE) =>
                /\ SetAbstract(o, path) = Holds(o, AbstractOf(Canonical(path)))
                /\ Addressed(AbstractOf(Canonical(path)))
<1>1. ASSUME Verifies(path, FALSE)
      PROVE  /\ SetFile(o, path) = Holds(o, FileOf(Canonical(path)))
             /\ Addressed(FileOf(Canonical(path)))
  <2>1. path # <<>>
    BY <1>1 DEF Verifies
  <2>2. FileBuffer(o.un, path) = FileOf(Canonical(path))
    BY <2>1, FileBytes
  <2>3. IsName(Canonical(path), FALSE)
    BY <1>1, VerifiedName
  <2> QED
    BY <1>1, <2>2, <2>3 DEF SetFile, Addressed
<1>2. ASSUME Verifies(path, TRUE)
      PROVE  /\ SetAbstract(o, path) = Holds(o, AbstractOf(Canonical(path)))
             /\ Addressed(AbstractOf(Canonical(path)))
  <2>1. path # <<>>
    BY <1>2 DEF Verifies
  <2>2. AbstractBuffer(o.un, path) = AbstractOf(Canonical(path))
    BY <2>1, AbstractBytes
  <2>3. IsName(Canonical(path), TRUE)
    BY <1>2, VerifiedName
  <2> QED
    BY <1>2, <2>2, <2>3 DEF SetAbstract, Addressed
<1> QED
  BY <1>1, <1>2

LEMMA PathOutcomes ==
    ASSUME NEW o, NEW path \in Seq(Bytes)
    PROVE  /\ Outcome(o, SetFile(o, path))
           /\ Outcome(o, SetAbstract(o, path))
           /\ Outcome(o, MakeUnnamed(o))
           /\ Outcome(o, Throws(o))
<1>1. Outcome(o, Throws(o))
  BY DEF Outcome, Throws
<1>2. \A b : Addressed(b) => Outcome(o, Holds(o, b))
  BY DEF Outcome, Holds
<1>3. Outcome(o, MakeUnnamed(o))
  BY <1>2 DEF MakeUnnamed, Addressed
<1>4. Outcome(o, SetFile(o, path))
  <2>1. ~Verifies(path, FALSE) => SetFile(o, path) = Throws(o)
    BY DEF SetFile
  <2> QED
    BY <1>1, <1>2, <2>1, SetPaths
<1>5. Outcome(o, SetAbstract(o, path))
  <2>1. ~Verifies(path, TRUE) => SetAbstract(o, path) = Throws(o)
    BY DEF SetAbstract
  <2> QED
    BY <1>1, <1>2, <2>1, SetPaths
<1> QED
  BY <1>1, <1>3, <1>4, <1>5

LEMMA StructureOutcome ==
    ASSUME NEW o, NEW b \in Buffers
    PROVE  Outcome(o, SetUn(o, b))
<1>1. CASE IsFile(b)
  <2>1. CASE \A k \in 1..PathSize : b[k] # NUL
    BY <1>1, <2>1 DEF SetUn, Throws, Outcome
  <2>2. CASE \E k \in 1..PathSize : b[k] = NUL
    BY <1>1, <2>2, CStringBytes, PathOutcomes DEF SetUn
  <2> QED
    BY <2>1, <2>2
<1>2. CASE ~IsFile(b) /\ IsAbstract(b)
  <2>1. CASE \A k \in 2..PathSize : b[k] # NUL
    BY <1>2, <2>1 DEF SetUn, Throws, Outcome
  <2>2. CASE \E k \in 2..PathSize : b[k] = NUL
    BY <1>2, <2>2, CStringBytes, PathOutcomes DEF SetUn
  <2> QED
    BY <2>1, <2>2
<1>3. CASE ~IsFile(b) /\ ~IsAbstract(b)
  <2>1. <<>> \in Seq(Bytes)
    OBVIOUS
  <2> QED
    BY <1>3, <2>1, PathOutcomes DEF SetUn
<1> QED
  BY <1>1, <1>2, <1>3

LEMMA SchemeOutcome ==
    ASSUME NEW o, NEW q, Outcome(o, q), ~q.threw, NEW s \in Schemes
    PROVE  Outcome(o, SetScheme(q, s))
<1>1. PICK u, r : /\ u = o.un \/ Addressed(u)
                  /\ q = [un |-> u, scheme |-> r, threw |-> FALSE]
  BY DEF Outcome
<1> DEFINE t == IF s = "unix" THEN "" ELSE s
<1>2. SetScheme(q, s) = [un |-> u, scheme |-> t, threw |-> FALSE]
  BY <1>1 DEF SetScheme
<1>3. t \in HeldSchemes
  BY DEF HeldSchemes
<1> HIDE DEF t
<1> QED
  BY <1>1, <1>2, <1>3 DEF Outcome

\* The first "?" of a URI, or its end.
LEMMA MarkOfUri ==
    ASSUME NEW T, NEW rest \in Seq(T)
    PROVE  /\ Len(rest) \in Nat /\ Mark(rest) \in 1..(Len(rest) + 1)
           /\ \A k \in 1..Len(rest) : rest[k] = "?" => Mark(rest) <= k
           /\ Mark(rest) <= Len(rest) => rest[Mark(rest)] = "?"
<1> DEFINE marked == rest \o <<"?">>
           I == {i \in 1..Len(marked) : marked[i] = "?"}
<1>1. /\ Len(rest) \in Nat /\ Len(marked) = Len(rest) + 1
      /\ marked[Len(rest) + 1] = "?"
      /\ \A k \in 1..Len(rest) : marked[k] = rest[k]
  OBVIOUS
<1>2. I \in SUBSET Nat /\ I # {} /\ I \subseteq 1..(Len(rest) + 1)
  BY <1>1
<1>3. Mark(rest) = IF I # {} THEN Min(I) ELSE 0
  BY DEF Mark, SelectInSeq
<1>4. \A k \in 1..Len(rest) : (rest[k] = "?" => k \in I) /\ (k \in I => rest[k] = "?")
  BY <1>1
<1> HIDE DEF I
<1>5. Mark(rest) \in I /\ \A k \in I : Mark(rest) <= k
  BY <1>2, <1>3, MinOfNats
<1>6. Mark(rest) \in 1..(Len(rest) + 1)
  BY <1>2, <1>5
<1>7. Mark(rest) <= Len(rest) => Mark(rest) \in 1..Len(rest)
  BY <1>1, <1>6
<1> QED
  BY <1>1, <1>4, <1>5, <1>6, <1>7

\* set_uri() sets the scheme once nothing can throw any more.
LEMMA UriOutcome ==
    ASSUME NEW o, NEW uri, uri.rest \in Seq(Bytes)
    PROVE  Outcome(o, SetUri(o, uri))
<1> DEFINE rest == uri.rest
           path == PathOf(rest)
           set == SetUriPath(o, path, QueryOf(rest))
<1>1. path \in Seq(Bytes)
  <2>1. Mark(rest) \in 1..(Len(rest) + 1) /\ Len(rest) \in Nat
    BY MarkOfUri
  <2>2. 1 \in Int /\ Mark(rest) - 1 \in Int /\ \A k \in 1..(Mark(rest) - 1) : k \in 1..Len(rest)
    BY <2>1
  <2>3. \A k \in 1..(Mark(rest) - 1) : rest[k] \in Bytes
    BY <2>2, ElementOfSeq
  <2> QED
    BY <2>2, <2>3, SubSeqProperties DEF PathOf
<1> HIDE DEF path
<1>2. /\ Outcome(o, SetFile(o, path)) /\ Outcome(o, SetAbstract(o, path))
      /\ Outcome(o, MakeUnnamed(o)) /\ Outcome(o, Throws(o))
  BY <1>1, PathOutcomes
<1>3. Outcome(o, set)
  BY <1>2 DEF SetUriPath
<1>4. SetUri(o, uri) = IF uri.scheme \notin LetterSchemes THEN Throws(o)
                       ELSE SchemeUnlessThrew(set, uri.scheme)
  BY DEF SetUri, path
<1>5. uri.scheme \in LetterSchemes => uri.scheme \in Schemes
  BY UnixAddressAssumption
<1> HIDE DEF set
<1> QED
  BY <1>2, <1>3, <1>4, <1>5, SchemeOutcome DEF SchemeUnlessThrew

-----------------------------------------------------------------------------
(* The invariant                                                           *)

\* The address has the buffer of a name.
Held == Addressed(un) /\ scheme \in HeldSchemes

\* What the kernel says of a socket which the program bound.
SocketOfBound ==
    bound # <<>> =>
        /\ Addressed(bound)
        /\ socket = IF IsFile(bound) THEN Append(Name(bound), NUL) ELSE bound

Types ==
    /\ mode \in {"default", "changed"} /\ group \in {"", "changed"}
    /\ files \subseteq Seq(Bytes)
    /\ socket \in Seq(Bytes \cup {NUL})
    /\ threw \in BOOLEAN

Inv == Held /\ SocketOfBound /\ Types

LEMMA PathsAreBytes == \A path \in Paths : path \in Seq(Bytes)
  BY UnixAddressAssumption

LEMMA NotThrown ==
    ASSUME NEW o, NEW q, Outcome(o, q), ~q.threw, Addressed(o.un)
    PROVE  Addressed(q.un)
<1>1. PICK u, r : /\ u = o.un \/ Addressed(u)
                  /\ q = [un |-> u, scheme |-> r, threw |-> FALSE]
  BY DEF Outcome
<1> QED
  BY <1>1

LEMMA NewOutcome ==
    ASSUME NEW path \in Paths, NEW abstract \in BOOLEAN
    PROVE  Outcome(NewObject, IF abstract THEN SetAbstract(NewObject, path)
                              ELSE IF path = <<>> THEN NewObject ELSE SetFile(NewObject, path))
<1>1. Outcome(NewObject, SetAbstract(NewObject, path))
      /\ Outcome(NewObject, SetFile(NewObject, path))
  BY PathsAreBytes, PathOutcomes
<1>2. Outcome(NewObject, NewObject)
  BY DEF NewObject, Outcome
<1> QED
  BY <1>1, <1>2

\* The program's own socket gives a structure with its name.
LEMMA ReceivedBuffer ==
    ASSUME NEW name \in Seq(Bytes \cup {NUL}), NEW stack
    PROVE  Received(name, stack) \in Buffers
<1>1. Len(name) \in Nat /\ \A k \in 1..Len(name) : name[k] \in Bytes \cup {NUL}
  BY ElementOfSeq
<1>2. \A k \in 1..PathSize : k <= Len(name) => k \in 1..Len(name)
  BY <1>1, UnixAddressAssumption
<1> QED
  BY <1>1, <1>2 DEF Received, Buffers

\* The steps which are calls of the object it has already.
Calls ==
    \/ \E s \in Schemes : CallSetScheme(s)
    \/ CallMakeUnnamed
    \/ \E path \in Paths : CallSetFile(path) \/ CallSetAbstract(path)
    \/ \E b \in Structures : CallSetUn(b)
    \/ \E s \in Schemes, path \in Paths, query \in Queries : CallSetUri(s, path, query)
    \/ \E stack \in Bytes \cup {NUL} : SetFromSocket(stack)

LEMMA CallOutcome ==
    ASSUME Inv, Calls
    PROVE  \E q : Outcome(Object, q) /\ Becomes(q)
<1>1. ASSUME NEW s \in Schemes, CallSetScheme(s)
      PROVE  \E q : Outcome(Object, q) /\ Becomes(q)
  <2>1. Outcome(Object, Object) /\ ~Object.threw
    BY DEF Outcome, Object
  <2> QED
    BY <1>1, <2>1, SchemeOutcome DEF CallSetScheme
<1>2. ASSUME CallMakeUnnamed
      PROVE  \E q : Outcome(Object, q) /\ Becomes(q)
  <2>1. <<>> \in Seq(Bytes)
    OBVIOUS
  <2> QED
    BY <1>2, <2>1, PathOutcomes DEF CallMakeUnnamed
<1>3. ASSUME NEW path \in Paths, CallSetFile(path) \/ CallSetAbstract(path)
      PROVE  \E q : Outcome(Object, q) /\ Becomes(q)
  BY <1>3, PathsAreBytes, PathOutcomes DEF CallSetFile, CallSetAbstract
<1>4. ASSUME NEW b \in Structures, CallSetUn(b)
      PROVE  \E q : Outcome(Object, q) /\ Becomes(q)
  <2>1. b \in Buffers
    BY UnixAddressAssumption
  <2> QED
    BY <1>4, <2>1, StructureOutcome DEF CallSetUn
<1>5. ASSUME NEW s \in Schemes, NEW path \in Paths, NEW query \in Queries,
             CallSetUri(s, path, query)
      PROVE  \E q : Outcome(Object, q) /\ Becomes(q)
  <2> DEFINE uri == [scheme |-> s, rest |-> path \o query]
  <2>1. path \in Seq(Bytes)
    BY PathsAreBytes
  <2>2. query \in Seq(Bytes)
    <3>1. /\ "?" \in Bytes /\ "unnamed" \in Bytes /\ "file" \in Bytes
          /\ "abstract" \in Bytes
      BY UnixAddressAssumption
    <3>2. \A c, d, e \in Bytes : /\ <<c>> \in Seq(Bytes) /\ <<c, d>> \in Seq(Bytes)
                                 /\ <<c, d, e>> \in Seq(Bytes)
      OBVIOUS
    <3>3. <<>> \in Seq(Bytes)
      OBVIOUS
    <3> QED
      BY <3>1, <3>2, <3>3, Zenon DEF Queries
  <2>3. uri.rest \in Seq(Bytes)
    BY <2>1, <2>2, ConcatProperties
  <2> HIDE DEF uri
  <2>4. Outcome(Object, SetUri(Object, uri))
    BY <2>3, UriOutcome
  <2> QED
    BY <1>5, <2>4 DEF CallSetUri, uri
<1>6. ASSUME NEW stack, SetFromSocket(stack)
      PROVE  \E q : Outcome(Object, q) /\ Becomes(q)
  <2>1. Received(socket, stack) \in Buffers
    BY ReceivedBuffer DEF Inv, Types
  <2> QED
    BY <1>6, <2>1, StructureOutcome DEF SetFromSocket
<1> QED
  BY <1>1, <1>2, <1>3, <1>4, <1>5, <1>6 DEF Calls

\* What a call changes: the address to one with the buffer of a name, and
\* nothing of it when the call throws.
LEMMA CallChanges ==
    ASSUME Inv, Calls
    PROVE  /\ Addressed(un') /\ scheme' \in HeldSchemes /\ threw' \in BOOLEAN
           /\ threw' => un' = un /\ scheme' = scheme
           /\ UNCHANGED <<mode, group, files, socket, bound>>
<1>1. PICK q : Outcome(Object, q) /\ Becomes(q)
  BY CallOutcome
<1>2. Object.un = un /\ Object.scheme = scheme /\ Addressed(un) /\ scheme \in HeldSchemes
  BY DEF Object, Inv, Held
<1>3. /\ un' = q.un /\ scheme' = q.scheme /\ threw' = q.threw
      /\ UNCHANGED <<mode, group, files, socket, bound>>
  BY <1>1 DEF Becomes
<1>4. CASE q = [un |-> un, scheme |-> scheme, threw |-> TRUE]
  BY <1>2, <1>3, <1>4
<1>5. ASSUME NEW u, NEW s, u = un \/ Addressed(u), s = scheme \/ s \in HeldSchemes,
             q = [un |-> u, scheme |-> s, threw |-> FALSE]
      PROVE  Addressed(q.un) /\ q.scheme \in HeldSchemes /\ q.threw = FALSE
  BY <1>2, <1>5
<1> QED
  BY <1>1, <1>2, <1>3, <1>4, <1>5 DEF Outcome

LEMMA InitInv == Init => Inv
<1> SUFFICES ASSUME Init
             PROVE  Inv
  OBVIOUS
<1>1. Held
  BY DEF Init, Held, Addressed, HeldSchemes
<1>2. SocketOfBound
  BY DEF Init, SocketOfBound
<1>3. Types
  <2>1. <<>> \in Seq(Bytes \cup {NUL})
    OBVIOUS
  <2> QED
    BY <2>1 DEF Init, Types
<1> QED
  BY <1>1, <1>2, <1>3 DEF Inv

LEMMA InvStep ==
    ASSUME Inv, [Next]_vars
    PROVE  Inv'
<1>1. CASE Calls
  <2>1. /\ Addressed(un') /\ scheme' \in HeldSchemes /\ threw' \in BOOLEAN
        /\ UNCHANGED <<mode, group, files, socket, bound>>
    BY <1>1, CallChanges
  <2> QED
    BY <2>1 DEF Inv, Held, SocketOfBound, Types
<1>2. ASSUME NEW path \in Paths, NEW abstract \in BOOLEAN, Construct(path, abstract)
      PROVE  Inv'
  <2> DEFINE set == IF abstract THEN SetAbstract(NewObject, path)
                    ELSE IF path = <<>> THEN NewObject ELSE SetFile(NewObject, path)
  <2>1. Outcome(NewObject, set)
    BY NewOutcome
  <2>2. /\ ~set.threw /\ un' = set.un /\ scheme' = "" /\ threw' = FALSE
        /\ mode' = "default" /\ group' = ""
        /\ UNCHANGED <<files, socket, bound>>
    BY <1>2 DEF Construct
  <2> HIDE DEF set
  <2>3. NewObject.un = Zeroes /\ Addressed(Zeroes)
    BY DEF NewObject, Addressed
  <2>4. Addressed(set.un)
    BY <2>1, <2>2, <2>3, NotThrown
  <2> QED
    BY <2>2, <2>4 DEF Inv, Held, HeldSchemes, SocketOfBound, Types
<1>3. CASE SetModeAndGroup
  BY <1>3 DEF SetModeAndGroup, Inv, Held, SocketOfBound, Types
<1>4. CASE Bind
  <2>1. /\ un \in Buffers /\ Name(un) \in Seq(Bytes)
        /\ un' = un /\ scheme' = scheme /\ mode' = mode /\ group' = group
        /\ bound' = un /\ threw' = FALSE
    BY <1>4, AddressedBuffers DEF Bind, Inv, Held
  <2>2. /\ files' \subseteq Seq(Bytes)
        /\ socket' = IF IsFile(un) THEN Append(Name(un), NUL) ELSE un
    BY <1>4, <2>1 DEF Bind, Inv, Types
  <2>3. Append(Name(un), NUL) \in Seq(Bytes \cup {NUL}) /\ un \in Seq(Bytes \cup {NUL})
    <3>1. Name(un) \in Seq(Bytes \cup {NUL}) /\ NUL \in Bytes \cup {NUL}
      BY <2>1, SeqMonotonic
    <3>2. Append(Name(un), NUL) \in Seq(Bytes \cup {NUL})
      BY <3>1, AppendProperties
    <3>3. un \in Seq(Bytes \cup {NUL})
      BY <2>1, UnixAddressAssumption DEF Buffers
    <3> QED
      BY <3>2, <3>3
  <2>4. Held' /\ SocketOfBound'
    <3>1. bound' = un /\ un' = un /\ scheme' = scheme
      BY <2>1
    <3> QED
      BY <2>2, <3>1 DEF Inv, Held, SocketOfBound
  <2>5. Types'
    BY <2>1, <2>2, <2>3 DEF Inv, Types
  <2> QED
    BY <2>4, <2>5 DEF Inv
<1>5. ASSUME NEW name \in KernelNames, Inherit(name)
      PROVE  Inv'
  <2>1. name \in Seq(Bytes \cup {NUL})
    BY UnixAddressAssumption
  <2> QED
    BY <1>5, <2>1 DEF Inherit, Inv, Held, SocketOfBound, Types
<1>6. CASE Unlink
  BY <1>6 DEF Unlink, Inv, Held, SocketOfBound, Types
<1>7. CASE UNCHANGED vars
  BY <1>7 DEF vars, Inv, Held, SocketOfBound, Types
<1> QED
  BY <1>1, <1>2, <1>3, <1>4, <1>5, <1>6, <1>7 DEF Next, Calls

LEMMA Invariant == Spec => []Inv
  BY InitInv, InvStep, PTL DEF Spec

-----------------------------------------------------------------------------
(* The ways an address comes back                                          *)

\* The structure of an address sets this same address.
LEMMA SetUnHolds ==
    ASSUME NEW o, NEW u, Addressed(u)
    PROVE  SetUn(o, u) = Holds(o, u)
<1>1. PathSize \in 1..PathSize /\ PathSize \in 2..PathSize
  BY UnixAddressAssumption
<1>2. CASE u = Zeroes
  BY <1>2, NoName DEF SetUn, MakeUnnamed
<1>3. ASSUME NEW c, IsName(c, FALSE), u = FileOf(c)
      PROVE  SetUn(o, u) = Holds(o, u)
  <2>1. SetUn(o, u) = SetFile(o, c)
    BY <1>1, <1>3, FileBuffers DEF SetUn
  <2> QED
    BY <1>3, <2>1, SetPaths DEF IsName
<1>4. ASSUME NEW c, IsName(c, TRUE), u = AbstractOf(c)
      PROVE  SetUn(o, u) = Holds(o, u)
  <2>1. SetUn(o, u) = SetAbstract(o, c)
    BY <1>1, <1>4, AbstractBuffers DEF SetUn
  <2> QED
    BY <1>4, <2>1, SetPaths DEF IsName
<1> QED
  BY <1>2, <1>3, <1>4 DEF Addressed

\* The structure of the socket which the program bound is the one it was
\* bound with, the bytes the kernel does not return included.
LEMMA ReceivedBound ==
    ASSUME NEW u, Addressed(u), NEW stack
    PROVE  Received(IF IsFile(u) THEN Append(Name(u), NUL) ELSE u, stack) = u
<1>1. CASE ~IsFile(u)
  <2>1. u \in Buffers
    BY AddressedBuffers
  <2>2. Len(u) = PathSize /\ u = [i \in 1..PathSize |-> u[i]]
    BY <2>1, UnixAddressAssumption DEF Buffers
  <2>3. Received(u, stack) = u
    BY <2>2, UnixAddressAssumption DEF Received
  <2> QED
    BY <1>1, <2>3
<1>2. CASE IsFile(u)
  <2>1. PICK c : IsName(c, FALSE) /\ u = FileOf(c)
    BY <1>2, NoName, AbstractBuffers DEF Addressed
  <2>2. Name(u) = c /\ Len(c) \in Nat /\ Len(c) > 0 /\ c \in Seq(Bytes)
    BY <2>1, FileBuffers, NameBytes
  <2> DEFINE s == Append(c, NUL)
             T == Bytes \cup {NUL}
  <2>3. c \in Seq(T) /\ NUL \in T
    BY <2>2, SeqMonotonic
  <2> HIDE DEF T
  <2>4. Len(s) = Len(c) + 1 /\ s[Len(c) + 1] = NUL /\ \A k \in 1..Len(c) : s[k] = c[k]
    BY <2>3, AppendProperties
  <2> HIDE DEF s
  <2>5. \A k \in 1..PathSize :
          (IF k <= Len(s) THEN s[k] ELSE NUL) = (IF k <= Len(c) THEN c[k] ELSE NUL)
    BY <2>2, <2>4, UnixAddressAssumption
  <2>6. Received(s, stack) = FileOf(c)
    BY <2>5 DEF Received, FileOf
  <2> QED
    BY <1>2, <2>1, <2>2, <2>6 DEF s
<1> QED
  BY <1>1, <1>2

LEMMA SocketComesBack ==
    ASSUME Inv
    PROVE  SocketRoundTrip
<1>1. \A stack : Received(socket, stack) = Received(socket, NUL)
  BY DEF Received
<1>2. ASSUME NEW stack, bound # <<>>
      PROVE  SetUn(Object, Received(socket, stack)) = [Object EXCEPT !.un = bound]
  <2>1. SetUn(Object, Received(socket, stack)) = Holds(Object, bound)
    BY <1>2, ReceivedBound, SetUnHolds DEF Inv, SocketOfBound
  <2>2. Holds(Object, bound) = [Object EXCEPT !.un = bound]
    <3> DEFINE no == FALSE
    <3>1. /\ Object = [un |-> un, scheme |-> scheme, threw |-> no]
          /\ Holds(Object, bound) = [un |-> bound, scheme |-> Object.scheme, threw |-> no]
      BY DEF Object, Holds
    <3> HIDE DEF no
    <3>2. Object.scheme = scheme
      BY <3>1
    <3>3. [Object EXCEPT !.un = bound] = [un |-> bound, scheme |-> scheme, threw |-> no]
      BY <3>1
    <3> QED
      BY <3>1, <3>2, <3>3
  <2> QED
    BY <2>1, <2>2
<1> QED
  BY <1>1, <1>2 DEF SocketRoundTrip

\* A URI without a "?" is its path; and so is what is before the "?" of one
\* which has a query.
LEMMA UriParts ==
    ASSUME NEW T, NEW path \in Seq(T), NEW word \in T, "?" \in T,
           \A k \in 1..Len(path) : path[k] # "?"
    PROVE  /\ PathOf(path) = path /\ QueryOf(path) = <<>>
           /\ PathOf(path \o <<"?", word>>) = path
           /\ QueryOf(path \o <<"?", word>>) = <<word>>
<1> DEFINE rest == path \o <<"?", word>>
           n == Len(path)
<1>1. n \in Nat
  OBVIOUS
<1>2. Mark(path) = n + 1
  <2>1. /\ Mark(path) \in 1..(n + 1) /\ (Mark(path) <= n => path[Mark(path)] = "?")
    BY MarkOfUri
  <2>2. ~(Mark(path) <= n)
    <3>1. Mark(path) <= n => Mark(path) \in 1..n
      BY <1>1, <2>1
    <3> QED
      BY <2>1, <3>1
  <2> QED
    BY <1>1, <2>1, <2>2
<1>3. PathOf(path) = path
  <2>1. (n + 1) - 1 = n
    BY <1>1
  <2>2. SubSeq(path, 1, n) = path
    BY SubSeqFull
  <2> QED
    BY <1>2, <2>1, <2>2 DEF PathOf
<1>4. QueryOf(path) = <<>>
  <2>1. (n + 1) + 1 \in Int /\ n \in Int /\ n < (n + 1) + 1
    BY <1>1
  <2>2. SubSeq(path, (n + 1) + 1, n) = <<>>
    BY <2>1, SubSeqEmpty
  <2> QED
    BY <1>2, <2>2 DEF QueryOf
<1>5. /\ rest \in Seq(T) /\ Len(rest) = n + 2
      /\ \A k \in 1..n : rest[k] = path[k]
      /\ rest[n + 1] = "?" /\ rest[n + 2] = word
  <2> DEFINE q == <<"?", word>>
  <2>1. q \in Seq(T) /\ Len(q) = 2 /\ q[1] = "?" /\ q[2] = word
    OBVIOUS
  <2> HIDE DEF q
  <2>2. /\ path \o q \in Seq(T) /\ Len(path \o q) = Len(path) + Len(q)
        /\ \A i \in 1..(Len(path) + Len(q)) :
              (path \o q)[i] = IF i <= Len(path) THEN path[i] ELSE q[i - Len(path)]
    BY <2>1, ConcatProperties
  <2>3. /\ path \o q \in Seq(T) /\ Len(path \o q) = n + 2
        /\ \A k \in 1..n : (path \o q)[k] = path[k]
        /\ (path \o q)[n + 1] = "?" /\ (path \o q)[n + 2] = word
    BY <1>1, <2>1, <2>2
  <2> QED
    BY <2>3 DEF q
<1> HIDE DEF rest
<1>6. Mark(rest) = n + 1
  <2>1. /\ Mark(rest) \in 1..(Len(rest) + 1)
        /\ \A k \in 1..Len(rest) : rest[k] = "?" => Mark(rest) <= k
        /\ (Mark(rest) <= Len(rest) => rest[Mark(rest)] = "?")
    BY <1>5, MarkOfUri
  <2>2. Mark(rest) <= n + 1
    <3>1. n + 1 \in 1..Len(rest)
      BY <1>1, <1>5
    <3> QED
      BY <1>5, <2>1, <3>1
  <2>3. ~(Mark(rest) <= n)
    <3>1. Mark(rest) <= n => Mark(rest) \in 1..n /\ Mark(rest) <= Len(rest)
      BY <1>1, <1>5, <2>1
    <3> QED
      BY <1>5, <2>1, <3>1
  <2> QED
    BY <1>1, <1>5, <2>1, <2>2, <2>3
<1>7. PathOf(rest) = path
  <2> DEFINE s == SubSeq(rest, 1, n)
  <2>1. (n + 1) - 1 = n /\ 1 \in Int /\ n \in Int /\ (n - 1) + 1 = n /\ (n < 1 => n = 0)
    BY <1>1
  <2>2. \A k \in 1..n : rest[k] \in T /\ rest[(1 + k) - 1] = path[k]
    BY <1>5, <2>1, ElementOfSeq
  <2>3. s \in Seq(T) /\ Len(s) = n /\ \A k \in 1..n : s[k] = path[k]
    <3>1. /\ s \in Seq(T) /\ Len(s) = (IF 1 <= n THEN (n - 1) + 1 ELSE 0)
          /\ \A k \in 1..((n - 1) + 1) : s[k] = rest[(1 + k) - 1]
      BY <2>1, <2>2, SubSeqProperties
    <3> HIDE DEF s, n
    <3> QED
      BY <2>1, <2>2, <3>1
  <2>4. s = path
    <3> HIDE DEF s
    <3> QED
      BY <2>3, SeqEqual
  <2> QED
    BY <1>6, <2>1, <2>4 DEF PathOf
<1>8. QueryOf(rest) = <<word>>
  <2>1. /\ n + 2 \in Int /\ (n + 1) + 1 = n + 2 /\ n + 2 \in 1..Len(rest)
        /\ Len(rest) \in (n + 2)..Len(rest) /\ Len(rest) = n + 2
    BY <1>1, <1>5
  <2> DEFINE s == SubSeq(rest, n + 2, n + 2)
  <2>2. s \in Seq(T) /\ Len(s) = 1 /\ s[1] = word
    <3>1. \A i \in (n + 2)..(n + 2) : i = n + 2 /\ rest[i] \in T
      BY <1>1, <1>5
    <3>2. /\ s \in Seq(T)
          /\ Len(s) = (IF n + 2 <= n + 2 THEN (n + 2) - (n + 2) + 1 ELSE 0)
          /\ \A i \in 1..((n + 2) - (n + 2) + 1) : s[i] = rest[(n + 2) + i - 1]
      BY <2>1, <3>1, SubSeqProperties
    <3>3. n + 2 <= n + 2 /\ (n + 2) - (n + 2) + 1 = 1 /\ (n + 2) + 1 - 1 = n + 2
      BY <1>1
    <3> HIDE DEF s
    <3> QED
      BY <1>5, <3>2, <3>3
  <2>3. s = <<word>>
    <3> HIDE DEF s
    <3>1. <<word>> \in Seq(T) /\ Len(<<word>>) = 1 /\ <<word>>[1] = word
      OBVIOUS
    <3> QED
      BY <2>2, <3>1, SeqEqual
  <2> QED
    BY <1>6, <2>1, <2>3 DEF QueryOf
<1> QED
  BY <1>3, <1>4, <1>7, <1>8 DEF rest

\* The path of a URI: to_uri() writes two "/" before a name which has one.
UriPath(c) == (IF c[1] = "/" THEN <<"/", "/">> ELSE <<>>) \o c

LEMMA UriPathOfName ==
    ASSUME NEW c, NEW abstract \in BOOLEAN, IsName(c, abstract)
    PROVE  /\ UriPath(c) \in Seq(Bytes) /\ UriPath(c) # <<>>
           /\ Canonical(UriPath(c)) = c /\ Verifies(UriPath(c), abstract)
           /\ "?" \notin ToSet(c) => \A k \in 1..Len(UriPath(c)) : UriPath(c)[k] # "?"
<1>1. /\ c \in Seq(Bytes) /\ Len(c) \in Nat /\ Len(c) > 0 /\ c # <<>>
      /\ \A k \in 1..Len(c) : c[k] \in ToSet(c)
  BY NameBytes DEF ToSet
<1>2. Canonical(c) = c /\ Verifies(c, abstract)
  BY DEF IsName
<1>3. CASE c[1] # "/"
  <2>1. UriPath(c) = c
    BY <1>1, <1>3, ConcatEmptySeq DEF UriPath
  <2> QED
    BY <1>1, <1>2, <2>1
<1>4. CASE c[1] = "/"
  <2> DEFINE p == <<"/", "/">> \o c
             T == ToSet(c)
  <2>1. UriPath(c) = p
    BY <1>4 DEF UriPath
  <2>2. /\ "/" \in T /\ T \subseteq Bytes /\ T \cap Controls = {} /\ c \in Seq(T)
    <3>1. 1 \in 1..Len(c) /\ "/" \in T
      BY <1>1, <1>4
    <3>2. T \subseteq Bytes
      BY <1>1 DEF ToSet
    <3>3. c \in Seq(T)
      BY <1>1 DEF ToSet
    <3> QED
      BY <1>2, <3>1, <3>2, <3>3 DEF Verifies
  <2> HIDE DEF T
  <2>3. p \in Seq(T) /\ Len(p) = 2 + Len(c)
    <3>1. <<"/", "/">> \in Seq(T) /\ Len(<<"/", "/">>) = 2
      BY <2>2
    <3> QED
      BY <2>2, <3>1, ConcatProperties
  <2>4. Canonical(p) = c
    BY <1>1, <1>2, <1>4, CanonicalPath
  <2> HIDE DEF p
  <2>5. p # <<>> /\ p \in Seq(Bytes) /\ \A k \in 1..Len(p) : p[k] \in T
    BY <1>1, <2>2, <2>3, ElementOfSeq, SeqMonotonic
  <2>6. ToSet(p) \subseteq T
    BY <2>3, <2>5 DEF ToSet
  <2>7. Verifies(p, abstract)
    BY <1>2, <2>2, <2>4, <2>5, <2>6 DEF Verifies
  <2>8. "?" \notin T => \A k \in 1..Len(p) : p[k] # "?"
    BY <2>5
  <2> QED
    BY <2>1, <2>4, <2>5, <2>7, <2>8 DEF T
<1> QED
  BY <1>3, <1>4

\* The URI of an address sets the buffer of this address.
LEMMA UriHolds ==
    ASSUME NEW o, NEW u, Addressed(u), u = o.un, "?" \notin ToSet(Name(u)), NEW n
    PROVE  SetUriPath(n, PathOf(ToUri(o).rest), QueryOf(ToUri(o).rest)) = Holds(n, u)
<1> DEFINE path == Name(u)
           Slashes == IF path[1] = "/" THEN <<"/", "/">> ELSE <<>>
           Query == IF IsAbstract(u) THEN <<"?", "abstract">> ELSE <<>>
           rest == ToUri(o).rest
<1>1. rest = IF IsUnnamed(u) THEN <<>> ELSE Slashes \o path \o Query
  BY DEF ToUri
<1> HIDE DEF rest
<1>2. /\ "?" \in Bytes /\ "abstract" \in Bytes
      /\ <<"abstract">> # <<>> /\ <<"abstract">> # <<"unnamed">>
      /\ <<"abstract">> # <<"file">>
  BY UnixAddressAssumption
<1>3. CASE u = Zeroes
  <2> DEFINE none == <<>>
  <2>1. /\ none \in Seq(Bytes) /\ Len(none) = 0 /\ rest = none
        /\ \A k \in 1..Len(none) : none[k] # "?"
    BY <1>1, <1>3, NoName
  <2> HIDE DEF none
  <2>2. PathOf(rest) = none /\ QueryOf(rest) = <<>>
    BY <1>2, <2>1, UriParts
  <2> QED
    BY <1>3, <2>2 DEF SetUriPath, MakeUnnamed, none, rest
<1>4. ASSUME NEW c, IsName(c, FALSE), u = FileOf(c)
      PROVE  SetUriPath(n, PathOf(rest), QueryOf(rest)) = Holds(n, u)
  <2>1. ~IsUnnamed(u) /\ ~IsAbstract(u) /\ path = c
    BY <1>4, FileBuffers
  <2>2. /\ UriPath(c) \in Seq(Bytes) /\ UriPath(c) # <<>>
        /\ Canonical(UriPath(c)) = c /\ Verifies(UriPath(c), FALSE)
        /\ \A k \in 1..Len(UriPath(c)) : UriPath(c)[k] # "?"
    BY <1>4, <2>1, UriPathOfName
  <2>3. rest = UriPath(c)
    <3>1. rest = UriPath(c) \o <<>>
      BY <1>1, <2>1 DEF UriPath
    <3> QED
      BY <2>2, <3>1, ConcatEmptySeq
  <2>4. PathOf(rest) = UriPath(c) /\ QueryOf(rest) = <<>>
    BY <1>2, <2>2, <2>3, UriParts
  <2>5. SetFile(n, UriPath(c)) = Holds(n, u)
    BY <1>4, <2>2, SetPaths
  <2> QED
    BY <2>2, <2>4, <2>5 DEF SetUriPath
<1>5. ASSUME NEW c, IsName(c, TRUE), u = AbstractOf(c)
      PROVE  SetUriPath(n, PathOf(rest), QueryOf(rest)) = Holds(n, u)
  <2>1. ~IsUnnamed(u) /\ IsAbstract(u) /\ path = c
    BY <1>5, AbstractBuffers
  <2>2. /\ UriPath(c) \in Seq(Bytes) /\ UriPath(c) # <<>>
        /\ Canonical(UriPath(c)) = c /\ Verifies(UriPath(c), TRUE)
        /\ \A k \in 1..Len(UriPath(c)) : UriPath(c)[k] # "?"
    BY <1>5, <2>1, UriPathOfName
  <2>3. rest = UriPath(c) \o <<"?", "abstract">>
    BY <1>1, <2>1 DEF UriPath
  <2>4. PathOf(rest) = UriPath(c) /\ QueryOf(rest) = <<"abstract">>
    BY <1>2, <2>2, <2>3, UriParts
  <2>5. SetAbstract(n, UriPath(c)) = Holds(n, u)
    BY <1>5, <2>2, SetPaths
  <2> QED
    BY <1>2, <2>2, <2>4, <2>5 DEF SetUriPath
<1> QED
  BY <1>3, <1>4, <1>5 DEF Addressed, rest

LEMMA UriComesBack ==
    ASSUME Inv
    PROVE  UriRoundTrip
<1> SUFFICES ASSUME GetScheme(Object) \in LetterSchemes, "?" \notin ToSet(Name(un))
             PROVE  SetUri(NewObject, ToUri(Object)) = Object
  BY DEF UriRoundTrip
<1> DEFINE uri == ToUri(Object)
           s == GetScheme(Object)
           set == SetUriPath(NewObject, PathOf(uri.rest), QueryOf(uri.rest))
           no == FALSE
<1>1. /\ Object = [un |-> un, scheme |-> scheme, threw |-> no]
      /\ Object.un = un /\ Object.scheme = scheme
      /\ Holds(NewObject, un) = [un |-> un, scheme |-> NewObject.scheme, threw |-> no]
  BY DEF Object, Holds
<1>2. Addressed(un) /\ scheme # "unix"
  <2>1. "" # "unix"
    OBVIOUS
  <2> QED
    BY <2>1 DEF Inv, Held, HeldSchemes
<1>3. set = Holds(NewObject, un)
  BY <1>1, <1>2, UriHolds
<1>4. uri.scheme = s
  BY DEF ToUri
<1>5. SetUri(NewObject, uri) = SchemeUnlessThrew(set, s)
  BY <1>4 DEF SetUri
<1>6. s = (IF scheme = "" THEN "unix" ELSE scheme)
  BY <1>1 DEF GetScheme
<1>7. (IF s = "unix" THEN "" ELSE s) = scheme
  BY <1>2, <1>6
<1> HIDE DEF set, s, uri
<1>8. SchemeUnlessThrew(set, s) = SetScheme(set, s)
  BY <1>1, <1>3 DEF SchemeUnlessThrew
<1>9. SetScheme(set, s) = [un |-> un, scheme |-> scheme, threw |-> no]
  <2>1. set.un = un
    BY <1>1, <1>3
  <2> QED
    BY <1>7, <2>1 DEF SetScheme
<1> QED
  BY <1>1, <1>5, <1>8, <1>9 DEF uri

-----------------------------------------------------------------------------
(* Theorems                                                                *)

\* A buffer with a name has a NUL after it.
LEMMA InvTerminated == Inv => Terminated
<1> SUFFICES ASSUME Inv
             PROVE  Terminated
  OBVIOUS
<1>1. un[PathSize] = NUL /\ Len(Name(un)) \in Nat /\ Len(Name(un)) < PathSize
  BY AddressedBuffers DEF Inv, Held
<1>2. PathSize \in 1..PathSize
  BY UnixAddressAssumption
<1> QED
  BY <1>1, <1>2 DEF Terminated

LEMMA InvType == Inv => TypeOK
<1> SUFFICES ASSUME Inv
             PROVE  TypeOK
  OBVIOUS
<1>1. un \in Buffers /\ Terminated
  BY AddressedBuffers, InvTerminated DEF Inv, Held
<1>2. scheme \in Schemes \cup {""}
  BY DEF Inv, Held, HeldSchemes
<1>3. bound \in Buffers \cup {<<>>}
  BY AddressedBuffers DEF Inv, SocketOfBound
<1> QED
  BY <1>1, <1>2, <1>3 DEF TypeOK, Inv, Types

\* Whatever is called, every variable keeps its type.
THEOREM TypeCorrect == Spec => []TypeOK
  BY Invariant, InvType, PTL

\* Whatever is called, sun_path ends with a NUL after its name, where
\* to_string(), to_uri() and unlink() stop to read.
THEOREM AlwaysTerminated == Spec => []Terminated
  BY Invariant, InvTerminated, PTL

\* An address comes back from its URI, and from a socket bound to it, with
\* every one of its bytes.
THEOREM ComesBack == Spec => []RoundTrips
<1>1. Inv => RoundTrips
  BY SocketComesBack, UriComesBack DEF RoundTrips
<1> QED
  BY <1>1, Invariant, PTL

\* A call which throws changes neither the address nor its scheme, for any
\* names, structures and URIs.
THEOREM ThrowingChangesNothing == Spec => ThrowsWithoutChange
<1>1. Inv /\ [Next]_vars => [threw' => UNCHANGED <<un, scheme>>]_vars
  <2> SUFFICES ASSUME Inv, Next, threw'
               PROVE  UNCHANGED <<un, scheme>>
    BY DEF vars
  <2>1. CASE Calls
    BY <2>1, CallChanges
  <2>2. CASE ~Calls
    BY <2>2 DEF Next, Calls, Construct, SetModeAndGroup, Bind, Inherit, Unlink
  <2> QED
    BY <2>1, <2>2
<1> QED
  BY <1>1, Invariant, PTL DEF Spec, ThrowsWithoutChange

\* The bytes of an address are a function of its name, in every state.
THEOREM NoByteIsStale == Spec => []NoStaleBytes
<1>1. NoStaleBytes
  <2> SUFFICES ASSUME NEW path \in Paths
               PROVE  /\ Verifies(path, FALSE) =>
                            SetFile(Object, path).un = SetFile(NewObject, path).un
                      /\ Verifies(path, TRUE) =>
                            SetAbstract(Object, path).un = SetAbstract(NewObject, path).un
    BY DEF NoStaleBytes
  <2>1. \A o, b : Holds(o, b).un = b
    BY DEF Holds
  <2>2. ASSUME NEW o
        PROVE  /\ Verifies(path, FALSE) => SetFile(o, path).un = FileOf(Canonical(path))
               /\ Verifies(path, TRUE) => SetAbstract(o, path).un = AbstractOf(Canonical(path))
    <3>1. path \in Seq(Bytes)
      BY PathsAreBytes
    <3>2. Verifies(path, FALSE) => SetFile(o, path) = Holds(o, FileOf(Canonical(path)))
      BY <3>1, SetPaths
    <3>3. Verifies(path, TRUE) =>
            SetAbstract(o, path) = Holds(o, AbstractOf(Canonical(path)))
      BY <3>1, SetPaths
    <3> QED
      BY <2>1, <3>2, <3>3
  <2> QED
    BY <2>2
<1> QED
  BY <1>1, PTL

\* unlink() deletes no other file than the one of the address.
THEOREM OnlyOwnFileUnlinked == Spec => UnlinksOwnFile
<1>1. [Next]_vars => [\A f \in files \ files' : IsFile(un) /\ f = Name(un)]_vars
  <2> SUFFICES ASSUME Next, NEW f \in files \ files'
               PROVE  IsFile(un) /\ f = Name(un)
    BY DEF vars
  <2>1. CASE Unlink
    BY <2>1 DEF Unlink, Name, IsFile, IsAbstract
  <2>2. CASE ~Unlink
    <3>1. files \subseteq files'
      BY <2>2 DEF Next, Becomes, Construct, CallSetScheme, CallMakeUnnamed, CallSetFile,
            CallSetAbstract, CallSetUn, CallSetUri, SetModeAndGroup, SetFromSocket,
            Bind, Inherit
    <3> QED
      BY <3>1
  <2> QED
    BY <2>1, <2>2
<1> QED
  BY <1>1, PTL DEF Spec, UnlinksOwnFile
=============================================================================
