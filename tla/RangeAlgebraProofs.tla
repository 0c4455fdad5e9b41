------------------------- MODULE RangeAlgebraProofs -------------------------
(***************************************************************************)
(* What RangeAlgebra guarantees for every width of the addresses, every    *)
(* size of std::size_t and every vector of ranges.                         *)
(***************************************************************************)
EXTENDS RangeAlgebra, AddrRangeProofs, SequenceTheorems, FiniteSetTheorems, TLAPS

\* What is assumed of the constants, without the arithmetic.
LEMMA Constants ==
    /\ Bits \in Nat /\ MaxIp \in Nat /\ SizeMax \in Nat /\ SizeMax <= MaxIp
    /\ InputAddrs \subseteq Addrs /\ Offsets \subseteq Int
    /\ Limits \subseteq Nat /\ \A l \in Limits : l <= SizeMax
    /\ MaxRanges \in Nat \ {0} /\ MaxResult \in Nat
BY AddrRangeAssumption, RangeAlgebraAssumption
   DEF AddrRangeAssumption, RangeAlgebraAssumption

USE Constants

-----------------------------------------------------------------------------
(* Types                                                                   *)

\* operator + keeps to the addresses there are.
LEMMA PlusType ==
    ASSUME NEW b \in Addrs, NEW n \in Int
    PROVE  /\ Plus(b, n) \in Addrs /\ Plus(b, n).mask = b.mask
           /\ Plus(b, n).ip = IF b.ip + n < 0 THEN 0
                              ELSE IF b.ip + n > MaxIp THEN MaxIp ELSE b.ip + n
<1> DEFINE ip == IF b.ip + n < 0 THEN 0
                 ELSE IF b.ip + n > MaxIp THEN MaxIp ELSE b.ip + n
<1>1. ip \in Ips
  BY DEF Addrs, Ips
<1>2. Plus(b, n) = [b EXCEPT !.ip = ip]
  BY DEF Plus
<1> HIDE DEF ip
<1>3. [b EXCEPT !.ip = ip] \in Addrs /\ [b EXCEPT !.ip = ip].mask = b.mask
      /\ [b EXCEPT !.ip = ip].ip = ip
  BY <1>1 DEF Addrs
<1> QED
  BY <1>2, <1>3 DEF ip

\* What the program may make of a range.
LEMMA ChangedType ==
    ASSUME NEW r \in Ranges
    PROVE  /\ SwapFromTo(r) \in Ranges
           /\ \A b \in InputAddrs : SetFrom(r, b) \in Ranges /\ SetTo(r, b) \in Ranges
           /\ \A b \in InputAddrs : FromCidr(b) \in Ranges
<1>1. SwapFromTo(r) \in Ranges
  BY DEF SwapFromTo, Ranges
<1>2. InputAddrs \subseteq Addrs
  OBVIOUS
<1> QED
  BY <1>1, <1>2, RangeTypes

LEMMA VectorType ==
    ASSUME TypeOK
    PROVE  /\ v \in Seq(Ranges) /\ Len(v) \in Nat /\ Len(v) \in 1..MaxRanges
           /\ DOMAIN v = 1..Len(v)
           /\ \A k \in 1..Len(v) :
                 /\ v[k] \in Ranges /\ Low(v[k]) \in Addrs
                 /\ v[k].from \in Addrs /\ v[k].to \in Addrs
           /\ v[Len(v)] \in Ranges
<1>1. v \in Seq(Ranges) /\ Len(v) \in Nat /\ Len(v) \in 1..MaxRanges
  BY DEF TypeOK
<1>2. \A k \in 1..Len(v) : v[k] \in Ranges
  BY <1>1
<1>3. \A r \in Ranges : Low(r) \in Addrs /\ r.from \in Addrs /\ r.to \in Addrs
  BY DEF Low, Ranges
<1> QED
  BY <1>1, <1>2, <1>3

\* While addresses are added one by one, they are those of a range of v.
Pushing == pc = "push" => i <= Len(v) /\ IsRange(v[i])

Typed == TypeOK /\ Pushing

LEMMA TypedStep ==
    ASSUME Typed, [Next]_vars
    PROVE  Typed'
<1> TypeOK
  BY DEF Typed
<1>1. CASE NewRange
  BY <1>1, RangeTypes DEF NewRange, Typed, TypeOK, Pushing
<1>2. CASE ChangeRange
  <2>1. PICK r \in Ranges : v' = [v EXCEPT ![Len(v)] = r]
    BY <1>2, VectorType, ChangedType DEF ChangeRange
  <2>2. v' \in Seq(Ranges) /\ Len(v') = Len(v)
    BY <2>1, VectorType
  <2> QED
    BY <1>2, <2>2 DEF ChangeRange, Typed, TypeOK, Pushing
<1>3. CASE Call
  BY <1>3, VectorType DEF Call, Typed, TypeOK, Pushing
<1>4. CASE RangeTooLarge \/ OutOfMemory \/ Return
  BY <1>4 DEF RangeTooLarge, OutOfMemory, Return, Typed, TypeOK, Pushing
<1>5. CASE StartRange
  BY <1>5, VectorType DEF StartRange, Typed, TypeOK, Pushing
<1>6. CASE AddBound
  <2>1. i \in 1..Len(v) /\ i' \in 1..(Len(v) + 1)
    BY <1>6, VectorType DEF AddBound, Typed, TypeOK, Pushing
  <2> DEFINE s == IF IsDefined(v[i]) THEN <<Low(v[i])>> ELSE <<>>
  <2>2. s \in Seq(Addrs) /\ Len(s) \in 0..1
    BY <2>1, VectorType
  <2>3. result \in Seq(Addrs) /\ Len(result) \in Nat /\ Len(result) < MaxResult
    BY <1>6 DEF AddBound, Typed, TypeOK, Pushing
  <2>4. result' = result \o s
    BY <1>6 DEF AddBound
  <2> HIDE DEF s
  <2>5. result' \in Seq(Addrs) /\ Len(result') = Len(result) + Len(s)
    BY <2>2, <2>3, <2>4
  <2>6. Len(result') <= MaxResult
    <3>1. \A m \in Nat, n \in 0..1 : m < MaxResult => m + n <= MaxResult
      OBVIOUS
    <3> QED
      BY <2>2, <2>3, <2>5, <3>1, Zenon
  <2> QED
    BY <1>6, <2>1, <2>5, <2>6 DEF AddBound, Typed, TypeOK, Pushing
<1>7. CASE Push
  <2>1. a' \in Addrs
    BY <1>7, PlusType DEF Push, Typed, TypeOK, Pushing
  <2>2. result' \in Seq(Addrs) /\ Len(result') <= MaxResult
    BY <1>7 DEF Push, Typed, TypeOK, Pushing
  <2> QED
    BY <1>7, <2>1, <2>2, VectorType DEF Push, Typed, TypeOK, Pushing, vars
<1>8. CASE Resume
  BY <1>8, VectorType, RangeTypes DEF Resume, Typed, TypeOK, Pushing
<1>9. CASE UNCHANGED vars
  BY <1>9 DEF vars, Typed, TypeOK, Pushing
<1> QED
  BY <1>1, <1>2, <1>3, <1>4, <1>5, <1>6, <1>7, <1>8, <1>9 DEF Next

LEMMA TypedInvariant == Spec => []Typed
<1>1. Init => Typed
  BY RangeTypes DEF Init, Typed, TypeOK, Pushing
<1>2. Typed /\ [Next]_vars => Typed'
  BY TypedStep
<1> QED
  BY <1>1, <1>2, PTL DEF Spec

\* The vector has ranges and the result has addresses at all times, in no more
\* memory than there is, and i stays a position of the vector or the one past
\* it.
THEOREM TypeCorrect == Spec => []TypeOK
<1>1. Typed => TypeOK
  BY DEF Typed
<1> QED
  BY <1>1, TypedInvariant, PTL

-----------------------------------------------------------------------------
(* Arithmetic                                                              *)

\* The remainder of a number between -m and 2 * m.
LEMMA Remainder ==
    ASSUME NEW x \in Int, NEW m \in Nat, m > 0
    PROVE  /\ 0 <= x /\ x < m => x % m = x
           /\ -m <= x /\ x < 0 => x % m = x + m
           /\ m <= x /\ x < m + m => x % m = x - m
OBVIOUS

\* The distance of two addresses is their difference, or the difference less
\* the number of addresses there are.
LEMMA DistanceValue ==
    ASSUME NEW b \in Addrs, NEW c \in Addrs
    PROVE  LET n == b.ip - c.ip
               d == IF n < 0 THEN n + (MaxIp + 1) ELSE n
           IN  /\ d \in 0..MaxIp
               /\ Distance(b, c) = IF d > MaxIp \div 2 THEN d - (MaxIp + 1) ELSE d
<1> DEFINE n == b.ip - c.ip
           d == IF n < 0 THEN n + (MaxIp + 1) ELSE n
<1>1. n \in Int /\ -MaxIp <= n /\ n <= MaxIp
  BY DEF Addrs, Ips
<1>2. n % (MaxIp + 1) = d
  <2> HIDE DEF n
  <2> QED
    BY <1>1, Remainder
<1>3. d \in 0..MaxIp
  <2> HIDE DEF n
  <2> QED
    BY <1>1
<1>4. Distance(b, c) = LET e == n % (MaxIp + 1)
                       IN  IF e > MaxIp \div 2 THEN e - (MaxIp + 1) ELSE e
  BY DEF Distance
<1> QED
  BY <1>2, <1>3, <1>4

\* A number is at most twice the half of it and one.
LEMMA Half ==
    ASSUME NEW m \in Nat
    PROVE  m \div 2 \in Nat /\ 2 * (m \div 2) <= m /\ m <= 2 * (m \div 2) + 1
OBVIOUS

LEMMA DistanceIsRight ==
    ASSUME NEW b \in Addrs
    PROVE  DistanceRight(b)
<1> SUFFICES ASSUME NEW n \in Offsets
             PROVE  IF b.ip + n \in Ips THEN Distance(Plus(b, n), b) = n
                    ELSE Plus(b, n).ip = IF n < 0 THEN 0 ELSE MaxIp
  BY DEF DistanceRight
<1> DEFINE half == MaxIp \div 2
<1>1. n \in Int /\ -half <= n /\ n <= half /\ half \in Nat
      /\ 2 * half <= MaxIp
  <2>1. half \in Nat /\ 2 * half <= MaxIp
    BY Half
  <2> QED
    BY <2>1, RangeAlgebraAssumption DEF RangeAlgebraAssumption
<1>2. b.ip \in Int /\ 0 <= b.ip /\ b.ip <= MaxIp
  BY DEF Addrs, Ips
<1>3. Plus(b, n) \in Addrs
      /\ Plus(b, n).ip = IF b.ip + n < 0 THEN 0
                         ELSE IF b.ip + n > MaxIp THEN MaxIp ELSE b.ip + n
  BY <1>1, PlusType
<1>4. CASE b.ip + n \in Ips
  <2>1. Plus(b, n).ip - b.ip = n
    BY <1>1, <1>2, <1>3, <1>4 DEF Ips
  <2>2. Distance(Plus(b, n), b) =
            LET d == IF n < 0 THEN n + (MaxIp + 1) ELSE n
            IN  IF d > half THEN d - (MaxIp + 1) ELSE d
    BY <2>1, <1>3, DistanceValue
  <2> HIDE DEF half
  <2> QED
    BY <2>2, <1>1, <1>4
<1>5. CASE b.ip + n \notin Ips
  BY <1>1, <1>2, <1>3, <1>5 DEF Ips
<1> QED
  BY <1>4, <1>5

\* The size of a range which is not the whole space.
LEMMA SizeValue ==
    ASSUME NEW r \in Ranges, IsRange(r), ~IsEmpty(r),
           ~(r.from.ip = 0 /\ r.to.ip = MaxIp)
    PROVE  /\ r.to.ip - r.from.ip + 1 \in Nat
           /\ Size(r) = Smaller(r.to.ip - r.from.ip + 1, SizeMax)
<1> DEFINE n == r.to.ip - r.from.ip
<1>1. r.from \in Addrs /\ r.to \in Addrs
  BY DEF Ranges
<1>2. n \in Nat /\ n < MaxIp
  BY <1>1 DEF Addrs, Ips, IsEmpty
<1>3. \/ Distance(r.to, r.from) = n
      \/ Distance(r.to, r.from) = n - (MaxIp + 1)
  BY <1>1, <1>2, DistanceValue
<1> HIDE DEF n
<1>4. \A m \in Int : m = n + 1 \/ m = n - MaxIp => m % (MaxIp + 1) = n + 1
  <2> SUFFICES ASSUME NEW m \in Int, m = n + 1 \/ m = n - MaxIp
               PROVE  m % (MaxIp + 1) = n + 1
    OBVIOUS
  <2>1. \/ 0 <= m /\ m < MaxIp + 1 /\ m = n + 1
        \/ -(MaxIp + 1) <= m /\ m < 0 /\ m + (MaxIp + 1) = n + 1
    BY <1>2
  <2>2. MaxIp + 1 \in Nat /\ MaxIp + 1 > 0
    OBVIOUS
  <2> HIDE DEF n
  <2> QED
    BY <2>1, <2>2, Remainder
<1>5. Distance(r.to, r.from) + 1 = n + 1 \/ Distance(r.to, r.from) + 1 = n - MaxIp
  BY <1>2, <1>3
<1>6. (Distance(r.to, r.from) + 1) % (MaxIp + 1) = n + 1
  <2>1. Distance(r.to, r.from) + 1 \in Int
    BY <1>2, <1>3
  <2> QED
    BY <2>1, <1>4, <1>5
<1> QED
  BY <1>2, <1>6 DEF Size, n

LEMMA SizeIsRight ==
    ASSUME NEW r \in Ranges
    PROVE  SizeRight(r)
<1> SUFFICES ASSUME IsRange(r), ~IsEmpty(r), ~(r.from.ip = 0 /\ r.to.ip = MaxIp)
             PROVE  Size(r) = Smaller(Cardinality(r.from.ip..r.to.ip), SizeMax)
  BY DEF SizeRight
<1>1. r.from.ip \in Int /\ r.to.ip \in Int /\ r.from.ip <= r.to.ip
  BY DEF Ranges, Addrs, Ips, IsEmpty
<1>2. Cardinality(r.from.ip..r.to.ip) = r.to.ip - r.from.ip + 1
  BY <1>1, FS_Interval
<1> QED
  BY <1>2, SizeValue

LEMMA IntersectionIsRight ==
    ASSUME NEW r \in Ranges, NEW s \in Ranges
    PROVE  IntersectionRight(r, s)
<1> SUFFICES ASSUME NEW ip \in Ips
             PROVE  LET b == [DefaultAddr EXCEPT !.ip = ip]
                    IN  IsIn(Intersection(r, s), b) <=> IsIn(r, b) /\ IsIn(s, b)
  BY DEF IntersectionRight
<1> DEFINE b == [DefaultAddr EXCEPT !.ip = ip]
           from == IF r.from.ip > s.from.ip THEN r.from ELSE s.from
           to == IF r.to.ip < s.to.ip THEN r.to ELSE s.to
<1>1. b.ip = ip
  BY DEF DefaultAddr
<1>2. Intersection(r, s).from = from /\ Intersection(r, s).to = to
  BY DEF Intersection, SetTo, SetFrom, NoRange
<1>3. /\ r.from.ip \in Int /\ r.to.ip \in Int
      /\ s.from.ip \in Int /\ s.to.ip \in Int /\ ip \in Int
  BY DEF Ranges, Addrs, Ips
<1> QED
  BY <1>1, <1>2, <1>3 DEF IsIn

-----------------------------------------------------------------------------
(* Networks                                                                *)

\* The host bits are the lowest ones, up to the first which is not one.
LEMMA HostBitsAreLowest ==
    ASSUME NEW r \in Ranges
    PROVE  \E h \in 0..Bits : HostBits(r) = 0..(h - 1)
<1> DEFINE H == HostBits(r)
           P == {n \in Nat : n <= Bits /\ 0..(n - 1) \subseteq H}
<1>1. H \subseteq 0..(Bits - 1)
  BY DEF HostBits
<1>2. \A b \in H : \A k \in 0..b : k \in H
  BY DEF HostBits
<1> HIDE DEF H
<1>3. 0 \in P
  OBVIOUS
<1>4. Bits + 1 \notin P
  OBVIOUS
<1>5. \E h \in Nat : h \in P /\ h + 1 \notin P
  <2>1. SUFFICES ASSUME \A h \in Nat : h \in P => h + 1 \in P
                 PROVE  FALSE
    OBVIOUS
  <2>2. Nat \subseteq P
    <3> HIDE DEF P
    <3> QED
      BY <1>3, <2>1, Induction
  <2> QED
    BY <2>2, <1>4
<1>6. PICK h \in Nat : h \in P /\ h + 1 \notin P
  BY <1>5
<1>7. h <= Bits /\ 0..(h - 1) \subseteq H
  BY <1>6
<1>8. h \notin H
  BY <1>1, <1>6, <1>7
<1>9. \A b \in H : b < h
  BY <1>1, <1>2, <1>8
<1>10. h \in 0..Bits /\ H = 0..(h - 1)
  <2>1. H \subseteq 0..(h - 1)
    BY <1>1, <1>9
  <2>2. h \in 0..Bits
    BY <1>7
  <2> QED
    BY <1>7, <2>1, <2>2, Zenon
<1> QED
  BY <1>10 DEF H

\* to_cidr() keeps the lower bound, and the range is the network it gives.
LEMMA CidrIsNetwork ==
    ASSUME NEW r \in Ranges, HasCidr(r)
    PROVE  SameBounds(FromCidr(ToCidr(r)), r)
<1>1. PICK h \in 0..Bits : HostBits(r) = 0..(h - 1)
  BY HostBitsAreLowest
<1> DEFINE d == Weight[h]
           x == r.from.ip
           y == r.to.ip
<1>2. x \in Ips /\ y \in Ips /\ Bits - h \in 0..Bits /\ Bits - (Bits - h) = h
  BY DEF Ranges, Addrs
<1>3. Cardinality(HostBits(r)) = h
  <2>1. Cardinality(0..(h - 1)) = IF 0 > h - 1 THEN 0 ELSE h - 1 - 0 + 1
    BY FS_Interval
  <2> QED
    BY <1>1, <2>1
<1>4. \A k \in 0..(h - 1) : BitOf(x, k) = 0 /\ BitOf(y, k) = 1
  BY <1>1 DEF HostBits
<1>5. \A k \in h..(Bits - 1) : BitOf(x, k) = BitOf(y, k)
  BY <1>1 DEF HasCidr
<1>6. x \div d = y \div d
  BY <1>2, <1>5, SameHighBits
<1>7. x = (x \div d) * d /\ y = (x \div d) * d + (d - 1)
  <2>1. x = (x \div d) * d
    BY <1>2, <1>4, LowBitsOff
  <2>2. y = (y \div d) * d + (d - 1)
    BY <1>2, <1>4, LowBitsOn
  <2> QED
    BY <2>1, <2>2, <1>6
<1> DEFINE c == ToCidr(r)
<1>8. c \in Addrs /\ c.ip = x /\ c.mask = PrefixMask(Bits - h)
  <2>1. c = SetMaskCount([DefaultAddr EXCEPT !.ip = x], Bits - h)
    BY <1>3 DEF ToCidr
  <2>2. PrefixMask(Bits - h) \in Masks
    BY DEF PrefixMask, Masks
  <2> QED
    BY <1>2, <2>1, <2>2, RangeTypes DEF SetMaskCount, Addrs
<1> HIDE DEF c
<1>9. ApplyMask(c).ip = x /\ ApplyMaskInversed(c).ip = y
  BY <1>2, <1>7, <1>8, PrefixBounds
<1> QED
  BY <1>9 DEF c, SameBounds, FromCidr, SetTo, SetFrom, NoRange

\* to_cidr() finds every network.
LEMMA NetworkHasCidr ==
    ASSUME NEW r \in Ranges, IsRange(r), NEW n \in 0..Bits, NEW ip \in Ips,
           SameBounds(FromCidr([ip |-> ip, mask |-> PrefixMask(n)]), r)
    PROVE  HasCidr(r)
<1> DEFINE h == Bits - n
           d == Weight[h]
           q == ip \div d
           c == [ip |-> ip, mask |-> PrefixMask(n)]
           x == r.from.ip
           y == r.to.ip
<1>1. h \in 0..Bits
  OBVIOUS
<1>2. d \in Nat /\ d > 0 /\ q \in Nat /\ x \in Ips /\ y \in Ips
  <2>1. d \in Nat /\ d > 0
    BY <1>1, Weights
  <2> HIDE DEF d
  <2>2. ip \in Nat
    BY DEF Ips
  <2>3. q \in Nat
    BY <2>1, <2>2, Quotient
  <2> QED
    BY <2>1, <2>3 DEF Ranges, Addrs
<1>3. c \in Addrs /\ c.ip = ip /\ c.mask = PrefixMask(n)
  BY DEF Addrs, Masks, PrefixMask
<1>4. x = ApplyMask(c).ip /\ y = ApplyMaskInversed(c).ip
  BY DEF SameBounds, FromCidr, SetTo, SetFrom, NoRange
<1>5. x = q * d /\ y = q * d + (d - 1)
  <2> HIDE DEF c
  <2> QED
    BY <1>3, <1>4, PrefixBounds
<1> HIDE DEF d, q, c, h
<1>6. \A k \in 0..(h - 1) : BitOf(x, k) = 0 /\ BitOf(y, k) = 1
  <2>1. \A k \in 0..(h - 1) : /\ BitOf(q * Weight[h], k) = 0
                              /\ BitOf(q * Weight[h] + (Weight[h] - 1), k) = 1
    BY <1>1, <1>2, BlockBits
  <2> QED
    BY <2>1, <1>5 DEF d
<1>7. \A k \in h..(Bits - 1) : BitOf(x, k) = BitOf(y, k)
  <2>1. q * d \in Nat
    BY <1>2
  <2>2. x \div d = q
    <3>1. q * d <= x /\ x < q * d + d /\ x \in Nat /\ q \in Int
      BY <1>2, <1>5, <2>1
    <3> QED
      BY <3>1, <1>2, QuotientUnique
  <2>3. y \div d = q
    <3>1. q * d <= y /\ y < q * d + d /\ y \in Nat /\ q \in Int
      BY <1>2, <1>5, <2>1
    <3> QED
      BY <3>1, <1>2, QuotientUnique
  <2> QED
    BY <1>1, <1>2, <2>2, <2>3, HighBitsSame DEF d
<1>8. ~IsEmpty(r)
  <2>1. q * d \in Nat
    BY <1>2
  <2> QED
    BY <1>2, <1>5, <2>1 DEF IsEmpty
<1>9. \A b \in (0..(Bits - 1)) \ HostBits(r) : b \in h..(Bits - 1)
  BY <1>1, <1>6 DEF HostBits
<1> QED
  BY <1>7, <1>8, <1>9 DEF HasCidr

\* size(), to_cidr(), from_cidr(), intersection() and the arithmetic of
\* addresses agree with what the bounds of the ranges say, at every width and
\* for every vector a program builds.
THEOREM AlgebraIsRight == Spec => []AlgebraRight
<1>1. ASSUME Typed PROVE AlgebraRight
  <2>1. TypeOK
    BY <1>1 DEF Typed
  <2> DEFINE r == v[Len(v)]
  <2>2. r \in Ranges /\ r.from \in Addrs /\ v[1] \in Ranges
    BY <2>1, VectorType
  <2> HIDE DEF r
  <2>3. CidrRight(r)
    BY <2>2, CidrIsNetwork, NetworkHasCidr DEF CidrRight
  <2> QED
    BY <2>2, <2>3, SizeIsRight, DistanceIsRight, IntersectionIsRight DEF AlgebraRight, r
<1> QED
  BY <1>1, TypedInvariant, PTL

-----------------------------------------------------------------------------
(* The addresses of a vector, and its size                                 *)

\* A range has so many addresses as there are numbers from one bound to the
\* other, each with the mask of the lower bound.
LEMMA AddressesOfRange ==
    ASSUME NEW r \in Ranges
    PROVE  /\ AddressesOf(r) \in Seq(Addrs)
           /\ IsRange(r) /\ ~IsEmpty(r) =>
                /\ Len(AddressesOf(r)) = r.to.ip - r.from.ip + 1
                /\ \A k \in 1..(r.to.ip - r.from.ip + 1) :
                        AddressesOf(r)[k] = [r.from EXCEPT !.ip = r.from.ip + k - 1]
           /\ ~IsRange(r) => AddressesOf(r) = IF IsDefined(r) THEN <<Low(r)>> ELSE <<>>
<1>1. r.from \in Addrs /\ r.to \in Addrs /\ Low(r) \in Addrs
  BY DEF Ranges, Low
<1>2. r.from.ip \in Int /\ 0 <= r.from.ip /\ r.to.ip \in Int /\ r.to.ip <= MaxIp
  BY <1>1 DEF Addrs, Ips
<1>3. CASE IsRange(r)
  <2> DEFINE n == r.to.ip - r.from.ip + 1
             m == IF n > 0 THEN n ELSE 0
             s == [k \in 1..n |-> [r.from EXCEPT !.ip = @ + k - 1]]
  <2>1. AddressesOf(r) = s
    BY <1>3 DEF AddressesOf
  <2>2. m \in Nat /\ 1..n = 1..m
    BY <1>2
  <2>3. \A k \in 1..n : [r.from EXCEPT !.ip = @ + k - 1] \in Addrs
    <3> TAKE k \in 1..n
    <3>1. r.from.ip + k - 1 \in Ips
      BY <1>2 DEF Ips
    <3> QED
      BY <1>1, <3>1 DEF Addrs
  <2>4. s \in [1..m -> Addrs]
    BY <2>2, <2>3
  <2>5. s \in Seq(Addrs) /\ Len(s) = m
    <3> HIDE DEF m, s
    <3> QED
      BY <2>2, <2>4
  <2>6. \A k \in 1..n : s[k] = [r.from EXCEPT !.ip = r.from.ip + k - 1]
    OBVIOUS
  <2>7. ~IsEmpty(r) => m = n
    BY <1>2, <1>3 DEF IsEmpty
  <2> HIDE DEF s, m
  <2> QED
    BY <1>3, <2>1, <2>5, <2>6, <2>7
<1>4. CASE ~IsRange(r)
  BY <1>1, <1>4 DEF AddressesOf
<1> QED
  BY <1>3, <1>4

\* size() counts these, up to the largest number it can return.
LEMMA SizeCounts ==
    ASSUME NEW r \in Ranges, Enumerable(r), SizeMax > 0
    PROVE  /\ Len(AddressesOf(r)) \in Nat /\ Size(r) \in Nat
           /\ Size(r) = Smaller(Len(AddressesOf(r)), SizeMax)
<1>1. Len(AddressesOf(r)) \in Nat
  BY AddressesOfRange, LenProperties
<1>2. CASE IsRange(r)
  <2>1. ~IsEmpty(r) /\ r.to.ip # MaxIp
    BY <1>2 DEF Enumerable
  <2>2. Size(r) = Smaller(r.to.ip - r.from.ip + 1, SizeMax)
    BY <1>2, <2>1, SizeValue
  <2>3. Len(AddressesOf(r)) = r.to.ip - r.from.ip + 1
    BY <1>2, <2>1, AddressesOfRange
  <2> QED
    BY <1>1, <2>2, <2>3 DEF Smaller
<1>3. CASE ~IsRange(r)
  <2>1. Len(AddressesOf(r)) = IF IsDefined(r) THEN 1 ELSE 0
    BY <1>3, AddressesOfRange
  <2>2. Size(r) = IF IsDefined(r) THEN 1 ELSE 0
    BY <1>3 DEF Size
  <2> QED
    BY <2>1, <2>2 DEF Smaller
<1> QED
  BY <1>2, <1>3

\* What the addresses of the first ranges are.
LEMMA AddressesOfFirstRanges ==
    ASSUME NEW w \in Seq(Ranges)
    PROVE  /\ AddressesOfFirst(w) \in [0..Len(w) -> Seq(Addrs)]
           /\ AddressesOfFirst(w)[0] = <<>>
           /\ \A k \in 1..Len(w) :
                 AddressesOfFirst(w)[k] = AddressesOfFirst(w)[k - 1] \o AddressesOf(w[k])
<1> DEFINE S == Seq(Addrs)
           Is(g) == g = [k \in 0..Len(w) |->
                            IF k = 0 THEN <<>> ELSE g[k - 1] \o AddressesOf(w[k])]
           step == [k \in Nat |-> [x \in S |->
                            IF k \in 1..Len(w) THEN x \o AddressesOf(w[k]) ELSE x]]
<1>1. Len(w) \in Nat /\ \A k \in 1..Len(w) : AddressesOf(w[k]) \in S
  BY AddressesOfRange
<1>2. \A k \in 1..Len(w) : \A x \in S : x \o AddressesOf(w[k]) \in S
  BY <1>1, ConcatProperties
<1>3. step \in [Nat -> [S -> S]] /\ <<>> \in S
  BY <1>2
<1>4. \A k \in 1..Len(w) : \A x \in S : step[k][x] = x \o AddressesOf(w[k])
  BY <1>1
<1> HIDE DEF step, S
<1>5. PICK g : FollowsSteps(g, S, <<>>, step, Len(w))
  BY <1>1, <1>3, Recursion
<1>6. /\ g \in [0..Len(w) -> S] /\ g[0] = <<>>
      /\ \A k \in 1..Len(w) : g[k] = g[k - 1] \o AddressesOf(w[k])
  <2>1. ASSUME NEW k \in 1..Len(w)
        PROVE  g[k] = g[k - 1] \o AddressesOf(w[k])
    <3>1. g[k - 1] \in S
      BY <1>1, <1>5 DEF FollowsSteps
    <3> QED
      BY <1>4, <1>5, <3>1, Zenon DEF FollowsSteps
  <2> QED
    BY <1>5, <2>1, Zenon DEF FollowsSteps
<1>7. Is(g)
  <2>1. \A k \in 0..Len(w) : k = 0 \/ k \in 1..Len(w)
    BY <1>1
  <2>2. \A k \in 0..Len(w) : g[k] = IF k = 0 THEN <<>> ELSE g[k - 1] \o AddressesOf(w[k])
    BY <1>6, <2>1, Zenon
  <2> QED
    BY <1>6, <2>2
<1>8. Is(AddressesOfFirst(w))
  BY <1>7, Zenon DEF AddressesOfFirst
<1> DEFINE F == AddressesOfFirst(w)
<1>9. F[0] = <<>> /\ \A k \in 1..Len(w) : F[k] = F[k - 1] \o AddressesOf(w[k])
  <2>1. F = [k \in 0..Len(w) |-> IF k = 0 THEN <<>> ELSE F[k - 1] \o AddressesOf(w[k])]
    BY <1>8
  <2> HIDE DEF F
  <2>2. \A k \in 0..Len(w) : F[k] = IF k = 0 THEN <<>> ELSE F[k - 1] \o AddressesOf(w[k])
    BY <2>1, Zenon
  <2>3. 0 \in 0..Len(w) /\ \A k \in 1..Len(w) : k \in 0..Len(w) /\ k # 0
    BY <1>1
  <2> QED
    BY <2>2, <2>3, Zenon
<1>10. \A k \in 0..Len(w) : F[k] \in S
  <2> DEFINE P == {k \in Nat : k <= Len(w) => F[k] \in S}
  <2> HIDE DEF F
  <2>1. 0 \in P
    BY <1>3, <1>9
  <2>2. ASSUME NEW k \in Nat, k \in P
        PROVE  k + 1 \in P
    <3>1. ASSUME NEW j \in 1..Len(w), j - 1 = k
          PROVE  F[j] \in S
      <4>1. F[j - 1] \in S
        BY <1>1, <2>2, <3>1
      <4> QED
        BY <1>2, <1>9, <4>1, Zenon
    <3>2. k + 1 <= Len(w) => k + 1 \in 1..Len(w) /\ (k + 1) - 1 = k
      BY <1>1
    <3>3. k + 1 <= Len(w) => F[k + 1] \in S
      BY <3>1, <3>2, Zenon
    <3> QED
      BY <3>3
  <2> HIDE DEF P
  <2>3. Nat \subseteq P
    BY <2>1, <2>2, Induction
  <2> QED
    BY <1>1, <2>3 DEF P
<1>11. F \in [0..Len(w) -> S]
  <2>1. F = [k \in 0..Len(w) |-> F[k]]
    BY <1>8
  <2> HIDE DEF F
  <2> QED
    BY <1>10, <2>1
<1> QED
  BY <1>9, <1>11 DEF S

\* What the sizes of the first ranges are.
LEMMA SizeOfFirstRanges ==
    ASSUME NEW w \in Seq(Ranges), \A k \in 1..Len(w) : Size(w[k]) \in Nat
    PROVE  /\ SizeOfFirst(w) \in [0..Len(w) -> 0..SizeMax]
           /\ SizeOfFirst(w)[0] = 0
           /\ \A k \in 1..Len(w) :
                 SizeOfFirst(w)[k] = (SizeOfFirst(w)[k - 1] + Size(w[k])) % (SizeMax + 1)
<1> DEFINE S == 0..SizeMax
           Is(g) == g = [k \in 0..Len(w) |->
                            IF k = 0 THEN 0 ELSE (g[k - 1] + Size(w[k])) % (SizeMax + 1)]
           step == [k \in Nat |-> [x \in S |->
                            IF k \in 1..Len(w) THEN (x + Size(w[k])) % (SizeMax + 1) ELSE x]]
<1>1. Len(w) \in Nat
  OBVIOUS
<1>2. \A k \in 1..Len(w) : \A x \in S : (x + Size(w[k])) % (SizeMax + 1) \in S
  <2>1. \A m \in Nat : m % (SizeMax + 1) \in S
    OBVIOUS
  <2>2. \A k \in 1..Len(w) : \A x \in S : x + Size(w[k]) \in Nat
    OBVIOUS
  <2> QED
    BY <2>1, <2>2, Zenon
<1>3. step \in [Nat -> [S -> S]] /\ 0 \in S
  <2>1. 0 \in S
    OBVIOUS
  <2> HIDE DEF S
  <2> QED
    BY <1>2, <2>1
<1>4. \A k \in 1..Len(w) : \A x \in S : step[k][x] = (x + Size(w[k])) % (SizeMax + 1)
  <2> HIDE DEF S
  <2> QED
    BY <1>1
<1> HIDE DEF step, S
<1>5. PICK g : FollowsSteps(g, S, 0, step, Len(w))
  BY <1>1, <1>3, Recursion
<1>6. /\ g \in [0..Len(w) -> S] /\ g[0] = 0
      /\ \A k \in 1..Len(w) : g[k] = (g[k - 1] + Size(w[k])) % (SizeMax + 1)
  <2>1. ASSUME NEW k \in 1..Len(w)
        PROVE  g[k] = (g[k - 1] + Size(w[k])) % (SizeMax + 1)
    <3>1. g[k - 1] \in S
      BY <1>1, <1>5 DEF FollowsSteps
    <3> QED
      BY <1>4, <1>5, <3>1, Zenon DEF FollowsSteps
  <2> QED
    BY <1>5, <2>1, Zenon DEF FollowsSteps
<1>7. Is(g)
  <2>1. \A k \in 0..Len(w) : k = 0 \/ k \in 1..Len(w)
    BY <1>1
  <2>2. \A k \in 0..Len(w) :
            g[k] = IF k = 0 THEN 0 ELSE (g[k - 1] + Size(w[k])) % (SizeMax + 1)
    BY <1>6, <2>1, Zenon
  <2> QED
    BY <1>6, <2>2
<1>8. Is(SizeOfFirst(w))
  BY <1>7, Zenon DEF SizeOfFirst
<1> DEFINE F == SizeOfFirst(w)
<1>9. F[0] = 0 /\ \A k \in 1..Len(w) : F[k] = (F[k - 1] + Size(w[k])) % (SizeMax + 1)
  <2>1. F = [k \in 0..Len(w) |-> IF k = 0 THEN 0 ELSE (F[k - 1] + Size(w[k])) % (SizeMax + 1)]
    BY <1>8
  <2> HIDE DEF F
  <2>2. \A k \in 0..Len(w) : F[k] = IF k = 0 THEN 0 ELSE (F[k - 1] + Size(w[k])) % (SizeMax + 1)
    BY <2>1, Zenon
  <2>3. 0 \in 0..Len(w) /\ \A k \in 1..Len(w) : k \in 0..Len(w) /\ k # 0
    BY <1>1
  <2> QED
    BY <2>2, <2>3, Zenon
<1>10. \A k \in 0..Len(w) : F[k] \in S
  <2> DEFINE P == {k \in Nat : k <= Len(w) => F[k] \in S}
  <2> HIDE DEF F
  <2>1. 0 \in P
    BY <1>3, <1>9
  <2>2. ASSUME NEW k \in Nat, k \in P
        PROVE  k + 1 \in P
    <3>1. ASSUME NEW j \in 1..Len(w), j - 1 = k
          PROVE  F[j] \in S
      <4>1. F[j - 1] \in S
        BY <1>1, <2>2, <3>1
      <4> QED
        BY <1>2, <1>9, <4>1, Zenon
    <3>2. k + 1 <= Len(w) => k + 1 \in 1..Len(w) /\ (k + 1) - 1 = k
      BY <1>1
    <3>3. k + 1 <= Len(w) => F[k + 1] \in S
      BY <3>1, <3>2, Zenon
    <3> QED
      BY <3>3
  <2> HIDE DEF P
  <2>3. Nat \subseteq P
    BY <2>1, <2>2, Induction
  <2> QED
    BY <1>1, <2>3 DEF P
<1>11. F \in [0..Len(w) -> S]
  <2>1. F = [k \in 0..Len(w) |-> F[k]]
    BY <1>8
  <2> HIDE DEF F
  <2> QED
    BY <1>10, <2>1
<1> QED
  BY <1>9, <1>11 DEF S

\* t goes on from s.
Starts(s, t) == Len(s) <= Len(t) /\ \A x \in 1..Len(s) : t[x] = s[x]

LEMMA StartsIsPrefix ==
    ASSUME NEW s \in Seq(Addrs), NEW t \in Seq(Addrs), Starts(s, t)
    PROVE  IsPrefix(s, t)
<1>1. Len(s) \in Nat /\ Len(t) \in Nat /\ Len(s) <= Len(t)
      /\ \A x \in 1..Len(s) : t[x] = s[x] /\ s[x] \in Addrs
  BY ElementOfSeq DEF Starts
<1>2. SubSeq(s, 1, Len(s)) = s
  BY SubSeqFull
<1>3. /\ SubSeq(t, 1, Len(s)) \in Seq(Addrs)
      /\ Len(SubSeq(t, 1, Len(s))) = Len(s)
      /\ \A x \in 1..Len(s) : SubSeq(t, 1, Len(s))[x] = t[x]
  BY <1>1
<1>4. SubSeq(t, 1, Len(s)) = s
  BY <1>1, <1>3, SeqEqual
<1> QED
  BY <1>1, <1>2, <1>4 DEF IsPrefix

LEMMA ConcatStarts ==
    ASSUME NEW s \in Seq(Addrs), NEW t \in Seq(Addrs), NEW u \in Seq(Addrs), Starts(t, u)
    PROVE  /\ Starts(s, s \o t)
           /\ Starts(s \o t, s \o u)
           /\ s \o t \in Seq(Addrs) /\ s \o u \in Seq(Addrs)
<1>1. Len(s) \in Nat /\ Len(t) \in Nat /\ Len(u) \in Nat /\ Len(t) <= Len(u)
      /\ \A x \in 1..Len(t) : u[x] = t[x]
  BY DEF Starts
<1>2. Starts(s, s \o t)
  BY <1>1, ConcatProperties DEF Starts
<1>3. ASSUME NEW x \in 1..Len(s \o t)
      PROVE  (s \o u)[x] = (s \o t)[x]
  <2>1. x \in 1..(Len(s) + Len(t)) /\ x \in 1..(Len(s) + Len(u))
    BY <1>1, <1>3, ConcatProperties
  <2>2. (s \o t)[x] = IF x <= Len(s) THEN s[x] ELSE t[x - Len(s)]
    BY <2>1, ConcatProperties
  <2>3. (s \o u)[x] = IF x <= Len(s) THEN s[x] ELSE u[x - Len(s)]
    BY <2>1, ConcatProperties
  <2>4. x > Len(s) => x - Len(s) \in 1..Len(t)
    BY <1>1, <2>1
  <2> QED
    BY <1>1, <2>1, <2>2, <2>3, <2>4
<1>4. Len(s \o t) <= Len(s \o u)
  BY <1>1, ConcatProperties
<1> QED
  BY <1>2, <1>3, <1>4, ConcatProperties DEF Starts

LEMMA StartsTransitive ==
    ASSUME NEW s \in Seq(Addrs), NEW t \in Seq(Addrs), NEW u \in Seq(Addrs),
           Starts(s, t), Starts(t, u)
    PROVE  Starts(s, u)
<1>1. Len(s) \in Nat /\ Len(t) \in Nat /\ Len(u) \in Nat
  OBVIOUS
<1> QED
  BY <1>1 DEF Starts

\* The addresses of the first ranges start those of more of them.
LEMMA FirstStarts ==
    ASSUME NEW w \in Seq(Ranges), NEW j \in 0..Len(w)
    PROVE  \A k \in j..Len(w) : Starts(AddressesOfFirst(w)[j], AddressesOfFirst(w)[k])
<1> DEFINE F == AddressesOfFirst(w)
           P == {n \in Nat : j + n <= Len(w) => Starts(F[j], F[j + n])}
<1>1. Len(w) \in Nat /\ \A k \in 0..Len(w) : F[k] \in Seq(Addrs)
  <2>1. F \in [0..Len(w) -> Seq(Addrs)]
    BY AddressesOfFirstRanges
  <2> HIDE DEF F
  <2> QED
    BY <2>1
<1>2. \A k \in 1..Len(w) : F[k] = F[k - 1] \o AddressesOf(w[k])
  BY AddressesOfFirstRanges
<1> HIDE DEF F
<1>3. 0 \in P
  BY <1>1 DEF Starts
<1>4. ASSUME NEW n \in Nat, n \in P
      PROVE  n + 1 \in P
  <2>1. SUFFICES ASSUME j + (n + 1) <= Len(w)
                 PROVE  Starts(F[j], F[j + (n + 1)])
    OBVIOUS
  <2> DEFINE k == j + (n + 1)
  <2>2. k \in 1..Len(w) /\ k - 1 \in 0..Len(w) /\ k - 1 = j + n /\ j + n <= Len(w)
    BY <1>1, <2>1
  <2> HIDE DEF k
  <2>3. Starts(F[j], F[k - 1])
    BY <1>4, <2>2
  <2>4. AddressesOf(w[k]) \in Seq(Addrs)
    BY <2>2, AddressesOfRange
  <2>5. Starts(AddressesOf(w[k]), AddressesOf(w[k]))
    BY <2>4 DEF Starts
  <2>6. Starts(F[k - 1], F[k])
    BY <1>1, <1>2, <2>2, <2>4, <2>5, ConcatStarts
  <2>7. F[k] \in Seq(Addrs) /\ F[k - 1] \in Seq(Addrs) /\ F[j] \in Seq(Addrs)
    BY <1>1, <2>2
  <2> QED
    BY <2>3, <2>6, <2>7, StartsTransitive DEF k
<1> HIDE DEF P
<1>5. Nat \subseteq P
  BY <1>3, <1>4, Induction
<1>6. ASSUME NEW k \in j..Len(w)
      PROVE  Starts(F[j], F[k])
  <2>1. k - j \in Nat /\ j + (k - j) = k /\ k <= Len(w)
    BY <1>1
  <2> QED
    BY <1>5, <2>1 DEF P
<1> QED
  BY <1>6 DEF F

\* Each address of the first ranges matches one of the ranges.
LEMMA FirstMatch ==
    ASSUME NEW w \in Seq(Ranges), \A k \in 1..Len(w) : Enumerable(w[k])
    PROVE  \A k \in 0..Len(w) : \A x \in 1..Len(AddressesOfFirst(w)[k]) :
                AddressMatchRanges(w, AddressesOfFirst(w)[k][x])
<1> DEFINE F == AddressesOfFirst(w)
           AllMatch(s) == \A x \in 1..Len(s) : AddressMatchRanges(w, s[x])
           P == {n \in Nat : n <= Len(w) => AllMatch(F[n])}
<1>1. Len(w) \in Nat /\ \A k \in 0..Len(w) : F[k] \in Seq(Addrs)
  <2>1. F \in [0..Len(w) -> Seq(Addrs)]
    BY AddressesOfFirstRanges
  <2> HIDE DEF F
  <2> QED
    BY <2>1
<1>2. F[0] = <<>> /\ \A k \in 1..Len(w) : F[k] = F[k - 1] \o AddressesOf(w[k])
  BY AddressesOfFirstRanges
<1> HIDE DEF F
<1>3. ASSUME NEW k \in 1..Len(w)
      PROVE  AllMatch(AddressesOf(w[k]))
  <2> DEFINE r == w[k]
  <2>1. r \in Ranges /\ Enumerable(r)
    OBVIOUS
  <2>2. ASSUME NEW x \in 1..Len(AddressesOf(r))
        PROVE  Match(r, AddressesOf(r)[x])
    <3>1. CASE IsRange(r)
      <4>1. ~IsEmpty(r)
        BY <2>1, <3>1 DEF Enumerable
      <4>2. /\ x \in 1..(r.to.ip - r.from.ip + 1)
            /\ AddressesOf(r)[x] = [r.from EXCEPT !.ip = r.from.ip + x - 1]
        BY <2>1, <2>2, <3>1, <4>1, AddressesOfRange
      <4>3. r.from \in Addrs /\ r.to \in Addrs /\ r.from.ip \in Int /\ r.to.ip \in Int
        BY <2>1 DEF Ranges, Addrs, Ips
      <4>4. AddressesOf(r)[x].ip = r.from.ip + x - 1
        BY <4>2, <4>3 DEF Addrs
      <4>5. r.from.ip <= AddressesOf(r)[x].ip /\ AddressesOf(r)[x].ip <= r.to.ip
        <5>1. \A p, q \in Int : \A y \in 1..(q - p + 1) : p <= p + y - 1 /\ p + y - 1 <= q
          OBVIOUS
        <5> QED
          BY <4>2, <4>3, <4>4, <5>1, ZenonT(30)
      <4> QED
        BY <3>1, <4>1, <4>5 DEF Match, IsIn
    <3>2. CASE ~IsRange(r)
      <4>1. Low(r) \in Addrs /\ AddressesOf(r) = IF IsDefined(r) THEN <<Low(r)>> ELSE <<>>
        BY <2>1, <3>2, BoundsType, AddressesOfRange
      <4>2. AddressesOf(r)[x] = Low(r)
        BY <2>2, <4>1
      <4> QED
        BY <3>2, <4>2 DEF Match, AddrMatch
    <3> QED
      BY <3>1, <3>2
  <2> QED
    BY <2>2 DEF AddressMatchRanges
<1>4. 0 \in P
  BY <1>2
<1>5. ASSUME NEW n \in Nat, n \in P
      PROVE  n + 1 \in P
  <2>1. ASSUME NEW k \in 1..Len(w), k - 1 = n
        PROVE  AllMatch(F[k])
    <3> DEFINE s == F[k - 1]
               t == AddressesOf(w[k])
    <3>1. s \in Seq(Addrs) /\ t \in Seq(Addrs) /\ F[k] = s \o t
      <4>1. k - 1 \in 0..Len(w) /\ w[k] \in Ranges
        BY <1>1
      <4> QED
        BY <1>1, <1>2, <4>1, AddressesOfRange
    <3>2. AllMatch(s) /\ AllMatch(t)
      BY <1>1, <1>3, <1>5, <2>1
    <3> HIDE DEF s, t
    <3> SUFFICES ASSUME NEW x \in 1..Len(F[k])
                 PROVE  AddressMatchRanges(w, F[k][x])
      OBVIOUS
    <3>3. /\ Len(s) \in Nat /\ Len(t) \in Nat /\ x \in 1..(Len(s) + Len(t))
          /\ F[k][x] = IF x <= Len(s) THEN s[x] ELSE t[x - Len(s)]
      BY <3>1, ConcatProperties
    <3>4. x > Len(s) => x - Len(s) \in 1..Len(t)
      BY <3>3
    <3>5. x <= Len(s) => x \in 1..Len(s)
      BY <3>3
    <3>6. x <= Len(s) \/ x > Len(s)
      BY <3>3
    <3> QED
      BY <3>2, <3>3, <3>4, <3>5, <3>6
  <2>2. n + 1 <= Len(w) => n + 1 \in 1..Len(w) /\ (n + 1) - 1 = n
    BY <1>1
  <2> HIDE DEF AllMatch
  <2>3. n + 1 <= Len(w) => AllMatch(F[n + 1])
    BY <2>1, <2>2, Zenon
  <2> QED
    BY <2>3
<1> HIDE DEF P
<1>6. Nat \subseteq P
  BY <1>4, <1>5, Induction
<1>7. \A k \in 0..Len(w) : k \in Nat /\ k <= Len(w)
  BY <1>1
<1> QED
  BY <1>6, <1>7 DEF P, F

LEMMA ProductMonotonic ==
    ASSUME NEW l \in Nat, NEW m \in Nat, NEW n \in Nat, m <= n
    PROVE  l * m <= l * n
<1>1. PICK e \in Nat : n = m + e
  <2>1. n - m \in Nat /\ n = m + (n - m)
    OBVIOUS
  <2> QED
    BY <2>1
<1>2. l * n = l * m + l * e /\ l * e \in Nat /\ l * m \in Nat
  BY <1>1
<1> QED
  BY <1>2

\* The size of the first ranges is not more than their addresses, and so many
\* as they are when none of them has more than l, and l for each is not more
\* than the largest size.
LEMMA SizeOfFirstCounts ==
    ASSUME NEW w \in Seq(Ranges), \A k \in 1..Len(w) : Enumerable(w[k]),
           NEW l \in Nat, l < SizeMax, l * Len(w) <= SizeMax
    PROVE  \A k \in 0..Len(w) :
             /\ SizeOfFirst(w)[k] \in Nat /\ Len(AddressesOfFirst(w)[k]) \in Nat
             /\ SizeOfFirst(w)[k] <= Len(AddressesOfFirst(w)[k])
             /\ (\A j \in 1..k : Size(w[j]) <= l) =>
                    /\ SizeOfFirst(w)[k] = Len(AddressesOfFirst(w)[k])
                    /\ SizeOfFirst(w)[k] <= l * k
<1> DEFINE F == AddressesOfFirst(w)
           Z == SizeOfFirst(w)
           Good(k) == /\ Z[k] <= Len(F[k])
                      /\ (\A j \in 1..k : Size(w[j]) <= l) =>
                            Z[k] = Len(F[k]) /\ Z[k] <= l * k
           P == {n \in Nat : n <= Len(w) => Good(n)}
<1>1. /\ Len(w) \in Nat /\ F[0] = <<>> /\ Z[0] = 0
      /\ \A k \in 1..Len(w) :
            /\ AddressesOf(w[k]) \in Seq(Addrs) /\ Size(w[k]) \in Nat
            /\ Len(AddressesOf(w[k])) \in Nat
            /\ Size(w[k]) = Smaller(Len(AddressesOf(w[k])), SizeMax)
  <2>1. SizeMax > 0
    OBVIOUS
  <2>2. ASSUME NEW k \in 1..Len(w)
        PROVE  /\ AddressesOf(w[k]) \in Seq(Addrs) /\ Size(w[k]) \in Nat
               /\ Len(AddressesOf(w[k])) \in Nat
               /\ Size(w[k]) = Smaller(Len(AddressesOf(w[k])), SizeMax)
    <3>1. w[k] \in Ranges /\ Enumerable(w[k])
      OBVIOUS
    <3> QED
      BY <2>1, <3>1, SizeCounts, AddressesOfRange
  <2>3. Len(w) \in Nat
    OBVIOUS
  <2>4. F[0] = <<>>
    BY AddressesOfFirstRanges
  <2>5. Z[0] = 0
    BY <2>2, SizeOfFirstRanges
  <2> QED
    BY <2>2, <2>3, <2>4, <2>5
<1>2. \A k \in 0..Len(w) : F[k] \in Seq(Addrs) /\ Len(F[k]) \in Nat /\ Z[k] \in Nat
  <2>1. F \in [0..Len(w) -> Seq(Addrs)] /\ Z \in [0..Len(w) -> 0..SizeMax]
    BY <1>1, AddressesOfFirstRanges, SizeOfFirstRanges
  <2> HIDE DEF F, Z
  <2>2. \A k \in 0..Len(w) : F[k] \in Seq(Addrs) /\ Z[k] \in 0..SizeMax
    BY <2>1
  <2> QED
    BY <2>2
<1>3. \A k \in 1..Len(w) : /\ F[k] = F[k - 1] \o AddressesOf(w[k])
                           /\ Z[k] = (Z[k - 1] + Size(w[k])) % (SizeMax + 1)
  BY <1>1, AddressesOfFirstRanges, SizeOfFirstRanges
<1> HIDE DEF F, Z
<1>4. 0 \in P
  BY <1>1
<1>5. ASSUME NEW n \in Nat, n \in P
      PROVE  n + 1 \in P
  <2>1. ASSUME NEW k \in 1..Len(w), k - 1 = n
        PROVE  Good(k)
    <3> DEFINE z == Z[k - 1]
               f == Len(F[k - 1])
               m == Size(w[k])
               c == Len(AddressesOf(w[k]))
    <3>1. z \in Nat /\ f \in Nat /\ m \in Nat /\ c \in Nat /\ n <= Len(w) /\ k \in Nat
          /\ F[k - 1] \in Seq(Addrs) /\ AddressesOf(w[k]) \in Seq(Addrs)
      BY <1>1, <1>2, <2>1
    <3>2. Z[k] = (z + m) % (SizeMax + 1) /\ Len(F[k]) = f + c
      <4>1. Len(F[k - 1] \o AddressesOf(w[k])) = f + c
        BY <3>1, ConcatProperties, ZenonT(30)
      <4>2. F[k] = F[k - 1] \o AddressesOf(w[k]) /\ Z[k] = (z + m) % (SizeMax + 1)
        BY <1>3, <2>1, Zenon
      <4> QED
        BY <4>1, <4>2, Zenon
    <3>3. m = Smaller(c, SizeMax)
      BY <1>1, <2>1
    <3>4. Good(n)
      BY <1>5, <3>1
    <3>5. z <= f /\ ((\A j \in 1..n : Size(w[j]) <= l) => z = f /\ z <= l * n)
      BY <2>1, <3>4
    <3> HIDE DEF z, f, m, c
    <3>6. Z[k] <= f + c
      <4>1. \A x \in Nat : x % (SizeMax + 1) <= x /\ x % (SizeMax + 1) \in Nat
        OBVIOUS
      <4>2. z + m \in Nat /\ z + m <= f + c
        BY <3>1, <3>3, <3>5 DEF Smaller
      <4>3. (z + m) % (SizeMax + 1) <= z + m /\ (z + m) % (SizeMax + 1) \in Nat
        BY <4>1, <4>2, Zenon
      <4> QED
        BY <3>1, <3>2, <4>2, <4>3
    <3>7. ASSUME \A j \in 1..k : Size(w[j]) <= l
          PROVE  Z[k] = f + c /\ Z[k] <= l * k
      <4>1. m <= l /\ \A j \in 1..n : Size(w[j]) <= l
        BY <2>1, <3>1, <3>7 DEF m
      <4>2. z = f /\ z <= l * n
        BY <3>5, <4>1
      <4>3. m = c
        BY <3>1, <3>3, <4>1 DEF Smaller
      <4>4. l * k = l * n + l /\ l * n \in Nat
        BY <2>1, <3>1
      <4>5. l * k <= l * Len(w)
        <5>1. k <= Len(w)
          BY <1>1
        <5> QED
          BY <1>1, <3>1, <5>1, ProductMonotonic
      <4>6. l * k \in Nat /\ l * Len(w) \in Nat
        BY <1>1, <3>1
      <4>7. z + m <= l * k /\ l * k <= SizeMax
        <5>1. z + m <= l * n + l
          BY <3>1, <4>1, <4>2, <4>4
        <5>2. l * k <= SizeMax
          BY <4>5, <4>6
        <5> QED
          BY <4>4, <5>1, <5>2
      <4>8. (z + m) % (SizeMax + 1) = z + m
        <5>1. z + m \in Nat /\ 0 <= z + m /\ z + m < SizeMax + 1
          BY <3>1, <4>6, <4>7
        <5> QED
          BY <5>1, Remainder
      <4> QED
        BY <3>2, <4>2, <4>3, <4>7, <4>8
    <3> QED
      BY <3>2, <3>6, <3>7
  <2>2. n + 1 <= Len(w) => n + 1 \in 1..Len(w) /\ (n + 1) - 1 = n
    BY <1>1
  <2> HIDE DEF Good
  <2>3. n + 1 <= Len(w) => Good(n + 1)
    BY <2>1, <2>2, Zenon
  <2> QED
    BY <2>3
<1> HIDE DEF P
<1>6. Nat \subseteq P
  BY <1>4, <1>5, Induction
<1>7. \A k \in 0..Len(w) : k \in Nat /\ k <= Len(w)
  BY <1>1
<1>8. \A k \in 0..Len(w) : Good(k)
  BY <1>6, <1>7 DEF P
<1> QED
  BY <1>2, <1>8 DEF F, Z

-----------------------------------------------------------------------------
(* to_addresses()                                                          *)

\* What AddressesExact asks of the vector and of the limit.
Promised == (\A k \in DOMAIN v : Enumerable(v[k])) /\ Bounding(limit)

\* The range whose addresses are being added, of which those before a were.
Adding ==
    /\ Size(v[i]) <= limit
    /\ v[i].from.ip <= a.ip /\ a.ip <= v[i].to.ip
    /\ a = [v[i].from EXCEPT !.ip = a.ip]
    /\ result = AddressesOfFirst(v)[i - 1]
                    \o SubSeq(AddressesOf(v[i]), 1, a.ip - v[i].from.ip)

\* The result has the addresses of the ranges before i, each of which has no
\* more than the limit, and those of range i which were added already.
Added ==
    /\ pc = "build" => result = <<>>
    /\ Promised =>
        /\ pc \in {"range", "push", "returned"} =>
                /\ TotalSize(v) <= limit
                /\ \A k \in 1..(i - 1) : Size(v[k]) <= limit
        /\ pc \in {"range", "returned"} => result = AddressesOfFirst(v)[i - 1]
        /\ pc = "push" => Adding
        /\ pc = "returned" => i = Len(v) + 1
        /\ pc = "threw" => Len(AddressesOfAll(v)) > limit

Adds == Typed /\ Added

\* What is known of the vector and of the limit when they are as promised.
LEMMA PromisedFacts ==
    ASSUME TypeOK, Promised
    PROVE  /\ Len(v) \in Nat /\ limit \in Nat /\ limit < SizeMax
           /\ limit * Len(v) <= SizeMax /\ limit < MaxResult
           /\ \A k \in 1..Len(v) : v[k] \in Ranges /\ Enumerable(v[k])
           /\ v \in Seq(Ranges)
           /\ \A k \in 0..Len(v) : AddressesOfFirst(v)[k] \in Seq(Addrs)
           /\ AddressesOfAll(v) \in Seq(Addrs) /\ Len(AddressesOfAll(v)) \in Nat
<1>1. v \in Seq(Ranges) /\ Len(v) \in Nat /\ DOMAIN v = 1..Len(v)
      /\ \A k \in 1..Len(v) : v[k] \in Ranges
  BY VectorType
<1>2. limit \in Nat
  BY DEF TypeOK
<1>3. \A k \in 0..Len(v) : AddressesOfFirst(v)[k] \in Seq(Addrs)
  <2> DEFINE F == AddressesOfFirst(v)
  <2>1. F \in [0..Len(v) -> Seq(Addrs)]
    BY <1>1, AddressesOfFirstRanges
  <2> HIDE DEF F
  <2>2. \A k \in 0..Len(v) : F[k] \in Seq(Addrs)
    BY <2>1
  <2> QED
    BY <2>2 DEF F
<1>4. AddressesOfAll(v) \in Seq(Addrs)
  BY <1>1, <1>3 DEF AddressesOfAll
<1>5. Len(AddressesOfAll(v)) \in Nat
  BY <1>4
<1> QED
  BY <1>1, <1>2, <1>3, <1>4, <1>5 DEF Promised, Bounding

\* Each range of the vector has all its addresses in those of all.
LEMMA RangeIsPart ==
    ASSUME TypeOK, Promised, NEW k \in 1..Len(v)
    PROVE  Len(AddressesOfAll(v)) >= Len(AddressesOf(v[k]))
<1> DEFINE F == AddressesOfFirst(v)
<1>1. v \in Seq(Ranges) /\ Len(v) \in Nat /\ v[k] \in Ranges
      /\ k - 1 \in 0..Len(v) /\ k \in 0..Len(v) /\ Len(v) \in k..Len(v)
      /\ Len(v) \in 0..Len(v)
  BY PromisedFacts
<1>2. F[k - 1] \in Seq(Addrs) /\ F[k] \in Seq(Addrs) /\ F[Len(v)] \in Seq(Addrs)
      /\ AddressesOf(v[k]) \in Seq(Addrs)
  <2>1. \A j \in 0..Len(v) : F[j] \in Seq(Addrs)
    BY PromisedFacts
  <2>2. AddressesOf(v[k]) \in Seq(Addrs)
    BY <1>1, AddressesOfRange
  <2> HIDE DEF F
  <2> QED
    BY <1>1, <2>1, <2>2
<1>3. F[k] = F[k - 1] \o AddressesOf(v[k])
  BY <1>1, AddressesOfFirstRanges
<1>4. Starts(F[k], F[Len(v)])
  BY <1>1, FirstStarts
<1> HIDE DEF F
<1>5. Len(F[k]) = Len(F[k - 1]) + Len(AddressesOf(v[k]))
  BY <1>2, <1>3, ConcatProperties
<1>6. Len(F[k]) <= Len(F[Len(v)])
  BY <1>4 DEF Starts
<1>7. Len(F[k - 1]) \in Nat /\ Len(F[Len(v)]) \in Nat /\ Len(AddressesOf(v[k])) \in Nat
  BY <1>2
<1>8. Len(F[Len(v)]) >= Len(AddressesOf(v[k]))
  <2>1. \A x, y, z, u \in Nat : u = x + y /\ u <= z => z >= y
    OBVIOUS
  <2>2. Len(F[k]) \in Nat
    BY <1>2
  <2> QED
    BY <1>5, <1>6, <1>7, <2>1, <2>2, Zenon
<1> QED
  BY <1>8 DEF AddressesOfAll, F

\* What was added so far starts what there is to add.
LEMMA AddedStarts ==
    ASSUME Adds, Promised, pc \in {"range", "push", "returned"}
    PROVE  Starts(result, AddressesOfAll(v))
<1> DEFINE F == AddressesOfFirst(v)
<1>1. TypeOK /\ i \in 1..(Len(v) + 1) /\ Len(v) \in Nat /\ v \in Seq(Ranges)
  BY PromisedFacts DEF Adds, Typed, TypeOK
<1>2. \A k \in 0..Len(v) : F[k] \in Seq(Addrs)
  BY <1>1, PromisedFacts
<1>3. \A k \in 0..Len(v) : Starts(F[k], AddressesOfAll(v))
  BY <1>1, FirstStarts DEF AddressesOfAll
<1>4. CASE pc \in {"range", "returned"}
  <2>1. result = F[i - 1] /\ i - 1 \in 0..Len(v)
    BY <1>1, <1>4 DEF Adds, Added
  <2> QED
    BY <1>3, <2>1
<1>5. CASE pc = "push"
  <2> DEFINE t == AddressesOf(v[i])
             n == a.ip - v[i].from.ip
  <2>1. i \in 1..Len(v) /\ i - 1 \in 0..Len(v) /\ IsRange(v[i]) /\ Adding
    BY <1>1, <1>5 DEF Adds, Added, Typed, Pushing
  <2>2. v[i] \in Ranges /\ Enumerable(v[i])
    BY <1>1, <2>1, PromisedFacts
  <2>3. a.ip \in Int /\ v[i].from.ip \in Int /\ v[i].to.ip \in Int
    BY <1>1, <2>2, SMTT(30) DEF TypeOK, Ranges, Addrs, Ips
  <2>4. t \in Seq(Addrs) /\ Len(t) = v[i].to.ip - v[i].from.ip + 1
    BY <2>1, <2>2, AddressesOfRange DEF Enumerable
  <2>5. n \in Nat /\ n <= Len(t)
    <3>1. \A x, y, z \in Int : x <= y /\ y <= z => y - x \in Nat /\ y - x <= z - x + 1
      OBVIOUS
    <3> QED
      BY <2>1, <2>3, <2>4, <3>1, ZenonT(30) DEF Adding
  <2>6. result = F[i - 1] \o SubSeq(t, 1, n)
    BY <2>1 DEF Adding
  <2>7. F[i] = F[i - 1] \o t
    BY <1>1, <2>1, AddressesOfFirstRanges
  <2> HIDE DEF n, t, F
  <2>8. SubSeq(t, 1, n) \in Seq(Addrs) /\ Starts(SubSeq(t, 1, n), t)
    BY <2>4, <2>5 DEF Starts
  <2>9. Starts(F[i - 1] \o SubSeq(t, 1, n), F[i - 1] \o t)
        /\ F[i - 1] \o SubSeq(t, 1, n) \in Seq(Addrs)
    BY <1>2, <2>1, <2>4, <2>8, ConcatStarts
  <2>10. F[i] \in Seq(Addrs) /\ Starts(F[i], AddressesOfAll(v))
         /\ AddressesOfAll(v) \in Seq(Addrs)
    BY <1>1, <1>2, <1>3, <2>1, PromisedFacts
  <2> QED
    BY <2>6, <2>7, <2>9, <2>10, StartsTransitive
<1> QED
  BY <1>4, <1>5

\* The sizes of all the ranges are more than l only if there are more than l
\* addresses, and so many as there are when none of them has more than l.
LEMMA TotalCounts ==
    ASSUME v \in Seq(Ranges), \A k \in 1..Len(v) : Enumerable(v[k]),
           NEW l \in Nat, Bounding(l)
    PROVE  /\ TotalSize(v) > l => Len(AddressesOfAll(v)) > l
           /\ (\A k \in 1..Len(v) : Size(v[k]) <= l) =>
                    TotalSize(v) = Len(AddressesOfAll(v))
<1>1. l < SizeMax /\ l * Len(v) <= SizeMax /\ Len(v) \in 0..Len(v)
  BY DEF Bounding
<1> DEFINE z == SizeOfFirst(v)[Len(v)]
           f == Len(AddressesOfFirst(v)[Len(v)])
<1>2. z \in Nat /\ f \in Nat /\ z <= f
      /\ ((\A k \in 1..Len(v) : Size(v[k]) <= l) => z = f)
  BY <1>1, SizeOfFirstCounts
<1>3. TotalSize(v) = z /\ Len(AddressesOfAll(v)) = f
  BY DEF TotalSize, AddressesOfAll
<1> HIDE DEF z, f
<1> QED
  BY <1>2, <1>3

LEMMA CallAdded ==
    ASSUME Adds, Call
    PROVE  Added'
<1>1. v \in Seq(Ranges) /\ DOMAIN v = 1..Len(v)
  BY VectorType DEF Adds, Typed
<1>2. v' = v /\ result' = <<>> /\ i' = 1 /\ limit' \in Nat
      /\ pc' = IF TotalSize(v) > limit' THEN "threw" ELSE "range"
  BY DEF Call, Adds, Added
<1>3. AddressesOfFirst(v)[0] = <<>>
  BY <1>1, AddressesOfFirstRanges
<1>4. CASE TotalSize(v) > limit'
  <2>1. ASSUME Promised'
        PROVE  Len(AddressesOfAll(v)) > limit'
    <3>1. (\A k \in 1..Len(v) : Enumerable(v[k])) /\ Bounding(limit')
      BY <1>1, <1>2, <2>1 DEF Promised, Bounding
    <3> QED
      BY <1>1, <1>2, <1>4, <3>1, TotalCounts
  <2> QED
    BY <1>2, <1>4, <2>1 DEF Added
<1>5. CASE ~(TotalSize(v) > limit')
  <2>1. ASSUME Promised'
        PROVE  TotalSize(v) <= limit'
    <3>1. TotalSize(v) \in Nat
      <4>1. (\A k \in 1..Len(v) : Enumerable(v[k])) /\ Bounding(limit')
        BY <1>1, <1>2, <2>1 DEF Promised, Bounding
      <4>2. limit' < SizeMax /\ limit' * Len(v) <= SizeMax /\ Len(v) \in 0..Len(v)
        BY <1>1, <4>1 DEF Bounding
      <4> QED
        BY <1>1, <1>2, <4>1, <4>2, SizeOfFirstCounts DEF TotalSize
    <3> QED
      BY <1>2, <1>5, <3>1
  <2>2. i' - 1 = 0 /\ 1..(i' - 1) = {} /\ pc' = "range"
    BY <1>2, <1>5
  <2> QED
    BY <1>2, <1>3, <2>1, <2>2 DEF Added
<1> QED
  BY <1>4, <1>5

LEMMA RangeTooLargeAdded ==
    ASSUME Adds, RangeTooLarge
    PROVE  Added'
<1>1. v' = v /\ limit' = limit /\ pc' = "threw" /\ i <= Len(v) /\ Size(v[i]) > limit
  BY DEF RangeTooLarge
<1>2. ASSUME Promised'
      PROVE  Len(AddressesOfAll(v)) > limit
  <2>1. Promised /\ TypeOK
    BY <1>1, <1>2 DEF Promised, Bounding, Adds, Typed
  <2>2. i \in 1..Len(v) /\ v[i] \in Ranges /\ Enumerable(v[i])
        /\ limit \in Nat /\ limit < SizeMax /\ Len(AddressesOfAll(v)) \in Nat
    BY <1>1, <2>1, PromisedFacts DEF TypeOK
  <2>3. /\ Len(AddressesOf(v[i])) \in Nat
        /\ Size(v[i]) = Smaller(Len(AddressesOf(v[i])), SizeMax)
    BY <2>2, SizeCounts
  <2>4. Len(AddressesOfAll(v)) >= Len(AddressesOf(v[i]))
    BY <2>1, <2>2, RangeIsPart
  <2>5. Len(AddressesOf(v[i])) > limit
    BY <1>1, <2>2, <2>3 DEF Smaller
  <2> QED
    BY <2>2, <2>3, <2>4, <2>5
<1> QED
  BY <1>1, <1>2 DEF Added

LEMMA OutOfMemoryAdded ==
    ASSUME Adds, OutOfMemory
    PROVE  Added'
<1>1. v' = v /\ limit' = limit /\ pc' = "threw" /\ pc \in {"range", "push"}
      /\ Len(result) = MaxResult
  BY DEF OutOfMemory
<1>2. ASSUME Promised'
      PROVE  Len(AddressesOfAll(v)) > limit
  <2>1. Promised /\ TypeOK
    BY <1>1, <1>2 DEF Promised, Bounding, Adds, Typed
  <2>2. limit \in Nat /\ limit < MaxResult /\ Len(AddressesOfAll(v)) \in Nat
    BY <2>1, PromisedFacts
  <2>3. Len(result) <= Len(AddressesOfAll(v))
    BY <1>1, <2>1, AddedStarts DEF Starts
  <2> QED
    BY <1>1, <2>2, <2>3
<1> QED
  BY <1>1, <1>2 DEF Added

LEMMA ReturnAdded ==
    ASSUME Adds, Return
    PROVE  Added'
<1>1. v' = v /\ limit' = limit /\ pc' = "returned" /\ pc = "range" /\ i > Len(v)
      /\ i' = i /\ result' = result
  BY DEF Return
<1>2. i = Len(v) + 1
  BY <1>1, VectorType DEF Adds, Typed, TypeOK
<1>3. Promised' => Promised
  BY <1>1 DEF Promised, Bounding
<1> QED
  BY <1>1, <1>2, <1>3 DEF Adds, Added

LEMMA StartRangeAdded ==
    ASSUME Adds, StartRange
    PROVE  Added'
<1>1. v' = v /\ limit' = limit /\ i' = i /\ result' = result
      /\ pc = "range" /\ pc' = "push" /\ a' = v[i].from
      /\ i <= Len(v) /\ Size(v[i]) <= limit /\ IsRange(v[i])
  BY DEF StartRange
<1>2. ASSUME Promised'
      PROVE  /\ TotalSize(v) <= limit /\ \A k \in 1..(i - 1) : Size(v[k]) <= limit
             /\ Adding'
  <2>1. Promised /\ TypeOK
    BY <1>1, <1>2 DEF Promised, Bounding, Adds, Typed
  <2>2. TotalSize(v) <= limit /\ (\A k \in 1..(i - 1) : Size(v[k]) <= limit)
        /\ result = AddressesOfFirst(v)[i - 1]
    BY <1>1, <2>1 DEF Adds, Added
  <2>3. i \in 1..Len(v) /\ i - 1 \in 0..Len(v) /\ v[i] \in Ranges /\ Enumerable(v[i])
    BY <1>1, <2>1, PromisedFacts DEF TypeOK
  <2>4. v[i].from \in Addrs /\ v[i].from.ip \in Int /\ v[i].to.ip \in Int
        /\ v[i].from.ip <= v[i].to.ip
    BY <1>1, <2>3 DEF Enumerable, IsEmpty, Ranges, Addrs, Ips
  <2>5. v[i].from = [v[i].from EXCEPT !.ip = v[i].from.ip]
    BY <2>4 DEF Addrs
  <2>6. SubSeq(AddressesOf(v[i]), 1, v[i].from.ip - v[i].from.ip) = <<>>
    BY <2>4, SubSeqEmpty
  <2>7. result \o <<>> = result
    BY <2>1, ConcatEmptySeq DEF TypeOK
  <2>8. Size(v'[i']) <= limit'
        /\ v'[i'].from.ip <= a'.ip /\ a'.ip <= v'[i'].to.ip
        /\ a' = [v'[i'].from EXCEPT !.ip = a'.ip]
    BY <1>1, <2>4, <2>5
  <2>9. result' = AddressesOfFirst(v')[i' - 1]
                      \o SubSeq(AddressesOf(v'[i']), 1, a'.ip - v'[i'].from.ip)
    BY <1>1, <2>2, <2>6, <2>7
  <2> QED
    BY <2>2, <2>8, <2>9, Zenon DEF Adding
<1> QED
  BY <1>1, <1>2 DEF Added

LEMMA AddBoundAdded ==
    ASSUME Adds, AddBound
    PROVE  Added'
<1>1. v' = v /\ limit' = limit /\ i' = i + 1 /\ pc = "range" /\ pc' = "range"
      /\ i <= Len(v) /\ Size(v[i]) <= limit /\ ~IsRange(v[i])
      /\ result' = result \o (IF IsDefined(v[i]) THEN <<Low(v[i])>> ELSE <<>>)
  BY DEF AddBound
<1>2. ASSUME Promised'
      PROVE  /\ TotalSize(v) <= limit /\ \A k \in 1..i : Size(v[k]) <= limit
             /\ result' = AddressesOfFirst(v)[i]
  <2>1. Promised /\ TypeOK
    BY <1>1, <1>2 DEF Promised, Bounding, Adds, Typed
  <2>2. TotalSize(v) <= limit /\ (\A k \in 1..(i - 1) : Size(v[k]) <= limit)
        /\ result = AddressesOfFirst(v)[i - 1]
    BY <1>1, <2>1 DEF Adds, Added
  <2>3. i \in 1..Len(v) /\ v[i] \in Ranges /\ v \in Seq(Ranges)
    BY <1>1, <2>1, PromisedFacts DEF TypeOK
  <2>4. \A k \in 1..i : k = i \/ k \in 1..(i - 1)
    BY <2>3
  <2>5. result' = result \o AddressesOf(v[i])
    BY <1>1 DEF AddressesOf
  <2>6. AddressesOfFirst(v)[i] = AddressesOfFirst(v)[i - 1] \o AddressesOf(v[i])
    BY <2>3, AddressesOfFirstRanges
  <2> QED
    BY <1>1, <2>2, <2>4, <2>5, <2>6
<1>3. i \in Int /\ i' - 1 = i
  BY <1>1 DEF Adds, Typed, TypeOK
<1> QED
  BY <1>1, <1>2, <1>3 DEF Added

LEMMA Reassociate ==
    ASSUME NEW x \in Seq(Addrs), NEW y \in Seq(Addrs), NEW z \in Seq(Addrs)
    PROVE  (x \o y) \o z = x \o (y \o z)
BY ConcatAssociative, SMTT(30)

\* One more of the elements of t is added to s.
LEMMA OneMore ==
    ASSUME NEW s \in Seq(Addrs), NEW t \in Seq(Addrs), NEW n \in Nat, n + 1 <= Len(t)
    PROVE  Append(s \o SubSeq(t, 1, n), t[n + 1]) = s \o SubSeq(t, 1, n + 1)
<1>1. n + 1 \in 1..Len(t) /\ n + 1 \in 1..(n + 1) /\ 1 \in 1..Len(t) /\ n + 1 \in 1..Len(t)
      /\ (n + 1) - 1 = n /\ t[n + 1] \in Addrs
  BY LenProperties
<1>2. SubSeq(t, 1, n) \in Seq(Addrs)
  <2>1. \A k \in 1..n : t[k] \in Addrs
    BY <1>1
  <2> QED
    BY <2>1, SubSeqProperties
<1>3. SubSeq(t, 1, n + 1) = SubSeq(t, 1, n) \o <<t[n + 1]>>
  BY <1>1, SubSeqRecursiveSecond
<1>4. Append(s \o SubSeq(t, 1, n), t[n + 1]) = (s \o SubSeq(t, 1, n)) \o <<t[n + 1]>>
  BY <1>1, <1>2, ConcatProperties, AppendIsConcat
<1>5. <<t[n + 1]>> \in Seq(Addrs)
  BY <1>1
<1>6. (s \o SubSeq(t, 1, n)) \o <<t[n + 1]>> = s \o (SubSeq(t, 1, n) \o <<t[n + 1]>>)
  BY <1>2, <1>5, Reassociate, Zenon
<1> QED
  BY <1>3, <1>4, <1>6, Zenon

LEMMA PushAdded ==
    ASSUME Adds, Push
    PROVE  Added'
<1> DEFINE F == AddressesOfFirst(v)
           t == AddressesOf(v[i])
           n == a.ip - v[i].from.ip
<1>1. v' = v /\ limit' = limit /\ pc = "push"
      /\ result' = Append(result, a) /\ a' = Plus(a, 1)
      /\ IF a'.ip <= v[i].to.ip THEN i' = i /\ pc' = pc
         ELSE i' = i + 1 /\ pc' = "range"
  BY DEF Push
<1>2. ASSUME Promised
      PROVE  /\ TotalSize(v) <= limit /\ \A k \in 1..i : Size(v[k]) <= limit
             /\ i \in 1..Len(v)
             /\ a'.ip <= v[i].to.ip => Adding'
             /\ ~(a'.ip <= v[i].to.ip) => result' = F[i]
  <2>1. TypeOK /\ Adding /\ IsRange(v[i]) /\ i \in 1..Len(v)
    BY <1>1, <1>2 DEF Adds, Added, Typed, Pushing, TypeOK
  <2>2. TotalSize(v) <= limit /\ \A k \in 1..i : Size(v[k]) <= limit
    <3>1. TotalSize(v) <= limit /\ \A k \in 1..(i - 1) : Size(v[k]) <= limit
      BY <1>1, <1>2 DEF Adds, Added
    <3>2. \A k \in 1..i : k = i \/ k \in 1..(i - 1)
      BY <2>1
    <3> QED
      BY <2>1, <3>1, <3>2 DEF Adding
  <2>3. v \in Seq(Ranges) /\ v[i] \in Ranges /\ Enumerable(v[i]) /\ i - 1 \in 0..Len(v)
    BY <1>2, <2>1, PromisedFacts
  <2> DEFINE p == v[i].from.ip
             q == v[i].to.ip
  <2>4. p \in Int /\ q \in Int /\ q < MaxIp /\ v[i].from \in Addrs /\ a \in Addrs
        /\ a.ip \in Int /\ 0 <= a.ip
    <3>1. v[i].from \in Addrs /\ v[i].to \in Addrs /\ a \in Addrs
      BY <2>1, <2>3 DEF TypeOK, Ranges
    <3>2. \A b \in Addrs : b.ip \in Int /\ 0 <= b.ip /\ b.ip <= MaxIp
      BY DEF Addrs, Ips
    <3>3. q # MaxIp
      BY <2>1, <2>3 DEF Enumerable
    <3> QED
      BY <3>1, <3>2, <3>3
  <2>5. p <= a.ip /\ a.ip <= q /\ a = [v[i].from EXCEPT !.ip = a.ip]
        /\ result = F[i - 1] \o SubSeq(t, 1, n)
    BY <2>1 DEF Adding
  <2>6. ~IsEmpty(v[i])
    BY <2>1, <2>3 DEF Enumerable
  <2>7. t \in Seq(Addrs) /\ Len(t) = q - p + 1
        /\ \A k \in 1..(q - p + 1) : t[k] = [v[i].from EXCEPT !.ip = p + k - 1]
    BY <2>1, <2>3, <2>6, AddressesOfRange
  <2>8. F[i - 1] \in Seq(Addrs) /\ F[i] = F[i - 1] \o t
    BY <1>2, <2>1, <2>3, PromisedFacts, AddressesOfFirstRanges
  <2>9. a'.ip = a.ip + 1 /\ a' = [a EXCEPT !.ip = a.ip + 1]
    <3>1. \A x, y \in Int : 0 <= x /\ x <= y /\ y < MaxIp =>
                ~(x + 1 < 0) /\ ~(x + 1 > MaxIp)
      OBVIOUS
    <3>2. ~(a.ip + 1 < 0) /\ ~(a.ip + 1 > MaxIp)
      BY <2>4, <2>5, <3>1, Zenon
    <3>3. a' = [a EXCEPT !.ip = a.ip + 1]
      BY <1>1, <3>2 DEF Plus
    <3> QED
      BY <2>4, <3>3 DEF Addrs
  <2>10. a' = [v[i].from EXCEPT !.ip = a'.ip]
    BY <2>4, <2>5, <2>9 DEF Addrs
  <2> HIDE DEF F, t, p, q
  <2>11. n \in Nat /\ n + 1 <= Len(t) /\ n + 1 \in 1..(q - p + 1) /\ p + (n + 1) - 1 = a.ip
    <3>1. \A x, y, z \in Int : x <= y /\ y <= z =>
                /\ y - x \in Nat /\ (y - x) + 1 <= z - x + 1
                /\ (y - x) + 1 \in 1..(z - x + 1) /\ x + ((y - x) + 1) - 1 = y
      OBVIOUS
    <3>2. n = a.ip - p
      BY DEF p
    <3>3. /\ a.ip - p \in Nat /\ (a.ip - p) + 1 <= q - p + 1
          /\ (a.ip - p) + 1 \in 1..(q - p + 1) /\ p + ((a.ip - p) + 1) - 1 = a.ip
      BY <2>4, <2>5, <3>1, Zenon
    <3> QED
      BY <2>7, <3>2, <3>3, Zenon
  <2> HIDE DEF n
  <2>12. t[n + 1] = a
    BY <2>5, <2>7, <2>11
  <2>13. result' = F[i - 1] \o SubSeq(t, 1, n + 1)
    BY <1>1, <2>5, <2>7, <2>8, <2>11, <2>12, OneMore
  <2>14. n + 1 = a'.ip - p
    BY <2>4, <2>9 DEF n, p
  <2>15. ~(a'.ip <= q) => n + 1 = Len(t)
    BY <2>4, <2>5, <2>7, <2>9, <2>14, SMTT(30)
  <2>16. ~(a'.ip <= q) => result' = F[i]
    BY <2>7, <2>8, <2>13, <2>15, SubSeqFull
  <2>17. a'.ip <= q => Adding'
    <3> SUFFICES ASSUME a'.ip <= q
                 PROVE  Adding'
      OBVIOUS
    <3>1. i' = i /\ v' = v /\ limit' = limit
      BY <1>1 DEF q
    <3>2. p <= a'.ip
      BY <2>4, <2>5, <2>9
    <3>3. result' = AddressesOfFirst(v)[i - 1]
                        \o SubSeq(AddressesOf(v[i]), 1, a'.ip - v[i].from.ip)
      BY <2>13, <2>14 DEF F, t, p
    <3>4. v[i].from.ip <= a'.ip /\ a'.ip <= v[i].to.ip /\ Size(v[i]) <= limit
      BY <2>1, <2>2, <3>2 DEF p, q
    <3> QED
      BY <2>10, <3>1, <3>3, <3>4, Zenon DEF Adding
  <2> QED
    BY <2>1, <2>2, <2>16, <2>17 DEF q
<1>3. Promised' => Promised
  BY <1>1 DEF Promised, Bounding
<1>4. i \in Int
  BY DEF Adds, Typed, TypeOK
<1>5. CASE a'.ip <= v[i].to.ip
  <2>1. i' = i /\ pc' = "push"
    BY <1>1, <1>5
  <2>2. Promised' => /\ TotalSize(v) <= limit /\ \A k \in 1..(i - 1) : Size(v[k]) <= limit
                     /\ Adding'
    BY <1>2, <1>3, <1>4, <1>5
  <2> QED
    BY <1>1, <2>1, <2>2 DEF Added
<1>6. CASE ~(a'.ip <= v[i].to.ip)
  <2>1. i' = i + 1 /\ pc' = "range" /\ i' - 1 = i
    BY <1>1, <1>4, <1>6
  <2>2. Promised' => /\ TotalSize(v) <= limit /\ \A k \in 1..i : Size(v[k]) <= limit
                     /\ result' = AddressesOfFirst(v)[i]
    BY <1>2, <1>3, <1>6
  <2> QED
    BY <1>1, <2>1, <2>2 DEF Added
<1> QED
  BY <1>5, <1>6

LEMMA AddsStep ==
    ASSUME Adds, [Next]_vars
    PROVE  Adds'
<1>1. Typed'
  BY TypedStep DEF Adds
<1>2. ASSUME NewRange \/ ChangeRange \/ Resume PROVE Added'
  BY <1>2 DEF NewRange, ChangeRange, Resume, Adds, Added
<1>3. ASSUME UNCHANGED vars PROVE Added'
  <2>1. v' = v /\ limit' = limit /\ i' = i /\ a' = a /\ result' = result /\ pc' = pc
    BY <1>3 DEF vars
  <2>2. (Promised' <=> Promised) /\ (Adding' <=> Adding)
    BY <2>1 DEF Promised, Bounding, Adding
  <2> QED
    BY <2>1, <2>2 DEF Adds, Added
<1>4. Added'
  BY <1>2, <1>3, CallAdded, RangeTooLargeAdded, StartRangeAdded, AddBoundAdded,
     PushAdded, OutOfMemoryAdded, ReturnAdded DEF Next
<1> QED
  BY <1>1, <1>4 DEF Adds

\* to_addresses() gives every address of the ranges and none twice for one
\* range, in order; it throws when there are more than the limit and only then.
\* This holds for every limit which the sizes, of the width they have, cannot
\* go past unnoticed, and for ranges which end before the last address of all.
THEOREM EveryAddressIsGiven == Spec => []AddressesExact
<1>1. Init => Adds
  <2>1. ASSUME Init PROVE Typed
    BY <2>1, RangeTypes DEF Init, Typed, TypeOK, Pushing
  <2>2. ASSUME Init PROVE Added
    BY <2>2 DEF Init, Added
  <2> QED
    BY <2>1, <2>2 DEF Adds
<1>2. Adds /\ [Next]_vars => Adds'
  BY AddsStep
<1>3. Adds => AddressesExact
  <2> SUFFICES ASSUME Adds, Promised
               PROVE  /\ pc \in {"range", "push", "returned"} =>
                            IsPrefix(result, AddressesOfAll(v))
                      /\ pc = "returned" =>
                            /\ result = AddressesOfAll(v) /\ Len(result) <= limit
                            /\ \A k \in DOMAIN result : AddressMatchRanges(v, result[k])
                      /\ pc = "threw" => Len(AddressesOfAll(v)) > limit
    BY DEF AddressesExact, Promised
  <2>1. TypeOK /\ result \in Seq(Addrs) /\ AddressesOfAll(v) \in Seq(Addrs)
        /\ v \in Seq(Ranges) /\ Len(v) \in 0..Len(v)
        /\ \A k \in 1..Len(v) : Enumerable(v[k])
    BY PromisedFacts DEF Adds, Typed, TypeOK
  <2>2. pc \in {"range", "push", "returned"} => IsPrefix(result, AddressesOfAll(v))
    BY <2>1, AddedStarts, StartsIsPrefix
  <2>3. ASSUME pc = "returned"
        PROVE  /\ result = AddressesOfAll(v) /\ Len(result) <= limit
               /\ \A k \in DOMAIN result : AddressMatchRanges(v, result[k])
    <3>1. i = Len(v) + 1 /\ result = AddressesOfFirst(v)[i - 1] /\ TotalSize(v) <= limit
          /\ \A k \in 1..(i - 1) : Size(v[k]) <= limit
      BY <2>3 DEF Adds, Added
    <3>2. i - 1 = Len(v)
      BY <2>1, <3>1
    <3>3. result = AddressesOfAll(v)
      BY <3>1, <3>2 DEF AddressesOfAll
    <3>4. TotalSize(v) = Len(AddressesOfAll(v))
      <4>1. limit \in Nat /\ Bounding(limit)
        BY <2>1, PromisedFacts DEF Promised
      <4> QED
        BY <2>1, <3>1, <3>2, <4>1, TotalCounts
    <3>5. DOMAIN result = 1..Len(result)
      BY <2>1
    <3>6. \A k \in 1..Len(result) : AddressMatchRanges(v, result[k])
      BY <2>1, <3>1, <3>2, FirstMatch
    <3> QED
      BY <3>1, <3>3, <3>4, <3>5, <3>6
  <2>4. pc = "threw" => Len(AddressesOfAll(v)) > limit
    BY DEF Adds, Added
  <2> QED
    BY <2>2, <2>3, <2>4
<1> QED
  BY <1>1, <1>2, <1>3, PTL DEF Spec

=============================================================================
