------------------------ MODULE OptimizeVectorProofs ------------------------
(***************************************************************************)
(* What OptimizeVector guarantees for every width of the addresses, every  *)
(* set of networks and every size of the vector.                           *)
(***************************************************************************)
EXTENDS OptimizeVector, AddrRangeProofs, SequenceTheorems, TLAPS

USE AddrRangeAssumption, OptimizeVectorAssumption
    DEF AddrRangeAssumption, OptimizeVectorAssumption

-----------------------------------------------------------------------------
(* Masks and networks                                                      *)

\* An address is part of its network, whose bounds are the ones apply_mask()
\* computes without changing the mask.
LEMMA NetworkBounds ==
    ASSUME NEW a \in Addrs
    PROVE  /\ a.ip \in Matched(a) /\ Matched(a) \subseteq Ips
           /\ FirstIp(a) \in Matched(a) /\ \A ip \in Matched(a) : FirstIp(a) <= ip
           /\ LastIp(a) \in Matched(a) /\ \A ip \in Matched(a) : LastIp(a) >= ip
           /\ FirstIp(a) = Min(Matched(a)) /\ LastIp(a) = Max(Matched(a))
           /\ ApplyMask(a) \in Addrs /\ ApplyMask(a).mask = a.mask
           /\ ApplyMaskInversed(a) \in Addrs /\ ApplyMaskInversed(a).mask = a.mask
<1>1. a.ip \in Matched(a) /\ Matched(a) \subseteq Ips
  BY DEF Matched, Addrs
<1>2. /\ Min(Matched(a)) \in Matched(a) /\ \A ip \in Matched(a) : Min(Matched(a)) <= ip
      /\ Max(Matched(a)) \in Matched(a) /\ \A ip \in Matched(a) : Max(Matched(a)) >= ip
  BY <1>1, MinOfIps, MaxOfIps
<1>3. FirstIp(a) = Min(Matched(a)) /\ LastIp(a) = Max(Matched(a))
  BY DEF FirstIp, LastIp, ApplyMask, ApplyMaskInversed, Addrs
<1>4. /\ ApplyMask(a) \in Addrs /\ ApplyMask(a).mask = a.mask
      /\ ApplyMaskInversed(a) \in Addrs /\ ApplyMaskInversed(a).mask = a.mask
  BY <1>1, <1>2 DEF ApplyMask, ApplyMaskInversed, Addrs
<1> QED
  BY <1>1, <1>2, <1>3, <1>4

\* Two addresses with the same mask, one in the network of the other, are of
\* the same network.
LEMMA SameMatched ==
    ASSUME NEW a \in Addrs, NEW b \in Addrs,
           a.mask = b.mask, b.ip \in Matched(a)
    PROVE  Matched(a) = Matched(b)
BY DEF Matched

\* The mask of an address from_cidr() accepts, and those it makes of it.
LEMMA MaskSize ==
    ASSUME NEW a \in Addrs
    PROVE  /\ GetMaskSize(a) \in Int
           /\ AcceptsCidr(a) => a.mask = PrefixMask(GetMaskSize(a))
           /\ \A b : b.mask = a.mask => GetMaskSize(b) = GetMaskSize(a)
<1>1. ASSUME NEW b, b.mask = a.mask
      PROVE  GetMaskSize(b) = GetMaskSize(a)
  BY <1>1, Zenon DEF GetMaskSize
<1>2. CASE \E n \in 0..Bits : a.mask = PrefixMask(n)
  <2> DEFINE m == CHOOSE n \in 0..Bits : a.mask = PrefixMask(n)
  <2>1. m \in 0..Bits /\ a.mask = PrefixMask(m)
    BY <1>2
  <2>2. GetMaskSize(a) = m
    BY <1>2 DEF GetMaskSize
  <2> HIDE DEF m
  <2>3. GetMaskSize(a) \in Int /\ a.mask = PrefixMask(GetMaskSize(a))
    BY <2>1, <2>2
  <2> QED
    BY <1>1, <2>3
<1>3. CASE ~\E n \in 0..Bits : a.mask = PrefixMask(n)
  <2>1. GetMaskSize(a) = -1
    BY <1>3 DEF GetMaskSize
  <2> QED
    BY <1>1, <2>1 DEF AcceptsCidr
<1> QED
  BY <1>2, <1>3

LEMMA MaskRange ==
    ASSUME NEW a \in Addrs, AcceptsCidr(a)
    PROVE  GetMaskSize(a) \in 0..Bits /\ a.mask = PrefixMask(GetMaskSize(a))
<1>1. \E n \in 0..Bits : a.mask = PrefixMask(n)
  BY DEF AcceptsCidr, GetMaskSize
<1> DEFINE m == CHOOSE n \in 0..Bits : a.mask = PrefixMask(n)
<1>2. m \in 0..Bits /\ a.mask = PrefixMask(m)
  BY <1>1
<1>3. GetMaskSize(a) = m
  BY <1>1 DEF GetMaskSize
<1> HIDE DEF m
<1> QED
  BY <1>2, <1>3

\* A range which is a whole network, with its mask on both bounds.
IsBlock(r) ==
    /\ r \in Ranges
    /\ IsRange(r)
    /\ AcceptsCidr(r.from)
    /\ r.to.mask = r.from.mask
    /\ r.from.ip = FirstIp(r.from)
    /\ r.to.ip = LastIp(r.from)

LEMMA FromCidrIsBlock ==
    ASSUME NEW a \in Addrs, AcceptsCidr(a)
    PROVE  /\ IsBlock(FromCidr(a))
           /\ FromCidr(a).from.mask = a.mask
           /\ FromCidr(a).from.ip = FirstIp(a)
           /\ FromCidr(a).to.ip = LastIp(a)
<1> DEFINE r == FromCidr(a)
<1>1. DefaultAddr \in Addrs
  BY DEF DefaultAddr, Addrs, Ips, Masks, PrefixMask
<1>2. /\ r \in Ranges /\ IsRange(r)
      /\ r.from = ApplyMask(a) /\ r.to = ApplyMaskInversed(a)
  BY <1>1, NetworkBounds DEF FromCidr, NoRange, SetFrom, SetTo, Ranges, IsRange
<1>3. r.from \in Addrs /\ r.from.mask = a.mask /\ r.to.mask = a.mask
  BY <1>2, NetworkBounds
<1>4. r.from.ip = FirstIp(a) /\ r.to.ip = LastIp(a)
  BY <1>2 DEF FirstIp, LastIp
<1>5. Matched(r.from) = Matched(a)
  <2>1. r.from.ip \in Matched(a)
    BY <1>4, NetworkBounds
  <2> QED
    BY <1>3, <2>1, SameMatched
<1>6. FirstIp(r.from) = FirstIp(a) /\ LastIp(r.from) = LastIp(a)
  BY <1>3, <1>5, NetworkBounds
<1>7. AcceptsCidr(r.from)
  BY <1>3, MaskSize DEF AcceptsCidr
<1> QED
  BY <1>2, <1>3, <1>4, <1>6, <1>7 DEF IsBlock

\* The union of two networks which is itself the whole network of its lower
\* bound is one of the two, and includes both.
LEMMA UnionOfBlocks ==
    ASSUME NEW l, IsBlock(l), NEW r, IsBlock(r),
           ~UnionThrows(l, r),
           NEW w, w = UnionIfPossible(l, r), IsDefined(w),
           ApplyMask(w.from).ip = w.from.ip,
           ApplyMaskInversed(w.from).ip = w.to.ip
    PROVE  /\ IsBlock(w)
           /\ \/ w.from.ip = l.from.ip /\ w.to.ip = l.to.ip
              \/ w.from.ip = r.from.ip /\ w.to.ip = r.to.ip
           /\ w.from.ip <= l.from.ip /\ l.to.ip <= w.to.ip
           /\ w.from.ip <= r.from.ip /\ r.to.ip <= w.to.ip
<1>1. /\ Low(l) = l.from /\ High(l) = l.to /\ Low(r) = r.from /\ High(r) = r.to
      /\ l.from \in Addrs /\ l.to \in Addrs /\ r.from \in Addrs /\ r.to \in Addrs
  BY DEF IsBlock, IsRange, Low, High, Ranges
<1> DEFINE m == UnionMask(l.from, r.from)
           from == SetMaskCount(LowerAddr(l, r), m)
           to == SetMaskCount(HigherAddr(l, r), UnionMask(l.to, r.to))
<1>2. UnionMask(l.to, r.to) = m
  <2>1. GetMaskSize(l.to) = GetMaskSize(l.from) /\ GetMaskSize(r.to) = GetMaskSize(r.from)
    BY <1>1, MaskSize DEF IsBlock
  <2> QED
    BY <2>1 DEF UnionMask
<1>3. /\ PrefixMask(GetMaskSize(l.from)) = l.from.mask
      /\ PrefixMask(GetMaskSize(r.from)) = r.from.mask
      /\ GetMaskSize(l.from) \in Int /\ GetMaskSize(r.from) \in Int
  BY <1>1, MaskSize DEF IsBlock
<1>4. /\ m = GetMaskSize(l.from) \/ m = GetMaskSize(r.from)
      /\ PrefixMask(m) = l.from.mask \/ PrefixMask(m) = r.from.mask
      /\ m # -1
  BY <1>3 DEF UnionMask, Smaller, IsBlock, AcceptsCidr
<1>5. /\ w = SetTo(SetFrom(NoRange, from), to)
      /\ Touches(l, r)
  <2>1. IsRange(l) /\ IsDefined(l)
    BY DEF IsBlock, IsRange, IsDefined
  <2>2. ~IsDefined(NoRange)
    BY DEF NoRange, IsDefined
  <2> QED
    BY <2>1, <2>2 DEF UnionIfPossible
<1>6. /\ from \in Addrs /\ to \in Addrs
      /\ from.mask = PrefixMask(m) /\ to.mask = PrefixMask(m)
      /\ from.ip = LowerAddr(l, r).ip /\ to.ip = HigherAddr(l, r).ip
  <2>1. LowerAddr(l, r) \in Addrs /\ HigherAddr(l, r) \in Addrs
    BY <1>1 DEF LowerAddr, HigherAddr
  <2>2. PrefixMask(m) \in Masks
    BY <1>1, <1>4 DEF Addrs
  <2> QED
    BY <1>2, <2>1, <2>2 DEF SetMaskCount, Addrs
<1>7. w \in Ranges /\ w.from = from /\ w.to = to /\ IsRange(w)
  <2>1. DefaultAddr \in Addrs
    BY DEF DefaultAddr, Addrs, Ips, Masks, PrefixMask
  <2> QED
    BY <1>5, <1>6, <2>1 DEF SetTo, SetFrom, NoRange, Ranges, IsRange
<1> HIDE DEF from, to, m
<1>8. IsBlock(w)
  <2>1. AcceptsCidr(w.from)
    <3>1. \/ from.mask = l.from.mask /\ AcceptsCidr(l.from)
          \/ from.mask = r.from.mask /\ AcceptsCidr(r.from)
      BY <1>4, <1>6 DEF IsBlock
    <3>2. GetMaskSize(from) = GetMaskSize(l.from) \/ GetMaskSize(from) = GetMaskSize(r.from)
      BY <1>1, <3>1, MaskSize
    <3> QED
      BY <1>1, <1>6, <1>7, <3>1, MaskSize DEF AcceptsCidr
  <2> QED
    BY <1>6, <1>7, <2>1 DEF IsBlock, FirstIp, LastIp
<1>9. /\ l.from.ip \in Int /\ l.to.ip \in Int /\ r.from.ip \in Int /\ r.to.ip \in Int
      /\ w.from.ip = IF l.from.ip < r.from.ip THEN l.from.ip ELSE r.from.ip
      /\ w.to.ip = IF l.to.ip > r.to.ip THEN l.to.ip ELSE r.to.ip
  BY <1>1, <1>6, <1>7 DEF LowerAddr, HigherAddr, Addrs, Ips
\* The two networks of a block and of an address with the same mask are one
\* when they share an address.
<1>10. ASSUME NEW b, IsBlock(b), b.from.mask = w.from.mask,
              w.from.ip = b.from.ip \/ w.to.ip = b.to.ip
       PROVE  w.from.ip = b.from.ip /\ w.to.ip = b.to.ip
  <2>1. b.from \in Addrs /\ w.from \in Addrs
    BY <1>7, <1>10, <1>6 DEF IsBlock, Ranges
  <2>2. PICK x : x \in Matched(b.from) /\ x \in Matched(w.from)
    <3>1. /\ b.from.ip \in Matched(b.from) /\ b.to.ip \in Matched(b.from)
          /\ w.from.ip \in Matched(w.from) /\ w.to.ip \in Matched(w.from)
      <4>1. /\ b.from.ip = FirstIp(b.from) /\ b.to.ip = LastIp(b.from)
            /\ w.from.ip = FirstIp(w.from) /\ w.to.ip = LastIp(w.from)
        BY <1>8, <1>10 DEF IsBlock
      <4>2. /\ FirstIp(b.from) \in Matched(b.from) /\ LastIp(b.from) \in Matched(b.from)
            /\ FirstIp(w.from) \in Matched(w.from) /\ LastIp(w.from) \in Matched(w.from)
        <5>1. \A a \in Addrs : FirstIp(a) \in Matched(a) /\ LastIp(a) \in Matched(a)
          BY NetworkBounds
        <5> QED
          BY <2>1, <5>1, Zenon
      <4> QED
        BY <4>1, <4>2, Zenon
    <3> QED
      BY <1>10, <3>1
  <2>3. Matched(b.from) = Matched(w.from)
    BY <1>10, <2>1, <2>2 DEF Matched
  <2>4. FirstIp(b.from) = FirstIp(w.from) /\ LastIp(b.from) = LastIp(w.from)
    BY <2>1, <2>3, NetworkBounds
  <2> QED
    BY <1>8, <1>10, <2>4 DEF IsBlock
<1>11. \/ w.from.ip = l.from.ip /\ w.to.ip = l.to.ip
       \/ w.from.ip = r.from.ip /\ w.to.ip = r.to.ip
  <2>1. CASE w.from.mask = l.from.mask
    BY <1>9, <1>10, <2>1
  <2>2. CASE w.from.mask = r.from.mask
    BY <1>9, <1>10, <2>2
  <2> QED
    BY <1>4, <1>6, <1>7, <2>1, <2>2
<1> QED
  BY <1>8, <1>9, <1>11

\* The lower bound of a union of two networks has the mask of the larger one,
\* that with the smaller mask size.
LEMMA UnionOfBlocksMask ==
    ASSUME NEW l, IsBlock(l), NEW r, IsBlock(r), ~UnionThrows(l, r), Touches(l, r),
           NEW w, w = UnionIfPossible(l, r)
    PROVE  /\ IsDefined(w) /\ w.from \in Addrs
           /\ w.from.mask = IF GetMaskSize(l.from) < GetMaskSize(r.from)
                            THEN l.from.mask ELSE r.from.mask
           /\ w.from.ip = IF l.from.ip < r.from.ip THEN l.from.ip ELSE r.from.ip
           /\ w.to.ip = IF l.to.ip > r.to.ip THEN l.to.ip ELSE r.to.ip
<1>1. /\ Low(l) = l.from /\ High(l) = l.to /\ Low(r) = r.from /\ High(r) = r.to
      /\ l.from \in Addrs /\ l.to \in Addrs /\ r.from \in Addrs /\ r.to \in Addrs
      /\ IsRange(l) /\ IsDefined(l)
  BY DEF IsBlock, IsRange, IsDefined, Low, High, Ranges
<1> DEFINE m == UnionMask(l.from, r.from)
           from == SetMaskCount(LowerAddr(l, r), m)
           to == SetMaskCount(HigherAddr(l, r), UnionMask(l.to, r.to))
<1>2. w = SetTo(SetFrom(NoRange, from), to)
  BY <1>1 DEF UnionIfPossible
<1>3. PrefixMask(m) = IF GetMaskSize(l.from) < GetMaskSize(r.from)
                      THEN l.from.mask ELSE r.from.mask
  BY <1>1, MaskSize DEF IsBlock, UnionMask, Smaller
<1>4. LowerAddr(l, r) \in Addrs /\ HigherAddr(l, r) \in Addrs
  BY <1>1 DEF LowerAddr, HigherAddr
<1>5. from \in Addrs /\ from.mask = PrefixMask(m) /\ from.ip = LowerAddr(l, r).ip
  <2>1. PrefixMask(m) \in Masks
    BY <1>1, <1>3 DEF Addrs
  <2> QED
    BY <1>4, <2>1 DEF SetMaskCount, Addrs
<1>6. to.ip = HigherAddr(l, r).ip
  BY <1>4 DEF SetMaskCount, Addrs
<1> HIDE DEF from, to, m
<1>7. w.from = from /\ w.to = to /\ IsDefined(w)
  BY <1>2 DEF SetTo, SetFrom, NoRange, IsDefined
<1> QED
  BY <1>1, <1>3, <1>5, <1>6, <1>7 DEF LowerAddr, HigherAddr

\* A network which is in another one, whatever their masks, makes a union
\* with it which is a network: that of the larger of the two.  One with the
\* smaller mask size of the two cannot be the smaller one, since the larger
\* one has all of the addresses between its bounds.
LEMMA InnerOfBlocks ==
    ASSUME NEW x, IsBlock(x), NEW y, IsBlock(y),
           x.from.ip <= y.from.ip, y.to.ip <= x.to.ip,
           NEW c \in Addrs, c.ip = x.from.ip,
           \/ c.mask = x.from.mask
           \/ c.mask = y.from.mask /\ GetMaskSize(y.from) <= GetMaskSize(x.from)
    PROVE  FirstIp(c) = x.from.ip /\ LastIp(c) = x.to.ip
<1>1. /\ x.from \in Addrs /\ y.from \in Addrs /\ x.to \in Addrs /\ y.to \in Addrs
      /\ x.from.ip = FirstIp(x.from) /\ x.to.ip = LastIp(x.from)
      /\ y.from.ip = FirstIp(y.from) /\ y.to.ip = LastIp(y.from)
  BY DEF IsBlock, Ranges
<1>2. ASSUME NEW b, b \in {x, y}, c.mask = b.from.mask, c.ip \in Matched(b.from)
      PROVE  FirstIp(c) = b.from.ip /\ LastIp(c) = b.to.ip
  <2>0. b.from \in Addrs /\ b.from.ip = FirstIp(b.from) /\ b.to.ip = LastIp(b.from)
    BY <1>1, <1>2
  <2>1. Matched(c) = Matched(b.from)
    BY <1>2, <2>0, SameMatched
  <2>2. /\ FirstIp(c) = Min(Matched(c)) /\ LastIp(c) = Max(Matched(c))
        /\ FirstIp(b.from) = Min(Matched(b.from)) /\ LastIp(b.from) = Max(Matched(b.from))
    BY <2>0, NetworkBounds
  <2> QED
    BY <2>0, <2>1, <2>2
<1>3. CASE c.mask = x.from.mask
  BY <1>1, <1>2, <1>3, NetworkBounds
<1>4. CASE c.mask = y.from.mask /\ GetMaskSize(y.from) <= GetMaskSize(x.from)
  <2> DEFINE m == GetMaskSize(y.from)
             n == GetMaskSize(x.from)
  <2>1. /\ m \in 0..Bits /\ y.from.mask = PrefixMask(m)
        /\ n \in 0..Bits /\ x.from.mask = PrefixMask(n)
    BY <1>1, MaskRange DEF IsBlock
  <2>2. y.from.mask \subseteq x.from.mask
    BY <1>4, <2>1 DEF PrefixMask
  <2>3. y.from.ip \in Matched(x.from)
    <3>1. y.from.ip \in Matched(y.from) /\ y.to.ip \in Matched(y.from)
      BY <1>1, NetworkBounds
    <3>2. y.from.ip \in Ips /\ y.from.ip <= y.to.ip
      <4>1. \A ip \in Matched(y.from) : FirstIp(y.from) <= ip
        BY <1>1, NetworkBounds
      <4> QED
        BY <1>1, <3>1, <4>1 DEF Addrs
    <3>3. y.from.ip <= x.to.ip
      BY <1>1, <3>2 DEF Addrs, Ips
    <3>4. x.from.ip \in Matched(x.from) /\ x.to.ip \in Matched(x.from)
      BY <1>1, NetworkBounds
    <3> HIDE DEF n
    <3> QED
      BY <1>1, <2>1, <3>2, <3>3, <3>4, PrefixConvex
  <2>4. Matched(x.from) \subseteq Matched(y.from)
    BY <2>2, <2>3 DEF Matched
  <2>5. /\ x.from.ip \in Matched(y.from) /\ x.to.ip \in Matched(y.from)
    BY <1>1, <2>4, NetworkBounds
  <2>6. x.from.ip = y.from.ip /\ x.to.ip = y.to.ip
    <3>1. y.from.ip <= x.from.ip /\ y.to.ip >= x.to.ip
      <4>1. \A ip \in Matched(y.from) : FirstIp(y.from) <= ip /\ LastIp(y.from) >= ip
        BY <1>1, NetworkBounds
      <4> QED
        BY <1>1, <2>5, <4>1
    <3> QED
      BY <1>1, <3>1 DEF Addrs, Ips
  <2> QED
    BY <1>2, <1>4, <2>5, <2>6
<1> QED
  BY <1>3, <1>4

LEMMA IncludedIsAbsorbed ==
    ASSUME NEW l, IsBlock(l), NEW r, IsBlock(r), ~UnionThrows(l, r),
           NEW w, w = UnionIfPossible(l, r),
           \/ l.from.ip <= r.from.ip /\ r.to.ip <= l.to.ip
           \/ r.from.ip <= l.from.ip /\ l.to.ip <= r.to.ip
    PROVE  /\ IsDefined(w)
           /\ ApplyMask(w.from).ip = w.from.ip
           /\ ApplyMaskInversed(w.from).ip = w.to.ip
<1>1. /\ l.from \in Addrs /\ r.from \in Addrs
      /\ l.from.ip \in Int /\ l.to.ip \in Int /\ r.from.ip \in Int /\ r.to.ip \in Int
      /\ GetMaskSize(l.from) \in Int /\ GetMaskSize(r.from) \in Int
  BY MaskSize DEF IsBlock, Ranges, Addrs, Ips
<1>2. l.from.ip <= l.to.ip /\ r.from.ip <= r.to.ip
  <2>1. \A a \in Addrs : FirstIp(a) <= LastIp(a)
    BY NetworkBounds
  <2>2. /\ l.from.ip = FirstIp(l.from) /\ l.to.ip = LastIp(l.from)
        /\ r.from.ip = FirstIp(r.from) /\ r.to.ip = LastIp(r.from)
    BY DEF IsBlock
  <2> QED
    BY <1>1, <2>1, <2>2
<1>3. Touches(l, r)
  BY <1>1, <1>2, SMTT(30) DEF Touches, Low, High, IsBlock, IsRange
<1>4. /\ IsDefined(w) /\ w.from \in Addrs
      /\ w.from.mask = IF GetMaskSize(l.from) < GetMaskSize(r.from)
                       THEN l.from.mask ELSE r.from.mask
      /\ w.from.ip = IF l.from.ip < r.from.ip THEN l.from.ip ELSE r.from.ip
      /\ w.to.ip = IF l.to.ip > r.to.ip THEN l.to.ip ELSE r.to.ip
  BY <1>3, UnionOfBlocksMask
<1>5. CASE l.from.ip <= r.from.ip /\ r.to.ip <= l.to.ip
  <2>1. w.from.ip = l.from.ip /\ w.to.ip = l.to.ip
    BY <1>1, <1>4, <1>5
  <2>2. FirstIp(w.from) = l.from.ip /\ LastIp(w.from) = l.to.ip
    BY <1>1, <1>4, <1>5, <2>1, InnerOfBlocks
  <2> QED
    BY <1>4, <2>1, <2>2 DEF FirstIp, LastIp
<1>6. CASE r.from.ip <= l.from.ip /\ l.to.ip <= r.to.ip
  <2>1. w.from.ip = r.from.ip /\ w.to.ip = r.to.ip
    BY <1>1, <1>4, <1>6
  <2>2. FirstIp(w.from) = r.from.ip /\ LastIp(w.from) = r.to.ip
    BY <1>1, <1>4, <1>6, <2>1, InnerOfBlocks
  <2> QED
    BY <1>4, <2>1, <2>2 DEF FirstIp, LastIp
<1> QED
  BY <1>5, <1>6

-----------------------------------------------------------------------------
(* The loops                                                               *)

\* The loops stay inside of the vector, ra is the network of v[i], and u is
\* the union the test is about.
Loops ==
    /\ pc \in InCaller => i = 1
    /\ pc = "outer" => i <= Len(v) + 1
    /\ pc \in {"inner", "test"} =>
          /\ i < j /\ i <= Len(v) /\ j <= Len(v) + 1
          /\ IsBlock(ra)
          /\ SameNetwork(v[i], ra.from)
          /\ v[i].mask = ra.from.mask
    /\ pc = "test" =>
          /\ j <= Len(v)
          /\ ~UnionFails
          /\ u = UnionIfPossible(ra, FromCidr(v[j]))

Typed == TypeOK /\ Loops

\* What the vector is after v[i] was replaced and v[j] erased.
ReplacedErased(s, t, m, n, a) ==
    /\ t \in Seq(Addrs)
    /\ Len(t) = Len(s) - 1
    /\ DOMAIN t = 1..(Len(s) - 1)
    /\ \A k \in 1..(Len(s) - 1) :
          t[k] = IF k = m THEN a ELSE IF k < n THEN s[k] ELSE s[k + 1]

LEMMA ReplaceErase ==
    ASSUME NEW s \in Seq(Addrs), NEW a \in Addrs,
           NEW n \in 1..Len(s), NEW m \in 1..(n - 1), NEW t,
           t = RemoveAt(ReplaceAt(s, m, a), n)
    PROVE  ReplacedErased(s, t, m, n, a)
<1>1. Len(s) \in Nat
  OBVIOUS
<1> DEFINE r == ReplaceAt(s, m, a)
           p == SubSeq(r, 1, n - 1)
           q == SubSeq(r, n + 1, Len(s))
<1>2. /\ r \in Seq(Addrs)
      /\ Len(r) = Len(s)
      /\ \A k \in 1..Len(s) : r[k] = IF k = m THEN a ELSE s[k]
  BY <1>1 DEF ReplaceAt
<1>3. t = p \o q
  BY <1>2 DEF RemoveAt
<1> HIDE DEF r
<1>4. /\ p \in Seq(Addrs) /\ Len(p) = n - 1
      /\ \A k \in 1..(n - 1) : p[k] = r[k]
  BY <1>1, <1>2, SubSeqProperties
<1>5. /\ q \in Seq(Addrs) /\ Len(q) = Len(s) - n
      /\ \A k \in 1..(Len(s) - n) : q[k] = r[n + k]
  BY <1>1, <1>2, SubSeqProperties
<1> HIDE DEF p, q
<1>6. /\ t \in Seq(Addrs) /\ Len(t) = Len(s) - 1
      /\ \A k \in 1..(Len(s) - 1) :
            t[k] = IF k < n THEN p[k] ELSE q[k - n + 1]
  <2>1. t = p \o q /\ p \in Seq(Addrs) /\ q \in Seq(Addrs)
    BY <1>3, <1>4, <1>5
  <2>2. /\ t \in Seq(Addrs) /\ Len(t) = Len(p) + Len(q)
        /\ \A k \in 1..(Len(p) + Len(q)) :
              t[k] = IF k <= Len(p) THEN p[k] ELSE q[k - Len(p)]
    BY <2>1, ConcatProperties, ZenonT(30)
  <2>3. Len(p) + Len(q) = Len(s) - 1
    BY <1>1, <1>4, <1>5
  <2>4. ASSUME NEW k \in 1..(Len(s) - 1)
        PROVE  t[k] = IF k < n THEN p[k] ELSE q[k - n + 1]
    <3>1. t[k] = IF k <= n - 1 THEN p[k] ELSE q[k - (n - 1)]
      BY <1>4, <2>2, <2>3
    <3>2. (k <= n - 1 <=> k < n) /\ k - (n - 1) = k - n + 1
      BY <1>1
    <3> QED
      BY <3>1, <3>2
  <2> QED
    BY <2>2, <2>3, <2>4
<1>7. ASSUME NEW k \in 1..(Len(s) - 1)
      PROVE  t[k] = IF k = m THEN a ELSE IF k < n THEN s[k] ELSE s[k + 1]
  <2>1. CASE k < n
    BY <1>1, <1>2, <1>4, <1>6, <2>1
  <2>2. CASE k >= n
    <3>1. t[k] = q[k - n + 1] /\ k - n + 1 \in 1..(Len(s) - n)
      BY <1>1, <1>6, <2>2
    <3>2. t[k] = r[k + 1] /\ k + 1 \in 1..Len(s)
      BY <1>1, <1>5, <2>2, <3>1
    <3> QED
      BY <1>1, <1>2, <2>2, <3>2
  <2> QED
    BY <1>1, <2>1, <2>2
<1> QED
  BY <1>1, <1>6, <1>7 DEF ReplacedErased

\* What Absorb does: v[i] becomes a network which is the one of v[i] or of
\* v[j], and includes both.
LEMMA AbsorbMeans ==
    ASSUME Typed, Absorb
    PROVE  /\ i \in 1..Len(v) /\ j \in (i + 1)..Len(v) /\ Len(v) \in Nat
           /\ ReplacedErased(v, v', i, j, ApplyMask(u.from))
           /\ ApplyMask(u.from) \in Addrs
           /\ IsBlock(u) /\ SameNetwork(ApplyMask(u.from), u.from)
           /\ \/ SameNetwork(ApplyMask(u.from), v[i])
              \/ SameNetwork(ApplyMask(u.from), v[j])
           /\ Included(v[i], ApplyMask(u.from))
           /\ Included(v[j], ApplyMask(u.from))
<1>1. /\ Len(v) \in Nat /\ i \in 1..Len(v) /\ j \in (i + 1)..Len(v)
      /\ v \in Seq(Addrs) /\ v[i] \in Addrs /\ v[j] \in Addrs
  BY DEF Typed, TypeOK, Loops, Absorb
<1> DEFINE rb == FromCidr(v[j])
           a == ApplyMask(u.from)
<1>2. /\ IsBlock(ra) /\ SameNetwork(v[i], ra.from)
      /\ AcceptsCidr(v[j]) /\ ~UnionThrows(ra, rb)
      /\ u = UnionIfPossible(ra, rb) /\ IsNetwork
  BY DEF Typed, Loops, Absorb, UnionFails
<1>3. IsBlock(rb) /\ rb.from.ip = FirstIp(v[j]) /\ rb.to.ip = LastIp(v[j])
  BY <1>1, <1>2, FromCidrIsBlock
<1>4. /\ IsBlock(u)
      /\ \/ u.from.ip = ra.from.ip /\ u.to.ip = ra.to.ip
         \/ u.from.ip = rb.from.ip /\ u.to.ip = rb.to.ip
      /\ u.from.ip <= ra.from.ip /\ ra.to.ip <= u.to.ip
      /\ u.from.ip <= rb.from.ip /\ rb.to.ip <= u.to.ip
  BY <1>2, <1>3, UnionOfBlocks DEF IsNetwork
<1>5. u.from \in Addrs /\ a \in Addrs /\ a.mask = u.from.mask /\ a.ip = FirstIp(u.from)
  <2>1. u.from \in Addrs
    BY <1>4 DEF IsBlock, Ranges
  <2> QED
    BY <2>1, NetworkBounds DEF FirstIp
<1>6. FirstIp(a) = u.from.ip /\ LastIp(a) = u.to.ip
  <2>1. a.ip \in Matched(u.from)
    BY <1>5, NetworkBounds
  <2>2. Matched(u.from) = Matched(a)
    BY <1>5, <2>1, SameMatched
  <2>3. FirstIp(a) = FirstIp(u.from) /\ LastIp(a) = LastIp(u.from)
    BY <1>5, <2>2, NetworkBounds
  <2> QED
    BY <1>4, <2>3 DEF IsBlock
<1>7. FirstIp(v[i]) = ra.from.ip /\ LastIp(v[i]) = ra.to.ip
  BY <1>2 DEF SameNetwork, IsBlock
<1>8. ReplacedErased(v, v', i, j, a)
  BY <1>1, <1>5, ReplaceErase DEF Absorb
<1> QED
  BY <1>1, <1>3, <1>4, <1>5, <1>6, <1>7, <1>8 DEF SameNetwork, Included, IsBlock

LEMMA TypedStep ==
    ASSUME Typed, [Next]_vars
    PROVE  Typed'
<1>0. /\ v \in Seq(Addrs) /\ Len(v) \in Nat /\ i \in Nat \ {0} /\ j \in Nat \ {0}
      /\ \A k \in 1..Len(v) : v[k] \in Addrs
  BY DEF Typed, TypeOK
<1>1. NoRange \in Ranges
  BY DEF NoRange, Ranges, DefaultAddr, Addrs, Ips, Masks, PrefixMask
<1>2. ASSUME NEW a \in Networks, PushBack(a)
      PROVE  Typed'
  <2>1. Append(v, a) \in Seq(Addrs) /\ <<>> \in Seq(Addrs)
    BY <1>0
  <2> QED
    BY <1>2, <2>1 DEF PushBack, Typed, TypeOK, Loops, InCaller
<1>3. CASE Call
  <2>1. Loops'
    BY <1>0, <1>3 DEF Call, Typed, Loops
  <2>2. TypeOK'
    BY <1>3 DEF Call, Typed, TypeOK
  <2> QED
    BY <2>1, <2>2 DEF Typed
<1>4. CASE Outer
  <2>1. /\ i \in 1..Len(v) /\ v[i] \in Addrs /\ AcceptsCidr(v[i])
        /\ ra' = FromCidr(v[i]) /\ v' = v /\ i' = i /\ j' = i + 1 /\ pc' = "inner"
    BY <1>0, <1>4 DEF Outer
  <2>2. /\ IsBlock(ra') /\ ra'.from.ip = FirstIp(v[i]) /\ ra'.to.ip = LastIp(v[i])
        /\ v'[i'].mask = ra'.from.mask
    BY <2>1, FromCidrIsBlock
  <2>3. SameNetwork(v'[i'], ra'.from)
    BY <2>1, <2>2 DEF SameNetwork, IsBlock
  <2>4. ra' \in Ranges
    BY <2>2 DEF IsBlock
  <2> QED
    BY <1>0, <1>4, <2>1, <2>2, <2>3, <2>4 DEF Outer, Typed, TypeOK, Loops, InCaller
<1>5. CASE OuterThrows \/ Return \/ InnerThrows
  BY <1>1, <1>5 DEF OuterThrows, Return, InnerThrows, Leave, Typed, TypeOK, Loops, InCaller
<1>6. CASE Union
  <2>1. /\ j \in 1..Len(v) /\ v[j] \in Addrs /\ ~UnionFails
        /\ IsBlock(ra) /\ u' = UnionIfPossible(ra, FromCidr(v[j]))
    BY <1>0, <1>6 DEF Union, Typed, Loops
  <2>2. FromCidr(v[j]) \in Ranges /\ ra \in Ranges /\ ~UnionThrows(ra, FromCidr(v[j]))
    BY <2>1, FromCidrIsBlock DEF IsBlock, UnionFails
  <2>3. u' \in Ranges
    BY <2>1, <2>2, UnionType
  <2>4. UnionFails' = UnionFails
    BY <1>6 DEF Union, UnionFails
  <2> QED
    BY <1>6, <2>1, <2>3, <2>4 DEF Union, Typed, TypeOK, Loops, InCaller
<1>7. CASE Absorb
  <2>1. /\ i \in 1..Len(v) /\ j \in (i + 1)..Len(v)
        /\ ReplacedErased(v, v', i, j, ApplyMask(u.from))
        /\ IsBlock(u) /\ SameNetwork(ApplyMask(u.from), u.from)
    BY <1>7, AbsorbMeans
  <2>2. /\ v' \in Seq(Addrs) /\ Len(v') = Len(v) - 1
        /\ v'[i] = ApplyMask(u.from)
    BY <1>0, <2>1 DEF ReplacedErased
  <2>3. SameNetwork(v'[i'], ra'.from) /\ IsBlock(ra') /\ ra' \in Ranges
    BY <1>7, <2>1, <2>2 DEF Absorb, IsBlock
  <2>4. v'[i'].mask = ra'.from.mask
    <3>1. u.from \in Addrs
      BY <2>1 DEF IsBlock, Ranges
    <3>2. ApplyMask(u.from).mask = u.from.mask
      BY <3>1, NetworkBounds
    <3> QED
      BY <1>7, <2>2, <3>2 DEF Absorb
  <2>5. TypeOK'
    BY <1>1, <1>7, <2>1, <2>2, <2>3 DEF Absorb, Typed, TypeOK
  <2>6. Loops'
    BY <1>0, <1>7, <2>1, <2>2, <2>3, <2>4 DEF Absorb, Loops, InCaller
  <2> QED
    BY <2>5, <2>6 DEF Typed
<1>8. CASE Keep
  BY <1>0, <1>1, <1>8 DEF Keep, Typed, TypeOK, Loops, InCaller
<1>9. CASE EndOfInner
  BY <1>0, <1>1, <1>9 DEF EndOfInner, Typed, TypeOK, Loops, InCaller
<1>10. CASE UNCHANGED vars
  BY <1>10 DEF vars, Typed, TypeOK, Loops, InCaller, UnionFails
<1> QED
  BY <1>2, <1>3, <1>4, <1>5, <1>6, <1>7, <1>8, <1>9, <1>10 DEF Next, Run

LEMMA TypedInvariant == Spec => []Typed
<1>1. ASSUME Init PROVE Typed
  <2>1. NoRange \in Ranges
    BY DEF NoRange, Ranges, DefaultAddr, Addrs, Ips, Masks, PrefixMask
  <2>2. ra \in Ranges /\ u \in Ranges
    BY <1>1, <2>1, Zenon DEF Init
  <2>3. v \in Seq(Addrs) /\ input \in Seq(Addrs)
    BY <1>1 DEF Init
  <2>4. /\ i \in Nat \ {0} /\ j \in Nat \ {0}
        /\ pc \in InCaller \cup {"outer", "inner", "test"}
        /\ updated \in BOOLEAN
    <3>1. i = 1 /\ j = 1
      BY <1>1, Zenon DEF Init
    <3>2. pc = "caller" /\ updated = FALSE
      BY <1>1, Zenon DEF Init
    <3>3. pc \in InCaller
      BY <3>2 DEF InCaller
    <3>4. i \in Nat \ {0} /\ j \in Nat \ {0}
      BY <3>1
    <3>5. updated \in BOOLEAN
      BY <3>2
    <3> QED
      BY <3>3, <3>4, <3>5
  <2>5. TypeOK
    BY <2>2, <2>3, <2>4 DEF TypeOK
  <2>6. Loops
    BY <1>1 DEF Init, Loops
  <2> QED
    BY <2>5, <2>6 DEF Typed
<1>2. Typed /\ [Next]_vars => Typed'
  BY TypedStep
<1> QED
  BY <1>1, <1>2, PTL DEF Spec

\* The variables keep their types: whatever is erased while the loops run,
\* their indexes stay positions of the vector.
THEOREM TypeCorrect == Spec => []TypeOK
<1>1. Typed => TypeOK
  BY DEF Typed
<1> QED
  BY <1>1, TypedInvariant, PTL

-----------------------------------------------------------------------------
(* Nothing is lost and nothing is invented                                 *)

\* s has only networks of t, and includes all those of t.
StandsFor(s, t) ==
    /\ \A k \in DOMAIN s : \E n \in DOMAIN t : SameNetwork(s[k], t[n])
    /\ \A n \in DOMAIN t : \E k \in DOMAIN s : Included(t[n], s[k])

\* Inclusion is an order.
LEMMA IncludedOrder ==
    ASSUME NEW a \in Addrs, NEW b \in Addrs, NEW c \in Addrs
    PROVE  /\ Included(a, a) /\ SameNetwork(a, a)
           /\ Included(a, b) /\ Included(b, c) => Included(a, c)
           /\ SameNetwork(a, b) /\ SameNetwork(b, c) => SameNetwork(a, c)
<1>1. \A x \in Addrs : FirstIp(x) \in Int /\ LastIp(x) \in Int
  BY NetworkBounds DEF Ips
<1> QED
  BY <1>1 DEF Included, SameNetwork

\* A vector stands for itself.
LEMMA StandsForItself ==
    ASSUME NEW s \in Seq(Addrs)
    PROVE  StandsFor(s, s)
<1>1. \A k \in DOMAIN s : s[k] \in Addrs
  OBVIOUS
<1>2. \A k \in DOMAIN s : SameNetwork(s[k], s[k]) /\ Included(s[k], s[k])
  BY <1>1, IncludedOrder
<1> QED
  BY <1>2, Zenon DEF StandsFor

\* It still does after two of its networks became one of the two.
LEMMA ReplacedStandsFor ==
    ASSUME NEW s \in Seq(Addrs), NEW t, NEW in \in Seq(Addrs),
           NEW n \in 1..Len(s), NEW m \in 1..(n - 1), NEW a \in Addrs,
           ReplacedErased(s, t, m, n, a),
           SameNetwork(a, s[m]) \/ SameNetwork(a, s[n]),
           Included(s[m], a), Included(s[n], a),
           StandsFor(s, in)
    PROVE  StandsFor(t, in)
<1>1. /\ Len(s) \in Nat /\ DOMAIN s = 1..Len(s) /\ DOMAIN t = 1..(Len(s) - 1)
      /\ \A k \in 1..Len(s) : s[k] \in Addrs
      /\ \A k \in DOMAIN in : in[k] \in Addrs
      /\ m \in 1..(Len(s) - 1) /\ m \in 1..Len(s)
  BY DEF ReplacedErased
<1>2. \A k \in 1..(Len(s) - 1) :
         t[k] = IF k = m THEN a ELSE IF k < n THEN s[k] ELSE s[k + 1]
  BY DEF ReplacedErased
<1>3. ASSUME NEW k \in DOMAIN t
      PROVE  \E x \in DOMAIN in : SameNetwork(t[k], in[x])
  <2>1. PICK y \in 1..Len(s) : SameNetwork(t[k], s[y])
    <3>1. CASE k = m
      <4>1. t[k] = a
        BY <1>1, <1>2, <3>1
      <4> QED
        BY <1>1, <4>1
    <3>2. CASE k # m /\ k < n
      <4>1. t[k] = s[k] /\ k \in 1..Len(s)
        BY <1>1, <1>2, <3>2
      <4> QED
        BY <1>1, <4>1, IncludedOrder
    <3>3. CASE k # m /\ ~(k < n)
      <4>1. t[k] = s[k + 1] /\ k + 1 \in 1..Len(s)
        BY <1>1, <1>2, <3>3
      <4> QED
        BY <1>1, <4>1, IncludedOrder
    <3> QED
      BY <3>1, <3>2, <3>3, Zenon
  <2>2. PICK x \in DOMAIN in : SameNetwork(s[y], in[x])
    BY <1>1, <2>1, Zenon DEF StandsFor
  <2> QED
    BY <2>1, <2>2, Zenon DEF SameNetwork
<1>4. ASSUME NEW x \in DOMAIN in
      PROVE  \E k \in DOMAIN t : Included(in[x], t[k])
  <2>1. PICK y \in 1..Len(s) : Included(in[x], s[y])
    BY <1>1, Zenon DEF StandsFor
  <2>2. CASE y = m \/ y = n
    <3>1. t[m] = a
      BY <1>1, <1>2
    <3>2. Included(in[x], a)
      BY <1>1, <2>1, <2>2, IncludedOrder
    <3> QED
      BY <1>1, <3>1, <3>2
  <2>3. CASE y # m /\ y < n
    <3>1. y \in 1..(Len(s) - 1) /\ t[y] = s[y]
      BY <1>1, <1>2, <2>3
    <3> QED
      BY <1>1, <2>1, <3>1
  <2>4. CASE y > n
    <3>1. y - 1 \in 1..(Len(s) - 1) /\ t[y - 1] = s[y]
      <4>1. y - 1 \in 1..(Len(s) - 1) /\ y - 1 # m /\ ~(y - 1 < n) /\ (y - 1) + 1 = y
        <5>1. \A l \in Nat : \A e \in 1..l : \A k \in 1..(e - 1) : \A z \in 1..l :
                z > e => z - 1 \in 1..(l - 1) /\ z - 1 # k /\ ~(z - 1 < e)
                         /\ (z - 1) + 1 = z
          OBVIOUS
        <5> QED
          BY <1>1, <2>4, <5>1, Zenon
      <4> QED
        BY <1>2, <4>1
    <3> QED
      BY <1>1, <2>1, <3>1
  <2> QED
    BY <1>1, <2>2, <2>3, <2>4
<1> QED
  BY <1>3, <1>4, Zenon DEF StandsFor

\* The vector never grows during a call, and updated is set when it shrinks.
Shrinks == pc # "caller" => Len(v) <= Len(input)

LEMMA RemovedStep ==
    ASSUME Typed, Shrinks, OnlyIncludedRemoved, [Next]_vars
    PROVE  Shrinks' /\ OnlyIncludedRemoved'
<1>0. v \in Seq(Addrs) /\ input \in Seq(Addrs) /\ Len(v) \in Nat /\ Len(input) \in Nat
  BY DEF Typed, TypeOK
<1>1. ASSUME NEW a \in Networks, PushBack(a)
      PROVE  Shrinks' /\ OnlyIncludedRemoved'
  <2>1. pc' = "caller"
    BY <1>1 DEF PushBack
  <2> QED
    BY <2>1 DEF Shrinks, OnlyIncludedRemoved
<1>2. CASE Call
  <2>1. v' = v /\ input' = v /\ updated' = FALSE
    BY <1>2 DEF Call
  <2>2. StandsFor(v', input')
    BY <1>0, <2>1, StandsForItself
  <2>3. Len(v') <= Len(input') /\ ~(Len(v') < Len(input'))
    BY <1>0, <2>1
  <2> QED
    BY <2>1, <2>2, <2>3, Zenon DEF Shrinks, OnlyIncludedRemoved, StandsFor
<1>3. CASE Absorb
  <2>1. /\ pc # "caller" /\ input' = input /\ updated' = TRUE
    BY <1>3 DEF Absorb
  <2>2. /\ i \in 1..Len(v) /\ j \in (i + 1)..Len(v)
        /\ ReplacedErased(v, v', i, j, ApplyMask(u.from))
        /\ ApplyMask(u.from) \in Addrs
        /\ \/ SameNetwork(ApplyMask(u.from), v[i])
           \/ SameNetwork(ApplyMask(u.from), v[j])
        /\ Included(v[i], ApplyMask(u.from))
        /\ Included(v[j], ApplyMask(u.from))
    BY <1>3, AbsorbMeans
  <2>3. StandsFor(v, input) /\ Len(v) <= Len(input)
    BY <2>1, Zenon DEF OnlyIncludedRemoved, StandsFor, Shrinks
  <2>4. j \in 1..Len(v) /\ i \in 1..(j - 1)
    BY <1>0, <2>2
  <2>5. StandsFor(v', input)
    BY <1>0, <2>2, <2>3, <2>4, ReplacedStandsFor
  <2>6. Len(v') <= Len(input) /\ Len(v') < Len(input)
    BY <1>0, <2>2, <2>3 DEF ReplacedErased
  <2> QED
    BY <2>1, <2>5, <2>6, Zenon DEF Shrinks, OnlyIncludedRemoved, StandsFor
<1>4. CASE /\ v' = v /\ input' = input /\ updated' = updated
           /\ pc # "caller" \/ pc' = "caller"
  BY <1>4, Zenon DEF Shrinks, OnlyIncludedRemoved
<1>5. CASE Outer \/ OuterThrows \/ Return \/ Union \/ InnerThrows \/ Keep \/ EndOfInner
  <2>1. v' = v /\ input' = input /\ updated' = updated /\ pc # "caller"
    BY <1>5 DEF Outer, OuterThrows, Return, Union, InnerThrows, Keep, EndOfInner, Leave
  <2> QED
    BY <1>4, <2>1, Zenon
<1>6. CASE UNCHANGED vars
  <2>1. v' = v /\ input' = input /\ updated' = updated /\ pc' = pc
    BY <1>6 DEF vars
  <2> QED
    BY <1>4, <2>1, Zenon
<1> QED
  BY <1>1, <1>2, <1>3, <1>5, <1>6 DEF Next, Run

\* Whatever the networks, and even when a call ends in an exception, the
\* vector stands for the addresses it was given: a network is erased only when
\* one which stays includes it, and v[i] is never made larger than a network
\* of the input.
THEOREM NetworksAreKept == Spec => []OnlyIncludedRemoved
<1>1. Init => Shrinks /\ OnlyIncludedRemoved
  BY DEF Init, Shrinks, OnlyIncludedRemoved
<1>2. Typed /\ Shrinks /\ OnlyIncludedRemoved /\ [Next]_vars
        => Shrinks' /\ OnlyIncludedRemoved'
  BY RemovedStep
<1> QED
  BY <1>1, <1>2, TypedInvariant, PTL DEF Spec

-----------------------------------------------------------------------------
(* Nothing is left to be removed                                           *)

\* The networks which the loops compared with a later one are not included
\* in it.
PassedNotIncluded ==
    /\ pc \in {"outer", "inner", "test"} =>
          \A k, n \in DOMAIN v : k < i /\ k < n => ~Included(v[k], v[n])
    /\ pc \in {"inner", "test"} =>
          \A n \in DOMAIN v : i < n /\ n < j => ~Included(v[i], v[n])

\* v[i] and v[j] are both kept only when neither includes the other.
LEMMA KeepMeans ==
    ASSUME Typed, Keep
    PROVE  ~Included(v[i], v[j]) /\ ~Included(v[j], v[i])
<1> DEFINE rb == FromCidr(v[j])
<1>1. /\ Len(v) \in Nat /\ i \in 1..Len(v) /\ j \in 1..Len(v)
      /\ v[i] \in Addrs /\ v[j] \in Addrs
  BY DEF Typed, TypeOK, Loops, Keep
<1>2. /\ IsBlock(ra) /\ SameNetwork(v[i], ra.from)
      /\ AcceptsCidr(v[j]) /\ ~UnionThrows(ra, rb)
      /\ u = UnionIfPossible(ra, rb) /\ ~IsNetwork
  BY DEF Typed, Loops, Keep, UnionFails
<1>3. IsBlock(rb) /\ rb.from.ip = FirstIp(v[j]) /\ rb.to.ip = LastIp(v[j])
  BY <1>1, <1>2, FromCidrIsBlock
<1>4. FirstIp(v[i]) = ra.from.ip /\ LastIp(v[i]) = ra.to.ip
  BY <1>2 DEF SameNetwork, IsBlock
<1> HIDE DEF rb
<1>5. /\ ~(ra.from.ip <= rb.from.ip /\ rb.to.ip <= ra.to.ip)
      /\ ~(rb.from.ip <= ra.from.ip /\ ra.to.ip <= rb.to.ip)
  BY <1>2, <1>3, IncludedIsAbsorbed DEF IsNetwork
<1> QED
  BY <1>3, <1>4, <1>5 DEF Included

LEMMA PassedStep ==
    ASSUME Typed, PassedNotIncluded, NoneIncludedInLater, [Next]_vars
    PROVE  PassedNotIncluded' /\ NoneIncludedInLater'
<1>0. /\ v \in Seq(Addrs) /\ Len(v) \in Nat /\ i \in Nat \ {0} /\ j \in Nat \ {0}
      /\ DOMAIN v = 1..Len(v) /\ \A k \in 1..Len(v) : v[k] \in Addrs
  BY DEF Typed, TypeOK
<1>1. CASE pc' \in {"caller", "thrown"}
  BY <1>1 DEF PassedNotIncluded, NoneIncludedInLater
<1>2. CASE Call
  <2>1. pc' = "outer" /\ i' = 1 /\ v' = v
    BY <1>2 DEF Call, Typed, Loops
  <2> QED
    BY <1>0, <2>1 DEF PassedNotIncluded, NoneIncludedInLater
<1>3. CASE Outer
  <2>1. pc = "outer" /\ pc' = "inner" /\ i' = i /\ j' = i + 1 /\ v' = v
    BY <1>3 DEF Outer
  <2>2. \A n \in DOMAIN v : ~(i < n /\ n < i + 1)
    BY <1>0
  <2> QED
    BY <1>0, <2>1, <2>2 DEF PassedNotIncluded, NoneIncludedInLater
<1>4. CASE Return
  <2>1. pc = "outer" /\ pc' = "returned" /\ v' = v /\ i > Len(v)
    BY <1>4 DEF Return, Leave
  <2> QED
    BY <1>0, <2>1 DEF PassedNotIncluded, NoneIncludedInLater
<1>5. CASE Union
  <2>1. pc = "inner" /\ pc' = "test" /\ v' = v /\ i' = i /\ j' = j
    BY <1>5 DEF Union
  <2> QED
    BY <2>1 DEF PassedNotIncluded, NoneIncludedInLater
<1>6. CASE Absorb
  <2> DEFINE a == ApplyMask(u.from)
  <2>1. /\ pc = "test" /\ pc' = "inner" /\ i' = i /\ j' = j
    BY <1>6 DEF Absorb
  <2>2. /\ i \in 1..Len(v) /\ j \in (i + 1)..Len(v)
        /\ a \in Addrs
        /\ SameNetwork(a, v[i]) \/ SameNetwork(a, v[j])
        /\ Included(v[i], a)
        /\ DOMAIN v' = 1..(Len(v) - 1)
        /\ \A k \in 1..(Len(v) - 1) :
              v'[k] = IF k = i THEN a ELSE IF k < j THEN v[k] ELSE v[k + 1]
    BY <1>6, AbsorbMeans DEF ReplacedErased
  <2> HIDE DEF a
  <2>3. ASSUME NEW k \in DOMAIN v', NEW n \in DOMAIN v', k < i, k < n
        PROVE  ~Included(v'[k], v'[n])
    <3>1. k \in 1..Len(v) /\ v'[k] = v[k] /\ v[k] \in Addrs
      BY <1>0, <2>2, <2>3
    <3>2. \A x \in 1..Len(v) : k < x => ~Included(v[k], v[x])
      BY <1>0, <2>1, <2>3, <3>1 DEF PassedNotIncluded
    <3>3. CASE n = i
      <4>1. ~Included(v[k], v[i]) /\ ~Included(v[k], v[j])
        BY <1>0, <2>2, <2>3, <3>2
      <4>2. ~Included(v[k], a)
        BY <2>2, <4>1 DEF SameNetwork, Included
      <4> QED
        BY <2>2, <3>1, <3>3, <4>2
    <3>4. CASE n # i /\ n < j
      BY <1>0, <2>2, <2>3, <3>1, <3>2, <3>4, SMTT(30)
    <3>5. CASE n # i /\ ~(n < j)
      <4>1. n + 1 \in 1..Len(v) /\ k < n + 1
        BY <1>0, <2>2, <2>3, SMTT(30)
      <4> QED
        BY <2>2, <3>1, <3>2, <3>5, <4>1
    <3> QED
      BY <3>3, <3>4, <3>5
  <2>4. ASSUME NEW n \in DOMAIN v', i < n, n < j
        PROVE  ~Included(v'[i], v'[n])
    <3>1. n \in 1..Len(v) /\ v'[n] = v[n] /\ v[n] \in Addrs /\ v[i] \in Addrs
      BY <1>0, <2>2, <2>4
    <3>2. v'[i] = a
      BY <1>0, <2>2
    <3>3. ~Included(v[i], v[n])
      BY <1>0, <2>1, <2>4, <3>1 DEF PassedNotIncluded
    <3> QED
      BY <2>2, <3>1, <3>2, <3>3, IncludedOrder
  <2> QED
    BY <2>1, <2>3, <2>4 DEF PassedNotIncluded, NoneIncludedInLater
<1>7. CASE Keep
  <2>1. pc = "test" /\ pc' = "inner" /\ v' = v /\ i' = i /\ j' = j + 1
    BY <1>7 DEF Keep
  <2>2. ~Included(v[i], v[j])
    BY <1>7, KeepMeans
  <2>3. \A n \in DOMAIN v : i < n /\ n < j + 1 => ~Included(v[i], v[n])
    <3>1. \A n \in DOMAIN v : n < j + 1 => n < j \/ n = j
      BY <1>0
    <3> QED
      BY <2>1, <2>2, <3>1, Zenon DEF PassedNotIncluded
  <2> QED
    BY <2>1, <2>3 DEF PassedNotIncluded, NoneIncludedInLater
<1>8. CASE EndOfInner
  <2>1. pc = "inner" /\ pc' = "outer" /\ v' = v /\ i' = i + 1 /\ j > Len(v)
    BY <1>8 DEF EndOfInner
  <2>2. \A k, n \in DOMAIN v : k < i + 1 /\ k < n => k < i \/ (k = i /\ n < j)
    BY <1>0, <2>1
  <2>3. \A k, n \in DOMAIN v : k < i + 1 /\ k < n => ~Included(v[k], v[n])
    BY <2>1, <2>2, Zenon DEF PassedNotIncluded
  <2> QED
    BY <2>1, <2>3 DEF PassedNotIncluded, NoneIncludedInLater
<1>9. CASE UNCHANGED vars
  BY <1>9 DEF vars, PassedNotIncluded, NoneIncludedInLater
<1>10. CASE (\E a \in Networks : PushBack(a)) \/ OuterThrows \/ InnerThrows
  BY <1>1, <1>10 DEF PushBack, OuterThrows, InnerThrows, Leave
<1> QED
  BY <1>2, <1>3, <1>4, <1>5, <1>6, <1>7, <1>8, <1>9, <1>10 DEF Next, Run

\* Whatever the networks and their order, no network of the vector a call
\* returned is included in one further in it: the union with a network which
\* includes v[i] always is that network, and making v[i] larger, or erasing
\* v[j], does not undo what the loops went past.
THEOREM NoLaterNetworkIncludes == Spec => []NoneIncludedInLater
<1>1. Init => PassedNotIncluded /\ NoneIncludedInLater
  BY DEF Init, PassedNotIncluded, NoneIncludedInLater
<1>2. Typed /\ PassedNotIncluded /\ NoneIncludedInLater /\ [Next]_vars
        => PassedNotIncluded' /\ NoneIncludedInLater'
  BY PassedStep
<1> QED
  BY <1>1, <1>2, TypedInvariant, PTL DEF Spec

\* When v[j] is not the larger one, v[i] keeps its mask and its network.
LEMMA AbsorbKeepsLargest ==
    ASSUME Typed, Absorb, GetMaskSize(v[i]) <= GetMaskSize(v[j])
    PROVE  /\ GetMaskSize(ApplyMask(u.from)) = GetMaskSize(v[i])
           /\ SameNetwork(ApplyMask(u.from), v[i])
<1> DEFINE rb == FromCidr(v[j])
           a == ApplyMask(u.from)
<1>1. v[i] \in Addrs /\ v[j] \in Addrs
  BY DEF Typed, TypeOK, Loops, Absorb
<1>2. /\ IsBlock(ra) /\ v[i].mask = ra.from.mask
      /\ AcceptsCidr(v[j]) /\ ~UnionThrows(ra, rb)
      /\ u = UnionIfPossible(ra, rb) /\ IsDefined(u)
  BY DEF Typed, Loops, Absorb, UnionFails, IsNetwork
<1>3. IsBlock(rb) /\ rb.from.mask = v[j].mask
  BY <1>1, <1>2, FromCidrIsBlock
<1>4. ra \in Ranges /\ rb \in Ranges /\ ra.from \in Addrs /\ rb.from \in Addrs
  BY <1>2, <1>3 DEF IsBlock, Ranges
<1> HIDE DEF rb
<1>5. Touches(ra, rb)
  BY <1>2, <1>4, UnionBounds
<1>6. /\ u.from \in Addrs
      /\ u.from.mask = IF GetMaskSize(ra.from) < GetMaskSize(rb.from)
                       THEN ra.from.mask ELSE rb.from.mask
  BY <1>2, <1>3, <1>5, UnionOfBlocksMask
<1>7. u.from.mask = v[i].mask
  <2>1. /\ GetMaskSize(ra.from) = GetMaskSize(v[i]) /\ GetMaskSize(rb.from) = GetMaskSize(v[j])
        /\ GetMaskSize(ra.from) \in Int /\ GetMaskSize(rb.from) \in Int
    BY <1>1, <1>2, <1>3, <1>4, MaskSize
  <2>2. CASE GetMaskSize(ra.from) < GetMaskSize(rb.from)
    BY <1>2, <1>6, <2>2
  <2>3. CASE GetMaskSize(ra.from) = GetMaskSize(rb.from)
    <3>1. ra.from.mask = rb.from.mask
      BY <1>2, <1>3, <1>4, <2>3, MaskSize DEF IsBlock
    <3> QED
      BY <1>2, <1>6, <3>1
  <2> QED
    BY <2>1, <2>2, <2>3
<1>8. a \in Addrs /\ a.mask = v[i].mask
  BY <1>6, <1>7, NetworkBounds
<1>9. Included(v[i], a)
  BY AbsorbMeans
<1> HIDE DEF a
<1>10. FirstIp(v[i]) \in Matched(a)
  <2>1. a.mask = PrefixMask(GetMaskSize(v[i])) /\ GetMaskSize(v[i]) \in 0..Bits
    <3>1. AcceptsCidr(v[i])
      <4>1. GetMaskSize(v[i]) = GetMaskSize(ra.from)
        BY <1>1, <1>2, <1>4, MaskSize
      <4> QED
        BY <1>2, <4>1 DEF IsBlock, AcceptsCidr
    <3> QED
      BY <1>1, <1>8, <3>1, MaskRange
  <2>2. /\ FirstIp(v[i]) \in Ips /\ FirstIp(v[i]) <= LastIp(v[i]) /\ LastIp(v[i]) \in Ips
    BY <1>1, NetworkBounds
  <2>3. FirstIp(a) \in Matched(a) /\ LastIp(a) \in Matched(a) /\ LastIp(a) \in Ips
    BY <1>8, NetworkBounds
  <2>4. FirstIp(a) <= FirstIp(v[i]) /\ FirstIp(v[i]) <= LastIp(a)
    BY <1>9, <2>2, <2>3 DEF Included, Ips
  <2> QED
    BY <1>8, <2>1, <2>2, <2>3, <2>4, PrefixConvex
<1>11. Matched(a) = Matched(v[i])
  <2>1. FirstIp(v[i]) \in Matched(v[i])
    BY <1>1, NetworkBounds
  <2> QED
    BY <1>8, <1>10, <2>1 DEF Matched
<1>12. SameNetwork(a, v[i])
  <2>1. /\ FirstIp(a) = Min(Matched(a)) /\ LastIp(a) = Max(Matched(a))
        /\ FirstIp(v[i]) = Min(Matched(v[i])) /\ LastIp(v[i]) = Max(Matched(v[i]))
    BY <1>1, <1>8, NetworkBounds
  <2> QED
    BY <1>11, <2>1 DEF SameNetwork
<1>13. GetMaskSize(a) = GetMaskSize(v[i])
  BY <1>1, <1>8, MaskSize
<1> QED
  BY <1>12, <1>13 DEF a

\* With the largest networks first, v stays so, and a network the loops went
\* past does not include a later one.
PassedIncludesNone ==
    pc # "caller" /\ LargestFirst(input) =>
        /\ LargestFirst(v)
        /\ pc \in {"outer", "inner", "test"} =>
              \A k, n \in DOMAIN v : k < i /\ k < n => ~Included(v[n], v[k])
        /\ pc \in {"inner", "test"} =>
              \A n \in DOMAIN v : i < n /\ n < j => ~Included(v[n], v[i])
        /\ pc = "returned" =>
              \A k, n \in DOMAIN v : k < n => ~Included(v[n], v[k])

\* Absorb keeps the larger networks first and what PassedIncludesNone says.
LEMMA AbsorbLargestFirst ==
    ASSUME Typed, PassedIncludesNone, Absorb
    PROVE  PassedIncludesNone'
<1> SUFFICES ASSUME LargestFirst(input)
             PROVE  PassedIncludesNone'
  BY DEF PassedIncludesNone, Absorb
<1> DEFINE a == ApplyMask(u.from)
<1>0. /\ v \in Seq(Addrs) /\ Len(v) \in Nat /\ i \in Nat \ {0} /\ j \in Nat \ {0}
      /\ DOMAIN v = 1..Len(v) /\ \A k \in 1..Len(v) : v[k] \in Addrs
  BY DEF Typed, TypeOK
<1>1. pc = "test" /\ pc' = "inner" /\ i' = i /\ j' = j /\ input' = input
  BY DEF Absorb
<1>2. /\ LargestFirst(v)
      /\ \A k, n \in DOMAIN v : k < i /\ k < n => ~Included(v[n], v[k])
      /\ \A n \in DOMAIN v : i < n /\ n < j => ~Included(v[n], v[i])
  BY <1>1, Zenon DEF PassedIncludesNone
<1>3. /\ i \in 1..Len(v) /\ j \in (i + 1)..Len(v)
      /\ a \in Addrs
      /\ DOMAIN v' = 1..(Len(v) - 1)
      /\ \A k \in 1..(Len(v) - 1) :
            v'[k] = IF k = i THEN a ELSE IF k < j THEN v[k] ELSE v[k + 1]
  BY AbsorbMeans DEF ReplacedErased
<1>4. GetMaskSize(a) = GetMaskSize(v[i]) /\ SameNetwork(a, v[i])
  <2>1. GetMaskSize(v[i]) <= GetMaskSize(v[j])
    <3>1. i \in DOMAIN v /\ j \in DOMAIN v /\ i < j
      BY <1>0, <1>3
    <3> QED
      BY <1>2, <3>1, Zenon DEF LargestFirst
  <2> QED
    BY <2>1, AbsorbKeepsLargest
<1> HIDE DEF a
\* Each network of v' is, but for its address, one of v, in the same order.
<1> DEFINE old(k) == IF k < j THEN k ELSE k + 1
<1>5. /\ \A k \in DOMAIN v' :
            /\ old(k) \in 1..Len(v)
            /\ SameNetwork(v'[k], v[old(k)])
            /\ GetMaskSize(v'[k]) = GetMaskSize(v[old(k)])
      /\ \A k, n \in DOMAIN v' : k < n => old(k) < old(n)
      /\ \A k \in DOMAIN v' : (k < i => old(k) < i) /\ (k < j => old(k) = k)
  <2>1. ASSUME NEW k \in DOMAIN v'
        PROVE  /\ old(k) \in 1..Len(v)
               /\ SameNetwork(v'[k], v[old(k)])
               /\ GetMaskSize(v'[k]) = GetMaskSize(v[old(k)])
    <3>1. old(k) \in 1..Len(v)
      BY <1>0, <1>3
    <3>2. CASE k = i
      <4>1. v'[k] = a /\ old(k) = i
        BY <1>0, <1>3, <3>2
      <4> HIDE DEF old
      <4> QED
        BY <1>4, <3>1, <4>1
    <3>3. CASE k # i
      <4>1. v'[k] = v[old(k)] /\ v[old(k)] \in Addrs
        BY <1>0, <1>3, <3>1, <3>3
      <4> HIDE DEF old
      <4> QED
        BY <3>1, <4>1, IncludedOrder
    <3> QED
      BY <3>2, <3>3
  <2>2. /\ \A k, n \in DOMAIN v' : k < n => old(k) < old(n)
        /\ \A k \in DOMAIN v' : (k < i => old(k) < i) /\ (k < j => old(k) = k)
    BY <1>0, <1>3
  <2> HIDE DEF old
  <2> QED
    BY <2>1, <2>2
<1> HIDE DEF old
<1>6. LargestFirst(v')
  BY <1>0, <1>2, <1>5 DEF LargestFirst
<1>7. \A k, n \in DOMAIN v' : k < i /\ k < n => ~Included(v'[n], v'[k])
  BY <1>0, <1>2, <1>5 DEF SameNetwork, Included
<1>8. \A n \in DOMAIN v' : i < n /\ n < j => ~Included(v'[n], v'[i])
  <2>1. i \in DOMAIN v' /\ old(i) = i
    BY <1>0, <1>3 DEF old
  <2> QED
    BY <1>0, <1>2, <1>5, <2>1 DEF SameNetwork, Included
<1> QED
  BY <1>1, <1>6, <1>7, <1>8, Zenon DEF PassedIncludesNone, LargestFirst

LEMMA PassedIncludesStep ==
    ASSUME Typed, PassedIncludesNone, [Next]_vars
    PROVE  PassedIncludesNone'
<1>0. /\ v \in Seq(Addrs) /\ Len(v) \in Nat /\ i \in Nat \ {0} /\ j \in Nat \ {0}
      /\ DOMAIN v = 1..Len(v)
  BY DEF Typed, TypeOK
<1>1. CASE \E a \in Networks : PushBack(a)
  BY <1>1 DEF PushBack, PassedIncludesNone
<1>2. CASE Call
  <2>1. pc' = "outer" /\ i' = 1 /\ v' = v /\ input' = v
    BY <1>2 DEF Call, Typed, Loops
  <2> QED
    BY <1>0, <2>1 DEF PassedIncludesNone
<1>3. CASE Outer
  <2>1. /\ pc = "outer" /\ pc' = "inner" /\ i' = i /\ j' = i + 1 /\ v' = v
        /\ input' = input
    BY <1>3 DEF Outer
  <2>2. \A n \in DOMAIN v : ~(i < n /\ n < i + 1)
    BY <1>0
  <2> QED
    BY <1>0, <2>1, <2>2 DEF PassedIncludesNone
<1>4. CASE OuterThrows \/ InnerThrows
  <2>1. pc' = "thrown" /\ pc # "caller" /\ v' = v /\ input' = input
    BY <1>4 DEF OuterThrows, InnerThrows, Leave
  <2> QED
    BY <2>1 DEF PassedIncludesNone
<1>5. CASE Return
  <2>1. pc = "outer" /\ pc' = "returned" /\ v' = v /\ i > Len(v) /\ input' = input
    BY <1>5 DEF Return, Leave
  <2> QED
    BY <1>0, <2>1 DEF PassedIncludesNone
<1>6. CASE Union
  <2>1. /\ pc = "inner" /\ pc' = "test" /\ v' = v /\ i' = i /\ j' = j
        /\ input' = input
    BY <1>6 DEF Union
  <2> QED
    BY <2>1 DEF PassedIncludesNone
<1>7. CASE Absorb
  BY <1>7, AbsorbLargestFirst
<1>8. CASE Keep
  <2>1. /\ pc = "test" /\ pc' = "inner" /\ v' = v /\ i' = i /\ j' = j + 1
        /\ input' = input
    BY <1>8 DEF Keep
  <2>2. ~Included(v[j], v[i])
    BY <1>8, KeepMeans
  <2>3. \A n \in DOMAIN v : n < j + 1 => n < j \/ n = j
    BY <1>0
  <2> QED
    BY <2>1, <2>2, <2>3 DEF PassedIncludesNone
<1>9. CASE EndOfInner
  <2>1. /\ pc = "inner" /\ pc' = "outer" /\ v' = v /\ i' = i + 1 /\ j > Len(v)
        /\ input' = input
    BY <1>9 DEF EndOfInner
  <2>2. \A k, n \in DOMAIN v : k < i + 1 /\ k < n => k < i \/ (k = i /\ n < j)
    BY <1>0, <2>1
  <2> QED
    BY <2>1, <2>2 DEF PassedIncludesNone
<1>10. CASE UNCHANGED vars
  BY <1>10 DEF vars, PassedIncludesNone
<1> QED
  BY <1>1, <1>2, <1>3, <1>4, <1>5, <1>6, <1>7, <1>8, <1>9, <1>10 DEF Next, Run

\* When no network comes after one it is larger than, one pass is enough: in
\* the vector a call returned no network is included in another one, earlier
\* or later.
THEOREM LargestFirstIsEnough == Spec => []NoneIncludedWhenLargestFirst
<1>1. Init => PassedIncludesNone
  BY DEF Init, PassedIncludesNone
<1>2. Typed /\ PassedIncludesNone /\ [Next]_vars => PassedIncludesNone'
  BY PassedIncludesStep
<1>3. Typed /\ PassedIncludesNone /\ NoneIncludedInLater => NoneIncludedWhenLargestFirst
  <2> SUFFICES ASSUME Typed, PassedIncludesNone, NoneIncludedInLater,
                      pc = "returned", LargestFirst(input),
                      NEW k \in DOMAIN v, NEW n \in DOMAIN v, k # n
               PROVE  ~Included(v[k], v[n])
    BY DEF NoneIncludedWhenLargestFirst
  <2>1. k < n \/ n < k
    BY DEF Typed, TypeOK
  <2> QED
    BY <2>1 DEF PassedIncludesNone, NoneIncludedInLater
<1> QED
  BY <1>1, <1>2, <1>3, TypedInvariant, NoLaterNetworkIncludes, PTL DEF Spec

=============================================================================
