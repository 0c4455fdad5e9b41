----------------------------- MODULE AddrRange -----------------------------
(***************************************************************************)
(* Addresses and ranges of addresses as values: the parts of addr.cpp and  *)
(* the operations of addr_range.cpp which the algorithms on vectors of     *)
(* ranges are made of.                                                     *)
(*                                                                         *)
(* An address is its 128 bit IP as a number, and its mask as the set of    *)
(* the bits which are on.  Bits is 128 in the code.  The IPv4 addresses    *)
(* are the block FirstV4..LastV4 of V4Bits free bits, ::ffff:0.0.0.0/96.   *)
(* Ports, protocols, names and the mask_defined flag are left out.         *)
(***************************************************************************)
EXTENDS Integers, FiniteSetsExt

CONSTANTS
    Bits,               \* width of an IP address
    MaxIp,              \* the last IP address
    FirstV4,            \* the first IPv4 address
    LastV4,             \* the last IPv4 address
    V4Bits              \* width of an IPv4 address

Pow2[n \in 0..Bits] == IF n = 0 THEN 1 ELSE 2 * Pow2[n - 1]

\* The weight of each bit of an IP address, and that of the first one past it.
Weight == [n \in 0..Bits |-> Pow2[n]]

ASSUME AddrRangeAssumption ==
    /\ Bits \in Nat
    /\ MaxIp \in Nat /\ MaxIp = Weight[Bits] - 1
    /\ FirstV4 \in 0..MaxIp /\ LastV4 \in FirstV4..MaxIp
    /\ V4Bits \in 0..Bits

Ips == 0..MaxIp
Masks == SUBSET (0..(Bits - 1))
Addrs == [ip : Ips, mask : Masks]

-----------------------------------------------------------------------------
(* class addr                                                              *)

\* The mask with its n highest bits on.
PrefixMask(n) == (Bits - n)..(Bits - 1)

DefaultAddr == [ip |-> 0, mask |-> PrefixMask(Bits)]

IsIpv4(a) == a.ip \in FirstV4..LastV4

\* -1 stands for a mask with a bit on below a bit which is off.
GetMaskSize(a) ==
    IF \E n \in 0..Bits : a.mask = PrefixMask(n)
    THEN CHOOSE n \in 0..Bits : a.mask = PrefixMask(n)
    ELSE -1

\* Whether set_mask_count(n) returns; it throws out_of_range otherwise.
AcceptsMaskCount(a, n) ==
    n \in (IF IsIpv4(a) THEN Bits - V4Bits ELSE 0)..Bits

SetMaskCount(a, n) == [a EXCEPT !.mask = PrefixMask(n)]

BitOf(ip, i) == (ip \div Weight[i]) % 2

\* a is the network, b the address which may be part of it.
AddrMatch(a, b) == \A i \in a.mask : BitOf(a.ip, i) = BitOf(b.ip, i)

\* The addresses which agree with a on the bits of its mask.  Turning the other
\* bits of a off gives the lowest one, turning them on the highest one.
Matched(a) == {ip \in Ips : \A i \in a.mask : BitOf(a.ip, i) = BitOf(ip, i)}

ApplyMask(a) == [a EXCEPT !.ip = Min(Matched(a))]
ApplyMaskInversed(a) == [a EXCEPT !.ip = Max(Matched(a))]

IsNext(a, b) == a.ip # MaxIp /\ a.ip + 1 = b.ip
IsPrevious(a, b) == a.ip # 0 /\ a.ip - 1 = b.ip

-----------------------------------------------------------------------------
(* class addr_range                                                        *)

Ranges == [hasFrom : BOOLEAN, hasTo : BOOLEAN, from : Addrs, to : Addrs]

NoRange == [hasFrom |-> FALSE, hasTo |-> FALSE,
            from |-> DefaultAddr, to |-> DefaultAddr]

SetFrom(r, a) == [r EXCEPT !.hasFrom = TRUE, !.from = a]
SetTo(r, a) == [r EXCEPT !.hasTo = TRUE, !.to = a]

\* from_cidr() throws when the mask has a hole.
AcceptsCidr(a) == GetMaskSize(a) # -1

FromCidr(a) == SetTo(SetFrom(NoRange, ApplyMask(a)), ApplyMaskInversed(a))

IsDefined(r) == r.hasFrom \/ r.hasTo
IsRange(r) == r.hasFrom /\ r.hasTo
IsEmpty(r) == IsRange(r) /\ r.from.ip > r.to.ip

IsIn(r, a) == r.from.ip <= a.ip /\ a.ip <= r.to.ip

IsRangeIpv4(r) ==
    /\ IsDefined(r)
    /\ r.hasFrom => IsIpv4(r.from)
    /\ r.hasTo => IsIpv4(r.to)

\* The bounds used by the functions which accept half a range.
Low(r) == IF r.hasFrom THEN r.from ELSE r.to
High(r) == IF r.hasTo THEN r.to ELSE r.from

\* An undefined range matches what its default address matches.
Match(r, a) ==
    IF IsRange(r) THEN ~IsEmpty(r) /\ IsIn(r, a) ELSE AddrMatch(Low(r), a)

-----------------------------------------------------------------------------
(* union_if_possible()                                                     *)

Touches(l, r) ==
    \/ Low(l).ip <= High(r).ip /\ High(l).ip >= Low(r).ip
    \/ IsPrevious(Low(l), High(r))
    \/ IsNext(High(l), Low(r))

Smaller(m, n) == IF m < n THEN m ELSE n

UnionMask(a, b) == Smaller(GetMaskSize(a), GetMaskSize(b))

LowerAddr(l, r) == IF Low(l).ip < Low(r).ip THEN Low(l) ELSE Low(r)
HigherAddr(l, r) == IF High(l).ip > High(r).ip THEN High(l) ELSE High(r)

UnionThrows(l, r) ==
    /\ IsDefined(l) \/ IsDefined(r)
    /\ Touches(l, r)
    /\ \/ ~AcceptsMaskCount(LowerAddr(l, r), UnionMask(l.from, r.from))
       \/ ~AcceptsMaskCount(HigherAddr(l, r), UnionMask(l.to, r.to))

\* Bug: keeps the upper bound of the range on the left.
UnionWithLeftBound(l, r) ==
    LET from == SetMaskCount(LowerAddr(l, r), UnionMask(l.from, r.from))
        to == SetMaskCount(High(l), UnionMask(l.to, r.to))
    IN  IF (IsDefined(l) \/ IsDefined(r)) /\ Touches(l, r)
        THEN SetTo(SetFrom(NoRange, from), to)
        ELSE NoRange

UnionIfPossible(l, r) ==
    LET from == SetMaskCount(LowerAddr(l, r), UnionMask(l.from, r.from))
        to == SetMaskCount(HigherAddr(l, r), UnionMask(l.to, r.to))
    IN  IF ~((IsDefined(l) \/ IsDefined(r)) /\ Touches(l, r)) THEN NoRange
        ELSE IF IsRange(l) \/ IsRange(r) \/ from.ip # to.ip
        THEN SetTo(SetFrom(NoRange, from), to)
        ELSE SetFrom(NoRange, from)

-----------------------------------------------------------------------------
(* compare() and operator <                                                *)

\* Two ranges with no address in common.
CompareApart(l, r) ==
    IF High(l).ip < Low(r).ip
    THEN IF IsNext(High(l), Low(r)) THEN "PRECEDES" ELSE "SMALLER"
    ELSE IF IsPrevious(Low(l), High(r)) THEN "FOLLOWS" ELSE "LARGER"

CompareOverlap(l, r) ==
    IF Low(l).ip = Low(r).ip /\ High(l).ip = High(r).ip THEN "EQUAL"
    ELSE IF Low(l).ip <= Low(r).ip /\ High(l).ip >= High(r).ip THEN "INCLUDED"
    ELSE IF Low(l).ip >= Low(r).ip /\ High(l).ip <= High(r).ip THEN "INCLUDES"
    ELSE IF Low(l).ip < Low(r).ip THEN "SMALL_VS_LARGE" ELSE "LARGE_VS_SMALL"

CompareBounds(l, r) ==
    IF High(l).ip < Low(r).ip \/ Low(l).ip > High(r).ip
    THEN CompareApart(l, r)
    ELSE CompareOverlap(l, r)

\* Each test is reached when the ones above it failed.
Compare(l, r, mixed) ==
    IF ~IsDefined(l) \/ ~IsDefined(r) THEN "UNORDERED"
    ELSE IF IsEmpty(l) THEN IF IsEmpty(r) THEN "UNORDERED" ELSE "LAST"
    ELSE IF IsEmpty(r) THEN "FIRST"
    ELSE IF ~mixed /\ IsRangeIpv4(l) /\ ~IsRangeIpv4(r) THEN "IPV4_VS_IPV6"
    ELSE IF ~mixed /\ ~IsRangeIpv4(l) /\ IsRangeIpv4(r) THEN "IPV6_VS_IPV4"
    ELSE CompareBounds(l, r)

Less(l, r) ==
    Compare(l, r, TRUE) \in
        {"SMALLER", "SMALL_VS_LARGE", "INCLUDED", "PRECEDES", "FIRST"}

=============================================================================
