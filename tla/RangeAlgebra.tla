--------------------------- MODULE RangeAlgebra ----------------------------
(***************************************************************************)
(* A program which builds a vector of ranges and asks for the separate     *)
(* addresses in them, with the operations of addr_range.cpp which compute  *)
(* with ranges: size, intersection, to_cidr, to_addresses, swap_from_to,   *)
(* address_match_ranges, and the arithmetic of class addr.                 *)
(*                                                                         *)
(* Numbers keep their width: an IP is a number of Bits bits (128 in the    *)
(* code), the difference of two of them is a signed number of Bits bits,   *)
(* and a size is at most SizeMax (2^64 - 1 in the code).                   *)
(***************************************************************************)
EXTENDS AddrRange, SequencesExt

CONSTANTS
    SizeMax,        \* the largest std::size_t
    InputAddrs,     \* the addresses the program has
    Offsets,        \* what is added to an address, much less than half of MaxIp
    Limits,         \* the limits to_addresses() is called with
    MaxRanges,      \* bound: the ranges of the vector
    MaxResult       \* bound: the addresses there is memory for

ASSUME RangeAlgebraAssumption ==
    /\ SizeMax \in 0..MaxIp
    /\ InputAddrs \subseteq Addrs
    /\ Offsets \subseteq -(MaxIp \div 2)..(MaxIp \div 2)
    /\ Limits \subseteq 0..SizeMax
    /\ MaxRanges \in Nat \ {0} /\ MaxResult \in Nat

VARIABLES
    v,          \* the vector of ranges
    limit,      \* the argument of to_addresses()
    i,          \* the range whose addresses are added
    a,          \* the next address of it
    result,     \* the addresses added so far
    pc          \* "build", "range", "push", "returned" or "threw"

vars == <<v, limit, i, a, result, pc>>

-----------------------------------------------------------------------------
(* Arithmetic of addresses                                                 *)

\* Bug: the last address has a next one.
PlusUnsaturated(b, n) == [b EXCEPT !.ip = b.ip + n]

\* operator +, and with -n operator -: the IP saturates at both ends.
Plus(b, n) ==
    [b EXCEPT !.ip = IF b.ip + n < 0 THEN 0
                     ELSE IF b.ip + n > MaxIp THEN MaxIp
                     ELSE b.ip + n]

\* operator - of two addresses: signed, so that more than half of the
\* addresses is a negative distance.
Distance(b, c) ==
    LET d == (b.ip - c.ip) % (MaxIp + 1)
    IN  IF d > MaxIp \div 2 THEN d - (MaxIp + 1) ELSE d

-----------------------------------------------------------------------------
(* class addr_range                                                        *)

SwapFromTo(r) == [hasFrom |-> r.hasTo, hasTo |-> r.hasFrom,
                  from |-> r.to, to |-> r.from]

\* The distance becomes unsigned before it is compared with SizeMax.
Size(r) ==
    IF IsRange(r)
    THEN Smaller((Distance(r.to, r.from) + 1) % (MaxIp + 1), SizeMax)
    ELSE IF IsDefined(r) THEN 1 ELSE 0

\* The size of the first ranges of w, of none to all, and that of all.
SizeOfFirst(w) ==
    LET sum[k \in 0..Len(w)] ==
            IF k = 0 THEN 0 ELSE (sum[k - 1] + Size(w[k])) % (SizeMax + 1)
    IN  sum

TotalSize(w) == SizeOfFirst(w)[Len(w)]

Intersection(r, s) ==
    SetTo(SetFrom(NoRange, IF r.from.ip > s.from.ip THEN r.from ELSE s.from),
          IF r.to.ip < s.to.ip THEN r.to ELSE s.to)

\* The lowest bits which go from all off to all on between the two bounds.
HostBits(r) ==
    {b \in 0..(Bits - 1) : \A k \in 0..b : BitOf(r.from.ip, k) = 0 /\ BitOf(r.to.ip, k) = 1}

\* Bug: the other bits are not compared.
HasCidrInAnyCase(r) == IsRange(r) /\ ~IsEmpty(r)

\* What to_cidr() returns.
HasCidr(r) ==
    /\ IsRange(r) /\ ~IsEmpty(r)
    /\ \A b \in (0..(Bits - 1)) \ HostBits(r) : BitOf(r.from.ip, b) = BitOf(r.to.ip, b)

\* The address to_cidr() gives then.
ToCidr(r) == SetMaskCount([DefaultAddr EXCEPT !.ip = r.from.ip],
                          Bits - Cardinality(HostBits(r)))

AddressMatchRanges(w, b) == \E k \in DOMAIN w : Match(w[k], b)

-----------------------------------------------------------------------------
(* The program builds the vector                                           *)

Init ==
    /\ v = <<NoRange>>
    /\ limit = 0 /\ i = 1 /\ a = DefaultAddr
    /\ result = <<>>
    /\ pc = "build"

NewRange ==
    /\ pc = "build" /\ Len(v) < MaxRanges
    /\ v' = Append(v, NoRange)
    /\ UNCHANGED <<limit, i, a, result, pc>>

ChangeRange ==
    /\ pc = "build"
    /\ \E r \in {SetFrom(v[Len(v)], b) : b \in InputAddrs}
             \cup {SetTo(v[Len(v)], b) : b \in InputAddrs}
             \cup {FromCidr(b) : b \in {c \in InputAddrs : AcceptsCidr(c)}}
             \cup {SwapFromTo(v[Len(v)])} :
            v' = [v EXCEPT ![Len(v)] = r]
    /\ UNCHANGED <<limit, i, a, result, pc>>

-----------------------------------------------------------------------------
(* to_addresses() of the vector, which calls that of each range            *)

Call ==
    /\ pc = "build"
    /\ limit' \in Limits
    /\ i' = 1
    /\ pc' = IF TotalSize(v) > limit' THEN "threw" ELSE "range"
    /\ UNCHANGED <<v, a, result>>

RangeTooLarge ==
    /\ pc = "range" /\ i <= Len(v) /\ Size(v[i]) > limit
    /\ pc' = "threw"
    /\ UNCHANGED <<v, limit, i, a, result>>

StartRange ==
    /\ pc = "range" /\ i <= Len(v) /\ Size(v[i]) <= limit
    /\ IsRange(v[i])
    /\ a' = v[i].from
    /\ pc' = "push"
    /\ UNCHANGED <<v, limit, i, result>>

\* A range with one bound or none.
AddBound ==
    /\ pc = "range" /\ i <= Len(v) /\ Size(v[i]) <= limit
    /\ ~IsRange(v[i]) /\ Len(result) < MaxResult
    /\ result' = result \o (IF IsDefined(v[i]) THEN <<Low(v[i])>> ELSE <<>>)
    /\ i' = i + 1
    /\ UNCHANGED <<v, limit, a, pc>>

\* Bug: the last address of the range is left out.
PushBeforeLast ==
    /\ pc = "push" /\ Len(result) < MaxResult
    /\ result' = Append(result, a)
    /\ a' = Plus(a, 1)
    /\ IF a'.ip < v[i].to.ip THEN UNCHANGED <<i, pc>>
       ELSE i' = i + 1 /\ pc' = "range"
    /\ UNCHANGED <<v, limit>>

\* The test is at the end of the loop.
Push ==
    /\ pc = "push" /\ Len(result) < MaxResult
    /\ result' = Append(result, a)
    /\ a' = Plus(a, 1)
    /\ IF a'.ip <= v[i].to.ip THEN UNCHANGED <<i, pc>>
       ELSE i' = i + 1 /\ pc' = "range"
    /\ UNCHANGED <<v, limit>>

\* push_back() throws.
OutOfMemory ==
    /\ pc = "push" \/ (pc = "range" /\ i <= Len(v))
    /\ Len(result) = MaxResult
    /\ pc' = "threw"
    /\ UNCHANGED <<v, limit, i, a, result>>

Return ==
    /\ pc = "range" /\ i > Len(v)
    /\ pc' = "returned"
    /\ UNCHANGED <<v, limit, i, a, result>>

\* The program drops the result and goes on with the vector.
Resume ==
    /\ pc \in {"returned", "threw"}
    /\ limit' = 0 /\ i' = 1 /\ a' = DefaultAddr
    /\ result' = <<>>
    /\ pc' = "build"
    /\ UNCHANGED v

Next ==
    \/ NewRange \/ ChangeRange
    \/ Call \/ RangeTooLarge \/ StartRange \/ AddBound
    \/ Push \/ OutOfMemory \/ Return \/ Resume

Spec == Init /\ [][Next]_vars

-----------------------------------------------------------------------------
(* Properties                                                              *)

TypeOK ==
    /\ v \in Seq(Ranges) /\ Len(v) \in 1..MaxRanges
    /\ limit \in Limits \cup {0}
    /\ i \in 1..(Len(v) + 1)
    /\ a \in Addrs
    /\ result \in Seq(Addrs) /\ Len(result) <= MaxResult
    /\ pc \in {"build", "range", "push", "returned", "threw"}

\* The addresses of a range, in order.
AddressesOf(r) ==
    IF IsRange(r)
    THEN [k \in 1..(r.to.ip - r.from.ip + 1) |-> [r.from EXCEPT !.ip = @ + k - 1]]
    ELSE IF IsDefined(r) THEN <<Low(r)>> ELSE <<>>

\* Those of the first ranges of w, of none to all, and those of all.
AddressesOfFirst(w) ==
    LET sum[k \in 0..Len(w)] ==
            IF k = 0 THEN <<>> ELSE sum[k - 1] \o AddressesOf(w[k])
    IN  sum

AddressesOfAll(w) == AddressesOfFirst(w)[Len(w)]

\* The loop of to_addresses() ends before the last address of all, and a
\* range which is not empty.
Enumerable(r) == IsRange(r) => ~IsEmpty(r) /\ r.to.ip # MaxIp

\* A limit which the sizes cannot go past without to_addresses() noticing,
\* and so many addresses which there is memory for.
Bounding(l) == l < SizeMax /\ l * Len(v) <= SizeMax /\ l < MaxResult

\* to_addresses() gives each address of the ranges, once for each range it is
\* in and in order, adding them one by one; it throws when and only when there
\* are more of them than the limit.
AddressesExact ==
    (\A k \in DOMAIN v : Enumerable(v[k])) /\ Bounding(limit) =>
        /\ pc \in {"range", "push", "returned"} => IsPrefix(result, AddressesOfAll(v))
        /\ pc = "returned" =>
                /\ result = AddressesOfAll(v) /\ Len(result) <= limit
                /\ \A k \in DOMAIN result : AddressMatchRanges(v, result[k])
        /\ pc = "threw" => Len(AddressesOfAll(v)) > limit

SameBounds(r, s) == r.from.ip = s.from.ip /\ r.to.ip = s.to.ip

\* size() counts the addresses of a range which is not the whole space.
SizeRight(r) ==
    IsRange(r) /\ ~IsEmpty(r) /\ ~(r.from.ip = 0 /\ r.to.ip = MaxIp) =>
        Size(r) = Smaller(Cardinality(r.from.ip..r.to.ip), SizeMax)

\* to_cidr() finds the network whenever there is one, which from_cidr() turns
\* into the same range.
CidrRight(r) ==
    /\ HasCidr(r) => SameBounds(FromCidr(ToCidr(r)), r)
    /\ IsRange(r) /\ (\E n \in 0..Bits, ip \in Ips :
            SameBounds(FromCidr([ip |-> ip, mask |-> PrefixMask(n)]), r)) => HasCidr(r)

\* The distance to an address so many addresses away is this many, unless it
\* is past the first or the last one, where it stays.
DistanceRight(b) ==
    \A n \in Offsets :
        IF b.ip + n \in Ips THEN Distance(Plus(b, n), b) = n
        ELSE Plus(b, n).ip = IF n < 0 THEN 0 ELSE MaxIp

\* intersection() has the addresses which both ranges have.
IntersectionRight(r, s) ==
    IsRange(r) /\ IsRange(s) =>
        \A ip \in Ips :
            LET b == [DefaultAddr EXCEPT !.ip = ip]
            IN  IsIn(Intersection(r, s), b) <=> IsIn(r, b) /\ IsIn(s, b)

\* size(), to_cidr(), from_cidr(), intersection() and the arithmetic agree
\* with what the bounds of the ranges say, in the vectors the program builds.
AlgebraRight ==
    pc = "build" =>
        /\ SizeRight(v[Len(v)])
        /\ CidrRight(v[Len(v)])
        /\ DistanceRight(v[Len(v)].from)
        /\ IntersectionRight(v[1], v[Len(v)])

\* "the range is empty, the result is 0".
EmptySizeIsZero ==
    \A k \in DOMAIN v : IsEmpty(v[k]) => Size(v[k]) = 0

=============================================================================
