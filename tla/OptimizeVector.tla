--------------------------- MODULE OptimizeVector ---------------------------
(***************************************************************************)
(* optimize_vector() (libaddr/addr_range.cpp): two nested loops over a     *)
(* vector of networks, each an address with its mask, which remove those   *)
(* included in another one.  The vector is the caller's, who may add       *)
(* networks to it and call again.                                          *)
(***************************************************************************)
EXTENDS AddrRange, SequencesExt

CONSTANTS
    Networks,           \* the addresses the caller puts in the vector
    MaxNetworks         \* bound on the size of the vector

ASSUME OptimizeVectorAssumption ==
    /\ Networks \subseteq Addrs
    /\ MaxNetworks \in Nat

VARIABLES
    v,          \* the vector
    i, j,       \* the indexes of the two loops, from 1; 1 outside of the loops
    ra,         \* the range of v[i], NoRange outside of the inner loop
    u,          \* ra united with the range of v[j], NoRange but at the test
    updated,    \* result, the value to return
    pc,         \* "caller", the loop being run, or how the last call ended
    input       \* history: v when the call was made

vars == <<v, i, j, ra, u, updated, pc, input>>

InCaller == {"caller", "returned", "thrown"}

Init ==
    /\ v = <<>>
    /\ i = 1
    /\ j = 1
    /\ ra = NoRange
    /\ u = NoRange
    /\ updated = FALSE
    /\ pc = "caller"
    /\ input = <<>>

PushBack(a) ==
    /\ pc \in InCaller
    /\ Len(v) < MaxNetworks
    /\ v' = Append(v, a)
    /\ updated' = FALSE
    /\ pc' = "caller"
    /\ input' = <<>>
    /\ UNCHANGED <<i, j, ra, u>>

-----------------------------------------------------------------------------
(* optimize_vector()                                                       *)

Call ==
    /\ pc \in InCaller
    /\ pc' = "outer"
    /\ updated' = FALSE
    /\ input' = v
    /\ UNCHANGED <<v, i, j, ra, u>>

\* When the function returns or throws its locals are gone.
Leave(how) ==
    /\ pc' = how
    /\ i' = 1
    /\ j' = 1
    /\ ra' = NoRange
    /\ UNCHANGED <<v, u, updated, input>>

\* Bug: the next network is taken for the same one.
OuterSkipsNext ==
    /\ pc = "outer"
    /\ i <= Len(v)
    /\ AcceptsCidr(v[i])
    /\ ra' = FromCidr(v[i])
    /\ j' = i + 2
    /\ pc' = "inner"
    /\ UNCHANGED <<v, i, u, updated, input>>

Outer ==
    /\ pc = "outer"
    /\ i <= Len(v)
    /\ AcceptsCidr(v[i])
    /\ ra' = FromCidr(v[i])
    /\ j' = i + 1
    /\ pc' = "inner"
    /\ UNCHANGED <<v, i, u, updated, input>>

OuterThrows ==
    /\ pc = "outer"
    /\ i <= Len(v)
    /\ ~AcceptsCidr(v[i])
    /\ Leave("thrown")

Return ==
    /\ pc = "outer"
    /\ i > Len(v)
    /\ Leave("returned")

\* Whether there is no range of v[j], or no union of ra with it.
UnionFails == ~AcceptsCidr(v[j]) \/ UnionThrows(ra, FromCidr(v[j]))

Union ==
    /\ pc = "inner"
    /\ j <= Len(v)
    /\ ~UnionFails
    /\ u' = UnionIfPossible(ra, FromCidr(v[j]))
    /\ pc' = "test"
    /\ UNCHANGED <<v, i, j, ra, updated, input>>

InnerThrows ==
    /\ pc = "inner"
    /\ j <= Len(v)
    /\ UnionFails
    /\ Leave("thrown")

\* Bug: only the lower bound of u is compared.
StartsNetwork == IsDefined(u) /\ ApplyMask(u.from).ip = u.from.ip

\* Whether u is the whole network of its lower bound.
IsNetwork ==
    /\ IsDefined(u)
    /\ ApplyMask(u.from).ip = u.from.ip
    /\ ApplyMaskInversed(u.from).ip = u.to.ip

\* Bug: the ++j of the loop is not cancelled.
AbsorbAndMoveOn ==
    /\ pc = "test"
    /\ IsNetwork
    /\ ra' = u
    /\ v' = RemoveAt(ReplaceAt(v, i, ApplyMask(u.from)), j)
    /\ j' = j + 1
    /\ updated' = TRUE
    /\ u' = NoRange
    /\ pc' = "inner"
    /\ UNCHANGED <<i, input>>

\* Bug: the ++j of the loop is cancelled twice.
AbsorbAndStepBack ==
    /\ pc = "test"
    /\ IsNetwork
    /\ ra' = u
    /\ v' = RemoveAt(ReplaceAt(v, i, ApplyMask(u.from)), j)
    /\ j' = j - 1
    /\ updated' = TRUE
    /\ u' = NoRange
    /\ pc' = "inner"
    /\ UNCHANGED <<i, input>>

\* Bug: v[j] is not erased.
AbsorbAndKeepBoth ==
    /\ pc = "test"
    /\ IsNetwork
    /\ ra' = u
    /\ v' = ReplaceAt(v, i, ApplyMask(u.from))
    /\ updated' = TRUE
    /\ u' = NoRange
    /\ pc' = "inner"
    /\ UNCHANGED <<i, j, input>>

\* v[i] becomes the union and v[j] is erased.
Absorb ==
    /\ pc = "test"
    /\ IsNetwork
    /\ ra' = u
    /\ v' = RemoveAt(ReplaceAt(v, i, ApplyMask(u.from)), j)
    /\ updated' = TRUE
    /\ u' = NoRange
    /\ pc' = "inner"
    /\ UNCHANGED <<i, j, input>>

Keep ==
    /\ pc = "test"
    /\ ~IsNetwork
    /\ j' = j + 1
    /\ u' = NoRange
    /\ pc' = "inner"
    /\ UNCHANGED <<v, i, ra, updated, input>>

EndOfInner ==
    /\ pc = "inner"
    /\ j > Len(v)
    /\ i' = i + 1
    /\ j' = 1
    /\ ra' = NoRange
    /\ pc' = "outer"
    /\ UNCHANGED <<v, u, updated, input>>

Run ==
    \/ Outer
    \/ OuterThrows
    \/ Return
    \/ Union
    \/ InnerThrows
    \/ Absorb
    \/ Keep
    \/ EndOfInner

Next ==
    \/ \E a \in Networks : PushBack(a)
    \/ Call
    \/ Run

Spec == Init /\ [][Next]_vars /\ WF_vars(Run)

-----------------------------------------------------------------------------
(* Properties                                                              *)

TypeOK ==
    /\ v \in Seq(Addrs)
    /\ i \in Nat \ {0}
    /\ j \in Nat \ {0}
    /\ ra \in Ranges
    /\ u \in Ranges
    /\ updated \in BOOLEAN
    /\ pc \in InCaller \cup {"outer", "inner", "test"}
    /\ input \in Seq(Addrs)

FirstIp(a) == ApplyMask(a).ip
LastIp(a) == ApplyMaskInversed(a).ip

\* The network of a is included in, or equal to, the one of b.
Included(a, b) == FirstIp(b) <= FirstIp(a) /\ LastIp(a) <= LastIp(b)

SameNetwork(a, b) == FirstIp(a) = FirstIp(b) /\ LastIp(a) = LastIp(b)

\* Networks are only removed when they are included in one which stays, and
\* none is invented: at every step, even when the call ends in an exception,
\* the vector stands for the same addresses.  The function returns true when
\* it did change the vector.
OnlyIncludedRemoved ==
    pc # "caller" =>
        /\ \A k \in DOMAIN v : \E n \in DOMAIN input : SameNetwork(v[k], input[n])
        /\ \A n \in DOMAIN input : \E k \in DOMAIN v : Included(input[n], v[k])
        /\ updated <=> Len(v) < Len(input)

\* No network is left which is included in one further in the vector, even
\* though those the loops already went past are never looked at again.
NoneIncludedInLater ==
    pc = "returned" =>
        \A k, n \in DOMAIN v : k < n => ~Included(v[k], v[n])

\* When a network never comes after one it is larger than, nothing is left
\* to be removed.
LargestFirst(s) ==
    \A k, n \in DOMAIN s : k < n => GetMaskSize(s[k]) <= GetMaskSize(s[n])

NoneIncludedWhenLargestFirst ==
    (pc = "returned" /\ LargestFirst(input)) =>
        \A k, n \in DOMAIN v : k # n => ~Included(v[k], v[n])

\* A call ends, although the inner loop does not move on when it erases.
OptimizeReturns == pc = "outer" ~> pc \in {"returned", "thrown"}

\* "checks whether an address is equal or included in another. If so, it
\* gets removed from the v vector" (addr_range.cpp:1056-1057).  The code does
\* not keep this: v[i] may become larger after v[j] was compared with it.
NoneIncluded ==
    pc = "returned" =>
        \A k, n \in DOMAIN v : k # n => ~Included(v[k], v[n])

=============================================================================
