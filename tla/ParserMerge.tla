---------------------------- MODULE ParserMerge ----------------------------
(***************************************************************************)
(* One addr_parser object (libaddr/addr_parser.cpp): parse() collects the  *)
(* ranges of its input one entry at a time, sorts them, merges those which *)
(* touch and moves one family first, as set_sort_order() asked for.        *)
(*                                                                         *)
(* The text is abstracted: an entry is the range it is parsed to.  The     *)
(* parser's errors are left out; an entry with an error adds no range.     *)
(***************************************************************************)
EXTENDS AddrRange, SequencesExt

CONSTANTS
    Entries,            \* the ranges entries are parsed to
    MaxEntries          \* bound on the number of entries in one input

ASSUME ParserMergeAssumption ==
    /\ Entries \subseteq {r \in Ranges : IsDefined(r)}
    /\ MaxEntries \in Nat

SortFlags == {"IPV6_FIRST", "IPV4_FIRST", "FULL", "MERGE", "NO_EMPTY"}

VARIABLES
    order,      \* f_sort, the set of the flags which are on
    pc,         \* the part of parse() being run, "idle" between calls
    result,     \* result, the caller's copy of it when idle
    idx,        \* idx of the merge loop, from 1; 1 outside of the loop
    thrown,     \* whether the last call of parse() ended in an exception
    entries     \* history: the ranges collected by the last call

vars == <<order, pc, result, idx, thrown, entries>>

Init ==
    /\ order = {}
    /\ pc = "idle"
    /\ result = <<>>
    /\ idx = 1
    /\ thrown = FALSE
    /\ entries = <<>>

-----------------------------------------------------------------------------
(* set_sort_order(), which throws when both families are to be first.  The *)
(* caller drops the last result.                                           *)

SetSortOrder(flags) ==
    /\ pc = "idle"
    /\ ~({"IPV6_FIRST", "IPV4_FIRST"} \subseteq flags)
    /\ order' = flags
    /\ result' = <<>>
    /\ entries' = <<>>
    /\ thrown' = FALSE
    /\ UNCHANGED <<pc, idx>>

-----------------------------------------------------------------------------
(* Sorting                                                                 *)

\* 0 sorts first; a comparison function of parse() orders these.
FamilyRank(flags, r) ==
    IF IsEmpty(r) THEN 2
    ELSE IF IsRangeIpv4(r) = ("IPV4_FIRST" \in flags) THEN 0 ELSE 1

\* Bug: the comparison says nothing of the empty ranges.
FamilyBeforeOnly(flags, l, r) ==
    IF "IPV4_FIRST" \in flags
    THEN Compare(l, r, FALSE) = "IPV4_VS_IPV6"
    ELSE Compare(l, r, FALSE) = "IPV6_VS_IPV4"

\* The lambdas given to the last std::stable_sort().
FamilyBefore(flags, l, r) ==
    IF "IPV4_FIRST" \in flags
    THEN Compare(l, r, FALSE) \in {"IPV4_VS_IPV6", "FIRST"}
    ELSE Compare(l, r, FALSE) \in {"IPV6_VS_IPV4", "FIRST"}

\* The order of the sort: by family, or by operator <.
Before(byFamily, flags, l, r) ==
    IF byFamily THEN FamilyBefore(flags, l, r) ELSE Less(l, r)

Reordered(s, p) == [i \in DOMAIN s |-> s[p[i]]]

\* Bug: std::sort() was used, which may swap equivalent ranges.
SortedBy(byFamily, flags, s) ==
    {Reordered(s, p) : p \in {q \in Bijection(DOMAIN s, DOMAIN s) :
        \A i, j \in DOMAIN s :
            i < j => ~Before(byFamily, flags, s[q[j]], s[q[i]])}}

\* What std::stable_sort() may make of s, a single sequence when the
\* comparison is a strict weak order.
StableSorts(byFamily, flags, s) ==
    {Reordered(s, p) : p \in {q \in Bijection(DOMAIN s, DOMAIN s) :
        \A i, j \in DOMAIN s :
            i < j => /\ ~Before(byFamily, flags, s[q[j]], s[q[i]])
                     /\ q[i] < q[j] \/ Before(byFamily, flags, s[q[i]], s[q[j]])}}

-----------------------------------------------------------------------------
(* parse()                                                                 *)

Call ==
    /\ pc = "idle"
    /\ pc' = "collect"
    /\ result' = <<>>
    /\ entries' = <<>>
    /\ thrown' = FALSE
    /\ UNCHANGED <<order, idx>>

\* parse_cidr() on one entry, down to parse_address_range_port().
Collect(r) ==
    /\ pc = "collect"
    /\ Len(entries) < MaxEntries
    /\ ~("NO_EMPTY" \in order /\ IsEmpty(r))
    /\ result' = Append(result, r)
    /\ entries' = Append(entries, r)
    /\ UNCHANGED <<order, pc, idx, thrown>>

EndOfInput ==
    /\ pc = "collect"
    /\ pc' = "sort"
    /\ UNCHANGED <<order, result, idx, thrown, entries>>

Sort ==
    /\ pc = "sort"
    /\ IF order \cap {"FULL", "MERGE"} # {}
       THEN result' \in StableSorts(FALSE, order, result)
       ELSE UNCHANGED result
    /\ pc' = IF "MERGE" \in order THEN "merge" ELSE "family"
    /\ idx' = 1
    /\ UNCHANGED <<order, thrown, entries>>

Merged(i) == UnionIfPossible(result[i], result[i + 1])

CanMerge(i) == IsDefined(Merged(i)) /\ ~IsEmpty(Merged(i))

\* Bug: idx moves on to the next range after a merge.
MergeAndMoveOn ==
    /\ pc = "merge"
    /\ idx < Len(result)
    /\ ~UnionThrows(result[idx], result[idx + 1])
    /\ CanMerge(idx)
    /\ result' = RemoveAt(ReplaceAt(result, idx, Merged(idx)), idx + 1)
    /\ idx' = idx + 1
    /\ UNCHANGED <<order, pc, thrown, entries>>

\* Bug: idx is moved back as for the ++idx of a loop which has none.
MergeAndStepBack ==
    /\ pc = "merge"
    /\ idx < Len(result)
    /\ ~UnionThrows(result[idx], result[idx + 1])
    /\ CanMerge(idx)
    /\ result' = RemoveAt(ReplaceAt(result, idx, Merged(idx)), idx + 1)
    /\ idx' = idx - 1
    /\ UNCHANGED <<order, pc, thrown, entries>>

\* Bug: the range which was merged is not erased.
MergeAndKeepBoth ==
    /\ pc = "merge"
    /\ idx < Len(result)
    /\ ~UnionThrows(result[idx], result[idx + 1])
    /\ CanMerge(idx)
    /\ result' = ReplaceAt(result, idx, Merged(idx))
    /\ UNCHANGED <<order, pc, idx, thrown, entries>>

\* The union replaces both ranges and is tried against the next one.
Merge ==
    /\ pc = "merge"
    /\ idx < Len(result)
    /\ ~UnionThrows(result[idx], result[idx + 1])
    /\ CanMerge(idx)
    /\ result' = RemoveAt(ReplaceAt(result, idx, Merged(idx)), idx + 1)
    /\ UNCHANGED <<order, pc, idx, thrown, entries>>

KeepApart ==
    /\ pc = "merge"
    /\ idx < Len(result)
    /\ ~UnionThrows(result[idx], result[idx + 1])
    /\ ~CanMerge(idx)
    /\ idx' = idx + 1
    /\ UNCHANGED <<order, pc, result, thrown, entries>>

\* set_mask_count() throws out of parse(): the caller gets no result.
MergeThrows ==
    /\ pc = "merge"
    /\ idx < Len(result)
    /\ UnionThrows(result[idx], result[idx + 1])
    /\ result' = <<>>
    /\ thrown' = TRUE
    /\ pc' = "idle"
    /\ idx' = 1
    /\ UNCHANGED <<order, entries>>

EndOfMerge ==
    /\ pc = "merge"
    /\ idx >= Len(result)
    /\ pc' = "family"
    /\ idx' = 1
    /\ UNCHANGED <<order, result, thrown, entries>>

FamilyFirst ==
    /\ pc = "family"
    /\ IF order \cap {"IPV4_FIRST", "IPV6_FIRST"} # {}
       THEN result' \in StableSorts(TRUE, order, result)
       ELSE UNCHANGED result
    /\ pc' = "idle"
    /\ UNCHANGED <<order, idx, thrown, entries>>

Run ==
    \/ EndOfInput
    \/ Sort
    \/ Merge
    \/ KeepApart
    \/ MergeThrows
    \/ EndOfMerge
    \/ FamilyFirst

Next ==
    \/ \E flags \in SUBSET SortFlags : SetSortOrder(flags)
    \/ Call
    \/ \E r \in Entries : Collect(r)
    \/ Run

\* Inputs are finite and parse() runs to its end.
Spec == Init /\ [][Next]_vars /\ WF_vars(Run)

-----------------------------------------------------------------------------
(* Properties                                                              *)

TypeOK ==
    /\ order \subseteq SortFlags
    /\ pc \in {"idle", "collect", "sort", "merge", "family"}
    /\ result \in Seq(Ranges)
    /\ idx \in Nat \ {0}
    /\ thrown \in BOOLEAN
    /\ entries \in Seq(Entries)

\* The addresses of a range, whatever its masks are.
Addresses(r) == Low(r).ip..High(r).ip

Covered(s) == UNION {Addresses(s[i]) : i \in DOMAIN s}

\* Collecting, sorting, merging and moving a family first neither lose nor
\* add an address: unless parse() throws, the bounds of the ranges it holds
\* cover, at every step, what the entries cover.
CoverageKept == ~thrown => Covered(result) = Covered(entries)

\* Neither range is next to, or has an address in common with, the other.
Apart(l, r) == High(l).ip + 1 < Low(r).ip \/ High(r).ip + 1 < Low(l).ip

\* The one pass of the merge loop is enough: from its end on, no two ranges
\* which are not empty touch, so that no union is left to be made.
MergedApart ==
    ("MERGE" \in order /\ pc \in {"family", "idle"}) =>
        \A i, j \in DOMAIN result :
            i # j /\ ~IsEmpty(result[i]) /\ ~IsEmpty(result[j]) =>
                Apart(result[i], result[j])

SortsFamilies == order \cap {"IPV4_FIRST", "IPV6_FIRST"} # {}

\* The rank a range of the final result is grouped by.
Group(r) == IF SortsFamilies THEN FamilyRank(order, r) ELSE 0

\* What parse() returns is in the order asked for: the family asked for,
\* the other family, then the empty ranges (addr_parser.h), and ascending
\* in each of these groups even though the ranges were merged and moved
\* after they were sorted.
Ordered ==
    pc = "idle" =>
        \A i, j \in DOMAIN result :
            i < j =>
                /\ Group(result[i]) <= Group(result[j])
                /\ (/\ order \cap {"FULL", "MERGE"} # {}
                    /\ Group(result[i]) = Group(result[j]))
                   => ~Less(result[j], result[i])

\* Without SORT_FULL and SORT_MERGE what parse() returns is the ranges of the
\* input, none lost and none twice, and those of a group stay in the order
\* they have in the input.
OrderKept ==
    (pc = "idle" /\ order \cap {"FULL", "MERGE"} = {}) =>
        \E p \in Bijection(DOMAIN entries, DOMAIN entries) :
            /\ result = Reordered(entries, p)
            /\ \A i, j \in DOMAIN entries :
                  i < j /\ Group(result[i]) = Group(result[j]) => p[i] < p[j]

\* A call which read all of its input returns or throws: the merge loop,
\* which moves idx back whenever it merges, ends.
ParseReturns == pc = "sort" ~> pc = "idle"

\* union_if_possible() says that "The masks are ignored", so that merging
\* never throws.
MasksIgnored == ~thrown

\* parse() says that "the union of those two ranges will be kept": an
\* address which matched one of the entries matches the result.
MatchesKept ==
    ~thrown =>
        \A a \in [ip : Ips, mask : {PrefixMask(Bits)}] :
            (\E i \in DOMAIN entries : Match(entries[i], a)) =>
                \E i \in DOMAIN result : Match(result[i], a)

-----------------------------------------------------------------------------
(* Invariants the proofs of the properties rest on                         *)

ResultDefined == \A i \in DOMAIN result : IsDefined(result[i])

\* From the sort on, the ranges are ascending: merging keeps them so.
Ascending ==
    (\/ pc = "merge"
     \/ pc = "family" /\ order \cap {"FULL", "MERGE"} # {}) =>
        \A i, j \in DOMAIN result : i < j => ~Less(result[j], result[i])

\* The ranges the merge loop left behind are apart from all the next ones.
PassedApart ==
    pc = "merge" =>
        \A i, j \in DOMAIN result :
            i < idx /\ i < j /\ ~IsEmpty(result[j]) =>
                High(result[i]).ip + 1 < Low(result[j]).ip

=============================================================================
