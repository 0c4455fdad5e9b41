------------------------------- MODULE Lists -------------------------------
(***************************************************************************)
(* What the loops over lists of the library find and collect: the place of *)
(* the first element a test holds for, and the list of all of them.        *)
(***************************************************************************)
EXTENDS Integers, FiniteSetsExt, SequencesExt

\* The first of these places, 0 when there is none.
First(places) == IF places = {} THEN 0 ELSE Min(places)

\* For each n, what push_back() collected of the first n elements of s, when it
\* is called for those at these places.
SelectedUpTo(s, places) ==
    LET F[n \in 0..Len(s)] ==
            IF n = 0 THEN <<>>
            ELSE IF n \in places THEN Append(F[n - 1], s[n]) ELSE F[n - 1]
    IN  F

Selected(s, places) == SelectedUpTo(s, places)[Len(s)]

=============================================================================
