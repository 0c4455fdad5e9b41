-------------------------- MODULE MCRangeAlgebra ---------------------------
(***************************************************************************)
(* Eight addresses, of which 2 and 3 are IPv4, a network of four of them,  *)
(* and a mask with a hole.                                                 *)
(***************************************************************************)
EXTENDS RangeAlgebra

MCInputAddrs ==
    {[ip |-> ip, mask |-> PrefixMask(Bits)] : ip \in {0, 2, 3, 4, 6, 7}}
        \cup {[ip |-> 5, mask |-> PrefixMask(1)], [ip |-> 1, mask |-> {0, 2}]}

MCOffsets == {-2, 1}

=============================================================================
