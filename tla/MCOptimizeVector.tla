-------------------------- MODULE MCOptimizeVector --------------------------
(***************************************************************************)
(* Addresses of 4 bits: IPv6 0..7, IPv4 8..11, IPv6 12..15.  Networks      *)
(* which are equal, nested, next to each other and apart, a mask with a    *)
(* hole and a mask too short for its IPv4.                                 *)
(***************************************************************************)
EXTENDS OptimizeVector

Net(ip, n) == [ip |-> ip, mask |-> PrefixMask(n)]

MCNetworks == {
    Net(0, 2),                              \* 0..3
    Net(4, 2),                              \* 4..7, by its first address
    Net(5, 2),                              \* 4..7, by another one
    Net(6, 3),                              \* 6..7
    Net(0, 1),                              \* 0..7
    Net(11, 1),                             \* 8..15, not accepted for IPv4
    [ip |-> 3, mask |-> {0, 2}]             \* no range
}

=============================================================================
