--------------------------- MODULE MCNetworkType ---------------------------
(***************************************************************************)
(* IPs at the end of their network, so that the next or the previous one   *)
(* is of another type, or which have none.                                 *)
(***************************************************************************)
EXTENDS NetworkType

Ipv4(a, b, c, d) ==
    [k \in 1..8 |-> CASE k <= 5 -> 0
                      [] k = 6  -> 65535
                      [] k = 7  -> 256 * a + b
                      [] k = 8  -> 256 * c + d]

MCIps == {
    Ipv4(10, 255, 255, 255),                \* PRIVATE, then 11.0.0.0
    Ipv4(224, 0, 0, 0),                     \* MULTICAST, after 223.255.255.255
    Ipv4(8, 8, 8, 8),                       \* no type, as all its neighbours
    [k \in 1..8 |-> IF k = 8 THEN 1 ELSE 0],   \* LOOPBACK, after ::
    [k \in 1..8 |-> 65535]                  \* the last IP, MULTICAST
}

\* /112
MCHostMasks == {[k \in 1..8 |-> IF k = 8 THEN 65535 ELSE 0]}

=============================================================================
