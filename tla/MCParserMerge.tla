--------------------------- MODULE MCParserMerge ---------------------------
(***************************************************************************)
(* Addresses of 4 bits: IPv6 0..7, IPv4 8..11, IPv6 12..15.  The entries   *)
(* include ranges which touch in each way, empty ranges, half ranges,      *)
(* networks, and masks which set_mask_count() does not accept.             *)
(***************************************************************************)
EXTENDS ParserMerge

Host(ip) == [ip |-> ip, mask |-> PrefixMask(Bits)]
Net(ip, n) == [ip |-> ip, mask |-> PrefixMask(n)]
From(a) == SetFrom(NoRange, a)
FromTo(i, j) == SetTo(From(Host(i)), Host(j))

\* What "-ip/n" is parsed to: the mask goes to the default from address.
To(ip, n) == [SetTo(NoRange, Host(ip)) EXCEPT !.from = Net(0, n)]

MCEntries == {
    From(Net(4, 2)),                        \* the network 4..7
    From([ip |-> 1, mask |-> {0, 2}]),      \* a mask with a hole
    From(Host(8)),                          \* IPv4
    From(Net(12, 1)),                       \* IPv6, just after the IPv4s
    To(11, 1),                              \* IPv4, no from
    FromTo(2, 4),
    FromTo(4, 6),
    FromTo(3, 9),                           \* both families
    FromTo(9, 15),
    FromTo(6, 3),                           \* empty
    FromTo(15, 0)                           \* empty
}

=============================================================================
