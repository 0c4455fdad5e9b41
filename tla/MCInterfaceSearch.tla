------------------------- MODULE MCInterfaceSearch -------------------------
(***************************************************************************)
(* Addresses of 5 bits: 8..15 are IPv4, 8 is 0.0.0.0 and 9 is 127.0.0.1.   *)
(***************************************************************************)
EXTENDS InterfaceSearch

lo == [name |-> "lo", family |-> "inet", flags |-> {}, ip |-> 9, mask |-> {0, 1, 2}, peer |-> NoPointer]
lo6 == [lo EXCEPT !.family = "inet6", !.ip = 1, !.mask = NoPointer]
raw == [lo EXCEPT !.name = "eth0", !.family = "packet", !.mask = NoPointer]

\* The network 12..15, and a part of it, 12..13.
eth0 == [name |-> "eth0", family |-> "inet", flags |-> {"broadcast"},
         ip |-> 14, mask |-> {2}, peer |-> 15]
eth1 == [eth0 EXCEPT !.name = "eth1", !.ip = 12, !.mask = {1, 2}, !.peer = 13]
tun0 == [name |-> "tun0", family |-> "inet", flags |-> {"pointopoint"},
         ip |-> 10, mask |-> {0, 1, 2}, peer |-> 11]

\* Its broadcast address is missing, as in a container.
docker0 == [eth0 EXCEPT !.name = "docker0", !.ip = 10, !.mask = {1, 2}, !.peer = NoPointer]

default == [iface |-> "eth0", destination |-> 8, mask |-> {}, gateway |-> 15, flags |-> 3]

\* 0.0.0.0/1 and a route which rejects, 0x0201.
half == [default EXCEPT !.iface = "tun0", !.mask = {2}, !.gateway = 11]
reject == [iface |-> "lo", destination |-> 10, mask |-> {0, 1, 2}, gateway |-> 8, flags |-> 513]

MCConfigs == {
    [entries |-> <<lo, raw, eth0, lo6>>, routes |-> <<reject, default>>,
     names |-> <<"lo", "eth0">>],
    [entries |-> <<lo, eth0, eth1, [raw EXCEPT !.family = "none"]>>, routes |-> <<default>>,
     names |-> <<"lo", "eth0", "eth1">>],
    [entries |-> <<lo, eth0, tun0>>, routes |-> <<half, default>>,
     names |-> [k \in {1, 2, 4} |-> <<"lo", "eth0", "gone", "tun0">>[k]]],
    [entries |-> <<lo, docker0>>, routes |-> <<>>,
     names |-> [k \in {1, 3} |-> <<"lo", "gone", "docker0">>[k]]]
}

MCAsked == {0, 1, 8, 10, 11, 12, 13, 15, 20}

=============================================================================
