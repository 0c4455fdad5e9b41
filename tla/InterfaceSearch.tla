-------------------------- MODULE InterfaceSearch --------------------------
(***************************************************************************)
(* Which interface an address belongs to: find_addr_interface(),           *)
(* is_broadcast_address() and get_interface_name_index() of iface.cpp, the *)
(* content of the list of get_local_addresses(), and the routes of         *)
(* route.cpp.  The list, the routes and each index are read from the       *)
(* kernel at different times, and the list may have been read by an        *)
(* earlier call.                                                           *)
(*                                                                         *)
(* One thread; what threads do to the cached list is in IfaceCache.        *)
(***************************************************************************)
EXTENDS AddrRange, Lists

CONSTANTS
    Configs,        \* the configurations of the network
    Asked,          \* the IPs the program asks about
    NoPointer       \* the null pointer

V4Mask(m) == (V4Bits..(Bits - 1)) \cup m

Families == {"inet", "inet6", "packet", "none"}
Flags == {{}, {"broadcast"}, {"pointopoint"}}

\* What the kernel has on an interface: a name, a family and an IP, a mask
\* when it has one, the IP of the other side, which is its broadcast address
\* or its destination depending on the flags.
Entries ==
    [name : STRING, family : Families, flags : Flags, ip : Ips,
     mask : Masks \cup {NoPointer}, peer : Ips \cup {NoPointer}]

\* A line of /proc/net/route; the flags of an IPv4 route are RTF_UP to
\* RTF_REJECT, ten bits of the 16 which the kernel prints.
RouteFlags == 0..1023

Lines ==
    [iface : STRING, destination : FirstV4..LastV4,
     mask : SUBSET (0..(V4Bits - 1)), gateway : FirstV4..LastV4, flags : RouteFlags]

\* The objects made of them.
InterfaceObjects ==
    [name : STRING, flags : Flags, address : Addrs, broadcast : Ips, destination : Ips]

RouteObjects == [iface : STRING, destination : Addrs, gateway : Ips, flags : Nat]

\* names is what if_indextoname() knows; no two interfaces have the same name.
ASSUME InterfaceSearchAssumption ==
    /\ Asked \subseteq Ips
    /\ NoPointer \notin Ips \cup InterfaceObjects
    /\ \A c \in Configs :
        /\ c.entries \in Seq(Entries)
        /\ c.routes \in Seq(Lines)
        /\ c.names \in [DOMAIN c.names -> STRING]
        /\ DOMAIN c.names \subseteq Nat \ {0} /\ IsFiniteSet(DOMAIN c.names)
        /\ \A j, k \in DOMAIN c.names : c.names[j] = c.names[k] => j = k

VARIABLES
    kernel,     \* the configuration of the network
    cache,      \* g_cache_iface, or NoPointer
    step,       \* what the program does next
    asked,      \* the IP, and whether the default route may answer
    list,       \* interfaces of find_addr_interface()
    routes,     \* routes of find_addr_interface()
    found,      \* the interface found, or NoPointer
    names,      \* the pairs found by get_interface_name_index()
    stale       \* history: which of "list" and "names" were read before the
                \* configuration changed

searchVars == <<kernel, cache, step, asked, list, routes, found, names, stale>>

-----------------------------------------------------------------------------
(* get_local_addresses(): one entry of the kernel                          *)

\* An address object which was not set.
NoAddress == 0

\* Bug: ifa_broadaddr is used whenever the flag is set.
InterfaceWithoutTest(e) ==
    [name |-> e.name,
     flags |-> e.flags,
     address |-> [ip |-> e.ip,
                  mask |-> IF e.mask = NoPointer THEN PrefixMask(Bits)
                           ELSE IF e.family = "inet" THEN V4Mask(e.mask)
                           ELSE e.mask],
     broadcast |-> IF "broadcast" \in e.flags THEN e.peer ELSE NoAddress,
     destination |-> IF "pointopoint" \in e.flags /\ e.peer # NoPointer THEN e.peer ELSE NoAddress]

Interface(e) ==
    [name |-> e.name,
     flags |-> e.flags,
     address |-> [ip |-> e.ip,
                  mask |-> IF e.mask = NoPointer THEN PrefixMask(Bits)
                           ELSE IF e.family = "inet" THEN V4Mask(e.mask)
                           ELSE e.mask],
     broadcast |-> IF "broadcast" \in e.flags /\ e.peer # NoPointer THEN e.peer ELSE NoAddress,
     destination |-> IF "pointopoint" \in e.flags /\ e.peer # NoPointer THEN e.peer ELSE NoAddress]

\* Entries without an address or of another family are skipped.
Listed(c) == {k \in DOMAIN c.entries : c.entries[k].family \in {"inet", "inet6"}}

Interfaces(c) ==
    Selected([k \in DOMAIN c.entries |-> Interface(c.entries[k])], Listed(c))

-----------------------------------------------------------------------------
(* route.cpp                                                               *)

\* The kernel prints the flags with four hexadecimal digits.
HexDigits(n) == <<n \div 4096, (n \div 256) % 16, (n \div 16) % 16, n % 16>>

\* The number made of the first n decimal digits, for each n.
Decimal(digits) ==
    LET D[n \in 0..Len(digits)] == IF n = 0 THEN 0 ELSE 10 * D[n - 1] + digits[n]
    IN  D

\* std::stol() reads the decimal digits before the first other one.  It throws
\* when there is none, but the first of the four digits of RouteFlags is 0.
Stol(digits) ==
    LET end == First({k \in DOMAIN digits : digits[k] > 9})
    IN  Decimal(digits)[IF end = 0 THEN Len(digits) ELSE end - 1]

Route(line) ==
    [iface |-> line.iface,
     destination |-> [ip |-> line.destination, mask |-> V4Mask(line.mask)],
     gateway |-> line.gateway,
     flags |-> Stol(HexDigits(line.flags))]

GetIpv4Routes(c) == [k \in DOMAIN c.routes |-> Route(c.routes[k])]

\* addr::is_default(), for 0.0.0.0 and ::, with any mask.
IsDefault(b) == b.ip \in {0, FirstV4}

\* 0 when there is none.
FindDefaultRoute(rs) == First({k \in DOMAIN rs : IsDefault(rs[k].destination)})

-----------------------------------------------------------------------------
(* find_addr_interface()                                                   *)

\* The interfaces whose network has the IP.
Matching(l, ip) ==
    {k \in DOMAIN l : AddrMatch(l[k].address, [DefaultAddr EXCEPT !.ip = ip])}

\* Bug: the interface which matches last.
FindByAddressLast(l, ip) == IF Matching(l, ip) = {} THEN 0 ELSE Max(Matching(l, ip))

\* The first of them, 0 when there is none.
FindByAddress(l, ip) == First(Matching(l, ip))

FindByName(l, name) == First({k \in DOMAIN l : l[k].name = name})

At(l, k) == IF k = 0 THEN NoPointer ELSE l[k]

\* The interface of the default route.
DefaultInterface(l, rs) ==
    LET k == FindDefaultRoute(rs)
    IN  IF k = 0 THEN NoPointer ELSE At(l, FindByName(l, rs[k].iface))

SearchInit ==
    /\ kernel \in Configs
    /\ cache = NoPointer
    /\ step = "idle"
    /\ asked = [ip |-> 0, allowDefault |-> FALSE]
    /\ list = <<>> /\ routes = <<>>
    /\ found = NoPointer
    /\ names = <<>>
    /\ stale = {}

FindAddrInterface ==
    /\ step = "idle"
    /\ \E ip \in Asked, allowDefault \in BOOLEAN :
        asked' = [ip |-> ip, allowDefault |-> allowDefault]
    /\ step' = "list"
    /\ UNCHANGED <<kernel, cache, list, routes, found, names, stale>>

GetCachedList ==
    /\ step = "list" /\ cache # NoPointer
    /\ list' = cache
    /\ step' = "search"
    /\ UNCHANGED <<kernel, cache, asked, routes, found, names, stale>>

ReadList ==
    /\ step = "list" /\ cache = NoPointer
    /\ list' = Interfaces(kernel)
    /\ cache' = list'
    /\ stale' = stale \ {"list"}
    /\ step' = "search"
    /\ UNCHANGED <<kernel, asked, routes, found, names>>

\* getifaddrs() fails.
ReadListFails ==
    /\ step = "list" /\ cache = NoPointer
    /\ list' = NoPointer
    /\ step' = "search"
    /\ UNCHANGED <<kernel, cache, asked, routes, found, names, stale>>

\* The search goes through a null pointer.
Crash ==
    /\ step = "search" /\ list = NoPointer
    /\ step' = "crashed"
    /\ UNCHANGED <<kernel, cache, asked, list, routes, found, names, stale>>

Search ==
    /\ step = "search" /\ list # NoPointer
    /\ LET k == FindByAddress(list, asked.ip)
       IN  /\ found' = At(list, k)
           /\ step' = IF k = 0 /\ asked.allowDefault THEN "routes" ELSE "answered"
    /\ UNCHANGED <<kernel, cache, asked, list, routes, names, stale>>

\* The routes are empty when /proc/net/route cannot be read.
ReadRoutes ==
    /\ step = "routes"
    /\ routes' \in {GetIpv4Routes(kernel), <<>>}
    /\ step' = "default"
    /\ UNCHANGED <<kernel, cache, asked, list, found, names, stale>>

UseDefault ==
    /\ step = "default"
    /\ found' = DefaultInterface(list, routes)
    /\ step' = "answered"
    /\ UNCHANGED <<kernel, cache, asked, list, routes, names, stale>>

\* is_broadcast_address() of the IP which was asked, with FALSE.
IsBroadcastAddress == found # NoPointer /\ found.broadcast = asked.ip

-----------------------------------------------------------------------------
(* get_interface_name_index()                                              *)

StartNames ==
    /\ step = "idle"
    /\ names' = <<>>
    /\ stale' = stale \ {"names"}
    /\ step' = "names"
    /\ UNCHANGED <<kernel, cache, asked, list, routes, found>>

\* if_indextoname() of one index after the other, up to the first which it
\* does not know.
NextName ==
    /\ step = "names"
    /\ LET index == Len(names) + 1
       IN  IF index \in DOMAIN kernel.names
           THEN names' = Append(names, kernel.names[index]) /\ UNCHANGED step
           ELSE step' = "named" /\ UNCHANGED names
    /\ UNCHANGED <<kernel, cache, asked, list, routes, found, stale>>

\* 0 when no interface has this name.
GetInterfaceIndexByName(c, name) ==
    IF \E k \in DOMAIN c.names : c.names[k] = name
    THEN CHOOSE k \in DOMAIN c.names : c.names[k] = name
    ELSE 0

-----------------------------------------------------------------------------
(* The rest of the world                                                   *)

Resume ==
    /\ step \in {"answered", "named"}
    /\ step' = "idle"
    /\ list' = <<>> /\ routes' = <<>>
    /\ found' = NoPointer /\ names' = <<>>
    /\ UNCHANGED <<kernel, cache, asked, stale>>

\* The program is started again.
Restart ==
    /\ step = "crashed"
    /\ step' = "idle"
    /\ cache' = NoPointer /\ list' = <<>>
    /\ UNCHANGED <<kernel, asked, routes, found, names, stale>>

NetworkChange ==
    /\ kernel' \in Configs \ {kernel}
    /\ stale' = {"list", "names"}
    /\ UNCHANGED <<cache, step, asked, list, routes, found, names>>

\* The TTL elapsed, or reset_local_addresses_cache().
Expire ==
    /\ cache # NoPointer
    /\ cache' = NoPointer
    /\ UNCHANGED <<kernel, step, asked, list, routes, found, names, stale>>

SearchNext ==
    \/ FindAddrInterface \/ GetCachedList \/ ReadList \/ ReadListFails
    \/ Crash \/ Restart \/ Search \/ ReadRoutes \/ UseDefault
    \/ StartNames \/ NextName
    \/ Resume \/ NetworkChange \/ Expire

SearchSpec == SearchInit /\ [][SearchNext]_searchVars

-----------------------------------------------------------------------------
(* Properties                                                              *)

SearchTypeOK ==
    /\ kernel \in Configs
    /\ cache = NoPointer \/ cache \in Seq(InterfaceObjects)
    /\ step \in {"idle", "list", "search", "crashed", "routes", "default",
               "answered", "names", "named"}
    /\ asked \in [ip : Ips, allowDefault : BOOLEAN]
    /\ list = NoPointer \/ list \in Seq(InterfaceObjects)
    /\ routes \in Seq(RouteObjects)
    /\ found = NoPointer \/ found \in InterfaceObjects
    /\ names \in Seq(STRING)
    /\ stale \subseteq {"list", "names"}

\* The entries whose network has an IP.
Owners(ip) ==
    {k \in DOMAIN kernel.entries :
        /\ kernel.entries[k].family \in {"inet", "inet6"}
        /\ AddrMatch(Interface(kernel.entries[k]).address, [DefaultAddr EXCEPT !.ip = ip])}

\* The interface found is one whose network has the IP, and otherwise one with
\* the name of a route to 0.0.0.0: never an interface which was not asked for,
\* and none only when nothing has the IP.
FoundRight ==
    LET owners == Owners(asked.ip)
    IN  IF owners # {} THEN found = Interface(kernel.entries[Min(owners)])
        ELSE found # NoPointer =>
                /\ asked.allowDefault
                /\ \E k \in DOMAIN kernel.routes :
                    /\ kernel.routes[k].destination = FirstV4
                    /\ kernel.routes[k].iface = found.name

\* The broadcast address of an interface is one, unless the network of another
\* interface has it as well; and nothing else is one.
BroadcastRight ==
    LET broadcasts == {k \in DOMAIN kernel.entries :
            /\ "broadcast" \in kernel.entries[k].flags
            /\ kernel.entries[k].peer = asked.ip}
    IN  /\ broadcasts # {} /\ Owners(asked.ip) = broadcasts => IsBroadcastAddress
        /\ IsBroadcastAddress => broadcasts # {} \/ asked.ip = NoAddress

\* The names found are those of the indexes before the first gap, all of them,
\* and the index of each is its place.
NamesRight ==
    /\ Len(names) + 1 \notin DOMAIN kernel.names
    /\ \A k \in DOMAIN names :
        /\ k \in DOMAIN kernel.names /\ names[k] = kernel.names[k]
        /\ GetInterfaceIndexByName(kernel, names[k]) = k

\* The flags of a route are those of the kernel as long as one digit is
\* enough for them.
FlagsRight ==
    \A k \in DOMAIN routes :
        kernel.routes[k].flags < 10 => routes[k].flags = kernel.routes[k].flags

\* What the program is told is right for the configuration as it is, when it
\* did not change since the list was read, be it by an earlier call.
AnswerRight ==
    /\ step = "answered" /\ "list" \notin stale =>
            /\ FoundRight /\ FlagsRight
            /\ ~asked.allowDefault => BroadcastRight
    /\ step = "named" /\ "names" \notin stale => NamesRight

\* "the complete list of interfaces by index and name pairs".
EveryNameListed ==
    step = "named" /\ "names" \notin stale =>
        \A k \in DOMAIN kernel.names : \E j \in DOMAIN names : names[j] = kernel.names[k]

=============================================================================
