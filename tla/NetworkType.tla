---------------------------- MODULE NetworkType ----------------------------
(***************************************************************************)
(* get_network_type() (libaddr/addr.cpp): the type of network of an        *)
(* address, computed at the first call and kept in the object, in a        *)
(* mutable member which the operations on the object are to reset.         *)
(*                                                                         *)
(* One address is Shared: it is the one of an interface, which             *)
(* get_local_addresses() gives to all the threads and which they only      *)
(* read.  Some threads, the Owners, also have an address of their own,     *)
(* which they change, and which may be a copy of the shared one.           *)
(***************************************************************************)
EXTENDS Integers

CONSTANTS
    Threads,            \* threads of the process
    Owners,             \* those which have an address of their own
    Shared,             \* the shared address; that of an owner is the owner
    None,               \* no answer
    Ips,                \* the IPs given to the setters, and bound on the others:
                        \* only an IP of this set is moved to another one
    HostMasks           \* inverses of the masks which are applied

\* An IP is its eight words of 16 bits, from the highest.
WordValues == 0..65535
IpValues == [1..8 -> Nat]

ASSUME NetworkTypeAssumption ==
    /\ Owners \subseteq Threads
    /\ Shared \notin Threads
    /\ Ips \subseteq [1..8 -> WordValues]
    /\ HostMasks \subseteq [1..8 -> WordValues]

Objects == {Shared} \cup Owners

VARIABLES
    ip,         \* ip[o]: f_address of the object o
    type,       \* type[o]: its f_private_network
    pc,         \* pc[t]: where t is in get_network_type(), or "idle"
    obj,        \* obj[t]: the object t last called get_network_type() for
    answer,     \* answer[t]: what it returned, until t does something else
    suspect     \* history: why the type of an owner's object may be wrong

vars == <<ip, type, pc, obj, answer, suspect>>

-----------------------------------------------------------------------------
(* The classification                                                      *)

Types == {"PRIVATE", "CARRIER", "LINK_LOCAL", "MULTICAST", "LOOPBACK", "ANY",
          "UNKNOWN"}

IsIpv4(w) == (\A k \in 1..5 : w[k] = 0) /\ w[6] = 65535

High(word) == word \div 256
Low(word) == word % 256

\* The tests are made in this order; UNKNOWN stands for PUBLIC.
Ipv4Type(w) ==
    CASE \/ High(w[7]) = 10
         \/ High(w[7]) = 172 /\ Low(w[7]) \in 16..31
         \/ High(w[7]) = 192 /\ Low(w[7]) = 168     -> "PRIVATE"
      [] High(w[7]) = 100 /\ Low(w[7]) \in 64..127  -> "CARRIER"
      [] High(w[7]) = 169 /\ Low(w[7]) = 254        -> "LINK_LOCAL"
      [] High(w[7]) \in 224..239                    -> "MULTICAST"
      [] High(w[7]) = 127                           -> "LOOPBACK"
      [] w[7] = 0 /\ w[8] = 0                       -> "ANY"
      [] OTHER                                      -> "UNKNOWN"

\* The third test takes precedence over the one of ff00::/8.
IsLinkLocal(w) ==
    \/ High(w[1]) = 254 /\ Low(w[1]) \in 128..191
    \/ High(w[1]) = 255 /\ Low(w[1]) % 16 = 2

IsLoopback(w) ==
    \/ High(w[1]) = 255 /\ Low(w[1]) % 16 = 1
    \/ (\A k \in 1..7 : w[k] = 0) /\ w[8] = 1

Ipv6Type(w) ==
    IF \A k \in 1..8 : w[k] = 0 THEN "ANY"
    ELSE IF High(w[1]) = 253 THEN "PRIVATE"
    ELSE IF IsLinkLocal(w) THEN "LINK_LOCAL"
    ELSE IF IsLoopback(w) THEN "LOOPBACK"
    ELSE IF High(w[1]) = 255 THEN "MULTICAST"
    ELSE "UNKNOWN"

NetworkTypeOf(w) == IF IsIpv4(w) THEN Ipv4Type(w) ELSE Ipv6Type(w)

-----------------------------------------------------------------------------
(* The IPs next to an IP, and the ends of its network                      *)

\* ++ and -- do not wrap around.
Successor(w) ==
    IF \A k \in 1..8 : w[k] = 65535 THEN w
    ELSE LET last == CHOOSE k \in 1..8 :
                        w[k] # 65535 /\ \A m \in (k + 1)..8 : w[m] = 65535
         IN  [k \in 1..8 |-> IF k < last THEN w[k]
                             ELSE IF k = last THEN w[k] + 1 ELSE 0]

Predecessor(w) ==
    IF \A k \in 1..8 : w[k] = 0 THEN w
    ELSE LET last == CHOOSE k \in 1..8 :
                        w[k] # 0 /\ \A m \in (k + 1)..8 : w[m] = 0
         IN  [k \in 1..8 |-> IF k < last THEN w[k]
                             ELSE IF k = last THEN w[k] - 1 ELSE 65535]

FirstOf(w, host) == [k \in 1..8 |-> w[k] - (w[k] % (host[k] + 1))]
LastOf(w, host) == [k \in 1..8 |-> w[k] - (w[k] % (host[k] + 1)) + host[k]]

Init ==
    /\ ip \in [Objects -> Ips]
    /\ type = [o \in Objects |-> "UNDEFINED"]
    /\ pc = [t \in Threads |-> "idle"]
    /\ obj = [t \in Threads |-> Shared]
    /\ answer = [t \in Threads |-> None]
    /\ suspect = [t \in Owners |-> {}]

-----------------------------------------------------------------------------
(* get_network_type()                                                      *)

Goto(t, p) == pc' = [pc EXCEPT ![t] = p]

CallGetType(t) ==
    /\ pc[t] = "idle"
    /\ \E o \in Objects \cap {Shared, t} : obj' = [obj EXCEPT ![t] = o]
    /\ answer' = [answer EXCEPT ![t] = None]
    /\ Goto(t, "test")
    /\ UNCHANGED <<ip, type, suspect>>

\* Bug: the type is not kept.
TestNothing(t) ==
    /\ pc[t] = "test"
    /\ Goto(t, "unknown")
    /\ UNCHANGED <<ip, type, obj, answer, suspect>>

Test(t) ==
    /\ pc[t] = "test"
    /\ Goto(t, IF type[obj[t]] = "UNDEFINED" THEN "unknown" ELSE "read")
    /\ UNCHANGED <<ip, type, obj, answer, suspect>>

\* Bug: public addresses get no type.
SkipUnknown(t) ==
    /\ pc[t] = "unknown"
    /\ Goto(t, "classify")
    /\ UNCHANGED <<ip, type, obj, answer, suspect>>

\* The type an address keeps when none of the tests succeeds, in the object
\* before any of them is made.
SetUnknown(t) ==
    /\ pc[t] = "unknown"
    /\ type' = [type EXCEPT ![obj[t]] = "UNKNOWN"]
    /\ Goto(t, "classify")
    /\ UNCHANGED <<ip, obj, answer, suspect>>

\* Bug: IPv6 addresses are not looked at.
ClassifyIpv4(t) ==
    /\ pc[t] = "classify"
    /\ LET found == NetworkTypeOf(ip[obj[t]])
       IN  type' = IF ~IsIpv4(ip[obj[t]]) \/ found = "UNKNOWN" THEN type
                   ELSE [type EXCEPT ![obj[t]] = found]
    /\ Goto(t, "read")
    /\ UNCHANGED <<ip, obj, answer, suspect>>

Classify(t) ==
    /\ pc[t] = "classify"
    /\ LET found == NetworkTypeOf(ip[obj[t]])
       IN  type' = IF found = "UNKNOWN" THEN type
                   ELSE [type EXCEPT ![obj[t]] = found]
    /\ Goto(t, "read")
    /\ UNCHANGED <<ip, obj, answer, suspect>>

\* The member is read again to be returned.
Return(t) ==
    /\ pc[t] = "read"
    /\ answer' = [answer EXCEPT ![t] = type[obj[t]]]
    /\ Goto(t, "idle")
    /\ UNCHANGED <<ip, type, obj, suspect>>

-----------------------------------------------------------------------------
(* The operations of an owner on its address; all make its answer obsolete *)

Drop(t) ==
    /\ pc[t] = "idle"
    /\ answer' = [answer EXCEPT ![t] = None]
    /\ UNCHANGED <<pc, obj>>

\* Bug: address_changed() is not called.
SetIpOnly(t) ==
    /\ Drop(t)
    /\ \E w \in Ips : ip' = [ip EXCEPT ![t] = w]
    /\ suspect' = [suspect EXCEPT ![t] = {}]
    /\ UNCHANGED type

\* set_ipv4() and set_ipv6(), which call address_changed().
SetIp(t) ==
    /\ Drop(t)
    /\ \E w \in Ips : ip' = [ip EXCEPT ![t] = w]
    /\ type' = [type EXCEPT ![t] = "UNDEFINED"]
    /\ suspect' = [suspect EXCEPT ![t] = {}]

\* set_protocol() by name, which calls it too.
SetProtocol(t) ==
    /\ Drop(t)
    /\ type' = [type EXCEPT ![t] = "UNDEFINED"]
    /\ suspect' = [suspect EXCEPT ![t] = {}]
    /\ UNCHANGED ip

\* The operations which do not call it: ++, --, and apply_mask().
Moves(w) ==
    {Successor(w), Predecessor(w)}
        \cup {FirstOf(w, host) : host \in HostMasks}
        \cup {LastOf(w, host) : host \in HostMasks}

Move(t) ==
    /\ Drop(t)
    /\ ip[t] \in Ips
    /\ \E w \in Moves(ip[t]) : ip' = [ip EXCEPT ![t] = w]
    /\ suspect' = IF type[t] = "UNDEFINED" THEN suspect
                  ELSE [suspect EXCEPT ![t] = @ \cup {"moved"}]
    /\ UNCHANGED type

\* Bug: an assignment which only copies the address.
CopyIp(t) ==
    /\ Drop(t)
    /\ ip' = [ip EXCEPT ![t] = ip[Shared]]
    /\ suspect' = [suspect EXCEPT ![t] = {}]
    /\ UNCHANGED type

\* A copy of the shared address, with the type it has at that moment.
Copy(t) ==
    /\ Drop(t)
    /\ ip' = [ip EXCEPT ![t] = ip[Shared]]
    /\ type' = [type EXCEPT ![t] = type[Shared]]
    /\ suspect' = [suspect EXCEPT ![t] =
            IF \E u \in Threads : obj[u] = Shared /\ pc[u] = "classify"
            THEN {"copied"} ELSE {}]

Run(t) ==
    \/ Test(t)
    \/ SetUnknown(t)
    \/ Classify(t)
    \/ Return(t)

Next ==
    \/ \E t \in Threads : CallGetType(t) \/ Run(t)
    \/ \E t \in Owners : SetIp(t) \/ SetProtocol(t) \/ Move(t) \/ Copy(t)

\* Nothing in get_network_type() waits: a thread in it gets to its end.
Spec == Init /\ [][Next]_vars /\ \A t \in Threads : WF_vars(Run(t))

-----------------------------------------------------------------------------
(* Properties                                                              *)

\* In particular no answer is UNDEFINED: "get_network_type() defines it"
\* (addr.cpp:1598).
TypeOK ==
    /\ ip \in [Objects -> IpValues]
    /\ type \in [Objects -> Types \cup {"UNDEFINED"}]
    /\ pc \in [Threads -> {"idle", "test", "unknown", "classify", "read"}]
    /\ obj \in [Threads -> Objects]
    /\ answer \in [Threads -> Types \cup {None}]
    /\ suspect \in [Owners -> SUBSET {"moved", "copied"}]

Right(o) == NetworkTypeOf(ip[o])

\* However many threads computed the type of the shared address at the same
\* time, and in whatever order they wrote it, it is the right one when
\* none is computing it any more.
SharedIsRightWhenQuiet ==
    (\A t \in Threads : obj[t] = Shared => pc[t] \notin {"unknown", "classify"}) =>
        type[Shared] \in {"UNDEFINED", Right(Shared)}

\* Until then a thread may be told UNKNOWN, and nothing else which is wrong;
\* a copy made in between may say so for ever.
WrongOnlyAsUnknown ==
    \A t \in Threads :
        (answer[t] # None /\ (obj[t] = Shared \/ suspect[t] \subseteq {"copied"})) =>
            answer[t] \in {Right(obj[t]), "UNKNOWN"}

\* The answer about an address of one's own is right, unless it was
\* moved after its type was computed or copied while its type was being so.
OwnAnswerRight ==
    \A t \in Owners :
        (answer[t] # None /\ obj[t] = t /\ suspect[t] = {}) =>
            answer[t] = Right(t)

\* Once a thread asked for it the type of the shared address is right for
\* ever from some point on: threads do not keep undoing each other's work.
SharedSettles ==
    \A t \in Threads :
        (pc[t] = "test" /\ obj[t] = Shared) ~> [](type[Shared] = Right(Shared))

\* "The IP address may represent various type of networks. This function
\* returns that type." (addr.cpp:1474-1475), and address_changed() "makes
\* sure" that "checking the cache will again return the correct answer".
AnswerIsRight ==
    \A t \in Threads : answer[t] # None => answer[t] = Right(obj[t])

=============================================================================
