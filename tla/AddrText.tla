------------------------------ MODULE AddrText ------------------------------
(***************************************************************************)
(* The text of an address: to_ipv4_string(), to_ipv6_string() and          *)
(* to_ipv4or6_string() of class addr (libaddr/addr.cpp), in the tokens     *)
(* AddrParser reads.                                                       *)
(***************************************************************************)
EXTENDS AddrParser

CONSTANT
    Services            \* the services getservbyport() knows, a function of
                        \* what it is given; "" when it cannot look them up

\* Whether inet_ntop() may print t for this IP, as an IPv6 or as an IPv4: it
\* never is a number.
IsTextOf(t, ip, ipv6) ==
    /\ Literal[t] = ip
    /\ t[1] \notin DOMAIN Number
    /\ (t[1] \in V6Words) = ipv6

\* Every IP has a text, an IPv4 two of them, and every number which is printed
\* a word; "::" is 0, and the IPv4 addresses are one network.
ASSUME AddrTextAssumption ==
    /\ \A ip \in Ips : \E t \in DOMAIN Literal : IsTextOf(t, ip, TRUE)
    /\ \A ip \in FirstV4..LastV4 : \E t \in DOMAIN Literal : IsTextOf(t, ip, FALSE)
    /\ \A n \in (0..Bits) \cup (0..MaxPort) : \E w \in DOMAIN Number : Number[w] = n
    /\ DOMAIN Number \cap V6Words = {} /\ Punctuation \cap V6Words = {}
    /\ "::" \in V6Words /\ Literal[<<"::">>] = 0
    /\ \A i \in 0..(V4Bits - 1) : BitOf(FirstV4, i) = 0
    /\ LastV4 = FirstV4 + (Weight[V4Bits] - 1)
    /\ \A n \in DOMAIN Services : Services[n] \in STRING

\* string_ip_t, a set of flags.
AddressModes == {"ADDRESS", "BRACKET_ADDRESS"}
PortModes == {"PORT", "PORT_NAME"}
MaskModes == {"MASK", "BRACKET_MASK", "MASK_AS_ADDRESS", "MASK_IF_NEEDED"}
Modes == AddressModes \cup PortModes \cup MaskModes
             \cup {"DEFAULT_AS_ASTERISK", "DEFAULT_AS_IPV4"}

AllModes == {"BRACKET_ADDRESS", "PORT", "BRACKET_MASK"}

Includes(mode, flags) == mode \cap flags # {}

\* inet_ntop() of AF_INET and of AF_INET6, and a number as its word.
Text4Of(ip) == CHOOSE t \in DOMAIN Literal : IsTextOf(t, ip, FALSE)
Text6Of(ip) == CHOOSE t \in DOMAIN Literal : IsTextOf(t, ip, TRUE)
WordOf(n) == CHOOSE w \in DOMAIN Number : Number[w] = n

\* The IP with these bits.
IpOf(mask) == CHOOSE ip \in Ips : OnBits(ip) = mask

\* addr::is_default(), for 0.0.0.0 and ::, with any mask.
IsDefault(a) == a.ip \in {0, FirstV4}

IsMaskIpv4Compatible(a) == PrefixMask(Bits - V4Bits) \subseteq a.mask

\* get_port_name() makes a string of a null pointer when there is no such
\* service.
PortNameThrows(a, mode) == "PORT_NAME" \in mode /\ a.port \notin DOMAIN Services

PortText(a, mode) ==
    IF ~Includes(mode, PortModes) THEN <<>>
    ELSE (IF Includes(mode, AddressModes) THEN <<":">> ELSE <<>>)
         \o (IF "PORT_NAME" \in mode /\ Services[a.port] # ""
             THEN <<Services[a.port]>> ELSE <<WordOf(a.port)>>)

ShowsMask(a, mode) ==
    Includes(mode, MaskModes) /\ (GetMaskSize(a) # Bits \/ "MASK_IF_NEEDED" \notin mode)

Slash(mode) == IF Includes(mode, AddressModes \cup PortModes) THEN <<"/">> ELSE <<>>

\* -1 when the mask is shown as an address.
ShownBits(a, mode) == IF "MASK_AS_ADDRESS" \in mode THEN -1 ELSE GetMaskSize(a)

-----------------------------------------------------------------------------
(* IPv4                                                                    *)

\* to_ipv4_string() throws.
Ipv4Throws(a, mode) ==
    \/ Includes(mode, AddressModes) /\ ~IsIpv4(a)
    \/ ShowsMask(a, mode) /\ ~IsMaskIpv4Compatible(a)

\* Bug: the size of the mask is out of 128.
MaskText4OutOfAll(a, mode) ==
    IF ~ShowsMask(a, mode) THEN <<>>
    ELSE Slash(mode) \o
         IF ShownBits(a, mode) = -1
         THEN Text4Of(FirstV4 + IpOf(a.mask \cap 0..(V4Bits - 1)))
         ELSE <<WordOf(ShownBits(a, mode))>>

MaskText4(a, mode) ==
    IF ~ShowsMask(a, mode) THEN <<>>
    ELSE Slash(mode) \o
         IF ShownBits(a, mode) = -1
         THEN Text4Of(FirstV4 + IpOf(a.mask \cap 0..(V4Bits - 1)))
         ELSE <<WordOf(ShownBits(a, mode) - (Bits - V4Bits))>>

ToIpv4String(a, mode) ==
    LET address == IF ~Includes(mode, AddressModes) THEN <<>>
                   ELSE IF "DEFAULT_AS_ASTERISK" \in mode /\ IsDefault(a) THEN <<"*">>
                   ELSE Text4Of(a.ip)
    IN  address \o PortText(a, mode) \o MaskText4(a, mode)

-----------------------------------------------------------------------------
(* IPv6                                                                    *)

\* The flags which ask for brackets, around the mask as well.
Bracketed(t, mode) ==
    IF Includes(mode, {"BRACKET_ADDRESS", "BRACKET_MASK"} \cup PortModes)
    THEN <<"[">> \o t \o <<"]">> ELSE t

MaskText6(a, mode) ==
    IF ~ShowsMask(a, mode) THEN <<>>
    ELSE Slash(mode) \o
         IF ShownBits(a, mode) = -1 THEN Bracketed(Text6Of(IpOf(a.mask)), mode)
         ELSE <<WordOf(ShownBits(a, mode))>>

ToIpv6String(a, mode) ==
    LET ip == IF ~IsDefault(a) THEN Text6Of(a.ip)
              ELSE IF "DEFAULT_AS_ASTERISK" \in mode THEN <<"*">>
              ELSE IF "DEFAULT_AS_IPV4" \in mode THEN <<"0.0.0.0">>
              ELSE <<"::">>
        address == IF Includes(mode, AddressModes) THEN Bracketed(ip, mode) ELSE <<>>
    IN  address \o PortText(a, mode) \o MaskText6(a, mode)

-----------------------------------------------------------------------------

ToStringThrows(a, mode) ==
    (IsIpv4(a) /\ Ipv4Throws(a, mode)) \/ PortNameThrows(a, mode)

\* to_ipv4or6_string()
ToIpv4or6String(a, mode) ==
    IF IsIpv4(a) THEN ToIpv4String(a, mode) ELSE ToIpv6String(a, mode)

=============================================================================
