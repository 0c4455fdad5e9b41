--------------------------- MODULE ParserSession ---------------------------
(***************************************************************************)
(* One addr_parser over its life, as a program uses it: configured by any  *)
(* setters in any order, then given texts one after the other.  The parser *)
(* is the program's own or that of a validator_address, configured by the  *)
(* words of an option.  Between two calls the answers of the resolver may  *)
(* change.                                                                 *)
(***************************************************************************)
EXTENDS ValidatorAddress

CONSTANTS
    Texts,              \* what is parsed
    AddressTexts,       \* what is given to set_default_address()
    MaskTexts,          \* what is given to set_default_mask()
    PortNumbers,        \* what is given to set_default_port()
    OptionLists,        \* what validators are created with
    Resolvers,          \* what getaddrinfo() may know of names
    PrintModes,         \* how the addresses are printed
    MaxSetters,         \* bound on the number of setters which are called
    MaxErrors           \* bound on the errors the program leaves and parses on

\* A name has none of the punctuation of a text but the dash, and
\* getaddrinfo() has at least one answer for those it resolves.
ASSUME ParserSessionAssumption ==
    /\ Texts \cup AddressTexts \cup MaskTexts \subseteq Seq(STRING)
    /\ PortNumbers \subseteq Int
    /\ OptionLists \subseteq Seq([name : STRING, values : Seq(Seq(STRING))])
    /\ \A r \in Resolvers : \A t \in DOMAIN r :
        /\ t \in Seq(STRING) /\ t \notin DOMAIN Literal
        /\ \A i \in DOMAIN t : t[i] \notin (Punctuation \ {"-"}) \cup V6Words
        /\ r[t] \in Seq(Ips \cup {Unsupported}) /\ r[t] # <<>>
    /\ PrintModes \subseteq SUBSET Modes
    /\ MaxSetters \in Nat /\ MaxErrors \in Nat

VARIABLES
    parser,     \* the addr_parser
    owner,      \* "program" or "validator"
    resolver,   \* the names getaddrinfo() resolves, and to what
    setters,    \* how many setters were called
    last        \* history: the last call of parse(), validate(), ...

sessionVars == <<parser, owner, resolver, setters, last>>

NoCall == [call |-> "none"]

SessionInit ==
    /\ parser = NewParser
    /\ owner = "program"
    /\ resolver \in Resolvers
    /\ setters = 0
    /\ last = NoCall

-----------------------------------------------------------------------------
(* Configuration                                                           *)

Configured(p) ==
    /\ owner = "program" /\ last = NoCall
    /\ setters < MaxSetters
    /\ setters' = setters + 1
    /\ parser' = p
    /\ UNCHANGED <<owner, resolver, last>>

CallSetAllow(flag, on) == Configured(SetAllow(parser, flag, on))

CallSetDefaultAddress(t) ==
    AcceptsDefaultAddress(t) /\ Configured(SetDefaultAddress(parser, t))

CallSetDefaultPort(n) == AcceptsDefaultPort(n) /\ Configured(SetDefaultPort(parser, n))

CallSetDefaultMask(t) ==
    AcceptsDefaultMask(t) /\ Configured(SetDefaultMask(parser, t))

CallSetProtocol(protocol) ==
    protocol # "none" /\ Configured(SetProtocol(parser, protocol))

CallClearProtocol == Configured(ClearProtocol(parser))

CallSetSortOrder(noEmpty) == Configured(SetNoEmpty(parser, noEmpty))

\* The program creates a validator, and uses its parser from now on.
CreateValidator(options, emptyPort) ==
    /\ owner = "program" /\ setters = 0 /\ last = NoCall
    /\ ~ConstructorThrows(options, emptyPort)
    /\ owner' = "validator"
    /\ parser' = NewValidator(resolver, options, emptyPort)
    /\ UNCHANGED <<resolver, setters, last>>

-----------------------------------------------------------------------------
(* Parsing                                                                 *)

\* parse() of a text by the parser p.
Called(call, p, t) ==
    [call |-> call, text |-> t, before |-> p, resolver |-> resolver,
     result |-> ParseText(p, resolver, t)]

CallParse(t) ==
    /\ owner = "program" /\ last = NoCall
    /\ parser.errors <= MaxErrors
    /\ last' = Called("parse", parser, t)
    /\ parser' = AfterParse(parser, last'.result)
    /\ UNCHANGED <<owner, resolver, setters>>

CallClearErrors ==
    /\ owner = "program" /\ last = NoCall
    /\ parser' = ClearErrors(parser)
    /\ UNCHANGED <<owner, resolver, setters, last>>

CallValidate(t) ==
    /\ owner = "validator" /\ last = NoCall
    /\ LET p == BeforeValidate(parser)
       IN  /\ last' = Called("validate", p, t)
           /\ parser' = AfterParse(p, last'.result)
    /\ UNCHANGED <<owner, resolver, setters>>

\* string_to_addr() uses none of the program's parsers; the protocol is any
\* name of /etc/protocols, or "none" for the empty string.
CallStringToAddr(t, default, port, protocol, mask) ==
    /\ owner = "program" /\ setters = 0 /\ last = NoCall
    /\ AcceptsDefaultAddress(default) /\ AcceptsDefaultPort(port)
    /\ last' = [call |-> "string_to_addr", text |-> t, port |-> port,
                protocol |-> protocol,
                ranges |-> StringToAddr(resolver, t, default, port, protocol, mask)]
    /\ UNCHANGED <<parser, owner, resolver, setters>>

\* The caller is done with what the call returned.
Done ==
    /\ last # NoCall
    /\ last' = NoCall
    /\ UNCHANGED <<parser, owner, resolver, setters>>

ResolverChanges ==
    /\ last = NoCall
    /\ resolver' \in Resolvers \ {resolver}
    /\ UNCHANGED <<parser, owner, setters, last>>

Setter ==
    \/ \E flag \in AllowFlags, on \in BOOLEAN : CallSetAllow(flag, on)
    \/ \E t \in AddressTexts : CallSetDefaultAddress(t)
    \/ \E n \in PortNumbers : CallSetDefaultPort(n)
    \/ \E t \in MaskTexts : CallSetDefaultMask(t)
    \/ \E protocol \in Protocols : CallSetProtocol(protocol)
    \/ CallClearProtocol
    \/ \E noEmpty \in BOOLEAN : CallSetSortOrder(noEmpty)

\* What convert_string() makes of the empty string: 0, or not a port.
EmptyPorts == {0, Unset - 1}

SessionNext ==
    \/ Setter
    \/ \E options \in OptionLists, emptyPort \in EmptyPorts :
        CreateValidator(options, emptyPort)
    \/ \E t \in Texts : CallParse(t) \/ CallValidate(t)
    \/ CallClearErrors
    \/ \E t \in Texts, default \in AddressTexts, port \in PortNumbers,
          protocol \in Protocols, mask \in BOOLEAN :
        CallStringToAddr(t, default, port, protocol, mask)
    \/ Done
    \/ ResolverChanges

SessionSpec == SessionInit /\ [][SessionNext]_sessionVars

-----------------------------------------------------------------------------
(* Properties                                                              *)

Parsers ==
    [allow : SUBSET AllowFlags, noEmpty : BOOLEAN,
     address4 : Seq(STRING), address6 : Seq(STRING),
     mask4 : Seq(STRING), mask6 : Seq(STRING),
     protocol : Protocols, port : Unset..MaxPort, errors : Nat]

SessionTypeOK ==
    /\ parser \in Parsers
    /\ ~({"MULTI_ADDRESSES_COMMAS", "MULTI_PORTS_COMMAS"} \subseteq parser.allow)
    /\ owner \in {"program", "validator"}
    /\ resolver \in Resolvers
    /\ setters \in 0..MaxSetters
    /\ last.call \in {"none", "parse", "validate", "string_to_addr"}

Parsed == last.call \in {"parse", "validate"}

\* What each entry of the last text gave.
EntryResults ==
    LET entries == TextEntries(last.before, last.text)
    IN  {ParseCidr(last.before, last.resolver, entries[i]) : i \in DOMAIN entries}

\* Whatever the configuration is, parse() never leaves an entry out in
\* silence: it adds a range or an error, unless the program asked for the
\* empty ranges to be removed.
NothingDropped(r) ==
    last.before.noEmpty \/ r.threw \/ r.errors > 0 \/ r.ranges # <<>>

\* An entry with an error adds none of its ranges to the result.  Without
\* ALLOW_MASK, the addresses of a name stay although one of its addresses
\* is of an unsupported family.
AllOrNothing(r) ==
    r.errors > 0 /\ r.ranges # <<>> =>
        /\ "MASK" \notin last.before.allow
        /\ \E t \in DOMAIN last.resolver : Unsupported \in ToSet(last.resolver[t])

\* Each entry of a text either adds its ranges or is reported as an error:
\* none is lost in silence, and no part of one with an error is kept.
EntriesSettled ==
    Parsed => \A r \in EntryResults : NothingDropped(r) /\ AllOrNothing(r)

Bounds(r) == (IF r.hasFrom THEN {r.from} ELSE {}) \cup (IF r.hasTo THEN {r.to} ELSE {})

\* The port of the addresses a call returns is the one of the text, or
\* else the default one, the same in both bounds of a range; it is never
\* missing where it is required, and without a lookup never there where it
\* is not allowed.
PortPolicy ==
    Parsed =>
        \A r \in ToSet(last.result.ranges) : \A a, b \in Bounds(r) :
            /\ a.port = b.port
            /\ a.portDefined \/ a.port = LookupPort(last.before.port)
            /\ "REQUIRED_PORT" \in last.before.allow => a.portDefined
            /\ a.portDefined => \/ PortAllowed(last.before)
                                \/ "ADDRESS_LOOKUP" \in last.before.allow

\* The comment on "Port not allowed" says that without ALLOW_PORT "even
\* just a ':' is no allowed".
NoPortUnlessAllowed ==
    Parsed =>
        \A r \in ToSet(last.result.ranges) : \A a \in Bounds(r) :
            a.portDefined => PortAllowed(last.before)

\* An entry which has nothing of an IPv6: no bracket, no word of one, not
\* the default one, and no ':' unless it can be that of a port.
IsIpv4Entry(e) ==
    /\ ToSet(e) \cap ({"[", "]"} \cup V6Words) = {}
    /\ last.before.address6 = <<>>
    /\ Has(e, ":") => PortAllowed(last.before)

\* The mask an IPv4 address is given by such an entry, be it the address of a
\* name, keeps the bits above those of an IPv4, which set_mask_count() and the
\* unions of ranges require.
Ipv4MaskFits ==
    Parsed =>
        LET entries == TextEntries(last.before, last.text)
        IN  \A i \in DOMAIN entries : IsIpv4Entry(entries[i]) =>
                \A r \in ToSet(ParseCidr(last.before, last.resolver, entries[i]).ranges) :
                    r.hasFrom /\ IsIpv4(r.from) =>
                        PrefixMask(Bits - V4Bits) \subseteq r.from.mask

\* set_default_mask() documents the default mask of an IPv4 and the one of
\* an IPv6 as numbers: a text without a mask is given the one of its family.
DefaultMaskUsed ==
    Parsed /\ "MASK" \in last.before.allow /\ ~Has(last.text, "/") =>
        \A r \in ToSet(last.result.ranges) :
            (r.hasFrom /\ ~IsIpv4(r.from) /\ IsNumber(last.before.mask6)) =>
                r.from.mask = PrefixMask(NumberOf(last.before.mask6))

\* A validator refuses a value exactly when one of the entries of this value
\* has an error, wherever it is in the value: the values validated before
\* leave no error behind, and a good entry makes up for none.
VerdictFresh ==
    last.call = "validate" /\ ~last.result.threw =>
        (HasErrors(parser) <=> \E r \in EntryResults : r.errors > 0)

\* The protocols string_to_addr() comes to a single answer for; those
\* getaddrinfo() is not asked for leave one for each kind of socket.
SingleProtocols == {"none", "TCP", "UDP"}

\* However many answers the lookup gives, string_to_addr() has exactly one
\* for a text which is an address, unless it is asked for a protocol other
\* than TCP and UDP; what it returns, for a name as well, is for the protocol
\* it was asked for, or TCP, and has the default port when the text has none.
\* For another protocol it never returns: it throws whatever the text is.
SingleAddress ==
    last.call = "string_to_addr" =>
        LET r == last.ranges[1]
        IN  /\ last.text \in DOMAIN Literal =>
                    (Len(last.ranges) = 1 <=> last.protocol \in SingleProtocols)
            /\ Len(last.ranges) = 1 =>
                /\ last.protocol \in SingleProtocols
                /\ r.hasFrom /\ ~r.hasTo
                /\ r.from.protocol = (IF last.protocol = "none" THEN "TCP" ELSE last.protocol)
                /\ r.from.portDefined \/ r.from.port = LookupPort(last.port)

\* set_protocol() documents "ip" as a protocol to ask for, and string_to_addr()
\* its protocol as the one the address has to be of: an address has an answer.
AnyProtocolAnswered ==
    last.call = "string_to_addr" /\ last.text \in DOMAIN Literal =>
        Len(last.ranges) = 1

\* What to_ipv4or6_string() prints can be read again, mask included, when it
\* has an address, no name of a service and no asterisk; a mask printed as an
\* IPv6 needs its brackets.
Readable(a, mode) ==
    /\ ~ToStringThrows(a, mode)
    /\ Includes(mode, AddressModes)
    /\ mode \cap {"DEFAULT_AS_ASTERISK", "DEFAULT_AS_IPV4"} # {} => ~IsDefault(a)
    /\ "PORT_NAME" \in mode => Services[a.port] = ""
    /\ ~IsIpv4(a) /\ ShowsMask(a, mode) /\ ShownBits(a, mode) = -1 =>
        Includes(mode, {"BRACKET_ADDRESS", "BRACKET_MASK"} \cup PortModes)

\* A parser which takes every part of what is printed.
Reader == SetProtocol(Allow(NewParser, {"MASK", "ADDRESS_MASK"}), "TCP")

\* What the last call returned, whatever the protocols.
Returned ==
    {[a EXCEPT !.protocol = "TCP", !.portDefined = TRUE] :
        a \in UNION {Bounds(r) : r \in ToSet(last.result.ranges)}}

\* What was read is the address a, as much of it as the mode shows.
IsReadAs(result, a, mode) ==
    /\ result.errors = 0 /\ Len(result.ranges) = 1
    /\ LET r == result.ranges[1]
       IN  /\ r.hasFrom /\ ~r.hasTo
           /\ r.from.ip = a.ip
           /\ Includes(mode, PortModes) => r.from.port = a.port
           /\ Includes(mode, MaskModes) => r.from.mask = a.mask

\* The address which is printed is the one which is read again, with its port
\* and its mask when they were printed, whatever text it came from.
PrintedReadsBack ==
    Parsed =>
        \A a \in Returned, mode \in PrintModes :
            Readable(a, mode) =>
                IsReadAs(ParseText(Reader, last.resolver, ToIpv4or6String(a, mode)),
                         a, mode)

=============================================================================
