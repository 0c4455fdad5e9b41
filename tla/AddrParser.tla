----------------------------- MODULE AddrParser -----------------------------
(***************************************************************************)
(* Class addr_parser (libaddr/addr_parser.cpp): its configuration as a     *)
(* record, its setters as operators which return the new record, and       *)
(* parse() from the text to the ranges, before they are sorted; sorting    *)
(* and merging them is ParserMerge.                                        *)
(*                                                                         *)
(* A text is a sequence of tokens: the punctuation the parser looks for,   *)
(* and words (addresses, names, numbers) which only getaddrinfo(),         *)
(* inet_pton() and the conversion to integers look into.  32 and 128 are   *)
(* V4Bits and Bits.  Error messages are counted and host names not kept.   *)
(***************************************************************************)
EXTENDS AddrRange, Lists

CONSTANTS
    Literal,            \* the IP of each text which is one, a function
    Number,             \* the value of each word which is a decimal number
    V6Words,            \* the words which have two ':' or more in them
    DottedWords,        \* the words which have a '.' in them
    MaxPort             \* 65535

\* Between the address and its port, before the mask, between the two
\* addresses of a range, around an IPv6, between entries, before a comment.
Punctuation == {":", "/", "-", "[", "]", ",", " ", "\n", "#", ";"}

\* The tokens are strings; an address and a number are each one word; what
\* is not written as an IPv6 is an IPv4.
ASSUME AddrParserAssumption ==
    /\ Punctuation \subseteq STRING
    /\ \A t \in DOMAIN Literal :
        /\ t \in Seq(STRING) /\ Len(t) = 1 /\ t[1] \notin Punctuation
        /\ Literal[t] \in Ips
        /\ t[1] \notin V6Words => Literal[t] \in FirstV4..LastV4
    /\ {<<"::">>, <<"0.0.0.0">>} \subseteq DOMAIN Literal
    /\ Literal[<<"::">>] \notin FirstV4..LastV4
    /\ \A w \in DOMAIN Number : w \in STRING \ Punctuation /\ Number[w] \in Nat
    /\ MaxPort \in Nat

\* allow_t, without the flags which nothing reads.
AllowFlags == {
    "REQUIRED_ADDRESS", "MULTI_ADDRESSES_COMMAS", "MULTI_ADDRESSES_SPACES",
    "MULTI_ADDRESSES_NEWLINES", "ADDRESS_LOOKUP", "ADDRESS_RANGE", "PORT",
    "REQUIRED_PORT", "MASK", "ADDRESS_MASK", "COMMENT_HASH",
    "COMMENT_SEMICOLON", "MULTI_PORTS_COMMAS"}

\* "other" is a protocol of /etc/protocols an addr does not support.
Protocols == {"none", "IP", "TCP", "UDP", "other"}

Unset == -1                 \* f_default_port when there is none
Unsupported == -1           \* an address which is neither IPv4 nor IPv6

-----------------------------------------------------------------------------
(* Texts                                                                   *)

Has(t, c) == c \in ToSet(t)

\* The place of the first of these tokens, 0 when there is none.
Find(t, tokens) == First({i \in DOMAIN t : t[i] \in tokens})

Until(t, i) == IF i = 0 THEN t ELSE SubSeq(t, 1, i - 1)
After(t, i) == IF i = 0 THEN <<>> ELSE SubSeq(t, i + 1, Len(t))

\* What comes before the first of these tokens, and after it.
UpTo(t, tokens) == Until(t, Find(t, tokens))
Past(t, tokens) == After(t, Find(t, tokens))

Blanks == {" ", "\n"}

Trim(t) ==
    LET kept == {i \in DOMAIN t : t[i] \notin Blanks}
    IN  IF kept = {} THEN <<>> ELSE SubSeq(t, Min(kept), Max(kept))

HasColon(t) == \E i \in DOMAIN t : t[i] = ":" \/ t[i] \in V6Words

\* Stands for two when there are more.
ColonCount(t) ==
    IF \E i \in DOMAIN t : t[i] \in V6Words THEN 2
    ELSE Cardinality({i \in DOMAIN t : t[i] = ":"})

IsNumber(t) == Len(t) = 1 /\ t[1] \in DOMAIN Number
NumberOf(t) == Number[t[1]]

-----------------------------------------------------------------------------
(* Configuration                                                           *)

NewParser ==
    [allow |-> {"ADDRESS_LOOKUP", "PORT"},
     noEmpty |-> FALSE,         \* SORT_NO_EMPTY in f_sort
     address4 |-> <<>>, address6 |-> <<>>,
     mask4 |-> <<>>, mask6 |-> <<>>,
     protocol |-> "none", port |-> Unset,
     errors |-> 0]              \* f_error_count, f_error is empty when 0

\* Bug: the other meaning of the comma stays.
NoCommaRival(flag) == {}

\* Only one meaning of the comma at a time.
CommaRival(flag) ==
    CASE flag = "MULTI_ADDRESSES_COMMAS" -> {"MULTI_PORTS_COMMAS"}
      [] flag = "MULTI_PORTS_COMMAS" -> {"MULTI_ADDRESSES_COMMAS"}
      [] OTHER -> {}

SetAllow(p, flag, on) ==
    IF on THEN [p EXCEPT !.allow = (@ \ CommaRival(flag)) \cup {flag}]
    ELSE [p EXCEPT !.allow = @ \ {flag}]

Allow(p, flags) == [p EXCEPT !.allow = @ \cup flags]
Disallow(p, flags) == [p EXCEPT !.allow = @ \ flags]

PortAllowed(p) == p.allow \cap {"PORT", "REQUIRED_PORT"} # {}

\* "[...]" without its brackets.
Unbracket(t) == SubSeq(t, 2, Len(t) - 1)

\* The setters throw when they do not accept what they are given.
AcceptsDefaultAddress(t) == t # <<>> /\ t[1] = "[" => Last(t) = "]"

SetDefaultAddress(p, t) ==
    IF t = <<>> THEN [p EXCEPT !.address4 = <<>>, !.address6 = <<>>]
    ELSE IF t[1] = "[" THEN [p EXCEPT !.address6 = Unbracket(t)]
    ELSE IF HasColon(t) THEN [p EXCEPT !.address6 = t]
    ELSE [p EXCEPT !.address4 = t]

AcceptsDefaultPort(n) == n \in Unset..MaxPort

SetDefaultPort(p, n) == [p EXCEPT !.port = n]

AcceptsDefaultMask(t) ==
    /\ t # <<>> => (t[1] = "[") = (Last(t) = "]")
    /\ IsNumber(t) => NumberOf(t) <= Bits
    /\ t # <<>> /\ t[1] = "-" /\ IsNumber(Tail(t)) => NumberOf(Tail(t)) = 0

SetDefaultMask(p, t) ==
    IF t = <<>> THEN [p EXCEPT !.mask4 = <<>>, !.mask6 = <<>>]
    ELSE IF t[1] = "[" THEN [p EXCEPT !.mask6 = Unbracket(t)]
    ELSE IF HasColon(t) \/ (IsNumber(t) /\ NumberOf(t) > V4Bits)
    THEN [p EXCEPT !.mask6 = t]
    ELSE [p EXCEPT !.mask4 = t]

SetProtocol(p, protocol) == [p EXCEPT !.protocol = protocol]
ClearProtocol(p) == [p EXCEPT !.protocol = "none"]

SetNoEmpty(p, on) == [p EXCEPT !.noEmpty = on]

HasErrors(p) == p.errors > 0
ClearErrors(p) == [p EXCEPT !.errors = 0]

-----------------------------------------------------------------------------
(* What parsing a text, or a part of one, adds to the result and to the    *)
(* errors, and whether it ends in an exception.                            *)

Nothing == [ranges |-> <<>>, errors |-> 0, threw |-> FALSE]
EmitError == [Nothing EXCEPT !.errors = 1]
PushBack(r) == [Nothing EXCEPT !.ranges = <<r>>]
Throw == [Nothing EXCEPT !.threw = TRUE]

\* b comes after a, unless a threw.
Then(a, b) ==
    IF a.threw THEN a
    ELSE [ranges |-> a.ranges \o b.ranges, errors |-> a.errors + b.errors,
          threw |-> b.threw]

\* What the first n of these add one after the other, for each n.
InTurnUpTo(results, count) ==
    LET R[n \in 0..count] ==
            IF n = 0 THEN Nothing ELSE Then(R[n - 1], results[n])
    IN  R

InTurn(results) == LET count == Len(results) IN InTurnUpTo(results, count)[count]

NewAddr(ip, port, given, protocol) ==
    [ip |-> ip, mask |-> PrefixMask(Bits), port |-> port,
     portDefined |-> given, protocol |-> protocol]

-----------------------------------------------------------------------------
(* One address and its port                                                *)

\* The kinds of sockets getaddrinfo() answers for.
SocketProtocols(protocol) ==
    IF protocol \in {"TCP", "UDP"} THEN <<protocol>> ELSE <<"TCP", "UDP", "IP">>

CanResolve(resolver, t) == t \in DOMAIN Literal \/ t \in DOMAIN resolver

\* The IPs getaddrinfo() finds; a name may also have Unsupported ones.
Resolve(resolver, t) ==
    IF t \in DOMAIN Literal THEN <<Literal[t]>> ELSE resolver[t]

\* getaddrinfo() keeps the 16 low bits of a port.
LookupPort(n) == IF n = Unset THEN 0 ELSE n % (MaxPort + 1)

\* What it answers for one of them.
Answers(ip, port, given, protocol) ==
    LET kinds == SocketProtocols(protocol)
        Answer(kind) == NewAddr(ip, LookupPort(port), given, kind)
    IN  IF ip = Unsupported THEN Nothing
        ELSE InTurn([k \in DOMAIN kinds |-> PushBack(SetFrom(NoRange, Answer(kinds[k])))])

ByLookup(p, resolver, t, port, given) ==
    LET ips == Resolve(resolver, t)
    IN  IF ~CanResolve(resolver, t) THEN EmitError
        ELSE Then(InTurn([k \in DOMAIN ips |-> Answers(ips[k], port, given, p.protocol)]),
                  IF Unsupported \in ToSet(ips) THEN EmitError ELSE Nothing)

\* Bug: a port is taken although none is allowed.
ByLiteralWithAnyPort(p, t, port, given) ==
    IF port > MaxPort \/ t \notin DOMAIN Literal THEN EmitError
    ELSE IF p.protocol = "other" THEN Throw
    ELSE PushBack(SetFrom(NoRange,
            NewAddr(Literal[t], IF port = Unset THEN 0 ELSE port, given,
                    IF p.protocol = "none" THEN "TCP" ELSE p.protocol)))

ByLiteral(p, t, port, given) ==
    IF \/ port > MaxPort
       \/ port # Unset /\ ~PortAllowed(p)
       \/ t \notin DOMAIN Literal
    THEN EmitError
    ELSE IF p.protocol = "other" THEN Throw
    ELSE PushBack(SetFrom(NoRange,
            NewAddr(Literal[t], IF port = Unset THEN 0 ELSE port, given,
                    IF p.protocol = "none" THEN "TCP" ELSE p.protocol)))

AddressOrDefault(p, t, ipv6) ==
    IF t # <<>> THEN t
    ELSE IF ipv6 THEN IF p.address6 = <<>> THEN <<"::">> ELSE p.address6
    ELSE IF p.address4 = <<>> THEN <<"0.0.0.0">> ELSE p.address4

ParseAddressPort(p, resolver, address, portText, ipv6) ==
    LET given == portText # <<>>
        port == IF given THEN NumberOf(portText) ELSE p.port
        t == AddressOrDefault(p, address, ipv6)
    IN  IF \/ ~given /\ "REQUIRED_PORT" \in p.allow
           \/ address = <<>> /\ "REQUIRED_ADDRESS" \in p.allow
           \/ given /\ ~IsNumber(portText)
        THEN EmitError
        ELSE IF "ADDRESS_LOOKUP" \in p.allow
        THEN ByLookup(p, resolver, t, port, given)
        ELSE ByLiteral(p, t, port, given)

-----------------------------------------------------------------------------
(* Two addresses, with the same port                                       *)

\* Only the "to" of a range; its "from" is the default address.
SwapFromTo(r) == [hasFrom |-> r.hasTo, hasTo |-> r.hasFrom,
                  from |-> r.to, to |-> r.from]

JoinBounds(p, from, to) ==
    LET r == SetTo(from, to.from)
    IN  IF p.noEmpty /\ IsEmpty(r) THEN Nothing ELSE PushBack(r)

\* Bug: a bound with several addresses is left out without an error.
FailedSilently(b) == [b EXCEPT !.ranges = <<>>]

\* Each bound has to be exactly one address; when it is none, parsing it
\* failed and said so.
FailedBound(b) ==
    [b EXCEPT !.ranges = <<>>, !.errors = IF b.ranges = <<>> THEN @ ELSE @ + 1]

\* What the two bounds of a range add; an empty text has no bound.
JoinTexts(p, from, to, f, s) ==
    IF from # <<>> /\ Len(f.ranges) # 1 THEN FailedBound(f)
    ELSE IF to # <<>> /\ Len(s.ranges) # 1
    THEN Then([f EXCEPT !.ranges = <<>>], FailedBound(s))
    ELSE IF to = <<>> THEN f
    ELSE IF from = <<>> THEN [s EXCEPT !.ranges = <<SwapFromTo(s.ranges[1])>>]
    ELSE Then([Nothing EXCEPT !.errors = f.errors + s.errors],
              JoinBounds(p, f.ranges[1], s.ranges[1]))

ParseAddressRangePort(p, resolver, addresses, port, ipv6) ==
    LET from == UpTo(addresses, {"-"})
        to == Past(addresses, {"-"})
        Parse(t) == ParseAddressPort(p, resolver, t, port, ipv6)
        Bound(t) == IF t = <<>> THEN Nothing ELSE Parse(t)
    IN  IF "ADDRESS_RANGE" \notin p.allow \/ ~Has(addresses, "-") THEN Parse(addresses)
        ELSE IF from = <<>> /\ to = <<>> THEN EmitError
        ELSE JoinTexts(p, from, to, Bound(from), Bound(to))

-----------------------------------------------------------------------------
(* The two syntaxes                                                        *)

ParseAddress4(p, resolver, t) ==
    IF PortAllowed(p) \/ ~Has(t, ":")
    THEN ParseAddressRangePort(p, resolver, UpTo(t, {":"}), Past(t, {":"}), FALSE)
    ELSE EmitError

\* The address and the port of "[...]:..." or "...:...".
Address6(t) ==
    IF t # <<>> /\ t[1] = "[" THEN After(UpTo(t, {"]"}), 1)
    ELSE IF ColonCount(t) = 1 THEN UpTo(t, {":"}) ELSE t
Port6(t) ==
    IF t # <<>> /\ t[1] = "[" THEN Past(Past(t, {"]"}), {":"})
    ELSE IF ColonCount(t) = 1 THEN Past(t, {":"}) ELSE <<>>

ParseAddress6(p, resolver, t) ==
    LET rest == Past(t, {"]"})
    IN  IF /\ t # <<>> /\ t[1] = "["
           /\ \/ ~Has(t, "]")
              \/ rest # <<>> /\ (rest[1] # ":" \/ ~PortAllowed(p))
        THEN EmitError
        ELSE ParseAddressRangePort(p, resolver, Address6(t), Port6(t), TRUE)

\* Which syntax parse_address() takes the text for.  1000 is the limit of
\* the number it reads from the mask.
UsesSyntax6(p, t, mask) ==
    IF ColonCount(t) >= 2 THEN TRUE
    ELSE IF t = <<>> \/ t[1] = ":"
    THEN IF mask = <<>> THEN p.address4 = <<>> /\ p.address6 # <<>>
         ELSE \/ mask[1] = "["
              \/ IsNumber(mask) /\ NumberOf(mask) \in (V4Bits + 1)..1000
    ELSE \/ t[1] = "[" \/ Has(t, "]")
         \/ /\ ~PortAllowed(p)
            /\ Has(t, ":")
            /\ ~\E i \in 1..Find(t, {":"}) : t[i] \in DottedWords

ParseAddress(p, resolver, t, mask) ==
    IF UsesSyntax6(p, t, mask) THEN ParseAddress6(p, resolver, t)
    ELSE ParseAddress4(p, resolver, t)

-----------------------------------------------------------------------------
(* Masks                                                                   *)

MaskRefused(p, mask, ipv4) ==
    LET m == IF ipv4 THEN mask ELSE Unbracket(mask)
    IN  IF mask = <<>> THEN FALSE
        ELSE IF IsNumber(mask)
        THEN NumberOf(mask) > (IF ipv4 THEN V4Bits ELSE Bits)
        ELSE \/ "ADDRESS_MASK" \notin p.allow
             \/ ipv4 = (mask[1] = "[")
             \/ ~ipv4 /\ Last(mask) # "]"
             \/ m # <<>> /\ m \notin DOMAIN Literal
             \/ m # <<>> /\ (m[1] \in V6Words) = ipv4

OnBits(ip) == {i \in 0..(Bits - 1) : BitOf(ip, i) = 1}

\* Bug: the number is out of 128 for an IPv4 as well.
MaskBitsOutOfAll(mask, ipv4) ==
    IF IsNumber(mask) THEN PrefixMask(NumberOf(mask))
    ELSE OnBits(Literal[IF ipv4 THEN mask ELSE Unbracket(mask)])

MaskBits(mask, ipv4) ==
    IF IsNumber(mask)
    THEN PrefixMask(NumberOf(mask) + IF ipv4 THEN Bits - V4Bits ELSE 0)
    ELSE IF ipv4 THEN OnBits(Literal[mask]) \cup PrefixMask(Bits - V4Bits)
    ELSE OnBits(Literal[Unbracket(mask)])

\* parse_mask() on a range; "[]" keeps the mask as it is.
ParseMask(p, mask, r, ipv4) ==
    IF MaskRefused(p, mask, ipv4) THEN EmitError
    ELSE IF mask \in {<<>>, <<"[", "]">>} THEN PushBack(r)
    ELSE PushBack([r EXCEPT !.from.mask = MaskBits(mask, ipv4)])

\* A default IPv6 mask which is a number is not used.
MaskOrDefault(p, mask, ipv4) ==
    IF mask # <<>> THEN mask
    ELSE IF ipv4 THEN p.mask4
    ELSE IF HasColon(p.mask6) THEN <<"[">> \o p.mask6 \o <<"]">>
    ELSE <<>>

-----------------------------------------------------------------------------
(* parse()                                                                 *)

\* The entry adds its ranges when none of its parts has an error.
KeepUnlessErrors(found, masked) ==
    [found EXCEPT !.errors = @ + masked.errors,
                  !.ranges = IF found.errors + masked.errors = 0 THEN masked.ranges
                             ELSE <<>>]

\* Each range is given the mask; ipv4 is the syntax of the text.
ParseMasks(p, mask, ranges, ipv4) ==
    LET m == MaskOrDefault(p, mask, ipv4)
    IN  InTurn([k \in DOMAIN ranges |->
                    ParseMask(p, m, ranges[k], ipv4 /\ IsIpv4(ranges[k].from))])

\* The entry when masks are allowed.
ParseCidrMask(p, resolver, address, mask) ==
    LET found == ParseAddress(p, resolver, address, mask)
        ipv4 == ~UsesSyntax6(p, address, mask)
    IN  KeepUnlessErrors(found, ParseMasks(p, mask, found.ranges, ipv4))

ParseCidr(p, resolver, text) ==
    LET t == Trim(text)
    IN  IF "MASK" \notin p.allow THEN ParseAddress(p, resolver, t, <<>>)
        ELSE ParseCidrMask(p, resolver, UpTo(t, {"/"}), Past(t, {"/"}))

Separators(p) ==
    {c \in {",", " ", "\n"} :
        \/ c = "," /\ "MULTI_ADDRESSES_COMMAS" \in p.allow
        \/ c = " " /\ "MULTI_ADDRESSES_SPACES" \in p.allow
        \/ c = "\n" /\ "MULTI_ADDRESSES_NEWLINES" \in p.allow}

CommentStarts(p) ==
    {c \in {"#", ";"} :
        \/ c = "#" /\ "COMMENT_HASH" \in p.allow
        \/ c = ";" /\ "COMMENT_SEMICOLON" \in p.allow}

\* The places of the separators, and the one past the end of t.
Cuts(t, separators) ==
    Selected([i \in 1..(Len(t) + 1) |-> i],
             {i \in DOMAIN t : t[i] \in separators} \cup {Len(t) + 1})

\* The parts of t between them.
Pieces(t, separators) ==
    LET cuts == Cuts(t, separators)
    IN  [i \in DOMAIN cuts |->
            SubSeq(t, IF i = 1 THEN 1 ELSE cuts[i - 1] + 1, cuts[i] - 1)]

\* The entries of a text: the parts which are not empty and not a comment,
\* up to the comment they end with.  A comment ends at the next separator,
\* whichever it is, and counts for nothing where nothing separates entries.
TextEntries(p, t) ==
    LET pieces == Pieces(t, Separators(p))
        kept == Selected(pieces, {i \in DOMAIN pieces :
                    pieces[i] # <<>> /\ pieces[i][1] \notin CommentStarts(p)})
    IN  IF Separators(p) = {} THEN <<t>>
        ELSE [i \in DOMAIN kept |-> UpTo(kept[i], CommentStarts(p))]

\* An exception takes what was parsed before with it.
Unwound(r) == IF r.threw THEN [r EXCEPT !.ranges = <<>>] ELSE r

ParseText(p, resolver, t) ==
    LET entries == TextEntries(p, t)
    IN  Unwound(InTurn([i \in DOMAIN entries |-> ParseCidr(p, resolver, entries[i])]))

\* The errors are added to those there already are.
AfterParse(p, result) == [p EXCEPT !.errors = @ + result.errors]

-----------------------------------------------------------------------------
(* string_to_addr(), which parses with a parser of its own                 *)

\* Bug: the answers for UDP and IP are not taken out.
KeepAnyProtocol(ranges, protocol) == ranges

\* Without a protocol, one answer for TCP is enough.
KeepTcp(ranges, protocol) ==
    IF protocol # "none" \/ Len(ranges) = 1 THEN ranges
    ELSE Selected(ranges, {k \in DOMAIN ranges :
            ~(ranges[k].hasFrom /\ ranges[k].from.protocol # "TCP")})

\* The ranges left, it returns the address when there is exactly one and
\* throws otherwise.
StringToAddr(resolver, t, default, port, protocol, mask) ==
    LET p == SetProtocol(SetDefaultPort(SetDefaultAddress(NewParser, default), port),
                         protocol)
    IN  KeepTcp(ParseText(SetAllow(p, "MASK", mask), resolver, t).ranges, protocol)

=============================================================================
