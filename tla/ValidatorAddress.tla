-------------------------- MODULE ValidatorAddress --------------------------
(***************************************************************************)
(* Class validator_address (libaddr/validator_address.cpp): the options of *)
(* a command line option configure the addr_parser of a validator, which   *)
(* then says whether a value parses without errors.                        *)
(*                                                                         *)
(* An option is its name and its values, which are texts as AddrParser has *)
(* them; "name" alone has the value "yes".  What is only logged is left    *)
(* out.                                                                    *)
(***************************************************************************)
EXTENDS AddrText

Word(w) == <<w>>
Yes == << Word("yes") >>

\* Whether one of the values is this word.
Says(values, w) == Word(w) \in ToSet(values)

\* Whether there is a single value, one of these words.
SaysOnly(values, words) == Len(values) = 1 /\ \E w \in words : Says(values, w)

-----------------------------------------------------------------------------
(* address, comment, mask and port                                         *)

AddressFlags == {
    "REQUIRED_ADDRESS", "MULTI_ADDRESSES_COMMAS", "MULTI_ADDRESSES_SPACES",
    "MULTI_ADDRESSES_NEWLINES", "ADDRESS_RANGE", "ADDRESS_LOOKUP"}

FlagOf(word) ==
    CASE word = Word("commas") -> {"MULTI_ADDRESSES_COMMAS"}
      [] word = Word("spaces") -> {"MULTI_ADDRESSES_SPACES"}
      [] word = Word("newlines") -> {"MULTI_ADDRESSES_NEWLINES"}
      [] word = Word("range") -> {"ADDRESS_RANGE"}
      [] word = Word("lookup") -> {"ADDRESS_LOOKUP"}
      [] word = Word("required") -> {"REQUIRED_ADDRESS"}
      [] OTHER -> {}

AddressOption(p, values) ==
    LET flags == UNION {FlagOf(v) : v \in ToSet(values)}
    IN  Allow(Disallow(p, AddressFlags), IF Says(values, "no") THEN {} ELSE flags)

CommentOption(p, values) ==
    LET hash == SaysOnly(values, {"yes", "all", "hash"})
        semicolon == SaysOnly(values, {"yes", "all", "semicolon"})
    IN  Allow(Disallow(p, {"COMMENT_HASH", "COMMENT_SEMICOLON"}),
              (IF hash THEN {"COMMENT_HASH"} ELSE {})
              \cup (IF semicolon THEN {"COMMENT_SEMICOLON"} ELSE {}))

\* A word which is neither is taken for "yes".
MaskOption(p, values) ==
    LET none == Len(values) # 1 \/ Says(values, "no")
    IN  Allow(Disallow(p, {"MASK", "ADDRESS_MASK"}),
              IF none THEN {}
              ELSE IF Says(values, "address") THEN {"MASK", "ADDRESS_MASK"}
              ELSE {"MASK"})

PortOption(p, values) ==
    LET none == Len(values) # 1 \/ Says(values, "no")
    IN  Allow(Disallow(p, {"PORT", "REQUIRED_PORT"}),
              IF none THEN {}
              ELSE IF Says(values, "required") THEN {"PORT", "REQUIRED_PORT"}
              ELSE {"PORT"})

-----------------------------------------------------------------------------
(* default                                                                 *)

\* The parser the constructor reads a default with.
DefaultParser == SetProtocol(Allow(NewParser, {"MASK"}), "TCP")

\* A default which is 0.0.0.0 or :: is none.
WithAddress(p, a) ==
    IF IsDefault(a) THEN p
    ELSE SetDefaultAddress(p, ToIpv4or6String(a, {"BRACKET_ADDRESS"}))

WithPort(p, a) == IF a.port = 0 THEN p ELSE SetDefaultPort(p, a.port)

\* The size of the mask is out of 128 for an IPv4 as well.
WithMask(p, a) ==
    LET size == Word(WordOf(GetMaskSize(a)))
    IN  IF GetMaskSize(a) \in {-1, Bits} THEN p
        ELSE SetDefaultMask(p, IF IsIpv4(a) THEN size ELSE <<"[">> \o size \o <<"]">>)

\* A default has to be a single address.
WithRanges(p, v) ==
    IF Len(v) = 1 /\ v[1].hasFrom /\ ~v[1].hasTo
    THEN WithMask(WithPort(WithAddress(p, v[1].from), v[1].from), v[1].from)
    ELSE p

WithDefault(p, resolver, text) ==
    WithRanges(p, ParseText(DefaultParser, resolver, text).ranges)

\* "default" alone clears the defaults; what convert_string() makes of the
\* empty port is EmptyPort, an exception when it is not a port.
ClearDefaults(p, emptyPort) ==
    SetDefaultMask(SetDefaultPort(SetDefaultAddress(p, <<>>), emptyPort), <<>>)

\* The parser after the first n of these values, for each n.
DefaultsUpTo(p, resolver, values) ==
    LET P[n \in 0..Len(values)] ==
            IF n = 0 THEN p ELSE WithDefault(P[n - 1], resolver, values[n])
    IN  P

DefaultOption(p, resolver, values, emptyPort) ==
    IF values = Yes THEN ClearDefaults(p, emptyPort)
    ELSE DefaultsUpTo(p, resolver, values)[Len(values)]

-----------------------------------------------------------------------------
(* The constructor and validate()                                          *)

Configure(p, resolver, option, emptyPort) ==
    CASE option.name = "address" -> AddressOption(p, option.values)
      [] option.name = "comment" -> CommentOption(p, option.values)
      [] option.name \in {"default", "defaults"} ->
            DefaultOption(p, resolver, option.values, emptyPort)
      [] option.name = "mask" -> MaskOption(p, option.values)
      [] option.name = "port" -> PortOption(p, option.values)
      [] OTHER -> p

\* The parser after the first n options, for each n.
ConfiguredUpTo(resolver, options, emptyPort) ==
    LET P[n \in 0..Len(options)] ==
            IF n = 0 THEN NewParser
            ELSE Configure(P[n - 1], resolver, options[n], emptyPort)
    IN  P

NewValidator(resolver, options, emptyPort) ==
    ConfiguredUpTo(resolver, options, emptyPort)[Len(options)]

\* The constructor throws when "default" clears a port which is not a number.
ConstructorThrows(options, emptyPort) ==
    /\ emptyPort \notin Unset..MaxPort
    /\ \E i \in DOMAIN options :
        options[i].name \in {"default", "defaults"} /\ options[i].values = Yes

\* Bug: the errors of the previous value are still there.
KeepsErrors(p) == p

\* The parser as validate() parses the value with it.
BeforeValidate(p) == ClearErrors(p)

=============================================================================
