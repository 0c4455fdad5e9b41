-------------------------- MODULE MCParserSession --------------------------
(***************************************************************************)
(* Addresses of 4 bits, the IPv4 ones are 8..11; ports up to 7.            *)
(***************************************************************************)
EXTENDS ParserSession

MCWords == <<"::", "6c", "6a", "6d", "6e", "6f", "6g", "6h",
             "0.0.0.0", "4a", "4b", "4c", "6b", "6i", "6j", "6k">>

\* The IPv4 addresses written as IPv6 ones.
MCMapped == <<"6v", "6w", "6x", "6y">>

MCLiteral ==
    [t \in {<<MCWords[k]>> : k \in DOMAIN MCWords} |->
        CHOOSE ip \in Ips : MCWords[ip + 1] = t[1]]
    @@ [t \in {<<MCMapped[k]>> : k \in DOMAIN MCMapped} |->
        CHOOSE ip \in FirstV4..LastV4 : MCMapped[ip - FirstV4 + 1] = t[1]]

MCDigits == <<"0", "1", "2", "3", "4", "5", "6", "7", "8", "9">>

MCNumber == [w \in {MCDigits[k] : k \in DOMAIN MCDigits} |->
    CHOOSE n \in 0..9 : MCDigits[n + 1] = w]

MCDottedWords == {"0.0.0.0", "4a", "4b", "4c"}
MCV6Words == ({MCWords[k] : k \in DOMAIN MCWords} \ MCDottedWords)
                 \cup {MCMapped[k] : k \in DOMAIN MCMapped}

MCTexts == {
    <<>>,
    <<"4a">>,
    <<"4a", ":", "5">>,
    <<"4a", ":", "9">>,                         \* not a port
    <<"6a">>,
    <<"[", "6a", "]", ":", "5">>,
    <<"[", "4a", "]", "/", "1">>,
    <<"db", "/", "1">>,
    <<"db", ":", "5", "/", "1">>,
    <<"mix">>,
    <<":", "5">>,
    <<":", "5", "/", "3">>,                     \* the mask makes it an IPv6
    <<"4b", "-", "4a", ":", "5">>,              \* an empty range
    <<"-", "4a", "/", "1">>,
    <<"4a", "/", "4b">>,
    <<"6a", "/", "[", "6f", "]">>,
    <<"6a", "/", "[", "6x", "]">>,              \* an IPv4 mapped mask
    <<"4a", ",", " ", "#", "6a", "\n", "6b">>,
    <<"4a", "/", "5", ",", "my", "-", "db">>    \* not a mask, a name
}

MCAddressTexts == {<<>>, <<"4b">>, <<"[", "6b", "]">>}
MCMaskTexts == {<<>>, <<"1">>, <<"3">>, <<"-", "3">>, <<"[", "6b", "]">>}
MCPortNumbers == {Unset, 5}

MCResolvers == {
    (<<"db">> :> <<9>>) @@ (<<"mix">> :> <<9, Unsupported>>),
    (<<"db">> :> <<9, 2>>) @@ (<<"my", "-", "db">> :> <<2>>)
}

MCServices == (0 :> "http") @@ (5 :> "")

MCPrintModes == {
    AllModes, AllModes \cup {"MASK_AS_ADDRESS"},
    {"ADDRESS", "MASK", "DEFAULT_AS_ASTERISK"},
    {"BRACKET_ADDRESS", "PORT_NAME", "MASK_IF_NEEDED", "DEFAULT_AS_IPV4"}
}

O(name, values) == [name |-> name, values |-> values]

MCOptions == {
    O("address", Yes),
    O("address", <<Word("no")>>),
    O("address", <<Word("required"), Word("commas"), Word("lookup")>>),
    O("address", <<Word("range"), Word("spaces"), Word("newlines")>>),
    O("comment", <<Word("hash")>>),
    O("comment", Yes),
    O("default", Yes),
    O("default", << <<"4a", ":", "5", "/", "1">>, <<"[", "6b", "]", "/", "3">> >>),
    O("mask", <<Word("address")>>),
    O("mask", Yes),
    O("port", <<Word("no")>>),
    O("port", <<Word("required")>>),
    O("other", Yes)
}

MCOptionLists == {<<>>} \cup MCOptions \X MCOptions

=============================================================================
