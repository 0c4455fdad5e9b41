---------------------------- MODULE UnixAddress ----------------------------
(***************************************************************************)
(* Class addr_unix (libaddr/addr_unix.cpp): one address which a program    *)
(* sets to a file, an abstract name or nothing, from a path, a URI, a      *)
(* sockaddr_un or a socket of the kernel, and deletes the file of.         *)
(*                                                                         *)
(* sun_path is modelled byte by byte, as comparing two addresses compares  *)
(* all of its bytes; it has PathSize of them, 108 in the code.  A word     *)
(* such as "abstract" counts for one byte.  The bytes a name may have are  *)
(* those which make a difference: "/", "?", controls and all the others.   *)
(***************************************************************************)
EXTENDS Integers, SequencesExt

CONSTANTS
    PathSize,           \* the size of sun_path
    Bytes,              \* what names are made of, besides the final 0
    Controls,           \* the bytes which no name may have
    Schemes,            \* what set_scheme() is called with
    LetterSchemes,      \* the schemes made of letters only
    Paths,              \* what set_file() and set_abstract() are called with
    Structures,         \* the sun_path of what set_un() is called with
    KernelNames,        \* the names of sockets which others have bound
    MaxFiles            \* bound: socket files which exist at the same time

NUL == "0"
Buffers == [1..PathSize -> Bytes \cup {NUL}]

ASSUME UnixAddressAssumption ==
    /\ PathSize \in Nat /\ PathSize > 2 /\ MaxFiles \in Nat
    /\ NUL \notin Bytes /\ Controls \subseteq Bytes
    /\ {"/", "?", "unnamed", "file", "abstract"} \subseteq Bytes
    /\ "unix" \in LetterSchemes /\ LetterSchemes \subseteq Schemes
    /\ Paths \subseteq Seq(Bytes) /\ Structures \subseteq Buffers
    /\ \A name \in KernelNames :
        name \in Seq(Bytes \cup {NUL}) /\ Len(name) <= PathSize

VARIABLES
    un,         \* f_address.sun_path
    scheme,     \* f_scheme, "" stands for "unix"
    mode,       \* f_mode, "default" or changed
    group,      \* f_group
    files,      \* the socket files which exist
    socket,     \* the name the kernel has for a socket of the program
    bound,      \* history: un when the program bound the socket, or <<>>
    threw       \* history: whether the last call threw

vars == <<un, scheme, mode, group, files, socket, bound, threw>>

-----------------------------------------------------------------------------
(* Names                                                                   *)

Zeroes == [i \in 1..PathSize |-> NUL]

\* The C string which starts at byte i of a buffer.
CString(b, i) ==
    LET ends == {k \in i..PathSize : b[k] = NUL}
    IN  SubSeq(b, i, IF ends = {} THEN PathSize ELSE Min(ends) - 1)

IsFile(b) == b[1] # NUL
IsAbstract(b) == b[1] = NUL /\ b[2] # NUL
IsUnnamed(b) == b[1] = NUL /\ b[2] = NUL

\* to_string()
Name(b) == CString(b, IF IsAbstract(b) THEN 2 ELSE 1)

\* Every byte of a segment is kept, and one "/" between two of them.
IsKept(path, i) ==
    \/ path[i] # "/"
    \/ i > 1 /\ path[i - 1] # "/" /\ \E k \in i..Len(path) : path[k] # "/"

\* What is kept of the first bytes of path, of none to all.
SqueezedUpTo(path) ==
    LET kept[n \in 0..Len(path)] ==
            IF n = 0 THEN <<>>
            ELSE IF IsKept(path, n) THEN Append(kept[n - 1], path[n]) ELSE kept[n - 1]
    IN  kept

Squeezed(path) == SqueezedUpTo(path)[Len(path)]

\* The segments which are not empty, after a "/" when the path has one.
Canonical(path) == (IF path[1] = "/" THEN <<"/">> ELSE <<>>) \o Squeezed(path)

\* Bug: the terminating NUL is not counted.
VerifiesWithoutNul(path, abstract) ==
    /\ path # <<>>
    /\ Len(Canonical(path)) <= (IF abstract THEN PathSize - 1 ELSE PathSize)
    /\ ToSet(path) \cap Controls = {}
    /\ Canonical(path) # <<"/">>

\* Whether verify_path() returns; it throws otherwise.
Verifies(path, abstract) ==
    /\ path # <<>>
    /\ Len(Canonical(path)) < (IF abstract THEN PathSize - 1 ELSE PathSize)
    /\ ToSet(path) \cap Controls = {}
    /\ Canonical(path) # <<"/">>

\* b with s written from byte i on.
Write(b, i, s) == [k \in 1..PathSize |->
    IF k \in i..(i + Len(s) - 1) THEN s[k - i + 1] ELSE b[k]]

\* b with all of its bytes from i on turned to NUL.
ClearFrom(b, i) == [k \in 1..PathSize |-> IF k >= i THEN NUL ELSE b[k]]

FileBuffer(b, path) ==
    ClearFrom(Write(b, 1, Canonical(path)), Len(Canonical(path)) + 1)

\* Bug: memcpy() instead of strncpy(), which also clears what follows.
AbstractBufferCopied(b, path) ==
    ClearFrom(Write(Write(b, 1, <<NUL>>), 2, Canonical(path)),
              Len(Canonical(path)) + 3)

AbstractBuffer(b, path) ==
    ClearFrom(Write(ClearFrom(Write(b, 1, <<NUL>>), 2), 2, Canonical(path)),
              Len(Canonical(path)) + 3)

-----------------------------------------------------------------------------
(* The object after a call, and whether it threw                           *)

Object == [un |-> un, scheme |-> scheme, threw |-> FALSE]
NewObject == [un |-> Zeroes, scheme |-> "", threw |-> FALSE]
Throws(o) == [un |-> o.un, scheme |-> o.scheme, threw |-> TRUE]
Holds(o, b) == [un |-> b, scheme |-> o.scheme, threw |-> FALSE]

SetScheme(o, s) ==
    [un |-> o.un, scheme |-> IF s = "unix" THEN "" ELSE s, threw |-> FALSE]

MakeUnnamed(o) == Holds(o, Zeroes)

SetFile(o, path) ==
    IF Verifies(path, FALSE) THEN Holds(o, FileBuffer(o.un, path)) ELSE Throws(o)

SetAbstract(o, path) ==
    IF Verifies(path, TRUE) THEN Holds(o, AbstractBuffer(o.un, path)) ELSE Throws(o)

SetUn(o, b) ==
    IF IsFile(b)
    THEN IF \A i \in 1..PathSize : b[i] # NUL THEN Throws(o)
         ELSE SetFile(o, CString(b, 1))
    ELSE IF IsAbstract(b)
    THEN IF \A i \in 2..PathSize : b[i] # NUL THEN Throws(o)
         ELSE SetAbstract(o, CString(b, 2))
    ELSE MakeUnnamed(o)

\* The path of a URI as the query says what it is.
SetUriPath(o, path, query) ==
    CASE query = <<>> -> IF path = <<>> THEN MakeUnnamed(o) ELSE SetFile(o, path)
      [] query = <<"unnamed">> -> IF path = <<>> THEN MakeUnnamed(o) ELSE Throws(o)
      [] query = <<"file">> -> SetFile(o, path)
      [] query = <<"abstract">> -> SetAbstract(o, path)
      [] OTHER -> Throws(o)

\* The query of a URI is after its first "?"; an empty one counts for nothing.
Mark(rest) == SelectInSeq(rest \o <<"?">>, LAMBDA c : c = "?")
PathOf(rest) == SubSeq(rest, 1, Mark(rest) - 1)
QueryOf(rest) == SubSeq(rest, Mark(rest) + 1, Len(rest))

\* Bug: the scheme is set before what may throw.
SetUriSchemeFirst(o, uri) ==
    IF uri.scheme \notin LetterSchemes THEN Throws(o)
    ELSE SetUriPath(SetScheme(o, uri.scheme), PathOf(uri.rest), QueryOf(uri.rest))

SchemeUnlessThrew(set, s) == IF set.threw THEN set ELSE SetScheme(set, s)

\* Only letters pass the check of the scheme.
SetUri(o, uri) ==
    IF uri.scheme \notin LetterSchemes THEN Throws(o)
    ELSE SchemeUnlessThrew(SetUriPath(o, PathOf(uri.rest), QueryOf(uri.rest)),
                           uri.scheme)

GetScheme(o) == IF o.scheme = "" THEN "unix" ELSE o.scheme

\* A URI is its scheme and what follows the ":".
ToUri(o) ==
    LET path == Name(o.un)
    IN  [scheme |-> GetScheme(o),
         rest |-> IF IsUnnamed(o.un) THEN <<>>
                  ELSE (IF path[1] = "/" THEN <<"/", "/">> ELSE <<>>) \o path
                       \o (IF IsAbstract(o.un) THEN <<"?", "abstract">> ELSE <<>>)]

\* Bug: what getsockname() did not fill is left as it was on the stack.
ReceivedOnStack(name, stack) ==
    [i \in 1..PathSize |-> IF i <= Len(name) THEN name[i] ELSE stack]

\* The sockaddr_un of set_from_socket(), of which getsockname() fills the
\* first bytes; the others are cleared.
Received(name, stack) ==
    [i \in 1..PathSize |-> IF i <= Len(name) THEN name[i] ELSE NUL]

-----------------------------------------------------------------------------
(* The program                                                             *)

Becomes(o) ==
    /\ un' = o.un
    /\ scheme' = o.scheme
    /\ threw' = o.threw
    /\ UNCHANGED <<mode, group, files, socket, bound>>

Init ==
    /\ un = Zeroes
    /\ scheme = ""
    /\ mode = "default"
    /\ group = ""
    /\ files = {}
    /\ socket = <<>>
    /\ bound = <<>>
    /\ threw = FALSE

\* A new object takes the place of the old one, from a path or a structure.
Construct(path, abstract) ==
    LET set == IF abstract THEN SetAbstract(NewObject, path)
               ELSE IF path = <<>> THEN NewObject ELSE SetFile(NewObject, path)
    IN  /\ ~set.threw
        /\ un' = set.un /\ scheme' = ""
        /\ mode' = "default" /\ group' = ""
        /\ threw' = FALSE
        /\ UNCHANGED <<files, socket, bound>>

CallSetScheme(s) == Becomes(SetScheme(Object, s))
CallMakeUnnamed == Becomes(MakeUnnamed(Object))
CallSetFile(path) == Becomes(SetFile(Object, path))
CallSetAbstract(path) == Becomes(SetAbstract(Object, path))
CallSetUn(b) == Becomes(SetUn(Object, b))

CallSetUri(s, path, query) ==
    Becomes(SetUri(Object, [scheme |-> s, rest |-> path \o query]))

SetModeAndGroup ==
    /\ mode' = "changed" /\ group' = "changed"
    /\ UNCHANGED <<un, scheme, files, socket, bound, threw>>

\* set_from_socket() on the program's own socket.
SetFromSocket(stack) ==
    Becomes(SetUn(Object, Received(socket, stack)))

\* bind() with the whole of the structure; it fails when the file exists.
Bind ==
    /\ IF IsFile(un)
       THEN /\ Name(un) \notin files /\ Cardinality(files) < MaxFiles
            /\ files' = files \cup {Name(un)}
            /\ socket' = Append(Name(un), NUL)
       ELSE /\ socket' = un
            /\ UNCHANGED files
    /\ bound' = un
    /\ threw' = FALSE
    /\ UNCHANGED <<un, scheme, mode, group>>

\* The program is given a socket which was bound by another one.
Inherit(name) ==
    /\ socket' = name
    /\ bound' = <<>>
    /\ threw' = FALSE
    /\ UNCHANGED <<un, scheme, mode, group, files>>

\* Bug: an abstract name is taken for the name of a file.
UnlinkAnyName ==
    /\ files' = files \ {Name(un)}
    /\ threw' = FALSE
    /\ UNCHANGED <<un, scheme, mode, group, socket, bound>>

Unlink ==
    /\ files' = IF IsFile(un) THEN files \ {CString(un, 1)} ELSE files
    /\ threw' = FALSE
    /\ UNCHANGED <<un, scheme, mode, group, socket, bound>>

Queries == {<<>>, <<"?">>, <<"?", "unnamed">>, <<"?", "file">>,
            <<"?", "abstract">>, <<"?", "file", "?">>}

Next ==
    \/ \E path \in Paths, abstract \in BOOLEAN : Construct(path, abstract)
    \/ \E s \in Schemes : CallSetScheme(s)
    \/ CallMakeUnnamed
    \/ \E path \in Paths : CallSetFile(path) \/ CallSetAbstract(path)
    \/ \E b \in Structures : CallSetUn(b)
    \/ \E s \in Schemes, path \in Paths, query \in Queries : CallSetUri(s, path, query)
    \/ SetModeAndGroup
    \/ \E stack \in Bytes \cup {NUL} : SetFromSocket(stack)
    \/ Bind
    \/ \E name \in KernelNames : Inherit(name)
    \/ Unlink

Spec == Init /\ [][Next]_vars

-----------------------------------------------------------------------------
(* Properties                                                              *)

\* to_string(), to_uri() and unlink() read sun_path up to a NUL.
Terminated == \E i \in 1..PathSize : un[i] = NUL /\ i > Len(Name(un))

TypeOK ==
    /\ un \in Buffers /\ Terminated
    /\ scheme \in Schemes \cup {""}
    /\ mode \in {"default", "changed"} /\ group \in {"", "changed"}
    /\ files \subseteq Seq(Bytes)
    /\ socket \in Seq(Bytes \cup {NUL})
    /\ bound \in Buffers \cup {<<>>}
    /\ threw \in BOOLEAN

\* Whatever the address was before, setting it to a name gives the bytes a
\* new object has with this name: comparing two addresses compares all of
\* their bytes.
NoStaleBytes ==
    \A path \in Paths :
        /\ Verifies(path, FALSE) =>
                SetFile(Object, path).un = SetFile(NewObject, path).un
        /\ Verifies(path, TRUE) =>
                SetAbstract(Object, path).un = SetAbstract(NewObject, path).un

\* A call which throws leaves the object as it was, set_uri() included.
ThrowsWithoutChange == [][threw' => UNCHANGED <<un, scheme>>]_vars

\* The URI of an address without a "?" in its name nor a scheme set_uri()
\* refuses is the URI of this same address.
UriRoundTrip ==
    GetScheme(Object) \in LetterSchemes /\ "?" \notin ToSet(Name(un)) =>
        SetUri(NewObject, ToUri(Object)) = Object

\* set_uri() documents the schemes it supports as "[a-zA-Z][-+.a-zA-Z0-9]*",
\* so that the URI of an address which has one can be read again.
SchemesSupported ==
    "?" \notin ToSet(Name(un)) =>
        ~SetUri(NewObject, ToUri(Object)).threw

\* The address of a socket which the program bound is the address it was
\* bound to; that of another socket depends on its name only.  What is on
\* the stack of set_from_socket() makes no difference.
SocketRoundTrip ==
    LET read(stack) == SetUn(Object, Received(socket, stack))
    IN  \A stack \in Bytes \cup {NUL} :
            read(stack) = IF bound # <<>> THEN [Object EXCEPT !.un = bound]
                          ELSE read(NUL)

\* An address comes back from its URI, and from a socket bound to it.
RoundTrips == UriRoundTrip /\ SocketRoundTrip

\* unlink() deletes the file of this address, and no file when the address
\* is abstract or unnamed even though a file has the same name.
UnlinksOwnFile ==
    [][\A f \in files \ files' : IsFile(un) /\ f = Name(un)]_vars

=============================================================================
