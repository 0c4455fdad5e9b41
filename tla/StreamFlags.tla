---------------------------- MODULE StreamFlags ----------------------------
(***************************************************************************)
(* What setaddrmode() and setaddrsep() promise: each stream has a mode and *)
(* a separator of its own, which only what is done to this stream changes, *)
(* and which addresses are printed with.                                   *)
(***************************************************************************)
CONSTANTS
    Streams,    \* the streams of the program
    Modes,      \* the modes setaddrmode() is given
    Seps,       \* the separators setaddrsep() is given
    Default     \* [mode |-> ..., sep |-> ...], those of a new stream

VARIABLES
    flags,      \* the mode and separator of each stream
    printed     \* what the last addresses were printed with

Init ==
    /\ flags = [s \in Streams |-> Default]
    /\ printed = Default

\* out << setaddrmode(mode)
SetMode(s, mode) ==
    /\ flags' = [flags EXCEPT ![s].mode = mode]
    /\ UNCHANGED printed

\* out << setaddrsep(sep)
SetSep(s, sep) ==
    /\ flags' = [flags EXCEPT ![s].sep = sep]
    /\ UNCHANGED printed

\* to.copyfmt(from)
CopyFmt(to, from) ==
    /\ flags' = [flags EXCEPT ![to] = flags[from]]
    /\ UNCHANGED printed

\* The stream is destroyed and another one created.
Renew(s) ==
    /\ flags' = [flags EXCEPT ![s] = Default]
    /\ UNCHANGED printed

\* s.swap(t)
Swap(s, t) ==
    /\ flags' = [flags EXCEPT ![s] = flags[t], ![t] = flags[s]]
    /\ UNCHANGED printed

\* out << addresses
PrintAddresses(s) ==
    /\ printed' = flags[s]
    /\ UNCHANGED flags

Next ==
    \/ \E s \in Streams, mode \in Modes : SetMode(s, mode)
    \/ \E s \in Streams, sep \in Seps : SetSep(s, sep)
    \/ \E to, from \in Streams : CopyFmt(to, from)
    \/ \E s \in Streams : Renew(s)
    \/ \E s, t \in Streams : Swap(s, t)
    \/ \E s \in Streams : PrintAddresses(s)

Spec == Init /\ [][Next]_<<flags, printed>>

=============================================================================
