---------------------------- MODULE StreamInfo -----------------------------
(***************************************************************************)
(* The _ostream_info objects of libaddr/addr.h.  A stream has a pointer to *)
(* one in its pword() once a mode or a separator was sent to it, and a     *)
(* callback which the C++ library calls when the stream is destroyed and   *)
(* when copyfmt() replaces its pointer by the one of another stream.       *)
(*                                                                         *)
(* Memory does not run out: new does not throw.                            *)
(***************************************************************************)
EXTENDS Naturals, FiniteSets

CONSTANTS
    Streams, Modes, Seps, Default,      \* see StreamFlags
    Infos,      \* bound: the places on the heap for an _ostream_info
    NoInfo,     \* nullptr
    Freed       \* what a place on the heap holds when it is not allocated

Flags == [mode : Modes, sep : Seps]

ASSUME StreamInfoAssumption ==
    /\ Default \in Flags
    /\ NoInfo \notin Infos /\ IsFiniteSet(Infos)
    /\ Freed \notin Flags

VARIABLES
    pword,      \* the pointer of each stream, at index get_ostream_index()
    callbacks,  \* how many times the callback is registered with each stream
    heap,       \* the _ostream_info at each place
    printed     \* history: the flags the last addresses were printed with

vars == <<pword, callbacks, heap, printed>>

Init ==
    /\ pword = [s \in Streams |-> NoInfo]
    /\ callbacks = [s \in Streams |-> 0]
    /\ heap = [i \in Infos |-> Freed]
    /\ printed = Default

-----------------------------------------------------------------------------
(* The manipulators                                                        *)

\* The flags of a stream, or the default ones.
FlagsOf(s) == IF pword[s] = NoInfo THEN Default ELSE heap[pword[s]]

\* Bug: the callback is registered each time.
SetFlagsAndRegister(s, flags) ==
    /\ IF pword[s] = NoInfo
       THEN \E i \in Infos :
                /\ heap[i] = Freed
                /\ heap' = [heap EXCEPT ![i] = flags]
                /\ pword' = [pword EXCEPT ![s] = i]
       ELSE /\ heap' = [heap EXCEPT ![pword[s]] = flags]
            /\ UNCHANGED pword
    /\ callbacks' = [callbacks EXCEPT ![s] = @ + 1]
    /\ UNCHANGED printed

\* The info of the stream becomes flags; it is created first when the stream
\* has none yet.
SetFlags(s, flags) ==
    /\ IF pword[s] = NoInfo
       THEN \E i \in Infos :
                /\ heap[i] = Freed
                /\ heap' = [heap EXCEPT ![i] = flags]
                /\ pword' = [pword EXCEPT ![s] = i]
                /\ callbacks' = [callbacks EXCEPT ![s] = @ + 1]
       ELSE /\ heap' = [heap EXCEPT ![pword[s]] = flags]
            /\ UNCHANGED <<pword, callbacks>>
    /\ UNCHANGED printed

\* out << setaddrmode(mode)
SetMode(s, mode) == SetFlags(s, [FlagsOf(s) EXCEPT !.mode = mode])

\* out << setaddrsep(sep)
SetSep(s, sep) == SetFlags(s, [FlagsOf(s) EXCEPT !.sep = sep])

-----------------------------------------------------------------------------
(* The callback                                                            *)

\* Bug: nothing is deleted.
EraseNothing(s) == heap

\* erase_event: the heap after all of the callbacks of s; only the first one
\* finds a pointer.
EraseEvent(s) ==
    IF callbacks[s] = 0 \/ pword[s] = NoInfo THEN heap
    ELSE [heap EXCEPT ![pword[s]] = Freed]

\* Bug: the info is not duplicated.
KeepInfo(s, info, times, h) ==
    /\ pword' = [pword EXCEPT ![s] = info]
    /\ heap' = h

\* copyfmt_event, as many times as the callback is registered with s, whose
\* pointer is info: each one duplicates the info and the last one stays.
CopyfmtEvent(s, info, times, h) ==
    IF info = NoInfo \/ times = 0
    THEN /\ pword' = [pword EXCEPT ![s] = info]
         /\ heap' = h
    ELSE \E copies \in SUBSET {i \in Infos : h[i] = Freed} :
            /\ Cardinality(copies) = times
            /\ \E last \in copies : pword' = [pword EXCEPT ![s] = last]
            /\ heap' = [i \in Infos |-> IF i \in copies THEN h[info] ELSE h[i]]

-----------------------------------------------------------------------------
(* The stream                                                              *)

\* to.copyfmt(from): erase_event, then the callbacks and the pointer of from
\* are copied, then copyfmt_event.
CopyFmt(to, from) ==
    /\ to # from
    /\ callbacks' = [callbacks EXCEPT ![to] = callbacks[from]]
    /\ CopyfmtEvent(to, pword[from], callbacks[from], EraseEvent(to))
    /\ UNCHANGED printed

\* The stream is destroyed and another one created.
Renew(s) ==
    /\ heap' = EraseEvent(s)
    /\ pword' = [pword EXCEPT ![s] = NoInfo]
    /\ callbacks' = [callbacks EXCEPT ![s] = 0]
    /\ UNCHANGED printed

\* s.swap(t), or a stream moved to another one.
Swap(s, t) ==
    /\ pword' = [pword EXCEPT ![s] = pword[t], ![t] = pword[s]]
    /\ callbacks' = [callbacks EXCEPT ![s] = callbacks[t], ![t] = callbacks[s]]
    /\ UNCHANGED <<heap, printed>>

\* out << addresses: the separator is read once, the mode for each address.
PrintAddresses(s) ==
    /\ printed' = FlagsOf(s)
    /\ UNCHANGED <<pword, callbacks, heap>>

Next ==
    \/ \E s \in Streams, mode \in Modes : SetMode(s, mode)
    \/ \E s \in Streams, sep \in Seps : SetSep(s, sep)
    \/ \E to, from \in Streams : CopyFmt(to, from)
    \/ \E s \in Streams : Renew(s)
    \/ \E s, t \in Streams : Swap(s, t)
    \/ \E s \in Streams : PrintAddresses(s)

Spec == Init /\ [][Next]_vars

-----------------------------------------------------------------------------
(* Properties                                                              *)

TypeOK ==
    /\ pword \in [Streams -> Infos \cup {NoInfo}]
    /\ callbacks \in [Streams -> {0, 1}]
    /\ heap \in [Infos -> Flags \cup {Freed}]
    /\ printed \in Flags

\* No stream uses an info which was deleted.
NoDangling == \A s \in Streams : pword[s] # NoInfo => heap[pword[s]] # Freed

\* No two streams use the same info, which both of them would delete.
NoSharing ==
    \A s, t \in Streams : pword[s] = pword[t] /\ pword[s] # NoInfo => s = t

\* Every info will be deleted: a stream has it, and the callback with it.
NoLeak ==
    /\ \A i \in Infos : heap[i] # Freed => \E s \in Streams : pword[s] = i
    /\ \A s \in Streams : pword[s] # NoInfo <=> callbacks[s] = 1

\* Each info which is allocated is owned by exactly one stream, which has the
\* callback that deletes it, whatever was copied, swapped or destroyed.
OwnedOnce == NoDangling /\ NoSharing /\ NoLeak

Abstract == INSTANCE StreamFlags WITH flags <- [s \in Streams |-> FlagsOf(s)]

\* A stream behaves as if it had its own flags: what is sent to one changes
\* what no other one prints, before and after a copyfmt().
ImplementsStreamFlags == Abstract!Spec

=============================================================================
