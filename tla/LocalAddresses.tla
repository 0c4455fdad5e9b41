--------------------------- MODULE LocalAddresses ---------------------------
(***************************************************************************)
(* What iface::get_local_addresses() promises, without its mutex, its      *)
(* placeholder and its two critical sections.  A call answers either       *)
(*   - the list kept by an earlier call, until that list expires,          *)
(*   - a list which was the kernel's own at some instant of this very      *)
(*     call, which is kept for the calls to come, or                       *)
(*   - nothing (a null pointer), when the kernel cannot be read.           *)
(* A list is identified by the version of the kernel's configuration it    *)
(* was read from.  IfaceCache is shown to implement this module.           *)
(***************************************************************************)
EXTENDS Integers

CONSTANTS
    Threads,      \* threads of the process
    Null,         \* the null pointer; also "not in a call"
    Ttls,         \* durations given to set_local_addresses_cache_ttl()
    InitialTtl    \* g_cache_ttl before any call

VARIABLES
    net,      \* version of the kernel's list of interfaces
    now,      \* time(nullptr)
    ttl,      \* how long a list which gets kept will be served
    kept,     \* the list being kept, or Null
    until,    \* last second at which the kept list may be served
    call,     \* call[t]: version of the kernel at the time t called, or Null
    answer    \* answer[t]: what the last call of t returned

vars == <<net, now, ttl, kept, until, call, answer>>

Init ==
    /\ net = 0
    /\ now = 1
    /\ ttl = InitialTtl
    /\ kept = Null
    /\ until = 0
    /\ call = [t \in Threads |-> Null]
    /\ answer = [t \in Threads |-> Null]

Call(t) ==
    /\ call[t] = Null
    /\ call' = [call EXCEPT ![t] = net]
    /\ UNCHANGED <<net, now, ttl, kept, until, answer>>

\* The return of t's call, with list v.
Return(t, v) ==
    /\ call[t] # Null
    /\ call' = [call EXCEPT ![t] = Null]
    /\ answer' = [answer EXCEPT ![t] = v]
    /\ UNCHANGED <<net, now, ttl>>

AnswerKept(t) ==
    /\ kept # Null
    /\ now <= until
    /\ Return(t, kept)
    /\ UNCHANGED <<kept, until>>

AnswerFresh(t) ==
    \E v \in call[t] .. net :
        /\ Return(t, v)
        /\ kept' = v
        /\ until' = now + ttl

AnswerNothing(t) ==
    /\ Return(t, Null)
    /\ UNCHANGED <<kept, until>>

\* Only an expired list is ever forgotten, short of a reset.
Forget ==
    /\ kept # Null
    /\ until < now
    /\ kept' = Null
    /\ until' = 0
    /\ UNCHANGED <<net, now, ttl, call, answer>>

Reset(t) ==
    /\ call[t] = Null
    /\ kept' = Null
    /\ until' = 0
    /\ answer' = [answer EXCEPT ![t] = Null]
    /\ UNCHANGED <<net, now, ttl, call>>

SetTtl ==
    /\ ttl' \in Ttls
    /\ UNCHANGED <<net, now, kept, until, call, answer>>

Tick ==
    /\ now' \in Nat
    /\ now' > now
    /\ UNCHANGED <<net, ttl, kept, until, call, answer>>

KernelChange ==
    /\ net' = net + 1
    /\ UNCHANGED <<now, ttl, kept, until, call, answer>>

Next ==
    \/ \E t \in Threads :
        \/ Call(t)
        \/ AnswerKept(t)
        \/ call[t] # Null /\ AnswerFresh(t)
        \/ AnswerNothing(t)
        \/ Reset(t)
    \/ Forget
    \/ SetTtl
    \/ Tick
    \/ KernelChange

Spec == Init /\ [][Next]_vars

=============================================================================
