----------------------------- MODULE IfaceCache -----------------------------
(***************************************************************************)
(* The process wide cache of the local addresses (libaddr/iface.cpp):      *)
(* get_local_addresses(), reset_local_addresses_cache() and                *)
(* set_local_addresses_cache_ttl(), called by any number of threads.       *)
(*                                                                         *)
(* get_local_addresses() takes g_system_mutex twice.  Under the first lock *)
(* it answers from the cache or installs a new, still empty vector, the    *)
(* Placeholder.  It then reads the interfaces from the kernel without the  *)
(* lock, and publishes what it read under the second lock.                 *)
(*                                                                         *)
(* A list of interfaces is the version of the kernel's configuration it    *)
(* was read from.  The kernel and the clock are the environment.           *)
(***************************************************************************)
EXTENDS Integers

CONSTANTS
    Threads,            \* threads of the process
    NoThread,           \* owner of the mutex while it is free
    Null,               \* a null pointer_vector_t
    Placeholder,        \* the empty vector made by a call which missed
    Ttls,               \* durations given to set_local_addresses_cache_ttl()
    InitialTtl,         \* initial value of g_cache_ttl
    ClockCanStepBack,   \* whether time(nullptr) may go back
    MaxNow,             \* bound on the clock
    MaxNet              \* bound on the number of configuration changes

ASSUME IfaceCacheAssumption ==
    /\ NoThread \notin Threads
    /\ Null \notin Nat
    /\ Placeholder \notin Nat
    /\ Null # Placeholder
    /\ Ttls \subseteq Nat
    /\ InitialTtl \in Nat
    /\ ClockCanStepBack \in BOOLEAN
    /\ MaxNow \in Nat \ {0}
    /\ MaxNet \in Nat

VARIABLES
    net,        \* version of the kernel's list of interfaces
    now,        \* time(nullptr)
    ttl,        \* g_cache_ttl
    timeout,    \* g_cache_timeout
    iface,      \* g_cache_iface
    lock,       \* owner of *cppthread::g_system_mutex
    pc,         \* pc[t]: where t is in the function it is calling
    snapshot,   \* snapshot[t]: iface_list, what t read with getifaddrs()
    answer,     \* answer[t]: what t's last get_local_addresses() returned
    (* History, read by the properties only. *)
    since,      \* since[t]: net at the time t called get_local_addresses()
    resetNet,   \* resetNet[t]: net at the time of t's last reset
    overtaken,  \* overtaken[t]: a reset ran since t's call missed
    lateList    \* whether the call which published iface was overtaken

cacheVars == <<ttl, timeout, iface>>
history == <<since, resetNet, overtaken, lateList>>
vars == <<net, now, ttl, timeout, iface, lock, pc, snapshot, answer, history>>

Version == Nat

\* From "wait_..." the thread waits for the mutex; it owns it one step on.
AfterLock(p) ==
    CASE p = "wait_check"   -> "check"
      [] p = "wait_publish" -> "publish"
      [] p = "wait_reset"   -> "reset"

Waiting == {"wait_check", "wait_publish", "wait_reset"}
Locked == {"check", "hit", "publish", "swap", "reset", "drop"}
GetSteps == {"wait_check", "check", "hit", "fetch",
             "wait_publish", "publish", "swap"}
Steps == {"idle", "set_ttl"} \cup Waiting \cup Locked \cup GetSteps

Init ==
    /\ net = 0
    /\ now = 1
    /\ ttl = InitialTtl
    /\ timeout = 0
    /\ iface = Null
    /\ lock = NoThread
    /\ pc = [t \in Threads |-> "idle"]
    /\ snapshot = [t \in Threads |-> Null]
    /\ answer = [t \in Threads |-> Null]
    /\ since = [t \in Threads |-> 0]
    /\ resetNet = [t \in Threads |-> 0]
    /\ overtaken = [t \in Threads |-> FALSE]
    /\ lateList = FALSE

Goto(t, p) == pc' = [pc EXCEPT ![t] = p]

-----------------------------------------------------------------------------
(* cppthread::guard: the constructor locks, the end of the scope unlocks.  *)

Acquire(t) ==
    /\ pc[t] \in Waiting
    /\ lock = NoThread
    /\ lock' = t
    /\ Goto(t, AfterLock(pc[t]))
    /\ UNCHANGED <<net, now, cacheVars, snapshot, answer, history>>

-----------------------------------------------------------------------------
(* get_local_addresses()                                                   *)

CallGet(t) ==
    /\ pc[t] = "idle"
    /\ Goto(t, "wait_check")
    /\ since' = [since EXCEPT ![t] = net]
    /\ UNCHANGED <<net, now, cacheVars, lock, snapshot, answer,
                   resetNet, overtaken, lateList>>

CacheIsValid == timeout >= now /\ iface # Null

\* The test of the first critical section, when it succeeds.
Valid(t) ==
    /\ pc[t] = "check"
    /\ CacheIsValid
    /\ Goto(t, "hit")
    /\ UNCHANGED <<net, now, cacheVars, lock, snapshot, answer, history>>

Hit(t) ==
    /\ pc[t] = "hit"
    /\ answer' = [answer EXCEPT ![t] = iface]
    /\ lock' = NoThread
    /\ Goto(t, "idle")
    /\ UNCHANGED <<net, now, cacheVars, snapshot, history>>

Miss(t) ==
    /\ pc[t] = "check"
    /\ ~CacheIsValid
    /\ iface' = Placeholder
    /\ lock' = NoThread
    /\ Goto(t, "fetch")
    /\ overtaken' = [overtaken EXCEPT ![t] = FALSE]
    /\ lateList' = FALSE
    /\ UNCHANGED <<net, now, ttl, timeout, snapshot, answer, since, resetNet>>

\* Bug: the kernel is read before the cache is checked.
FetchFirst(t) ==
    /\ pc[t] = "fetch"
    /\ snapshot' = [snapshot EXCEPT ![t] = since[t]]
    /\ Goto(t, "wait_publish")
    /\ UNCHANGED <<net, now, cacheVars, lock, answer, history>>

\* getifaddrs() and the loop which makes iface objects out of its result.
Fetch(t) ==
    /\ pc[t] = "fetch"
    /\ snapshot' = [snapshot EXCEPT ![t] = net]
    /\ Goto(t, "wait_publish")
    /\ UNCHANGED <<net, now, cacheVars, lock, answer, history>>

FetchFails(t) ==
    /\ pc[t] = "fetch"
    /\ answer' = [answer EXCEPT ![t] = Null]
    /\ Goto(t, "idle")
    /\ UNCHANGED <<net, now, cacheVars, lock, snapshot, history>>

\* Bug: the guard goes out of scope between the two assignments.
PublishTimeoutAndUnlock(t) ==
    /\ pc[t] = "publish"
    /\ timeout' = now + ttl
    /\ lock' = NoThread
    /\ Goto(t, "swap")
    /\ UNCHANGED <<net, now, ttl, iface, snapshot, answer, history>>

PublishTimeout(t) ==
    /\ pc[t] = "publish"
    /\ timeout' = now + ttl
    /\ Goto(t, "swap")
    /\ UNCHANGED <<net, now, ttl, iface, lock, snapshot, answer, history>>

SwapHistory(t) ==
    /\ lateList' = overtaken[t]
    /\ UNCHANGED <<since, resetNet, overtaken>>

\* Bug: swap(), then return the local vector instead of the shared one.
SwapAndReturnLocal(t) ==
    /\ pc[t] = "swap"
    /\ iface' = snapshot[t]
    /\ snapshot' = [snapshot EXCEPT ![t] = Null]
    /\ answer' = [answer EXCEPT ![t] = iface]
    /\ lock' = NoThread
    /\ Goto(t, "idle")
    /\ SwapHistory(t)
    /\ UNCHANGED <<net, now, ttl, timeout>>

\* The swap() hands the vector to the cache; the local variable, which gets
\* the former list, is destroyed.
Swap(t) ==
    /\ pc[t] = "swap"
    /\ iface' = snapshot[t]
    /\ snapshot' = [snapshot EXCEPT ![t] = Null]
    /\ answer' = [answer EXCEPT ![t] = iface']
    /\ lock' = NoThread
    /\ Goto(t, "idle")
    /\ SwapHistory(t)
    /\ UNCHANGED <<net, now, ttl, timeout>>

-----------------------------------------------------------------------------
(* reset_local_addresses_cache()                                           *)

CallReset(t) ==
    /\ pc[t] = "idle"
    /\ Goto(t, "wait_reset")
    /\ UNCHANGED <<net, now, cacheVars, lock, snapshot, answer, history>>

\* Bug: a timeout "in the past" where the code has zero.
ResetTimeoutToMinusOne(t) ==
    /\ pc[t] = "reset"
    /\ timeout' = -1
    /\ Goto(t, "drop")
    /\ UNCHANGED <<net, now, ttl, iface, lock, snapshot, answer, history>>

ResetTimeout(t) ==
    /\ pc[t] = "reset"
    /\ timeout' = 0
    /\ Goto(t, "drop")
    /\ UNCHANGED <<net, now, ttl, iface, lock, snapshot, answer, history>>

DropHistory(t) ==
    /\ resetNet' = [resetNet EXCEPT ![t] = net]
    /\ overtaken' = [u \in Threads |-> TRUE]
    /\ lateList' = FALSE
    /\ UNCHANGED since

\* A caller which resets the cache no longer counts on the list it holds.
Drop(t) ==
    /\ pc[t] = "drop"
    /\ iface' = Null
    /\ answer' = [answer EXCEPT ![t] = Null]
    /\ lock' = NoThread
    /\ Goto(t, "idle")
    /\ DropHistory(t)
    /\ UNCHANGED <<net, now, ttl, timeout, snapshot>>

-----------------------------------------------------------------------------
(* set_local_addresses_cache_ttl(): no guard, unlike the others.           *)

CallSetTtl(t) ==
    /\ pc[t] = "idle"
    /\ Goto(t, "set_ttl")
    /\ UNCHANGED <<net, now, cacheVars, lock, snapshot, answer, history>>

SetTtl(t) ==
    /\ pc[t] = "set_ttl"
    /\ ttl' \in Ttls
    /\ Goto(t, "idle")
    /\ UNCHANGED <<net, now, timeout, iface, lock, snapshot, answer, history>>

-----------------------------------------------------------------------------
(* The environment.                                                        *)

\* Readings time(nullptr) can give next.
ClockReadings ==
    IF ClockCanStepBack THEN 1 .. MaxNow ELSE now + 1 .. MaxNow

Tick ==
    /\ now' \in ClockReadings
    /\ UNCHANGED <<net, cacheVars, lock, pc, snapshot, answer, history>>

KernelChange ==
    /\ net < MaxNet
    /\ net' = net + 1
    /\ UNCHANGED <<now, cacheVars, lock, pc, snapshot, answer, history>>

Step(t) ==
    \/ Acquire(t)
    \/ CallGet(t) \/ Valid(t) \/ Hit(t) \/ Miss(t)
    \/ Fetch(t) \/ FetchFails(t) \/ PublishTimeout(t) \/ Swap(t)
    \/ CallReset(t) \/ ResetTimeout(t) \/ Drop(t)
    \/ CallSetTtl(t) \/ SetTtl(t)

Next ==
    \/ \E t \in Threads : Step(t)
    \/ Tick
    \/ KernelChange

Spec == Init /\ [][Next]_vars

-----------------------------------------------------------------------------
(* Properties.                                                             *)

TypeOK ==
    /\ net \in Nat
    /\ now \in Nat \ {0}
    /\ ttl \in Nat
    /\ timeout \in Nat
    /\ iface \in Version \cup {Null, Placeholder}
    /\ lock \in Threads \cup {NoThread}
    /\ pc \in [Threads -> Steps]
    /\ snapshot \in [Threads -> Version \cup {Null}]
    /\ answer \in [Threads -> Version \cup {Null, Placeholder}]
    /\ since \in [Threads -> Nat]
    /\ resetNet \in [Threads -> Nat]
    /\ overtaken \in [Threads -> BOOLEAN]
    /\ lateList \in BOOLEAN

\* The vector a call installs before it reads the kernel is empty and stays
\* so: no caller may ever be given it, whatever the other threads do between
\* the two critical sections, as the caller would believe that the computer
\* has no address at all (iface.cpp:270-275).
NoPlaceholderAnswered == \A t \in Threads : answer[t] # Placeholder

\* A list served from the cache is at least as recent as every reset, unless
\* the call which published it was already past its first critical section
\* when a reset came: that is the only way a reset is lost.
FreshUnlessOvertaken ==
    CacheIsValid /\ iface \in Version /\ ~lateList
        => \A t \in Threads : resetNet[t] <= iface

\* "You can call the reset_cache() function if you want to reset the cache
\* and make sure what you load is fresh" (iface.cpp:109-110): the list given
\* to a thread after its own reset was read after that reset.  The code does
\* not keep this: the list of a call in flight gets published over the reset.
FreshAfterReset ==
    \A t \in Threads : answer[t] \in Version => resetNet[t] <= answer[t]

\* "This function is thread safe" (iface.cpp:420): no thread writes
\* g_cache_ttl while another one writes or reads it.  PublishTimeout reads it under
\* the mutex, which set_local_addresses_cache_ttl() does not take.
NoTtlRace ==
    \A t, u \in Threads :
        t # u /\ pc[t] = "set_ttl" => pc[u] \notin {"set_ttl", "publish"}

\* The promise of the component.  The placeholder is no list, it stands for
\* having none.  A critical section counts as done once its outcome is fixed:
\* a hit once the cache was found valid, a publication or a reset once the
\* timeout is written.  Until the mutex is released nobody sees the difference.
OwnerAt(step) == lock # NoThread /\ pc[lock] = step

Kept ==
    IF OwnerAt("swap") THEN snapshot[lock]
    ELSE IF OwnerAt("drop") \/ iface = Placeholder THEN Null
    ELSE iface

Call == [t \in Threads |->
    IF pc[t] \in GetSteps \ {"hit", "swap"} THEN since[t] ELSE Null]

Answer == [t \in Threads |->
    CASE pc[t] = "hit" -> iface
      [] pc[t] = "swap" -> snapshot[t]
      [] pc[t] = "drop" -> Null
      [] OTHER -> answer[t]]

Until == IF Kept = Null THEN 0 ELSE timeout

Promise == INSTANCE LocalAddresses WITH
    kept <- Kept,
    until <- Until,
    call <- Call,
    answer <- Answer

\* The cache implements LocalAddresses: neither the placeholder nor the gap
\* between the two critical sections can be told from a cache which checks,
\* reads and publishes in one step per call.
ImplementsLocalAddresses == Promise!Spec

-----------------------------------------------------------------------------
(* The inductive invariant behind NoPlaceholderAnswered,                   *)
(* FreshUnlessOvertaken and ImplementsLocalAddresses.                      *)

Publishing(t) == pc[t] \in {"wait_publish", "publish", "swap"}

\* The thread inside a critical section is the owner of the mutex.
LockInv == \A t \in Threads : pc[t] \in Locked => lock = t

\* What a call read from the kernel was current during that call.
SnapshotInv == \A t \in Threads :
    /\ pc[t] \in GetSteps => since[t] <= net
    /\ Publishing(t) => snapshot[t] \in Version /\ since[t] <= snapshot[t]
                        /\ snapshot[t] <= net

\* A snapshot which no reset overtook is as recent as every reset.
FreshInv == \A t \in Threads :
    /\ resetNet[t] <= net
    /\ iface \in Version /\ ~lateList => resetNet[t] <= iface
    /\ \A u \in Threads :
          Publishing(u) /\ ~overtaken[u] => resetNet[t] <= snapshot[u]

\* While there is no list in the cache the timeout is in the past, except
\* inside the critical section which is about to put a list there.
PlaceholderInv ==
    /\ iface \notin Version => timeout < now \/ OwnerAt("swap")
    /\ \A t \in Threads : pc[t] = "hit" => iface \in Version
    /\ \A t \in Threads : pc[t] = "drop" => timeout < now
    /\ NoPlaceholderAnswered

=============================================================================
