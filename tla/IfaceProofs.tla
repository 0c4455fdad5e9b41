---------------------------- MODULE IfaceProofs ----------------------------
(***************************************************************************)
(* Proofs about the code of iface.cpp.  Of IfaceCache: what the threads do *)
(* to the cached list, for any number of threads, any bound on the clock   *)
(* and on the changes of the configuration, and any set of TTLs.  Of       *)
(* InterfaceSearch: what the program is answered, for any width of the     *)
(* addresses and any configurations of the network.                        *)
(***************************************************************************)
EXTENDS IfaceCache, InterfaceSearch, AddrRangeProofs, FiniteSetTheorems, TLAPS

-----------------------------------------------------------------------------
(* The cached list: types                                                  *)

\* Every variable keeps its type, whether or not the clock can go back.
THEOREM TypeCorrect == Spec => []TypeOK
<1>1. ASSUME Init PROVE TypeOK
  <2>1. overtaken \in [Threads -> BOOLEAN] /\ lateList \in BOOLEAN
    BY <1>1, Zenon DEF Init
  <2>2. pc \in [Threads -> Steps]
    BY <1>1 DEF Init, Steps
  <2>3. QED
    BY <1>1, <2>1, <2>2, IfaceCacheAssumption DEF Init, TypeOK, Version
<1>2. TypeOK /\ [Next]_vars => TypeOK'
  <2> SUFFICES ASSUME TypeOK, [Next]_vars
               PROVE  TypeOK'
    OBVIOUS
  <2> USE IfaceCacheAssumption
      DEF TypeOK, Version, Steps, GetSteps, Waiting, Locked
  <2>1. ASSUME NEW t \in Threads, Acquire(t) PROVE TypeOK'
    <3>1. AfterLock(pc[t]) \in Locked
      BY <2>1 DEF Acquire, AfterLock
    <3>2. QED
      BY <2>1, <3>1 DEF Acquire, Goto, cacheVars, history
  <2>2. ASSUME NEW t \in Threads, CallGet(t) PROVE TypeOK'
    BY <2>2 DEF CallGet, Goto, cacheVars
  <2>3. ASSUME NEW t \in Threads, Valid(t) PROVE TypeOK'
    BY <2>3 DEF Valid, Goto, cacheVars, history
  <2>4. ASSUME NEW t \in Threads, Hit(t) PROVE TypeOK'
    BY <2>4 DEF Hit, Goto, cacheVars, history
  <2>5. ASSUME NEW t \in Threads, Miss(t) PROVE TypeOK'
    BY <2>5 DEF Miss, Goto
  <2>6. ASSUME NEW t \in Threads, Fetch(t) PROVE TypeOK'
    BY <2>6 DEF Fetch, Goto, cacheVars, history
  <2>7. ASSUME NEW t \in Threads, FetchFails(t) PROVE TypeOK'
    BY <2>7 DEF FetchFails, Goto, cacheVars, history
  <2>8. ASSUME NEW t \in Threads, PublishTimeout(t) PROVE TypeOK'
    BY <2>8 DEF PublishTimeout, Goto, history
  <2>9. ASSUME NEW t \in Threads, Swap(t) PROVE TypeOK'
    BY <2>9 DEF Swap, Goto, SwapHistory
  <2>10. ASSUME NEW t \in Threads, CallReset(t) PROVE TypeOK'
    BY <2>10 DEF CallReset, Goto, cacheVars, history
  <2>11. ASSUME NEW t \in Threads, ResetTimeout(t) PROVE TypeOK'
    BY <2>11 DEF ResetTimeout, Goto, history
  <2>12. ASSUME NEW t \in Threads, Drop(t) PROVE TypeOK'
    BY <2>12 DEF Drop, Goto, DropHistory
  <2>13. ASSUME NEW t \in Threads, CallSetTtl(t) PROVE TypeOK'
    BY <2>13 DEF CallSetTtl, Goto, cacheVars, history
  <2>14. ASSUME NEW t \in Threads, SetTtl(t) PROVE TypeOK'
    BY <2>14 DEF SetTtl, Goto, history
  <2>15. CASE Tick
    <3>1. now' \in Nat \ {0}
      BY <2>15 DEF Tick, ClockReadings
    <3>2. QED
      BY <2>15, <3>1 DEF Tick, cacheVars, history
  <2>16. CASE KernelChange
    BY <2>16 DEF KernelChange, cacheVars, history
  <2>17. CASE UNCHANGED vars
    BY <2>17 DEF vars, cacheVars, history
  <2>18. QED
    BY <2>1, <2>2, <2>3, <2>4, <2>5, <2>6, <2>7, <2>8, <2>9, <2>10, <2>11,
       <2>12, <2>13, <2>14, <2>15, <2>16, <2>17
    DEF Next, Step
<1>3. QED
  BY <1>1, <1>2, PTL DEF Spec

-----------------------------------------------------------------------------
(* The cached list: the inductive invariant, one lemma per conjunct        *)

\* Mutual exclusion: the mutex is owned by the one thread, if any, which is
\* inside a critical section.
LEMMA LockStep == TypeOK /\ LockInv /\ [Next]_vars => LockInv'
<1> SUFFICES ASSUME TypeOK, LockInv, [Next]_vars
             PROVE  LockInv'
  OBVIOUS
<1> USE IfaceCacheAssumption DEF TypeOK, LockInv, Locked, Waiting
<1>1. ASSUME NEW t \in Threads, Acquire(t) PROVE LockInv'
  BY <1>1 DEF Acquire, Goto, cacheVars, history
<1>2. ASSUME NEW t \in Threads, CallGet(t) PROVE LockInv'
  BY <1>2 DEF CallGet, Goto, cacheVars
<1>3. ASSUME NEW t \in Threads, Valid(t) PROVE LockInv'
  BY <1>3 DEF Valid, Goto, cacheVars, history
<1>4. ASSUME NEW t \in Threads, Hit(t) PROVE LockInv'
  BY <1>4 DEF Hit, Goto, cacheVars, history
<1>5. ASSUME NEW t \in Threads, Miss(t) PROVE LockInv'
  BY <1>5 DEF Miss, Goto
<1>6. ASSUME NEW t \in Threads, Fetch(t) PROVE LockInv'
  BY <1>6 DEF Fetch, Goto, cacheVars, history
<1>7. ASSUME NEW t \in Threads, FetchFails(t) PROVE LockInv'
  BY <1>7 DEF FetchFails, Goto, cacheVars, history
<1>8. ASSUME NEW t \in Threads, PublishTimeout(t) PROVE LockInv'
  BY <1>8 DEF PublishTimeout, Goto, history
<1>9. ASSUME NEW t \in Threads, Swap(t) PROVE LockInv'
  BY <1>9 DEF Swap, Goto, SwapHistory
<1>10. ASSUME NEW t \in Threads, CallReset(t) PROVE LockInv'
  BY <1>10 DEF CallReset, Goto, cacheVars, history
<1>11. ASSUME NEW t \in Threads, ResetTimeout(t) PROVE LockInv'
  BY <1>11 DEF ResetTimeout, Goto, history
<1>12. ASSUME NEW t \in Threads, Drop(t) PROVE LockInv'
  BY <1>12 DEF Drop, Goto, DropHistory
<1>13. ASSUME NEW t \in Threads, CallSetTtl(t) PROVE LockInv'
  BY <1>13 DEF CallSetTtl, Goto, cacheVars, history
<1>14. ASSUME NEW t \in Threads, SetTtl(t) PROVE LockInv'
  BY <1>14 DEF SetTtl, Goto, history
<1>15. CASE Tick
  BY <1>15 DEF Tick, cacheVars, history
<1>16. CASE KernelChange
  BY <1>16 DEF KernelChange, cacheVars, history
<1>17. CASE UNCHANGED vars
  BY <1>17 DEF vars, cacheVars, history
<1>18. QED
  BY <1>1, <1>2, <1>3, <1>4, <1>5, <1>6, <1>7, <1>8, <1>9, <1>10, <1>11,
     <1>12, <1>13, <1>14, <1>15, <1>16, <1>17
  DEF Next, Step

\* A snapshot lies between the kernel's version at the call and its present
\* version, which only grows.
LEMMA SnapshotStep == TypeOK /\ SnapshotInv /\ [Next]_vars => SnapshotInv'
<1> SUFFICES ASSUME TypeOK, SnapshotInv, [Next]_vars
             PROVE  SnapshotInv'
  OBVIOUS
<1> USE IfaceCacheAssumption
    DEF TypeOK, SnapshotInv, Publishing, Version, GetSteps, Waiting, AfterLock
<1>1. ASSUME NEW t \in Threads, Acquire(t) PROVE SnapshotInv'
  BY <1>1 DEF Acquire, Goto, cacheVars, history
<1>2. ASSUME NEW t \in Threads, CallGet(t) PROVE SnapshotInv'
  BY <1>2 DEF CallGet, Goto, cacheVars
<1>3. ASSUME NEW t \in Threads, Valid(t) PROVE SnapshotInv'
  BY <1>3 DEF Valid, Goto, cacheVars, history
<1>4. ASSUME NEW t \in Threads, Hit(t) PROVE SnapshotInv'
  BY <1>4 DEF Hit, Goto, cacheVars, history
<1>5. ASSUME NEW t \in Threads, Miss(t) PROVE SnapshotInv'
  BY <1>5 DEF Miss, Goto
<1>6. ASSUME NEW t \in Threads, Fetch(t) PROVE SnapshotInv'
  BY <1>6 DEF Fetch, Goto, cacheVars, history
<1>7. ASSUME NEW t \in Threads, FetchFails(t) PROVE SnapshotInv'
  BY <1>7 DEF FetchFails, Goto, cacheVars, history
<1>8. ASSUME NEW t \in Threads, PublishTimeout(t) PROVE SnapshotInv'
  BY <1>8 DEF PublishTimeout, Goto, history
<1>9. ASSUME NEW t \in Threads, Swap(t) PROVE SnapshotInv'
  BY <1>9 DEF Swap, Goto, SwapHistory
<1>10. ASSUME NEW t \in Threads, CallReset(t) PROVE SnapshotInv'
  BY <1>10 DEF CallReset, Goto, cacheVars, history
<1>11. ASSUME NEW t \in Threads, ResetTimeout(t) PROVE SnapshotInv'
  BY <1>11 DEF ResetTimeout, Goto, history
<1>12. ASSUME NEW t \in Threads, Drop(t) PROVE SnapshotInv'
  BY <1>12 DEF Drop, Goto, DropHistory
<1>13. ASSUME NEW t \in Threads, CallSetTtl(t) PROVE SnapshotInv'
  BY <1>13 DEF CallSetTtl, Goto, cacheVars, history
<1>14. ASSUME NEW t \in Threads, SetTtl(t) PROVE SnapshotInv'
  BY <1>14 DEF SetTtl, Goto, history
<1>15. CASE Tick
  BY <1>15 DEF Tick, cacheVars, history
<1>16. CASE KernelChange
  BY <1>16 DEF KernelChange, cacheVars, history
<1>17. CASE UNCHANGED vars
  BY <1>17 DEF vars, cacheVars, history
<1>18. QED
  BY <1>1, <1>2, <1>3, <1>4, <1>5, <1>6, <1>7, <1>8, <1>9, <1>10, <1>11,
     <1>12, <1>13, <1>14, <1>15, <1>16, <1>17
  DEF Next, Step

\* A snapshot which no reset overtook was read after every reset.
LEMMA FreshStep ==
    TypeOK /\ SnapshotInv /\ FreshInv /\ [Next]_vars => FreshInv'
<1> SUFFICES ASSUME TypeOK, SnapshotInv, FreshInv, [Next]_vars
             PROVE  FreshInv'
  OBVIOUS
<1> USE IfaceCacheAssumption
    DEF TypeOK, SnapshotInv, FreshInv, Publishing, Version, Waiting, AfterLock
<1>1. ASSUME NEW t \in Threads, Acquire(t) PROVE FreshInv'
  BY <1>1 DEF Acquire, Goto, cacheVars, history
<1>2. ASSUME NEW t \in Threads, CallGet(t) PROVE FreshInv'
  BY <1>2 DEF CallGet, Goto, cacheVars
<1>3. ASSUME NEW t \in Threads, Valid(t) PROVE FreshInv'
  BY <1>3 DEF Valid, Goto, cacheVars, history
<1>4. ASSUME NEW t \in Threads, Hit(t) PROVE FreshInv'
  BY <1>4 DEF Hit, Goto, cacheVars, history
<1>5. ASSUME NEW t \in Threads, Miss(t) PROVE FreshInv'
  BY <1>5 DEF Miss, Goto
<1>6. ASSUME NEW t \in Threads, Fetch(t) PROVE FreshInv'
  BY <1>6 DEF Fetch, Goto, cacheVars, history
<1>7. ASSUME NEW t \in Threads, FetchFails(t) PROVE FreshInv'
  BY <1>7 DEF FetchFails, Goto, cacheVars, history
<1>8. ASSUME NEW t \in Threads, PublishTimeout(t) PROVE FreshInv'
  BY <1>8 DEF PublishTimeout, Goto, history
<1>9. ASSUME NEW t \in Threads, Swap(t) PROVE FreshInv'
  BY <1>9 DEF Swap, Goto, SwapHistory
<1>10. ASSUME NEW t \in Threads, CallReset(t) PROVE FreshInv'
  BY <1>10 DEF CallReset, Goto, cacheVars, history
<1>11. ASSUME NEW t \in Threads, ResetTimeout(t) PROVE FreshInv'
  BY <1>11 DEF ResetTimeout, Goto, history
<1>12. ASSUME NEW t \in Threads, Drop(t) PROVE FreshInv'
  BY <1>12 DEF Drop, Goto, DropHistory
<1>13. ASSUME NEW t \in Threads, CallSetTtl(t) PROVE FreshInv'
  BY <1>13 DEF CallSetTtl, Goto, cacheVars, history
<1>14. ASSUME NEW t \in Threads, SetTtl(t) PROVE FreshInv'
  BY <1>14 DEF SetTtl, Goto, history
<1>15. CASE Tick
  BY <1>15 DEF Tick, cacheVars, history
<1>16. CASE KernelChange
  BY <1>16 DEF KernelChange, cacheVars, history
<1>17. CASE UNCHANGED vars
  BY <1>17 DEF vars, cacheVars, history
<1>18. QED
  BY <1>1, <1>2, <1>3, <1>4, <1>5, <1>6, <1>7, <1>8, <1>9, <1>10, <1>11,
     <1>12, <1>13, <1>14, <1>15, <1>16, <1>17
  DEF Next, Step

\* With a clock which never goes back, a cache without a list is an expired
\* cache, and so the placeholder is never found valid.
LEMMA PlaceholderStep ==
    ASSUME ~ClockCanStepBack
    PROVE  TypeOK /\ LockInv /\ SnapshotInv /\ PlaceholderInv /\ [Next]_vars
               => PlaceholderInv'
<1> SUFFICES ASSUME TypeOK, LockInv, SnapshotInv, PlaceholderInv, [Next]_vars
             PROVE  PlaceholderInv'
  OBVIOUS
<1> USE IfaceCacheAssumption
    DEF TypeOK, LockInv, SnapshotInv, PlaceholderInv, NoPlaceholderAnswered,
        OwnerAt, Publishing, Version, Locked, Waiting
<1>1. ASSUME NEW t \in Threads, Acquire(t) PROVE PlaceholderInv'
  BY <1>1 DEF Acquire, Goto, cacheVars, history, AfterLock
<1>2. ASSUME NEW t \in Threads, CallGet(t) PROVE PlaceholderInv'
  BY <1>2 DEF CallGet, Goto, cacheVars
<1>3. ASSUME NEW t \in Threads, Valid(t) PROVE PlaceholderInv'
  BY <1>3 DEF Valid, Goto, cacheVars, history, CacheIsValid
<1>4. ASSUME NEW t \in Threads, Hit(t) PROVE PlaceholderInv'
  BY <1>4 DEF Hit, Goto, cacheVars, history
<1>5. ASSUME NEW t \in Threads, Miss(t) PROVE PlaceholderInv'
  BY <1>5 DEF Miss, Goto, CacheIsValid
<1>6. ASSUME NEW t \in Threads, Fetch(t) PROVE PlaceholderInv'
  BY <1>6 DEF Fetch, Goto, cacheVars, history
<1>7. ASSUME NEW t \in Threads, FetchFails(t) PROVE PlaceholderInv'
  BY <1>7 DEF FetchFails, Goto, cacheVars, history
<1>8. ASSUME NEW t \in Threads, PublishTimeout(t) PROVE PlaceholderInv'
  BY <1>8 DEF PublishTimeout, Goto, history
<1>9. ASSUME NEW t \in Threads, Swap(t) PROVE PlaceholderInv'
  BY <1>9 DEF Swap, Goto, SwapHistory
<1>10. ASSUME NEW t \in Threads, CallReset(t) PROVE PlaceholderInv'
  BY <1>10 DEF CallReset, Goto, cacheVars, history
<1>11. ASSUME NEW t \in Threads, ResetTimeout(t) PROVE PlaceholderInv'
  BY <1>11 DEF ResetTimeout, Goto, history
<1>12. ASSUME NEW t \in Threads, Drop(t) PROVE PlaceholderInv'
  BY <1>12 DEF Drop, Goto, DropHistory
<1>13. ASSUME NEW t \in Threads, CallSetTtl(t) PROVE PlaceholderInv'
  BY <1>13 DEF CallSetTtl, Goto, cacheVars, history
<1>14. ASSUME NEW t \in Threads, SetTtl(t) PROVE PlaceholderInv'
  BY <1>14 DEF SetTtl, Goto, history
<1>15. CASE Tick
  BY <1>15 DEF Tick, cacheVars, history, ClockReadings
<1>16. CASE KernelChange
  BY <1>16 DEF KernelChange, cacheVars, history
<1>17. CASE UNCHANGED vars
  BY <1>17 DEF vars, cacheVars, history
<1>18. QED
  BY <1>1, <1>2, <1>3, <1>4, <1>5, <1>6, <1>7, <1>8, <1>9, <1>10, <1>11,
     <1>12, <1>13, <1>14, <1>15, <1>16, <1>17
  DEF Next, Step

-----------------------------------------------------------------------------
(* The cached list: what no step of a thread breaks                        *)

\* The invariants which hold whatever the clock does.
LEMMA Invariants == Spec => [](TypeOK /\ LockInv /\ SnapshotInv /\ FreshInv)
<1>1. Init => LockInv
  BY DEF Init, LockInv, Locked
<1>2. Init => SnapshotInv
  BY DEF Init, SnapshotInv, GetSteps, Publishing
<1>3. ASSUME Init PROVE FreshInv
  <2>1. ASSUME NEW t \in Threads
        PROVE  resetNet[t] <= net /\ ~Publishing(t)
    <3>1. net = 0 /\ resetNet[t] = 0 /\ pc[t] = "idle"
      BY <1>3, Zenon DEF Init
    <3>2. QED
      BY <3>1 DEF Publishing
  <2>2. iface \notin Version
    BY <1>3, IfaceCacheAssumption DEF Init, Version
  <2>3. QED
    BY <2>1, <2>2, Zenon DEF FreshInv
<1>4. QED
  BY <1>1, <1>2, <1>3, TypeCorrect, LockStep, SnapshotStep, FreshStep, PTL
  DEF Spec

\* Whatever the clock does, a reset is only ever lost to a call which was
\* already reading the kernel when the reset came.
THEOREM ResetsAreKept == Spec => []FreshUnlessOvertaken
<1>1. FreshInv => FreshUnlessOvertaken
  BY DEF FreshInv, FreshUnlessOvertaken
<1>2. QED
  BY <1>1, Invariants, PTL

\* While the clock does not go back, no list is in the cache only when the
\* cache is expired.
LEMMA PlaceholderInvariant ==
    ASSUME ~ClockCanStepBack
    PROVE  Spec => []PlaceholderInv
<1>1. Init => PlaceholderInv
  BY IfaceCacheAssumption
  DEF Init, PlaceholderInv, NoPlaceholderAnswered, Version
<1>2. QED
  BY <1>1, Invariants, PlaceholderStep, PTL DEF Spec

\* While the clock does not go back, no caller is given the placeholder, for
\* any number of threads which call, reset and retune the cache at will.
THEOREM PlaceholderStaysHidden ==
    ASSUME ~ClockCanStepBack
    PROVE  Spec => []NoPlaceholderAnswered
<1>1. PlaceholderInv => NoPlaceholderAnswered
  BY DEF PlaceholderInv
<1>2. QED
  BY <1>1, PlaceholderInvariant, PTL

-----------------------------------------------------------------------------
(* The cached list: the refinement of LocalAddresses                       *)

\* The code starts where the promise starts.
LEMMA InitRefines == Init => Promise!Init
<1> SUFFICES ASSUME Init
             PROVE  Promise!Init
  OBVIOUS
<1>1. ~OwnerAt("swap") /\ ~OwnerAt("drop")
  BY DEF Init, OwnerAt
<1>2. Kept = Null
  BY <1>1, IfaceCacheAssumption DEF Init, Kept
<1>3. Call = [t \in Threads |-> Null]
  BY DEF Init, Call, GetSteps
<1>4. Answer = [t \in Threads |-> Null]
  BY DEF Init, Answer
<1>5. QED
  BY <1>2, <1>3, <1>4 DEF Init, Until, Promise!Init

\* A step the promise does not see.
Invisible == UNCHANGED <<net, now, ttl, Kept, Until, Call, Answer>>

\* Such a step is a stutter of the promise.
LEMMA InvisibleStep == Invisible => UNCHANGED Promise!vars
  BY DEF Invisible, Promise!vars

\* What each step of the code is to the promise.
LEMMA StepRefines ==
    ASSUME ~ClockCanStepBack,
           TypeOK, LockInv, SnapshotInv, PlaceholderInv, [Next]_vars
    PROVE  [Promise!Next]_(Promise!vars)
<1> USE IfaceCacheAssumption
    DEF TypeOK, LockInv, Version, Locked, Waiting, GetSteps, OwnerAt
<1>1. ASSUME NEW t \in Threads, Acquire(t) PROVE Invisible
  <2>1. AfterLock(pc[t]) \in {"check", "publish", "reset"}
    BY <1>1 DEF Acquire, AfterLock
  <2>2. pc[t] \in GetSteps \ {"hit", "swap"}
            <=> AfterLock(pc[t]) \in GetSteps \ {"hit", "swap"}
    BY <1>1 DEF Acquire, AfterLock
  <2>3. Kept' = Kept
    BY <1>1, <2>1 DEF Acquire, Goto, cacheVars, Kept
  <2>4. Call' = Call
    BY <1>1, <2>2 DEF Acquire, Goto, history, Call
  <2>5. Answer' = Answer
    BY <1>1, <2>1 DEF Acquire, Goto, cacheVars, Answer
  <2>6. QED
    BY <1>1, <2>3, <2>4, <2>5 DEF Invisible, Until, Acquire, cacheVars
<1>2. ASSUME NEW t \in Threads, CallGet(t) PROVE Promise!Call(t)
  <2>1. Kept' = Kept
    BY <1>2 DEF CallGet, Goto, cacheVars, Kept
  <2>2. Call' = [Call EXCEPT ![t] = net] /\ Call[t] = Null
    BY <1>2 DEF CallGet, Goto, Call
  <2>3. Answer' = Answer
    BY <1>2 DEF CallGet, Goto, cacheVars, Answer
  <2>4. QED
    BY <1>2, <2>1, <2>2, <2>3 DEF CallGet, cacheVars, Until, Promise!Call
<1>3. ASSUME NEW t \in Threads, Valid(t) PROVE Promise!AnswerKept(t)
  <2>1. lock = t /\ iface \in Nat /\ now <= timeout
    BY <1>3 DEF Valid, CacheIsValid, PlaceholderInv
  <2>2. Kept = iface /\ Kept' = iface
    BY <1>3, <2>1 DEF Valid, Goto, cacheVars, Kept
  <2>3. Call' = [Call EXCEPT ![t] = Null] /\ Call[t] # Null
    BY <1>3 DEF Valid, Goto, history, Call
  <2>4. Answer' = [Answer EXCEPT ![t] = iface]
    BY <1>3, <2>1 DEF Valid, Goto, cacheVars, Answer
  <2>5. QED
    BY <1>3, <2>1, <2>2, <2>3, <2>4
    DEF Valid, cacheVars, Until, Promise!AnswerKept, Promise!Return
<1>4. ASSUME NEW t \in Threads, Hit(t) PROVE Invisible
  <2>1. lock = t
    BY <1>4 DEF Hit
  <2>2. Kept' = Kept
    BY <1>4, <2>1 DEF Hit, Goto, cacheVars, Kept
  <2>3. Call' = Call
    BY <1>4 DEF Hit, Goto, history, Call
  <2>4. Answer' = Answer
    BY <1>4 DEF Hit, Goto, cacheVars, Answer
  <2>5. QED
    BY <1>4, <2>2, <2>3, <2>4 DEF Invisible, Until, Hit, cacheVars
<1>5. ASSUME NEW t \in Threads, Miss(t) PROVE Promise!Forget \/ Invisible
  <2>1. lock = t /\ ~OwnerAt("swap")
    BY <1>5 DEF Miss
  <2>2. Kept' = Null
    BY <1>5 DEF Miss, Goto, Kept
  <2>3. Call' = Call
    BY <1>5 DEF Miss, Goto, Call
  <2>4. Answer' = Answer
    BY <1>5 DEF Miss, Goto, Answer
  <2>5. CASE iface \in Nat
    <3>1. Kept = iface /\ timeout < now
      BY <1>5, <2>1, <2>5 DEF Miss, CacheIsValid, Kept
    <3>2. QED
      BY <1>5, <2>2, <2>3, <2>4, <2>5, <3>1 DEF Miss, Until, Promise!Forget
  <2>6. CASE iface \notin Nat
    <3>1. Kept = Null
      BY <2>1, <2>6 DEF Kept
    <3>2. QED
      BY <1>5, <2>2, <2>3, <2>4, <3>1 DEF Miss, Invisible, Until
  <2>7. QED
    BY <2>5, <2>6
<1>6. ASSUME NEW t \in Threads, Fetch(t) PROVE Invisible
  <2>1. Kept' = Kept
    BY <1>6 DEF Fetch, Goto, cacheVars, Kept
  <2>2. Call' = Call
    BY <1>6 DEF Fetch, Goto, history, Call
  <2>3. Answer' = Answer
    BY <1>6 DEF Fetch, Goto, cacheVars, Answer
  <2>4. QED
    BY <1>6, <2>1, <2>2, <2>3 DEF Invisible, Until, Fetch, cacheVars
<1>7. ASSUME NEW t \in Threads, FetchFails(t) PROVE Promise!AnswerNothing(t)
  <2>1. Kept' = Kept
    BY <1>7 DEF FetchFails, Goto, cacheVars, Kept
  <2>2. Call' = [Call EXCEPT ![t] = Null] /\ Call[t] # Null
    BY <1>7 DEF FetchFails, Goto, history, Call
  <2>3. Answer' = [Answer EXCEPT ![t] = Null]
    BY <1>7 DEF FetchFails, Goto, cacheVars, Answer
  <2>4. QED
    BY <1>7, <2>1, <2>2, <2>3
    DEF FetchFails, cacheVars, Until, Promise!AnswerNothing,
        Promise!Return
<1>8. ASSUME NEW t \in Threads, PublishTimeout(t)
      PROVE  Call[t] # Null /\ Promise!AnswerFresh(t)
  <2>1. lock = t /\ snapshot[t] \in since[t] .. net
    BY <1>8 DEF PublishTimeout, SnapshotInv, Publishing
  <2>2. Kept' = snapshot[t]
    BY <1>8, <2>1 DEF PublishTimeout, Goto, Kept
  <2>3. Call' = [Call EXCEPT ![t] = Null] /\ Call[t] = since[t]
    BY <1>8 DEF PublishTimeout, Goto, history, Call
  <2>4. Answer' = [Answer EXCEPT ![t] = snapshot[t]]
    BY <1>8 DEF PublishTimeout, Goto, Answer
  <2>5. snapshot[t] # Null /\ Call[t] # Null
    BY <2>1, <2>3
  <2>6. Promise!Return(t, snapshot[t])
    BY <1>8, <2>3, <2>4, <2>5 DEF PublishTimeout, Promise!Return
  <2>7. Until' = now + ttl
    BY <1>8, <2>2, <2>5 DEF PublishTimeout, Until
  <2>8. snapshot[t] \in Call[t] .. net
    BY <2>1, <2>3
  <2>9. QED
    BY <2>2, <2>5, <2>6, <2>7, <2>8 DEF Promise!AnswerFresh
<1>9. ASSUME NEW t \in Threads, Swap(t) PROVE Invisible
  <2>1. lock = t /\ snapshot[t] \in Nat
    BY <1>9 DEF Swap, SnapshotInv, Publishing
  <2>2. Kept = snapshot[t] /\ Kept' = snapshot[t]
    BY <1>9, <2>1 DEF Swap, Kept
  <2>3. Call' = Call
    BY <1>9 DEF Swap, SwapHistory, Goto, Call
  <2>4. Answer' = Answer
    <3>1. ASSUME NEW u \in Threads PROVE Answer'[u] = Answer[u]
      BY <1>9, <2>1 DEF Swap, Goto, Answer
    <3>2. QED
      BY <3>1, Zenon DEF Answer
  <2>5. QED
    BY <1>9, <2>2, <2>3, <2>4 DEF Invisible, Until, Swap
<1>10. ASSUME NEW t \in Threads, CallReset(t) PROVE Invisible
  <2>1. Kept' = Kept
    BY <1>10 DEF CallReset, Goto, cacheVars, Kept
  <2>2. Call' = Call
    BY <1>10 DEF CallReset, Goto, history, Call
  <2>3. Answer' = Answer
    BY <1>10 DEF CallReset, Goto, cacheVars, Answer
  <2>4. QED
    BY <1>10, <2>1, <2>2, <2>3 DEF Invisible, Until, CallReset, cacheVars
<1>11. ASSUME NEW t \in Threads, ResetTimeout(t) PROVE Promise!Reset(t)
  <2>1. lock = t
    BY <1>11 DEF ResetTimeout
  <2>2. Kept' = Null
    BY <1>11, <2>1 DEF ResetTimeout, Goto, Kept
  <2>3. Call' = Call /\ Call[t] = Null
    BY <1>11 DEF ResetTimeout, Goto, history, Call
  <2>4. Answer' = [Answer EXCEPT ![t] = Null]
    BY <1>11 DEF ResetTimeout, Goto, Answer
  <2>5. QED
    BY <1>11, <2>2, <2>3, <2>4 DEF ResetTimeout, Until, Promise!Reset
<1>12. ASSUME NEW t \in Threads, Drop(t) PROVE Invisible
  <2>1. lock = t
    BY <1>12 DEF Drop
  <2>2. Kept = Null /\ Kept' = Null
    BY <1>12, <2>1 DEF Drop, Goto, Kept
  <2>3. Call' = Call
    BY <1>12 DEF Drop, DropHistory, Goto, Call
  <2>4. Answer' = Answer
    <3>1. ASSUME NEW u \in Threads PROVE Answer'[u] = Answer[u]
      BY <1>12, <2>1 DEF Drop, Goto, Answer
    <3>2. QED
      BY <3>1, Zenon DEF Answer
  <2>5. QED
    BY <1>12, <2>2, <2>3, <2>4 DEF Invisible, Until, Drop
<1>13. ASSUME NEW t \in Threads, CallSetTtl(t) PROVE Invisible
  <2>1. Kept' = Kept
    BY <1>13 DEF CallSetTtl, Goto, cacheVars, Kept
  <2>2. Call' = Call
    BY <1>13 DEF CallSetTtl, Goto, history, Call
  <2>3. Answer' = Answer
    BY <1>13 DEF CallSetTtl, Goto, cacheVars, Answer
  <2>4. QED
    BY <1>13, <2>1, <2>2, <2>3 DEF Invisible, Until, CallSetTtl, cacheVars
<1>14. ASSUME NEW t \in Threads, SetTtl(t) PROVE Promise!SetTtl
  <2>1. Kept' = Kept
    BY <1>14 DEF SetTtl, Goto, Kept
  <2>2. Call' = Call
    BY <1>14 DEF SetTtl, Goto, history, Call
  <2>3. Answer' = Answer
    BY <1>14 DEF SetTtl, Goto, Answer
  <2>4. QED
    BY <1>14, <2>1, <2>2, <2>3 DEF SetTtl, Until, Promise!SetTtl
<1>15. ASSUME Tick PROVE Promise!Tick
  <2>1. Kept' = Kept /\ Call' = Call /\ Answer' = Answer
    BY <1>15, Zenon DEF Tick, cacheVars, history, Kept, Call, Answer
  <2>2. now' \in Nat /\ now' > now
    BY <1>15 DEF Tick, ClockReadings
  <2>3. QED
    BY <1>15, <2>1, <2>2 DEF Tick, cacheVars, Until, Promise!Tick
<1>16. ASSUME KernelChange PROVE Promise!KernelChange
  <2>1. Kept' = Kept /\ Call' = Call /\ Answer' = Answer
    BY <1>16, Zenon DEF KernelChange, cacheVars, history, Kept, Call, Answer
  <2>2. QED
    BY <1>16, <2>1 DEF KernelChange, cacheVars, Until,
                         Promise!KernelChange
<1>17. ASSUME UNCHANGED vars PROVE Invisible
  <2>1. Kept' = Kept /\ Call' = Call /\ Answer' = Answer
    BY <1>17, Zenon DEF vars, cacheVars, history, Kept, Call, Answer
  <2>2. QED
    BY <1>17, <2>1 DEF vars, cacheVars, Invisible, Until
<1>18. QED
  BY <1>1, <1>2, <1>3, <1>4, <1>5, <1>6, <1>7, <1>8, <1>9, <1>10, <1>11,
     <1>12, <1>13, <1>14, <1>15, <1>16, <1>17, InvisibleStep, Zenon
  DEF Next, Step, Promise!Next

\* While the clock does not go back, the cache with its placeholder, its two
\* critical sections and its unguarded read of the kernel does what a cache
\* which checks, reads and keeps in one step does.
THEOREM Refinement ==
    ASSUME ~ClockCanStepBack
    PROVE  Spec => ImplementsLocalAddresses
<1>1. TypeOK /\ LockInv /\ SnapshotInv /\ PlaceholderInv /\ [Next]_vars
          => [Promise!Next]_(Promise!vars)
  BY StepRefines
<1>2. QED
  BY <1>1, InitRefines, Invariants, PlaceholderInvariant, PTL
  DEF Spec, ImplementsLocalAddresses, Promise!Spec


-----------------------------------------------------------------------------
(* The searches: the routes                                                *)

\* The number std::stol() has read after each digit.
LEMMA DecimalSteps ==
    ASSUME NEW digits \in Seq(Nat)
    PROVE  /\ Decimal(digits) \in [0..Len(digits) -> Nat]
           /\ Decimal(digits)[0] = 0
           /\ \A n \in 1..Len(digits) :
                Decimal(digits)[n] = 10 * Decimal(digits)[n - 1] + digits[n]
<1> DEFINE N == Len(digits)
           Is(g) == g = [n \in 0..N |-> IF n = 0 THEN 0 ELSE 10 * g[n - 1] + digits[n]]
           after == [n \in Nat |-> [x \in Nat |->
                        10 * x + IF n \in 1..N THEN digits[n] ELSE 0]]
           D == Decimal(digits)
<1>1. N \in Nat /\ \A n \in 1..N : digits[n] \in Nat
  BY ElementOfSeq
<1>2. after \in [Nat -> [Nat -> Nat]]
  BY <1>1
<1>3. \A n \in 1..N : \A x \in Nat : after[n][x] = 10 * x + digits[n]
  BY <1>1
<1> HIDE DEF after
<1>4. PICK g : FollowsSteps(g, Nat, 0, after, N)
  BY <1>1, <1>2, Recursion
<1>5. g \in [0..N -> Nat] /\ g[0] = 0 /\ \A n \in 1..N : g[n] = 10 * g[n - 1] + digits[n]
  <2>1. \A n \in 1..N : n - 1 \in 0..N
    BY <1>1
  <2> QED
    BY <1>3, <1>4, <2>1 DEF FollowsSteps
<1>6. Is(g)
  <2>1. \A n \in 0..N : g[n] = IF n = 0 THEN 0 ELSE 10 * g[n - 1] + digits[n]
    BY <1>5
  <2> QED
    BY <1>5, <2>1
<1>7. Is(D)
  BY <1>6, Zenon DEF Decimal
<1>8. D[0] = 0 /\ \A n \in 1..N : D[n] = 10 * D[n - 1] + digits[n]
  <2> HIDE DEF D
  <2>1. \A n \in 0..N : D[n] = IF n = 0 THEN 0 ELSE 10 * D[n - 1] + digits[n]
    BY <1>7
  <2>2. 0 \in 0..N /\ \A n \in 1..N : n \in 0..N /\ n # 0
    BY <1>1
  <2> QED
    BY <2>1, <2>2
<1>9. 0..N \subseteq {n \in 0..N : D[n] \in Nat}
  <2> DEFINE P == {n \in 0..N : D[n] \in Nat}
  <2> HIDE DEF D
  <2>1. 0 \in P
    BY <1>1, <1>8
  <2>2. ASSUME NEW n \in 1..N, n - 1 \in P
        PROVE  n \in P
    <3>1. /\ D[n] = 10 * D[n - 1] + digits[n]
          /\ digits[n] \in Nat /\ D[n - 1] \in Nat /\ n \in 0..N
      BY <1>1, <1>8, <2>2
    <3> QED
      BY <3>1
  <2> HIDE DEF P
  <2> QED
    BY <1>1, <2>1, <2>2, InductionUpTo DEF P
<1>10. D = [n \in 0..N |-> D[n]]
  BY <1>7
<1> HIDE DEF D
<1>11. D \in [0..N -> Nat]
  BY <1>9, <1>10
<1> QED
  BY <1>8, <1>11 DEF D

\* The number std::stol() reads in four digits.
LEMMA StolOfFour ==
    ASSUME NEW w \in Nat, NEW x \in Nat, NEW y \in Nat, NEW z \in Nat
    PROVE  /\ Stol(<<w, x, y, z>>) \in Nat
           /\ w = 0 /\ x = 0 /\ y = 0 /\ z < 10 => Stol(<<w, x, y, z>>) = z
<1> DEFINE d == <<w, x, y, z>>
           large == {k \in DOMAIN d : d[k] > 9}
           end == First(large)
           D == Decimal(d)
           last == IF end = 0 THEN Len(d) ELSE end - 1
<1>1. /\ d \in Seq(Nat) /\ Len(d) = 4 /\ DOMAIN d = 1..4
      /\ d[1] = w /\ d[2] = x /\ d[3] = y /\ d[4] = z
  OBVIOUS
<1>2. Stol(d) = D[last]
  BY DEF Stol
<1> HIDE DEF d
<1>3. large \in SUBSET (1..4) /\ (w = 0 /\ x = 0 /\ y = 0 /\ z < 10 => large = {})
  BY <1>1
<1> HIDE DEF large
<1>4. /\ D \in [0..Len(d) -> Nat] /\ D[0] = 0
      /\ \A k \in 1..Len(d) : D[k] = 10 * D[k - 1] + d[k]
  BY <1>1, DecimalSteps
<1> HIDE DEF D
<1>5. (end = 0 <=> large = {}) /\ (large # {} => end \in large)
  <2>1. large \in SUBSET (Nat \ {0})
    BY <1>3
  <2> QED
    BY <2>1, FirstPlace
<1> HIDE DEF end
<1>6. last \in 0..4 /\ (end = 0 => last = 4)
  <2>1. end = 0 \/ end \in 1..4
    BY <1>3, <1>5
  <2> QED
    BY <1>1, <2>1
<1> HIDE DEF last
<1>7. D \in [0..4 -> Nat] /\ \A k \in 1..4 : D[k] = 10 * D[k - 1] + d[k]
  BY <1>1, <1>4
<1>8. Stol(d) \in Nat
  BY <1>2, <1>6, <1>7
<1>9. ASSUME w = 0, x = 0, y = 0, z < 10
      PROVE  Stol(d) = z
  <2>1. D[1] = 10 * D[0] + w /\ D[2] = 10 * D[1] + x
    BY <1>1, <1>7
  <2>2. D[3] = 10 * D[2] + y /\ D[4] = 10 * D[3] + z
    BY <1>1, <1>7
  <2>3. D[2] = 0
    BY <1>4, <1>9, <2>1
  <2>4. D[4] = z
    BY <1>9, <2>2, <2>3
  <2> QED
    BY <1>2, <1>3, <1>5, <1>6, <1>9, <2>4
<1> QED
  BY <1>8, <1>9 DEF d

\* The flags of a route are a number, and that of the kernel while one digit is
\* enough for it.
LEMMA FlagsRead ==
    ASSUME NEW n \in Nat
    PROVE  /\ Stol(HexDigits(n)) \in Nat
           /\ n < 10 => Stol(HexDigits(n)) = n
<1> DEFINE a == n \div 4096
           b == (n \div 256) % 16
           c == (n \div 16) % 16
           e == n % 16
<1>1. a \in Nat /\ b \in Nat /\ c \in Nat /\ e \in Nat
  OBVIOUS
<1>2. ASSUME n < 10
      PROVE  a = 0 /\ b = 0 /\ c = 0 /\ e = n
  <2>1. n \div 4096 = 0 /\ n \div 256 = 0 /\ n \div 16 = 0 /\ n % 16 = n
    BY <1>2
  <2>2. 0 % 16 = 0
    OBVIOUS
  <2> QED
    BY <2>1, <2>2
<1>3. HexDigits(n) = <<a, b, c, e>>
  BY DEF HexDigits
<1> HIDE DEF a, b, c, e
<1>4. /\ Stol(<<a, b, c, e>>) \in Nat
      /\ a = 0 /\ b = 0 /\ c = 0 /\ e < 10 => Stol(<<a, b, c, e>>) = e
  BY <1>1, StolOfFour
<1> QED
  BY <1>2, <1>3, <1>4

\* The flags of a route are numbers.
LEMMA FlagsAreNumbers == RouteFlags \subseteq Nat
BY DEF RouteFlags

-----------------------------------------------------------------------------
(* The searches: the objects made of what the kernel has                   *)

USE AddrRangeAssumption, InterfaceSearchAssumption

\* The masks which are made of those of IPv4 are masks.
LEMMA MasksOfV4 ==
    /\ PrefixMask(Bits) \in Masks
    /\ \A m \in SUBSET (0..(Bits - 1)) : V4Mask(m) \in Masks
    /\ \A m \in SUBSET (0..(V4Bits - 1)) : V4Mask(m) \in Masks
<1>1. Bits \in Nat /\ V4Bits \in Nat /\ V4Bits <= Bits
  OBVIOUS
<1>2. V4Bits..(Bits - 1) \subseteq 0..(Bits - 1) /\ 0..(V4Bits - 1) \subseteq 0..(Bits - 1)
  BY <1>1
<1> QED
  BY <1>1, <1>2 DEF PrefixMask, V4Mask, Masks

\* The object of an interface: its broadcast address is that of the kernel, or
\* none.
LEMMA InterfaceType ==
    ASSUME NEW e \in Entries
    PROVE  /\ Interface(e) \in InterfaceObjects
           /\ Interface(e).name = e.name
           /\ "broadcast" \in e.flags /\ e.peer # NoPointer =>
                    Interface(e).broadcast = e.peer
           /\ ~("broadcast" \in e.flags /\ e.peer # NoPointer) =>
                    Interface(e).broadcast = NoAddress
<1>1. NoAddress \in Ips
  BY DEF NoAddress, Ips
<1>2. /\ e.name \in STRING /\ e.flags \in Flags /\ e.ip \in Ips
      /\ e.mask \in Masks \cup {NoPointer} /\ e.peer \in Ips \cup {NoPointer}
  BY DEF Entries
<1> DEFINE mask == IF e.mask = NoPointer THEN PrefixMask(Bits)
                   ELSE IF e.family = "inet" THEN V4Mask(e.mask)
                   ELSE e.mask
           broadcast == IF "broadcast" \in e.flags /\ e.peer # NoPointer THEN e.peer ELSE NoAddress
           destination == IF "pointopoint" \in e.flags /\ e.peer # NoPointer THEN e.peer ELSE NoAddress
<1>3. mask \in Masks
  <2>1. CASE e.mask = NoPointer
    BY <2>1, MasksOfV4
  <2>2. CASE e.mask # NoPointer
    <3>1. e.mask \in Masks
      BY <1>2, <2>2
    <3>2. V4Mask(e.mask) \in Masks
      BY <3>1, MasksOfV4 DEF Masks
    <3> QED
      BY <2>2, <3>1, <3>2
  <2> QED
    BY <2>1, <2>2
<1>4. broadcast \in Ips /\ destination \in Ips
  BY <1>1, <1>2
<1>5. Interface(e) = [name |-> e.name, flags |-> e.flags,
                      address |-> [ip |-> e.ip, mask |-> mask],
                      broadcast |-> broadcast, destination |-> destination]
  BY DEF Interface
<1>6. /\ "broadcast" \in e.flags /\ e.peer # NoPointer => broadcast = e.peer
      /\ ~("broadcast" \in e.flags /\ e.peer # NoPointer) => broadcast = NoAddress
  OBVIOUS
<1> HIDE DEF mask, broadcast, destination
<1>7. [ip |-> e.ip, mask |-> mask] \in Addrs
  BY <1>2, <1>3 DEF Addrs
<1>8. Interface(e) \in InterfaceObjects
  BY <1>2, <1>4, <1>5, <1>7 DEF InterfaceObjects
<1>9. Interface(e).name = e.name /\ Interface(e).broadcast = broadcast
  BY <1>5
<1> QED
  BY <1>6, <1>8, <1>9

\* A line of the kernel makes a route.
LEMMA RouteType ==
    ASSUME NEW line \in Lines
    PROVE  /\ Route(line) \in RouteObjects
           /\ Route(line).iface = line.iface
           /\ Route(line).destination.ip = line.destination
           /\ line.flags < 10 => Route(line).flags = line.flags
<1>1. /\ line.iface \in STRING /\ line.destination \in FirstV4..LastV4
      /\ line.mask \in SUBSET (0..(V4Bits - 1)) /\ line.gateway \in FirstV4..LastV4
      /\ line.flags \in RouteFlags
  BY DEF Lines
<1>2. line.flags \in Nat
  BY <1>1, FlagsAreNumbers
<1>3. FirstV4..LastV4 \subseteq Ips
  BY DEF Ips
<1>4. V4Mask(line.mask) \in Masks
  BY <1>1, MasksOfV4
<1>5. Stol(HexDigits(line.flags)) \in Nat
      /\ (line.flags < 10 => Stol(HexDigits(line.flags)) = line.flags)
  BY <1>2, FlagsRead
<1>6. [ip |-> line.destination, mask |-> V4Mask(line.mask)] \in Addrs
  BY <1>1, <1>3, <1>4 DEF Addrs
<1> QED
  BY <1>1, <1>3, <1>5, <1>6 DEF Route, RouteObjects

\* What is read from a configuration of the network.
LEMMA ConfigType ==
    ASSUME NEW c \in Configs
    PROVE  /\ c.entries \in Seq(Entries) /\ c.routes \in Seq(Lines)
           /\ Interfaces(c) \in Seq(InterfaceObjects)
           /\ GetIpv4Routes(c) \in Seq(RouteObjects)
           /\ DOMAIN GetIpv4Routes(c) = DOMAIN c.routes
           /\ \A k \in DOMAIN c.routes :
                /\ c.routes[k] \in Lines
                /\ GetIpv4Routes(c)[k] = Route(c.routes[k])
<1>1. c.entries \in Seq(Entries) /\ c.routes \in Seq(Lines)
  OBVIOUS
<1> DEFINE objects == [k \in DOMAIN c.entries |-> Interface(c.entries[k])]
<1>2. \A k \in DOMAIN c.entries : c.entries[k] \in Entries
  BY <1>1, ElementOfSeq
<1>3. objects \in Seq(InterfaceObjects) /\ Len(objects) = Len(c.entries)
  <2>1. \A k \in 1..Len(c.entries) : Interface(c.entries[k]) \in InterfaceObjects
    BY <1>1, <1>2, InterfaceType
  <2>2. DOMAIN c.entries = 1..Len(c.entries) /\ Len(c.entries) \in Nat
    BY <1>1
  <2> QED
    BY <2>1, <2>2
<1>4. Listed(c) \in SUBSET (1..Len(objects))
  BY <1>1, <1>3 DEF Listed
<1> HIDE DEF objects
<1>5. Selected(objects, Listed(c)) \in Seq(InterfaceObjects)
  BY <1>3, <1>4, SelectedPlaces
<1>6. Interfaces(c) \in Seq(InterfaceObjects)
  BY <1>5 DEF Interfaces, objects
<1>7. \A k \in DOMAIN c.routes : c.routes[k] \in Lines
  BY <1>1, ElementOfSeq
<1>8. GetIpv4Routes(c) \in Seq(RouteObjects)
  <2>1. \A k \in 1..Len(c.routes) : Route(c.routes[k]) \in RouteObjects
    BY <1>1, <1>7, RouteType
  <2>2. DOMAIN c.routes = 1..Len(c.routes) /\ Len(c.routes) \in Nat
    BY <1>1
  <2> QED
    BY <2>1, <2>2 DEF GetIpv4Routes
<1> QED
  BY <1>1, <1>6, <1>7, <1>8 DEF GetIpv4Routes

-----------------------------------------------------------------------------
(* The searches: what a search of a list finds                             *)

\* A search gives 0 or the place of an element.
LEMMA SearchBounds ==
    ASSUME NEW l \in Seq(InterfaceObjects), NEW ip \in Ips
    PROVE  /\ FindByAddress(l, ip) # 0 => FindByAddress(l, ip) \in DOMAIN l
           /\ FindByAddress(l, ip) = 0 <=> Matching(l, ip) = {}
           /\ \A k \in Matching(l, ip) : FindByAddress(l, ip) <= k
           /\ At(l, FindByAddress(l, ip)) \in InterfaceObjects \cup {NoPointer}
           /\ FindByAddress(l, ip) # 0 => At(l, FindByAddress(l, ip)) = l[FindByAddress(l, ip)]
           /\ FindByAddress(l, ip) # 0 => FindByAddress(l, ip) \in Matching(l, ip)
<1> DEFINE k == FindByAddress(l, ip)
<1>1. Matching(l, ip) \subseteq DOMAIN l
  BY DEF Matching
<1>2. Matching(l, ip) \in SUBSET (Nat \ {0})
  BY <1>1
<1>3. /\ k = 0 <=> Matching(l, ip) = {}
      /\ Matching(l, ip) # {} => /\ k \in Matching(l, ip)
                                 /\ \A j \in Matching(l, ip) : k <= j
  BY <1>2, FirstPlace DEF FindByAddress
<1> HIDE DEF k
<1>4. k # 0 => k \in DOMAIN l /\ l[k] \in InterfaceObjects
  BY <1>1, <1>3, ElementOfSeq
<1>5. At(l, k) \in InterfaceObjects \cup {NoPointer} /\ (k # 0 => At(l, k) = l[k])
  BY <1>4 DEF At
<1>6. /\ k # 0 => k \in DOMAIN l
      /\ k = 0 <=> Matching(l, ip) = {}
      /\ \A j \in Matching(l, ip) : k <= j
      /\ k # 0 => k \in Matching(l, ip)
  BY <1>3, <1>4
<1> QED
  BY <1>5, <1>6 DEF k

\* In the list of a configuration, the search finds the first entry of the
\* kernel whose network has the IP.
LEMMA SearchFinds ==
    ASSUME kernel \in Configs, NEW ip \in Ips
    PROVE  LET l == Interfaces(kernel)
               k == FindByAddress(l, ip)
           IN  /\ k = 0 <=> Owners(ip) = {}
               /\ k # 0 => /\ Min(Owners(ip)) \in Owners(ip)
                           /\ At(l, k) = Interface(kernel.entries[Min(Owners(ip))])
<1> DEFINE objects == [j \in DOMAIN kernel.entries |-> Interface(kernel.entries[j])]
           places == Listed(kernel)
           l == Interfaces(kernel)
           k == FindByAddress(l, ip)
           rank(j) == Rank(objects, places, j)
           first == Min(Owners(ip))
           Has(object) == AddrMatch(object.address, [DefaultAddr EXCEPT !.ip = ip])
<1>1. kernel.entries \in Seq(Entries) /\ l \in Seq(InterfaceObjects)
  BY ConfigType
<1>2. objects \in Seq(InterfaceObjects) /\ Len(objects) = Len(kernel.entries)
  <2>1. \A j \in 1..Len(kernel.entries) : Interface(kernel.entries[j]) \in InterfaceObjects
    <3>1. \A j \in 1..Len(kernel.entries) : kernel.entries[j] \in Entries
      BY <1>1, ElementOfSeq
    <3> QED
      BY <3>1, InterfaceType
  <2>2. DOMAIN kernel.entries = 1..Len(kernel.entries) /\ Len(kernel.entries) \in Nat
    BY <1>1
  <2> QED
    BY <2>1, <2>2
<1>3. places \in SUBSET (1..Len(objects))
  BY <1>1, <1>2 DEF Listed
<1>4. \A j \in places : objects[j] = Interface(kernel.entries[j])
  BY DEF Listed
<1>5. Owners(ip) = {j \in places : Has(objects[j])}
  BY DEF Owners, Listed
<1>6. Matching(l, ip) = {j \in DOMAIN l : Has(l[j])}
  BY DEF Matching
<1>7. l = Selected(objects, places)
  BY DEF Interfaces
<1> HIDE DEF objects, places, Has, l
<1>8. /\ \A j \in places : rank(j) \in DOMAIN l /\ l[rank(j)] = objects[j]
      /\ \A m \in DOMAIN l : \E j \in places : rank(j) = m
      /\ \A i, j \in places : i < j => rank(i) < rank(j)
  BY <1>2, <1>3, <1>7, SelectedPlaces
<1> HIDE DEF rank
<1>9. \A j \in Owners(ip) : rank(j) \in Matching(l, ip)
  BY <1>5, <1>6, <1>8
<1>10. \A m \in Matching(l, ip) : \E j \in Owners(ip) : rank(j) = m
  BY <1>5, <1>6, <1>8
<1>11. /\ k = 0 <=> Matching(l, ip) = {}
       /\ \A m \in Matching(l, ip) : k <= m
       /\ k # 0 => k \in Matching(l, ip) /\ At(l, k) = l[k]
  BY <1>1, SearchBounds
<1>12. Owners(ip) \in SUBSET (Nat \ {0})
  <2>1. 1..Len(objects) \subseteq Nat \ {0}
    BY <1>2
  <2> QED
    BY <1>3, <1>5, <2>1
<1> HIDE DEF k
<1>13. ASSUME k # 0
       PROVE  first \in Owners(ip) /\ At(l, k) = Interface(kernel.entries[first])
  <2>1. PICK j \in Owners(ip) : rank(j) = k
    BY <1>10, <1>11, <1>13
  <2>2. first \in Owners(ip) /\ \A i \in Owners(ip) : first <= i
    <3>1. Owners(ip) # {}
      BY <2>1
    <3> QED
      BY <1>12, <3>1, FirstPlace DEF First
  <2>3. first = j
    <3>1. first \in Nat /\ j \in Nat /\ first <= j
      BY <1>12, <2>1, <2>2
    <3>2. k <= rank(first)
      BY <1>9, <1>11, <2>2
    <3>3. first \in places /\ j \in places
      BY <1>5, <2>1, <2>2
    <3>4. rank(first) \in Nat /\ rank(j) \in Nat
      BY <1>1, <1>8, <3>3
    <3>5. ~(first < j)
      BY <1>8, <2>1, <3>2, <3>3, <3>4
    <3> QED
      BY <3>1, <3>5
  <2>4. l[k] = Interface(kernel.entries[j])
    BY <1>4, <1>5, <1>8, <2>1
  <2> QED
    BY <1>11, <1>13, <2>2, <2>3, <2>4
<1>14. k = 0 <=> Owners(ip) = {}
  BY <1>9, <1>10, <1>11
<1> QED
  BY <1>13, <1>14 DEF k, l

\* The interface of the default route is one of the list, or none.
LEMMA DefaultType ==
    ASSUME NEW l \in Seq(InterfaceObjects), NEW rs
    PROVE  DefaultInterface(l, rs) \in InterfaceObjects \cup {NoPointer}
<1> DEFINE k == FindDefaultRoute(rs)
           named == {j \in DOMAIN l : l[j].name = rs[k].iface}
           m == FindByName(l, rs[k].iface)
<1>1. (m = 0 <=> named = {}) /\ (named # {} => m \in named)
  <2>1. named \in SUBSET (Nat \ {0})
    OBVIOUS
  <2> QED
    BY <2>1, FirstPlace DEF FindByName
<1>2. DefaultInterface(l, rs) = IF k = 0 THEN NoPointer ELSE At(l, m)
  BY DEF DefaultInterface
<1> HIDE DEF k, m
<1>3. m # 0 => l[m] \in InterfaceObjects
  BY <1>1, ElementOfSeq
<1> QED
  BY <1>2, <1>3 DEF At

\* The interface of the default route has the name of a route of the kernel to
\* 0.0.0.0.
LEMMA DefaultFound ==
    ASSUME kernel \in Configs, NEW rs \in {<<>>, GetIpv4Routes(kernel)},
           NEW l \in Seq(InterfaceObjects)
    PROVE  /\ DefaultInterface(l, rs) \in InterfaceObjects \cup {NoPointer}
           /\ DefaultInterface(l, rs) # NoPointer =>
                \E k \in DOMAIN kernel.routes :
                    /\ kernel.routes[k].destination = FirstV4
                    /\ kernel.routes[k].iface = DefaultInterface(l, rs).name
<1> DEFINE default == {j \in DOMAIN rs : IsDefault(rs[j].destination)}
           k == FindDefaultRoute(rs)
           named == {j \in DOMAIN l : l[j].name = rs[k].iface}
           m == FindByName(l, rs[k].iface)
<1>1. rs \in Seq(RouteObjects)
  <2>1. GetIpv4Routes(kernel) \in Seq(RouteObjects)
    BY ConfigType
  <2>2. <<>> \in Seq(RouteObjects)
    OBVIOUS
  <2> QED
    BY <2>1, <2>2
<1>2. (k = 0 <=> default = {}) /\ (default # {} => k \in default)
  <2>1. default \in SUBSET (Nat \ {0})
    BY <1>1
  <2> QED
    BY <2>1, FirstPlace DEF FindDefaultRoute
<1>3. (m = 0 <=> named = {}) /\ (named # {} => m \in named)
  <2>1. named \in SUBSET (Nat \ {0})
    OBVIOUS
  <2> QED
    BY <2>1, FirstPlace DEF FindByName
<1>4. DefaultInterface(l, rs) = IF k = 0 THEN NoPointer ELSE At(l, m)
  BY DEF DefaultInterface
<1> HIDE DEF k, m
<1>5. CASE k = 0
  BY <1>4, <1>5
<1>6. CASE k # 0 /\ m = 0
  BY <1>4, <1>6 DEF At
<1>7. CASE k # 0 /\ m # 0
  <2>1. k \in DOMAIN rs /\ IsDefault(rs[k].destination)
    BY <1>2, <1>7
  <2>2. k \in DOMAIN kernel.routes /\ rs[k] = Route(kernel.routes[k])
        /\ kernel.routes[k] \in Lines
    <3>1. rs = GetIpv4Routes(kernel)
      BY <2>1
    <3> QED
      BY <2>1, <3>1, ConfigType
  <2>3. kernel.routes[k].destination = FirstV4
    <3>1. kernel.routes[k].destination \in {0, FirstV4}
      BY <2>1, <2>2, RouteType DEF IsDefault
    <3>2. kernel.routes[k].destination \in FirstV4..LastV4
      BY <2>2 DEF Lines
    <3>3. FirstV4 \in Nat /\ LastV4 \in Nat
      OBVIOUS
    <3> QED
      BY <3>1, <3>2, <3>3
  <2>4. m \in DOMAIN l /\ l[m].name = rs[k].iface
    BY <1>3, <1>7
  <2>5. DefaultInterface(l, rs) = l[m] /\ l[m] \in InterfaceObjects
    BY <1>4, <1>7, <2>4, ElementOfSeq DEF At
  <2>6. kernel.routes[k].iface = l[m].name
    BY <2>2, <2>4, RouteType
  <2> QED
    BY <2>2, <2>3, <2>5, <2>6
<1> QED
  BY <1>5, <1>6, <1>7

-----------------------------------------------------------------------------
(* The searches: the inductive invariant                                   *)

\* The list is that of the kernel, as long as the kernel did not change.
ListKept ==
    /\ "list" \notin stale => cache \in {NoPointer, Interfaces(kernel)}
    /\ step \in {"search", "routes", "default", "answered"} /\ "list" \notin stale =>
            list \in {NoPointer, Interfaces(kernel)}

\* The same of the routes; they are read once no interface was found.
RoutesKept ==
    /\ step \notin {"default", "answered"} => routes = <<>>
    /\ "list" \notin stale => routes \in {<<>>, GetIpv4Routes(kernel)}

\* What was found so far is what the list and the routes which were read say.
FoundKept ==
    /\ step \in {"routes", "default"} =>
            /\ list # NoPointer
            /\ asked.allowDefault
            /\ FindByAddress(list, asked.ip) = 0
    /\ step = "answered" =>
            /\ list # NoPointer
            /\ found = IF FindByAddress(list, asked.ip) = 0 /\ asked.allowDefault
                       THEN DefaultInterface(list, routes)
                       ELSE At(list, FindByAddress(list, asked.ip))

\* The names are those of the first indexes; the search ends at a gap.
NamesKept ==
    step \in {"names", "named"} /\ "names" \notin stale =>
        /\ \A k \in 1..Len(names) : k \in DOMAIN kernel.names /\ names[k] = kernel.names[k]
        /\ step = "named" => Len(names) + 1 \notin DOMAIN kernel.names

SearchInv == SearchTypeOK /\ ListKept /\ RoutesKept /\ FoundKept /\ NamesKept

\* Nothing is asked at the start.
LEMMA SearchInitially == SearchInit => SearchInv
<1> SUFFICES ASSUME SearchInit PROVE SearchInv
  OBVIOUS
<1>1. SearchTypeOK
  <2>1. 0 \in Ips
    BY DEF Ips
  <2>2. asked \in [ip : Ips, allowDefault : BOOLEAN]
    BY <2>1 DEF SearchInit
  <2> QED
    BY <2>2 DEF SearchInit, SearchTypeOK
<1> QED
  BY <1>1 DEF SearchInit, SearchInv, ListKept, RoutesKept, FoundKept, NamesKept

\* Each step of the search, and of the network, keeps the invariant.
LEMMA SearchPreserved == SearchInv /\ [SearchNext]_searchVars => SearchInv'
<1> SUFFICES ASSUME SearchInv, [SearchNext]_searchVars
             PROVE  SearchInv'
  OBVIOUS
<1> USE DEF SearchInv, SearchTypeOK
<1>0. /\ Interfaces(kernel) \in Seq(InterfaceObjects)
      /\ GetIpv4Routes(kernel) \in Seq(RouteObjects)
      /\ <<>> \in Seq(RouteObjects) /\ <<>> \in Seq(InterfaceObjects) /\ <<>> \in Seq(STRING)
  BY ConfigType
<1>1. CASE FindAddrInterface
  BY <1>1 DEF FindAddrInterface, ListKept, RoutesKept, FoundKept, NamesKept
<1>2. CASE GetCachedList
  BY <1>2 DEF GetCachedList, ListKept, RoutesKept, FoundKept, NamesKept
<1>3. CASE ReadList
  BY <1>0, <1>3 DEF ReadList, ListKept, RoutesKept, FoundKept, NamesKept
<1>4. CASE ReadListFails
  BY <1>4 DEF ReadListFails, ListKept, RoutesKept, FoundKept, NamesKept
<1>5. CASE Crash
  BY <1>5 DEF Crash, ListKept, RoutesKept, FoundKept, NamesKept
<1>6. CASE Restart
  BY <1>6 DEF Restart, ListKept, RoutesKept, FoundKept, NamesKept
<1>7. CASE Search
  <2> DEFINE k == FindByAddress(list, asked.ip)
  <2>1. list \in Seq(InterfaceObjects) /\ asked.ip \in Ips
    BY <1>7 DEF Search
  <2>2. At(list, k) \in InterfaceObjects \cup {NoPointer}
    BY <2>1, SearchBounds
  <2>3. /\ step = "search" /\ list # NoPointer
        /\ found' = At(list, k)
        /\ step' = IF k = 0 /\ asked.allowDefault THEN "routes" ELSE "answered"
        /\ UNCHANGED <<kernel, cache, asked, list, routes, names, stale>>
    BY <1>7 DEF Search
  <2>4. FindByAddress(list, asked.ip)' = k
    BY <2>3
  <2> HIDE DEF k
  <2>5. SearchTypeOK'
    BY <2>2, <2>3
  <2>6. ListKept' /\ RoutesKept' /\ NamesKept'
    BY <2>3 DEF ListKept, RoutesKept, NamesKept
  <2>7. FoundKept'
    BY <2>3, <2>4 DEF FoundKept
  <2> QED
    BY <2>5, <2>6, <2>7
<1>8. CASE ReadRoutes
  BY <1>0, <1>8 DEF ReadRoutes, ListKept, RoutesKept, FoundKept, NamesKept
<1>9. CASE UseDefault
  <2>1. /\ list # NoPointer /\ list \in Seq(InterfaceObjects)
        /\ FindByAddress(list, asked.ip) = 0 /\ asked.allowDefault
    BY <1>9 DEF UseDefault, FoundKept
  <2>2. found' = DefaultInterface(list, routes) /\ step' = "answered"
        /\ UNCHANGED <<kernel, cache, asked, list, routes, names, stale>>
    BY <1>9 DEF UseDefault
  <2>3. DefaultInterface(list, routes) \in InterfaceObjects \cup {NoPointer}
    BY <2>1, DefaultType
  <2>4. SearchTypeOK'
    BY <2>2, <2>3
  <2>5. ListKept' /\ RoutesKept' /\ NamesKept'
    BY <1>9, <2>2 DEF UseDefault, ListKept, RoutesKept, NamesKept
  <2>6. FoundKept'
    BY <2>1, <2>2 DEF FoundKept
  <2> QED
    BY <2>4, <2>5, <2>6
<1>10. CASE StartNames
  BY <1>0, <1>10 DEF StartNames, ListKept, RoutesKept, FoundKept, NamesKept
<1>11. CASE NextName
  <2> DEFINE index == Len(names) + 1
  <2>1. /\ step = "names"
        /\ IF index \in DOMAIN kernel.names
           THEN names' = Append(names, kernel.names[index]) /\ UNCHANGED step
           ELSE step' = "named" /\ UNCHANGED names
        /\ UNCHANGED <<kernel, cache, asked, list, routes, found, stale>>
    BY <1>11 DEF NextName
  <2>2. ListKept' /\ RoutesKept' /\ FoundKept'
    BY <2>1 DEF ListKept, RoutesKept, FoundKept
  <2>3. CASE index \in DOMAIN kernel.names
    <3>1. kernel.names[index] \in STRING
      BY <2>3
    <3>2. /\ names' \in Seq(STRING) /\ Len(names') = index /\ names'[index] = kernel.names[index]
          /\ \A k \in 1..Len(names) : names'[k] = names[k]
      <4> DEFINE longer == Append(names, kernel.names[index])
      <4>1. /\ longer \in Seq(STRING) /\ Len(longer) = index
            /\ longer[index] = kernel.names[index]
            /\ \A k \in 1..Len(names) : longer[k] = names[k]
        BY <3>1, AppendProperties
      <4>2. names' = longer
        BY <2>1, <2>3
      <4> QED
        BY <4>1, <4>2
    <3>3. SearchTypeOK'
      BY <2>1, <2>3, <3>2
    <3>4. NamesKept'
      <4>1. \A k \in 1..index : k = index \/ k \in 1..Len(names)
        OBVIOUS
      <4>2. step' = "names"
        BY <2>1, <2>3
      <4> HIDE DEF index
      <4> QED
        BY <2>1, <2>3, <3>2, <4>1, <4>2 DEF NamesKept
    <3> QED
      BY <2>2, <3>3, <3>4
  <2>4. CASE index \notin DOMAIN kernel.names
    BY <2>1, <2>2, <2>4 DEF NamesKept
  <2> QED
    BY <2>3, <2>4
<1>12. CASE Resume
  BY <1>0, <1>12 DEF Resume, ListKept, RoutesKept, FoundKept, NamesKept
<1>13. CASE NetworkChange
  BY <1>13 DEF NetworkChange, ListKept, RoutesKept, FoundKept, NamesKept
<1>14. CASE Expire
  BY <1>14 DEF Expire, ListKept, RoutesKept, FoundKept, NamesKept
<1>15. CASE UNCHANGED searchVars
  BY <1>15 DEF searchVars, ListKept, RoutesKept, FoundKept, NamesKept
<1> QED
  BY <1>1, <1>2, <1>3, <1>4, <1>5, <1>6, <1>7, <1>8, <1>9, <1>10, <1>11, <1>12,
     <1>13, <1>14, <1>15 DEF SearchNext

\* So it always holds.
LEMMA SearchInvariant == SearchSpec => []SearchInv
BY SearchInitially, SearchPreserved, PTL DEF SearchSpec

\* Every variable of the searches keeps its type: a search never stops at an
\* element which the list does not have.
THEOREM SearchTypeCorrect == SearchSpec => []SearchTypeOK
<1>1. SearchInv => SearchTypeOK
  BY DEF SearchInv
<1> QED
  BY <1>1, SearchInvariant, PTL

-----------------------------------------------------------------------------
(* The searches: the answers                                               *)

\* An answer which was found while the network did not change: with no owner of
\* the IP in the kernel, it can only come from the default route.
LEMMA AnswerOf ==
    ASSUME SearchInv, step = "answered", "list" \notin stale
    PROVE  IF Owners(asked.ip) # {}
           THEN /\ Min(Owners(asked.ip)) \in Owners(asked.ip)
                /\ found = Interface(kernel.entries[Min(Owners(asked.ip))])
           ELSE found = IF asked.allowDefault THEN DefaultInterface(list, routes)
                        ELSE NoPointer
<1> DEFINE k == FindByAddress(list, asked.ip)
<1>1. list = Interfaces(kernel) /\ kernel \in Configs /\ asked.ip \in Ips
  BY DEF SearchInv, SearchTypeOK, ListKept, FoundKept
<1>2. found = IF k = 0 /\ asked.allowDefault THEN DefaultInterface(list, routes)
              ELSE At(list, k)
  BY DEF SearchInv, FoundKept
<1>3. /\ k = 0 <=> Owners(asked.ip) = {}
      /\ k # 0 => /\ Min(Owners(asked.ip)) \in Owners(asked.ip)
                  /\ At(list, k) = Interface(kernel.entries[Min(Owners(asked.ip))])
  BY <1>1, SearchFinds
<1>4. k = 0 => At(list, k) = NoPointer
  BY DEF At
<1> HIDE DEF k
<1> QED
  BY <1>2, <1>3, <1>4

\* The interface found.
LEMMA FoundIsRight ==
    ASSUME SearchInv, step = "answered", "list" \notin stale
    PROVE  FoundRight
<1>1. CASE Owners(asked.ip) # {}
  BY <1>1, AnswerOf DEF FoundRight
<1>2. CASE Owners(asked.ip) = {}
  <2>1. ASSUME found # NoPointer
        PROVE  /\ asked.allowDefault
               /\ \E k \in DOMAIN kernel.routes :
                    /\ kernel.routes[k].destination = FirstV4
                    /\ kernel.routes[k].iface = found.name
    <3>1. asked.allowDefault /\ found = DefaultInterface(list, routes)
      BY <1>2, <2>1, AnswerOf
    <3>2. /\ kernel \in Configs /\ routes \in {<<>>, GetIpv4Routes(kernel)}
          /\ list \in Seq(InterfaceObjects)
      BY DEF SearchInv, SearchTypeOK, RoutesKept, FoundKept
    <3> QED
      BY <2>1, <3>1, <3>2, DefaultFound
  <2> QED
    BY <1>2, <2>1 DEF FoundRight
<1> QED
  BY <1>1, <1>2

\* The flags of the routes.
LEMMA FlagsAreRight ==
    ASSUME SearchInv, step = "answered", "list" \notin stale
    PROVE  FlagsRight
<1>1. kernel \in Configs /\ routes \in {<<>>, GetIpv4Routes(kernel)}
  BY DEF SearchInv, SearchTypeOK, RoutesKept
<1>2. ASSUME NEW k \in DOMAIN routes
      PROVE  kernel.routes[k].flags < 10 => routes[k].flags = kernel.routes[k].flags
  <2>1. routes = GetIpv4Routes(kernel)
    BY <1>1, <1>2
  <2>2. k \in DOMAIN kernel.routes /\ routes[k] = Route(kernel.routes[k])
        /\ kernel.routes[k] \in Lines
    BY <1>1, <1>2, <2>1, ConfigType
  <2> QED
    BY <2>2, RouteType
<1> QED
  BY <1>2 DEF FlagsRight

\* Whether the address asked about is a broadcast address.
LEMMA BroadcastIsRight ==
    ASSUME SearchInv, step = "answered", "list" \notin stale, ~asked.allowDefault
    PROVE  BroadcastRight
<1> DEFINE broadcasts == {k \in DOMAIN kernel.entries :
                /\ "broadcast" \in kernel.entries[k].flags
                /\ kernel.entries[k].peer = asked.ip}
           first == Min(Owners(asked.ip))
           e == kernel.entries[first]
<1>1. kernel \in Configs /\ asked.ip \in Ips
  BY DEF SearchInv, SearchTypeOK
<1>2. CASE Owners(asked.ip) = {}
  <2>1. found = NoPointer
    BY <1>2, AnswerOf
  <2> QED
    BY <1>2, <2>1 DEF BroadcastRight, IsBroadcastAddress
<1>3. CASE Owners(asked.ip) # {}
  <2>1. first \in Owners(asked.ip) /\ found = Interface(e)
    BY <1>3, AnswerOf
  <2>2. first \in DOMAIN kernel.entries
    BY <2>1 DEF Owners
  <2>3. e \in Entries
    BY <1>1, <2>2, ConfigType, ElementOfSeq
  <2>4. found \in InterfaceObjects
        /\ ("broadcast" \in e.flags /\ e.peer # NoPointer => found.broadcast = e.peer)
        /\ (~("broadcast" \in e.flags /\ e.peer # NoPointer) => found.broadcast = NoAddress)
    BY <2>1, <2>3, InterfaceType
  <2>5. found # NoPointer /\ asked.ip # NoPointer
    BY <1>1, <2>4
  <2>6. ASSUME Owners(asked.ip) = broadcasts
        PROVE  IsBroadcastAddress
    <3>1. "broadcast" \in e.flags /\ e.peer = asked.ip
      BY <2>1, <2>6
    <3> QED
      BY <2>4, <2>5, <3>1 DEF IsBroadcastAddress
  <2>7. ASSUME IsBroadcastAddress
        PROVE  broadcasts # {} \/ asked.ip = NoAddress
    <3>1. found.broadcast = asked.ip
      BY <2>7 DEF IsBroadcastAddress
    <3>2. CASE "broadcast" \in e.flags /\ e.peer # NoPointer
      BY <2>2, <2>4, <3>1, <3>2
    <3>3. CASE ~("broadcast" \in e.flags /\ e.peer # NoPointer)
      BY <2>4, <3>1, <3>3
    <3> QED
      BY <3>2, <3>3
  <2> QED
    BY <2>6, <2>7 DEF BroadcastRight
<1> QED
  BY <1>2, <1>3

\* The names and their indexes.
LEMMA NamesAreRight ==
    ASSUME SearchInv, step = "named", "names" \notin stale
    PROVE  NamesRight
<1>1. /\ \A j, k \in DOMAIN kernel.names : kernel.names[j] = kernel.names[k] => j = k
      /\ names \in Seq(STRING)
  BY DEF SearchInv, SearchTypeOK
<1>2. /\ \A k \in 1..Len(names) : k \in DOMAIN kernel.names /\ names[k] = kernel.names[k]
      /\ Len(names) + 1 \notin DOMAIN kernel.names
  BY DEF SearchInv, NamesKept
<1>3. DOMAIN names = 1..Len(names)
  BY <1>1
<1>4. ASSUME NEW k \in DOMAIN names
      PROVE  GetInterfaceIndexByName(kernel, names[k]) = k
  <2>1. k \in DOMAIN kernel.names /\ kernel.names[k] = names[k]
    BY <1>2, <1>3
  <2>2. \A j \in DOMAIN kernel.names : kernel.names[j] = names[k] => j = k
    BY <1>1, <2>1
  <2> QED
    BY <2>1, <2>2 DEF GetInterfaceIndexByName
<1> QED
  BY <1>2, <1>3, <1>4 DEF NamesRight

\* While the network does not change, the answers are right: the interface
\* found is the first whose network has the IP, or that of a default route; the
\* broadcast addresses, the flags of the routes and the names are the kernel's.
THEOREM AnswersAreRight == SearchSpec => []AnswerRight
<1>1. ASSUME SearchInv PROVE AnswerRight
  BY <1>1, FoundIsRight, FlagsAreRight, BroadcastIsRight, NamesAreRight DEF AnswerRight
<1> QED
  BY <1>1, SearchInvariant, PTL

=============================================================================
