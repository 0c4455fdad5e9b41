-------------------------- MODULE StreamInfoProofs --------------------------
(***************************************************************************)
(* Proofs about StreamInfo, for any streams, modes, separators and places. *)
(*                                                                         *)
(* IInv is inductive: TypeOK needs the callback to be registered once for  *)
(* what the copies of copyfmt_event are, and OwnedOnce needs TypeOK.       *)
(***************************************************************************)
EXTENDS StreamInfo, FiniteSetTheorems, TLAPS

IInv == TypeOK /\ OwnedOnce

\* What copyfmt_event does on a stream whose callback is registered once, or
\* never when it has no info: at most one copy, which is not shared.
LEMMA CopiesOnce ==
    ASSUME NEW s, NEW info, NEW times, NEW h,
           times = 0 <=> info = NoInfo, times \in {0, 1},
           CopyfmtEvent(s, info, times, h)
    PROVE  \/ /\ info = NoInfo
              /\ pword' = [pword EXCEPT ![s] = NoInfo]
              /\ heap' = h
           \/ /\ info # NoInfo
              /\ \E i \in Infos :
                    /\ h[i] = Freed
                    /\ pword' = [pword EXCEPT ![s] = i]
                    /\ heap' = [j \in Infos |-> IF j = i THEN h[info] ELSE h[j]]
<1>1. CASE info = NoInfo
  BY <1>1 DEF CopyfmtEvent
<1>2. CASE info # NoInfo
  <2>1. times = 1
    BY <1>2
  <2>2. PICK copies \in SUBSET {i \in Infos : h[i] = Freed} :
            /\ Cardinality(copies) = 1
            /\ \E last \in copies : pword' = [pword EXCEPT ![s] = last]
            /\ heap' = [i \in Infos |-> IF i \in copies THEN h[info] ELSE h[i]]
    BY <1>2, <2>1 DEF CopyfmtEvent
  <2>3. PICK last \in copies : pword' = [pword EXCEPT ![s] = last]
    BY <2>2
  <2>4. copies = {last}
    <3>1. IsFiniteSet(copies)
      BY StreamInfoAssumption, FS_Subset
    <3> QED
      BY <2>2, <2>3, <3>1, FS_Singleton
  <2> QED
    BY <1>2, <2>2, <2>3, <2>4
<1> QED
  BY <1>1, <1>2

\* A stream is given the only pointer to a new info, or the flags of the info
\* it has change.
LEMMA SetFlagsKeepsIInv ==
    ASSUME IInv, NEW s \in Streams, NEW flags \in Flags, SetFlags(s, flags)
    PROVE  IInv'
<1> USE StreamInfoAssumption DEF IInv, OwnedOnce
<1>1. CASE pword[s] = NoInfo
  <2>1. PICK i \in Infos :
            /\ heap[i] = Freed
            /\ heap' = [heap EXCEPT ![i] = flags]
            /\ pword' = [pword EXCEPT ![s] = i]
            /\ callbacks' = [callbacks EXCEPT ![s] = @ + 1]
            /\ printed' = printed
    BY <1>1 DEF SetFlags
  <2>2. callbacks[s] = 0
    BY <1>1 DEF NoLeak, TypeOK
  <2>3. \A t \in Streams : pword[t] # i
    BY <2>1 DEF NoDangling, TypeOK
  <2>4. TypeOK'
    BY <2>1, <2>2 DEF TypeOK
  <2>5. NoDangling' /\ NoSharing'
    BY <2>1, <2>3 DEF TypeOK, NoDangling, NoSharing
  <2>6. NoLeak'
    BY <1>1, <2>1, <2>2, <2>3 DEF TypeOK, NoLeak
  <2> QED
    BY <2>4, <2>5, <2>6
<1>2. CASE pword[s] # NoInfo
  <2>1. /\ heap' = [heap EXCEPT ![pword[s]] = flags]
        /\ UNCHANGED <<pword, callbacks, printed>>
    BY <1>2 DEF SetFlags
  <2>2. TypeOK'
    BY <2>1 DEF TypeOK
  <2>3. NoDangling' /\ NoSharing' /\ NoLeak'
    BY <1>2, <2>1 DEF TypeOK, NoDangling, NoSharing, NoLeak
  <2> QED
    BY <2>2, <2>3
<1> QED
  BY <1>1, <1>2

\* The flags which a manipulator sets are those of its stream only.
LEMMA SetFlagsSetsFlags ==
    ASSUME IInv, NEW s \in Streams, NEW flags \in Flags, SetFlags(s, flags),
           NEW t \in Streams
    PROVE  FlagsOf(t)' = IF t = s THEN flags ELSE FlagsOf(t)
<1> USE StreamInfoAssumption DEF IInv, OwnedOnce, TypeOK, NoDangling, NoSharing, FlagsOf
<1>1. CASE pword[s] = NoInfo
  <2>1. PICK i \in Infos :
            /\ heap[i] = Freed
            /\ heap' = [heap EXCEPT ![i] = flags]
            /\ pword' = [pword EXCEPT ![s] = i]
    BY <1>1 DEF SetFlags
  <2> QED
    BY <2>1
<1>2. CASE pword[s] # NoInfo
  BY <1>2 DEF SetFlags
<1> QED
  BY <1>1, <1>2

\* What is left when the info of a stream was deleted.
LEMMA Erased ==
    ASSUME IInv, NEW s \in Streams
    PROVE  /\ EraseEvent(s) \in [Infos -> Flags \cup {Freed}]
           /\ \A i \in Infos :
                EraseEvent(s)[i] = IF pword[s] = i THEN Freed ELSE heap[i]
BY StreamInfoAssumption DEF IInv, OwnedOnce, TypeOK, NoLeak, EraseEvent

LEMMA RenewKeepsIInv ==
    ASSUME IInv, NEW s \in Streams, Renew(s)
    PROVE  /\ IInv'
           /\ \A t \in Streams : FlagsOf(t)' = IF t = s THEN Default ELSE FlagsOf(t)
<1> USE StreamInfoAssumption, Erased DEF IInv, OwnedOnce, Renew
<1>1. TypeOK'
  BY DEF TypeOK
<1>2. NoDangling' /\ NoSharing'
  BY DEF TypeOK, NoDangling, NoSharing
<1>3. NoLeak'
  BY DEF TypeOK, NoLeak
<1>4. \A t \in Streams : FlagsOf(t)' = IF t = s THEN Default ELSE FlagsOf(t)
  BY DEF TypeOK, NoSharing, FlagsOf
<1> QED
  BY <1>1, <1>2, <1>3, <1>4

LEMMA CopyFmtKeepsIInv ==
    ASSUME IInv, NEW to \in Streams, NEW from \in Streams, CopyFmt(to, from)
    PROVE  /\ IInv'
           /\ \A t \in Streams : FlagsOf(t)' = IF t = to THEN FlagsOf(from) ELSE FlagsOf(t)
<1> DEFINE h == EraseEvent(to)
           info == pword[from]
<1>1. /\ to # from
      /\ callbacks' = [callbacks EXCEPT ![to] = callbacks[from]]
      /\ CopyfmtEvent(to, info, callbacks[from], h)
      /\ printed' = printed
  BY DEF CopyFmt
<1>2. /\ h \in [Infos -> Flags \cup {Freed}]
      /\ \A i \in Infos : h[i] = IF pword[to] = i THEN Freed ELSE heap[i]
  BY Erased
<1>3. (callbacks[from] = 0 <=> info = NoInfo) /\ callbacks[from] \in {0, 1}
  BY DEF IInv, OwnedOnce, TypeOK, NoLeak
<1>4. \/ /\ info = NoInfo
         /\ pword' = [pword EXCEPT ![to] = NoInfo]
         /\ heap' = h
      \/ /\ info # NoInfo
         /\ \E i \in Infos :
                /\ h[i] = Freed
                /\ pword' = [pword EXCEPT ![to] = i]
                /\ heap' = [j \in Infos |-> IF j = i THEN h[info] ELSE h[j]]
  BY <1>1, <1>3, CopiesOnce
<1> HIDE DEF h
<1> USE StreamInfoAssumption DEF IInv, OwnedOnce
<1>5. CASE info = NoInfo
  <2>1. pword' = [pword EXCEPT ![to] = NoInfo] /\ heap' = h
    BY <1>4, <1>5
  <2>2. TypeOK'
    BY <1>1, <1>2, <1>3, <2>1 DEF TypeOK
  <2>3. NoDangling' /\ NoSharing'
    BY <1>2, <2>1 DEF TypeOK, NoDangling, NoSharing
  <2>4. NoLeak'
    BY <1>1, <1>2, <1>3, <1>5, <2>1 DEF TypeOK, NoLeak
  <2>5. \A t \in Streams : FlagsOf(t)' = IF t = to THEN FlagsOf(from) ELSE FlagsOf(t)
    BY <1>2, <1>5, <2>1 DEF TypeOK, NoSharing, FlagsOf
  <2> QED
    BY <2>2, <2>3, <2>4, <2>5
<1>6. CASE info # NoInfo
  <2>1. PICK i \in Infos :
            /\ h[i] = Freed
            /\ pword' = [pword EXCEPT ![to] = i]
            /\ heap' = [j \in Infos |-> IF j = i THEN h[info] ELSE h[j]]
    BY <1>4, <1>6
  <2>2. info \in Infos /\ h[info] = heap[info] /\ heap[info] \in Flags /\ i # info
    BY <1>1, <1>2, <1>6, <2>1 DEF TypeOK, NoDangling, NoSharing
  <2>3. \A t \in Streams : t # to => pword[t] # i
    BY <1>2, <2>1 DEF TypeOK, NoDangling, NoSharing
  <2>4. TypeOK'
    BY <1>1, <1>2, <1>3, <2>1, <2>2 DEF TypeOK
  <2>5. NoDangling'
    BY <1>2, <2>1, <2>2, <2>3 DEF TypeOK, NoDangling, NoSharing
  <2>6. NoSharing'
    BY <2>1, <2>3 DEF TypeOK, NoSharing
  <2>7. NoLeak'
    BY <1>1, <1>2, <1>3, <1>6, <2>1, <2>3 DEF TypeOK, NoLeak
  <2>8. \A t \in Streams : FlagsOf(t)' = IF t = to THEN FlagsOf(from) ELSE FlagsOf(t)
    BY <1>2, <1>6, <2>1, <2>2, <2>3 DEF TypeOK, NoSharing, FlagsOf
  <2> QED
    BY <2>4, <2>5, <2>6, <2>7, <2>8
<1> QED
  BY <1>5, <1>6

LEMMA SwapKeepsIInv ==
    ASSUME IInv, NEW s \in Streams, NEW t \in Streams, Swap(s, t)
    PROVE  /\ IInv'
           /\ \A u \in Streams : FlagsOf(u)' =
                IF u = t THEN FlagsOf(s) ELSE IF u = s THEN FlagsOf(t) ELSE FlagsOf(u)
<1> USE StreamInfoAssumption DEF IInv, OwnedOnce, Swap
<1>1. TypeOK'
  BY DEF TypeOK
<1>2. NoDangling' /\ NoSharing'
  BY DEF TypeOK, NoDangling, NoSharing
<1>3. NoLeak'
  <2>1. \A u \in Streams : pword'[u] # NoInfo <=> callbacks'[u] = 1
    BY DEF TypeOK, NoLeak
  <2>2. ASSUME NEW i \in Infos, heap'[i] # Freed
        PROVE  \E u \in Streams : pword'[u] = i
    <3>1. PICK u \in Streams : pword[u] = i
      BY <2>2 DEF NoLeak
    <3>2. CASE u = s
      BY <3>1, <3>2 DEF TypeOK
    <3>3. CASE u = t
      BY <3>1, <3>3 DEF TypeOK
    <3>4. CASE u # s /\ u # t
      BY <3>1, <3>4 DEF TypeOK
    <3> QED
      BY <3>2, <3>3, <3>4
  <2> QED
    BY <2>1, <2>2 DEF NoLeak
<1>4. \A u \in Streams : FlagsOf(u)' =
        IF u = t THEN FlagsOf(s) ELSE IF u = s THEN FlagsOf(t) ELSE FlagsOf(u)
  BY DEF TypeOK, FlagsOf
<1> QED
  BY <1>1, <1>2, <1>3, <1>4

\* The flags of a stream are flags.
LEMMA FlagsOfType ==
    ASSUME IInv, NEW s \in Streams
    PROVE  FlagsOf(s) \in Flags
BY StreamInfoAssumption DEF IInv, OwnedOnce, TypeOK, NoDangling, FlagsOf

LEMMA PrintKeepsIInv ==
    ASSUME IInv, NEW s \in Streams, PrintAddresses(s)
    PROVE  IInv'
BY FlagsOfType DEF IInv, OwnedOnce, PrintAddresses, TypeOK, NoDangling, NoSharing, NoLeak

LEMMA StutterKeepsIInv ==
    ASSUME IInv, UNCHANGED vars
    PROVE  IInv'
BY DEF IInv, vars, OwnedOnce, TypeOK, NoDangling, NoSharing, NoLeak

\* IInv holds in the initial states and every step keeps it.
THEOREM Invariance == Spec => []IInv
<1>1. Init => IInv
  BY StreamInfoAssumption DEF Init, IInv, OwnedOnce, TypeOK, NoDangling, NoSharing, NoLeak
<1>2. IInv /\ [Next]_vars => IInv'
  <2> SUFFICES ASSUME IInv, [Next]_vars
               PROVE  IInv'
    OBVIOUS
  <2>1. ASSUME NEW s \in Streams, NEW mode \in Modes, SetMode(s, mode)
        PROVE  IInv'
    <3>1. [FlagsOf(s) EXCEPT !.mode = mode] \in Flags
      BY FlagsOfType DEF Flags
    <3> QED
      BY <2>1, <3>1, SetFlagsKeepsIInv DEF SetMode
  <2>2. ASSUME NEW s \in Streams, NEW sep \in Seps, SetSep(s, sep)
        PROVE  IInv'
    <3>1. [FlagsOf(s) EXCEPT !.sep = sep] \in Flags
      BY FlagsOfType DEF Flags
    <3> QED
      BY <2>2, <3>1, SetFlagsKeepsIInv DEF SetSep
  <2>3. ASSUME NEW to \in Streams, NEW from \in Streams, CopyFmt(to, from)
        PROVE  IInv'
    BY <2>3, CopyFmtKeepsIInv
  <2>4. ASSUME NEW s \in Streams, Renew(s)
        PROVE  IInv'
    BY <2>4, RenewKeepsIInv
  <2>5. ASSUME NEW s \in Streams, NEW t \in Streams, Swap(s, t)
        PROVE  IInv'
    BY <2>5, SwapKeepsIInv
  <2>6. ASSUME NEW s \in Streams, PrintAddresses(s)
        PROVE  IInv'
    BY <2>6, PrintKeepsIInv
  <2> QED
    BY <2>1, <2>2, <2>3, <2>4, <2>5, <2>6, StutterKeepsIInv DEF Next
<1> QED
  BY <1>1, <1>2, PTL DEF Spec

\* The variables of every state have their type.
THEOREM TypeCorrect == Spec => []TypeOK
BY Invariance, PTL DEF IInv

\* Every info which is allocated belongs to exactly one stream, which will
\* delete it.
THEOREM OwnedOnceAlways == Spec => []OwnedOnce
BY Invariance, PTL DEF IInv

-----------------------------------------------------------------------------
(* Refinement                                                              *)

AbstractFlags == [s \in Streams |-> FlagsOf(s)]

\* A manipulator is the abstract one.
LEMMA SetModeStep ==
    ASSUME IInv, NEW s \in Streams, NEW mode \in Modes, SetMode(s, mode)
    PROVE  Abstract!SetMode(s, mode)
<1>1. [FlagsOf(s) EXCEPT !.mode = mode] \in Flags
  BY FlagsOfType DEF Flags
<1>2. SetFlags(s, [FlagsOf(s) EXCEPT !.mode = mode])
  BY DEF SetMode
<1>3. \A t \in Streams : FlagsOf(t)' =
        IF t = s THEN [FlagsOf(s) EXCEPT !.mode = mode] ELSE FlagsOf(t)
  BY <1>1, <1>2, SetFlagsSetsFlags
<1>4. printed' = printed
  BY <1>2 DEF SetFlags
<1> QED
  BY <1>3, <1>4 DEF Abstract!SetMode

LEMMA SetSepStep ==
    ASSUME IInv, NEW s \in Streams, NEW sep \in Seps, SetSep(s, sep)
    PROVE  Abstract!SetSep(s, sep)
<1>1. [FlagsOf(s) EXCEPT !.sep = sep] \in Flags
  BY FlagsOfType DEF Flags
<1>2. SetFlags(s, [FlagsOf(s) EXCEPT !.sep = sep])
  BY DEF SetSep
<1>3. \A t \in Streams : FlagsOf(t)' =
        IF t = s THEN [FlagsOf(s) EXCEPT !.sep = sep] ELSE FlagsOf(t)
  BY <1>1, <1>2, SetFlagsSetsFlags
<1>4. printed' = printed
  BY <1>2 DEF SetFlags
<1> QED
  BY <1>3, <1>4 DEF Abstract!SetSep

\* The streams behave as if each of them had its own flags.
THEOREM Refinement == Spec => ImplementsStreamFlags
<1>1. Init => Abstract!Init
  BY DEF Init, Abstract!Init, FlagsOf
<1>2. IInv /\ [Next]_vars => [Abstract!Next]_<<AbstractFlags, printed>>
  <2> SUFFICES ASSUME IInv, [Next]_vars
               PROVE  Abstract!Next \/ UNCHANGED <<AbstractFlags, printed>>
    OBVIOUS
  <2>1. ASSUME NEW s \in Streams, NEW mode \in Modes, SetMode(s, mode)
        PROVE  Abstract!Next
    BY <2>1, SetModeStep DEF Abstract!Next
  <2>2. ASSUME NEW s \in Streams, NEW sep \in Seps, SetSep(s, sep)
        PROVE  Abstract!Next
    BY <2>2, SetSepStep DEF Abstract!Next
  <2>3. ASSUME NEW to \in Streams, NEW from \in Streams, CopyFmt(to, from)
        PROVE  Abstract!Next
    <3>1. Abstract!CopyFmt(to, from)
      BY <2>3, CopyFmtKeepsIInv DEF Abstract!CopyFmt, CopyFmt
    <3> QED
      BY <3>1 DEF Abstract!Next
  <2>4. ASSUME NEW s \in Streams, Renew(s)
        PROVE  Abstract!Next
    <3>1. Abstract!Renew(s)
      BY <2>4, RenewKeepsIInv DEF Abstract!Renew, Renew
    <3> QED
      BY <3>1 DEF Abstract!Next
  <2>5. ASSUME NEW s \in Streams, NEW t \in Streams, Swap(s, t)
        PROVE  Abstract!Next
    <3>1. Abstract!Swap(s, t)
      BY <2>5, SwapKeepsIInv DEF Abstract!Swap, Swap
    <3> QED
      BY <3>1 DEF Abstract!Next
  <2>6. ASSUME NEW s \in Streams, PrintAddresses(s)
        PROVE  Abstract!Next
    <3>1. Abstract!PrintAddresses(s)
      BY <2>6 DEF PrintAddresses, Abstract!PrintAddresses, FlagsOf
    <3> QED
      BY <3>1 DEF Abstract!Next
  <2>7. ASSUME UNCHANGED vars
        PROVE  UNCHANGED <<AbstractFlags, printed>>
    BY <2>7 DEF vars, AbstractFlags, FlagsOf
  <2> QED
    BY <2>1, <2>2, <2>3, <2>4, <2>5, <2>6, <2>7 DEF Next
<1> QED
  BY <1>1, <1>2, Invariance, PTL
  DEF Spec, ImplementsStreamFlags, Abstract!Spec, AbstractFlags

=============================================================================
