------------------------- MODULE NetworkTypeProofs -------------------------
(***************************************************************************)
(* What NetworkType guarantees for any number of threads, any IPs and any  *)
(* masks.                                                                  *)
(***************************************************************************)
EXTENDS NetworkType, TLAPS

-----------------------------------------------------------------------------
(* IPs and types                                                           *)

\* The classification is total.
LEMMA TypeOfType == \A w : NetworkTypeOf(w) \in Types
<1>1. \A w : Ipv4Type(w) \in Types
  BY DEF Ipv4Type, Types
<1>2. \A w : Ipv6Type(w) \in Types
  BY DEF Ipv6Type, Types
<1> QED
  BY <1>1, <1>2 DEF NetworkTypeOf

\* The words of a constant are naturals.
LEMMA WordsType ==
    ASSUME NEW w, w \in Ips \cup HostMasks
    PROVE  /\ \A k \in 1..8 : w[k] \in Nat
           /\ w \in IpValues
<1>1. Ips \subseteq [1..8 -> WordValues] /\ HostMasks \subseteq [1..8 -> WordValues]
  BY NetworkTypeAssumption, Zenon
<1>2. w \in [1..8 -> WordValues]
  BY <1>1, Zenon
<1>3. \A k \in 1..8 : w[k] \in WordValues
  BY <1>2, Zenon
<1>4. WordValues \subseteq Nat
  BY DEF WordValues
<1>5. \A k \in 1..8 : w[k] \in Nat
  BY <1>3, <1>4, Zenon
<1>6. w = [k \in 1..8 |-> w[k]]
  BY <1>2, Zenon
<1> QED
  BY <1>5, <1>6, Zenon DEF IpValues

\* An IP which is not zero has a last word which is not zero.
LEMMA LastWord ==
    ASSUME NEW w, ~\A k \in 1..8 : w[k] = 0
    PROVE  \E k \in 1..8 : w[k] # 0 /\ \A m \in (k + 1)..8 : w[m] = 0
<1> DEFINE Last(k) == w[k] # 0 /\ \A m \in (k + 1)..8 : w[m] = 0
<1>1. CASE w[8] # 0
  <2>1. Last(8)
    BY <1>1
  <2> QED
    BY <2>1
<1>2. CASE w[8] = 0 /\ w[7] # 0
  <2>1. Last(7)
    BY <1>2
  <2> QED
    BY <2>1
<1>3. CASE w[8] = 0 /\ w[7] = 0 /\ w[6] # 0
  <2>1. Last(6)
    BY <1>3
  <2> QED
    BY <2>1
<1>4. CASE w[8] = 0 /\ w[7] = 0 /\ w[6] = 0 /\ w[5] # 0
  <2>1. Last(5)
    BY <1>4
  <2> QED
    BY <2>1
<1>5. CASE w[8] = 0 /\ w[7] = 0 /\ w[6] = 0 /\ w[5] = 0 /\ w[4] # 0
  <2>1. Last(4)
    BY <1>5
  <2> QED
    BY <2>1
<1>6. CASE w[8] = 0 /\ w[7] = 0 /\ w[6] = 0 /\ w[5] = 0 /\ w[4] = 0 /\ w[3] # 0
  <2>1. Last(3)
    BY <1>6
  <2> QED
    BY <2>1
<1>7. CASE /\ w[8] = 0 /\ w[7] = 0 /\ w[6] = 0 /\ w[5] = 0 /\ w[4] = 0 /\ w[3] = 0
           /\ w[2] # 0
  <2>1. Last(2)
    BY <1>7
  <2> QED
    BY <2>1
<1>8. CASE /\ w[8] = 0 /\ w[7] = 0 /\ w[6] = 0 /\ w[5] = 0 /\ w[4] = 0 /\ w[3] = 0
           /\ w[2] = 0 /\ w[1] # 0
  <2>1. Last(1)
    BY <1>8
  <2> QED
    BY <2>1
<1> QED
  BY <1>1, <1>2, <1>3, <1>4, <1>5, <1>6, <1>7, <1>8

\* The operations on an IP make an IP.
LEMMA MovesType ==
    ASSUME NEW w \in Ips
    PROVE  Moves(w) \subseteq IpValues
<1>1. \A k \in 1..8 : w[k] \in Nat
  BY WordsType, Zenon
<1>2. w \in IpValues
  BY WordsType, Zenon
<1>3. Successor(w) \in IpValues
  BY <1>1, <1>2 DEF Successor, IpValues
<1>4. Predecessor(w) \in IpValues
  <2>1. CASE \A k \in 1..8 : w[k] = 0
    BY <1>2, <2>1 DEF Predecessor
  <2>2. CASE ~\A k \in 1..8 : w[k] = 0
    <3> DEFINE last == CHOOSE k \in 1..8 :
                          w[k] # 0 /\ \A m \in (k + 1)..8 : w[m] = 0
    <3>1. last \in 1..8 /\ w[last] # 0
      BY <2>2, LastWord
    <3>2. Predecessor(w) = [k \in 1..8 |-> IF k < last THEN w[k]
                               ELSE IF k = last THEN w[k] - 1 ELSE 65535]
      BY <2>2 DEF Predecessor
    <3> HIDE DEF last
    <3>3. w[last] - 1 \in Nat
      BY <1>1, <3>1
    <3> QED
      BY <1>1, <3>1, <3>2, <3>3 DEF IpValues
  <2> QED
    BY <2>1, <2>2
<1>5. ASSUME NEW host \in HostMasks
      PROVE  FirstOf(w, host) \in IpValues /\ LastOf(w, host) \in IpValues
  <2>1. \A k \in 1..8 : host[k] \in Nat
    BY WordsType, Zenon
  <2>2. ASSUME NEW k \in 1..8
        PROVE  w[k] - (w[k] % (host[k] + 1)) \in Nat
    <3>1. \A a \in Nat, d \in Nat \ {0} : a - (a % d) \in Nat
      <4> SUFFICES ASSUME NEW a \in Nat, NEW d \in Nat \ {0}
                   PROVE  a - (a % d) \in Nat
        OBVIOUS
      <4>1. a \div d \in Nat /\ a % d \in 0..(d - 1) /\ a = d * (a \div d) + (a % d)
        OBVIOUS
      <4>2. d * (a \div d) \in Nat
        BY <4>1
      <4> QED
        BY <4>1, <4>2
    <3> QED
      BY <1>1, <2>1, <3>1
  <2> QED
    BY <2>1, <2>2 DEF FirstOf, LastOf, IpValues
<1> QED
  BY <1>3, <1>4, <1>5 DEF Moves

-----------------------------------------------------------------------------
(* The invariant                                                           *)

\* A thread asks for the type of the shared address or of its own.
Reaches == \A t \in Threads : obj[t] \in {Shared, t}

\* From the first assignment on the type of the object is defined.
Defined ==
    \A t \in Threads :
        pc[t] \in {"classify", "read"} => type[obj[t]] # "UNDEFINED"

\* The type of the shared address is wrong only while a thread is about to
\* write the right one.
SharedInv ==
    \/ type[Shared] \in {"UNDEFINED", Right(Shared)}
    \/ /\ type[Shared] = "UNKNOWN"
       /\ \E t \in Threads : obj[t] = Shared /\ pc[t] = "classify"

OwnInv ==
    \A t \in Owners :
        /\ suspect[t] \subseteq {"copied"} =>
              type[t] \in {"UNDEFINED", "UNKNOWN", Right(t)}
        /\ suspect[t] = {} =>
              \/ type[t] \in {"UNDEFINED", Right(t)}
              \/ type[t] = "UNKNOWN" /\ obj[t] = t /\ pc[t] = "classify"
        /\ obj[t] = t /\ pc[t] = "classify" => type[t] = "UNKNOWN"

\* An answer is dropped before the next call.
Answered == \A t \in Threads : answer[t] # None => pc[t] = "idle"

Inv ==
    /\ TypeOK
    /\ Reaches
    /\ Defined
    /\ SharedInv
    /\ OwnInv
    /\ Answered
    /\ WrongOnlyAsUnknown
    /\ OwnAnswerRight

\* An operation of an owner on its object: it becomes the IP w with the
\* type y, which is the one of w but for the reasons in s.
Owned(t, w, y, s) ==
    /\ pc[t] = "idle"
    /\ ip' = [ip EXCEPT ![t] = w]
    /\ type' = [type EXCEPT ![t] = y]
    /\ suspect' = [suspect EXCEPT ![t] = s]
    /\ answer' = [answer EXCEPT ![t] = None]
    /\ UNCHANGED <<pc, obj>>
    /\ w \in IpValues
    /\ y \in Types \cup {"UNDEFINED"}
    /\ s \subseteq {"moved", "copied"}
    /\ s \subseteq {"copied"} => y \in {"UNDEFINED", "UNKNOWN", NetworkTypeOf(w)}
    /\ s = {} => y \in {"UNDEFINED", NetworkTypeOf(w)}

LEMMA OwnedStep ==
    ASSUME Inv, NEW t \in Owners, NEW w, NEW y, NEW s, Owned(t, w, y, s)
    PROVE  Inv'
<1>0. t \in Threads /\ t # Shared /\ t \in Objects /\ Shared \in Objects
  BY NetworkTypeAssumption DEF Objects
<1>1. TypeOK'
  BY <1>0 DEF Owned, Inv, TypeOK
<1>2. Reaches'
  BY DEF Owned, Inv, Reaches
<1>3. /\ ip'[Shared] = ip[Shared] /\ type'[Shared] = type[Shared]
      /\ ip'[t] = w /\ type'[t] = y /\ suspect'[t] = s /\ answer'[t] = None
      /\ \A u \in Threads : u # t => answer'[u] = answer[u]
      /\ \A u \in Owners : u # t => /\ ip'[u] = ip[u] /\ type'[u] = type[u]
                                    /\ suspect'[u] = suspect[u]
      /\ pc' = pc /\ obj' = obj /\ pc[t] = "idle"
  BY <1>0 DEF Owned, Inv, TypeOK, Objects
\* An object another thread asks about is not the one of t.
<1>4. \A u \in Threads : u # t => /\ obj[u] = Shared \/ (obj[u] = u /\ u \in Owners)
                                  /\ ip'[obj[u]] = ip[obj[u]]
                                  /\ type'[obj[u]] = type[obj[u]]
  BY <1>0, <1>3, NetworkTypeAssumption DEF Inv, TypeOK, Reaches, Objects
<1>5. Defined'
  BY <1>3, <1>4 DEF Inv, Defined
<1>6. SharedInv'
  BY <1>3 DEF Inv, SharedInv, Right
<1>7. OwnInv'
  BY <1>3 DEF Inv, OwnInv, Right, Owned
<1>8. Answered'
  BY <1>3 DEF Inv, Answered
<1>9. WrongOnlyAsUnknown'
  BY <1>3, <1>4 DEF Inv, WrongOnlyAsUnknown, Right
<1>10. OwnAnswerRight'
  <2>1. ASSUME NEW u \in Owners, answer'[u] # None, obj'[u] = u, suspect'[u] = {}
        PROVE  answer'[u] = Right(u)'
    <3>1. u # t /\ u \in Threads
      BY <1>3, <2>1, NetworkTypeAssumption
    <3>2. /\ answer'[u] = answer[u] /\ obj'[u] = obj[u]
          /\ suspect'[u] = suspect[u] /\ ip'[u] = ip[u]
      BY <1>3, <3>1
    <3> QED
      BY <2>1, <3>2 DEF Inv, OwnAnswerRight, Right
  <2> QED
    BY <2>1 DEF OwnAnswerRight
<1> QED
  BY <1>1, <1>2, <1>5, <1>6, <1>7, <1>8, <1>9, <1>10 DEF Inv

\* The operations of an owner are such operations.
LEMMA OwnerStep ==
    ASSUME Inv, NEW t \in Owners, SetIp(t) \/ SetProtocol(t) \/ Move(t) \/ Copy(t)
    PROVE  Inv'
<1>0. t \in Threads /\ t \in Objects /\ Shared \in Objects
  BY NetworkTypeAssumption DEF Objects
<1>1. CASE SetIp(t)
  <2>1. PICK w \in Ips : ip' = [ip EXCEPT ![t] = w]
    BY <1>1 DEF SetIp
  <2>2. w \in IpValues
    BY WordsType, Zenon
  <2>3. Owned(t, w, "UNDEFINED", {})
    BY <1>1, <2>1, <2>2 DEF SetIp, Drop, Owned
  <2> QED
    BY <2>3, OwnedStep
<1>2. CASE SetProtocol(t)
  <2>1. ip' = [ip EXCEPT ![t] = ip[t]] /\ ip[t] \in IpValues
    BY <1>0, <1>2 DEF SetProtocol, Inv, TypeOK
  <2>2. Owned(t, ip[t], "UNDEFINED", {})
    BY <1>2, <2>1 DEF SetProtocol, Drop, Owned
  <2> QED
    BY <2>2, OwnedStep
<1>3. CASE Move(t)
  <2>1. PICK w \in Moves(ip[t]) : ip' = [ip EXCEPT ![t] = w]
    BY <1>3 DEF Move
  <2>2. w \in IpValues
    BY <1>3, MovesType DEF Move
  <2>3. /\ type' = [type EXCEPT ![t] = type[t]] /\ type[t] \in Types \cup {"UNDEFINED"}
        /\ suspect[t] \subseteq {"moved", "copied"}
    BY <1>0, <1>3 DEF Move, Inv, TypeOK
  <2>4. CASE type[t] = "UNDEFINED"
    <3>1. suspect' = [suspect EXCEPT ![t] = suspect[t]]
      BY <1>3, <2>4 DEF Move, Inv, TypeOK
    <3>2. Owned(t, w, type[t], suspect[t])
      BY <1>3, <2>1, <2>2, <2>3, <2>4, <3>1 DEF Move, Drop, Owned
    <3> QED
      BY <3>2, OwnedStep
  <2>5. CASE type[t] # "UNDEFINED"
    <3> DEFINE s == suspect[t] \cup {"moved"}
    <3>1. suspect' = [suspect EXCEPT ![t] = s]
      BY <1>3, <2>5 DEF Move
    <3>2. s \subseteq {"moved", "copied"} /\ ~(s \subseteq {"copied"}) /\ s # {}
      BY <2>3
    <3> HIDE DEF s
    <3>3. Owned(t, w, type[t], s)
      BY <1>3, <2>1, <2>2, <2>3, <3>1, <3>2 DEF Move, Drop, Owned
    <3> QED
      BY <3>3, OwnedStep
  <2> QED
    BY <2>4, <2>5
<1>4. CASE Copy(t)
  <2>1. ip[Shared] \in IpValues /\ type[Shared] \in Types \cup {"UNDEFINED"}
    BY <1>0 DEF Inv, TypeOK
  <2>2. CASE \E u \in Threads : obj[u] = Shared /\ pc[u] = "classify"
    <3>1. type[Shared] \in {"UNDEFINED", "UNKNOWN", NetworkTypeOf(ip[Shared])}
      BY DEF Inv, SharedInv, Right
    <3>2. Owned(t, ip[Shared], type[Shared], {"copied"})
      BY <1>4, <2>1, <2>2, <3>1 DEF Copy, Drop, Owned
    <3> QED
      BY <3>2, OwnedStep
  <2>3. CASE ~\E u \in Threads : obj[u] = Shared /\ pc[u] = "classify"
    <3>1. type[Shared] \in {"UNDEFINED", NetworkTypeOf(ip[Shared])}
      BY <2>3 DEF Inv, SharedInv, Right
    <3>2. Owned(t, ip[Shared], type[Shared], {})
      BY <1>4, <2>1, <2>3, <3>1 DEF Copy, Drop, Owned
    <3> QED
      BY <3>2, OwnedStep
  <2> QED
    BY <2>2, <2>3
<1> QED
  BY <1>1, <1>2, <1>3, <1>4

-----------------------------------------------------------------------------
(* The steps of get_network_type()                                         *)

\* Whatever object a thread is asking about is an object, and is its own or
\* the shared one.
LEMMA ObjectOf ==
    ASSUME Inv, NEW t \in Threads
    PROVE  /\ obj[t] \in Objects /\ Shared \in Objects
           /\ obj[t] = Shared \/ (obj[t] = t /\ t \in Owners)
           /\ t # Shared
           /\ \A u \in Threads : u # t /\ obj[t] # Shared => obj[u] # obj[t]
           /\ NetworkTypeOf(ip[obj[t]]) \in Types
BY NetworkTypeAssumption, TypeOfType DEF Inv, TypeOK, Reaches, Objects

LEMMA CallStep ==
    ASSUME Inv, NEW t \in Threads, CallGetType(t)
    PROVE  Inv'
<1>1. PICK o \in Objects \cap {Shared, t} : obj' = [obj EXCEPT ![t] = o]
  BY DEF CallGetType
<1>2. TypeOK'
  BY <1>1 DEF CallGetType, Goto, Inv, TypeOK
<1>3. /\ obj'[t] = o /\ pc'[t] = "test" /\ pc[t] = "idle" /\ answer'[t] = None
      /\ \A u \in Threads : u # t => /\ obj'[u] = obj[u] /\ pc'[u] = pc[u]
                                     /\ answer'[u] = answer[u]
      /\ ip' = ip /\ type' = type /\ suspect' = suspect
  BY <1>1 DEF CallGetType, Goto, Inv, TypeOK
<1>4. Reaches'
  BY <1>1, <1>3 DEF Inv, Reaches
<1>5. Defined'
  BY <1>3 DEF Inv, Defined
<1>6. SharedInv'
  BY <1>3 DEF Inv, SharedInv, Right
<1>7. OwnInv'
  BY <1>3, NetworkTypeAssumption DEF Inv, OwnInv, Right
<1>8. Answered'
  BY <1>3 DEF Inv, Answered
<1>9. WrongOnlyAsUnknown'
  BY <1>3 DEF Inv, WrongOnlyAsUnknown, Right
<1>10. OwnAnswerRight'
  BY <1>3, NetworkTypeAssumption DEF Inv, OwnAnswerRight, Right
<1> QED
  BY <1>2, <1>4, <1>5, <1>6, <1>7, <1>8, <1>9, <1>10 DEF Inv

\* A step of a thread in get_network_type() which goes to p and leaves the
\* object with the type y.
Computes(t, p, y) ==
    /\ pc[t] \in {"test", "unknown", "classify"}
    /\ pc' = [pc EXCEPT ![t] = p]
    /\ type' = [type EXCEPT ![obj[t]] = y]
    /\ UNCHANGED <<ip, obj, answer, suspect>>
    /\ p \in {"unknown", "classify", "read"}
    /\ y \in Types \cup {"UNDEFINED"}
    /\ p # "unknown" => y # "UNDEFINED"
    /\ p = "classify" => y = "UNKNOWN"
    /\ pc[t] = "classify" => y = NetworkTypeOf(ip[obj[t]])
    /\ pc[t] # "classify" => y = type[obj[t]] \/ p = "classify"

LEMMA ComputesStep ==
    ASSUME Inv, NEW t \in Threads, NEW p, NEW y, Computes(t, p, y)
    PROVE  Inv'
<1> DEFINE o == obj[t]
<1>0. /\ o \in Objects /\ Shared \in Objects
      /\ o = Shared \/ (o = t /\ t \in Owners)
      /\ t # Shared
      /\ \A u \in Threads : u # t /\ o # Shared => obj[u] # o
  BY ObjectOf
<1>1. TypeOK'
  BY <1>0 DEF Computes, Inv, TypeOK
<1>2. /\ type'[o] = y /\ pc'[t] = p
      /\ \A q \in Objects : q # o => type'[q] = type[q]
      /\ \A u \in Threads : u # t => pc'[u] = pc[u]
      /\ ip' = ip /\ obj' = obj /\ answer' = answer /\ suspect' = suspect
  BY <1>0 DEF Computes, Inv, TypeOK
<1>3. Reaches'
  BY <1>2 DEF Inv, Reaches
<1>4. Defined'
  <2>1. ASSUME NEW u \in Threads, pc'[u] \in {"classify", "read"}
        PROVE  type'[obj'[u]] # "UNDEFINED"
    <3>1. CASE u = t
      BY <1>2, <2>1, <3>1 DEF Computes
    <3>2. CASE u # t /\ obj[u] # o
      <4>1. obj[u] \in Objects
        BY ObjectOf
      <4> QED
        BY <1>2, <2>1, <3>2, <4>1 DEF Inv, Defined
    <3>3. CASE u # t /\ obj[u] = o
      <4>1. type[o] # "UNDEFINED"
        BY <1>2, <2>1, <3>3 DEF Inv, Defined
      <4>2. y # "UNDEFINED"
        BY <4>1, TypeOfType DEF Computes, Types
      <4> QED
        BY <1>2, <3>3, <4>2
    <3> QED
      BY <3>1, <3>2, <3>3
  <2> QED
    BY <2>1 DEF Defined
<1>5. SharedInv'
  BY <1>0, <1>2 DEF Inv, SharedInv, Right, Computes
<1>6. OwnInv'
  BY <1>0, <1>2, NetworkTypeAssumption DEF Inv, OwnInv, Right, Computes, Objects
<1>7. Answered'
  BY <1>2 DEF Inv, Answered, Computes
<1>8. WrongOnlyAsUnknown' /\ OwnAnswerRight'
  BY <1>2 DEF Inv, WrongOnlyAsUnknown, OwnAnswerRight, Right
<1> QED
  BY <1>1, <1>3, <1>4, <1>5, <1>6, <1>7, <1>8 DEF Inv

LEMMA ReturnStep ==
    ASSUME Inv, NEW t \in Threads, Return(t)
    PROVE  Inv'
<1> DEFINE o == obj[t]
<1>0. /\ o \in Objects
      /\ o = Shared \/ (o = t /\ t \in Owners)
      /\ t # Shared
      /\ NetworkTypeOf(ip[o]) \in Types
  BY ObjectOf
<1>1. pc[t] = "read" /\ type[o] # "UNDEFINED" /\ type[o] \in Types
  BY <1>0 DEF Return, Inv, Defined, TypeOK
<1>2. TypeOK'
  BY <1>0, <1>1 DEF Return, Goto, Inv, TypeOK
<1>3. /\ answer'[t] = type[o] /\ pc'[t] = "idle"
      /\ \A u \in Threads : u # t => answer'[u] = answer[u] /\ pc'[u] = pc[u]
      /\ ip' = ip /\ type' = type /\ obj' = obj /\ suspect' = suspect
  BY DEF Return, Goto, Inv, TypeOK
<1>4. Reaches'
  BY <1>3 DEF Inv, Reaches
<1>5. Defined'
  BY <1>3 DEF Inv, Defined
<1>6. SharedInv'
  BY <1>1, <1>3 DEF Inv, SharedInv, Right
<1>7. OwnInv'
  BY <1>1, <1>3, NetworkTypeAssumption DEF Inv, OwnInv, Right
<1>8. Answered'
  BY <1>3 DEF Inv, Answered
<1>9. WrongOnlyAsUnknown'
  <2>1. o = Shared => type[o] \in {Right(o), "UNKNOWN"}
    BY <1>1 DEF Inv, SharedInv
  <2>2. o = t /\ suspect[t] \subseteq {"copied"} => type[o] \in {Right(o), "UNKNOWN"}
    BY <1>0, <1>1 DEF Inv, OwnInv
  <2>3. ASSUME NEW u \in Threads, answer'[u] # None,
               obj'[u] = Shared \/ suspect'[u] \subseteq {"copied"}
        PROVE  answer'[u] \in {Right(obj[u]), "UNKNOWN"}
    <3>1. CASE u = t
      BY <1>0, <1>3, <2>1, <2>2, <2>3, <3>1
    <3>2. CASE u # t
      BY <1>3, <2>3, <3>2 DEF Inv, WrongOnlyAsUnknown
    <3> QED
      BY <3>1, <3>2
  <2> QED
    BY <1>3, <2>3 DEF WrongOnlyAsUnknown, Right
<1>10. OwnAnswerRight'
  <2>1. o = t /\ suspect[t] = {} => type[o] = Right(o)
    BY <1>0, <1>1 DEF Inv, OwnInv
  <2>2. ASSUME NEW u \in Owners, answer'[u] # None, obj'[u] = u, suspect'[u] = {}
        PROVE  answer'[u] = Right(u)
    <3>1. CASE u = t
      BY <1>3, <2>1, <2>2, <3>1
    <3>2. CASE u # t
      <4>1. u \in Threads
        BY NetworkTypeAssumption
      <4> QED
        BY <1>3, <2>2, <3>2, <4>1 DEF Inv, OwnAnswerRight
    <3> QED
      BY <3>1, <3>2
  <2> QED
    BY <1>3, <2>2 DEF OwnAnswerRight, Right
<1> QED
  BY <1>2, <1>4, <1>5, <1>6, <1>7, <1>8, <1>9, <1>10 DEF Inv

\* The steps before the return.
LEMMA RunStep ==
    ASSUME Inv, NEW t \in Threads, Test(t) \/ SetUnknown(t) \/ Classify(t)
    PROVE  Inv'
<1> DEFINE o == obj[t]
<1>0. /\ o \in Objects
      /\ o = Shared \/ (o = t /\ t \in Owners)
      /\ NetworkTypeOf(ip[o]) \in Types
      /\ type[o] \in Types \cup {"UNDEFINED"}
      /\ type = [type EXCEPT ![o] = type[o]]
  BY ObjectOf DEF Inv, TypeOK
<1>1. CASE Test(t)
  <2> DEFINE p == IF type[o] = "UNDEFINED" THEN "unknown" ELSE "read"
  <2>1. Computes(t, p, type[o])
    BY <1>0, <1>1 DEF Test, Goto, Computes
  <2> QED
    BY <2>1, ComputesStep
<1>2. CASE SetUnknown(t)
  <2>1. Computes(t, "classify", "UNKNOWN")
    BY <1>0, <1>2 DEF SetUnknown, Goto, Computes, Types
  <2> QED
    BY <2>1, ComputesStep
<1>3. CASE Classify(t)
  <2> DEFINE y == NetworkTypeOf(ip[o])
  <2>1. y = "UNKNOWN" => type[o] = y
    <3>1. type[o] # "UNDEFINED"
      BY <1>3 DEF Classify, Inv, Defined
    <3>2. CASE o = Shared
      BY <3>1, <3>2 DEF Inv, SharedInv, Right
    <3>3. CASE o = t /\ t \in Owners
      BY <1>3, <3>3 DEF Classify, Inv, OwnInv
    <3> QED
      BY <1>0, <3>2, <3>3
  <2>2. type' = [type EXCEPT ![o] = y]
    BY <1>0, <1>3, <2>1 DEF Classify
  <2>3. Computes(t, "read", y)
    BY <1>0, <1>3, <2>2, TypeOfType DEF Classify, Goto, Computes, Types
  <2> QED
    BY <2>3, ComputesStep
<1> QED
  BY <1>1, <1>2, <1>3

-----------------------------------------------------------------------------
(* The theorems                                                            *)

LEMMA Invariant == Spec => []Inv
<1>1. ASSUME Init PROVE Inv
  <2>1. /\ ip \in [Objects -> Ips] /\ Ips \subseteq IpValues
        /\ type = [o \in Objects |-> "UNDEFINED"]
        /\ pc = [t \in Threads |-> "idle"]
        /\ obj = [t \in Threads |-> Shared]
        /\ answer = [t \in Threads |-> None]
        /\ suspect = [t \in Owners |-> {}]
        /\ Shared \in Objects /\ Owners \subseteq Objects /\ Owners \subseteq Threads
    BY <1>1, WordsType, NetworkTypeAssumption DEF Init, Objects
  <2>2. TypeOK
    BY <2>1 DEF TypeOK
  <2>3. Reaches /\ Defined /\ SharedInv /\ OwnInv /\ Answered
    BY <2>1 DEF Reaches, Defined, SharedInv, OwnInv, Answered
  <2>4. WrongOnlyAsUnknown /\ OwnAnswerRight
    BY <2>1 DEF WrongOnlyAsUnknown, OwnAnswerRight
  <2> QED
    BY <2>2, <2>3, <2>4 DEF Inv
<1>2. ASSUME Inv, [Next]_vars PROVE Inv'
  <2>1. CASE UNCHANGED vars
    BY <1>2, <2>1 DEF vars, Inv, TypeOK, Reaches, Defined, SharedInv, OwnInv,
                      Answered, WrongOnlyAsUnknown, OwnAnswerRight, Right
  <2> QED
    BY <1>2, <2>1, CallStep, RunStep, ReturnStep, OwnerStep DEF Next, Run
<1> QED
  BY <1>1, <1>2, PTL DEF Spec

\* The variables keep their types; no answer is UNDEFINED.
THEOREM TypeCorrect == Spec => []TypeOK
<1>1. Inv => TypeOK
  BY DEF Inv
<1> QED
  BY <1>1, Invariant, PTL

\* The type of the shared address is right when no thread is computing it,
\* however many threads wrote it and in whatever order.
THEOREM SharedIsRight == Spec => []SharedIsRightWhenQuiet
<1>1. Inv => SharedIsRightWhenQuiet
  BY DEF Inv, SharedInv, SharedIsRightWhenQuiet
<1> QED
  BY <1>1, Invariant, PTL

\* A thread which asks in between is told UNKNOWN at worst.
THEOREM WrongAnswersAreUnknown == Spec => []WrongOnlyAsUnknown
<1>1. Inv => WrongOnlyAsUnknown
  BY DEF Inv
<1> QED
  BY <1>1, Invariant, PTL

\* The type of an address only one thread knows is right, whatever was done
\* to it, when it was neither moved after its type was computed nor copied
\* while its type was being so.
THEOREM OwnAnswersAreRight == Spec => []OwnAnswerRight
<1>1. Inv => OwnAnswerRight
  BY DEF Inv
<1> QED
  BY <1>1, Invariant, PTL

=============================================================================
