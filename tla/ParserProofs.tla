---------------------------- MODULE ParserProofs ----------------------------
(***************************************************************************)
(* Proofs about ParserSession, a parser which reads texts between changes  *)
(* of its settings and calls of validators, and about ParserMerge, the     *)
(* merge of the ranges a text gave, for every width of the addresses,      *)
(* every set of texts, names and settings, and texts of any length.        *)
(***************************************************************************)
EXTENDS ParserMerge, ParserSession, AddrRangeProofs, FiniteSetTheorems,
        SequenceTheorems, TLAPS

-----------------------------------------------------------------------------
(* What is parsed in turn                                                  *)

\* What parsing may add, when its ranges are in G.
Results(G) == [ranges : Seq(G), errors : Nat, threw : BOOLEAN]

\* The results which add nothing, an error, an exception or one range.
LEMMA SomeResults ==
    ASSUME NEW G
    PROVE  /\ Nothing \in Results(G) /\ EmitError \in Results(G) /\ Throw \in Results(G)
           /\ \A r \in G : PushBack(r) \in Results(G)
<1>1. <<>> \in Seq(G) /\ \A r \in G : <<r>> \in Seq(G)
  OBVIOUS
<1> QED
  BY <1>1 DEF Results, Nothing, EmitError, Throw, PushBack

\* One result after another is a result, and an exception ends it.
LEMMA ThenType ==
    ASSUME NEW G, NEW a \in Results(G), NEW b \in Results(G)
    PROVE  /\ Then(a, b) \in Results(G)
           /\ a.threw => Then(a, b) = a
           /\ ~a.threw => /\ Then(a, b).ranges = a.ranges \o b.ranges
                          /\ Then(a, b).errors = a.errors + b.errors
                          /\ Then(a, b).threw <=> b.threw
<1>1. a.ranges \o b.ranges \in Seq(G)
  BY ConcatProperties DEF Results
<1>2. a.errors + b.errors \in Nat /\ b.threw \in BOOLEAN
  BY DEF Results
<1> QED
  BY <1>1, <1>2 DEF Then, Results

\* One result after another adds up.
LEMMA ThenCounts ==
    ASSUME NEW G, NEW a \in Results(G), NEW b \in Results(G), ~a.threw
    PROVE  /\ Len(Then(a, b).ranges) = Len(a.ranges) + Len(b.ranges)
           /\ Len(a.ranges) \in Nat /\ Len(b.ranges) \in Nat
           /\ Then(a, b).ranges = <<>> <=> a.ranges = <<>> /\ b.ranges = <<>>
           /\ b.ranges = <<>> => Then(a, b).ranges = a.ranges
           /\ a.errors = 0 => Then(a, b).errors = b.errors
<1>1. a.ranges \in Seq(G) /\ b.ranges \in Seq(G) /\ a.errors \in Nat /\ b.errors \in Nat
  BY DEF Results
<1>2. Then(a, b).ranges = a.ranges \o b.ranges /\ Then(a, b).errors = a.errors + b.errors
  BY ThenType DEF Results
<1> DEFINE v == a.ranges
           w == b.ranges
<1>3. v \in Seq(G) /\ w \in Seq(G) /\ Then(a, b).ranges = v \o w
  BY <1>1, <1>2
<1> HIDE DEF v, w
<1>4. /\ Len(v \o w) = Len(v) + Len(w) /\ Len(v) \in Nat /\ Len(w) \in Nat
      /\ v \o w = <<>> <=> v = <<>> /\ w = <<>>
      /\ v \o <<>> = v
  BY <1>3, ConcatProperties, ConcatEqualIffEmpty, ConcatEmptySeq, LenProperties
<1>5. a.errors = 0 => Then(a, b).errors = b.errors
  BY <1>1, <1>2
<1> QED
  BY <1>3, <1>4, <1>5 DEF v, w

\* The errors add up.
LEMMA ThenErrors ==
    ASSUME NEW G, NEW a \in Results(G), NEW b \in Results(G), ~a.threw
    PROVE  Then(a, b).errors = a.errors + b.errors
BY ThenType DEF Results

\* One result after the other.
LEMMA InTurnSteps ==
    ASSUME NEW G, NEW results \in Seq(Results(G))
    PROVE  LET n == Len(results)
               R == InTurnUpTo(results, n)
           IN  /\ R \in [0..n -> Results(G)]
               /\ R[0] = Nothing
               /\ \A k \in 1..n : R[k] = Then(R[k - 1], results[k])
<1> DEFINE S == Results(G)
           N == Len(results)
           Is(g) == g = [n \in 0..N |-> IF n = 0 THEN Nothing ELSE Then(g[n - 1], results[n])]
           step == [k \in Nat |-> [x \in S |-> IF k \in 1..N THEN Then(x, results[k]) ELSE x]]
           F == InTurnUpTo(results, N)
<1>1. N \in Nat /\ Nothing \in S /\ \A k \in 1..N : results[k] \in S
  BY SomeResults, ElementOfSeq
<1>2. \A k \in 1..N : \A x \in S : Then(x, results[k]) \in S
  BY <1>1, ThenType
<1> HIDE DEF S
<1>3. step \in [Nat -> [S -> S]]
  BY <1>2
<1>4. \A k \in 1..N : \A x \in S : step[k][x] = Then(x, results[k])
  BY <1>1
<1> HIDE DEF step
<1>5. PICK g : FollowsSteps(g, S, Nothing, step, N)
  BY <1>1, <1>3, Recursion
<1>6. g \in [0..N -> S] /\ g[0] = Nothing /\ \A k \in 1..N : g[k] = Then(g[k - 1], results[k])
  <2>1. ASSUME NEW k \in 1..N
        PROVE  g[k] = Then(g[k - 1], results[k])
    <3>1. g[k - 1] \in S
      BY <1>1, <1>5 DEF FollowsSteps
    <3> QED
      BY <1>4, <1>5, <3>1, Zenon DEF FollowsSteps
  <2> QED
    BY <1>5, <2>1, Zenon DEF FollowsSteps
<1>7. Is(g)
  <2>1. \A n \in 0..N : n = 0 \/ n \in 1..N
    BY <1>1
  <2>2. \A n \in 0..N : g[n] = IF n = 0 THEN Nothing ELSE Then(g[n - 1], results[n])
    BY <1>6, <2>1, Zenon
  <2> QED
    BY <1>6, <2>2
<1>8. Is(F)
  BY <1>7, Zenon DEF InTurnUpTo
<1>9. F[0] = Nothing /\ \A k \in 1..N : F[k] = Then(F[k - 1], results[k])
  <2>1. F = [n \in 0..N |-> IF n = 0 THEN Nothing ELSE Then(F[n - 1], results[n])]
    BY <1>8
  <2> HIDE DEF F
  <2>2. \A n \in 0..N : F[n] = IF n = 0 THEN Nothing ELSE Then(F[n - 1], results[n])
    BY <2>1, Zenon
  <2>3. 0 \in 0..N /\ \A k \in 1..N : k \in 0..N /\ k # 0
    BY <1>1
  <2> QED
    BY <2>2, <2>3, Zenon
<1>10. 0..N \subseteq {n \in 0..N : F[n] \in S}
  <2> DEFINE P == {n \in 0..N : F[n] \in S}
  <2> HIDE DEF F
  <2>1. 0 \in P
    BY <1>1, <1>9
  <2>2. ASSUME NEW k \in 1..N, k - 1 \in P
        PROVE  k \in P
    <3>1. F[k - 1] \in S /\ k \in 0..N
      BY <1>1, <2>2
    <3>2. F[k] \in S
      BY <1>2, <1>9, <3>1, Zenon
    <3> QED
      BY <3>1, <3>2
  <2> HIDE DEF P
  <2>3. 0..N \subseteq P
    BY <1>1, <2>1, <2>2, InductionUpTo
  <2> QED
    BY <2>3 DEF P
<1>11. F \in [0..N -> S]
  <2>1. F = [n \in 0..N |-> F[n]]
    BY <1>8
  <2> HIDE DEF F
  <2> QED
    BY <1>10, <2>1
<1> HIDE DEF F
<1> QED
  BY <1>9, <1>11 DEF S, F

\* What holds of nothing, and of one result after another, holds of all of them.
LEMMA InTurnKeeps ==
    ASSUME NEW G, NEW S \in SUBSET Results(G), Nothing \in S,
           \A a, b \in S : Then(a, b) \in S,
           NEW results \in Seq(S)
    PROVE  InTurn(results) \in S
<1> DEFINE N == Len(results)
           R == InTurnUpTo(results, N)
           P == {n \in 0..N : R[n] \in S}
<1>1. results \in Seq(Results(G)) /\ N \in Nat /\ \A k \in 1..N : results[k] \in S
  BY SeqMonotonic, ElementOfSeq
<1>2. R[0] = Nothing /\ \A k \in 1..N : R[k] = Then(R[k - 1], results[k])
  BY <1>1, InTurnSteps
<1> HIDE DEF R
<1>3. 0 \in P
  BY <1>1, <1>2
<1>4. ASSUME NEW k \in 1..N, k - 1 \in P
      PROVE  k \in P
  <2>1. R[k - 1] \in S /\ k \in 0..N
    BY <1>1, <1>4
  <2> QED
    BY <1>1, <1>2, <2>1
<1> HIDE DEF P
<1>5. 0..N \subseteq P
  BY <1>1, <1>3, <1>4, InductionUpTo
<1>6. N \in 0..N
  BY <1>1
<1>7. R[N] \in S
  BY <1>5, <1>6 DEF P
<1> QED
  BY <1>7 DEF InTurn, R

\* The same when there is at least one, of what need not hold of nothing.
LEMMA InTurnSome ==
    ASSUME NEW G, NEW S \in SUBSET Results(G),
           \A a \in S \cup {Nothing} : \A b \in S : Then(a, b) \in S,
           NEW results \in Seq(S), results # <<>>
    PROVE  InTurn(results) \in S
<1> DEFINE N == Len(results)
           R == InTurnUpTo(results, N)
           P == {n \in 0..N : n # 0 => R[n] \in S}
<1>1. results \in Seq(Results(G)) /\ N \in Nat /\ \A k \in 1..N : results[k] \in S
  BY SeqMonotonic, ElementOfSeq
<1>2. R[0] = Nothing /\ \A k \in 1..N : R[k] = Then(R[k - 1], results[k])
  BY <1>1, InTurnSteps
<1> HIDE DEF R
<1>3. 0 \in P
  BY <1>1, <1>2
<1>4. ASSUME NEW k \in 1..N, k - 1 \in P
      PROVE  k \in P
  <2>1. R[k - 1] \in S \cup {Nothing} /\ k \in 0..N
    BY <1>1, <1>2, <1>4
  <2> QED
    BY <1>1, <1>2, <2>1
<1> HIDE DEF P
<1>5. 0..N \subseteq P
  BY <1>1, <1>3, <1>4, InductionUpTo
<1>6. N \in 0..N /\ N # 0
  BY <1>1, EmptySeq
<1>7. R[N] \in S
  BY <1>5, <1>6 DEF P
<1> QED
  BY <1>7 DEF InTurn, R

\* Nothing but the errors of each is counted: without an exception there are some
\* exactly when one of the results has one.
LEMMA InTurnErrors ==
    ASSUME NEW G, NEW results \in Seq(Results(G)), ~InTurn(results).threw
    PROVE  InTurn(results).errors > 0 <=> \E k \in 1..Len(results) : results[k].errors > 0
<1> DEFINE N == Len(results)
           R == InTurnUpTo(results, N)
           Some(n) == \E k \in 1..n : results[k].errors > 0
           P == {n \in 0..N : ~R[n].threw => (R[n].errors > 0 <=> Some(n))}
<1>1. N \in Nat /\ \A k \in 1..N : results[k] \in Results(G)
  BY ElementOfSeq
<1>2. /\ R \in [0..N -> Results(G)] /\ R[0] = Nothing
      /\ \A k \in 1..N : R[k] = Then(R[k - 1], results[k])
  BY InTurnSteps
<1>3. InTurn(results) = R[N]
  BY DEF InTurn
<1> HIDE DEF R
<1>4. 0 \in P
  <2>1. R[0].errors = 0 /\ ~Some(0)
    BY <1>2 DEF Nothing
  <2> QED
    BY <1>1, <2>1
<1>5. ASSUME NEW k \in 1..N, k - 1 \in P
      PROVE  k \in P
  <2> DEFINE x == R[k - 1]
             y == results[k]
  <2>1. x \in Results(G) /\ y \in Results(G) /\ R[k] = Then(x, y) /\ k \in 0..N
    BY <1>1, <1>2, <1>5
  <2>2. ~x.threw => (x.errors > 0 <=> Some(k - 1))
    BY <1>5
  <2>3. Some(k) <=> Some(k - 1) \/ y.errors > 0
    <3>1. \A j : j \in 1..k <=> j \in 1..(k - 1) \/ j = k
      BY <1>1
    <3> QED
      BY <3>1
  <2> HIDE DEF x, y, Some
  <2>4. x.errors \in Nat /\ y.errors \in Nat
    BY <2>1 DEF Results
  <2>5. CASE x.threw
    <3>3. Then(x, y) = x
      BY <2>5 DEF Then
    <3>1. R[k] = x
      BY <2>1, <3>3
    <3>2. R[k].threw
      BY <2>5, <3>1
    <3> QED
      BY <2>1, <3>2
  <2>6. CASE ~x.threw
    <3>1. Then(x, y).errors = x.errors + y.errors
      BY <2>1, <2>6, ThenErrors
    <3>2. x.errors + y.errors > 0 <=> x.errors > 0 \/ y.errors > 0
      BY <2>4
    <3>3. R[k].errors > 0 <=> Some(k)
      BY <2>1, <2>2, <2>3, <2>6, <3>1, <3>2
    <3> QED
      BY <2>1, <3>3
  <2> QED
    BY <2>5, <2>6
<1> HIDE DEF P
<1>6. 0..N \subseteq P
  BY <1>1, <1>4, <1>5, InductionUpTo
<1>7. N \in P
  BY <1>1, <1>6
<1>8. R[N].errors > 0 <=> Some(N)
  BY <1>3, <1>7 DEF P
<1> QED
  BY <1>3, <1>8

\* Of results which are one range or an error each, with no error there are as
\* many ranges, in the same order.
LEMMA InTurnCounts ==
    ASSUME NEW G, NEW results \in Seq(Results(G)),
           \A k \in 1..Len(results) :
                /\ ~results[k].threw
                /\ results[k].errors = 0 => Len(results[k].ranges) = 1
    PROVE  InTurn(results).errors = 0 =>
                /\ Len(InTurn(results).ranges) = Len(results)
                /\ \A k \in 1..Len(results) :
                        /\ results[k].errors = 0
                        /\ InTurn(results).ranges[k] = results[k].ranges[1]
<1> DEFINE N == Len(results)
           R == InTurnUpTo(results, N)
           InOrder(n) == \A j \in 1..n : /\ results[j].errors = 0
                                         /\ R[n].ranges[j] = results[j].ranges[1]
           P == {n \in 0..N : /\ ~R[n].threw
                              /\ R[n].errors = 0 => Len(R[n].ranges) = n /\ InOrder(n)}
<1>1. N \in Nat /\ \A k \in 1..N : results[k] \in Results(G)
  BY ElementOfSeq
<1>2. /\ R \in [0..N -> Results(G)] /\ R[0] = Nothing
      /\ \A k \in 1..N : R[k] = Then(R[k - 1], results[k])
  BY InTurnSteps
<1> HIDE DEF R
<1>3. 0 \in P
  <2>1. ~R[0].threw /\ Len(R[0].ranges) = 0
    BY <1>2 DEF Nothing
  <2>2. InOrder(0)
    OBVIOUS
  <2> HIDE DEF InOrder
  <2> QED
    BY <1>1, <2>1, <2>2
<1>4. ASSUME NEW k \in 1..N, k - 1 \in P
      PROVE  k \in P
  <2>1. R[k - 1] \in Results(G) /\ k \in 0..N /\ R[k] = Then(R[k - 1], results[k])
    BY <1>1, <1>2, <1>4
  <2>2. /\ ~R[k - 1].threw
        /\ R[k].ranges = R[k - 1].ranges \o results[k].ranges
        /\ R[k].errors = R[k - 1].errors + results[k].errors
        /\ R[k].threw <=> results[k].threw
    <3>1. results[k] \in Results(G) /\ ~R[k - 1].threw
      BY <1>1, <1>4
    <3> DEFINE x == R[k - 1]
               y == results[k]
    <3>2. x \in Results(G) /\ y \in Results(G) /\ ~x.threw /\ R[k] = Then(x, y)
      BY <2>1, <3>1
    <3> HIDE DEF x, y
    <3>3. /\ Then(x, y).ranges = x.ranges \o y.ranges
          /\ Then(x, y).errors = x.errors + y.errors
          /\ Then(x, y).threw <=> y.threw
      BY <3>2, ThenType
    <3> QED
      BY <3>2, <3>3 DEF x, y
  <2>3. /\ R[k - 1].errors \in Nat /\ results[k].errors \in Nat
        /\ R[k - 1].ranges \in Seq(G) /\ results[k].ranges \in Seq(G)
    BY <1>1, <2>1 DEF Results
  <2>4. /\ Len(R[k].ranges) = Len(R[k - 1].ranges) + Len(results[k].ranges)
        /\ \A i \in 1..Len(R[k].ranges) : R[k].ranges[i] =
                IF i <= Len(R[k - 1].ranges) THEN R[k - 1].ranges[i]
                ELSE results[k].ranges[i - Len(R[k - 1].ranges)]
    <3> DEFINE u == R[k - 1].ranges
               v == results[k].ranges
    <3>1. u \in Seq(G) /\ v \in Seq(G) /\ R[k].ranges = u \o v
      BY <2>2, <2>3
    <3> HIDE DEF u, v
    <3>2. /\ Len(R[k].ranges) = Len(u) + Len(v)
          /\ \A i \in 1..Len(u) + Len(v) :
                R[k].ranges[i] = IF i <= Len(u) THEN u[i] ELSE v[i - Len(u)]
      BY <3>1, ConcatProperties
    <3> QED
      BY <3>2 DEF u, v
  <2>5. ASSUME R[k].errors = 0
        PROVE  Len(R[k].ranges) = k /\ InOrder(k)
    <3>1. \A m, n \in Nat : m + n = 0 => m = 0 /\ n = 0
      OBVIOUS
    <3>2. R[k - 1].errors = 0 /\ results[k].errors = 0
      BY <2>2, <2>3, <2>5, <3>1
    <3>3. /\ Len(R[k - 1].ranges) = k - 1 /\ InOrder(k - 1)
          /\ Len(results[k].ranges) = 1
      <4> HIDE DEF InOrder
      <4> QED
        BY <1>4, <3>2
    <3>4. Len(R[k].ranges) = k
      BY <2>4, <3>3
    <3>5. ASSUME NEW j \in 1..k
          PROVE  results[j].errors = 0 /\ R[k].ranges[j] = results[j].ranges[1]
      <4>1. CASE j = k
        <5>1. j - (k - 1) = 1 /\ ~(j <= k - 1)
          BY <4>1
        <5> QED
          BY <2>4, <3>2, <3>3, <3>4, <4>1, <5>1
      <4>2. CASE j # k
        <5>1. j \in 1..(k - 1) /\ j <= k - 1
          BY <4>2
        <5> QED
          BY <2>4, <3>3, <3>4, <5>1
      <4> QED
        BY <4>1, <4>2
    <3> QED
      BY <3>4, <3>5
  <2> HIDE DEF InOrder
  <2> QED
    BY <2>1, <2>2, <2>5
<1> HIDE DEF P
<1>5. 0..N \subseteq P
  BY <1>1, <1>3, <1>4, InductionUpTo
<1>6. N \in 0..N
  BY <1>1
<1>7. R[N].errors = 0 => Len(R[N].ranges) = N /\ InOrder(N)
  BY <1>5, <1>6 DEF P
<1> QED
  BY <1>7 DEF InTurn, R

-----------------------------------------------------------------------------
(* One address and its port                                                *)

\* The addresses parse() answers with, and those of ranges without them.
SocketAddrs ==
    [ip : Ips, mask : Masks, port : 0..MaxPort, portDefined : BOOLEAN,
     protocol : {"IP", "TCP", "UDP"}]

AddressRanges ==
    {r \in [hasFrom : BOOLEAN, hasTo : BOOLEAN,
            from : SocketAddrs \cup Addrs, to : SocketAddrs \cup Addrs] :
        /\ r.hasFrom => r.from \in SocketAddrs
        /\ r.hasTo => r.to \in SocketAddrs}

\* The port of the text, or else the default one.
PortOf(p, portText) == IF portText # <<>> THEN NumberOf(portText) ELSE p.port

\* Whether a text with this port, or with none, may have addresses.
PortExpected(p, portText) ==
    /\ portText # <<>> =>
        IsNumber(portText) /\ (PortAllowed(p) \/ "ADDRESS_LOOKUP" \in p.allow)
    /\ portText = <<>> => "REQUIRED_PORT" \notin p.allow

\* What one address of a text with this port is.
Singles(p, portText) ==
    {r \in AddressRanges :
        /\ r.hasFrom /\ ~r.hasTo /\ r.from.mask = PrefixMask(Bits)
        /\ r.from.port = LookupPort(PortOf(p, portText))
        /\ r.from.portDefined = (portText # <<>>)
        /\ p.protocol \in {"TCP", "UDP"} => r.from.protocol = p.protocol
        /\ PortExpected(p, portText)}

\* The port of an address fits in 16 bits, whatever the text and the default.
LEMMA PortType ==
    ASSUME NEW p \in Parsers, NEW portText, portText # <<>> => IsNumber(portText)
    PROVE  /\ PortOf(p, portText) \in Nat \cup {Unset}
           /\ LookupPort(PortOf(p, portText)) \in 0..MaxPort
           /\ PortOf(p, portText) <= MaxPort =>
                LookupPort(PortOf(p, portText)) =
                    IF PortOf(p, portText) = Unset THEN 0 ELSE PortOf(p, portText)
<1> DEFINE n == PortOf(p, portText)
<1>1. MaxPort \in Nat
  BY AddrParserAssumption DEF AddrParserAssumption
<1>2. n \in Nat \cup {Unset}
  <2>1. p.port \in Unset..MaxPort
    BY DEF Parsers
  <2>2. portText # <<>> => NumberOf(portText) \in Nat
    BY AddrParserAssumption DEF AddrParserAssumption, IsNumber, NumberOf
  <2> QED
    BY <1>1, <2>1, <2>2 DEF PortOf, Unset
<1> HIDE DEF n
<1>3. LookupPort(n) \in 0..MaxPort
  BY <1>1, <1>2 DEF LookupPort, Unset
<1>4. n <= MaxPort => LookupPort(n) = IF n = Unset THEN 0 ELSE n
  BY <1>1, <1>2 DEF LookupPort, Unset
<1> QED
  BY <1>2, <1>3, <1>4 DEF n

\* An address, with the port of the text and a supported protocol, is one of them.
LEMMA NewAddrIsSingle ==
    ASSUME NEW p \in Parsers, NEW portText, PortExpected(p, portText),
           NEW ip \in Ips, NEW protocol \in {"IP", "TCP", "UDP"},
           p.protocol \in {"TCP", "UDP"} => protocol = p.protocol
    PROVE  SetFrom(NoRange, NewAddr(ip, LookupPort(PortOf(p, portText)),
                                    portText # <<>>, protocol))
                \in {r \in Singles(p, portText) : r.from.ip = ip /\ r.from.protocol = protocol}
<1> DEFINE port == LookupPort(PortOf(p, portText))
           given == portText # <<>>
           a == NewAddr(ip, port, given, protocol)
<1>1. port \in 0..MaxPort
  BY PortType DEF PortExpected
<1>2. PrefixMask(Bits) \in Masks /\ DefaultAddr \in Addrs
  BY RangeTypes, AddrRangeAssumption DEF PrefixMask, Masks, AddrRangeAssumption
<1> HIDE DEF port
<1>3. /\ a \in SocketAddrs /\ a.ip = ip /\ a.mask = PrefixMask(Bits)
      /\ a.port = port /\ a.portDefined = given /\ a.protocol = protocol
  BY <1>1, <1>2 DEF NewAddr, SocketAddrs
<1> HIDE DEF a
<1>4. LET r == SetFrom(NoRange, a)
      IN  /\ r \in [hasFrom : BOOLEAN, hasTo : BOOLEAN,
                    from : SocketAddrs \cup Addrs, to : SocketAddrs \cup Addrs]
          /\ r.hasFrom /\ ~r.hasTo /\ r.from = a
  <2> DEFINE S == SocketAddrs \cup Addrs
  <2>1. DefaultAddr \in S /\ a \in S
    BY <1>2, <1>3
  <2> HIDE DEF S
  <2>2. LET r == SetFrom(NoRange, a)
        IN  /\ r \in [hasFrom : BOOLEAN, hasTo : BOOLEAN, from : S, to : S]
            /\ r.hasFrom /\ ~r.hasTo /\ r.from = a
    BY <2>1 DEF SetFrom, NoRange
  <2> QED
    BY <2>2 DEF S
<1>5. SetFrom(NoRange, a) \in AddressRanges
  BY <1>2, <1>3, <1>4 DEF AddressRanges
<1>6. SetFrom(NoRange, a) \in Singles(p, portText)
  BY <1>3, <1>4, <1>5 DEF Singles, port
<1> QED
  BY <1>3, <1>4, <1>6 DEF a, port

\* What getaddrinfo() answers for one IP.
LEMMA AnswersAre ==
    ASSUME NEW p \in Parsers, NEW portText, PortExpected(p, portText),
           NEW ip \in Ips \cup {Unsupported}
    PROVE  LET kinds == SocketProtocols(p.protocol)
               b == Answers(ip, PortOf(p, portText), portText # <<>>, p.protocol)
           IN  /\ b \in Results(Singles(p, portText)) /\ ~b.threw /\ b.errors = 0
               /\ ip = Unsupported => b.ranges = <<>>
               /\ ip # Unsupported =>
                    /\ Len(b.ranges) = Len(kinds)
                    /\ \A k \in 1..Len(kinds) :
                        b.ranges[k].from.ip = ip /\ b.ranges[k].from.protocol = kinds[k]
<1> DEFINE kinds == SocketProtocols(p.protocol)
           port == LookupPort(PortOf(p, portText))
           given == portText # <<>>
           G == Singles(p, portText)
           Reply(k) == SetFrom(NoRange, NewAddr(ip, port, given, kinds[k]))
           results == [k \in DOMAIN kinds |-> PushBack(Reply(k))]
           b == Answers(ip, PortOf(p, portText), given, p.protocol)
           S == {x \in Results(G) : ~x.threw /\ x.errors = 0}
<1>1. CASE ip = Unsupported
  <2>1. b = Nothing
    BY <1>1 DEF Answers
  <2> QED
    BY <1>1, <2>1, SomeResults DEF Nothing
<1>2. CASE ip # Unsupported
  <2>1. /\ kinds \in Seq({"IP", "TCP", "UDP"}) /\ kinds # <<>>
        /\ \A k \in DOMAIN kinds : p.protocol \in {"TCP", "UDP"} => kinds[k] = p.protocol
    <3>1. CASE p.protocol \in {"TCP", "UDP"}
      <4>1. kinds = <<p.protocol>>
        BY <3>1 DEF SocketProtocols
      <4> QED
        BY <3>1, <4>1
    <3>2. CASE p.protocol \notin {"TCP", "UDP"}
      <4>1. kinds = <<"TCP", "UDP", "IP">>
        BY <3>2 DEF SocketProtocols
      <4> QED
        BY <3>2, <4>1
    <3> QED
      BY <3>1, <3>2
  <2>2. DOMAIN kinds = 1..Len(kinds) /\ Len(kinds) \in Nat
    BY <2>1, LenProperties
  <2> HIDE DEF kinds
  <2>3. ASSUME NEW k \in DOMAIN kinds
        PROVE  Reply(k) \in {r \in G : r.from.ip = ip /\ r.from.protocol = kinds[k]}
    <3>1. kinds[k] \in {"IP", "TCP", "UDP"} /\ ip \in Ips
      BY <1>2, <2>1, <2>2, ElementOfSeq
    <3> QED
      BY <2>1, <3>1, NewAddrIsSingle
  <2> HIDE DEF Reply, G
  <2>4. \A k \in DOMAIN kinds : PushBack(Reply(k)) \in S
    BY <2>3, SomeResults DEF PushBack, Nothing
  <2>5. results \in Seq(S) /\ Len(results) = Len(kinds)
    <3> HIDE DEF S
    <3> QED
      BY <2>2, <2>4
  <2>6. InTurn(results) \in S
    <3>1. S \in SUBSET Results(G) /\ Nothing \in S
      BY SomeResults DEF Nothing
    <3>2. ASSUME NEW x \in S, NEW y \in S
          PROVE  Then(x, y) \in S
      <4>1. x \in Results(G) /\ y \in Results(G) /\ ~x.threw
        OBVIOUS
      <4>2. Then(x, y).errors = x.errors + y.errors /\ (Then(x, y).threw <=> y.threw)
        BY <4>1, ThenType
      <4>3. Then(x, y) \in Results(G)
        BY <4>1, ThenType
      <4> QED
        BY <4>2, <4>3
    <3> HIDE DEF S, results
    <3> QED
      BY <2>5, <3>1, <3>2, InTurnKeeps
  <2>7. /\ results \in Seq(Results(G))
        /\ \A k \in 1..Len(results) : /\ ~results[k].threw /\ Len(results[k].ranges) = 1
                                      /\ results[k].ranges[1] = Reply(k)
    <3>1. results \in Seq(Results(G))
      <4> HIDE DEF results
      <4> QED
        BY <2>5, SeqMonotonic
    <3> QED
      BY <2>2, <2>5, <3>1 DEF PushBack, Nothing
  <2>8. b = InTurn(results)
    BY <1>2 DEF Answers, Reply, kinds
  <2> HIDE DEF results, b
  <2>9. /\ Len(InTurn(results).ranges) = Len(results)
        /\ \A k \in 1..Len(results) : InTurn(results).ranges[k] = results[k].ranges[1]
    BY <2>6, <2>7, InTurnCounts
  <2>10. \A k \in 1..Len(kinds) :
            b.ranges[k].from.ip = ip /\ b.ranges[k].from.protocol = kinds[k]
    BY <2>2, <2>3, <2>5, <2>7, <2>8, <2>9
  <2> QED
    BY <1>2, <2>5, <2>6, <2>8, <2>9, <2>10 DEF b, G, kinds
<1> QED
  BY <1>1, <1>2

\* Whether an answer of a resolver has an address which is not supported.
HasUnsupported(names) == \E t \in DOMAIN names : Unsupported \in ToSet(names[t])

\* Whether getaddrinfo() answers for each kind of sockets.
LookupForAny(p) == "ADDRESS_LOOKUP" \in p.allow /\ p.protocol \notin {"TCP", "UDP"}

\* No range is left out without an error, and next to an error there is none,
\* but for addresses which are not supported.
Told(names, x) ==
    /\ x.ranges = <<>> => x.threw \/ x.errors > 0
    /\ x.errors > 0 /\ x.ranges # <<>> => HasUnsupported(names)

\* What one address with its port adds.
AddressResults(p, names, portText) ==
    {x \in Results(Singles(p, portText)) :
        Told(names, x) /\ (LookupForAny(p) => Len(x.ranges) # 1)}

\* An error and an exception are results of an address.
LEMMA FailuresTold ==
    ASSUME NEW p, NEW names, NEW portText
    PROVE  /\ EmitError \in AddressResults(p, names, portText)
           /\ Throw \in AddressResults(p, names, portText)
<1>1. EmitError \in Results(Singles(p, portText)) /\ Throw \in Results(Singles(p, portText))
  BY SomeResults
<1>2. /\ EmitError.ranges = <<>> /\ EmitError.errors = 1
      /\ Throw.ranges = <<>> /\ Throw.threw /\ Len(<<>>) = 0
  BY DEF EmitError, Throw, Nothing
<1> HIDE DEF EmitError, Throw
<1>3. ASSUME NEW x \in Results(Singles(p, portText)), x.ranges = <<>>, x.threw \/ x.errors = 1
      PROVE  x \in AddressResults(p, names, portText)
  <2>1. Len(x.ranges) = 0
    BY <1>2, <1>3, Zenon
  <2>2. LookupForAny(p) => Len(x.ranges) # 1
    BY <2>1
  <2>3. Told(names, x)
    BY <1>3 DEF Told
  <2> QED
    BY <2>2, <2>3 DEF AddressResults
<1> QED
  BY <1>1, <1>2, <1>3

\* What a name, or an address, is resolved to.
LEMMA Resolved ==
    ASSUME NEW names \in Resolvers, NEW t, CanResolve(names, t)
    PROVE  LET ips == Resolve(names, t)
           IN  /\ ips \in Seq(Ips \cup {Unsupported}) /\ ips # <<>>
               /\ Unsupported \in ToSet(ips) => HasUnsupported(names)
<1>1. CASE t \in DOMAIN Literal
  <2>1. Resolve(names, t) = <<Literal[t]>> /\ Literal[t] \in Ips
    BY <1>1, AddrParserAssumption DEF Resolve, AddrParserAssumption
  <2>2. Unsupported \notin Ips
    BY AddrRangeAssumption DEF AddrRangeAssumption, Ips, Unsupported
  <2> QED
    BY <2>1, <2>2 DEF ToSet
<1>2. CASE t \notin DOMAIN Literal
  <2>1. Resolve(names, t) = names[t] /\ t \in DOMAIN names
    BY <1>2 DEF Resolve, CanResolve
  <2>2. names[t] \in Seq(Ips \cup {Unsupported}) /\ names[t] # <<>>
    BY <2>1, ParserSessionAssumption DEF ParserSessionAssumption
  <2> QED
    BY <2>1, <2>2 DEF HasUnsupported
<1> QED
  BY <1>1, <1>2

\* What parse_address_port() adds with getaddrinfo().
LEMMA ByLookupResult ==
    ASSUME NEW p \in Parsers, NEW names \in Resolvers, NEW t,
           NEW portText, PortExpected(p, portText), "ADDRESS_LOOKUP" \in p.allow
    PROVE  ByLookup(p, names, t, PortOf(p, portText), portText # <<>>)
                \in AddressResults(p, names, portText)
<1> DEFINE port == PortOf(p, portText)
           given == portText # <<>>
           G == Singles(p, portText)
           ips == Resolve(names, t)
           results == [k \in DOMAIN ips |-> Answers(ips[k], port, given, p.protocol)]
           S == {x \in Results(G) : /\ ~x.threw /\ x.errors = 0
                                    /\ LookupForAny(p) => Len(x.ranges) # 1}
           Some == {x \in S : x.ranges # <<>>}
<1>1. CASE ~CanResolve(names, t)
  BY <1>1, FailuresTold DEF ByLookup
<1>2. CASE CanResolve(names, t)
  <2>1. /\ ips \in Seq(Ips \cup {Unsupported}) /\ ips # <<>>
        /\ Unsupported \in ToSet(ips) => HasUnsupported(names)
    BY <1>2, Resolved
  <2> HIDE DEF ips
  <2>2. DOMAIN ips = 1..Len(ips) /\ Len(ips) \in Nat /\ Len(ips) # 0
    BY <2>1, EmptySeq
  <2>3. ASSUME NEW k \in DOMAIN ips
        PROVE  /\ Answers(ips[k], port, given, p.protocol) \in S
               /\ ips[k] # Unsupported => Answers(ips[k], port, given, p.protocol) \in Some
    <3>1. ips[k] \in Ips \cup {Unsupported}
      BY <2>1, <2>2, ElementOfSeq
    <3> DEFINE x == Answers(ips[k], port, given, p.protocol)
               n == Len(SocketProtocols(p.protocol))
    <3>2. /\ x \in Results(G) /\ ~x.threw /\ x.errors = 0
          /\ ips[k] = Unsupported => x.ranges = <<>>
          /\ ips[k] # Unsupported => Len(x.ranges) = n
      BY <3>1, AnswersAre
    <3>3. n \in {1, 3} /\ (LookupForAny(p) => n = 3)
      BY DEF SocketProtocols, LookupForAny
    <3> HIDE DEF x, G, n
    <3>4. Len(<<>>) = 0
      OBVIOUS
    <3>5. LookupForAny(p) => Len(x.ranges) # 1
      <4>1. CASE ips[k] = Unsupported
        <5>1. Len(x.ranges) = 0
          BY <3>2, <3>4, <4>1, Zenon
        <5> QED
          BY <5>1
      <4>2. CASE ips[k] # Unsupported
        <5>1. n = 3 => n # 1
          OBVIOUS
        <5> QED
          BY <3>2, <3>3, <4>2, <5>1, Zenon
      <4> QED
        BY <4>1, <4>2
    <3>6. ips[k] # Unsupported => x.ranges # <<>>
      BY <3>2, <3>3, <3>4 DEF Results
    <3>7. x \in S
      BY <3>2, <3>5
    <3> QED
      BY <3>6, <3>7 DEF x
  <2> HIDE DEF G
  <2>4. results \in Seq(S) /\ results # <<>>
    <3>1. \A k \in 1..Len(ips) : Answers(ips[k], port, given, p.protocol) \in S
      BY <2>2, <2>3
    <3>2. DOMAIN results = 1..Len(ips)
      BY <2>2
    <3> HIDE DEF S, port, given
    <3>3. results \in Seq(S) /\ Len(results) = Len(ips)
      BY <2>2, <3>1
    <3> QED
      BY <2>2, <3>3, EmptySeq
  <2>5. /\ S \in SUBSET Results(G) /\ Nothing \in S
        /\ Nothing.ranges = <<>>
    BY SomeResults DEF Nothing
  <2>6. ASSUME NEW x \in S, NEW y \in S
        PROVE  Then(x, y) \in S /\ (x.ranges # <<>> \/ y.ranges # <<>> => Then(x, y) \in Some)
    <3>1. /\ x \in Results(G) /\ y \in Results(G) /\ ~x.threw /\ ~y.threw
          /\ x.errors = 0 /\ y.errors = 0
          /\ LookupForAny(p) => Len(x.ranges) # 1 /\ Len(y.ranges) # 1
      OBVIOUS
    <3>2. Then(x, y) \in Results(G) /\ (Then(x, y).threw <=> y.threw)
      BY <3>1, ThenType
    <3>3. /\ Len(Then(x, y).ranges) = Len(x.ranges) + Len(y.ranges)
          /\ Len(x.ranges) \in Nat /\ Len(y.ranges) \in Nat
          /\ Then(x, y).ranges = <<>> <=> x.ranges = <<>> /\ y.ranges = <<>>
          /\ Then(x, y).errors = 0
      <4>1. /\ Len(Then(x, y).ranges) = Len(x.ranges) + Len(y.ranges)
            /\ Len(x.ranges) \in Nat /\ Len(y.ranges) \in Nat
            /\ Then(x, y).ranges = <<>> <=> x.ranges = <<>> /\ y.ranges = <<>>
        BY <3>1, ThenCounts
      <4>2. Then(x, y).errors = 0
        BY <3>1 DEF Then
      <4> QED
        BY <4>1, <4>2
    <3>4. \A m, n \in Nat : m # 1 /\ n # 1 => m + n # 1
      OBVIOUS
    <3>5. LookupForAny(p) => Len(Then(x, y).ranges) # 1
      BY <3>1, <3>3, <3>4
    <3>6. Then(x, y) \in S
      BY <3>1, <3>2, <3>3, <3>5
    <3> QED
      BY <3>3, <3>6
  <2> HIDE DEF S, results
  <2>7. InTurn(results) \in S
    BY <2>4, <2>5, <2>6, InTurnKeeps
  <2>8. CASE Unsupported \in ToSet(ips)
    <3>1. ByLookup(p, names, t, port, given) = Then(InTurn(results), EmitError)
      BY <1>2, <2>8 DEF ByLookup, ips, results
    <3>2. EmitError \in Results(G) /\ EmitError.ranges = <<>> /\ EmitError.errors = 1 /\ ~EmitError.threw
      BY SomeResults DEF EmitError, Nothing
    <3> DEFINE x == InTurn(results)
    <3>3. /\ x \in Results(G) /\ x.ranges \in Seq(G) /\ ~x.threw /\ x.errors = 0
          /\ LookupForAny(p) => Len(x.ranges) # 1
      BY <2>7 DEF S, Results
    <3> HIDE DEF x
    <3>4. /\ Then(x, EmitError) \in Results(G) /\ Then(x, EmitError).errors = 1
          /\ Then(x, EmitError).ranges = x.ranges
      <4> HIDE DEF EmitError
      <4>1. Then(x, EmitError) \in Results(G)
        BY <3>2, <3>3, ThenType
      <4>2. Then(x, EmitError).errors = 1 /\ Then(x, EmitError).ranges = x.ranges
        BY <3>2, <3>3, ThenCounts, Zenon
      <4> QED
        BY <4>1, <4>2
    <3> QED
      BY <2>1, <2>8, <3>1, <3>3, <3>4 DEF x, AddressResults, Told, G
  <2>9. CASE Unsupported \notin ToSet(ips)
    <3>1. ByLookup(p, names, t, port, given) = Then(InTurn(results), Nothing)
      BY <1>2, <2>9 DEF ByLookup, ips, results
    <3>2. \A k \in DOMAIN ips : ips[k] # Unsupported
      BY <2>9 DEF ToSet
    <3>3. results \in Seq(Some)
      <4> HIDE DEF Some
      <4> QED
        BY <2>2, <2>3, <3>2 DEF results
    <3>4. Some \in SUBSET Results(G)
      BY DEF S
    <3>5. \A x \in Some \cup {Nothing} : \A y \in Some : Then(x, y) \in Some
      BY <2>5, <2>6
    <3> DEFINE z == InTurn(results)
    <3>6. z \in Some
      <4> HIDE DEF Some
      <4> QED
        BY <2>4, <3>3, <3>4, <3>5, InTurnSome
    <3>7. /\ z \in Results(G) /\ z.ranges \in Seq(G) /\ ~z.threw /\ z.errors = 0
          /\ z.ranges # <<>> /\ (LookupForAny(p) => Len(z.ranges) # 1)
      BY <3>6 DEF S, Results
    <3>8. Nothing \in Results(G) /\ Nothing.ranges = <<>> /\ Nothing.errors = 0 /\ ~Nothing.threw
      BY SomeResults DEF Nothing
    <3> HIDE DEF z
    <3>9. /\ Then(z, Nothing) \in Results(G) /\ Then(z, Nothing).errors = 0
          /\ Then(z, Nothing).ranges = z.ranges
      <4>1. Then(z, Nothing) \in Results(G)
        BY <3>7, <3>8, ThenType
      <4>2. Then(z, Nothing).errors = 0 /\ Then(z, Nothing).ranges = z.ranges
        BY <3>7, <3>8, ThenCounts DEF Results
      <4> QED
        BY <4>1, <4>2
    <3> QED
      BY <3>1, <3>7, <3>9 DEF z, AddressResults, Told, G
  <2> QED
    BY <2>8, <2>9
<1> QED
  BY <1>1, <1>2

\* What parse_address_port() adds when it takes no name.
LEMMA ByLiteralResult ==
    ASSUME NEW p \in Parsers, NEW names, NEW t, NEW portText,
           portText # <<>> => IsNumber(portText),
           portText = <<>> => "REQUIRED_PORT" \notin p.allow,
           "ADDRESS_LOOKUP" \notin p.allow
    PROVE  ByLiteral(p, t, PortOf(p, portText), portText # <<>>)
                \in AddressResults(p, names, portText)
<1> DEFINE port == PortOf(p, portText)
           given == portText # <<>>
           G == Singles(p, portText)
           protocol == IF p.protocol = "none" THEN "TCP" ELSE p.protocol
           r == SetFrom(NoRange, NewAddr(Literal[t], LookupPort(port), given, protocol))
<1>1. CASE port <= MaxPort /\ (port = Unset \/ PortAllowed(p)) /\ t \in DOMAIN Literal
           /\ p.protocol # "other"
  <2>1. port \in Nat \cup {Unset} /\ LookupPort(port) = IF port = Unset THEN 0 ELSE port
    BY <1>1, PortType
  <2>2. given => port # Unset
    <3>1. given => NumberOf(portText) \in Nat
      BY AddrParserAssumption DEF AddrParserAssumption, IsNumber, NumberOf
    <3> QED
      BY <3>1 DEF PortOf, Unset
  <2>3. PortExpected(p, portText)
    BY <1>1, <2>2 DEF PortExpected
  <2>4. protocol \in {"IP", "TCP", "UDP"} /\ (p.protocol \in {"TCP", "UDP"} => protocol = p.protocol)
    <3>1. p.protocol \in Protocols
      BY DEF Parsers
    <3> QED
      BY <1>1, <3>1 DEF Protocols
  <2>5. Literal[t] \in Ips
    BY <1>1, AddrParserAssumption DEF AddrParserAssumption
  <2>6. r \in G
    <3> HIDE DEF protocol
    <3> QED
      BY <2>3, <2>4, <2>5, NewAddrIsSingle
  <2>7. \/ port <= MaxPort
        \/ ~(port > MaxPort)
    BY <1>1
  <2>8. ByLiteral(p, t, port, given) = PushBack(r)
    <3>1. ~(port > MaxPort)
      BY <1>1, <2>1, AddrParserAssumption DEF AddrParserAssumption, Unset
    <3> HIDE DEF port
    <3> QED
      BY <1>1, <2>1, <3>1 DEF ByLiteral
  <2>9. /\ PushBack(r) \in Results(G) /\ PushBack(r).ranges # <<>>
        /\ PushBack(r).errors = 0
    <3>1. PushBack(r) \in Results(G)
      <4> HIDE DEF G, r
      <4> QED
        BY <2>6, SomeResults
    <3> HIDE DEF r
    <3> QED
      BY <3>1 DEF PushBack, Nothing
  <2>10. ~LookupForAny(p)
    BY DEF LookupForAny
  <2> QED
    BY <2>8, <2>9, <2>10 DEF AddressResults, Told
<1>2. CASE ~(port <= MaxPort /\ (port = Unset \/ PortAllowed(p)) /\ t \in DOMAIN Literal
             /\ p.protocol # "other")
  <2>1. port \in Nat \cup {Unset} /\ MaxPort \in Nat
    BY PortType, AddrParserAssumption DEF AddrParserAssumption
  <2>2. port > MaxPort <=> ~(port <= MaxPort)
    BY <2>1 DEF Unset
  <2> HIDE DEF port
  <2>3. ByLiteral(p, t, port, given) \in {EmitError, Throw}
    BY <1>2, <2>2 DEF ByLiteral
  <2> QED
    BY <2>3, FailuresTold DEF port
<1> QED
  BY <1>1, <1>2

\* What an address adds, with the port of the text: addresses or an error.
LEMMA ParseAddressPortResult ==
    ASSUME NEW p \in Parsers, NEW names \in Resolvers, NEW address, NEW portText, NEW ipv6
    PROVE  ParseAddressPort(p, names, address, portText, ipv6)
                \in AddressResults(p, names, portText)
<1> DEFINE t == AddressOrDefault(p, address, ipv6)
           given == portText # <<>>
           refused == \/ ~given /\ "REQUIRED_PORT" \in p.allow
                      \/ address = <<>> /\ "REQUIRED_ADDRESS" \in p.allow
                      \/ given /\ ~IsNumber(portText)
<1>1. ParseAddressPort(p, names, address, portText, ipv6) =
        IF refused THEN EmitError
        ELSE IF "ADDRESS_LOOKUP" \in p.allow
        THEN ByLookup(p, names, t, PortOf(p, portText), given)
        ELSE ByLiteral(p, t, PortOf(p, portText), given)
  BY DEF ParseAddressPort, PortOf
<1>2. CASE refused
  BY <1>1, <1>2, FailuresTold
<1>3. CASE ~refused /\ "ADDRESS_LOOKUP" \in p.allow
  <2>1. PortExpected(p, portText)
    BY <1>3 DEF PortExpected
  <2> HIDE DEF t
  <2> QED
    BY <1>1, <1>3, <2>1, ByLookupResult
<1>4. CASE ~refused /\ "ADDRESS_LOOKUP" \notin p.allow
  <2> HIDE DEF t
  <2> QED
    BY <1>1, <1>4, ByLiteralResult
<1> QED
  BY <1>2, <1>3, <1>4

-----------------------------------------------------------------------------
(* Two addresses, with the same port                                       *)

\* Whether an address of a text has the port of this text.
HasPort(a, p, portText) ==
    a.port = LookupPort(PortOf(p, portText)) /\ a.portDefined = (portText # <<>>)

\* What the ranges of a text with this port are.
WithPortOf(p, portText) ==
    {r \in AddressRanges :
        /\ r.hasFrom => HasPort(r.from, p, portText)
        /\ r.hasTo => HasPort(r.to, p, portText)
        /\ PortExpected(p, portText)}

\* What they are before they are given a mask.
Ported(p, portText) ==
    {r \in WithPortOf(p, portText) : r.hasFrom => r.from.mask = PrefixMask(Bits)}

\* What two addresses, or one, with their port add.
RangeResults(p, names, portText) ==
    {x \in Results(Ported(p, portText)) :
        /\ x.ranges = <<>> => p.noEmpty \/ x.threw \/ x.errors > 0
        /\ x.errors > 0 /\ x.ranges # <<>> => HasUnsupported(names)}

\* An address is a range with one bound.
LEMMA SinglesArePorted ==
    ASSUME NEW p, NEW names, NEW portText
    PROVE  /\ Singles(p, portText) \subseteq Ported(p, portText)
           /\ AddressResults(p, names, portText) \subseteq RangeResults(p, names, portText)
<1>1. Singles(p, portText) \subseteq Ported(p, portText)
  BY DEF Singles, Ported, WithPortOf, HasPort
<1>2. ASSUME NEW x \in AddressResults(p, names, portText)
      PROVE  x \in RangeResults(p, names, portText)
  <2>1. x \in Results(Singles(p, portText)) /\ Told(names, x)
    BY DEF AddressResults
  <2>2. x.ranges \in Seq(Singles(p, portText)) /\ x.errors \in Nat /\ x.threw \in BOOLEAN
    BY <2>1 DEF Results
  <2>3. x.ranges \in Seq(Ported(p, portText))
    BY <1>1, <2>2, SeqMonotonic
  <2>4. x \in Results(Ported(p, portText))
    BY <2>1, <2>3 DEF Results
  <2> QED
    BY <2>1, <2>4 DEF RangeResults, Told
<1> QED
  BY <1>1, <1>2

\* The other bound of a range, with the port of the text.
LEMMA SwapIsPorted ==
    ASSUME NEW p, NEW portText, NEW r \in Singles(p, portText)
    PROVE  SwapFromTo(r) \in Ported(p, portText)
<1>1. /\ r \in AddressRanges /\ r.hasFrom = TRUE /\ r.hasTo = FALSE
      /\ HasPort(r.from, p, portText) /\ PortExpected(p, portText)
  BY DEF Singles, HasPort, AddressRanges
<1>2. SwapFromTo(r) = [hasFrom |-> FALSE, hasTo |-> TRUE, from |-> r.to, to |-> r.from]
  BY <1>1 DEF SwapFromTo
<1> DEFINE q == [hasFrom |-> FALSE, hasTo |-> TRUE, from |-> r.to, to |-> r.from]
<1>3. q \in AddressRanges
  BY <1>1 DEF AddressRanges
<1>4. q \in Ported(p, portText)
  BY <1>1, <1>3 DEF Ported, WithPortOf
<1> QED
  BY <1>2, <1>4

\* Two addresses with the same port make a range.
LEMMA JoinIsPorted ==
    ASSUME NEW p, NEW portText,
           NEW r \in Singles(p, portText), NEW q \in Singles(p, portText)
    PROVE  SetTo(r, q.from) \in Ported(p, portText)
<1>1. /\ r \in AddressRanges /\ r.hasFrom
      /\ HasPort(r.from, p, portText) /\ PortExpected(p, portText)
      /\ r.from.mask = PrefixMask(Bits)
  BY DEF Singles, HasPort
<1>2. HasPort(q.from, p, portText) /\ q.from \in SocketAddrs
  BY DEF Singles, HasPort, AddressRanges
<1> DEFINE a == q.from
           u == SetTo(r, a)
<1>3. a \in SocketAddrs /\ HasPort(a, p, portText)
  BY <1>2
<1> HIDE DEF a
<1>4. u \in AddressRanges /\ u.from = r.from /\ u.to = a /\ (u.hasFrom = TRUE)
  BY <1>1, <1>3 DEF AddressRanges, SetTo
<1> HIDE DEF u
<1>5. u \in Ported(p, portText)
  BY <1>1, <1>3, <1>4 DEF Ported, WithPortOf
<1> QED
  BY <1>5 DEF u, a

\* A bound which is not one address has no range, and an error.
LEMMA FailedBoundTold ==
    ASSUME NEW p, NEW names, NEW portText, NEW b \in AddressResults(p, names, portText), NEW G
    PROVE  /\ FailedBound(b) \in Results(G) /\ FailedBound(b).ranges = <<>>
           /\ FailedBound(b).threw \/ FailedBound(b).errors > 0
<1>1. /\ b \in Results(Singles(p, portText))
      /\ b.ranges = <<>> => b.threw \/ b.errors > 0
  BY DEF AddressResults, Told
<1> DEFINE n == IF b.ranges = <<>> THEN b.errors ELSE b.errors + 1
<1>2. FailedBound(b) = [b EXCEPT !.ranges = <<>>, !.errors = n]
  BY DEF FailedBound
<1>3. b.errors \in Nat /\ b.threw \in BOOLEAN /\ <<>> \in Seq(G)
  BY <1>1 DEF Results
<1>4. n \in Nat /\ (b.threw \/ n > 0)
  BY <1>1, <1>3
<1> HIDE DEF n
<1> QED
  BY <1>1, <1>2, <1>3, <1>4 DEF Results

\* What the bounds of a range add: one range, or an error.
LEMMA JoinTextsResult ==
    ASSUME NEW p, NEW names, NEW portText, NEW from, NEW to, NEW f, NEW s,
           from # <<>> \/ to # <<>>,
           f \in IF from = <<>> THEN {Nothing} ELSE AddressResults(p, names, portText),
           s \in IF to = <<>> THEN {Nothing} ELSE AddressResults(p, names, portText)
    PROVE  JoinTexts(p, from, to, f, s) \in RangeResults(p, names, portText)
<1> DEFINE G == Ported(p, portText)
           A == AddressResults(p, names, portText)
           U == RangeResults(p, names, portText)
           j == JoinTexts(p, from, to, f, s)
<1> SUFFICES j \in U
  OBVIOUS
<1> HIDE DEF G
<1>1. /\ from # <<>> => f \in A
      /\ to # <<>> => s \in A
      /\ from = <<>> => f = Nothing
  OBVIOUS
<1>2. ASSUME NEW x \in Results(G), x.ranges = <<>>, x.threw \/ x.errors > 0
      PROVE  x \in U
  BY <1>2 DEF RangeResults, G
<1>3. ASSUME NEW x \in A
      PROVE  /\ x \in Results(Singles(p, portText)) /\ x \in U
             /\ x.errors > 0 /\ x.ranges # <<>> => HasUnsupported(names)
             /\ Len(x.ranges) = 1 => x.ranges[1] \in Singles(p, portText) /\ x.ranges # <<>>
  <2>1. x \in Results(Singles(p, portText)) /\ Told(names, x)
    BY DEF AddressResults
  <2>2. x.ranges \in Seq(Singles(p, portText))
    BY <2>1 DEF Results
  <2> DEFINE v == x.ranges
  <2>3. v \in Seq(Singles(p, portText))
    BY <2>2
  <2> HIDE DEF v
  <2>4. Len(v) = 1 => v[1] \in Singles(p, portText) /\ v # <<>>
    <3>1. Len(v) = 1 => 1 \in 1..Len(v) /\ Len(v) # 0
      OBVIOUS
    <3> QED
      BY <2>3, <3>1, ElementOfSeq, EmptySeq
  <2> QED
    BY <2>1, <2>4, SinglesArePorted DEF Told, v
<1> HIDE DEF A, U, j
<1>4. CASE from # <<>> /\ Len(f.ranges) # 1
  <2>1. j = FailedBound(f)
    BY <1>4 DEF j, JoinTexts
  <2> QED
    BY <1>1, <1>2, <1>4, <2>1, FailedBoundTold DEF A
<1>5. CASE ~(from # <<>> /\ Len(f.ranges) # 1) /\ to # <<>> /\ Len(s.ranges) # 1
  <2> DEFINE e == [f EXCEPT !.ranges = <<>>]
             b == FailedBound(s)
  <2>1. j = Then(e, b)
    BY <1>5 DEF j, JoinTexts
  <2>2. f \in Results(Singles(p, portText))
    BY <1>1, <1>3, SomeResults
  <2>3. e \in Results(G) /\ e.ranges = <<>> /\ (e.threw <=> f.threw)
    <3>1. <<>> \in Seq(G)
      OBVIOUS
    <3> QED
      BY <2>2, <3>1 DEF Results
  <2>4. b \in Results(G) /\ b.ranges = <<>> /\ (b.threw \/ b.errors > 0)
    BY <1>1, <1>5, FailedBoundTold DEF A
  <2> HIDE DEF e, b
  <2>5. CASE e.threw
    <3>1. Then(e, b) = e
      BY <2>5 DEF Then
    <3> QED
      BY <1>2, <2>1, <2>3, <2>5, <3>1
  <2>6. CASE ~e.threw
    <3>1. Then(e, b) \in Results(G) /\ (Then(e, b).threw <=> b.threw)
      BY <2>3, <2>4, <2>6, ThenType, Zenon
    <3>2. Then(e, b).ranges = <<>>
      BY <2>3, <2>4, <2>6, ThenCounts, Zenon
    <3>3. Then(e, b).errors = e.errors + b.errors
      BY <2>3, <2>4, <2>6, ThenType DEF Results
    <3>4. e.errors \in Nat /\ b.errors \in Nat
      BY <2>3, <2>4 DEF Results
    <3>5. b.errors > 0 => Then(e, b).errors > 0
      BY <3>3, <3>4
    <3> QED
      BY <1>2, <2>1, <2>4, <3>1, <3>2, <3>5, Zenon
  <2> QED
    BY <2>5, <2>6
<1>6. CASE (from # <<>> => Len(f.ranges) = 1) /\ (to # <<>> => Len(s.ranges) = 1)
  <2>1. CASE to = <<>>
    <3>1. j = f
      BY <1>6, <2>1 DEF j, JoinTexts
    <3> QED
      BY <1>1, <1>3, <2>1, <3>1
  <2>2. CASE to # <<>> /\ from = <<>>
    <3> DEFINE r == SwapFromTo(s.ranges[1])
    <3>1. j = [s EXCEPT !.ranges = <<r>>]
      BY <1>6, <2>2 DEF j, JoinTexts
    <3>2. /\ s \in Results(Singles(p, portText))
          /\ s.errors > 0 => HasUnsupported(names)
          /\ r \in G
      BY <1>1, <1>3, <1>6, <2>2, SwapIsPorted DEF G
    <3> HIDE DEF r
    <3>3. <<r>> \in Seq(G) /\ <<r>> # <<>>
      BY <3>2
    <3>4. j \in Results(G) /\ j.ranges = <<r>> /\ j.errors = s.errors
      BY <3>1, <3>2, <3>3 DEF Results
    <3> QED
      BY <3>2, <3>3, <3>4 DEF U, RangeResults, G
  <2>3. CASE to # <<>> /\ from # <<>>
    <3> DEFINE e == [Nothing EXCEPT !.errors = f.errors + s.errors]
               r == SetTo(f.ranges[1], s.ranges[1].from)
               b == JoinBounds(p, f.ranges[1], s.ranges[1])
    <3>1. j = Then(e, b)
      BY <1>6, <2>3 DEF j, JoinTexts
    <3>2. /\ f \in Results(Singles(p, portText)) /\ s \in Results(Singles(p, portText))
          /\ f.errors > 0 \/ s.errors > 0 => HasUnsupported(names)
      BY <1>1, <1>3, <1>6, <2>3
    <3>3. r \in G
      BY <1>1, <1>3, <1>6, <2>3, JoinIsPorted DEF G
    <3>4. f.errors \in Nat /\ s.errors \in Nat
      BY <3>2 DEF Results
    <3>5. /\ e \in Results(G) /\ ~e.threw /\ e.ranges = <<>>
          /\ e.errors > 0 => HasUnsupported(names)
      <4> DEFINE n == f.errors + s.errors
      <4>1. n \in Nat /\ (n > 0 => f.errors > 0 \/ s.errors > 0)
        BY <3>4
      <4>2. e = [Nothing EXCEPT !.errors = n]
        OBVIOUS
      <4> HIDE DEF n, e
      <4>3. e \in Results(G) /\ ~e.threw /\ e.ranges = <<>> /\ e.errors = n
        BY <4>1, <4>2, SomeResults DEF Results, Nothing
      <4> QED
        BY <3>2, <4>1, <4>3
    <3>6. /\ b \in Results(G) /\ b.errors = 0
          /\ b.ranges # <<>> \/ p.noEmpty
      <4>1. (b = Nothing /\ p.noEmpty) \/ b = PushBack(r)
        BY DEF JoinBounds
      <4> HIDE DEF r, b
      <4>2. PushBack(r) \in Results(G) /\ PushBack(r).errors = 0 /\ PushBack(r).ranges # <<>>
        BY <3>3, SomeResults DEF PushBack, Nothing
      <4>3. Nothing \in Results(G) /\ Nothing.errors = 0
        BY SomeResults DEF Nothing
      <4> QED
        BY <4>1, <4>2, <4>3, Zenon
    <3> HIDE DEF e, b
    <3>7. Then(e, b) \in Results(G)
      BY <3>5, <3>6, ThenType
    <3>8. Then(e, b).errors = e.errors + b.errors /\ e.errors \in Nat
      <4>1. Then(e, b).errors = e.errors + b.errors
        BY <3>5, <3>6, ThenErrors
      <4> QED
        BY <3>5, <4>1 DEF Results
    <3>9. Then(e, b).ranges = <<>> => b.ranges = <<>>
      BY <3>5, <3>6, ThenCounts, Zenon
    <3>10. Then(e, b).errors > 0 => HasUnsupported(names)
      BY <3>5, <3>6, <3>8
    <3>11. Then(e, b) \in U
      BY <3>6, <3>7, <3>9, <3>10 DEF U, RangeResults, G
    <3> QED
      BY <3>1, <3>11
  <2> QED
    BY <2>1, <2>2, <2>3
<1> QED
  BY <1>4, <1>5, <1>6

\* What is before or in the dash and after it adds: one result for both.
LEMMA ParseAddressRangePortResult ==
    ASSUME NEW p \in Parsers, NEW names \in Resolvers, NEW addresses, NEW portText, NEW ipv6
    PROVE  /\ ParseAddressRangePort(p, names, addresses, portText, ipv6)
                    \in RangeResults(p, names, portText)
           /\ "ADDRESS_RANGE" \notin p.allow =>
                /\ ParseAddressRangePort(p, names, addresses, portText, ipv6) =
                        ParseAddressPort(p, names, addresses, portText, ipv6)
                /\ ParseAddressRangePort(p, names, addresses, portText, ipv6)
                        \in AddressResults(p, names, portText)
<1> DEFINE from == UpTo(addresses, {"-"})
           to == Past(addresses, {"-"})
           Parse(t) == ParseAddressPort(p, names, t, portText, ipv6)
           Bound(t) == IF t = <<>> THEN Nothing ELSE Parse(t)
           x == ParseAddressRangePort(p, names, addresses, portText, ipv6)
           U == RangeResults(p, names, portText)
           A == AddressResults(p, names, portText)
<1>1. x = IF "ADDRESS_RANGE" \notin p.allow \/ ~Has(addresses, "-") THEN Parse(addresses)
          ELSE IF from = <<>> /\ to = <<>> THEN EmitError
          ELSE JoinTexts(p, from, to, Bound(from), Bound(to))
  BY DEF ParseAddressRangePort
<1>2. \A t : Parse(t) \in A
  BY ParseAddressPortResult
<1>3. A \subseteq U /\ EmitError \in A
  BY SinglesArePorted, FailuresTold
<1> HIDE DEF Parse, from, to, x
<1>4. from # <<>> \/ to # <<>> =>
        JoinTexts(p, from, to, Bound(from), Bound(to)) \in U
  BY <1>2, JoinTextsResult
<1> HIDE DEF Bound, A, U
<1>5. x \in U
  BY <1>1, <1>2, <1>3, <1>4
<1>6. "ADDRESS_RANGE" \notin p.allow => x = Parse(addresses) /\ x \in A
  BY <1>1, <1>2
<1> QED
  BY <1>5, <1>6 DEF x, A, U, Parse

\* Whichever syntax the text has, it adds what addresses with one port add.
LEMMA ParseAddressResult ==
    ASSUME NEW p \in Parsers, NEW names \in Resolvers, NEW t, NEW mask
    PROVE  \E portText :
            /\ ParseAddress(p, names, t, mask) \in RangeResults(p, names, portText)
            /\ "ADDRESS_RANGE" \notin p.allow =>
                ParseAddress(p, names, t, mask) \in AddressResults(p, names, portText)
<1> DEFINE Fits(x, portText) ==
            /\ x \in RangeResults(p, names, portText)
            /\ "ADDRESS_RANGE" \notin p.allow => x \in AddressResults(p, names, portText)
           x4 == ParseAddressRangePort(p, names, UpTo(t, {":"}), Past(t, {":"}), FALSE)
           x6 == ParseAddressRangePort(p, names, Address6(t), Port6(t), TRUE)
<1>1. Fits(EmitError, <<>>)
  BY FailuresTold, SinglesArePorted
<1>2. Fits(x4, Past(t, {":"})) /\ Fits(x6, Port6(t))
  BY ParseAddressRangePortResult
<1>3. ParseAddress(p, names, t, mask) \in {EmitError, x4, x6}
  BY DEF ParseAddress, ParseAddress4, ParseAddress6
<1> HIDE DEF Fits, x4, x6
<1>4. \E portText : Fits(ParseAddress(p, names, t, mask), portText)
  BY <1>1, <1>2, <1>3
<1> QED
  BY <1>4 DEF Fits

-----------------------------------------------------------------------------
(* Masks                                                                   *)

\* What a range may be once its first address was given a mask.
Remasked(r) ==
    {q \in AddressRanges :
        /\ q.hasFrom = r.hasFrom /\ q.hasTo = r.hasTo /\ q.to = r.to
        /\ q.from.ip = r.from.ip
        /\ r.hasFrom => /\ q.from.port = r.from.port
                        /\ q.from.portDefined = r.from.portDefined
                        /\ q.from.protocol = r.from.protocol}

\* parse_mask() changes the mask and nothing else.
LEMMA RemaskedRange ==
    ASSUME NEW r \in AddressRanges, NEW m \in Masks
    PROVE  [r EXCEPT !.from.mask = m] \in {q \in Remasked(r) : q.from.mask = m}
<1> DEFINE a == [r.from EXCEPT !.mask = m]
           q == [r EXCEPT !.from.mask = m]
<1>1. q = [r EXCEPT !.from = a]
  BY DEF AddressRanges
<1>2. /\ a \in SocketAddrs \cup Addrs /\ a.mask = m /\ a.ip = r.from.ip
      /\ r.from \in SocketAddrs =>
            /\ a \in SocketAddrs /\ a.port = r.from.port
            /\ a.portDefined = r.from.portDefined /\ a.protocol = r.from.protocol
  BY DEF AddressRanges, SocketAddrs, Addrs
<1> HIDE DEF a, q
<1>3. /\ q.hasFrom = r.hasFrom /\ q.hasTo = r.hasTo /\ q.to = r.to /\ q.from = a
      /\ q \in AddressRanges
  BY <1>1, <1>2 DEF AddressRanges
<1>4. r.hasFrom => r.from \in SocketAddrs
  BY DEF AddressRanges
<1>5. q \in Remasked(r) /\ q.from.mask = m
  BY <1>2, <1>3, <1>4 DEF Remasked
<1> QED
  BY <1>5 DEF q

\* A mask which is not refused fits, and for an IPv4 it has the bits above those
\* of an IPv4.
LEMMA MaskBitsFit ==
    ASSUME NEW p, NEW mask, NEW ipv4 \in BOOLEAN, mask # <<>>, ~MaskRefused(p, mask, ipv4)
    PROVE  /\ MaskBits(mask, ipv4) \in Masks
           /\ ipv4 => PrefixMask(Bits - V4Bits) \subseteq MaskBits(mask, ipv4)
<1>1. Bits \in Nat /\ V4Bits \in 0..Bits
  BY AddrRangeAssumption DEF AddrRangeAssumption
<1>2. \A ip : OnBits(ip) \in Masks
  BY DEF OnBits, Masks
<1>3. PrefixMask(Bits - V4Bits) = V4Bits..(Bits - 1)
  BY <1>1 DEF PrefixMask
<1>4. V4Bits..(Bits - 1) \in Masks
  BY <1>1 DEF Masks
<1>5. CASE IsNumber(mask)
  <2> DEFINE n == NumberOf(mask)
             m == n + IF ipv4 THEN Bits - V4Bits ELSE 0
  <2>1. n \in Nat /\ n <= (IF ipv4 THEN V4Bits ELSE Bits)
    <3>1. n \in Nat
      BY <1>5, AddrParserAssumption DEF AddrParserAssumption, IsNumber, NumberOf
    <3>2. ~(n > (IF ipv4 THEN V4Bits ELSE Bits))
      BY <1>5 DEF MaskRefused
    <3> HIDE DEF n
    <3> QED
      BY <1>1, <3>1, <3>2
  <2>2. MaskBits(mask, ipv4) = PrefixMask(m)
    BY <1>5 DEF MaskBits
  <2> HIDE DEF n
  <2>3. m \in 0..Bits /\ (ipv4 => Bits - m <= V4Bits)
    BY <1>1, <2>1
  <2> HIDE DEF m
  <2>4. PrefixMask(m) \in Masks
    BY <1>1, <2>3 DEF PrefixMask, Masks
  <2>5. ipv4 => V4Bits..(Bits - 1) \subseteq PrefixMask(m)
    BY <1>1, <2>3 DEF PrefixMask
  <2> QED
    BY <1>3, <2>2, <2>4, <2>5
<1>6. CASE ~IsNumber(mask)
  BY <1>2, <1>3, <1>4, <1>6 DEF MaskBits, Masks
<1> QED
  BY <1>5, <1>6

\* A range with the mask m, or with none of its own: an error or one range.
LEMMA ParseMaskResult ==
    ASSUME NEW p, NEW mask, NEW r \in AddressRanges, NEW ipv4 \in BOOLEAN
    PROVE  LET x == ParseMask(p, mask, r, ipv4)
           IN  /\ x \in Results(AddressRanges) /\ ~x.threw
               /\ x.errors = 0 =>
                    /\ Len(x.ranges) = 1 /\ x.ranges[1] \in Remasked(r)
                    /\ ipv4 /\ r.from.mask = PrefixMask(Bits) =>
                        PrefixMask(Bits - V4Bits) \subseteq x.ranges[1].from.mask
               /\ mask = <<>> => x = PushBack(r)
<1> DEFINE x == ParseMask(p, mask, r, ipv4)
<1>1. CASE MaskRefused(p, mask, ipv4)
  <2>1. x = EmitError /\ mask # <<>>
    BY <1>1 DEF ParseMask, MaskRefused
  <2>2. EmitError \in Results(AddressRanges) /\ EmitError.errors = 1 /\ ~EmitError.threw
    BY SomeResults DEF EmitError, Nothing
  <2> HIDE DEF x
  <2> QED
    BY <2>1, <2>2 DEF x
<1>2. CASE ~MaskRefused(p, mask, ipv4)
  <2> DEFINE kept == mask \in {<<>>, <<"[", "]">>}
             q == IF kept THEN r ELSE [r EXCEPT !.from.mask = MaskBits(mask, ipv4)]
  <2>1. x = PushBack(q) /\ (mask = <<>> => q = r)
    BY <1>2 DEF ParseMask
  <2>2. r \in Remasked(r)
    BY DEF Remasked
  <2>3. /\ q \in Remasked(r)
        /\ ipv4 /\ r.from.mask = PrefixMask(Bits) =>
                PrefixMask(Bits - V4Bits) \subseteq q.from.mask
    <3>1. CASE kept
      <4>1. PrefixMask(Bits - V4Bits) \subseteq PrefixMask(Bits)
        BY AddrRangeAssumption DEF AddrRangeAssumption, PrefixMask
      <4> QED
        BY <2>2, <3>1, <4>1
    <3>2. CASE ~kept
      <4> DEFINE m == MaskBits(mask, ipv4)
      <4>1. m \in Masks /\ (ipv4 => PrefixMask(Bits - V4Bits) \subseteq m)
        BY <1>2, <3>2, MaskBitsFit
      <4> HIDE DEF m
      <4>2. q = [r EXCEPT !.from.mask = m]
        BY <3>2 DEF m
      <4> HIDE DEF q
      <4>3. q \in Remasked(r) /\ q.from.mask = m
        BY <4>1, <4>2, RemaskedRange
      <4> QED
        BY <4>1, <4>3
    <3> QED
      BY <3>1, <3>2
  <2> HIDE DEF x, q, kept
  <2>4. PushBack(q).ranges = <<q>> /\ PushBack(q).errors = 0 /\ ~PushBack(q).threw
    BY DEF PushBack, Nothing
  <2>5. PushBack(q) \in Results(AddressRanges)
    BY <2>3, SomeResults DEF Remasked
  <2>6. /\ x \in Results(AddressRanges) /\ ~x.threw
        /\ Len(x.ranges) = 1 /\ x.ranges[1] = q
    BY <2>1, <2>4, <2>5
  <2> QED
    BY <2>1, <2>3, <2>6 DEF x
<1> QED
  BY <1>1, <1>2

\* What a list of ranges is once each of them was given a mask.
LEMMA ParseMasksResult ==
    ASSUME NEW p, NEW mask, NEW ranges \in Seq(AddressRanges), NEW ipv4 \in BOOLEAN
    PROVE  LET x == ParseMasks(p, mask, ranges, ipv4)
           IN  /\ x \in Results(AddressRanges) /\ ~x.threw
               /\ x.errors = 0 =>
                    /\ Len(x.ranges) = Len(ranges)
                    /\ \A k \in 1..Len(ranges) :
                        /\ x.ranges[k] \in Remasked(ranges[k])
                        /\ (/\ ipv4 /\ IsIpv4(ranges[k].from)
                            /\ ranges[k].from.mask = PrefixMask(Bits)) =>
                            PrefixMask(Bits - V4Bits) \subseteq x.ranges[k].from.mask
               /\ MaskOrDefault(p, mask, ipv4) = <<>> =>
                    x.errors = 0 /\ \A k \in 1..Len(ranges) : x.ranges[k] = ranges[k]
<1> DEFINE m == MaskOrDefault(p, mask, ipv4)
           V4(k) == ipv4 /\ IsIpv4(ranges[k].from)
           One(k) == ParseMask(p, m, ranges[k], V4(k))
           results == [k \in DOMAIN ranges |-> One(k)]
           N == Len(ranges)
           x == InTurn(results)
           S == {y \in Results(AddressRanges) : ~y.threw}
           S0 == {y \in S : y.errors = 0}
<1>1. x = ParseMasks(p, mask, ranges, ipv4)
  BY DEF ParseMasks
<1>2. N \in Nat /\ DOMAIN ranges = 1..N /\ \A k \in 1..N : ranges[k] \in AddressRanges
  BY ElementOfSeq
<1> HIDE DEF m, N
<1>3. ASSUME NEW k \in 1..N
      PROVE  /\ One(k) \in Results(AddressRanges) /\ ~One(k).threw
             /\ One(k).errors = 0 =>
                  /\ Len(One(k).ranges) = 1 /\ One(k).ranges[1] \in Remasked(ranges[k])
                  /\ V4(k) /\ ranges[k].from.mask = PrefixMask(Bits) =>
                        PrefixMask(Bits - V4Bits) \subseteq One(k).ranges[1].from.mask
             /\ m = <<>> => One(k) = PushBack(ranges[k])
  <2> DEFINE v == V4(k)
             r == ranges[k]
  <2>1. v \in BOOLEAN /\ r \in AddressRanges
    BY <1>2
  <2> HIDE DEF v, r
  <2>2. LET y == ParseMask(p, m, r, v)
        IN  /\ y \in Results(AddressRanges) /\ ~y.threw
            /\ y.errors = 0 =>
                 /\ Len(y.ranges) = 1 /\ y.ranges[1] \in Remasked(r)
                 /\ v /\ r.from.mask = PrefixMask(Bits) =>
                     PrefixMask(Bits - V4Bits) \subseteq y.ranges[1].from.mask
            /\ m = <<>> => y = PushBack(r)
    BY <2>1, ParseMaskResult
  <2> QED
    BY <2>2 DEF v, r
<1> HIDE DEF One, V4
<1>4. /\ results \in Seq(S) /\ Len(results) = N /\ \A k \in 1..N : results[k] = One(k)
      /\ m = <<>> => results \in Seq(S0)
  <2>1. \A k \in 1..N : One(k) \in S
    BY <1>3
  <2>2. m = <<>> => \A k \in 1..N : One(k) \in S0
    <3>1. \A r : PushBack(r).errors = 0
      BY DEF PushBack, Nothing
    <3> QED
      BY <1>3, <3>1
  <2> HIDE DEF S, S0
  <2> QED
    BY <1>2, <2>1, <2>2
<1>5. S \in SUBSET Results(AddressRanges) /\ Nothing \in S /\ Nothing \in S0
  BY SomeResults DEF Nothing
<1>6. ASSUME NEW y \in S, NEW z \in S
      PROVE  Then(y, z) \in S /\ (y \in S0 /\ z \in S0 => Then(y, z) \in S0)
  <2>1. y \in Results(AddressRanges) /\ z \in Results(AddressRanges) /\ ~y.threw /\ ~z.threw
    OBVIOUS
  <2>2. Then(y, z) \in Results(AddressRanges) /\ (Then(y, z).threw <=> z.threw)
    BY <2>1, ThenType, Zenon
  <2>3. y.errors = 0 => Then(y, z).errors = z.errors
    BY <2>1, ThenCounts, Zenon
  <2> QED
    BY <2>1, <2>2, <2>3
<1> HIDE DEF results
<1>7. x \in S /\ (m = <<>> => x \in S0)
  <2>1. S0 \in SUBSET Results(AddressRanges)
    OBVIOUS
  <2>2. \A y, z \in S0 : Then(y, z) \in S0
    BY <1>6
  <2> HIDE DEF S, S0
  <2>3. x \in S
    BY <1>4, <1>5, <1>6, InTurnKeeps
  <2>4. m = <<>> => x \in S0
    BY <1>4, <1>5, <2>1, <2>2, InTurnKeeps
  <2> QED
    BY <2>3, <2>4
<1>8. x.errors = 0 =>
        /\ Len(x.ranges) = N
        /\ \A k \in 1..N : One(k).errors = 0 /\ x.ranges[k] = One(k).ranges[1]
  <2>1. results \in Seq(Results(AddressRanges))
    <3> HIDE DEF S
    <3> QED
      BY <1>4, <1>5, SeqMonotonic
  <2>2. x.errors = 0 =>
            /\ Len(x.ranges) = Len(results)
            /\ \A k \in 1..Len(results) :
                results[k].errors = 0 /\ x.ranges[k] = results[k].ranges[1]
    BY <1>3, <1>4, <2>1, InTurnCounts
  <2> HIDE DEF x
  <2> QED
    BY <1>4, <2>2
<1>9. ASSUME x.errors = 0, NEW k \in 1..N
      PROVE  /\ x.ranges[k] \in Remasked(ranges[k])
             /\ V4(k) /\ ranges[k].from.mask = PrefixMask(Bits) =>
                    PrefixMask(Bits - V4Bits) \subseteq x.ranges[k].from.mask
  <2> HIDE DEF x
  <2> QED
    BY <1>3, <1>8, <1>9
<1>10. ASSUME m = <<>>
       PROVE  x.errors = 0 /\ \A k \in 1..N : x.ranges[k] = ranges[k]
  <2>1. x.errors = 0
    BY <1>7, <1>10
  <2> HIDE DEF x
  <2>2. \A r : PushBack(r).ranges[1] = r
    BY DEF PushBack, Nothing
  <2> QED
    BY <1>3, <1>8, <1>10, <2>1, <2>2
<1>11. x \in Results(AddressRanges) /\ ~x.threw
  BY <1>7
<1> HIDE DEF x
<1> QED
  BY <1>1, <1>8, <1>9, <1>10, <1>11 DEF m, N, V4

-----------------------------------------------------------------------------
(* An entry                                                                *)

\* A sequence whose elements are in G is a sequence of G.
LEMMA SeqOfElements ==
    ASSUME NEW T, NEW s \in Seq(T), NEW G, \A k \in 1..Len(s) : s[k] \in G
    PROVE  s \in Seq(G)
<1>1. s = [k \in 1..Len(s) |-> s[k]] /\ Len(s) \in Nat
  OBVIOUS
<1> DEFINE N == Len(s)
           f == [k \in 1..N |-> s[k]]
<1>2. N \in Nat /\ \A k \in 1..N : f[k] \in G
  OBVIOUS
<1>3. f \in [1..N -> G]
  OBVIOUS
<1> HIDE DEF N, f
<1>4. f \in Seq(G)
  BY <1>2, <1>3
<1> QED
  BY <1>1, <1>4 DEF N, f

\* What a single address with the port of the text is, whatever its mask is.
MaskedSingles(p, portText) ==
    {r \in WithPortOf(p, portText) :
        /\ r.hasFrom /\ ~r.hasTo
        /\ p.protocol \in {"TCP", "UDP"} => r.from.protocol = p.protocol}

\* A mask changes neither the port nor the protocol of an address.
LEMMA RemaskedKeeps ==
    ASSUME NEW p, NEW portText
    PROVE  /\ \A r \in Ported(p, portText) : Remasked(r) \subseteq WithPortOf(p, portText)
           /\ \A r \in Singles(p, portText) : Remasked(r) \subseteq MaskedSingles(p, portText)
<1>1. ASSUME NEW r \in Ported(p, portText), NEW q \in Remasked(r)
      PROVE  q \in WithPortOf(p, portText)
  <2>1. /\ r.hasFrom => HasPort(r.from, p, portText)
        /\ r.hasTo => HasPort(r.to, p, portText)
        /\ PortExpected(p, portText)
    BY DEF Ported, WithPortOf
  <2>2. /\ q \in AddressRanges /\ q.hasFrom = r.hasFrom /\ q.hasTo = r.hasTo /\ q.to = r.to
        /\ r.hasFrom => q.from.port = r.from.port /\ q.from.portDefined = r.from.portDefined
    BY DEF Remasked
  <2>3. r.hasFrom => HasPort(q.from, p, portText)
    BY <2>1, <2>2, Zenon DEF HasPort
  <2>4. (q.hasFrom => HasPort(q.from, p, portText)) /\ (q.hasTo => HasPort(q.to, p, portText))
    BY <2>1, <2>2, <2>3, Zenon
  <2> QED
    BY <2>1, <2>2, <2>4 DEF WithPortOf
<1>2. ASSUME NEW r \in Singles(p, portText), NEW q \in Remasked(r)
      PROVE  q \in MaskedSingles(p, portText)
  <2>1. q \in WithPortOf(p, portText)
    BY <1>1, SinglesArePorted
  <2>2. /\ r.hasFrom /\ ~r.hasTo
        /\ p.protocol \in {"TCP", "UDP"} => r.from.protocol = p.protocol
    BY DEF Singles
  <2>3. /\ q.hasFrom = r.hasFrom /\ q.hasTo = r.hasTo
        /\ r.hasFrom => q.from.protocol = r.from.protocol
    BY DEF Remasked
  <2>4. /\ q.hasFrom /\ ~q.hasTo
        /\ p.protocol \in {"TCP", "UDP"} => q.from.protocol = p.protocol
    BY <2>2, <2>3, Zenon
  <2> QED
    BY <2>1, <2>4 DEF MaskedSingles
<1> QED
  BY <1>1, <1>2

\* What an entry adds says what it left out, and with masks it adds either
\* ranges or errors.
Settles(p, names, x) ==
    /\ p.noEmpty \/ x.threw \/ x.errors > 0 \/ x.ranges # <<>>
    /\ x.errors > 0 /\ x.ranges # <<>> => "MASK" \notin p.allow /\ HasUnsupported(names)

\* Without ranges of addresses, its ranges are single addresses.
OnlySingles(p, portText, x) ==
    /\ \A k \in 1..Len(x.ranges) : x.ranges[k] \in MaskedSingles(p, portText)
    /\ LookupForAny(p) => Len(x.ranges) # 1

\* What an entry with this port adds.
Added(p, names, portText) ==
    {x \in Results(WithPortOf(p, portText)) :
        /\ Settles(p, names, x)
        /\ "ADDRESS_RANGE" \notin p.allow => OnlySingles(p, portText, x)}

\* What an entry adds when no mask is allowed.
LEMMA AddedWithoutMask ==
    ASSUME NEW p, NEW names, NEW portText, NEW x \in RangeResults(p, names, portText),
           "MASK" \notin p.allow,
           "ADDRESS_RANGE" \notin p.allow => x \in AddressResults(p, names, portText)
    PROVE  x \in Added(p, names, portText)
<1>1. /\ x \in Results(Ported(p, portText))
      /\ x.ranges = <<>> => p.noEmpty \/ x.threw \/ x.errors > 0
      /\ x.errors > 0 /\ x.ranges # <<>> => HasUnsupported(names)
  BY DEF RangeResults
<1>2. x.ranges \in Seq(WithPortOf(p, portText))
  <2>1. x.ranges \in Seq(Ported(p, portText)) /\ Ported(p, portText) \subseteq WithPortOf(p, portText)
    BY <1>1 DEF Results, Ported
  <2> QED
    BY <2>1, SeqMonotonic
<1>3. x \in Results(WithPortOf(p, portText))
  BY <1>1, <1>2 DEF Results
<1>4. Settles(p, names, x)
  BY <1>1 DEF Settles
<1>5. ASSUME "ADDRESS_RANGE" \notin p.allow
      PROVE  OnlySingles(p, portText, x)
  <2>1. x \in Results(Singles(p, portText)) /\ (LookupForAny(p) => Len(x.ranges) # 1)
    BY <1>5 DEF AddressResults
  <2>2. x.ranges \in Seq(Singles(p, portText))
    BY <2>1 DEF Results
  <2>3. Singles(p, portText) \subseteq MaskedSingles(p, portText)
    BY SinglesArePorted DEF MaskedSingles, Singles, Ported
  <2>4. \A k \in 1..Len(x.ranges) : x.ranges[k] \in MaskedSingles(p, portText)
    BY <2>2, <2>3, ElementOfSeq
  <2> QED
    BY <2>1, <2>4 DEF OnlySingles
<1> QED
  BY <1>3, <1>4, <1>5 DEF Added

\* What an entry adds once its ranges have their mask, if no mask is refused.
LEMMA AddedWithMask ==
    ASSUME NEW p, NEW names, NEW portText, NEW f \in RangeResults(p, names, portText),
           NEW mask, NEW ipv4 \in BOOLEAN,
           "ADDRESS_RANGE" \notin p.allow => f \in AddressResults(p, names, portText)
    PROVE  KeepUnlessErrors(f, ParseMasks(p, mask, f.ranges, ipv4)) \in Added(p, names, portText)
<1> DEFINE m == ParseMasks(p, mask, f.ranges, ipv4)
           x == KeepUnlessErrors(f, m)
           W == WithPortOf(p, portText)
           e == f.errors + m.errors
           v == f.ranges
           w == m.ranges
<1> SUFFICES x \in Added(p, names, portText)
  OBVIOUS
<1>1. /\ f \in Results(Ported(p, portText))
      /\ f.ranges = <<>> => p.noEmpty \/ f.threw \/ f.errors > 0
  BY DEF RangeResults
<1>2. /\ v \in Seq(Ported(p, portText)) /\ f.errors \in Nat /\ f.threw \in BOOLEAN
  BY <1>1 DEF Results
<1>3. v \in Seq(AddressRanges)
  BY <1>2, SeqMonotonic DEF Ported, WithPortOf
<1>4. /\ m \in Results(AddressRanges)
      /\ m.errors = 0 =>
            Len(w) = Len(v) /\ \A k \in 1..Len(v) : w[k] \in Remasked(v[k])
  <2> HIDE DEF v
  <2> DEFINE y == ParseMasks(p, mask, v, ipv4)
  <2>1. y \in Results(AddressRanges)
    BY <1>3, ParseMasksResult
  <2>2. ASSUME y.errors = 0
        PROVE  Len(y.ranges) = Len(v)
    BY <1>3, <2>2, ParseMasksResult DEF Results
  <2>3. ASSUME y.errors = 0, NEW k \in 1..Len(v)
        PROVE  y.ranges[k] \in Remasked(v[k])
    BY <1>3, <2>3, ParseMasksResult, Zenon
  <2> QED
    BY <2>1, <2>2, <2>3 DEF v
<1> HIDE DEF m
<1>5. w \in Seq(AddressRanges) /\ m.errors \in Nat
  BY <1>4 DEF Results
<1>6. e \in Nat /\ (e = 0 => f.errors = 0 /\ m.errors = 0) /\ (e # 0 => e > 0)
  BY <1>2, <1>5
<1>7. x = [f EXCEPT !.errors = e, !.ranges = IF e = 0 THEN w ELSE <<>>]
  BY DEF KeepUnlessErrors
<1> HIDE DEF e, x
<1>8. CASE e # 0
  <2>1. <<>> \in Seq(W)
    OBVIOUS
  <2> HIDE DEF W
  <2>2. x \in Results(W) /\ x.errors > 0 /\ x.ranges = <<>>
    BY <1>1, <1>6, <1>7, <1>8, <2>1 DEF Results
  <2>3. Settles(p, names, x)
    BY <2>2 DEF Settles
  <2>4. OnlySingles(p, portText, x)
    <3>1. Len(<<>>) = 0
      OBVIOUS
    <3>2. Len(x.ranges) = 0
      BY <2>2, <3>1, Zenon
    <3> QED
      BY <3>2 DEF OnlySingles
  <2> QED
    BY <2>2, <2>3, <2>4 DEF Added, W
<1>9. CASE e = 0
  <2>1. Len(w) = Len(v) /\ Len(v) \in Nat /\ \A k \in 1..Len(v) : w[k] \in Remasked(v[k])
    BY <1>2, <1>4, <1>6, <1>9
  <2> HIDE DEF v, w
  <2>2. \A k \in 1..Len(w) : w[k] \in W
    BY <1>2, <2>1, RemaskedKeeps, ElementOfSeq
  <2>3. w \in Seq(W)
    BY <1>5, <2>2, SeqOfElements
  <2> HIDE DEF W
  <2>4. x \in Results(W) /\ x.errors = 0 /\ x.ranges = w /\ (x.threw <=> f.threw)
    BY <1>1, <1>6, <1>7, <1>9, <2>3 DEF Results
  <2>5. Settles(p, names, x)
    <3>1. w = <<>> => v = <<>>
      BY <1>2, <2>1, EmptySeq
    <3> QED
      BY <1>1, <1>6, <1>9, <2>4, <3>1 DEF Settles, v
  <2>6. ASSUME "ADDRESS_RANGE" \notin p.allow
        PROVE  OnlySingles(p, portText, x)
    <3>1. /\ f \in Results(Singles(p, portText))
          /\ LookupForAny(p) => Len(v) # 1
      BY <2>6 DEF AddressResults, v
    <3>2. v \in Seq(Singles(p, portText))
      BY <3>1 DEF Results, v
    <3>3. \A k \in 1..Len(w) : w[k] \in MaskedSingles(p, portText)
      BY <2>1, <3>2, RemaskedKeeps, ElementOfSeq
    <3> QED
      BY <2>1, <2>4, <3>1, <3>3 DEF OnlySingles
  <2> QED
    BY <2>4, <2>5, <2>6 DEF Added, W
<1> QED
  BY <1>8, <1>9

\* An entry adds ranges with one port, and is settled.
LEMMA ParseCidrResult ==
    ASSUME NEW p \in Parsers, NEW names \in Resolvers, NEW text
    PROVE  \E portText : ParseCidr(p, names, text) \in Added(p, names, portText)
<1> DEFINE t == Trim(text)
           address == UpTo(t, {"/"})
           mask == Past(t, {"/"})
<1>1. CASE "MASK" \notin p.allow
  <2>1. ParseCidr(p, names, text) = ParseAddress(p, names, t, <<>>)
    BY <1>1 DEF ParseCidr
  <2> HIDE DEF t
  <2> QED
    BY <1>1, <2>1, ParseAddressResult, AddedWithoutMask
<1>2. CASE "MASK" \in p.allow
  <2> DEFINE f == ParseAddress(p, names, address, mask)
             ipv4 == ~UsesSyntax6(p, address, mask)
  <2>1. ParseCidr(p, names, text) = KeepUnlessErrors(f, ParseMasks(p, mask, f.ranges, ipv4))
    BY <1>2 DEF ParseCidr, ParseCidrMask
  <2> HIDE DEF address, mask
  <2>2. ipv4 \in BOOLEAN
    OBVIOUS
  <2>3. PICK portText :
            /\ f \in RangeResults(p, names, portText)
            /\ "ADDRESS_RANGE" \notin p.allow => f \in AddressResults(p, names, portText)
    BY ParseAddressResult
  <2> HIDE DEF f, ipv4
  <2> QED
    BY <2>1, <2>2, <2>3, AddedWithMask
<1> QED
  BY <1>1, <1>2

-----------------------------------------------------------------------------
(* Texts                                                                   *)

\* The first of some tokens, if there is one.
LEMMA FindFirst ==
    ASSUME NEW T, NEW t \in Seq(T), NEW tokens
    PROVE  /\ Find(t, tokens) \in 0..Len(t) /\ Len(t) \in Nat
           /\ Find(t, tokens) = 0 <=> \A i \in 1..Len(t) : t[i] \notin tokens
           /\ Find(t, tokens) # 0 => t[Find(t, tokens)] \in tokens
           /\ \A i \in 1..(Find(t, tokens) - 1) : t[i] \notin tokens
<1> DEFINE places == {i \in DOMAIN t : t[i] \in tokens}
           n == First(places)
<1>1. DOMAIN t = 1..Len(t) /\ Len(t) \in Nat
  BY LenProperties
<1>2. places \in SUBSET (Nat \ {0}) /\ \A i \in places : i \in 1..Len(t) /\ t[i] \in tokens
  BY <1>1
<1>3. \A i \in 1..Len(t) : t[i] \in tokens => i \in places
  BY <1>1
<1> HIDE DEF places
<1>4. n = 0 <=> places = {}
  BY <1>2, FirstPlace
<1>5. places # {} => n \in places /\ \A k \in places : n <= k
  BY <1>2, FirstPlace
<1> HIDE DEF n
<1>6. n = 0 <=> \A i \in 1..Len(t) : t[i] \notin tokens
  BY <1>2, <1>3, <1>4
<1>7. n \in 0..Len(t) /\ (n # 0 => t[n] \in tokens)
  <2>1. CASE places = {}
    BY <1>1, <1>4, <2>1
  <2>2. CASE places # {}
    <3>1. n \in places
      BY <1>5, <2>2
    <3>2. n \in 1..Len(t) /\ t[n] \in tokens
      BY <1>2, <3>1
    <3> QED
      BY <1>1, <3>2
  <2> QED
    BY <2>1, <2>2
<1>8. ASSUME NEW i \in 1..(n - 1)
      PROVE  t[i] \notin tokens
  BY <1>1, <1>3, <1>4, <1>5, <1>7
<1>9. n = Find(t, tokens)
  BY DEF Find, n, places
<1> QED
  BY <1>1, <1>6, <1>7, <1>8, <1>9

\* A part of a text.
LEMMA PartOfText ==
    ASSUME NEW T, NEW t \in Seq(T), NEW m \in Nat \ {0}, NEW n \in Int, n <= Len(t)
    PROVE  /\ SubSeq(t, m, n) \in Seq(T)
           /\ Len(SubSeq(t, m, n)) = IF m <= n THEN n - m + 1 ELSE 0
           /\ \A i \in 1..(n - m + 1) : SubSeq(t, m, n)[i] = t[m + i - 1]
<1>1. \A i \in m..n : t[i] \in T
  <2>1. \A i \in m..n : i \in 1..Len(t)
    BY LenProperties
  <2> QED
    BY <2>1, ElementOfSeq
<1> QED
  BY <1>1, SubSeqProperties

\* What comes before the first of some tokens, and after it.
LEMMA UpToParts ==
    ASSUME NEW T, NEW t \in Seq(T), NEW tokens
    PROVE  /\ UpTo(t, tokens) \in Seq(T)
           /\ Find(t, tokens) = 0 => UpTo(t, tokens) = t
           /\ Find(t, tokens) # 0 => Len(UpTo(t, tokens)) = Find(t, tokens) - 1
           /\ \A i \in 1..Len(UpTo(t, tokens)) :
                i \in 1..Len(t) /\ UpTo(t, tokens)[i] = t[i] /\ t[i] \notin tokens
<1> DEFINE n == Find(t, tokens)
           u == UpTo(t, tokens)
<1>1. /\ n \in 0..Len(t) /\ Len(t) \in Nat
      /\ n = 0 <=> \A i \in 1..Len(t) : t[i] \notin tokens
      /\ \A i \in 1..(n - 1) : t[i] \notin tokens
  BY FindFirst
<1>2. u = IF n = 0 THEN t ELSE SubSeq(t, 1, n - 1)
  BY DEF UpTo, Until
<1> HIDE DEF n, u
<1>3. CASE n = 0
  BY <1>1, <1>2, <1>3 DEF n, u
<1>4. CASE n # 0
  <2>1. n - 1 \in Int /\ n - 1 <= Len(t) /\ 1 \in Nat \ {0} /\ n - 1 \in Nat
    BY <1>1, <1>4
  <2> DEFINE m == n - 1
  <2>2. /\ SubSeq(t, 1, m) \in Seq(T)
        /\ Len(SubSeq(t, 1, m)) = IF 1 <= m THEN m - 1 + 1 ELSE 0
        /\ \A i \in 1..(m - 1 + 1) : SubSeq(t, 1, m)[i] = t[1 + i - 1]
    BY <2>1, PartOfText
  <2>3. Len(u) = m
    BY <1>2, <1>4, <2>1, <2>2
  <2>4. ASSUME NEW i \in 1..m
        PROVE  i \in 1..Len(t) /\ u[i] = t[i] /\ t[i] \notin tokens
    <3>1. i \in 1..(m - 1 + 1) /\ 1 + i - 1 = i /\ i \in 1..Len(t)
      BY <1>1, <2>1
    <3> QED
      BY <1>1, <1>2, <1>4, <2>2, <3>1
  <2> QED
    BY <1>2, <1>4, <2>2, <2>3, <2>4 DEF n, u
<1> QED
  BY <1>3, <1>4

\* What is past the first of these tokens.
LEMMA PastParts ==
    ASSUME NEW T, NEW t \in Seq(T), NEW tokens
    PROVE  /\ Past(t, tokens) \in Seq(T)
           /\ Find(t, tokens) = 0 => Past(t, tokens) = <<>>
           /\ Find(t, tokens) # 0 =>
                /\ Len(Past(t, tokens)) = Len(t) - Find(t, tokens)
                /\ \A i \in 1..Len(Past(t, tokens)) :
                    Past(t, tokens)[i] = t[Find(t, tokens) + i]
           /\ \A i \in 1..Len(Past(t, tokens)) :
                \E j \in 1..Len(t) : Past(t, tokens)[i] = t[j]
<1> DEFINE n == Find(t, tokens)
           u == Past(t, tokens)
<1>1. n \in 0..Len(t) /\ Len(t) \in Nat
  BY FindFirst
<1>2. u = IF n = 0 THEN <<>> ELSE SubSeq(t, n + 1, Len(t))
  BY DEF Past, After
<1> HIDE DEF n, u
<1>3. CASE n = 0
  <2>1. <<>> \in Seq(T) /\ Len(<<>>) = 0
    OBVIOUS
  <2>2. u \in Seq(T) /\ u = <<>> /\ Len(u) = 0
    BY <1>2, <1>3, <2>1
  <2> QED
    BY <1>3, <2>2 DEF n, u
<1>4. CASE n # 0
  <2> DEFINE k == n + 1
             l == Len(t)
  <2>1. k \in Nat \ {0} /\ l \in Int /\ l <= Len(t) /\ l \in Nat /\ n <= l
    BY <1>1
  <2> HIDE DEF k, l
  <2>2. /\ SubSeq(t, k, l) \in Seq(T)
        /\ Len(SubSeq(t, k, l)) = IF k <= l THEN l - k + 1 ELSE 0
        /\ \A i \in 1..(l - k + 1) : SubSeq(t, k, l)[i] = t[k + i - 1]
    BY <2>1, PartOfText
  <2>3. k = n + 1 /\ l = Len(t) /\ u = SubSeq(t, k, l)
    BY <1>2, <1>4 DEF k, l
  <2>4. Len(u) = l - n
    BY <1>1, <2>1, <2>2, <2>3
  <2>5. ASSUME NEW i \in 1..Len(u)
        PROVE  u[i] = t[n + i] /\ n + i \in 1..Len(t)
    <3>1. i \in 1..(l - k + 1) /\ k + i - 1 = n + i /\ n + i \in 1..Len(t)
      BY <1>1, <2>1, <2>3, <2>4
    <3> QED
      BY <2>2, <2>3, <3>1
  <2> QED
    BY <1>4, <2>2, <2>3, <2>4, <2>5 DEF n, u
<1> QED
  BY <1>3, <1>4

\* The entries of a text are texts.
LEMMA EntriesAreTexts ==
    ASSUME NEW p, NEW t \in Seq(STRING)
    PROVE  TextEntries(p, t) \in Seq(Seq(STRING))
<1> DEFINE separators == Separators(p)
           places == 1..(Len(t) + 1)
           ends == [i \in places |-> i]
           cut == {i \in DOMAIN t : t[i] \in separators} \cup {Len(t) + 1}
           cuts == Cuts(t, separators)
           Start(i) == IF i = 1 THEN 1 ELSE cuts[i - 1] + 1
           pieces == [i \in DOMAIN cuts |-> SubSeq(t, Start(i), cuts[i] - 1)]
           at == {i \in DOMAIN pieces :
                    pieces[i] # <<>> /\ pieces[i][1] \notin CommentStarts(p)}
           kept == Selected(pieces, at)
<1>1. Len(t) \in Nat /\ DOMAIN t = 1..Len(t)
  BY LenProperties
<1>2. cuts \in Seq(places)
  <2>1. ends \in Seq(places) /\ Len(ends) = Len(t) + 1
    BY <1>1
  <2>2. cut \in SUBSET (1..Len(ends))
    BY <1>1, <2>1
  <2>3. cuts = Selected(ends, cut)
    BY DEF Cuts
  <2> HIDE DEF ends, cut, places, cuts
  <2> QED
    BY <2>1, <2>2, <2>3, SelectedPlaces
<1> HIDE DEF cuts
<1>3. Len(cuts) \in Nat /\ DOMAIN cuts = 1..Len(cuts) /\ \A i \in 1..Len(cuts) : cuts[i] \in places
  BY <1>2, LenProperties, ElementOfSeq
<1>4. ASSUME NEW i \in 1..Len(cuts)
      PROVE  SubSeq(t, Start(i), cuts[i] - 1) \in Seq(STRING)
  <2>1. cuts[i] - 1 \in Int /\ cuts[i] - 1 <= Len(t)
    BY <1>1, <1>3
  <2>2. Start(i) \in Nat \ {0}
    <3>1. CASE i = 1
      BY <3>1
    <3>2. CASE i # 1
      <4>1. i - 1 \in 1..Len(cuts)
        BY <1>3, <3>2
      <4> QED
        BY <1>1, <1>3, <3>2, <4>1
    <3> QED
      BY <3>1, <3>2
  <2> HIDE DEF Start
  <2> QED
    BY <2>1, <2>2, PartOfText
<1> HIDE DEF Start
<1>5. pieces \in Seq(Seq(STRING)) /\ pieces = Pieces(t, separators)
  <2>1. pieces \in Seq(Seq(STRING))
    BY <1>3, <1>4
  <2>2. pieces = Pieces(t, separators)
    BY DEF Pieces, cuts, Start
  <2> QED
    BY <2>1, <2>2
<1> HIDE DEF pieces, separators
<1>6. kept \in Seq(Seq(STRING))
  <2>1. at \in SUBSET (1..Len(pieces))
    BY <1>5, LenProperties
  <2> HIDE DEF at
  <2> QED
    BY <1>5, <2>1, SelectedPlaces
<1>7. TextEntries(p, t) = IF separators = {} THEN <<t>>
                          ELSE [i \in DOMAIN kept |-> UpTo(kept[i], CommentStarts(p))]
  BY <1>5 DEF TextEntries, separators
<1> HIDE DEF kept
<1>8. /\ DOMAIN kept = 1..Len(kept) /\ Len(kept) \in Nat
      /\ \A i \in 1..Len(kept) : UpTo(kept[i], CommentStarts(p)) \in Seq(STRING)
  BY <1>6, LenProperties, ElementOfSeq, UpToParts
<1>9. [i \in DOMAIN kept |-> UpTo(kept[i], CommentStarts(p))] \in Seq(Seq(STRING))
  BY <1>8
<1>10. <<t>> \in Seq(Seq(STRING))
  OBVIOUS
<1>11. CASE separators = {}
  <2>1. TextEntries(p, t) = <<t>>
    BY <1>7, <1>11, Zenon
  <2> QED
    BY <1>10, <2>1
<1>12. CASE separators # {}
  <2>1. TextEntries(p, t) = [i \in DOMAIN kept |-> UpTo(kept[i], CommentStarts(p))]
    BY <1>7, <1>12, Zenon
  <2> QED
    BY <1>9, <2>1
<1> QED
  BY <1>11, <1>12

-----------------------------------------------------------------------------
(* A text                                                                  *)

\* What a parser may answer with.
Answered(p) ==
    {r \in AddressRanges : \E portText :
        /\ r \in WithPortOf(p, portText)
        /\ "ADDRESS_RANGE" \notin p.allow => r \in MaskedSingles(p, portText)}

\* Whether each of its answers is for all of the kinds of sockets.
InThrees(p) == "ADDRESS_RANGE" \notin p.allow /\ LookupForAny(p)

\* What parse() adds is what a text may add, for any parser, names and text.
LEMMA ParseTextResult ==
    ASSUME NEW p \in Parsers, NEW names \in Resolvers, NEW t \in Seq(STRING)
    PROVE  /\ ParseText(p, names, t) \in Results(Answered(p))
           /\ InThrees(p) => Len(ParseText(p, names, t).ranges) # 1
<1> DEFINE written == TextEntries(p, t)
           One(i) == ParseCidr(p, names, written[i])
           results == [i \in DOMAIN written |-> One(i)]
           G == Answered(p)
           S == {x \in Results(G) : InThrees(p) => Len(x.ranges) # 1}
<1>1. DOMAIN written = 1..Len(written) /\ Len(written) \in Nat
  BY EntriesAreTexts, LenProperties
<1>2. ASSUME NEW i \in DOMAIN written
      PROVE  One(i) \in S
  <2>1. PICK portText : One(i) \in Added(p, names, portText)
    BY ParseCidrResult
  <2> DEFINE x == One(i)
             W == WithPortOf(p, portText)
  <2> HIDE DEF x
  <2>2. /\ x \in Results(W)
        /\ "ADDRESS_RANGE" \notin p.allow => OnlySingles(p, portText, x)
    BY <2>1 DEF Added, x
  <2>3. x.ranges \in Seq(W)
    BY <2>2 DEF Results
  <2> DEFINE v == x.ranges
  <2>4. v \in Seq(W) /\ \A k \in 1..Len(v) : v[k] \in W
    BY <2>3, ElementOfSeq
  <2>5. "ADDRESS_RANGE" \notin p.allow => \A k \in 1..Len(v) : v[k] \in MaskedSingles(p, portText)
    BY <2>2 DEF OnlySingles
  <2> HIDE DEF v
  <2>6. \A k \in 1..Len(v) : v[k] \in G
    BY <2>4, <2>5 DEF Answered, WithPortOf
  <2>7. v \in Seq(G)
    BY <2>4, <2>6, SeqOfElements
  <2>8. x \in Results(G)
    BY <2>2, <2>7 DEF Results, v
  <2>9. InThrees(p) => Len(x.ranges) # 1
    BY <2>2 DEF InThrees, OnlySingles
  <2> QED
    BY <2>8, <2>9 DEF x
<1> HIDE DEF One, written, G
<1>3. results \in Seq(S)
  <2> HIDE DEF S
  <2> QED
    BY <1>1, <1>2
<1>4. Nothing \in S /\ S \in SUBSET Results(G)
  <2>1. Nothing.ranges = <<>> /\ Len(<<>>) = 0
    BY DEF Nothing
  <2>2. Len(Nothing.ranges) = 0
    BY <2>1, Zenon
  <2>3. Nothing \in Results(G)
    BY SomeResults
  <2>4. 0 # 1
    OBVIOUS
  <2>5. Len(Nothing.ranges) # 1
    BY <2>2, <2>4, Zenon
  <2>6. Nothing \in S
    BY <2>3, <2>5, Zenon
  <2>7. S \in SUBSET Results(G)
    OBVIOUS
  <2> QED
    BY <2>6, <2>7
<1>5. ASSUME NEW x \in S, NEW y \in S
      PROVE  Then(x, y) \in S
  <2>1. /\ x \in Results(G) /\ y \in Results(G)
        /\ InThrees(p) => Len(x.ranges) # 1 /\ Len(y.ranges) # 1
    OBVIOUS
  <2>2. Then(x, y) \in Results(G)
    BY <2>1, ThenType
  <2>3. CASE x.threw
    <3>1. Then(x, y) = x
      BY <2>3 DEF Then
    <3> QED
      BY <3>1
  <2>4. CASE ~x.threw
    <3>1. /\ Len(Then(x, y).ranges) = Len(x.ranges) + Len(y.ranges)
          /\ Len(x.ranges) \in Nat /\ Len(y.ranges) \in Nat
      BY <2>1, <2>4, ThenCounts, Zenon
    <3>2. \A m, n \in Nat : m # 1 /\ n # 1 => m + n # 1
      OBVIOUS
    <3>3. InThrees(p) => Len(Then(x, y).ranges) # 1
      BY <2>1, <3>1, <3>2
    <3> QED
      BY <2>2, <3>3
  <2> QED
    BY <2>3, <2>4
<1> HIDE DEF results
<1> DEFINE x == InTurn(results)
<1>6. x \in S
  <2> HIDE DEF S
  <2> QED
    BY <1>3, <1>4, <1>5, InTurnKeeps
<1>7. ParseText(p, names, t) = Unwound(x)
  BY DEF ParseText, results, One, written
<1> HIDE DEF x
<1>8. Unwound(x) \in Results(G) /\ (InThrees(p) => Len(Unwound(x).ranges) # 1)
  <2>1. CASE x.threw
    <3>1. Unwound(x) = [x EXCEPT !.ranges = <<>>]
      BY <2>1 DEF Unwound
    <3>2. <<>> \in Seq(G) /\ Len(<<>>) = 0
      OBVIOUS
    <3>3. Unwound(x) \in Results(G) /\ Unwound(x).ranges = <<>>
      BY <1>6, <3>1, <3>2 DEF Results
    <3>4. Len(Unwound(x).ranges) = 0
      BY <3>2, <3>3, Zenon
    <3> QED
      BY <3>3, <3>4
  <2>2. CASE ~x.threw
    BY <1>6, <2>2 DEF Unwound
  <2> QED
    BY <2>1, <2>2
<1> QED
  BY <1>7, <1>8 DEF G

-----------------------------------------------------------------------------
(* What the calls leave behind                                             *)

\* What was parsed was parsed as a text of a parser, and its errors are added to
\* those there were, which are none when a validator parsed it.
ParsedAsText ==
    Parsed =>
        /\ last.before \in Parsers /\ last.resolver \in Resolvers
        /\ last.text \in Seq(STRING)
        /\ last.result = ParseText(last.before, last.resolver, last.text)
        /\ parser = AfterParse(last.before, last.result)
        /\ last.call = "validate" => last.before.errors = 0

\* The last call settled its entries.
LEMMA ParsedSettles ==
    ASSUME ParsedAsText
    PROVE  EntriesSettled
<1> SUFFICES ASSUME Parsed, NEW r \in EntryResults
             PROVE  NothingDropped(r) /\ AllOrNothing(r)
  BY DEF EntriesSettled
<1>1. last.before \in Parsers /\ last.resolver \in Resolvers
  BY DEF ParsedAsText
<1>2. PICK text : r = ParseCidr(last.before, last.resolver, text)
  BY DEF EntryResults
<1>3. PICK portText : r \in Added(last.before, last.resolver, portText)
  BY <1>1, <1>2, ParseCidrResult
<1>4. Settles(last.before, last.resolver, r)
  BY <1>3 DEF Added
<1> QED
  BY <1>4 DEF Settles, HasUnsupported, NothingDropped, AllOrNothing

\* The ports of the last call are those the parser allows.
LEMMA ParsedPorts ==
    ASSUME ParsedAsText
    PROVE  PortPolicy
<1> DEFINE p == last.before
           x == last.result
<1> SUFFICES ASSUME Parsed, NEW r \in ToSet(x.ranges), NEW a \in Bounds(r), NEW b \in Bounds(r)
             PROVE  /\ a.port = b.port
                    /\ a.portDefined \/ a.port = LookupPort(p.port)
                    /\ "REQUIRED_PORT" \in p.allow => a.portDefined
                    /\ a.portDefined => PortAllowed(p) \/ "ADDRESS_LOOKUP" \in p.allow
  BY Zenon DEF PortPolicy
<1>1. p \in Parsers /\ last.resolver \in Resolvers /\ last.text \in Seq(STRING)
      /\ x = ParseText(p, last.resolver, last.text)
  BY DEF ParsedAsText
<1> HIDE DEF p, x
<1>2. x \in Results(Answered(p))
  BY <1>1, ParseTextResult
<1>3. r \in Answered(p)
  <2> DEFINE v == x.ranges
  <2>1. v \in Seq(Answered(p))
    BY <1>2 DEF Results
  <2> HIDE DEF v
  <2>2. \A k \in DOMAIN v : v[k] \in Answered(p)
    BY <2>1
  <2>3. PICK k \in DOMAIN v : r = v[k]
    BY DEF ToSet, v
  <2> QED
    BY <2>2, <2>3
<1>4. PICK portText : r \in WithPortOf(p, portText)
  BY <1>3 DEF Answered
<1>5. \A c \in Bounds(r) : HasPort(c, p, portText)
  BY <1>4 DEF WithPortOf, Bounds
<1>6. PortExpected(p, portText)
  BY <1>4 DEF WithPortOf
<1>7. a.port = b.port /\ a.port = LookupPort(PortOf(p, portText)) /\ (a.portDefined <=> portText # <<>>)
  BY <1>5 DEF HasPort
<1> QED
  BY <1>6, <1>7 DEF PortExpected, PortOf

\* A text has an error exactly when one of its entries has one.
LEMMA ErrorsOfEntries ==
    ASSUME NEW p \in Parsers, NEW names \in Resolvers, NEW t \in Seq(STRING),
           ~ParseText(p, names, t).threw
    PROVE  LET written == TextEntries(p, t)
           IN  ParseText(p, names, t).errors > 0
                    <=> \E i \in DOMAIN written : ParseCidr(p, names, written[i]).errors > 0
<1> DEFINE written == TextEntries(p, t)
           One(i) == ParseCidr(p, names, written[i])
           results == [i \in DOMAIN written |-> One(i)]
           G == AddressRanges
           S == Results(G)
<1>1. DOMAIN written = 1..Len(written) /\ Len(written) \in Nat
  BY EntriesAreTexts, LenProperties
<1>2. ASSUME NEW i \in DOMAIN written
      PROVE  One(i) \in S
  <2>1. PICK portText : One(i) \in Added(p, names, portText)
    BY ParseCidrResult
  <2> DEFINE e == One(i)
             W == WithPortOf(p, portText)
  <2> HIDE DEF e
  <2>2. e \in Results(W)
    BY <2>1 DEF Added, e
  <2>3. W \in SUBSET G
    BY DEF WithPortOf
  <2> HIDE DEF W, G
  <2>4. e.ranges \in Seq(G)
    <3>1. e.ranges \in Seq(W)
      BY <2>2 DEF Results
    <3> QED
      BY <2>3, <3>1, SeqMonotonic
  <2>5. e \in Results(G)
    BY <2>2, <2>4 DEF Results
  <2> QED
    BY <2>5 DEF e
<1>3. ParseText(p, names, t) = Unwound(InTurn(results))
  BY DEF ParseText
<1> HIDE DEF One, written, S, G
<1>4. results \in Seq(S) /\ Len(results) = Len(written)
      /\ \A i \in 1..Len(written) : results[i] = One(i)
  BY <1>1, <1>2
<1> HIDE DEF results
<1> DEFINE x == InTurn(results)
<1>5. x \in S
  BY <1>4, InTurnSteps DEF InTurn, S
<1> HIDE DEF x
<1>6. ParseText(p, names, t).threw = x.threw /\ ParseText(p, names, t).errors = x.errors
  <2>1. CASE x.threw
    <3>1. Unwound(x) = [x EXCEPT !.ranges = <<>>]
      BY <2>1 DEF Unwound
    <3> QED
      BY <1>3, <1>5, <3>1 DEF x, S, Results
  <2>2. CASE ~x.threw
    BY <1>3, <2>2 DEF Unwound, x
  <2> QED
    BY <2>1, <2>2
<1>7. ~x.threw
  BY <1>6
<1>8. x.errors > 0 <=> \E k \in 1..Len(results) : results[k].errors > 0
  BY <1>4, <1>7, InTurnErrors DEF x, S
<1>9. x.errors > 0 <=> \E i \in DOMAIN written : One(i).errors > 0
  BY <1>1, <1>4, <1>8
<1> QED
  BY <1>6, <1>9 DEF One, written

\* A validator which cleared its errors has those of the value only.
LEMMA ValidatedFresh ==
    ASSUME ParsedAsText
    PROVE  VerdictFresh
<1> SUFFICES ASSUME last.call = "validate", ~last.result.threw
             PROVE  HasErrors(parser) <=> \E r \in EntryResults : r.errors > 0
  BY DEF VerdictFresh
<1> DEFINE p == last.before
           names == last.resolver
           t == last.text
           x == last.result
           written == TextEntries(p, t)
<1>1. /\ p \in Parsers /\ names \in Resolvers /\ t \in Seq(STRING)
      /\ x = ParseText(p, names, t)
      /\ parser = AfterParse(p, x) /\ p.errors = 0
  BY DEF ParsedAsText, Parsed
<1>2. (\E r \in EntryResults : r.errors > 0)
        <=> \E i \in DOMAIN written : ParseCidr(p, names, written[i]).errors > 0
  BY DEF EntryResults
<1>3. ~x.threw
  OBVIOUS
<1> HIDE DEF p, names, t, x
<1>4. x.errors > 0
        <=> \E i \in DOMAIN written : ParseCidr(p, names, written[i]).errors > 0
  BY <1>1, <1>3, ErrorsOfEntries
<1>5. x.errors \in Nat
  BY <1>1, ParseTextResult DEF Results
<1>6. parser.errors = 0 + x.errors
  BY <1>1 DEF AfterParse, Parsers
<1>7. HasErrors(parser) <=> x.errors > 0
  BY <1>5, <1>6 DEF HasErrors
<1> QED
  BY <1>2, <1>4, <1>7

-----------------------------------------------------------------------------
(* Configurations                                                          *)

\* A parser where the comma has at most one meaning.
OneComma ==
    {p \in Parsers : ~({"MULTI_ADDRESSES_COMMAS", "MULTI_PORTS_COMMAS"} \subseteq p.allow)}

\* Those of the validators, which never give it to ports.
Validators == {p \in Parsers : "MULTI_PORTS_COMMAS" \notin p.allow}

\* The constructor of a parser.
LEMMA NewParserType == NewParser \in Validators
<1>1. <<>> \in Seq(STRING) /\ Unset \in Unset..MaxPort
  BY AddrParserAssumption DEF AddrParserAssumption, Unset
<1> QED
  BY <1>1 DEF NewParser, Validators, Parsers, AllowFlags, Protocols

\* set_allow() with any flags, whatever it is about a comma.
LEMMA FlagTypes ==
    ASSUME NEW p \in Parsers, NEW flags \in SUBSET AllowFlags
    PROVE  /\ Allow(p, flags) \in Parsers /\ Allow(p, flags).allow = p.allow \cup flags
           /\ Disallow(p, flags) \in Parsers /\ Disallow(p, flags).allow = p.allow \ flags
<1>1. p.allow \cup flags \in SUBSET AllowFlags /\ p.allow \ flags \in SUBSET AllowFlags
  BY DEF Parsers
<1> QED
  BY <1>1 DEF Allow, Disallow, Parsers

\* set_allow() never leaves a comma which means two things.
LEMMA SetAllowType ==
    ASSUME NEW p \in OneComma, NEW flag \in AllowFlags, NEW on \in BOOLEAN
    PROVE  SetAllow(p, flag, on) \in OneComma
<1> DEFINE commas == {"MULTI_ADDRESSES_COMMAS", "MULTI_PORTS_COMMAS"}
           allow == IF on THEN (p.allow \ CommaRival(flag)) \cup {flag} ELSE p.allow \ {flag}
<1>1. p \in Parsers /\ ~(commas \subseteq p.allow) /\ p.allow \in SUBSET AllowFlags
  BY DEF OneComma, Parsers
<1>2. allow \in SUBSET AllowFlags
  BY <1>1
<1>3. ~(commas \subseteq allow)
  <2>1. CASE flag = "MULTI_ADDRESSES_COMMAS"
    BY <1>1, <2>1 DEF CommaRival
  <2>2. CASE flag = "MULTI_PORTS_COMMAS"
    BY <1>1, <2>2 DEF CommaRival
  <2>3. CASE flag \notin commas
    BY <1>1, <2>3
  <2> QED
    BY <2>1, <2>2, <2>3
<1>4. SetAllow(p, flag, on) = [p EXCEPT !.allow = allow]
  BY DEF SetAllow
<1> HIDE DEF allow
<1> QED
  BY <1>1, <1>2, <1>3, <1>4 DEF OneComma, Parsers

\* The brackets of a default address are taken off.
LEMMA UnbracketType ==
    ASSUME NEW t \in Seq(STRING)
    PROVE  Unbracket(t) \in Seq(STRING)
<1>1. Len(t) - 1 \in Int /\ Len(t) - 1 <= Len(t) /\ 2 \in Nat \ {0}
  BY LenProperties
<1> QED
  BY <1>1, PartOfText DEF Unbracket

\* No setter but SetAllow changes what is allowed.
LEMMA SetterTypes ==
    ASSUME NEW p \in Parsers, NEW t \in Seq(STRING), NEW n \in Unset..MaxPort,
           NEW protocol \in Protocols, NEW on \in BOOLEAN
    PROVE  LET S == {q \in Parsers : q.allow = p.allow}
           IN  /\ SetDefaultAddress(p, t) \in S
               /\ SetDefaultPort(p, n) \in S
               /\ SetDefaultMask(p, t) \in S
               /\ SetProtocol(p, protocol) \in S
               /\ ClearProtocol(p) \in S
               /\ SetNoEmpty(p, on) \in S
               /\ ClearErrors(p) \in S
<1> DEFINE S == {q \in Parsers : q.allow = p.allow}
           u == Unbracket(t)
<1>1. <<>> \in Seq(STRING) /\ u \in Seq(STRING)
  BY UnbracketType
<1> HIDE DEF u
<1>2. SetDefaultAddress(p, t) \in S
  <2>1. \/ SetDefaultAddress(p, t) = [p EXCEPT !.address4 = <<>>, !.address6 = <<>>]
        \/ SetDefaultAddress(p, t) = [p EXCEPT !.address6 = u]
        \/ SetDefaultAddress(p, t) = [p EXCEPT !.address6 = t]
        \/ SetDefaultAddress(p, t) = [p EXCEPT !.address4 = t]
    BY Zenon DEF SetDefaultAddress, u
  <2> QED
    BY <1>1, <2>1 DEF Parsers
<1>3. SetDefaultMask(p, t) \in S
  <2>1. \/ SetDefaultMask(p, t) = [p EXCEPT !.mask4 = <<>>, !.mask6 = <<>>]
        \/ SetDefaultMask(p, t) = [p EXCEPT !.mask6 = u]
        \/ SetDefaultMask(p, t) = [p EXCEPT !.mask6 = t]
        \/ SetDefaultMask(p, t) = [p EXCEPT !.mask4 = t]
    BY Zenon DEF SetDefaultMask, u
  <2> QED
    BY <1>1, <2>1 DEF Parsers
<1>4. SetDefaultPort(p, n) \in S
  BY DEF SetDefaultPort, Parsers
<1>5. SetProtocol(p, protocol) \in S /\ ClearProtocol(p) \in S
  BY DEF SetProtocol, ClearProtocol, Parsers, Protocols
<1>6. SetNoEmpty(p, on) \in S
  BY DEF SetNoEmpty, Parsers
<1>7. ClearErrors(p) \in S
  BY DEF ClearErrors, Parsers
<1> QED
  BY <1>2, <1>3, <1>4, <1>5, <1>6, <1>7

-----------------------------------------------------------------------------
(* The parser of a validator                                               *)

\* The options of a validator which are words.
LEMMA OptionTypes ==
    ASSUME NEW p \in Validators, NEW values \in Seq(Seq(STRING))
    PROVE  /\ AddressOption(p, values) \in Validators
           /\ CommentOption(p, values) \in Validators
           /\ MaskOption(p, values) \in Validators
           /\ PortOption(p, values) \in Validators
<1> DEFINE Others == AllowFlags \ {"MULTI_PORTS_COMMAS"}
<1>1. ASSUME NEW off \in SUBSET Others, NEW on \in SUBSET Others
      PROVE  Allow(Disallow(p, off), on) \in Validators
  <2>1. p \in Parsers /\ "MULTI_PORTS_COMMAS" \notin p.allow
    BY DEF Validators
  <2>2. Disallow(p, off) \in Parsers /\ Disallow(p, off).allow = p.allow \ off
    BY <2>1, FlagTypes
  <2> DEFINE q == Disallow(p, off)
  <2> HIDE DEF q
  <2>3. q \in Parsers /\ "MULTI_PORTS_COMMAS" \notin q.allow
    BY <2>1, <2>2 DEF q
  <2>4. Allow(q, on) \in Parsers /\ Allow(q, on).allow = q.allow \cup on
    BY <2>3, FlagTypes
  <2>5. Allow(q, on) \in Validators
    BY <2>3, <2>4 DEF Validators
  <2> QED
    BY <2>5 DEF q
<1>2. AddressOption(p, values) \in Validators
  <2> DEFINE flags == UNION {FlagOf(v) : v \in ToSet(values)}
             on == IF Says(values, "no") THEN {} ELSE flags
  <2>1. \A v : FlagOf(v) \in SUBSET Others
    BY DEF FlagOf, AllowFlags
  <2>2. flags \in SUBSET Others
    BY <2>1, Zenon
  <2> HIDE DEF flags
  <2>3. on \in SUBSET Others
    BY <2>2
  <2>4. AddressFlags \in SUBSET Others
    BY DEF AddressFlags, AllowFlags
  <2>5. AddressOption(p, values) = Allow(Disallow(p, AddressFlags), on)
    BY DEF AddressOption, flags
  <2> HIDE DEF on, Others
  <2> QED
    BY <1>1, <2>3, <2>4, <2>5
<1>3. CommentOption(p, values) \in Validators
  <2> DEFINE off == {"COMMENT_HASH", "COMMENT_SEMICOLON"}
             hash == SaysOnly(values, {"yes", "all", "hash"})
             semicolon == SaysOnly(values, {"yes", "all", "semicolon"})
             on == (IF hash THEN {"COMMENT_HASH"} ELSE {})
                       \cup (IF semicolon THEN {"COMMENT_SEMICOLON"} ELSE {})
  <2>1. off \in SUBSET Others /\ on \in SUBSET Others
    BY DEF AllowFlags
  <2>2. CommentOption(p, values) = Allow(Disallow(p, off), on)
    BY DEF CommentOption
  <2> HIDE DEF off, on, Others
  <2> QED
    BY <1>1, <2>1, <2>2
<1>4. MaskOption(p, values) \in Validators
  <2> DEFINE off == {"MASK", "ADDRESS_MASK"}
             on == IF Len(values) # 1 \/ Says(values, "no") THEN {}
                   ELSE IF Says(values, "address") THEN {"MASK", "ADDRESS_MASK"}
                   ELSE {"MASK"}
  <2>1. off \in SUBSET Others /\ on \in SUBSET Others
    BY DEF AllowFlags
  <2>2. MaskOption(p, values) = Allow(Disallow(p, off), on)
    BY DEF MaskOption
  <2> HIDE DEF off, on, Others
  <2> QED
    BY <1>1, <2>1, <2>2
<1>5. PortOption(p, values) \in Validators
  <2> DEFINE off == {"PORT", "REQUIRED_PORT"}
             on == IF Len(values) # 1 \/ Says(values, "no") THEN {}
                   ELSE IF Says(values, "required") THEN {"PORT", "REQUIRED_PORT"}
                   ELSE {"PORT"}
  <2>1. off \in SUBSET Others /\ on \in SUBSET Others
    BY DEF AllowFlags
  <2>2. PortOption(p, values) = Allow(Disallow(p, off), on)
    BY DEF PortOption
  <2> HIDE DEF off, on, Others
  <2> QED
    BY <1>1, <2>1, <2>2
<1> QED
  BY <1>2, <1>3, <1>4, <1>5

\* An IP as the text of an IPv6,
LEMMA Text6OfType ==
    ASSUME NEW ip \in Ips
    PROVE  LET t == Text6Of(ip)
           IN  /\ t \in Seq(STRING) /\ t \in DOMAIN Literal /\ Literal[t] = ip
               /\ t[1] \notin DOMAIN Number /\ t[1] \in V6Words
<1> DEFINE t == Text6Of(ip)
<1>1. \E u \in DOMAIN Literal : IsTextOf(u, ip, TRUE)
  BY AddrTextAssumption DEF AddrTextAssumption
<1>2. t \in DOMAIN Literal /\ IsTextOf(t, ip, TRUE)
  BY <1>1, Zenon DEF Text6Of
<1> HIDE DEF t
<1>3. Literal[t] = ip /\ t[1] \notin DOMAIN Number /\ t[1] \in V6Words
  BY <1>2 DEF IsTextOf
<1>4. t \in Seq(STRING)
  BY <1>2, AddrParserAssumption DEF AddrParserAssumption
<1> QED
  BY <1>2, <1>3, <1>4 DEF t

\* or as that of an IPv4, and a number up to the width of an IP as a word.
LEMMA Text4OfType ==
    ASSUME NEW ip \in FirstV4..LastV4
    PROVE  LET t == Text4Of(ip)
           IN  /\ t \in Seq(STRING) /\ t \in DOMAIN Literal /\ Literal[t] = ip
               /\ t[1] \notin DOMAIN Number /\ t[1] \notin V6Words
<1> DEFINE t == Text4Of(ip)
<1>1. \E u \in DOMAIN Literal : IsTextOf(u, ip, FALSE)
  BY AddrTextAssumption DEF AddrTextAssumption
<1>2. t \in DOMAIN Literal /\ IsTextOf(t, ip, FALSE)
  BY <1>1, Zenon DEF Text4Of
<1> HIDE DEF t
<1>3. Literal[t] = ip /\ t[1] \notin DOMAIN Number /\ t[1] \notin V6Words
  BY <1>2 DEF IsTextOf
<1>4. t \in Seq(STRING)
  BY <1>2, AddrParserAssumption DEF AddrParserAssumption
<1> QED
  BY <1>2, <1>3, <1>4 DEF t

\* The size of a mask or a port can be printed.
LEMMA WordOfType ==
    ASSUME NEW n \in (0..Bits) \cup (0..MaxPort)
    PROVE  WordOf(n) \in STRING /\ WordOf(n) \in DOMAIN Number /\ Number[WordOf(n)] = n
<1>1. \E w \in DOMAIN Number : Number[w] = n
  BY AddrTextAssumption DEF AddrTextAssumption
<1>2. WordOf(n) \in DOMAIN Number /\ Number[WordOf(n)] = n
  BY <1>1, Zenon DEF WordOf
<1> QED
  BY <1>2, AddrParserAssumption DEF AddrParserAssumption

\* A list of one element.
LEMMA SingletonList ==
    ASSUME NEW T, NEW x \in T
    PROVE  <<x>> \in Seq(T)
OBVIOUS

\* A text in brackets is a text.
LEMMA InBrackets ==
    ASSUME NEW t \in Seq(STRING)
    PROVE  <<"[">> \o t \o <<"]">> \in Seq(STRING)
<1>1. <<"[">> \in Seq(STRING) /\ <<"]">> \in Seq(STRING)
  <2>1. "[" \in STRING /\ "]" \in STRING
    BY AddrParserAssumption, Zenon DEF AddrParserAssumption, Punctuation
  <2> QED
    BY <2>1, SingletonList
<1>2. <<"[">> \o t \in Seq(STRING)
  BY <1>1, ConcatProperties
<1> QED
  BY <1>1, <1>2, ConcatProperties

\* A default of a validator, once parsed and printed, is one a setter takes.
LEMMA DefaultTypes ==
    ASSUME NEW p \in Validators, NEW a \in SocketAddrs
    PROVE  /\ WithAddress(p, a) \in Validators
           /\ WithPort(p, a) \in Validators
           /\ WithMask(p, a) \in Validators
<1>1. p \in Parsers /\ "MULTI_PORTS_COMMAS" \notin p.allow
  BY DEF Validators
<1>2. a.ip \in Ips /\ a.port \in 0..MaxPort
  BY DEF SocketAddrs
<1>3. ASSUME NEW t \in Seq(STRING)
      PROVE  SetDefaultAddress(p, t) \in Validators /\ SetDefaultMask(p, t) \in Validators
  <2>1. /\ SetDefaultAddress(p, t) \in {q \in Parsers : q.allow = p.allow}
        /\ SetDefaultMask(p, t) \in {q \in Parsers : q.allow = p.allow}
    <3>1. "IP" \in Protocols /\ TRUE \in BOOLEAN /\ Unset \in Unset..MaxPort
      BY AddrParserAssumption DEF AddrParserAssumption, Protocols, Unset
    <3> QED
      BY <1>1, <3>1, SetterTypes
  <2> QED
    BY <1>1, <2>1 DEF Validators
<1>4. WithAddress(p, a) \in Validators
  <2> DEFINE mode == {"BRACKET_ADDRESS"}
             t == Text4Of(a.ip)
             u == Bracketed(Text6Of(a.ip), mode)
  <2>1. /\ Includes(mode, AddressModes) /\ ~Includes(mode, PortModes)
        /\ ~Includes(mode, MaskModes) /\ "DEFAULT_AS_ASTERISK" \notin mode
        /\ "DEFAULT_AS_IPV4" \notin mode
    BY DEF Includes, AddressModes, PortModes, MaskModes
  <2>2. PortText(a, mode) = <<>> /\ MaskText4(a, mode) = <<>> /\ MaskText6(a, mode) = <<>>
    BY <2>1 DEF PortText, MaskText4, MaskText6, ShowsMask
  <2>3. IsIpv4(a) => t \in Seq(STRING)
    BY <1>2, Text4OfType DEF IsIpv4
  <2>6. u \in Seq(STRING)
    BY <1>2, Text6OfType, InBrackets DEF Bracketed
  <2> HIDE DEF mode, t, u
  <2>4. ToIpv4String(a, mode) = (t \o <<>>) \o <<>>
    BY <2>1, <2>2 DEF ToIpv4String, t
  <2>5. ~IsDefault(a) => ToIpv6String(a, mode) = (u \o <<>>) \o <<>>
    BY <2>1, <2>2 DEF ToIpv6String, u
  <2>7. ~IsDefault(a) => ToIpv4or6String(a, mode) \in Seq(STRING)
    <3>1. \A v \in Seq(STRING) : (v \o <<>>) \o <<>> \in Seq(STRING)
      BY ConcatEmptySeq
    <3>2. CASE IsIpv4(a)
      BY <2>3, <2>4, <3>1, <3>2 DEF ToIpv4or6String
    <3>3. CASE ~IsIpv4(a)
      BY <2>5, <2>6, <3>1, <3>3 DEF ToIpv4or6String
    <3> QED
      BY <3>2, <3>3
  <2>8. WithAddress(p, a) = IF IsDefault(a) THEN p
                            ELSE SetDefaultAddress(p, ToIpv4or6String(a, mode))
    BY DEF WithAddress, mode
  <2> DEFINE v == ToIpv4or6String(a, mode)
  <2> HIDE DEF v
  <2>9. ~IsDefault(a) => SetDefaultAddress(p, v) \in Validators
    BY <1>3, <2>7 DEF v
  <2> QED
    BY <2>8, <2>9 DEF v
<1>5. WithPort(p, a) \in Validators
  <2>1. a.port \in Unset..MaxPort
    BY <1>2 DEF Unset
  <2>2. SetDefaultPort(p, a.port) \in Validators
    BY <1>1, <2>1 DEF SetDefaultPort, Validators, Parsers
  <2> QED
    BY <2>2 DEF WithPort
<1>6. WithMask(p, a) \in Validators
  <2> DEFINE n == GetMaskSize(a)
             size == Word(WordOf(n))
             t == IF IsIpv4(a) THEN size ELSE <<"[">> \o size \o <<"]">>
  <2>1. n = -1 \/ n \in 0..Bits
    BY DEF GetMaskSize
  <2> HIDE DEF n
  <2>2. n # -1 => t \in Seq(STRING)
    <3>1. n # -1 => size \in Seq(STRING)
      BY <2>1, WordOfType DEF Word
    <3> HIDE DEF size
    <3> QED
      BY <3>1, InBrackets
  <2>3. WithMask(p, a) = IF n \in {-1, Bits} THEN p ELSE SetDefaultMask(p, t)
    BY DEF WithMask, n
  <2> HIDE DEF t
  <2>4. n # -1 => SetDefaultMask(p, t) \in Validators
    BY <1>3, <2>2
  <2> QED
    BY <2>3, <2>4
<1> QED
  BY <1>4, <1>5, <1>6

\* Each range of a default sets the defaults of one family.
LEMMA WithRangesType ==
    ASSUME NEW p \in Validators, NEW v \in Seq(AddressRanges)
    PROVE  WithRanges(p, v) \in Validators
<1>1. CASE Len(v) = 1 /\ v[1].hasFrom /\ ~v[1].hasTo
  <2> DEFINE a == v[1].from
             q == WithAddress(p, a)
             u == WithPort(q, a)
  <2>1. a \in SocketAddrs
    <3>1. 1 \in 1..Len(v)
      BY <1>1
    <3>2. v[1] \in AddressRanges
      BY <3>1, ElementOfSeq, Zenon
    <3> QED
      BY <1>1, <3>2 DEF AddressRanges
  <2>2. WithRanges(p, v) = WithMask(u, a)
    BY <1>1 DEF WithRanges
  <2> HIDE DEF a
  <2>3. q \in Validators
    BY <2>1, DefaultTypes
  <2> HIDE DEF q
  <2>4. u \in Validators
    BY <2>1, <2>3, DefaultTypes
  <2> HIDE DEF u
  <2> QED
    BY <2>1, <2>2, <2>4, DefaultTypes
<1>2. CASE ~(Len(v) = 1 /\ v[1].hasFrom /\ ~v[1].hasTo)
  BY <1>2 DEF WithRanges
<1> QED
  BY <1>1, <1>2

\* A default of a validator leaves a parser, also when it is refused.
LEMMA WithDefaultType ==
    ASSUME NEW p \in Validators, NEW names \in Resolvers, NEW text \in Seq(STRING)
    PROVE  WithDefault(p, names, text) \in Validators
<1> DEFINE q == Allow(NewParser, {"MASK"})
           x == ParseText(DefaultParser, names, text)
<1>1. DefaultParser \in Parsers
  <2>1. q \in Parsers
    BY NewParserType, FlagTypes DEF Validators, AllowFlags
  <2>2. DefaultParser = SetProtocol(q, "TCP")
    BY DEF DefaultParser
  <2> HIDE DEF q
  <2> QED
    BY <2>1, <2>2 DEF SetProtocol, Parsers, Protocols
<1>2. x \in Results(Answered(DefaultParser))
  BY <1>1, ParseTextResult
<1>3. x.ranges \in Seq(Answered(DefaultParser))
  BY <1>2 DEF Results
<1>4. Answered(DefaultParser) \subseteq AddressRanges
  BY DEF Answered
<1> DEFINE v == x.ranges
<1> HIDE DEF v, x
<1>5. v \in Seq(AddressRanges)
  BY <1>3, <1>4, SeqMonotonic DEF v
<1> QED
  BY <1>5, WithRangesType DEF WithDefault, v, x

\* One default after the other.
LEMMA DefaultsType ==
    ASSUME NEW p \in Validators, NEW names \in Resolvers, NEW values \in Seq(Seq(STRING))
    PROVE  DefaultsUpTo(p, names, values)[Len(values)] \in Validators
<1> DEFINE S == Validators
           N == Len(values)
           Is(g) == g = [n \in 0..N |-> IF n = 0 THEN p ELSE WithDefault(g[n - 1], names, values[n])]
           step == [k \in Nat |-> [x \in S |-> IF k \in 1..N THEN WithDefault(x, names, values[k]) ELSE x]]
           F == DefaultsUpTo(p, names, values)
<1>1. N \in Nat /\ \A k \in 1..N : values[k] \in Seq(STRING)
  BY ElementOfSeq
<1>2. \A k \in 1..N : \A x \in S : WithDefault(x, names, values[k]) \in S
  BY <1>1, WithDefaultType
<1>3. p \in S
  OBVIOUS
<1> HIDE DEF S
<1>4. step \in [Nat -> [S -> S]]
  BY <1>2
<1>5. \A k \in 1..N : \A x \in S : step[k][x] = WithDefault(x, names, values[k])
  BY <1>1
<1> HIDE DEF step
<1>6. PICK g : FollowsSteps(g, S, p, step, N)
  BY <1>1, <1>3, <1>4, Recursion
<1>7. g \in [0..N -> S] /\ g[0] = p /\ \A k \in 1..N : g[k] = WithDefault(g[k - 1], names, values[k])
  <2>1. ASSUME NEW k \in 1..N
        PROVE  g[k] = WithDefault(g[k - 1], names, values[k])
    <3>1. k - 1 \in 0..N
      BY <1>1
    <3>2. g[k - 1] \in S
      BY <1>6, <3>1, Zenon DEF FollowsSteps
    <3> QED
      BY <1>5, <1>6, <3>2, Zenon DEF FollowsSteps
  <2> QED
    BY <1>6, <2>1, Zenon DEF FollowsSteps
<1>8. Is(g)
  <2>1. \A n \in 0..N : n = 0 \/ n \in 1..N
    BY <1>1
  <2>2. \A n \in 0..N : g[n] = IF n = 0 THEN p ELSE WithDefault(g[n - 1], names, values[n])
    BY <1>7, <2>1, Zenon
  <2> QED
    BY <1>7, <2>2
<1>9. Is(F)
  BY <1>8, Zenon DEF DefaultsUpTo
<1>10. F[0] = p /\ \A k \in 1..N : F[k] = WithDefault(F[k - 1], names, values[k])
  <2>1. F = [n \in 0..N |-> IF n = 0 THEN p ELSE WithDefault(F[n - 1], names, values[n])]
    BY <1>9
  <2> HIDE DEF F
  <2>2. \A n \in 0..N : F[n] = IF n = 0 THEN p ELSE WithDefault(F[n - 1], names, values[n])
    BY <2>1, Zenon
  <2>3. 0 \in 0..N /\ \A k \in 1..N : k \in 0..N /\ k # 0
    BY <1>1
  <2> QED
    BY <2>2, <2>3, Zenon
<1> DEFINE P == {n \in 0..N : F[n] \in S}
<1> HIDE DEF F
<1>11. 0 \in P
  BY <1>1, <1>3, <1>10
<1>12. ASSUME NEW k \in 1..N, k - 1 \in P
       PROVE  k \in P
  <2>1. F[k - 1] \in S /\ k \in 0..N
    BY <1>1, <1>12
  <2>2. F[k] \in S
    BY <1>2, <1>10, <2>1, Zenon
  <2> QED
    BY <2>1, <2>2
<1> HIDE DEF P
<1>13. 0..N \subseteq P
  BY <1>1, <1>11, <1>12, InductionUpTo
<1>14. N \in P
  BY <1>1, <1>13
<1> QED
  BY <1>14 DEF P, F, S

\* Any option leaves a parser.
LEMMA ConfigureType ==
    ASSUME NEW p \in Validators, NEW names \in Resolvers,
           NEW option \in [name : STRING, values : Seq(Seq(STRING))], NEW emptyPort \in Int,
           option.name \in {"default", "defaults"} /\ option.values = Yes =>
                emptyPort \in Unset..MaxPort
    PROVE  Configure(p, names, option, emptyPort) \in Validators
<1> DEFINE values == option.values
<1>1. values \in Seq(Seq(STRING))
  OBVIOUS
<1>2. /\ AddressOption(p, values) \in Validators
      /\ CommentOption(p, values) \in Validators
      /\ MaskOption(p, values) \in Validators
      /\ PortOption(p, values) \in Validators
  BY <1>1, OptionTypes
<1>3. ASSUME values = Yes, emptyPort \in Unset..MaxPort
      PROVE  DefaultOption(p, names, values, emptyPort) \in Validators
  <2> DEFINE q == SetDefaultAddress(p, <<>>)
             u == SetDefaultPort(q, emptyPort)
             w == SetDefaultMask(u, <<>>)
  <2>1. q \in Validators
    <3>1. <<>> \in Seq(STRING)
      OBVIOUS
    <3>2. q = [p EXCEPT !.address4 = <<>>, !.address6 = <<>>]
      BY DEF SetDefaultAddress
    <3> HIDE DEF q
    <3> QED
      BY <3>1, <3>2 DEF Validators, Parsers
  <2>2. DefaultOption(p, names, values, emptyPort) = w
    BY <1>3 DEF DefaultOption, ClearDefaults
  <2> HIDE DEF q
  <2>3. u \in Validators
    BY <1>3, <2>1 DEF SetDefaultPort, Validators, Parsers
  <2> HIDE DEF u
  <2>4. w \in Validators
    <3>1. <<>> \in Seq(STRING)
      OBVIOUS
    <3>2. w = [u EXCEPT !.mask4 = <<>>, !.mask6 = <<>>]
      BY DEF SetDefaultMask
    <3> HIDE DEF w
    <3> QED
      BY <2>3, <3>1, <3>2 DEF Validators, Parsers
  <2> QED
    BY <2>2, <2>4
<1>4. values # Yes => DefaultOption(p, names, values, emptyPort) \in Validators
  BY <1>1, DefaultsType DEF DefaultOption
<1>5. option.name \in {"default", "defaults"} => DefaultOption(p, names, values, emptyPort) \in Validators
  BY <1>3, <1>4
<1> QED
  BY <1>2, <1>5 DEF Configure

\* One option after the other.
LEMMA NewValidatorType ==
    ASSUME NEW names \in Resolvers, NEW options \in OptionLists, NEW emptyPort \in Int,
           ~ConstructorThrows(options, emptyPort)
    PROVE  NewValidator(names, options, emptyPort) \in Validators
<1> DEFINE S == Validators
           N == Len(options)
           Option == [name : STRING, values : Seq(Seq(STRING))]
           p == NewParser
           Next1(x, k) == Configure(x, names, options[k], emptyPort)
           Is(g) == g = [n \in 0..N |-> IF n = 0 THEN p ELSE Next1(g[n - 1], n)]
           step == [k \in Nat |-> [x \in S |-> IF k \in 1..N THEN Next1(x, k) ELSE x]]
           F == ConfiguredUpTo(names, options, emptyPort)
<1>1. options \in Seq(Option)
  BY ParserSessionAssumption DEF ParserSessionAssumption
<1>2. N \in Nat /\ DOMAIN options = 1..N /\ \A k \in 1..N : options[k] \in Option
  BY <1>1, ElementOfSeq, LenProperties
<1>3. \A k \in 1..N : \A x \in S : Next1(x, k) \in S
  <2> SUFFICES ASSUME NEW k \in 1..N, NEW x \in S
               PROVE  Next1(x, k) \in S
    OBVIOUS
  <2>1. options[k].name \in {"default", "defaults"} /\ options[k].values = Yes =>
            emptyPort \in Unset..MaxPort
    BY <1>2 DEF ConstructorThrows
  <2> QED
    BY <1>2, <2>1, ConfigureType
<1>4. p \in S
  BY NewParserType
<1> HIDE DEF S, Next1, p
<1>5. step \in [Nat -> [S -> S]]
  BY <1>3
<1>6. \A k \in 1..N : \A x \in S : step[k][x] = Next1(x, k)
  BY <1>2
<1> HIDE DEF step
<1>7. PICK g : FollowsSteps(g, S, p, step, N)
  BY <1>2, <1>4, <1>5, Recursion
<1>8. g \in [0..N -> S] /\ g[0] = p /\ \A k \in 1..N : g[k] = Next1(g[k - 1], k)
  <2>1. ASSUME NEW k \in 1..N
        PROVE  g[k] = Next1(g[k - 1], k)
    <3>1. k - 1 \in 0..N
      BY <1>2
    <3>2. g[k - 1] \in S
      BY <1>7, <3>1, Zenon DEF FollowsSteps
    <3> QED
      BY <1>6, <1>7, <3>2, Zenon DEF FollowsSteps
  <2> QED
    BY <1>7, <2>1, Zenon DEF FollowsSteps
<1>9. Is(g)
  <2>1. \A n \in 0..N : n = 0 \/ n \in 1..N
    BY <1>2
  <2>2. \A n \in 0..N : g[n] = IF n = 0 THEN p ELSE Next1(g[n - 1], n)
    BY <1>8, <2>1, Zenon
  <2> QED
    BY <1>8, <2>2
<1>10. Is(F)
  BY <1>9, Zenon DEF ConfiguredUpTo, Next1, p
<1>11. F[0] = p /\ \A k \in 1..N : F[k] = Next1(F[k - 1], k)
  <2>1. F = [n \in 0..N |-> IF n = 0 THEN p ELSE Next1(F[n - 1], n)]
    BY <1>10
  <2> HIDE DEF F
  <2>2. \A n \in 0..N : F[n] = IF n = 0 THEN p ELSE Next1(F[n - 1], n)
    BY <2>1, Zenon
  <2>3. 0 \in 0..N /\ \A k \in 1..N : k \in 0..N /\ k # 0
    BY <1>2
  <2> QED
    BY <2>2, <2>3, Zenon
<1> DEFINE P == {n \in 0..N : F[n] \in S}
<1> HIDE DEF F
<1>12. 0 \in P
  BY <1>2, <1>4, <1>11
<1>13. ASSUME NEW k \in 1..N, k - 1 \in P
       PROVE  k \in P
  <2>1. F[k - 1] \in S /\ k \in 0..N
    BY <1>2, <1>13
  <2>2. F[k] \in S
    BY <1>3, <1>11, <2>1, Zenon
  <2> QED
    BY <2>1, <2>2
<1> HIDE DEF P
<1>14. 0..N \subseteq P
  BY <1>2, <1>12, <1>13, InductionUpTo
<1>15. N \in P
  BY <1>2, <1>14
<1> QED
  BY <1>15 DEF P, F, S, NewValidator

-----------------------------------------------------------------------------
(* The session                                                             *)

\* string_to_addr() returned what it makes of the text with some default and
\* with masks allowed or not.
ReturnedByCall ==
    last.call = "string_to_addr" =>
        /\ last.text \in Seq(STRING)
        /\ last.port \in Unset..MaxPort /\ last.protocol \in Protocols
        /\ \E names \in Resolvers, default \in Seq(STRING), mask \in BOOLEAN :
            last.ranges = StringToAddr(names, last.text, default, last.port,
                                       last.protocol, mask)

SessionInv == SessionTypeOK /\ ParsedAsText /\ ReturnedByCall

\* A program starts with a new parser.
LEMMA SessionInvInit == SessionInit => SessionInv
<1> SUFFICES ASSUME SessionInit
             PROVE  SessionInv
  OBVIOUS
<1>1. SessionTypeOK
  <2>1. parser \in Validators /\ 0 \in 0..MaxSetters /\ last.call = "none"
    BY NewParserType, ParserSessionAssumption DEF ParserSessionAssumption, SessionInit, NoCall
  <2> QED
    BY <2>1 DEF SessionInit, SessionTypeOK, Validators
<1>2. ParsedAsText /\ ReturnedByCall
  BY DEF SessionInit, NoCall, ParsedAsText, Parsed, ReturnedByCall
<1> QED
  BY <1>1, <1>2 DEF SessionInv

\* A setter leaves a parser as it may be.
LEMMA SetterKeepsType ==
    ASSUME SessionTypeOK, Setter
    PROVE  SessionTypeOK'
<1>1. /\ owner = "program" /\ last = NoCall /\ setters < MaxSetters
      /\ setters' = setters + 1 /\ UNCHANGED <<owner, resolver, last>>
  BY DEF Setter, CallSetAllow, CallSetDefaultAddress, CallSetDefaultPort,
         CallSetDefaultMask, CallSetProtocol, CallClearProtocol, CallSetSortOrder, Configured
<1>2. parser \in OneComma /\ parser \in Parsers
  BY DEF SessionTypeOK, OneComma
<1>3. parser' \in OneComma
  <2>1. Seq(STRING) # {} /\ <<>> \in Seq(STRING) /\ Unset \in Unset..MaxPort
        /\ "IP" \in Protocols /\ TRUE \in BOOLEAN
    BY AddrParserAssumption DEF AddrParserAssumption, Unset, Protocols
  <2>2. ASSUME NEW q \in Parsers, q.allow = parser.allow
        PROVE  q \in OneComma
    BY <1>2, <2>2 DEF OneComma
  <2>3. CASE \E flag \in AllowFlags, on \in BOOLEAN : CallSetAllow(flag, on)
    BY <1>2, <2>3, SetAllowType DEF CallSetAllow, Configured
  <2>4. CASE \E t \in AddressTexts : CallSetDefaultAddress(t)
    <3>1. PICK t \in AddressTexts : CallSetDefaultAddress(t)
      BY <2>4
    <3>2. t \in Seq(STRING) /\ parser' = SetDefaultAddress(parser, t)
      BY <3>1, ParserSessionAssumption
      DEF ParserSessionAssumption, CallSetDefaultAddress, Configured
    <3> QED
      BY <1>2, <2>1, <2>2, <3>2, SetterTypes
  <2>5. CASE \E n \in PortNumbers : CallSetDefaultPort(n)
    <3>1. PICK n \in PortNumbers : CallSetDefaultPort(n)
      BY <2>5
    <3>2. n \in Unset..MaxPort /\ parser' = SetDefaultPort(parser, n)
      BY <3>1 DEF CallSetDefaultPort, AcceptsDefaultPort, Configured
    <3> QED
      BY <1>2, <2>1, <2>2, <3>2, SetterTypes
  <2>6. CASE \E t \in MaskTexts : CallSetDefaultMask(t)
    <3>1. PICK t \in MaskTexts : CallSetDefaultMask(t)
      BY <2>6
    <3>2. t \in Seq(STRING) /\ parser' = SetDefaultMask(parser, t)
      BY <3>1, ParserSessionAssumption
      DEF ParserSessionAssumption, CallSetDefaultMask, Configured
    <3> QED
      BY <1>2, <2>1, <2>2, <3>2, SetterTypes
  <2>7. CASE \E protocol \in Protocols : CallSetProtocol(protocol)
    <3>1. PICK protocol \in Protocols : parser' = SetProtocol(parser, protocol)
      BY <2>7 DEF CallSetProtocol, Configured
    <3> QED
      BY <1>2, <2>1, <2>2, <3>1, SetterTypes
  <2>8. CASE CallClearProtocol
    <3>1. parser' = ClearProtocol(parser)
      BY <2>8 DEF CallClearProtocol, Configured
    <3> QED
      BY <1>2, <2>1, <2>2, <3>1, SetterTypes
  <2>9. CASE \E noEmpty \in BOOLEAN : CallSetSortOrder(noEmpty)
    <3>1. PICK noEmpty \in BOOLEAN : parser' = SetNoEmpty(parser, noEmpty)
      BY <2>9 DEF CallSetSortOrder, Configured
    <3> QED
      BY <1>2, <2>1, <2>2, <3>1, SetterTypes
  <2> QED
    BY <2>3, <2>4, <2>5, <2>6, <2>7, <2>8, <2>9 DEF Setter
<1>4. setters' \in 0..MaxSetters
  BY <1>1, ParserSessionAssumption DEF ParserSessionAssumption, SessionTypeOK
<1> QED
  BY <1>1, <1>3, <1>4 DEF SessionTypeOK, OneComma

\* What parse() records of a call, of a program or of a validator, and what it
\* leaves of the parser.
LEMMA CalledIs ==
    ASSUME SessionTypeOK, NEW call \in {"parse", "validate"}, NEW p \in Parsers, NEW t \in Texts
    PROVE  LET c == Called(call, p, t)
           IN  /\ c.call = call /\ c.before = p /\ c.resolver \in Resolvers
               /\ c.text \in Seq(STRING)
               /\ c.result = ParseText(c.before, c.resolver, c.text)
               /\ AfterParse(p, c.result) \in Parsers
               /\ AfterParse(p, c.result).allow = p.allow
<1> DEFINE c == Called(call, p, t)
           x == ParseText(p, resolver, t)
<1>1. resolver \in Resolvers /\ t \in Seq(STRING)
  BY ParserSessionAssumption DEF ParserSessionAssumption, SessionTypeOK
<1>2. x \in Results(Answered(p))
  BY <1>1, ParseTextResult
<1>3. /\ c.call = call /\ c.before = p /\ c.resolver = resolver
      /\ c.text = t /\ c.result = x
  BY DEF Called
<1> HIDE DEF c
<1>4. x = ParseText(c.before, c.resolver, c.text)
  BY <1>3
<1> HIDE DEF x
<1> DEFINE n == p.errors + x.errors
<1>5. n \in Nat
  <2> DEFINE k == p.errors
             m == x.errors
  <2>1. k \in Nat /\ m \in Nat
    BY <1>2 DEF Parsers, Results
  <2> HIDE DEF k, m
  <2>2. k + m \in Nat
    BY <2>1
  <2> QED
    BY <2>2 DEF k, m
<1>6. AfterParse(p, x) = [p EXCEPT !.errors = n]
  BY DEF AfterParse
<1> HIDE DEF n
<1>7. AfterParse(p, x) \in Parsers /\ AfterParse(p, x).allow = p.allow
  BY <1>5, <1>6 DEF Parsers
<1> QED
  BY <1>1, <1>3, <1>4, <1>7 DEF c

\* Each call, and each change of the names, keeps the invariant.
LEMMA SessionInvNext ==
    ASSUME SessionInv, [SessionNext]_sessionVars
    PROVE  SessionInv'
<1> USE DEF SessionInv
<1>1. ASSUME last' = NoCall
      PROVE  ParsedAsText' /\ ReturnedByCall' /\ last'.call = "none"
  BY <1>1 DEF NoCall, ParsedAsText, Parsed, ReturnedByCall
<1>2. CASE Setter
  <2>1. last' = NoCall
    BY <1>2 DEF Setter, CallSetAllow, CallSetDefaultAddress, CallSetDefaultPort,
                CallSetDefaultMask, CallSetProtocol, CallClearProtocol, CallSetSortOrder,
                Configured
  <2> QED
    BY <1>1, <1>2, <2>1, SetterKeepsType
<1>3. CASE \E options \in OptionLists, emptyPort \in EmptyPorts :
                CreateValidator(options, emptyPort)
  <2>1. PICK options \in OptionLists, emptyPort \in EmptyPorts :
            CreateValidator(options, emptyPort)
    BY <1>3
  <2>2. /\ last' = NoCall /\ owner' = "validator"
        /\ parser' = NewValidator(resolver, options, emptyPort)
        /\ UNCHANGED <<resolver, setters, last>>
        /\ ~ConstructorThrows(options, emptyPort)
    BY <2>1 DEF CreateValidator
  <2>3. emptyPort \in Int /\ resolver \in Resolvers
    BY DEF EmptyPorts, Unset, SessionTypeOK
  <2>4. NewValidator(resolver, options, emptyPort) \in Validators
    BY <2>2, <2>3, NewValidatorType
  <2>5. SessionTypeOK'
    BY <2>2, <2>4 DEF SessionTypeOK, Validators
  <2> QED
    BY <1>1, <2>2, <2>5
<1>4. CASE \E t \in Texts : CallParse(t)
  <2>1. PICK t \in Texts : CallParse(t)
    BY <1>4
  <2> DEFINE c == Called("parse", parser, t)
  <2>2. /\ last' = c /\ parser' = AfterParse(parser, c.result)
        /\ UNCHANGED <<owner, resolver, setters>>
    BY <2>1 DEF CallParse
  <2>3. parser \in Parsers
    BY DEF SessionTypeOK
  <2>4. /\ c.call = "parse" /\ c.before = parser /\ c.resolver \in Resolvers
        /\ c.text \in Seq(STRING) /\ c.result = ParseText(c.before, c.resolver, c.text)
        /\ AfterParse(parser, c.result) \in Parsers
        /\ AfterParse(parser, c.result).allow = parser.allow
    BY <2>3, CalledIs
  <2> HIDE DEF c
  <2>5. SessionTypeOK'
    BY <2>2, <2>4 DEF SessionTypeOK
  <2>6. parser' = AfterParse(c.before, c.result)
    BY <2>2, <2>4
  <2> QED
    BY <2>2, <2>3, <2>4, <2>5, <2>6 DEF ParsedAsText, ReturnedByCall, Parsed
<1>5. CASE \E t \in Texts : CallValidate(t)
  <2>1. PICK t \in Texts : CallValidate(t)
    BY <1>5
  <2> DEFINE p == BeforeValidate(parser)
             c == Called("validate", p, t)
  <2>2. /\ last' = c /\ parser' = AfterParse(p, c.result)
        /\ UNCHANGED <<owner, resolver, setters>>
    BY <2>1 DEF CallValidate
  <2>3. p \in Parsers /\ p.allow = parser.allow /\ p.errors = 0
    BY DEF SessionTypeOK, Parsers, BeforeValidate, ClearErrors
  <2> HIDE DEF p
  <2>4. /\ c.call = "validate" /\ c.before = p /\ c.resolver \in Resolvers
        /\ c.text \in Seq(STRING) /\ c.result = ParseText(c.before, c.resolver, c.text)
        /\ AfterParse(p, c.result) \in Parsers
        /\ AfterParse(p, c.result).allow = p.allow
    BY <2>3, CalledIs
  <2> HIDE DEF c
  <2>5. SessionTypeOK'
    BY <2>2, <2>3, <2>4 DEF SessionTypeOK
  <2>6. parser' = AfterParse(c.before, c.result)
    BY <2>2, <2>4
  <2> QED
    BY <2>2, <2>3, <2>4, <2>5, <2>6 DEF ParsedAsText, ReturnedByCall, Parsed
<1>6. CASE CallClearErrors
  <2>1. parser' = ClearErrors(parser) /\ last' = NoCall /\ UNCHANGED <<owner, resolver, setters, last>>
    BY <1>6 DEF CallClearErrors
  <2>2. SessionTypeOK'
    <3>1. parser' \in Parsers /\ parser'.allow = parser.allow
      BY <2>1 DEF SessionTypeOK, Parsers, ClearErrors
    <3> QED
      BY <2>1, <3>1 DEF SessionTypeOK
  <2> QED
    BY <1>1, <2>1, <2>2
<1>7. CASE \E t \in Texts, default \in AddressTexts, port \in PortNumbers,
              protocol \in Protocols, mask \in BOOLEAN :
                CallStringToAddr(t, default, port, protocol, mask)
  <2>1. PICK t \in Texts, default \in AddressTexts, port \in PortNumbers,
             protocol \in Protocols, mask \in BOOLEAN :
                CallStringToAddr(t, default, port, protocol, mask)
    BY <1>7
  <2> DEFINE ranges == StringToAddr(resolver, t, default, port, protocol, mask)
  <2>2. /\ last' = [call |-> "string_to_addr", text |-> t, port |-> port,
                    protocol |-> protocol, ranges |-> ranges]
        /\ UNCHANGED <<parser, owner, resolver, setters>>
        /\ port \in Unset..MaxPort
    BY <2>1 DEF CallStringToAddr, AcceptsDefaultPort
  <2>3. t \in Seq(STRING) /\ default \in Seq(STRING) /\ resolver \in Resolvers
    BY ParserSessionAssumption DEF ParserSessionAssumption, SessionTypeOK
  <2> HIDE DEF ranges
  <2>4. /\ last'.call = "string_to_addr" /\ last'.text = t /\ last'.port = port
        /\ last'.protocol = protocol /\ last'.ranges = ranges
    BY <2>2
  <2>5. SessionTypeOK'
    BY <2>2, <2>4 DEF SessionTypeOK
  <2>6. ParsedAsText'
    BY <2>4 DEF ParsedAsText, Parsed
  <2>7. ReturnedByCall'
    BY <2>2, <2>3, <2>4 DEF ReturnedByCall, ranges
  <2> QED
    BY <2>5, <2>6, <2>7
<1>8. CASE Done
  <2>1. last' = NoCall /\ UNCHANGED <<parser, owner, resolver, setters>>
    BY <1>8 DEF Done
  <2>2. SessionTypeOK'
    BY <1>1, <2>1 DEF SessionTypeOK
  <2> QED
    BY <1>1, <2>1, <2>2
<1>9. CASE ResolverChanges
  <2>1. last' = NoCall /\ resolver' \in Resolvers /\ UNCHANGED <<parser, owner, setters, last>>
    BY <1>9 DEF ResolverChanges
  <2>2. SessionTypeOK'
    BY <2>1 DEF SessionTypeOK
  <2> QED
    BY <1>1, <2>1, <2>2
<1>10. CASE UNCHANGED sessionVars
  BY <1>10 DEF sessionVars, SessionTypeOK, ParsedAsText, Parsed, ReturnedByCall
<1> QED
  BY <1>2, <1>3, <1>4, <1>5, <1>6, <1>7, <1>8, <1>9, <1>10 DEF SessionNext

\* So it always holds.
LEMMA SessionIsInv == SessionSpec => []SessionInv
<1>1. SessionInit => SessionInv
  BY SessionInvInit
<1>2. SessionInv /\ [SessionNext]_sessionVars => SessionInv'
  BY SessionInvNext
<1> QED
  BY <1>1, <1>2, PTL DEF SessionSpec

\* The parser is a parser whatever the setters, the options of a validator and
\* the texts, and a comma never separates both addresses and ports.
THEOREM SessionTypeCorrect == SessionSpec => []SessionTypeOK
<1>1. SessionInv => SessionTypeOK
  BY DEF SessionInv
<1> QED
  BY <1>1, SessionIsInv, PTL

\* Every entry of a text is accounted for: ranges, an error or an exception,
\* and not ranges of an entry with an error.
THEOREM NoEntryLost == SessionSpec => []EntriesSettled
<1>1. SessionInv => EntriesSettled
  BY ParsedSettles DEF SessionInv
<1> QED
  BY <1>1, SessionIsInv, PTL

\* Every address parse() returns has the port of the text or the default one.
THEOREM PortsFollowPolicy == SessionSpec => []PortPolicy
<1>1. SessionInv => PortPolicy
  BY ParsedPorts DEF SessionInv
<1> QED
  BY <1>1, SessionIsInv, PTL

\* A validator refuses a value exactly when one of its entries has an error,
\* whatever it was given before.
THEOREM VerdictIsFresh == SessionSpec => []VerdictFresh
<1>1. SessionInv => VerdictFresh
  BY ValidatedFresh DEF SessionInv
<1> QED
  BY <1>1, SessionIsInv, PTL

-----------------------------------------------------------------------------
(* An address as such                                                      *)

\* A single result is all there is in the end.
LEMMA InTurnOfOne ==
    ASSUME NEW G, NEW results \in Seq(Results(G)), Len(results) = 1
    PROVE  /\ results[1] \in Results(G)
           /\ InTurn(results) \in Results(G)
           /\ InTurn(results).ranges = results[1].ranges
           /\ InTurn(results).errors = results[1].errors
           /\ InTurn(results).threw <=> results[1].threw
<1> DEFINE R == InTurnUpTo(results, 1)
           x == results[1]
<1>1. 1 \in 1..Len(results) /\ 1 \in 1..1 /\ 1 - 1 = 0
  OBVIOUS
<1>2. x \in Results(G)
  BY <1>1, ElementOfSeq
<1>3. R[0] = Nothing /\ R[1] = Then(R[0], x)
  BY <1>1, InTurnSteps
<1>4. InTurn(results) = R[1]
  BY DEF InTurn
<1> HIDE DEF R, x
<1>5. InTurn(results) = Then(Nothing, x) /\ Nothing \in Results(G)
  BY <1>3, <1>4, SomeResults
<1>6. /\ Then(Nothing, x) \in Results(G)
      /\ Then(Nothing, x).ranges = <<>> \o x.ranges
      /\ Then(Nothing, x).errors = 0 + x.errors
      /\ Then(Nothing, x).threw <=> x.threw
  <2>1. Nothing.ranges = <<>> /\ Nothing.errors = 0 /\ ~Nothing.threw
    BY DEF Nothing
  <2>2. /\ Then(Nothing, x) \in Results(G)
        /\ Then(Nothing, x).ranges = Nothing.ranges \o x.ranges
        /\ Then(Nothing, x).errors = Nothing.errors + x.errors
        /\ Then(Nothing, x).threw <=> x.threw
    <3> DEFINE z == Nothing
    <3>1. z \in Results(G) /\ ~z.threw
      BY <1>5, <2>1
    <3> HIDE DEF z
    <3>4. Then(z, x) \in Results(G)
      BY <1>2, <3>1, ThenType
    <3>2. /\ Then(z, x).ranges = z.ranges \o x.ranges
          /\ Then(z, x).errors = z.errors + x.errors
      BY <3>1 DEF Then
    <3>3. Then(z, x).threw <=> x.threw
      BY <1>2, <3>1, ThenType
    <3> QED
      BY <3>2, <3>3, <3>4 DEF z
  <2> QED
    BY <2>1, <2>2, Zenon
<1>7. <<>> \o x.ranges = x.ranges /\ 0 + x.errors = x.errors
  <2> DEFINE v == x.ranges
             n == x.errors
  <2>1. v \in Seq(G) /\ n \in Nat
    BY <1>2 DEF Results
  <2> HIDE DEF v, n
  <2>2. <<>> \o v = v /\ 0 + n = n
    BY <2>1, ConcatEmptySeq
  <2> QED
    BY <2>2 DEF v, n
<1> QED
  BY <1>2, <1>5, <1>6, <1>7 DEF x

\* One address, for each kind of sockets.
ForEachKind(p, ip, x) ==
    LET kinds == SocketProtocols(p.protocol)
    IN  /\ x \in Results(AddressRanges) /\ ~x.threw /\ x.errors = 0
        /\ Len(x.ranges) = Len(kinds)
        /\ \A k \in 1..Len(kinds) :
            /\ x.ranges[k].hasFrom
            /\ x.ranges[k].from.ip = ip /\ x.ranges[k].from.protocol = kinds[k]

\* getaddrinfo() has the one answer for an IP, once for each kind of socket.
LEMMA ByLookupOfLiteral ==
    ASSUME NEW p \in Parsers, NEW names, NEW portText, PortExpected(p, portText),
           NEW t \in DOMAIN Literal
    PROVE  ForEachKind(p, Literal[t], ByLookup(p, names, t, PortOf(p, portText), portText # <<>>))
<1> DEFINE kinds == SocketProtocols(p.protocol)
           G == Singles(p, portText)
           ip == Literal[t]
           b == Answers(ip, PortOf(p, portText), portText # <<>>, p.protocol)
           ips == <<ip>>
           results == [k \in DOMAIN ips |-> Answers(ips[k], PortOf(p, portText), portText # <<>>, p.protocol)]
           y == ByLookup(p, names, t, PortOf(p, portText), portText # <<>>)
<1>1. ip \in Ips /\ ip # Unsupported
  BY AddrParserAssumption, AddrRangeAssumption
  DEF AddrParserAssumption, AddrRangeAssumption, Ips, Unsupported
<1>2. /\ b \in Results(G) /\ ~b.threw /\ b.errors = 0
      /\ Len(b.ranges) = Len(kinds)
      /\ \A k \in 1..Len(kinds) : b.ranges[k].from.ip = ip /\ b.ranges[k].from.protocol = kinds[k]
  BY <1>1, AnswersAre
<1>3. CanResolve(names, t) /\ Resolve(names, t) = ips
  BY DEF CanResolve, Resolve
<1>4. Unsupported \notin ToSet(ips)
  BY <1>1 DEF ToSet
<1>5. y = Then(InTurn(results), Nothing)
  BY <1>3, <1>4 DEF ByLookup
<1> HIDE DEF b, G, kinds, y
<1>6. results \in Seq(Results(G)) /\ Len(results) = 1 /\ results[1] = b
  <2>1. DOMAIN ips = {1} /\ ips[1] = ip
    OBVIOUS
  <2>2. results = <<b>>
    BY <2>1 DEF b
  <2> HIDE DEF results
  <2> QED
    BY <1>2, <2>2
<1> HIDE DEF results, ip
<1> DEFINE a == InTurn(results)
<1>7. a \in Results(G) /\ a.ranges = b.ranges /\ a.errors = 0 /\ ~a.threw
  BY <1>2, <1>6, InTurnOfOne
<1> HIDE DEF a
<1>8. Nothing \in Results(G) /\ Nothing.ranges = <<>> /\ Nothing.errors = 0 /\ ~Nothing.threw
  BY SomeResults DEF Nothing
<1>9. y = Then(a, Nothing)
  BY <1>5 DEF a
<1>10. y \in Results(G) /\ y.ranges = a.ranges /\ y.errors = 0 /\ ~y.threw
  <2> HIDE DEF Nothing
  <2>1. y.ranges = a.ranges /\ y.errors = 0
    BY <1>7, <1>8, <1>9, ThenCounts, Zenon
  <2>2. y \in Results(G) /\ (y.threw <=> Nothing.threw)
    BY <1>7, <1>8, <1>9, ThenType
  <2> QED
    BY <1>8, <2>1, <2>2
<1>11. \A r \in G : r \in AddressRanges /\ r.hasFrom
  BY DEF G, Singles
<1> DEFINE v == y.ranges
<1>12. v \in Seq(G) /\ Len(v) = Len(kinds) /\ v = b.ranges
  BY <1>2, <1>7, <1>10 DEF Results
<1> HIDE DEF v
<1>13. /\ v \in Seq(AddressRanges) /\ \A k \in 1..Len(kinds) : v[k].hasFrom
       /\ \A k \in 1..Len(kinds) : v[k].from.ip = ip /\ v[k].from.protocol = kinds[k]
  <2>1. \A k \in 1..Len(v) : v[k] \in G
    BY <1>12, ElementOfSeq
  <2>2. v \in Seq(AddressRanges)
    BY <1>11, <1>12, <2>1, SeqOfElements
  <2> QED
    BY <1>2, <1>11, <1>12, <2>1, <2>2
<1>14. y \in Results(AddressRanges)
  BY <1>10, <1>13 DEF Results, v
<1> QED
  BY <1>10, <1>12, <1>13, <1>14 DEF ForEachKind, kinds, v, y, ip

-----------------------------------------------------------------------------
(* Parts of texts                                                          *)

\* The last of some places.
LEMMA LastPlace ==
    ASSUME NEW n \in Nat, NEW places \in SUBSET (1..n), places # {}
    PROVE  Max(places) \in places /\ \A y \in places : y <= Max(places)
<1> DEFINE T == {n - x : x \in places}
<1>1. T \subseteq Nat /\ T # {}
  <2>1. \A x \in places : n - x \in Nat
    OBVIOUS
  <2> QED
    BY <2>1
<1>2. PICK t \in T : \A y \in T : ~(<<y, t>> \in OpToRel(<, Nat))
  BY <1>1, NatLessThanWellFounded, WFMin
<1>3. \A y \in T : ~(y < t)
  BY <1>1, <1>2, Zenon DEF OpToRel
<1>4. PICK x \in places : t = n - x
  OBVIOUS
<1>5. ASSUME NEW y \in places
      PROVE  x >= y
  <2>1. n - y \in T
    OBVIOUS
  <2>2. ~(n - y < n - x)
    BY <1>3, <1>4, <2>1, Zenon
  <2> QED
    BY <2>2
<1>6. Max(places) \in places /\ \A y \in places : Max(places) >= y
  BY <1>5, Zenon DEF Max
<1>7. \A y \in places : y \in Int
  OBVIOUS
<1> QED
  BY <1>6, <1>7

\* What is left of a text without the blanks around it.
LEMMA TrimParts ==
    ASSUME NEW t \in Seq(STRING)
    PROVE  /\ Trim(t) \in Seq(STRING)
           /\ \A i \in 1..Len(Trim(t)) : \E j \in 1..Len(t) : Trim(t)[i] = t[j]
<1> DEFINE kept == {i \in DOMAIN t : t[i] \notin Blanks}
           m == Min(kept)
           n == Max(kept)
<1>1. Len(t) \in Nat /\ kept \in SUBSET (1..Len(t))
  BY LenProperties
<1>2. CASE kept = {}
  <2>1. Trim(t) = <<>> /\ <<>> \in Seq(STRING) /\ Len(<<>>) = 0
    BY <1>2 DEF Trim
  <2>2. Trim(t) \in Seq(STRING) /\ Len(Trim(t)) = 0
    BY <2>1, Zenon
  <2> QED
    BY <2>2
<1>3. CASE kept # {}
  <2>1. Trim(t) = SubSeq(t, m, n)
    BY <1>3 DEF Trim
  <2>2. First(kept) = m /\ m \in kept
    <3>1. kept \in SUBSET (Nat \ {0})
      BY <1>1
    <3>2. First(kept) \in kept
      BY <1>3, <3>1, FirstPlace
    <3> QED
      BY <1>3, <3>2 DEF First
  <2>3. n \in kept
    BY <1>1, <1>3, LastPlace
  <2> HIDE DEF m, n, kept
  <2>4. m \in 1..Len(t) /\ n \in 1..Len(t)
    BY <1>1, <2>2, <2>3
  <2>5. /\ SubSeq(t, m, n) \in Seq(STRING)
        /\ Len(SubSeq(t, m, n)) = IF m <= n THEN n - m + 1 ELSE 0
        /\ \A i \in 1..(n - m + 1) : SubSeq(t, m, n)[i] = t[m + i - 1]
    <3>1. m \in Nat \ {0} /\ n \in Int /\ n <= Len(t)
      BY <1>1, <2>4
    <3> QED
      BY <3>1, PartOfText
  <2> DEFINE u == SubSeq(t, m, n)
  <2> HIDE DEF u
  <2>6. ASSUME NEW i \in 1..Len(u)
        PROVE  i \in 1..(n - m + 1) /\ m + i - 1 \in 1..Len(t)
    <3>1. Len(u) = IF m <= n THEN n - m + 1 ELSE 0
      BY <2>5 DEF u
    <3> QED
      BY <1>1, <2>4, <2>6, <3>1
  <2>7. \A i \in 1..Len(u) : u[i] = t[m + i - 1]
    BY <2>5, <2>6 DEF u
  <2> QED
    BY <2>1, <2>5, <2>6, <2>7 DEF u
<1> QED
  BY <1>2, <1>3

\* A text of one word which is not a blank.
LEMMA WordIsTrimmed ==
    ASSUME NEW t \in Seq(STRING), Len(t) = 1, t[1] \notin Blanks
    PROVE  Trim(t) = t
<1> DEFINE kept == {i \in DOMAIN t : t[i] \notin Blanks}
<1>1. DOMAIN t = {1} /\ kept = {1}
  BY LenProperties
<1>2. First({1}) \in {1} /\ Max({1}) \in {1}
  <2>1. {1} \in SUBSET (Nat \ {0}) /\ {1} \in SUBSET (1..1) /\ {1} # {} /\ 1 \in Nat
    OBVIOUS
  <2> QED
    BY <2>1, FirstPlace, LastPlace
<1>3. First({1}) = Min({1})
  BY DEF First
<1>4. Trim(t) = SubSeq(t, 1, 1)
  BY <1>1, <1>2, <1>3 DEF Trim
<1>5. /\ SubSeq(t, 1, 1) \in Seq(STRING) /\ Len(SubSeq(t, 1, 1)) = 1
      /\ SubSeq(t, 1, 1)[1] = t[1]
  <2>1. 1 \in Nat \ {0} /\ 1 \in Int /\ 1 <= Len(t) /\ 1 - 1 + 1 = 1 /\ 1 + 1 - 1 = 1
    OBVIOUS
  <2>2. /\ SubSeq(t, 1, 1) \in Seq(STRING)
        /\ Len(SubSeq(t, 1, 1)) = IF 1 <= 1 THEN 1 - 1 + 1 ELSE 0
        /\ \A i \in 1..(1 - 1 + 1) : SubSeq(t, 1, 1)[i] = t[1 + i - 1]
    BY <2>1, PartOfText
  <2> QED
    BY <2>2
<1> DEFINE u == SubSeq(t, 1, 1)
<1> HIDE DEF u
<1>6. u = t
  <2>1. u \in Seq(STRING) /\ Len(u) = Len(t) /\ \A i \in 1..Len(u) : u[i] = t[i]
    BY <1>5 DEF u
  <2> QED
    BY <2>1, SeqEqual
<1> QED
  BY <1>4, <1>6 DEF u

\* Whether none of its tokens is one of these.
Without(t, tokens) == \A i \in 1..Len(t) : t[i] \notin tokens

\* A part of a text has no token which the text does not have.
LEMMA PartsWithout ==
    ASSUME NEW t \in Seq(STRING), NEW tokens, Without(t, tokens), NEW others
    PROVE  /\ UpTo(t, others) \in Seq(STRING) /\ Without(UpTo(t, others), tokens)
           /\ Past(t, others) \in Seq(STRING) /\ Without(Past(t, others), tokens)
           /\ Trim(t) \in Seq(STRING) /\ Without(Trim(t), tokens)
<1>1. UpTo(t, others) \in Seq(STRING) /\ Without(UpTo(t, others), tokens)
  BY UpToParts DEF Without
<1>2. Past(t, others) \in Seq(STRING) /\ Without(Past(t, others), tokens)
  BY PastParts DEF Without
<1>3. Trim(t) \in Seq(STRING) /\ Without(Trim(t), tokens)
  BY TrimParts DEF Without
<1> QED
  BY <1>1, <1>2, <1>3

\* Without these tokens it is all before them.
LEMMA NothingPast ==
    ASSUME NEW t \in Seq(STRING), NEW tokens, Without(t, tokens)
    PROVE  Find(t, tokens) = 0 /\ UpTo(t, tokens) = t /\ Past(t, tokens) = <<>>
BY FindFirst, UpToParts, PastParts DEF Without

-----------------------------------------------------------------------------
(* An address as all of a text                                             *)

\* An IP is one word.
LEMMA LiteralIsWord ==
    ASSUME NEW t \in DOMAIN Literal
    PROVE  /\ t \in Seq(STRING) /\ Len(t) = 1 /\ DOMAIN t = {1} /\ t # <<>>
           /\ t[1] \notin Punctuation /\ Without(t, Punctuation) /\ Literal[t] \in Ips
<1>1. t \in Seq(STRING) /\ Len(t) = 1 /\ t[1] \notin Punctuation /\ Literal[t] \in Ips
  BY AddrParserAssumption DEF AddrParserAssumption
<1> QED
  BY <1>1, EmptySeq, LenProperties DEF Without

\* What parse_address() makes of an address, whichever syntax it takes it for.
LEMMA LiteralAddress ==
    ASSUME NEW p \in Parsers, NEW names, NEW t \in DOMAIN Literal, NEW mask,
           PortAllowed(p), "ADDRESS_LOOKUP" \in p.allow,
           "REQUIRED_PORT" \notin p.allow, "ADDRESS_RANGE" \notin p.allow
    PROVE  ForEachKind(p, Literal[t], ParseAddress(p, names, t, mask))
<1>1. /\ t \in Seq(STRING) /\ Len(t) = 1 /\ DOMAIN t = {1} /\ t # <<>>
      /\ t[1] \notin Punctuation /\ Without(t, Punctuation)
  BY LiteralIsWord
<1>2. PortExpected(p, <<>>) /\ PortOf(p, <<>>) = p.port
  BY DEF PortExpected, PortOf
<1>3. ForEachKind(p, Literal[t], ByLookup(p, names, t, p.port, FALSE))
  <2> DEFINE none == <<>>
             given == none # <<>>
  <2>1. PortExpected(p, none) /\ PortOf(p, none) = p.port /\ given = FALSE
    BY <1>2
  <2> HIDE DEF none
  <2>2. ForEachKind(p, Literal[t], ByLookup(p, names, t, PortOf(p, none), none # <<>>))
    BY <2>1, ByLookupOfLiteral
  <2> QED
    BY <2>1, <2>2
<1>4. ASSUME NEW ipv6
      PROVE  ParseAddressRangePort(p, names, t, <<>>, ipv6) = ByLookup(p, names, t, p.port, FALSE)
  <2>1. AddressOrDefault(p, t, ipv6) = t
    BY <1>1 DEF AddressOrDefault
  <2>2. ParseAddressPort(p, names, t, <<>>, ipv6) = ByLookup(p, names, t, p.port, FALSE)
    BY <1>1, <2>1 DEF ParseAddressPort
  <2> QED
    BY <2>2 DEF ParseAddressRangePort
<1>5. t[1] # "[" /\ t[1] # ":" /\ Without(t, {":"})
  BY <1>1 DEF Punctuation, Without
<1>6. ParseAddress4(p, names, t) = ByLookup(p, names, t, p.port, FALSE)
  <2>1. UpTo(t, {":"}) = t /\ Past(t, {":"}) = <<>>
    BY <1>1, <1>5, NothingPast
  <2> QED
    BY <1>4, <2>1 DEF ParseAddress4
<1>7. ParseAddress6(p, names, t) = ByLookup(p, names, t, p.port, FALSE)
  <2>1. {i \in DOMAIN t : t[i] = ":"} = {}
    BY <1>1, <1>5
  <2>2. ColonCount(t) # 1
    BY <2>1, FS_EmptySet DEF ColonCount
  <2>3. Address6(t) = t /\ Port6(t) = <<>>
    BY <1>5, <2>2 DEF Address6, Port6
  <2> QED
    BY <1>4, <1>5, <2>3 DEF ParseAddress6
<1> QED
  BY <1>3, <1>6, <1>7 DEF ParseAddress

\* An entry which is an IP adds it once for each kind of socket,
LEMMA LiteralEntry ==
    ASSUME NEW p \in Parsers, NEW names, NEW t \in DOMAIN Literal,
           PortAllowed(p), "ADDRESS_LOOKUP" \in p.allow,
           "REQUIRED_PORT" \notin p.allow, "ADDRESS_RANGE" \notin p.allow,
           p.mask4 = <<>>, p.mask6 = <<>>
    PROVE  ForEachKind(p, Literal[t], ParseCidr(p, names, t))
<1>1. /\ t \in Seq(STRING) /\ Len(t) = 1 /\ t[1] \notin Punctuation /\ Without(t, Punctuation)
  BY LiteralIsWord
<1>2. Trim(t) = t
  BY <1>1, WordIsTrimmed DEF Blanks, Punctuation
<1>3. UpTo(t, {"/"}) = t /\ Past(t, {"/"}) = <<>>
  <2>1. Without(t, {"/"})
    BY <1>1 DEF Without, Punctuation
  <2> QED
    BY <1>1, <2>1, NothingPast
<1> DEFINE f == ParseAddress(p, names, t, <<>>)
           ipv4 == ~UsesSyntax6(p, t, <<>>)
           m == ParseMasks(p, <<>>, f.ranges, ipv4)
           kinds == SocketProtocols(p.protocol)
           ip == Literal[t]
<1>4. ForEachKind(p, ip, f)
  BY LiteralAddress
<1>5. CASE "MASK" \notin p.allow
  BY <1>2, <1>4, <1>5 DEF ParseCidr
<1>6. CASE "MASK" \in p.allow
  <2>1. ParseCidr(p, names, t) = KeepUnlessErrors(f, m)
    BY <1>2, <1>3, <1>6 DEF ParseCidr, ParseCidrMask
  <2>2. ipv4 \in BOOLEAN
    OBVIOUS
  <2> HIDE DEF f, ipv4
  <2>3. MaskOrDefault(p, <<>>, ipv4) = <<>>
    <3>1. ~HasColon(<<>>)
      BY DEF HasColon
    <3> QED
      BY <3>1 DEF MaskOrDefault
  <2> DEFINE v == f.ranges
             w == m.ranges
  <2>4. /\ v \in Seq(AddressRanges) /\ f.errors = 0 /\ ~f.threw
        /\ Len(v) = Len(kinds)
        /\ \A k \in 1..Len(kinds) : /\ v[k].hasFrom /\ v[k].from.ip = ip
                                    /\ v[k].from.protocol = kinds[k]
    BY <1>4 DEF ForEachKind, Results
  <2>5. /\ m \in Results(AddressRanges) /\ m.errors = 0
        /\ Len(w) = Len(v) /\ \A k \in 1..Len(v) : w[k] = v[k]
    <3> DEFINE none == <<>>
               y == ParseMasks(p, none, v, ipv4)
    <3>1. MaskOrDefault(p, none, ipv4) = <<>> /\ v \in Seq(AddressRanges)
      BY <2>3, <2>4
    <3> HIDE DEF v, none
    <3>2. y \in Results(AddressRanges)
      BY <2>2, <3>1, ParseMasksResult
    <3>4. y.errors = 0 => Len(y.ranges) = Len(v)
      <4>1. LET z == ParseMasks(p, none, v, ipv4)
            IN  z.errors = 0 =>
                    /\ Len(z.ranges) = Len(v)
                    /\ \A k \in 1..Len(v) :
                        /\ z.ranges[k] \in Remasked(v[k])
                        /\ (/\ ipv4 /\ IsIpv4(v[k].from)
                            /\ v[k].from.mask = PrefixMask(Bits)) =>
                            PrefixMask(Bits - V4Bits) \subseteq z.ranges[k].from.mask
        BY <2>2, <3>1, ParseMasksResult
      <4> QED
        BY <4>1
    <3>5. y.errors = 0 /\ \A k \in 1..Len(v) : y.ranges[k] = v[k]
      BY <2>2, <3>1, ParseMasksResult
    <3>3. m = y
      BY DEF v, none
    <3> HIDE DEF y, m
    <3> QED
      BY <3>2, <3>3, <3>4, <3>5
  <2> HIDE DEF m
  <2>6. w \in Seq(AddressRanges)
    BY <2>5 DEF Results
  <2> HIDE DEF v, w, kinds
  <2> DEFINE x == KeepUnlessErrors(f, m)
  <2>7. x = [f EXCEPT !.errors = 0, !.ranges = w]
    BY <2>4, <2>5 DEF KeepUnlessErrors, w
  <2>8. f \in Results(AddressRanges)
    BY <1>4 DEF ForEachKind
  <2> HIDE DEF x
  <2>9. x \in Results(AddressRanges) /\ x.ranges = w /\ x.errors = 0 /\ ~x.threw
    BY <2>4, <2>6, <2>7, <2>8 DEF Results
  <2>10. \A k \in 1..Len(kinds) : w[k].hasFrom /\ w[k].from.ip = ip /\ w[k].from.protocol = kinds[k]
    BY <2>4, <2>5
  <2>11. ForEachKind(p, ip, x)
    BY <2>4, <2>5, <2>9, <2>10 DEF ForEachKind, kinds
  <2> QED
    BY <2>1, <2>11 DEF x
<1> QED
  BY <1>5, <1>6

\* and so does a text which is an IP.
LEMMA LiteralText ==
    ASSUME NEW p \in Parsers, NEW names, NEW t \in DOMAIN Literal,
           ForEachKind(p, Literal[t], ParseCidr(p, names, t)), Separators(p) = {}
    PROVE  ForEachKind(p, Literal[t], ParseText(p, names, t))
<1> DEFINE e == ParseCidr(p, names, t)
           written == <<t>>
           results == [i \in DOMAIN written |-> ParseCidr(p, names, written[i])]
           kinds == SocketProtocols(p.protocol)
           G == AddressRanges
           x == InTurn(results)
<1>1. e \in Results(G)
  BY DEF ForEachKind
<1>2. ParseText(p, names, t) = Unwound(x)
  BY DEF ParseText, TextEntries
<1>3. results \in Seq(Results(G)) /\ Len(results) = 1 /\ results[1] = e
  <2>1. DOMAIN written = {1} /\ written[1] = t
    OBVIOUS
  <2>2. results = <<e>>
    BY <2>1
  <2> HIDE DEF results, e, G
  <2> QED
    BY <1>1, <2>2
<1> HIDE DEF results
<1>4. /\ x \in Results(G) /\ x.ranges = e.ranges /\ x.errors = e.errors
      /\ x.threw <=> e.threw
  BY <1>3, InTurnOfOne
<1> HIDE DEF x, e
<1>5. ForEachKind(p, Literal[t], e)
  BY DEF e
<1>6. ForEachKind(p, Literal[t], x) /\ ~x.threw
  BY <1>4, <1>5 DEF ForEachKind
<1> QED
  BY <1>2, <1>6 DEF Unwound

\* Of the answers for each kind of sockets, one is left.
LEMMA OneIsKept ==
    ASSUME NEW p, NEW ip, NEW x, ForEachKind(p, ip, x), p.protocol \in SingleProtocols
    PROVE  Len(KeepTcp(x.ranges, p.protocol)) = 1
<1> DEFINE v == x.ranges
           kinds == SocketProtocols(p.protocol)
<1>1. /\ v \in Seq(AddressRanges) /\ Len(v) = Len(kinds)
      /\ \A k \in 1..Len(kinds) : v[k].hasFrom /\ v[k].from.protocol = kinds[k]
  BY DEF ForEachKind, Results
<1> HIDE DEF v
<1>2. CASE p.protocol # "none"
  <2>1. kinds = <<p.protocol>>
    BY <1>2 DEF SocketProtocols, SingleProtocols
  <2>2. Len(v) = 1 /\ KeepTcp(v, p.protocol) = v
    BY <1>1, <1>2, <2>1 DEF KeepTcp
  <2> QED
    BY <2>2 DEF v
<1>3. CASE p.protocol = "none"
  <2> DEFINE places == {k \in DOMAIN v : ~(v[k].hasFrom /\ v[k].from.protocol # "TCP")}
             s == Selected(v, places)
  <2>1. kinds = <<"TCP", "UDP", "IP">>
    BY <1>3 DEF SocketProtocols
  <2>2. Len(v) = 3 /\ DOMAIN v = 1..3
    BY <1>1, <2>1
  <2>3. /\ v[1].hasFrom /\ v[1].from.protocol = "TCP"
        /\ v[2].hasFrom /\ v[2].from.protocol = "UDP"
        /\ v[3].hasFrom /\ v[3].from.protocol = "IP"
    BY <1>1, <2>1
  <2>4. places = {1}
    BY <2>2, <2>3
  <2> HIDE DEF places
  <2>5. /\ s \in Seq(AddressRanges)
        /\ Rank(v, places, 1) \in DOMAIN s
        /\ \A k \in DOMAIN s : k = Rank(v, places, 1)
    <3>1. places \in SUBSET (1..Len(v)) /\ 1 \in places /\ \A j \in places : j = 1
      BY <2>2, <2>4
    <3>2. /\ s \in Seq(AddressRanges)
          /\ \A j \in places : Rank(v, places, j) \in DOMAIN s
          /\ \A k \in DOMAIN s : \E j \in places : Rank(v, places, j) = k
      BY <1>1, <3>1, SelectedPlaces
    <3> HIDE DEF s
    <3> QED
      BY <3>1, <3>2, Zenon
  <2> HIDE DEF s
  <2>6. Len(s) = 1
    <3>1. Len(s) \in Nat /\ DOMAIN s = 1..Len(s)
      BY <2>5, LenProperties
    <3>2. Len(s) # 0
      BY <2>5, <3>1
    <3>3. 1 \in DOMAIN s /\ Len(s) \in DOMAIN s
      BY <3>1, <3>2
    <3>4. 1 = Len(s)
      BY <2>5, <3>3
    <3> QED
      BY <3>4
  <2>7. KeepTcp(v, p.protocol) = s
    BY <1>3, <2>2 DEF KeepTcp, s, places
  <2> QED
    BY <2>6, <2>7 DEF v
<1> QED
  BY <1>2, <1>3

\* What is kept is for TCP.
LEMMA TcpIsKept ==
    ASSUME NEW v \in Seq(AddressRanges), Len(v) # 1, Len(KeepTcp(v, "none")) = 1
    PROVE  LET r == KeepTcp(v, "none")[1]
           IN  /\ r.hasFrom => r.from.protocol = "TCP"
               /\ \E j \in 1..Len(v) : r = v[j]
<1> DEFINE places == {k \in DOMAIN v : ~(v[k].hasFrom /\ v[k].from.protocol # "TCP")}
           s == Selected(v, places)
<1>1. KeepTcp(v, "none") = s
  BY DEF KeepTcp
<1>2. places \in SUBSET (1..Len(v)) /\ \A j \in places : v[j].hasFrom => v[j].from.protocol = "TCP"
  BY LenProperties
<1> HIDE DEF places
<1>3. /\ s \in Seq(AddressRanges)
      /\ \A j \in places : s[Rank(v, places, j)] = v[j]
      /\ \A k \in DOMAIN s : \E j \in places : Rank(v, places, j) = k
  BY <1>2, SelectedPlaces
<1> HIDE DEF s
<1>4. 1 \in DOMAIN s
  BY <1>1, <1>3, LenProperties
<1>5. PICK j \in places : s[1] = v[j]
  BY <1>3, <1>4
<1> QED
  BY <1>1, <1>2, <1>5

\* Whether string_to_addr() parses with p.
IsCallParser(p, default, port, protocol, mask) ==
    /\ \A names, t : StringToAddr(names, t, default, port, protocol, mask)
                        = KeepTcp(ParseText(p, names, t).ranges, protocol)
    /\ p.protocol = protocol /\ p.port = port
    /\ p.mask4 = <<>> /\ p.mask6 = <<>>
    /\ PortAllowed(p) /\ "ADDRESS_LOOKUP" \in p.allow
    /\ "REQUIRED_PORT" \notin p.allow /\ "ADDRESS_RANGE" \notin p.allow
    /\ Separators(p) = {}

\* string_to_addr() parses with a parser it configures itself.
LEMMA CallParser ==
    ASSUME NEW default \in Seq(STRING), NEW port \in Unset..MaxPort,
           NEW protocol \in Protocols, NEW mask \in BOOLEAN
    PROVE  \E p \in Parsers : IsCallParser(p, default, port, protocol, mask)
<1> DEFINE a == SetDefaultAddress(NewParser, default)
           b == SetDefaultPort(a, port)
           c == SetProtocol(b, protocol)
           p == SetAllow(c, "MASK", mask)
           Fresh(q) == q.mask4 = <<>> /\ q.mask6 = <<>>
           flags == {"ADDRESS_LOOKUP", "PORT"}
<1>1. NewParser \in Parsers /\ NewParser.allow = flags /\ Fresh(NewParser)
  BY NewParserType DEF Validators, NewParser
<1>2. a \in Parsers /\ a.allow = flags /\ Fresh(a)
  <2> DEFINE q == NewParser
             u == Unbracket(default)
  <2>1. q \in Parsers /\ q.allow = flags /\ Fresh(q)
    BY <1>1
  <2> HIDE DEF q, u
  <2>2. \/ a = [q EXCEPT !.address4 = <<>>, !.address6 = <<>>]
        \/ a = [q EXCEPT !.address6 = u]
        \/ a = [q EXCEPT !.address6 = default]
        \/ a = [q EXCEPT !.address4 = default]
    BY Zenon DEF SetDefaultAddress, u, q
  <2> HIDE DEF a
  <2>3. u \in Seq(STRING) /\ <<>> \in Seq(STRING)
    BY UnbracketType DEF u
  <2> QED
    BY <2>1, <2>2, <2>3 DEF Parsers
<1> HIDE DEF a
<1>3. b \in Parsers /\ b.allow = flags /\ Fresh(b) /\ b.port = port
  BY <1>2 DEF SetDefaultPort, Parsers
<1> HIDE DEF b
<1>4. c \in Parsers /\ c.allow = flags /\ Fresh(c) /\ c.port = port /\ c.protocol = protocol
  BY <1>3 DEF SetProtocol, Parsers, Protocols
<1> HIDE DEF c
<1>5. /\ p \in Parsers /\ Fresh(p) /\ p.port = port /\ p.protocol = protocol
      /\ flags \subseteq p.allow /\ p.allow \subseteq flags \cup {"MASK"}
  <2> DEFINE allow == IF mask THEN (c.allow \ CommaRival("MASK")) \cup {"MASK"} ELSE c.allow \ {"MASK"}
  <2>1. CommaRival("MASK") = {}
    BY DEF CommaRival
  <2>2. /\ allow \in SUBSET AllowFlags
        /\ flags \subseteq allow /\ allow \subseteq flags \cup {"MASK"}
    BY <1>4, <2>1 DEF AllowFlags
  <2>3. p = [c EXCEPT !.allow = allow]
    BY DEF SetAllow
  <2> HIDE DEF allow, flags, p
  <2> QED
    BY <1>4, <2>2, <2>3 DEF Parsers
<1>6. \A names, t : StringToAddr(names, t, default, port, protocol, mask)
                        = KeepTcp(ParseText(p, names, t).ranges, protocol)
  BY Zenon DEF StringToAddr, a, b, c
<1> HIDE DEF p
<1>7. PortAllowed(p) /\ Separators(p) = {}
  BY <1>5 DEF PortAllowed, Separators
<1>8. IsCallParser(p, default, port, protocol, mask)
  BY <1>5, <1>6, <1>7 DEF IsCallParser
<1> QED
  BY <1>5, <1>8

\* The last call of string_to_addr() returned one address, if it was for a
\* protocol there is one for.
LEMMA ReturnedIsSingle ==
    ASSUME ReturnedByCall
    PROVE  SingleAddress
<1> SUFFICES ASSUME last.call = "string_to_addr"
             PROVE  LET r == last.ranges[1]
                    IN  /\ last.text \in DOMAIN Literal =>
                            (Len(last.ranges) = 1 <=> last.protocol \in SingleProtocols)
                        /\ Len(last.ranges) = 1 =>
                            /\ last.protocol \in SingleProtocols
                            /\ r.hasFrom /\ ~r.hasTo
                            /\ r.from.protocol = (IF last.protocol = "none" THEN "TCP" ELSE last.protocol)
                            /\ r.from.portDefined \/ r.from.port = LookupPort(last.port)
  BY DEF SingleAddress
<1> DEFINE t == last.text
           port == last.port
           protocol == last.protocol
           ranges == last.ranges
<1>1. t \in Seq(STRING) /\ port \in Unset..MaxPort /\ protocol \in Protocols
  BY DEF ReturnedByCall
<1>2. PICK names \in Resolvers, default \in Seq(STRING), mask \in BOOLEAN :
            ranges = StringToAddr(names, t, default, port, protocol, mask)
  BY DEF ReturnedByCall
<1> HIDE DEF t, port, protocol, ranges
<1>7. PICK p \in Parsers : IsCallParser(p, default, port, protocol, mask)
  BY <1>1, CallParser
<1>3. /\ p.protocol = protocol /\ p.port = port
      /\ p.mask4 = <<>> /\ p.mask6 = <<>>
      /\ PortAllowed(p) /\ "ADDRESS_LOOKUP" \in p.allow
      /\ "REQUIRED_PORT" \notin p.allow /\ "ADDRESS_RANGE" \notin p.allow
      /\ Separators(p) = {}
  BY <1>7 DEF IsCallParser
<1>6. ranges = KeepTcp(ParseText(p, names, t).ranges, protocol)
  BY <1>2, <1>7 DEF IsCallParser
<1> DEFINE x == ParseText(p, names, t)
<1>4. ASSUME t \in DOMAIN Literal, protocol \in SingleProtocols
      PROVE  Len(ranges) = 1
  <2>1. ForEachKind(p, Literal[t], x)
    BY <1>3, <1>4, LiteralEntry, LiteralText
  <2> HIDE DEF x
  <2>2. ranges = KeepTcp(x.ranges, p.protocol)
    BY <1>3, <1>6 DEF x
  <2> QED
    BY <1>3, <1>4, <2>1, <2>2, OneIsKept
<1>8. ASSUME Len(ranges) = 1
      PROVE  protocol \in SingleProtocols
  <2>1. SUFFICES ASSUME protocol \notin SingleProtocols
                 PROVE  FALSE
    OBVIOUS
  <2>2. InThrees(p) /\ protocol # "none"
    BY <1>3, <2>1 DEF InThrees, LookupForAny, SingleProtocols
  <2>3. Len(x.ranges) # 1
    BY <1>1, <2>2, ParseTextResult
  <2>4. ranges = x.ranges
    BY <1>6, <2>2 DEF KeepTcp
  <2> QED
    BY <1>8, <2>3, <2>4
<1>5. ASSUME Len(ranges) = 1
      PROVE  /\ ranges[1].hasFrom /\ ~ranges[1].hasTo
             /\ ranges[1].from.protocol = (IF protocol = "none" THEN "TCP" ELSE protocol)
             /\ ranges[1].from.portDefined \/ ranges[1].from.port = LookupPort(port)
  <2> DEFINE v == x.ranges
             r == ranges[1]
  <2>1. x \in Results(Answered(p)) /\ (InThrees(p) => Len(x.ranges) # 1)
    BY <1>1, ParseTextResult
  <2> HIDE DEF x
  <2>2. v \in Seq(Answered(p)) /\ (InThrees(p) => Len(v) # 1)
    BY <2>1 DEF Results
  <2>3. ranges = KeepTcp(v, protocol)
    BY <1>6 DEF x
  <2> HIDE DEF v
  <2>4. /\ \E j \in 1..Len(v) : r = v[j]
        /\ protocol = "none" /\ r.hasFrom => r.from.protocol = "TCP"
    <3>1. CASE protocol = "none"
      <4>1. Len(v) # 1
        BY <1>3, <2>2, <3>1 DEF InThrees, LookupForAny
      <4>2. v \in Seq(AddressRanges)
        BY <2>2, SeqMonotonic DEF Answered
      <4> QED
        BY <1>5, <2>3, <3>1, <4>1, <4>2, TcpIsKept
    <3>2. CASE protocol # "none"
      <4>1. ranges = v
        BY <2>3, <3>2 DEF KeepTcp
      <4>2. 1 \in 1..Len(v) /\ r = v[1]
        <5>1. Len(v) = 1 /\ r = v[1]
          BY <1>5, <4>1, Zenon
        <5>2. 1 \in 1..1
          OBVIOUS
        <5> QED
          BY <5>1, <5>2, Zenon
      <4>3. \E j \in 1..Len(v) : r = v[j]
        BY <4>2
      <4> QED
        BY <3>2, <4>3
    <3> QED
      BY <3>1, <3>2
  <2>5. r \in Answered(p)
    BY <2>2, <2>4, ElementOfSeq
  <2>6. PICK portText : r \in MaskedSingles(p, portText)
    BY <1>3, <2>5 DEF Answered
  <2>7. /\ r.hasFrom /\ ~r.hasTo
        /\ p.protocol \in {"TCP", "UDP"} => r.from.protocol = p.protocol
        /\ HasPort(r.from, p, portText)
    BY <2>6 DEF MaskedSingles, WithPortOf
  <2>9. protocol \in {"none", "TCP", "UDP"}
    BY <1>5, <1>8 DEF SingleProtocols
  <2>8. r.from.portDefined \/ r.from.port = LookupPort(port)
    BY <1>3, <2>7 DEF HasPort, PortOf
  <2> QED
    BY <1>3, <2>4, <2>7, <2>8, <2>9
<1> QED
  BY <1>4, <1>5, <1>8 DEF t, port, protocol, ranges

\* string_to_addr() has exactly one answer for an address when it is asked for
\* TCP, UDP or no protocol, and never one when it is asked for another; what it
\* returns is for this protocol, and has the default port unless the text has one.
THEOREM OneAddressReturned == SessionSpec => []SingleAddress
<1>1. SessionInv => SingleAddress
  BY ReturnedIsSingle DEF SessionInv
<1> QED
  BY <1>1, SessionIsInv, PTL

-----------------------------------------------------------------------------
(* Masks of IPv4 addresses                                                 *)

\* Neither a name nor an address has a ':' token.
LEMMA ColonsNotResolved ==
    ASSUME NEW p \in Parsers, NEW names \in Resolvers, NEW t \in Seq(STRING),
           ~Without(t, {":"}), NEW portText, NEW ipv6
    PROVE  ParseAddressPort(p, names, t, portText, ipv6) = EmitError
<1>1. PICK i \in 1..Len(t) : t[i] = ":"
  BY DEF Without
<1>2. t # <<>> /\ i \in DOMAIN t /\ ":" \in Punctuation \ {"-"}
  BY <1>1, EmptySeq, LenProperties DEF Punctuation
<1>3. t \notin DOMAIN Literal
  <2> SUFFICES ASSUME t \in DOMAIN Literal
               PROVE  FALSE
    OBVIOUS
  <2>1. t[1] \notin Punctuation /\ DOMAIN t = {1}
    BY LiteralIsWord
  <2> QED
    BY <1>1, <1>2, <2>1
<1>4. t \notin DOMAIN names
  <2> SUFFICES ASSUME t \in DOMAIN names
               PROVE  FALSE
    OBVIOUS
  <2>1. \A j \in DOMAIN t : t[j] \notin (Punctuation \ {"-"}) \cup V6Words
    BY ParserSessionAssumption DEF ParserSessionAssumption
  <2> QED
    BY <1>1, <1>2, <2>1
<1>5. AddressOrDefault(p, t, ipv6) = t
  BY <1>2 DEF AddressOrDefault
<1>6. \A port, given : /\ ByLookup(p, names, t, port, given) = EmitError
                       /\ ByLiteral(p, t, port, given) = EmitError
  BY <1>3, <1>4 DEF ByLookup, ByLiteral, CanResolve
<1> QED
  BY <1>5, <1>6 DEF ParseAddressPort

\* So that two addresses with a ':' in them have no ranges.
LEMMA ColonsNotJoined ==
    ASSUME NEW p \in Parsers, NEW names \in Resolvers, NEW t \in Seq(STRING),
           ~Without(t, {":"}), NEW portText, NEW ipv6
    PROVE  ParseAddressRangePort(p, names, t, portText, ipv6).ranges = <<>>
<1> DEFINE from == UpTo(t, {"-"})
           to == Past(t, {"-"})
           Parse(u) == ParseAddressPort(p, names, u, portText, ipv6)
           Bound(u) == IF u = <<>> THEN Nothing ELSE Parse(u)
           x == ParseAddressRangePort(p, names, t, portText, ipv6)
           f == Bound(from)
           s == Bound(to)
           G == Singles(p, portText)
<1>1. EmitError.ranges = <<>> /\ Nothing.ranges = <<>> /\ Len(<<>>) = 0
  BY DEF EmitError, Nothing
<1>2. CASE "ADDRESS_RANGE" \notin p.allow \/ ~Has(t, "-") \/ (from = <<>> /\ to = <<>>)
  <2>1. x = EmitError
    BY <1>2, ColonsNotResolved DEF ParseAddressRangePort
  <2> QED
    BY <1>1, <2>1
<1>3. CASE /\ "ADDRESS_RANGE" \in p.allow /\ Has(t, "-")
           /\ from # <<>> \/ to # <<>>
  <2>1. x = JoinTexts(p, from, to, f, s)
    BY <1>3 DEF ParseAddressRangePort
  <2>2. from \in Seq(STRING) /\ to \in Seq(STRING)
    BY UpToParts, PastParts
  <2>3. ~Without(from, {":"}) \/ ~Without(to, {":"})
    <3> DEFINE n == Find(t, {"-"})
    <3>1. PICK i \in 1..Len(t) : t[i] = ":"
      BY DEF Without
    <3>2. n \in 0..Len(t) /\ Len(t) \in Nat /\ (n # 0 => t[n] = "-")
      BY FindFirst
    <3>3. /\ n = 0 => from = t
          /\ n # 0 => Len(from) = n - 1
          /\ \A j \in 1..Len(from) : from[j] = t[j]
      BY UpToParts
    <3>4. n # 0 => /\ Len(to) = Len(t) - n
                   /\ \A j \in 1..Len(to) : to[j] = t[n + j]
      BY PastParts
    <3> HIDE DEF from, to, n
    <3>5. CASE n = 0
      BY <3>3, <3>5 DEF Without
    <3>6. CASE n # 0 /\ i < n
      <4>1. i \in 1..Len(from)
        BY <3>1, <3>2, <3>3, <3>6
      <4>2. from[i] = ":"
        BY <3>1, <3>3, <4>1
      <4> QED
        BY <4>1, <4>2 DEF Without
    <3>7. CASE n # 0 /\ i > n
      <4>1. i - n \in 1..Len(to) /\ n + (i - n) = i
        BY <3>1, <3>2, <3>4, <3>7
      <4>2. to[i - n] = ":"
        BY <3>1, <3>4, <3>7, <4>1
      <4> QED
        BY <4>1, <4>2 DEF Without
    <3>8. i # n
      BY <3>1, <3>2
    <3> QED
      BY <3>1, <3>2, <3>5, <3>6, <3>7, <3>8
  <2>4. /\ ~Without(from, {":"}) => from # <<>> /\ f = EmitError
        /\ ~Without(to, {":"}) => to # <<>> /\ s = EmitError
    <3>1. \A u \in Seq(STRING) : ~Without(u, {":"}) => u # <<>> /\ Parse(u) = EmitError
      BY <1>1, ColonsNotResolved DEF Without
    <3> HIDE DEF Parse
    <3> QED
      BY <2>2, <3>1
  <2>5. f \in Results(G) /\ s \in Results(G)
    <3>1. \A u : Parse(u) \in Results(G)
      BY ParseAddressPortResult DEF AddressResults
    <3> QED
      BY <3>1, SomeResults
  <2> HIDE DEF x, f, s, from, to
  <2>6. /\ FailedBound(f) \in Results(G) /\ FailedBound(f).ranges = <<>>
        /\ FailedBound(s) \in Results(G) /\ FailedBound(s).ranges = <<>>
    <3>1. \A b \in Results(G) : FailedBound(b) \in Results(G) /\ FailedBound(b).ranges = <<>>
      <4>1. <<>> \in Seq(G) /\ \A n \in Nat : n + 1 \in Nat
        OBVIOUS
      <4> QED
        BY <4>1 DEF FailedBound, Results
    <3> QED
      BY <2>5, <3>1
  <2>7. CASE from # <<>> /\ Len(f.ranges) # 1
    <3>1. x = FailedBound(f)
      BY <2>1, <2>7 DEF JoinTexts
    <3> QED
      BY <2>6, <3>1 DEF x
  <2>8. CASE ~(from # <<>> /\ Len(f.ranges) # 1)
    <3> DEFINE a == [f EXCEPT !.ranges = <<>>]
    <3>1. ~Without(to, {":"})
      BY <1>1, <2>3, <2>4, <2>8
    <3>2. to # <<>> /\ Len(s.ranges) # 1
      BY <1>1, <2>4, <3>1
    <3>3. x = Then(a, FailedBound(s))
      BY <2>1, <2>8, <3>2 DEF JoinTexts
    <3>4. a \in Results(G) /\ a.ranges = <<>>
      <4>1. <<>> \in Seq(G)
        OBVIOUS
      <4> QED
        BY <2>5, <4>1 DEF Results
    <3> HIDE DEF a
    <3>5. CASE a.threw
      BY <3>3, <3>4, <3>5 DEF Then, x
    <3>6. CASE ~a.threw
      <4>1. Then(a, FailedBound(s)).ranges = <<>>
        BY <2>6, <3>4, <3>6, ThenCounts, Zenon
      <4> QED
        BY <3>3, <4>1 DEF x
    <3> QED
      BY <3>5, <3>6
  <2> QED
    BY <2>7, <2>8
<1> QED
  BY <1>2, <1>3

\* An entry without an address has the default IPv6 one, which is no IPv4.
LEMMA DefaultIsIpv6 ==
    ASSUME NEW p \in Parsers, NEW names, NEW portText, p.address6 = <<>>
    PROVE  LET x == ParseAddressRangePort(p, names, <<>>, portText, TRUE)
           IN  \A k \in 1..Len(x.ranges) : ~IsIpv4(x.ranges[k].from)
<1> DEFINE t == <<"::">>
           none == <<>>
           x == ParseAddressRangePort(p, names, none, portText, TRUE)
           given == portText # <<>>
           port == PortOf(p, portText)
           refused == \/ ~given /\ "REQUIRED_PORT" \in p.allow
                      \/ none = <<>> /\ "REQUIRED_ADDRESS" \in p.allow
                      \/ given /\ ~IsNumber(portText)
           NotIpv4(y) == \A k \in 1..Len(y.ranges) : ~IsIpv4(y.ranges[k].from)
<1>1. t \in DOMAIN Literal /\ Literal[t] \notin FirstV4..LastV4
  BY AddrParserAssumption DEF AddrParserAssumption
<1>2. AddressOrDefault(p, none, TRUE) = t
  BY DEF AddressOrDefault
<1>3. x = IF refused THEN EmitError
          ELSE IF "ADDRESS_LOOKUP" \in p.allow THEN ByLookup(p, names, t, port, given)
          ELSE ByLiteral(p, t, port, given)
  <2>1. ~Has(<<>>, "-")
    BY DEF Has, ToSet
  <2> QED
    BY <1>2, <2>1 DEF ParseAddressRangePort, ParseAddressPort, PortOf
<1> HIDE DEF t, none, port
<1>4. NotIpv4(EmitError) /\ NotIpv4(Throw)
  <2>1. EmitError.ranges = <<>> /\ Throw.ranges = <<>> /\ Len(<<>>) = 0
    BY DEF EmitError, Throw, Nothing
  <2>2. Len(EmitError.ranges) = 0 /\ Len(Throw.ranges) = 0
    BY <2>1, Zenon
  <2> QED
    BY <2>2
<1>5. ASSUME ~refused, "ADDRESS_LOOKUP" \in p.allow
      PROVE  NotIpv4(ByLookup(p, names, t, port, given))
  <2> DEFINE y == ByLookup(p, names, t, port, given)
  <2>1. PortExpected(p, portText)
    BY <1>5 DEF PortExpected
  <2>2. ForEachKind(p, Literal[t], y)
    BY <1>1, <2>1, ByLookupOfLiteral DEF port
  <2> HIDE DEF y
  <2>3. \A k \in 1..Len(y.ranges) : y.ranges[k].from.ip = Literal[t]
    BY <2>2 DEF ForEachKind
  <2>4. NotIpv4(y)
    BY <1>1, <2>3 DEF IsIpv4
  <2> QED
    BY <2>4 DEF y
<1>6. NotIpv4(ByLiteral(p, t, port, given))
  <2> DEFINE a == NewAddr(Literal[t], IF port = Unset THEN 0 ELSE port, given,
                          IF p.protocol = "none" THEN "TCP" ELSE p.protocol)
             r == SetFrom(NoRange, a)
             y == ByLiteral(p, t, port, given)
  <2>1. y \in {EmitError, Throw, PushBack(r)}
    BY DEF ByLiteral
  <2>2. a.ip = Literal[t]
    BY DEF NewAddr
  <2> HIDE DEF a
  <2>3. r.from = a
    BY DEF SetFrom, NoRange
  <2> HIDE DEF r, y
  <2>4. PushBack(r).ranges = <<r>>
    BY DEF PushBack, Nothing
  <2>5. NotIpv4(PushBack(r))
    BY <1>1, <2>2, <2>3, <2>4 DEF IsIpv4
  <2>6. NotIpv4(y)
    BY <1>4, <2>1, <2>5
  <2> QED
    BY <2>6 DEF y
<1>7. NotIpv4(x)
  BY <1>3, <1>4, <1>5, <1>6
<1> QED
  BY <1>7 DEF none

\* The syntax of IPv6 has no IPv4 for an entry without anything of an IPv6.
Plain(p, t) ==
    /\ Without(t, {"[", "]"} \cup V6Words)
    /\ PortAllowed(p) \/ Without(t, {":"})

\* A part of a text which is plain is plain.
LEMMA PlainParts ==
    ASSUME NEW p, NEW t \in Seq(STRING), Plain(p, t), NEW tokens
    PROVE  /\ UpTo(t, tokens) \in Seq(STRING) /\ Plain(p, UpTo(t, tokens))
           /\ Past(t, tokens) \in Seq(STRING) /\ Plain(p, Past(t, tokens))
           /\ Trim(t) \in Seq(STRING) /\ Plain(p, Trim(t))
BY PartsWithout DEF Plain

\* With the syntax of IPv6, a plain text has no IPv4 address.
LEMMA Syntax6HasNoIpv4 ==
    ASSUME NEW p \in Parsers, NEW names \in Resolvers,
           NEW t \in Seq(STRING), NEW mask \in Seq(STRING),
           Plain(p, t), Plain(p, mask), p.address6 = <<>>, UsesSyntax6(p, t, mask)
    PROVE  LET x == ParseAddress(p, names, t, mask)
           IN  \A k \in 1..Len(x.ranges) : ~IsIpv4(x.ranges[k].from)
<1> DEFINE colons == {i \in DOMAIN t : t[i] = ":"}
           x == ParseAddress(p, names, t, mask)
           y == ParseAddressRangePort(p, names, Address6(t), Port6(t), TRUE)
           NotIpv4(r) == \A k \in 1..Len(r.ranges) : ~IsIpv4(r.ranges[k].from)
<1>1. /\ DOMAIN t = 1..Len(t) /\ Len(t) \in Nat
      /\ DOMAIN mask = 1..Len(mask) /\ Len(mask) \in Nat
  BY LenProperties
<1>2. /\ \A i \in DOMAIN t : t[i] # "[" /\ t[i] # "]" /\ t[i] \notin V6Words
      /\ \A i \in DOMAIN mask : mask[i] # "["
  BY <1>1 DEF Plain, Without
<1>3. (t # <<>> => t[1] # "[") /\ (mask # <<>> => mask[1] # "[") /\ ~Has(t, "]")
  <2>1. t # <<>> => 1 \in DOMAIN t
    BY <1>1, EmptySeq
  <2>2. mask # <<>> => 1 \in DOMAIN mask
    BY <1>1, EmptySeq
  <2>3. ~Has(t, "]")
    BY <1>2 DEF Has, ToSet
  <2> QED
    BY <1>2, <2>1, <2>2, <2>3
<1>4. ColonCount(t) = Cardinality(colons)
  BY <1>2 DEF ColonCount
<1>5. x = y
  BY <1>3 DEF ParseAddress, ParseAddress6
<1>6. CASE ColonCount(t) # 1 /\ colons # {}
  <2>1. Address6(t) = t
    BY <1>3, <1>6 DEF Address6
  <2>2. ~Without(t, {":"})
    BY <1>1, <1>6 DEF Without
  <2>3. y.ranges = <<>>
    <3> DEFINE portText == Port6(t)
    <3> HIDE DEF portText
    <3>1. ParseAddressRangePort(p, names, t, portText, TRUE).ranges = <<>>
      BY <2>2, ColonsNotJoined
    <3> QED
      BY <2>1, <3>1 DEF portText
  <2> HIDE DEF y
  <2>4. Len(y.ranges) = 0
    <3>1. Len(<<>>) = 0
      OBVIOUS
    <3> QED
      BY <2>3, <3>1, Zenon
  <2>5. NotIpv4(y)
    BY <2>4
  <2> QED
    BY <1>5, <2>5
<1>7. CASE ColonCount(t) = 1 \/ colons = {}
  <2>1. Address6(t) = <<>>
    <3>1. CASE colons = {}
      <4>1. ColonCount(t) = 0
        BY <1>4, <3>1, FS_EmptySet
      <4>2. ~Has(t, ":") /\ (t # <<>> => t[1] # ":")
        <5>1. ~Has(t, ":")
          BY <3>1 DEF Has, ToSet
        <5>2. t # <<>> => 1 \in DOMAIN t
          BY <1>1, EmptySeq
        <5> QED
          BY <3>1, <5>1, <5>2
      <4>3. t = <<>>
        BY <1>3, <4>1, <4>2 DEF UsesSyntax6
      <4> QED
        BY <1>3, <4>1, <4>3 DEF Address6
    <3>2. CASE colons # {}
      <4>1. ColonCount(t) = 1
        BY <1>7, <3>2
      <4>2. PortAllowed(p) /\ t # <<>>
        BY <1>1, <3>2, EmptySeq DEF Plain, Without
      <4>3. t[1] = ":"
        BY <1>3, <4>1, <4>2 DEF UsesSyntax6
      <4>4. Find(t, {":"}) = 1
        <5>1. 1 \in 1..Len(t)
          BY <1>1, <4>2, EmptySeq
        <5> QED
          BY <4>3, <5>1, FindFirst
      <4>5. UpTo(t, {":"}) = <<>>
        <5>1. UpTo(t, {":"}) \in Seq(STRING) /\ Len(UpTo(t, {":"})) = 0
          BY <4>4, UpToParts
        <5> QED
          BY <5>1, EmptySeq
      <4> QED
        BY <1>3, <4>1, <4>5 DEF Address6
    <3> QED
      BY <3>1, <3>2
  <2>2. NotIpv4(y)
    BY <2>1, DefaultIsIpv6
  <2> QED
    BY <1>5, <2>2
<1> QED
  BY <1>6, <1>7

\* Every range of an entry is as parse_address() had it, with a full mask, but
\* for the mask of its first bound.
LEMMA EntryMasksFit ==
    ASSUME NEW p \in Parsers, NEW names \in Resolvers, NEW e \in Seq(STRING),
           Plain(p, e), p.address6 = <<>>,
           NEW k \in 1..Len(ParseCidr(p, names, e).ranges)
    PROVE  LET r == ParseCidr(p, names, e).ranges[k]
           IN  r.hasFrom /\ IsIpv4(r.from) => PrefixMask(Bits - V4Bits) \subseteq r.from.mask
<1> DEFINE t == Trim(e)
           high == PrefixMask(Bits - V4Bits)
<1>1. t \in Seq(STRING) /\ Plain(p, t)
  BY PlainParts
<1> HIDE DEF t
<1>2. high \subseteq PrefixMask(Bits)
  BY AddrRangeAssumption DEF AddrRangeAssumption, PrefixMask
<1> HIDE DEF high
<1>3. ASSUME NEW address, NEW mask
      PROVE  LET f == ParseAddress(p, names, address, mask)
             IN  /\ f \in Results(AddressRanges)
                 /\ \A i \in 1..Len(f.ranges) :
                        f.ranges[i].hasFrom => f.ranges[i].from.mask = PrefixMask(Bits)
  <2> DEFINE f == ParseAddress(p, names, address, mask)
  <2>1. PICK portText : f \in RangeResults(p, names, portText)
    BY ParseAddressResult
  <2> HIDE DEF f
  <2>2. f \in Results(Ported(p, portText))
    BY <2>1 DEF RangeResults
  <2> DEFINE v == f.ranges
  <2>3. v \in Seq(Ported(p, portText))
    BY <2>2 DEF Results
  <2> HIDE DEF v
  <2>4. v \in Seq(AddressRanges) /\ \A i \in 1..Len(v) : v[i] \in Ported(p, portText)
    BY <2>3, SeqMonotonic, ElementOfSeq DEF Ported, WithPortOf
  <2>5. f \in Results(AddressRanges)
    BY <2>2, <2>4 DEF Results, v
  <2>6. \A i \in 1..Len(v) : v[i].hasFrom => v[i].from.mask = PrefixMask(Bits)
    BY <2>4 DEF Ported
  <2> QED
    BY <2>5, <2>6 DEF f, v
<1>4. CASE "MASK" \notin p.allow
  <2> DEFINE f == ParseAddress(p, names, t, <<>>)
  <2>1. ParseCidr(p, names, e) = f
    BY <1>4 DEF ParseCidr, t
  <2>2. \A i \in 1..Len(f.ranges) : f.ranges[i].hasFrom => f.ranges[i].from.mask = PrefixMask(Bits)
    BY <1>3
  <2> HIDE DEF f
  <2> QED
    BY <1>2, <2>1, <2>2 DEF high
<1>5. CASE "MASK" \in p.allow
  <2> DEFINE address == UpTo(t, {"/"})
             mask == Past(t, {"/"})
             f == ParseAddress(p, names, address, mask)
             ipv4 == ~UsesSyntax6(p, address, mask)
             v == f.ranges
             m == ParseMasks(p, mask, v, ipv4)
             w == m.ranges
             x == ParseCidr(p, names, e)
  <2>1. x = KeepUnlessErrors(f, m)
    BY <1>5 DEF ParseCidr, ParseCidrMask, t
  <2>2. /\ address \in Seq(STRING) /\ Plain(p, address)
        /\ mask \in Seq(STRING) /\ Plain(p, mask)
    BY <1>1, PlainParts
  <2> HIDE DEF address, mask
  <2>3. ~ipv4 => \A i \in 1..Len(v) : ~IsIpv4(v[i].from)
    BY <2>2, Syntax6HasNoIpv4
  <2>4. /\ f \in Results(AddressRanges)
        /\ \A i \in 1..Len(v) : v[i].hasFrom => v[i].from.mask = PrefixMask(Bits)
    BY <1>3
  <2>5. ipv4 \in BOOLEAN
    OBVIOUS
  <2> HIDE DEF f, ipv4, x
  <2>6. v \in Seq(AddressRanges) /\ f.errors \in Nat
    BY <2>4 DEF Results
  <2> HIDE DEF v
  <2>7. /\ m \in Results(AddressRanges)
        /\ m.errors = 0 =>
            /\ Len(w) = Len(v)
            /\ \A i \in 1..Len(v) :
                /\ w[i] \in Remasked(v[i])
                /\ (/\ ipv4 /\ IsIpv4(v[i].from)
                    /\ v[i].from.mask = PrefixMask(Bits)) => high \subseteq w[i].from.mask
    <3>1. LET z == ParseMasks(p, mask, v, ipv4)
          IN  /\ z \in Results(AddressRanges) /\ ~z.threw
              /\ z.errors = 0 =>
                  /\ Len(z.ranges) = Len(v)
                  /\ \A i \in 1..Len(v) :
                      /\ z.ranges[i] \in Remasked(v[i])
                      /\ (/\ ipv4 /\ IsIpv4(v[i].from)
                          /\ v[i].from.mask = PrefixMask(Bits)) =>
                          PrefixMask(Bits - V4Bits) \subseteq z.ranges[i].from.mask
      BY <2>5, <2>6, ParseMasksResult
    <3> QED
      BY <3>1 DEF high
  <2> HIDE DEF m
  <2>8. m.errors \in Nat
    BY <2>7 DEF Results
  <2>9. x.ranges = (IF f.errors + m.errors = 0 THEN w ELSE <<>>)
    BY <2>1, <2>4 DEF KeepUnlessErrors, Results
  <2>10. f.errors + m.errors = 0
    <3> SUFFICES ASSUME f.errors + m.errors # 0
                 PROVE  FALSE
      OBVIOUS
    <3>1. x.ranges = <<>>
      BY <2>9
    <3>2. Len(x.ranges) = 0
      <4>1. Len(<<>>) = 0
        OBVIOUS
      <4> QED
        BY <3>1, <4>1, Zenon
    <3> QED
      BY <3>2 DEF x
  <2>11. m.errors = 0 /\ x.ranges = w
    <3> DEFINE a == f.errors
               b == m.errors
    <3>1. a \in Nat /\ b \in Nat /\ a + b = 0
      BY <2>6, <2>8, <2>10
    <3> HIDE DEF a, b
    <3>2. b = 0
      BY <3>1
    <3> QED
      BY <2>9, <2>10, <3>2 DEF b
  <2> HIDE DEF w
  <2>12. k \in 1..Len(v) /\ w[k] \in Remasked(v[k])
    BY <2>7, <2>11 DEF x
  <2>13. w[k].hasFrom = v[k].hasFrom /\ (IsIpv4(w[k].from) <=> IsIpv4(v[k].from))
    BY <2>12 DEF Remasked, IsIpv4
  <2>14. w[k].hasFrom /\ IsIpv4(w[k].from) => high \subseteq w[k].from.mask
    <3> SUFFICES ASSUME w[k].hasFrom, IsIpv4(w[k].from)
                 PROVE  high \subseteq w[k].from.mask
      OBVIOUS
    <3>1. v[k].hasFrom /\ IsIpv4(v[k].from)
      BY <2>13
    <3>2. ipv4 /\ v[k].from.mask = PrefixMask(Bits)
      BY <2>3, <2>4, <2>12, <3>1 DEF v
    <3> QED
      BY <2>7, <2>11, <2>12, <3>1, <3>2
  <2> QED
    BY <2>11, <2>14 DEF high, x
<1> QED
  BY <1>4, <1>5

\* The last call gave masks which fit.
LEMMA ParsedMasksFit ==
    ASSUME ParsedAsText
    PROVE  Ipv4MaskFits
<1> DEFINE p == last.before
           names == last.resolver
           written == TextEntries(p, last.text)
<1> SUFFICES ASSUME Parsed, NEW i \in DOMAIN written, IsIpv4Entry(written[i]),
                    NEW r \in ToSet(ParseCidr(p, names, written[i]).ranges),
                    r.hasFrom, IsIpv4(r.from)
             PROVE  PrefixMask(Bits - V4Bits) \subseteq r.from.mask
  BY Zenon DEF Ipv4MaskFits
<1>1. p \in Parsers /\ names \in Resolvers /\ last.text \in Seq(STRING)
  BY DEF ParsedAsText
<1> DEFINE e == written[i]
           v == ParseCidr(p, names, e).ranges
<1>2. written \in Seq(Seq(STRING))
  BY <1>1, EntriesAreTexts
<1> HIDE DEF written
<1>3. e \in Seq(STRING)
  BY <1>2
<1>4. ToSet(e) \cap ({"[", "]"} \cup V6Words) = {} /\ p.address6 = <<>> /\ (Has(e, ":") => PortAllowed(p))
  BY DEF IsIpv4Entry
<1> HIDE DEF p, names, e
<1>5. Plain(p, e)
  BY <1>3, <1>4, LenProperties DEF Plain, Without, Has, ToSet
<1>6. v \in Seq(AddressRanges)
  <2> DEFINE x == ParseCidr(p, names, e)
  <2>1. PICK portText : x \in Added(p, names, portText)
    BY <1>1, ParseCidrResult
  <2> HIDE DEF x
  <2>2. x.ranges \in Seq(WithPortOf(p, portText))
    BY <2>1 DEF Added, Results
  <2>3. x.ranges \in Seq(AddressRanges)
    BY <2>2, SeqMonotonic DEF WithPortOf
  <2> QED
    BY <2>3 DEF x
<1>7. PICK k \in 1..Len(v) : r = v[k]
  <2>1. r \in ToSet(v)
    BY DEF e
  <2>2. DOMAIN v = 1..Len(v)
    BY <1>6, LenProperties
  <2> HIDE DEF v
  <2> QED
    BY <2>1, <2>2 DEF ToSet
<1> QED
  BY <1>1, <1>3, <1>4, <1>5, <1>7, EntryMasksFit

\* An IPv4 address of an entry without anything of an IPv6 keeps the high bits
\* of its mask.
THEOREM Ipv4MasksFit == SessionSpec => []Ipv4MaskFits
<1>1. SessionInv => Ipv4MaskFits
  BY ParsedMasksFit DEF SessionInv
<1> QED
  BY <1>1, SessionIsInv, PTL

-----------------------------------------------------------------------------
(* What is printed can be read: bits                                       *)

\* A multiple of what a bit weighs changes none of the bits below it.
LEMMA LowBitsKept ==
    ASSUME NEW q \in Nat, NEW x \in Nat, NEW h \in 0..Bits, NEW i \in 0..(h - 1)
    PROVE  BitOf(q * Weight[h] + x, i) = BitOf(x, i)
<1> DEFINE d == Weight[i]
           p == x \div d
<1>0. /\ i \in 0..Bits /\ i + 1 \in 0..Bits /\ i + 1 \in 1..Bits /\ h \in (i + 1)..Bits
      /\ (i + 1) - 1 = i
  BY AddrRangeAssumption DEF AddrRangeAssumption
<1>1. d \in Nat /\ d > 0 /\ Weight[i + 1] = 2 * d
  BY <1>0, Weights
<1>2. PICK c \in Nat : Weight[h] = c * Weight[i + 1]
  BY <1>0, WeightMultiple
<1> HIDE DEF d
<1>3. p \in Nat /\ p * d <= x /\ x < p * d + d
  BY <1>1, Quotient
<1> HIDE DEF p
<1> DEFINE m == q * c
<1>4. m \in Nat /\ q * Weight[h] = (2 * m) * d
  BY <1>1, <1>2
<1> HIDE DEF m
<1>5. (2 * m + p) * d = (2 * m) * d + p * d /\ (2 * m) * d \in Nat /\ p * d \in Nat
  BY <1>1, <1>3, <1>4
<1>6. (q * Weight[h] + x) \div d = 2 * m + p
  <2> DEFINE y == q * Weight[h] + x
             n == 2 * m + p
             a == (2 * m) * d
             b == p * d
  <2>1. n * d = a + b /\ a \in Nat /\ b \in Nat /\ y = a + x /\ b <= x /\ x < b + d
    BY <1>3, <1>4, <1>5
  <2>2. n \in Int
    BY <1>3, <1>4
  <2> HIDE DEF y, n, a, b
  <2>3. y \in Nat /\ n * d <= y /\ y < n * d + d
    BY <1>1, <2>1
  <2> QED
    BY <1>1, <2>2, <2>3, QuotientUnique DEF y, n
<1>7. (2 * m + p) % 2 = p % 2
  BY <1>3, <1>4
<1> QED
  BY <1>6, <1>7 DEF BitOf, d, p

\* A number has none of the bits which weigh more than it.
LEMMA HighBitsOff ==
    ASSUME NEW h \in 0..Bits, NEW x \in Nat, x < Weight[h], NEW i \in h..Bits
    PROVE  BitOf(x, i) = 0
<1> DEFINE d == Weight[i]
<1>0. i \in 0..Bits
  BY AddrRangeAssumption DEF AddrRangeAssumption
<1>1. d \in Nat /\ d > 0 /\ Weight[h] \in Nat /\ Weight[h] > 0
  BY <1>0, Weights
<1>2. PICK c \in Nat : c > 0 /\ d = c * Weight[h]
  BY WeightMultiple
<1> HIDE DEF d
<1>3. Weight[h] <= d
  <2> DEFINE w == Weight[h]
  <2>1. w \in Nat /\ 1 <= c /\ d = c * w
    BY <1>1, <1>2
  <2> HIDE DEF w
  <2>2. 1 * w <= c * w
    BY <2>1
  <2> QED
    BY <2>1, <2>2 DEF w
<1>4. x < d
  BY <1>1, <1>3
<1>5. x \div d = 0
  BY <1>1, <1>4, QuotientUnique
<1> QED
  BY <1>5 DEF BitOf, d

\* Some number below what a bit weighs has these of the bits below it.
LEMMA BitsExist ==
    ASSUME NEW h \in 0..Bits, NEW mask \in SUBSET (0..(h - 1))
    PROVE  \E ip \in Nat : ip < Weight[h] /\ \A i \in 0..(Bits - 1) : BitOf(ip, i) = 1 <=> i \in mask
<1> DEFINE Has1(x, m) == \A i \in 0..(Bits - 1) : BitOf(x, i) = 1 <=> i \in m
           P == {n \in Nat : n <= Bits =>
                    \A m \in SUBSET (0..(n - 1)) : \E x \in Nat : x < Weight[n] /\ Has1(x, m)}
<1>0. Bits \in Nat /\ h \in Nat /\ h <= Bits
  BY AddrRangeAssumption DEF AddrRangeAssumption
<1>1. 0 \in P
  <2>1. 0 \in Nat /\ 0 < Weight[0] /\ 0 \in 0..Bits
    BY <1>0, Weights
  <2>2. ASSUME NEW m \in SUBSET (0..(0 - 1))
        PROVE  Has1(0, m)
    <3>1. m = {}
      OBVIOUS
    <3>2. ASSUME NEW i \in 0..(Bits - 1)
          PROVE  BitOf(0, i) = 0
      <4>1. i \in 0..Bits
        BY <1>0
      <4> QED
        BY <2>1, <4>1, HighBitsOff
    <3> QED
      BY <3>1, <3>2
  <2> HIDE DEF Has1
  <2> QED
    BY <2>1, <2>2
<1>2. ASSUME NEW n \in Nat, n \in P
      PROVE  n + 1 \in P
  <2> SUFFICES ASSUME n + 1 <= Bits, NEW m \in SUBSET (0..((n + 1) - 1))
               PROVE  \E x \in Nat : x < Weight[n + 1] /\ Has1(x, m)
    OBVIOUS
  <2> DEFINE low == m \cap 0..(n - 1)
  <2>1. low \in SUBSET (0..(n - 1)) /\ n <= Bits /\ n \in 0..Bits /\ n + 1 \in 1..Bits /\ (n + 1) - 1 = n
    BY <1>0
  <2>2. PICK x \in Nat : x < Weight[n] /\ Has1(x, low)
    BY <1>2, <2>1
  <2>3. Weight[n] \in Nat /\ Weight[n] > 0 /\ Weight[n + 1] = 2 * Weight[n]
    BY <2>1, Weights
  <2>4. CASE n \notin m
    <3>1. m = low
      <4>1. \A i \in m : i \in 0..(n - 1)
        BY <2>4
      <4> QED
        BY <4>1
    <3>2. x < Weight[n + 1]
      BY <2>2, <2>3
    <3> QED
      BY <2>2, <3>1, <3>2
  <2>5. CASE n \in m
    <3> DEFINE y == 1 * Weight[n] + x
    <3>1. y \in Nat /\ y < Weight[n + 1] /\ y = Weight[n] + x
      BY <2>2, <2>3
    <3>2. ASSUME NEW i \in 0..(Bits - 1)
          PROVE  BitOf(y, i) = 1 <=> i \in m
      <4>1. CASE i < n
        <5>1. i \in 0..(n - 1)
          BY <4>1
        <5>2. BitOf(y, i) = BitOf(x, i)
          BY <2>1, <2>2, <5>1, LowBitsKept
        <5>3. i \in m <=> i \in low
          BY <5>1
        <5> QED
          BY <2>2, <5>2, <5>3
      <4>2. CASE i = n
        <5>1. y \div Weight[n] = 1
          <6> DEFINE w == Weight[n]
          <6>1. w \in Nat /\ w > 0 /\ y \in Nat /\ y = w + x /\ x \in Nat /\ x < w
            BY <2>2, <2>3, <3>1
          <6> HIDE DEF w, y
          <6>2. 1 * w <= y /\ y < 1 * w + w
            BY <6>1
          <6>3. y \div w = 1
            BY <6>1, <6>2, QuotientUnique
          <6> QED
            BY <6>3 DEF w
        <5> HIDE DEF y
        <5>2. BitOf(y, n) = 1
          BY <5>1 DEF BitOf
        <5> QED
          BY <2>5, <4>2, <5>2
      <4>3. CASE i > n
        <5>1. n + 1 \in 0..Bits /\ i \in (n + 1)..Bits
          BY <1>0, <2>1, <4>3
        <5> HIDE DEF y
        <5>2. BitOf(y, i) = 0
          BY <3>1, <5>1, HighBitsOff
        <5>3. i \notin m
          BY <4>3
        <5> QED
          BY <5>2, <5>3
      <4> QED
        BY <4>1, <4>2, <4>3
    <3> HIDE DEF y
    <3> QED
      BY <3>1, <3>2
  <2> QED
    BY <2>4, <2>5
<1> HIDE DEF P
<1>3. h \in P
  BY <1>0, <1>1, <1>2, Induction
<1> QED
  BY <1>0, <1>3 DEF P

\* The IP of a mask has its bits.
LEMMA IpOfBits ==
    ASSUME NEW h \in 0..Bits, NEW mask \in SUBSET (0..(h - 1))
    PROVE  IpOf(mask) \in Ips /\ OnBits(IpOf(mask)) = mask /\ IpOf(mask) < Weight[h]
<1> DEFINE ip == IpOf(mask)
<1>0. Bits \in Nat /\ MaxIp = Weight[Bits] - 1 /\ h \in 0..Bits /\ h \in Nat /\ Bits \in 0..Bits
  BY AddrRangeAssumption DEF AddrRangeAssumption
<1>1. mask \in SUBSET (0..(Bits - 1))
  BY <1>0
<1>2. \E x \in Ips : OnBits(x) = mask
  <2>1. PICK x \in Nat : x < Weight[Bits] /\ \A i \in 0..(Bits - 1) : BitOf(x, i) = 1 <=> i \in mask
    BY <1>0, <1>1, BitsExist
  <2>2. x \in Ips
    BY <1>0, <2>1, Weights DEF Ips
  <2>3. OnBits(x) = mask
    BY <1>1, <2>1 DEF OnBits
  <2> QED
    BY <2>2, <2>3
<1>3. ip \in Ips /\ OnBits(ip) = mask
  BY <1>2, Zenon DEF IpOf
<1> HIDE DEF ip
<1>4. ip < Weight[h]
  <2>1. Weight[h] \in Nat /\ Weight[h] > 0 /\ Weight[Bits] \in Nat /\ Weight[Bits] > 0
    BY <1>0, Weights
  <2>2. 0 \in Ips /\ 0 \in Nat /\ ip \in Nat
    BY <1>0, <1>3, <2>1 DEF Ips
  <2>3. ASSUME NEW i \in h..(Bits - 1)
        PROVE  BitOf(ip, i) = BitOf(0, i)
    <3>1. i \in 0..(Bits - 1) /\ i \in h..Bits /\ i \notin mask /\ i \in 0..Bits
      BY <1>0
    <3>2. BitOf(0, i) = 0
      BY <2>1, <2>2, <3>1, HighBitsOff
    <3>3. BitOf(ip, i) # 1
      BY <1>3, <3>1 DEF OnBits
    <3>4. BitOf(ip, i) \in {0, 1}
      <4>1. Weight[i] \in Nat /\ Weight[i] > 0
        BY <3>1, Weights
      <4>2. ip \div Weight[i] \in Nat
        BY <2>2, <4>1, Quotient
      <4> QED
        BY <4>2 DEF BitOf
    <3> QED
      BY <3>2, <3>3, <3>4
  <2>4. ip \div Weight[h] = 0 \div Weight[h]
    BY <1>3, <2>2, <2>3, SameHighBits
  <2>5. 0 \div Weight[h] = 0
    BY <2>1, QuotientUnique
  <2>6. ip < 0 * Weight[h] + Weight[h]
    BY <2>1, <2>2, <2>4, <2>5, Quotient
  <2> QED
    BY <2>1, <2>6
<1> QED
  BY <1>3, <1>4 DEF ip

\* The size of a mask is that of a prefix, which is the mask.
LEMMA SizeOfMask ==
    ASSUME NEW a, GetMaskSize(a) # -1
    PROVE  GetMaskSize(a) \in 0..Bits /\ PrefixMask(GetMaskSize(a)) = a.mask
<1>1. \E n \in 0..Bits : a.mask = PrefixMask(n)
  BY DEF GetMaskSize
<1> QED
  BY <1>1, Zenon DEF GetMaskSize

\* The size of the mask of an IPv4 is that of an IPv4 mask.
LEMMA SizeOfIpv4Mask ==
    ASSUME NEW a, GetMaskSize(a) # -1, IsMaskIpv4Compatible(a)
    PROVE  GetMaskSize(a) - (Bits - V4Bits) \in 0..V4Bits
<1> DEFINE n == GetMaskSize(a)
<1>0. Bits \in Nat /\ V4Bits \in 0..Bits
  BY AddrRangeAssumption DEF AddrRangeAssumption
<1>1. n \in 0..Bits /\ PrefixMask(n) = a.mask
  BY SizeOfMask
<1>2. PrefixMask(Bits - V4Bits) \subseteq PrefixMask(n)
  BY <1>1, Zenon DEF IsMaskIpv4Compatible
<1> HIDE DEF n
<1>3. n >= Bits - V4Bits
  <2>1. CASE V4Bits = Bits
    BY <1>0, <1>1, <2>1
  <2>2. CASE V4Bits < Bits
    <3>1. V4Bits \in PrefixMask(Bits - V4Bits)
      BY <1>0, <2>2 DEF PrefixMask
    <3>2. V4Bits \in PrefixMask(n)
      BY <1>2, <3>1
    <3> QED
      BY <1>0, <1>1, <3>2 DEF PrefixMask
  <2> QED
    BY <1>0, <2>1, <2>2
<1> QED
  BY <1>0, <1>1, <1>3 DEF n

\* The bits of an IPv4 mask as an address are those of the mask.
LEMMA Ipv4MaskBits ==
    ASSUME NEW mask \in Masks, PrefixMask(Bits - V4Bits) \subseteq mask
    PROVE  LET ip == FirstV4 + IpOf(mask \cap 0..(V4Bits - 1))
           IN  /\ ip \in Ips /\ ip \in FirstV4..LastV4
               /\ OnBits(ip) \cup PrefixMask(Bits - V4Bits) = mask
<1> DEFINE low == mask \cap 0..(V4Bits - 1)
           x == IpOf(low)
           ip == FirstV4 + x
           q == FirstV4 \div Weight[V4Bits]
<1>0. /\ Bits \in Nat /\ V4Bits \in 0..Bits /\ FirstV4 \in Ips /\ FirstV4 \in Nat
      /\ MaxIp \in Nat /\ LastV4 \in Int /\ LastV4 <= MaxIp
  BY AddrRangeAssumption DEF AddrRangeAssumption, Ips
<1>1. LastV4 = FirstV4 + (Weight[V4Bits] - 1) /\ \A i \in 0..(V4Bits - 1) : BitOf(FirstV4, i) = 0
  BY AddrTextAssumption DEF AddrTextAssumption
<1>2. x \in Ips /\ x \in Nat /\ OnBits(x) = low /\ x < Weight[V4Bits]
  <2>1. low \in SUBSET (0..(V4Bits - 1))
    OBVIOUS
  <2>2. x \in Ips /\ OnBits(x) = low /\ x < Weight[V4Bits]
    BY <1>0, <2>1, IpOfBits
  <2> HIDE DEF x, low
  <2>3. x \in Nat
    BY <1>0, <2>2 DEF Ips
  <2> QED
    BY <2>2, <2>3
<1>3. FirstV4 = q * Weight[V4Bits] /\ q \in Nat
  <2>1. FirstV4 = q * Weight[V4Bits]
    BY <1>0, <1>1, LowBitsOff
  <2>2. Weight[V4Bits] \in Nat /\ Weight[V4Bits] > 0
    BY <1>0, Weights
  <2> QED
    BY <1>0, <2>1, <2>2, Quotient
<1> HIDE DEF x, q
<1>4. ip \in FirstV4..LastV4 /\ ip \in Ips
  <2>1. Weight[V4Bits] \in Nat
    BY <1>0, Weights
  <2> QED
    BY <1>0, <1>1, <1>2, <2>1 DEF Ips
<1>5. ASSUME NEW i \in 0..(V4Bits - 1)
      PROVE  i \in OnBits(ip) <=> i \in mask
  <2>1. BitOf(ip, i) = BitOf(x, i)
    BY <1>0, <1>2, <1>3, LowBitsKept
  <2>2. i \in 0..(Bits - 1)
    BY <1>0
  <2> HIDE DEF ip
  <2>3. i \in OnBits(ip) <=> i \in OnBits(x)
    BY <2>1, <2>2 DEF OnBits
  <2> QED
    BY <1>2, <2>3
<1> HIDE DEF ip
<1>6. PrefixMask(Bits - V4Bits) = V4Bits..(Bits - 1)
  BY <1>0 DEF PrefixMask
<1>7. OnBits(ip) \subseteq 0..(Bits - 1) /\ mask \subseteq 0..(Bits - 1)
  BY DEF OnBits, Masks
<1>8. \A i \in 0..(Bits - 1) : i \in 0..(V4Bits - 1) \/ i \in V4Bits..(Bits - 1)
  BY <1>0
<1>9. OnBits(ip) \cup PrefixMask(Bits - V4Bits) = mask
  BY <1>5, <1>6, <1>7, <1>8
<1> QED
  BY <1>4, <1>9 DEF ip, x

-----------------------------------------------------------------------------
(* What is printed can be read: cutting a text                             *)

\* Without blanks there is nothing to trim.
LEMMA NothingTrimmed ==
    ASSUME NEW t \in Seq(STRING), Without(t, Blanks)
    PROVE  Trim(t) = t
<1> DEFINE kept == {i \in DOMAIN t : t[i] \notin Blanks}
           n == Len(t)
<1>1. n \in Nat /\ DOMAIN t = 1..n /\ kept = 1..n
  BY LenProperties DEF Without
<1>4. t = <<>> <=> n = 0
  BY EmptySeq
<1> HIDE DEF kept, n
<1>2. CASE n = 0
  <2>1. t = <<>> /\ kept = {}
    BY <1>1, <1>2, <1>4
  <2> QED
    BY <2>1 DEF Trim, kept
<1>3. CASE n # 0
  <2>1. 1 \in kept /\ n \in kept /\ kept # {}
    <3>1. 1 \in 1..n /\ n \in 1..n
      BY <1>1, <1>3
    <3>2. kept = 1..n
      BY <1>1
    <3> QED
      BY <3>1, <3>2, Zenon
  <2>2. First(kept) = Min(kept)
    BY <2>1 DEF First
  <2>3. First(kept) \in kept /\ \A k \in kept : First(kept) <= k
    <3>1. kept \in SUBSET (Nat \ {0})
      BY <1>1
    <3> QED
      BY <2>1, <3>1, FirstPlace
  <2>4. Max(kept) \in kept /\ \A k \in kept : k <= Max(kept)
    <3>1. kept \in SUBSET (1..n)
      BY <1>1
    <3> QED
      BY <1>1, <2>1, <3>1, LastPlace
  <2>5. Min(kept) = 1
    <3>1. Min(kept) \in kept /\ Min(kept) <= 1
      BY <2>1, <2>2, <2>3
    <3> QED
      BY <1>1, <3>1
  <2>6. Max(kept) = n
    <3>1. Max(kept) \in kept /\ n <= Max(kept)
      BY <2>1, <2>4
    <3> QED
      BY <1>1, <3>1
  <2>7. Trim(t) = SubSeq(t, 1, n)
    BY <2>1, <2>5, <2>6 DEF Trim, kept
  <2> QED
    BY <2>7, SubSeqFull DEF n
<1> QED
  BY <1>2, <1>3

\* Whether t is u and v with the token c between them.
IsJoined(t, u, c, v) ==
    /\ u \in Seq(STRING) /\ v \in Seq(STRING) /\ c \in STRING
    /\ t \in Seq(STRING) /\ Len(t) = Len(u) + 1 + Len(v)
    /\ \A i \in 1..Len(u) : t[i] = u[i]
    /\ t[Len(u) + 1] = c
    /\ \A i \in 1..Len(v) : t[(Len(u) + 1) + i] = v[i]

\* A text made of two others with a token between them.
LEMMA Joined ==
    ASSUME NEW u \in Seq(STRING), NEW v \in Seq(STRING), NEW c \in STRING
    PROVE  IsJoined(u \o (<<c>> \o v), u, c, v)
<1> DEFINE w == <<c>> \o v
           t == u \o w
           m == Len(u)
           n == Len(v)
<1>1. m \in Nat /\ n \in Nat
  BY LenProperties
<1>2. /\ w \in Seq(STRING) /\ Len(w) = 1 + n
      /\ w[1] = c /\ \A i \in 1..n : w[1 + i] = v[i]
  <2> DEFINE one == <<c>>
  <2>1. one \in Seq(STRING) /\ Len(one) = 1 /\ one[1] = c
    <3>1. one \in Seq(STRING)
      BY SingletonList
    <3>2. Len(one) = 1 /\ one[1] = c
      OBVIOUS
    <3> QED
      BY <3>1, <3>2
  <2> HIDE DEF one
  <2>2. /\ one \o v \in Seq(STRING) /\ Len(one \o v) = 1 + n
        /\ \A i \in 1..(1 + n) : (one \o v)[i] = IF i <= 1 THEN one[i] ELSE v[i - 1]
    <3>1. /\ one \o v \in Seq(STRING) /\ Len(one \o v) = Len(one) + Len(v)
          /\ \A i \in 1..(Len(one) + Len(v)) :
                (one \o v)[i] = IF i <= Len(one) THEN one[i] ELSE v[i - Len(one)]
      BY <2>1, ConcatProperties
    <3> QED
      BY <2>1, <3>1
  <2>3. w = one \o v
    BY DEF one
  <2> HIDE DEF w
  <2>4. w[1] = c
    <3>1. 1 \in 1..(1 + n) /\ 1 <= 1
      BY <1>1
    <3>2. w[1] = one[1]
      BY <2>2, <2>3, <3>1
    <3> QED
      BY <2>1, <3>2
  <2>5. ASSUME NEW i \in 1..n
        PROVE  w[1 + i] = v[i]
    <3>1. 1 + i \in 1..(1 + n) /\ ~(1 + i <= 1) /\ (1 + i) - 1 = i
      BY <1>1
    <3> QED
      BY <2>2, <2>3, <3>1
  <2> QED
    BY <2>2, <2>3, <2>4, <2>5
<1> HIDE DEF w
<1>3. /\ t \in Seq(STRING) /\ Len(t) = m + 1 + n
      /\ \A i \in 1..m : t[i] = u[i]
      /\ t[m + 1] = c
      /\ \A i \in 1..n : t[(m + 1) + i] = v[i]
  <2>1. /\ t \in Seq(STRING) /\ Len(t) = m + (1 + n)
        /\ \A i \in 1..(m + (1 + n)) : t[i] = IF i <= m THEN u[i] ELSE w[i - m]
    <3>1. /\ t \in Seq(STRING) /\ Len(t) = Len(u) + Len(w)
          /\ \A i \in 1..(Len(u) + Len(w)) : t[i] = IF i <= Len(u) THEN u[i] ELSE w[i - Len(u)]
      <4>1. w \in Seq(STRING)
        BY <1>2
      <4> HIDE DEF t
      <4>2. t = u \o w
        BY DEF t
      <4> QED
        BY <4>1, <4>2, ConcatProperties
    <3> QED
      BY <1>2, <3>1
  <2> HIDE DEF t, m, n
  <2>2. \A i \in 1..m : t[i] = u[i]
    BY <1>1, <2>1
  <2>3. t[m + 1] = c
    <3>1. m + 1 \in 1..(m + (1 + n)) /\ ~(m + 1 <= m) /\ (m + 1) - m = 1
      BY <1>1
    <3> QED
      BY <1>2, <2>1, <3>1
  <2>4. ASSUME NEW i \in 1..n
        PROVE  t[(m + 1) + i] = v[i]
    <3>1. /\ (m + 1) + i \in 1..(m + (1 + n)) /\ ~((m + 1) + i <= m)
          /\ ((m + 1) + i) - m = 1 + i
      BY <1>1
    <3> QED
      BY <1>2, <2>1, <3>1
  <2> QED
    BY <1>1, <2>1, <2>2, <2>3, <2>4
<1> HIDE DEF m, n
<1> QED
  BY <1>3 DEF IsJoined, w, t, m, n

\* A text is cut at the first of these tokens.
LEMMA CutAt ==
    ASSUME NEW t, NEW u, NEW c, NEW v, IsJoined(t, u, c, v),
           NEW tokens, Without(u, tokens), c \in tokens
    PROVE  /\ Find(t, tokens) = Len(u) + 1
           /\ UpTo(t, tokens) = u /\ Past(t, tokens) = v
<1> DEFINE m == Len(u)
           n == Len(v)
           f == Find(t, tokens)
<1>1. /\ m \in Nat /\ n \in Nat
      /\ u \in Seq(STRING) /\ v \in Seq(STRING)
  BY LenProperties DEF IsJoined
<1>3. /\ t \in Seq(STRING) /\ Len(t) = m + 1 + n
      /\ \A i \in 1..m : t[i] = u[i]
      /\ t[m + 1] = c
      /\ \A i \in 1..n : t[(m + 1) + i] = v[i]
  BY DEF IsJoined
<1> HIDE DEF m, n
<1>4. /\ f \in 0..Len(t) /\ Len(t) \in Nat
      /\ f = 0 <=> \A i \in 1..Len(t) : t[i] \notin tokens
      /\ f # 0 => t[f] \in tokens
      /\ \A i \in 1..(f - 1) : t[i] \notin tokens
  BY <1>3, FindFirst
<1> HIDE DEF f
<1>5. f = m + 1
  <2>1. \A i \in 1..m : t[i] \notin tokens
    BY <1>3 DEF Without, m
  <2>2. m + 1 \in 1..Len(t) /\ t[m + 1] \in tokens
    <3>1. m + 1 \in 1..(m + 1 + n)
      BY <1>1
    <3> QED
      BY <1>3, <3>1
  <2>3. f # 0
    BY <1>4, <2>2
  <2>4. ~(f <= m)
    BY <1>1, <1>4, <2>1, <2>3
  <2>5. ~(m + 1 <= f - 1)
    BY <1>1, <1>4, <2>2
  <2> QED
    BY <1>1, <1>4, <2>4, <2>5
<1>6. UpTo(t, tokens) = u
  <2> DEFINE x == UpTo(t, tokens)
  <2>1. /\ x \in Seq(STRING) /\ (f # 0 => Len(x) = f - 1)
        /\ \A i \in 1..Len(x) : x[i] = t[i]
    BY <1>3, UpToParts DEF f
  <2> HIDE DEF x
  <2>2. Len(x) = Len(u) /\ \A i \in 1..Len(u) : x[i] = u[i]
    BY <1>1, <1>3, <1>5, <2>1 DEF m
  <2>3. x = u
    BY <1>1, <2>1, <2>2, SeqEqual
  <2> QED
    BY <2>3 DEF x
<1>7. Past(t, tokens) = v
  <2> DEFINE x == Past(t, tokens)
  <2>1. /\ x \in Seq(STRING)
        /\ f # 0 => Len(x) = Len(t) - f /\ \A i \in 1..Len(x) : x[i] = t[f + i]
    BY <1>3, PastParts DEF f
  <2> HIDE DEF x
  <2>2. Len(x) = Len(v) /\ \A i \in 1..Len(v) : x[i] = v[i]
    BY <1>1, <1>3, <1>5, <2>1 DEF n
  <2>3. x = v
    BY <1>1, <2>1, <2>2, SeqEqual
  <2> QED
    BY <2>3 DEF x
<1> QED
  BY <1>5, <1>6, <1>7 DEF f, m

\* Two texts with none of these tokens, and a token which is none of them.
LEMMA JoinedWithout ==
    ASSUME NEW t, NEW u, NEW c, NEW v, IsJoined(t, u, c, v),
           NEW tokens, Without(u, tokens), Without(v, tokens), c \notin tokens
    PROVE  Without(t, tokens)
<1> DEFINE m == Len(u)
           n == Len(v)
<1>1. /\ m \in Nat /\ n \in Nat
      /\ u \in Seq(STRING) /\ v \in Seq(STRING)
  BY LenProperties DEF IsJoined
<1>2. /\ t \in Seq(STRING) /\ Len(t) = m + 1 + n
      /\ \A i \in 1..m : t[i] = u[i]
      /\ t[m + 1] = c
      /\ \A i \in 1..n : t[(m + 1) + i] = v[i]
  BY DEF IsJoined
<1>3. (\A i \in 1..m : u[i] \notin tokens) /\ (\A i \in 1..n : v[i] \notin tokens)
  BY DEF Without
<1> HIDE DEF m, n
<1>4. ASSUME NEW i \in 1..Len(t)
      PROVE  t[i] \notin tokens
  <2>1. CASE i \in 1..m
    BY <1>2, <1>3, <2>1
  <2>2. CASE i = m + 1
    BY <1>2, <2>2
  <2>3. CASE i > m + 1
    <3>1. i - (m + 1) \in 1..n /\ (m + 1) + (i - (m + 1)) = i
      BY <1>1, <1>2, <2>3
    <3>2. t[(m + 1) + (i - (m + 1))] = v[i - (m + 1)]
      BY <1>2, <3>1
    <3> QED
      BY <1>3, <3>1, <3>2
  <2> QED
    BY <1>1, <1>2, <2>1, <2>2, <2>3
<1> QED
  BY <1>4 DEF Without

-----------------------------------------------------------------------------
(* What the reader reads                                                   *)

\* How the reader is configured.
LEMMA ReaderIs ==
    /\ Reader \in Parsers
    /\ Reader.allow = {"ADDRESS_LOOKUP", "PORT", "MASK", "ADDRESS_MASK"}
    /\ Reader.protocol = "TCP" /\ Reader.mask4 = <<>> /\ Reader.mask6 = <<>>
    /\ PortAllowed(Reader) /\ Separators(Reader) = {}
<1> DEFINE p == NewParser
           flags == {"MASK", "ADDRESS_MASK"}
           q == [p EXCEPT !.allow = @ \cup flags]
<1>1. /\ p \in Parsers /\ p.allow = {"ADDRESS_LOOKUP", "PORT"}
      /\ p.mask4 = <<>> /\ p.mask6 = <<>>
  BY NewParserType DEF Validators, NewParser
<1>2. Reader = [q EXCEPT !.protocol = "TCP"]
  BY DEF Reader, SetProtocol, Allow
<1>3. flags \subseteq AllowFlags /\ "TCP" \in Protocols
  BY DEF AllowFlags, Protocols
<1> HIDE DEF p, AllowFlags, Protocols
<1>4. q \in Parsers /\ q.allow = p.allow \cup flags /\ q.mask4 = <<>> /\ q.mask6 = <<>>
  <2>1. p.allow \cup flags \in SUBSET AllowFlags
    BY <1>1, <1>3 DEF Parsers
  <2> QED
    BY <1>1, <2>1 DEF Parsers
<1> HIDE DEF q
<1>5. /\ Reader \in Parsers /\ Reader.allow = p.allow \cup flags /\ Reader.protocol = "TCP"
      /\ Reader.mask4 = <<>> /\ Reader.mask6 = <<>>
  BY <1>2, <1>3, <1>4 DEF Parsers
<1>6. Reader.allow = {"ADDRESS_LOOKUP", "PORT", "MASK", "ADDRESS_MASK"}
  BY <1>1, <1>5
<1>7. PortAllowed(Reader) /\ Separators(Reader) = {}
  BY <1>6 DEF PortAllowed, Separators
<1> QED
  BY <1>5, <1>6, <1>7

\* A result which is one address, with this mask and, when it has one, this
\* port.
OneAddress(x, ip, port, mask) ==
    /\ x \in Results(AddressRanges) /\ x.errors = 0 /\ ~x.threw /\ Len(x.ranges) = 1
    /\ x.ranges[1].hasFrom /\ ~x.ranges[1].hasTo
    /\ x.ranges[1].from.ip = ip
    /\ port # Unset => x.ranges[1].from.port = port
    /\ x.ranges[1].from.mask = mask

\* The text of a port as it is printed, if it is.
PortWords == {<<>>} \cup {<<w>> : w \in {v \in DOMAIN Number : Number[v] <= MaxPort}}

WrittenPort(portText) == IF portText = <<>> THEN Unset ELSE NumberOf(portText)

\* A number is one word with no punctuation.
LEMMA NumberIsWord ==
    ASSUME NEW w \in DOMAIN Number
    PROVE  /\ w \in STRING /\ <<w>> \in Seq(STRING) /\ Len(<<w>>) = 1 /\ <<w>>[1] = w
           /\ <<w>> # <<>> /\ IsNumber(<<w>>) /\ NumberOf(<<w>>) = Number[w]
           /\ Without(<<w>>, Punctuation) /\ Number[w] \in Nat
<1>1. w \in STRING /\ w \notin Punctuation /\ Number[w] \in Nat
  BY AddrParserAssumption DEF AddrParserAssumption
<1>2. <<w>> \in Seq(STRING) /\ Len(<<w>>) = 1 /\ <<w>>[1] = w /\ <<w>> # <<>>
  BY <1>1, SingletonList
<1>3. IsNumber(<<w>>) /\ NumberOf(<<w>>) = Number[w]
  BY <1>2 DEF IsNumber, NumberOf
<1>4. Without(<<w>>, Punctuation)
  BY <1>1, <1>2 DEF Without
<1> QED
  BY <1>1, <1>2, <1>3, <1>4

\* The reader looks an IP and its port up.
LEMMA AddressIsRead ==
    ASSUME NEW names \in Resolvers, NEW t \in DOMAIN Literal, NEW portText \in PortWords,
           NEW ipv6
    PROVE  OneAddress(ParseAddressRangePort(Reader, names, t, portText, ipv6),
                      Literal[t], WrittenPort(portText), PrefixMask(Bits))
<1> DEFINE p == Reader
           given == portText # <<>>
           x == ByLookup(p, names, t, PortOf(p, portText), given)
           ip == Literal[t]
<1>1. /\ p \in Parsers /\ p.allow = {"ADDRESS_LOOKUP", "PORT", "MASK", "ADDRESS_MASK"}
      /\ p.protocol = "TCP" /\ PortAllowed(p)
  BY ReaderIs
<1> HIDE DEF p
<1>2. /\ given => IsNumber(portText) /\ NumberOf(portText) \in 0..MaxPort
      /\ ~given => portText = <<>>
  <2>1. CASE portText = <<>>
    BY <2>1
  <2>2. CASE portText # <<>>
    <3>1. PICK w \in DOMAIN Number : portText = <<w>> /\ Number[w] <= MaxPort
      BY <2>2 DEF PortWords
    <3>2. IsNumber(<<w>>) /\ NumberOf(<<w>>) = Number[w] /\ Number[w] \in Nat
      BY NumberIsWord
    <3>3. MaxPort \in Nat
      BY AddrParserAssumption DEF AddrParserAssumption
    <3> QED
      BY <2>2, <3>1, <3>2, <3>3
  <2> QED
    BY <2>1, <2>2
<1>3. PortExpected(p, portText)
  BY <1>1, <1>2 DEF PortExpected
<1>4. t # <<>>
  BY LiteralIsWord
<1>5. ParseAddressRangePort(p, names, t, portText, ipv6) = x
  <2>1. AddressOrDefault(p, t, ipv6) = t
    BY <1>4 DEF AddressOrDefault
  <2>2. /\ "REQUIRED_PORT" \notin p.allow /\ "REQUIRED_ADDRESS" \notin p.allow
        /\ "ADDRESS_LOOKUP" \in p.allow /\ "ADDRESS_RANGE" \notin p.allow
    BY <1>1
  <2>3. ParseAddressPort(p, names, t, portText, ipv6) = x
    BY <1>2, <1>4, <2>1, <2>2 DEF ParseAddressPort, PortOf
  <2> QED
    BY <2>2, <2>3 DEF ParseAddressRangePort
<1>6. ForEachKind(p, ip, x)
  BY <1>1, <1>3, ByLookupOfLiteral
<1>7. x \in AddressResults(p, names, portText)
  BY <1>1, <1>3, ByLookupResult
<1> HIDE DEF x, ip
<1>8. /\ x \in Results(AddressRanges) /\ x.errors = 0 /\ ~x.threw /\ Len(x.ranges) = 1
      /\ x.ranges[1].hasFrom /\ x.ranges[1].from.ip = ip
  <2>1. SocketProtocols(p.protocol) = <<"TCP">>
    BY <1>1 DEF SocketProtocols
  <2>2. Len(<<"TCP">>) = 1 /\ 1 \in 1..1
    OBVIOUS
  <2> QED
    BY <1>6, <2>1, <2>2 DEF ForEachKind
<1>9. x.ranges[1] \in Singles(p, portText)
  <2>1. x.ranges \in Seq(Singles(p, portText))
    BY <1>7 DEF AddressResults, Results
  <2>2. 1 \in 1..Len(x.ranges)
    BY <1>8
  <2> QED
    BY <2>1, <2>2, ElementOfSeq
<1>10. /\ ~x.ranges[1].hasTo /\ x.ranges[1].from.mask = PrefixMask(Bits)
       /\ x.ranges[1].from.port = LookupPort(PortOf(p, portText))
  BY <1>9 DEF Singles
<1>11. given => LookupPort(PortOf(p, portText)) = NumberOf(portText)
  <2>1. given => PortOf(p, portText) = NumberOf(portText)
    BY DEF PortOf
  <2>2. given => NumberOf(portText) \in 0..MaxPort /\ NumberOf(portText) # Unset
    BY <1>2 DEF Unset
  <2>3. PortOf(p, portText) <= MaxPort =>
            LookupPort(PortOf(p, portText)) =
                IF PortOf(p, portText) = Unset THEN 0 ELSE PortOf(p, portText)
    BY <1>1, <1>2, PortType
  <2> QED
    BY <2>1, <2>2, <2>3
<1>12. WrittenPort(portText) # Unset => given /\ WrittenPort(portText) = NumberOf(portText)
  BY DEF WrittenPort
<1> QED
  BY <1>5, <1>8, <1>10, <1>11, <1>12 DEF OneAddress, p, ip

\* The text of the port after that of the address.
PortPart(portText) == IF portText = <<>> THEN <<>> ELSE <<":">> \o portText

\* Whether the reader reads t as this address, of the syntax of an IPv6 or not.
IsReadWhole(t, ipv6, ip, port) ==
    /\ t \in Seq(STRING) /\ Without(t, Blanks \cup {"/"})
    /\ \A names \in Resolvers : \A mask :
        /\ OneAddress(ParseAddress(Reader, names, t, mask), ip, port, PrefixMask(Bits))
        /\ UsesSyntax6(Reader, t, mask) <=> ipv6

\* A port is one word, if it is there.
LEMMA PortIsWord ==
    ASSUME NEW portText \in PortWords, portText # <<>>
    PROVE  /\ portText \in Seq(STRING) /\ Len(portText) = 1
           /\ portText[1] \notin V6Words /\ Without(portText, Punctuation)
<1>1. PICK w \in DOMAIN Number : portText = <<w>>
  BY DEF PortWords
<1>2. w \notin V6Words
  BY AddrTextAssumption DEF AddrTextAssumption
<1> QED
  BY <1>1, <1>2, NumberIsWord

\* The punctuation are tokens, and no words of an IPv6.
LEMMA TokensAre ==
    /\ ":" \in STRING /\ "/" \in STRING /\ "[" \in STRING /\ "]" \in STRING
    /\ Punctuation \cap V6Words = {}
    /\ Blanks \cup {"/"} \subseteq Punctuation /\ {":"} \subseteq Punctuation
    /\ {"["} \subseteq Punctuation /\ {"]"} \subseteq Punctuation
<1>1. Punctuation \subseteq STRING /\ Punctuation \cap V6Words = {}
  BY AddrParserAssumption, AddrTextAssumption DEF AddrParserAssumption, AddrTextAssumption
<1>2. ":" \in Punctuation /\ "/" \in Punctuation /\ "[" \in Punctuation /\ "]" \in Punctuation
  BY DEF Punctuation
<1>3. Blanks \subseteq Punctuation
  BY DEF Punctuation, Blanks
<1> HIDE DEF Punctuation
<1> QED
  BY <1>1, <1>2, <1>3

\* Fewer tokens are missing as well.
LEMMA WithoutSome ==
    ASSUME NEW t, NEW others, NEW tokens \in SUBSET others, Without(t, others)
    PROVE  Without(t, tokens)
BY DEF Without

\* A text without a word of an IPv6 and with one ':' at most.
LEMMA FewColons ==
    ASSUME NEW t \in Seq(STRING), Without(t, V6Words), NEW k,
           \A i \in 1..Len(t) : t[i] = ":" => i = k
    PROVE  ~(ColonCount(t) >= 2)
<1> DEFINE colons == {i \in DOMAIN t : t[i] = ":"}
<1>1. DOMAIN t = 1..Len(t)
  BY LenProperties
<1>2. ~\E i \in DOMAIN t : t[i] \in V6Words
  BY <1>1 DEF Without
<1>3. colons = {} \/ colons = {k}
  BY <1>1
<1>4. ColonCount(t) = Cardinality(colons)
  BY <1>2 DEF ColonCount
<1> HIDE DEF colons
<1>5. Cardinality(colons) = 0 \/ Cardinality(colons) = 1
  BY <1>3, FS_EmptySet, FS_Singleton
<1> QED
  BY <1>4, <1>5

\* An IPv4 and its port, as they are printed.
LEMMA Ipv4IsRead ==
    ASSUME NEW t \in DOMAIN Literal, t[1] \notin V6Words, NEW portText \in PortWords
    PROVE  IsReadWhole(t \o PortPart(portText), FALSE, Literal[t], WrittenPort(portText))
<1> DEFINE p == Reader
           u == t \o PortPart(portText)
<1>1. /\ t \in Seq(STRING) /\ Len(t) = 1 /\ DOMAIN t = {1} /\ t # <<>>
      /\ t[1] \notin Punctuation /\ Without(t, Punctuation)
  BY LiteralIsWord
<1>2. PortAllowed(p)
  BY ReaderIs
<1>3. /\ u \in Seq(STRING) /\ Without(u, Blanks \cup {"/"}) /\ Without(u, {"]"})
      /\ u # <<>> /\ u[1] = t[1]
      /\ Without(u, V6Words) /\ (\A i \in 1..Len(u) : u[i] = ":" => i = 2)
      /\ UpTo(u, {":"}) = t /\ Past(u, {":"}) = portText
  <2>1. Without(t, V6Words) /\ Without(t, Blanks \cup {"/"}) /\ Without(t, {"]"}) /\ Without(t, {":"})
    <3>1. Without(t, V6Words)
      BY <1>1 DEF Without
    <3> QED
      BY <1>1, <3>1, TokensAre, WithoutSome
  <2>2. CASE portText = <<>>
    <3>1. u = t
      <4> DEFINE none == PortPart(portText)
      <4>1. none = <<>>
        BY <2>2 DEF PortPart
      <4> HIDE DEF none
      <4>2. t \o none = t
        BY <1>1, <4>1, ConcatEmptySeq
      <4> QED
        BY <4>2 DEF none
    <3> HIDE DEF u
    <3>2. UpTo(t, {":"}) = t /\ Past(t, {":"}) = <<>>
      BY <1>1, <2>1, NothingPast
    <3>3. \A i \in 1..Len(t) : t[i] # ":"
      BY <2>1 DEF Without
    <3> QED
      BY <1>1, <2>1, <2>2, <3>1, <3>2, <3>3
  <2>3. CASE portText # <<>>
    <3>1. /\ portText \in Seq(STRING) /\ Len(portText) = 1
          /\ portText[1] \notin V6Words /\ Without(portText, Punctuation)
      BY <2>3, PortIsWord
    <3>2. /\ Without(portText, V6Words) /\ Without(portText, Blanks \cup {"/"})
          /\ Without(portText, {"]"}) /\ Without(portText, {":"})
      <4>1. Without(portText, V6Words)
        BY <3>1 DEF Without
      <4> QED
        BY <3>1, <4>1, TokensAre, WithoutSome
    <3>3. u = t \o (<<":">> \o portText)
      BY <2>3 DEF PortPart
    <3> HIDE DEF u
    <3>4. ":" \in STRING /\ ":" \notin V6Words /\ ":" \notin Blanks \cup {"/"} /\ ":" \notin {"]"}
      <4>1. ":" \in Punctuation
        BY DEF Punctuation
      <4> QED
        BY <4>1, TokensAre DEF Blanks
    <3>11. IsJoined(u, t, ":", portText)
      BY <1>1, <3>1, <3>3, <3>4, Joined
    <3>5. /\ u \in Seq(STRING) /\ Len(u) = Len(t) + 1 + Len(portText)
          /\ \A i \in 1..Len(t) : u[i] = t[i]
          /\ u[Len(t) + 1] = ":"
          /\ \A i \in 1..Len(portText) : u[(Len(t) + 1) + i] = portText[i]
      BY <3>11 DEF IsJoined
    <3>6. /\ u \in Seq(STRING) /\ Len(u) = 3
          /\ u[1] = t[1] /\ u[2] = ":" /\ u[3] = portText[1]
      BY <1>1, <3>1, <3>5
    <3>7. Without(u, V6Words) /\ Without(u, Blanks \cup {"/"}) /\ Without(u, {"]"})
      BY <2>1, <3>2, <3>4, <3>11, JoinedWithout
    <3>8. UpTo(u, {":"}) = t /\ Past(u, {":"}) = portText
      BY <2>1, <3>11, CutAt
    <3>9. t[1] # ":" /\ portText[1] # ":"
      BY <1>1, <2>1, <3>1, <3>2 DEF Without
    <3>10. u # <<>> /\ \A i \in 1..Len(u) : u[i] = ":" => i = 2
      <4>1. \A i \in 1..Len(u) : i = 1 \/ i = 2 \/ i = 3
        BY <3>6
      <4>2. u # <<>>
        BY <3>6, EmptySeq
      <4> QED
        BY <3>6, <3>9, <4>1, <4>2
    <3> QED
      BY <3>6, <3>7, <3>8, <3>10
  <2> QED
    BY <2>2, <2>3
<1> HIDE DEF u, p
<1>4. ASSUME NEW mask
      PROVE  ~UsesSyntax6(p, u, mask)
  <2>1. ~(ColonCount(u) >= 2)
    BY <1>3, FewColons
  <2>2. u[1] # ":" /\ u[1] # "["
    BY <1>1, <1>3 DEF Punctuation
  <2>3. ~Has(u, "]")
    BY <1>3, LenProperties DEF Has, ToSet, Without
  <2> QED
    BY <1>2, <1>3, <2>1, <2>2, <2>3 DEF UsesSyntax6
<1>5. ASSUME NEW names \in Resolvers, NEW mask
      PROVE  OneAddress(ParseAddress(p, names, u, mask), Literal[t], WrittenPort(portText),
                        PrefixMask(Bits))
  <2>1. ParseAddress(p, names, u, mask)
            = ParseAddressRangePort(p, names, t, portText, FALSE)
    BY <1>2, <1>3, <1>4 DEF ParseAddress, ParseAddress4
  <2> QED
    BY <2>1, AddressIsRead DEF p
<1> QED
  BY <1>3, <1>4, <1>5 DEF IsReadWhole, p, u

\* A text which starts with this token.
LEMMA CutAtStart ==
    ASSUME NEW t, NEW u, NEW c, NEW v, IsJoined(t, u, c, v), Len(u) = 0
    PROVE  Past(t, {c}) = v /\ After(t, 1) = v
<1> DEFINE tokens == {c}
<1>1. Without(u, tokens) /\ c \in tokens
  BY DEF Without
<1> HIDE DEF tokens
<1>2. Find(t, tokens) = Len(u) + 1
  BY <1>1, CutAt
<1>3. Past(t, tokens) = v
  BY <1>1, CutAt
<1>4. After(t, 1) = v
  <2>1. Len(u) + 1 = 1
    OBVIOUS
  <2> QED
    BY <1>2, <1>3, <2>1 DEF Past
<1> QED
  BY <1>3, <1>4 DEF tokens

\* A token before a text is found at once.
LEMMA AfterFirst ==
    ASSUME NEW x \in Seq(STRING), NEW c \in STRING
    PROVE  LET t == <<c>> \o x
           IN  /\ t \in Seq(STRING) /\ Len(t) = 1 + Len(x) /\ t[1] = c
               /\ \A i \in 1..Len(x) : t[1 + i] = x[i]
               /\ After(t, 1) = x /\ Past(t, {c}) = x
               /\ \A tokens : Without(x, tokens) /\ c \notin tokens => Without(t, tokens)
<1> DEFINE none == <<>>
           t == <<c>> \o x
<1>1. none \in Seq(STRING) /\ Len(none) = 0
  <2>1. Len(<<>>) = 0
    OBVIOUS
  <2> QED
    BY <2>1
<1>2. t \in Seq(STRING) /\ none \o t = t
  <2> DEFINE one == <<c>>
  <2>1. one \in Seq(STRING)
    BY SingletonList
  <2> HIDE DEF one
  <2>2. one \o x \in Seq(STRING)
    BY <2>1, ConcatProperties
  <2> DEFINE w == one \o x
  <2>3. w \in Seq(STRING)
    BY <2>2
  <2> HIDE DEF w
  <2>4. <<>> \o w = w
    BY <2>3, ConcatEmptySeq
  <2> QED
    BY <2>3, <2>4 DEF w, one
<1>3. \A tokens : Without(none, tokens)
  BY <1>1 DEF Without
<1> HIDE DEF none
<1>4. t = none \o (<<c>> \o x)
  BY <1>2
<1> HIDE DEF t
<1>11. IsJoined(t, none, c, x)
  BY <1>1, <1>4, Joined
<1>5. /\ Len(t) = Len(none) + 1 + Len(x) /\ t[Len(none) + 1] = c
      /\ \A i \in 1..Len(x) : t[(Len(none) + 1) + i] = x[i]
  BY <1>11 DEF IsJoined
<1>6. Past(t, {c}) = x /\ After(t, 1) = x
  BY <1>1, <1>11, CutAtStart
<1>7. ASSUME NEW tokens, Without(x, tokens), c \notin tokens
      PROVE  Without(t, tokens)
  BY <1>3, <1>7, <1>11, JoinedWithout
<1>8. Len(x) \in Nat /\ Len(none) + 1 = 1
  BY <1>1, LenProperties
<1>10. /\ Len(t) = 1 + Len(x) /\ t[1] = c
       /\ \A i \in 1..Len(x) : t[1 + i] = x[i]
  BY <1>5, <1>8
<1> QED
  BY <1>2, <1>6, <1>7, <1>10 DEF t

\* A text in brackets.
InSquares(t) == <<"[">> \o t \o <<"]">>

\* What is read of a word in brackets, and of what follows them.
LEMMA SquaresAreRead ==
    ASSUME NEW t \in Seq(STRING), Len(t) = 1, Without(t, Punctuation),
           NEW rest \in Seq(STRING)
    PROVE  LET u == InSquares(t) \o rest
           IN  /\ u \in Seq(STRING) /\ Len(u) = 3 + Len(rest)
               /\ u[1] = "[" /\ u[2] = t[1] /\ u[3] = "]"
               /\ After(UpTo(u, {"]"}), 1) = t
               /\ Past(u, {"]"}) = rest
               /\ \A tokens : /\ Without(t, tokens) /\ Without(rest, tokens)
                              /\ "[" \notin tokens /\ "]" \notin tokens
                              => Without(u, tokens)
<1> DEFINE o == <<"[">> \o t
           c == <<"]">>
           u == o \o (c \o rest)
<1>1. /\ "[" \in STRING /\ "]" \in STRING /\ {"]"} \in SUBSET Punctuation
  BY TokensAre
<1>2. /\ o \in Seq(STRING) /\ Len(o) = 1 + Len(t) /\ o[1] = "["
      /\ \A i \in 1..Len(t) : o[1 + i] = t[i]
      /\ After(o, 1) = t
      /\ \A tokens : Without(t, tokens) /\ "[" \notin tokens => Without(o, tokens)
  BY <1>1, AfterFirst
<1>3. InSquares(t) \o rest = u
  <2>1. InSquares(t) = o \o c
    BY DEF InSquares
  <2>2. c \in Seq(STRING)
    BY <1>1, SingletonList
  <2> HIDE DEF o, c
  <2>3. (o \o c) \o rest = o \o (c \o rest)
    <3>1. o \in Seq(STRING) /\ c \in Seq(STRING) /\ rest \in Seq(STRING)
      BY <1>2, <2>2
    <3> HIDE DEF u
    <3> QED
      BY <3>1, ConcatAssociative
  <2> QED
    BY <2>1, <2>3
<1> HIDE DEF o
<1>4. Len(o) = 2 /\ o[2] = t[1]
  <2>1. 1 \in 1..Len(t) /\ 1 + 1 = 2
    OBVIOUS
  <2> QED
    BY <1>2, <2>1
<1>5. Without(o, {"]"})
  <2>1. Without(t, {"]"})
    BY <1>1, WithoutSome
  <2>2. "[" \notin {"]"}
    OBVIOUS
  <2> QED
    BY <1>2, <2>1, <2>2
<1>15. IsJoined(u, o, "]", rest)
  BY <1>1, <1>2, Joined
<1>6. /\ u \in Seq(STRING) /\ Len(u) = Len(o) + 1 + Len(rest)
      /\ \A i \in 1..Len(o) : u[i] = o[i]
      /\ u[Len(o) + 1] = "]"
  <2> HIDE DEF u
  <2> QED
    BY <1>15 DEF IsJoined
<1>7. UpTo(u, {"]"}) = o /\ Past(u, {"]"}) = rest
  <2> HIDE DEF u
  <2> QED
    BY <1>5, <1>15, CutAt
<1>8. ASSUME NEW tokens, Without(t, tokens), Without(rest, tokens),
             "[" \notin tokens, "]" \notin tokens
      PROVE  Without(u, tokens)
  <2>1. Without(o, tokens)
    BY <1>2, <1>8
  <2> QED
    BY <1>8, <1>15, <2>1, JoinedWithout
<1> HIDE DEF u, c
<1>9. /\ Len(u) = 3 + Len(rest) /\ u[1] = "[" /\ u[2] = t[1] /\ u[3] = "]"
  <2>1. Len(rest) \in Nat /\ 1 \in 1..2 /\ 2 \in 1..2 /\ 2 + 1 = 3
    BY LenProperties
  <2> QED
    BY <1>2, <1>4, <1>6, <2>1
<1>10. After(UpTo(u, {"]"}), 1) = t
  BY <1>2, <1>7
<1>11. /\ u \in Seq(STRING) /\ Len(u) = 3 + Len(rest)
       /\ u[1] = "[" /\ u[2] = t[1] /\ u[3] = "]"
       /\ After(UpTo(u, {"]"}), 1) = t
       /\ Past(u, {"]"}) = rest
  BY <1>6, <1>7, <1>9, <1>10
<1> DEFINE y == InSquares(t) \o rest
<1>12. y = u
  BY <1>3
<1> HIDE DEF y
<1>13. /\ y \in Seq(STRING) /\ Len(y) = 3 + Len(rest)
       /\ y[1] = "[" /\ y[2] = t[1] /\ y[3] = "]"
       /\ After(UpTo(y, {"]"}), 1) = t
       /\ Past(y, {"]"}) = rest
  BY <1>11, <1>12
<1>14. \A tokens : /\ Without(t, tokens) /\ Without(rest, tokens)
                   /\ "[" \notin tokens /\ "]" \notin tokens
                   => Without(y, tokens)
  BY <1>8, <1>12
<1> QED
  BY <1>13, <1>14 DEF y

\* What comes after an address and is not its text.
LEMMA PortPartIs ==
    ASSUME NEW portText \in PortWords
    PROVE  LET rest == PortPart(portText)
           IN  /\ rest \in Seq(STRING) /\ Without(rest, Blanks \cup {"/"})
               /\ rest # <<>> => rest[1] = ":"
               /\ Past(rest, {":"}) = portText
<1> DEFINE rest == PortPart(portText)
<1>1. CASE portText = <<>>
  <2> DEFINE none == <<>>
  <2>1. none \in Seq(STRING) /\ Len(none) = 0
    <3>1. Len(<<>>) = 0
      OBVIOUS
    <3> QED
      BY <3>1
  <2>2. rest = none /\ portText = none
    BY <1>1 DEF PortPart
  <2> HIDE DEF none, rest
  <2>3. \A tokens : Without(none, tokens)
    BY <2>1 DEF Without
  <2>4. Past(none, {":"}) = <<>>
    BY <2>1, <2>3, NothingPast
  <2> QED
    BY <1>1, <2>1, <2>2, <2>3, <2>4 DEF rest
<1>2. CASE portText # <<>>
  <2>1. portText \in Seq(STRING) /\ Without(portText, Punctuation)
    BY <1>2, PortIsWord
  <2>2. Without(portText, Blanks \cup {"/"})
    BY <2>1, TokensAre, WithoutSome
  <2>3. ":" \in STRING /\ ":" \notin Blanks \cup {"/"}
    BY TokensAre DEF Blanks
  <2>4. rest = <<":">> \o portText
    BY <1>2 DEF PortPart
  <2> HIDE DEF rest
  <2>5. /\ rest \in Seq(STRING) /\ rest[1] = ":" /\ Past(rest, {":"}) = portText
        /\ Without(rest, Blanks \cup {"/"})
    BY <2>1, <2>2, <2>3, <2>4, AfterFirst
  <2> QED
    BY <2>5 DEF rest
<1> QED
  BY <1>1, <1>2

\* An IPv6 in brackets and its port, as they are printed,
LEMMA Ipv6IsRead ==
    ASSUME NEW t \in DOMAIN Literal, t[1] \in V6Words, NEW portText \in PortWords
    PROVE  IsReadWhole(InSquares(t) \o PortPart(portText), TRUE, Literal[t],
                       WrittenPort(portText))
<1> DEFINE p == Reader
           rest == PortPart(portText)
           u == InSquares(t) \o rest
<1>1. t \in Seq(STRING) /\ Len(t) = 1 /\ Without(t, Punctuation)
  BY LiteralIsWord
<1>2. PortAllowed(p)
  BY ReaderIs
<1>3. /\ rest \in Seq(STRING) /\ Without(rest, Blanks \cup {"/"})
      /\ rest # <<>> => rest[1] = ":"
      /\ Past(rest, {":"}) = portText
  BY PortPartIs
<1> HIDE DEF rest, p
<1>4. /\ u \in Seq(STRING) /\ Len(u) = 3 + Len(rest)
      /\ u[1] = "[" /\ u[2] = t[1] /\ u[3] = "]"
      /\ After(UpTo(u, {"]"}), 1) = t
      /\ Past(u, {"]"}) = rest
      /\ \A tokens : /\ Without(t, tokens) /\ Without(rest, tokens)
                     /\ "[" \notin tokens /\ "]" \notin tokens
                     => Without(u, tokens)
  BY <1>1, <1>3, SquaresAreRead
<1> HIDE DEF u
<1>5. Without(u, Blanks \cup {"/"})
  <2>1. Without(t, Blanks \cup {"/"})
    BY <1>1, TokensAre, WithoutSome
  <2>2. "[" \notin Blanks \cup {"/"} /\ "]" \notin Blanks \cup {"/"}
    BY DEF Blanks
  <2> QED
    BY <1>3, <1>4, <2>1, <2>2
<1>6. DOMAIN u = 1..Len(u) /\ 2 \in 1..Len(u) /\ 3 \in 1..Len(u) /\ u # <<>>
  <2>1. Len(rest) \in Nat /\ DOMAIN u = 1..Len(u)
    BY <1>3, <1>4, LenProperties
  <2>2. Len(u) # 0
    BY <1>4, <2>1
  <2> QED
    BY <1>4, <2>1, <2>2, EmptySeq
<1>7. ColonCount(u) = 2
  BY <1>4, <1>6 DEF ColonCount
<1>8. Has(u, "]")
  BY <1>4, <1>6 DEF Has, ToSet
<1>9. Address6(u) = t /\ Port6(u) = portText
  BY <1>3, <1>4, <1>6 DEF Address6, Port6
<1>10. ASSUME NEW mask
       PROVE  UsesSyntax6(p, u, mask)
  <2>1. 2 >= 2
    OBVIOUS
  <2> QED
    BY <1>7, <2>1 DEF UsesSyntax6
<1>11. ASSUME NEW names \in Resolvers, NEW mask
       PROVE  OneAddress(ParseAddress(p, names, u, mask), Literal[t], WrittenPort(portText),
                         PrefixMask(Bits))
  <2>1. ParseAddress6(p, names, u) = ParseAddressRangePort(p, names, t, portText, TRUE)
    BY <1>2, <1>3, <1>4, <1>8, <1>9 DEF ParseAddress6
  <2>2. ParseAddress(p, names, u, mask) = ParseAddressRangePort(p, names, t, portText, TRUE)
    BY <1>10, <2>1 DEF ParseAddress
  <2> QED
    BY <2>2, AddressIsRead DEF p
<1> QED
  BY <1>4, <1>5, <1>10, <1>11 DEF IsReadWhole, p, u, rest

\* or alone.
LEMMA BareIpv6IsRead ==
    ASSUME NEW t \in DOMAIN Literal, t[1] \in V6Words
    PROVE  IsReadWhole(t, TRUE, Literal[t], Unset)
<1> DEFINE p == Reader
           none == <<>>
<1>1. t \in Seq(STRING) /\ Len(t) = 1 /\ DOMAIN t = {1} /\ t # <<>> /\ Without(t, Punctuation)
  BY LiteralIsWord
<1>2. Without(t, Blanks \cup {"/"}) /\ t[1] # "["
  <2>1. Without(t, Blanks \cup {"/"})
    BY <1>1, TokensAre, WithoutSome
  <2>2. "[" \in Punctuation
    BY DEF Punctuation
  <2> QED
    BY <1>1, <2>1, <2>2 DEF Without
<1>3. ColonCount(t) = 2
  BY <1>1 DEF ColonCount
<1>4. Address6(t) = t /\ Port6(t) = <<>>
  BY <1>2, <1>3 DEF Address6, Port6
<1>5. none \in PortWords /\ WrittenPort(none) = Unset
  BY DEF PortWords, WrittenPort
<1>6. none = <<>>
  OBVIOUS
<1> HIDE DEF p, none
<1>7. ASSUME NEW mask
      PROVE  UsesSyntax6(p, t, mask)
  <2>1. 2 >= 2
    OBVIOUS
  <2> QED
    BY <1>3, <2>1 DEF UsesSyntax6
<1>8. ASSUME NEW names \in Resolvers, NEW mask
      PROVE  OneAddress(ParseAddress(p, names, t, mask), Literal[t], Unset, PrefixMask(Bits))
  <2>1. ParseAddress6(p, names, t) = ParseAddressRangePort(p, names, t, none, TRUE)
    BY <1>2, <1>4, <1>6 DEF ParseAddress6
  <2>2. ParseAddress(p, names, t, mask) = ParseAddressRangePort(p, names, t, none, TRUE)
    BY <1>7, <2>1 DEF ParseAddress
  <2>3. OneAddress(ParseAddressRangePort(Reader, names, t, none, TRUE),
                   Literal[t], WrittenPort(none), PrefixMask(Bits))
    BY <1>5, AddressIsRead
  <2> QED
    BY <1>5, <2>2, <2>3 DEF p
<1> QED
  BY <1>1, <1>2, <1>7, <1>8 DEF IsReadWhole, p

-----------------------------------------------------------------------------
(* What the reader reads: masks                                            *)

\* Whether the reader reads m as this mask, of an IPv4 or not.
IsReadMask(m, ipv4, bits) ==
    /\ m \in Seq(STRING) /\ Without(m, Blanks) /\ m \notin {<<>>, <<"[", "]">>}
    /\ ~MaskRefused(Reader, m, ipv4)
    /\ MaskBits(m, ipv4) = bits

\* The size of a mask,
LEMMA SizeIsRead ==
    ASSUME NEW w \in DOMAIN Number, NEW ipv4 \in BOOLEAN,
           Number[w] <= IF ipv4 THEN V4Bits ELSE Bits
    PROVE  IsReadMask(<<w>>, ipv4, PrefixMask(Number[w] + IF ipv4 THEN Bits - V4Bits ELSE 0))
<1> DEFINE m == <<w>>
<1>1. /\ m \in Seq(STRING) /\ Len(m) = 1 /\ m # <<>> /\ IsNumber(m) /\ NumberOf(m) = Number[w]
      /\ Without(m, Punctuation) /\ Number[w] \in Nat
  BY NumberIsWord
<1>2. m # <<"[", "]">>
  <2>1. Len(<<"[", "]">>) = 2
    OBVIOUS
  <2> HIDE DEF m
  <2> QED
    BY <1>1, <2>1
<1> HIDE DEF m
<1>3. Without(m, Blanks)
  <2>1. Blanks \in SUBSET Punctuation
    BY TokensAre
  <2> QED
    BY <1>1, <2>1, WithoutSome
<1>4. ~MaskRefused(Reader, m, ipv4)
  <2>1. V4Bits \in Nat /\ Bits \in Nat
    BY AddrRangeAssumption DEF AddrRangeAssumption
  <2> QED
    BY <1>1, <2>1 DEF MaskRefused
<1>5. MaskBits(m, ipv4) = PrefixMask(Number[w] + IF ipv4 THEN Bits - V4Bits ELSE 0)
  BY <1>1 DEF MaskBits
<1> QED
  BY <1>1, <1>2, <1>3, <1>4, <1>5 DEF IsReadMask, m

\* an IPv4,
LEMMA Ipv4MaskIsRead ==
    ASSUME NEW t \in DOMAIN Literal, t[1] \notin DOMAIN Number, t[1] \notin V6Words
    PROVE  IsReadMask(t, TRUE, OnBits(Literal[t]) \cup PrefixMask(Bits - V4Bits))
<1>1. /\ t \in Seq(STRING) /\ Len(t) = 1 /\ t # <<>> /\ t[1] \notin Punctuation
      /\ Without(t, Punctuation)
  BY LiteralIsWord
<1>2. t # <<"[", "]">>
  <2>1. Len(<<"[", "]">>) = 2
    OBVIOUS
  <2> QED
    BY <1>1, <2>1
<1>3. Without(t, Blanks) /\ t[1] # "["
  <2>1. Blanks \in SUBSET Punctuation /\ "[" \in Punctuation
    BY TokensAre
  <2> QED
    BY <1>1, <2>1, WithoutSome
<1>4. ~IsNumber(t)
  BY DEF IsNumber
<1>5. "ADDRESS_MASK" \in Reader.allow
  BY ReaderIs
<1>6. ~MaskRefused(Reader, t, TRUE)
  BY <1>1, <1>3, <1>4, <1>5 DEF MaskRefused
<1>7. MaskBits(t, TRUE) = OnBits(Literal[t]) \cup PrefixMask(Bits - V4Bits)
  BY <1>4 DEF MaskBits
<1> QED
  BY <1>1, <1>2, <1>3, <1>6, <1>7 DEF IsReadMask

\* or an IPv6 in brackets.
LEMMA Ipv6MaskIsRead ==
    ASSUME NEW t \in DOMAIN Literal, t[1] \in V6Words
    PROVE  IsReadMask(InSquares(t), FALSE, OnBits(Literal[t]))
<1> DEFINE m == InSquares(t)
           none == <<>>
<1>1. t \in Seq(STRING) /\ Len(t) = 1 /\ t # <<>> /\ Without(t, Punctuation)
  BY LiteralIsWord
<1>2. none \in Seq(STRING) /\ Len(none) = 0 /\ \A tokens : Without(none, tokens)
  <2>1. Len(<<>>) = 0
    OBVIOUS
  <2>2. none \in Seq(STRING) /\ Len(none) = 0
    BY <2>1
  <2> HIDE DEF none
  <2> QED
    BY <2>2 DEF Without
<1>3. m \in Seq(STRING) /\ m \o none = m
  <2>1. m \in Seq(STRING)
    BY <1>1, InBrackets DEF InSquares
  <2> HIDE DEF m
  <2> QED
    BY <2>1, ConcatEmptySeq
<1> HIDE DEF m, none
<1>4. /\ Len(m) = 3 + 0 /\ m[1] = "[" /\ m[2] = t[1] /\ m[3] = "]"
      /\ \A tokens : /\ Without(t, tokens) /\ Without(none, tokens)
                     /\ "[" \notin tokens /\ "]" \notin tokens
                     => Without(m, tokens)
  <2> DEFINE u == InSquares(t) \o none
  <2>1. /\ Len(u) = 3 + Len(none)
        /\ u[1] = "[" /\ u[2] = t[1] /\ u[3] = "]"
        /\ \A tokens : /\ Without(t, tokens) /\ Without(none, tokens)
                       /\ "[" \notin tokens /\ "]" \notin tokens
                       => Without(u, tokens)
    BY <1>1, <1>2, SquaresAreRead
  <2>2. u = m
    BY <1>3 DEF m
  <2> HIDE DEF u
  <2> QED
    BY <1>2, <2>1, <2>2
<1>5. Without(m, Blanks)
  <2>1. Without(t, Blanks)
    <3>1. Blanks \in SUBSET Punctuation
      BY TokensAre
    <3> QED
      BY <1>1, <3>1, WithoutSome
  <2>2. "[" \notin Blanks /\ "]" \notin Blanks
    BY DEF Blanks
  <2> QED
    BY <1>2, <1>4, <2>1, <2>2
<1>6. m # <<>> /\ m # <<"[", "]">> /\ ~IsNumber(m)
  <2>1. Len(<<"[", "]">>) = 2 /\ Len(<<>>) = 0
    OBVIOUS
  <2>2. Len(m) = 3
    BY <1>4
  <2>3. ~IsNumber(m)
    BY <2>2 DEF IsNumber
  <2>4. m # <<>>
    BY <2>1, <2>2
  <2>5. m # <<"[", "]">>
    BY <2>1, <2>2
  <2> QED
    BY <2>3, <2>4, <2>5
<1>7. Unbracket(m) = t
  <2> DEFINE v == SubSeq(m, 2, 2)
  <2>1. Len(m) = 3 /\ Len(m) - 1 = 2
    BY <1>4
  <2>2. Unbracket(m) = v
    BY <2>1 DEF Unbracket
  <2>3. v \in Seq(STRING) /\ Len(v) = 1 /\ v[1] = m[2]
    <3>1. 2 \in Nat \ {0} /\ 2 \in Int /\ 2 <= Len(m)
      BY <2>1
    <3>2. /\ v \in Seq(STRING)
          /\ Len(v) = IF 2 <= 2 THEN 2 - 2 + 1 ELSE 0
          /\ \A i \in 1..(2 - 2 + 1) : v[i] = m[2 + i - 1]
      BY <1>3, <3>1, PartOfText
    <3>3. 1 \in 1..(2 - 2 + 1) /\ 2 + 1 - 1 = 2 /\ 2 - 2 + 1 = 1
      OBVIOUS
    <3> QED
      BY <3>2, <3>3
  <2> HIDE DEF v
  <2>4. Len(v) = Len(t) /\ \A i \in 1..Len(t) : v[i] = t[i]
    BY <1>1, <1>4, <2>3
  <2>5. v = t
    BY <1>1, <2>3, <2>4, SeqEqual
  <2> QED
    BY <2>2, <2>5
<1>8. Last(m) = "]"
  <2>1. Len(m) = 3
    BY <1>4
  <2> QED
    BY <1>4, <2>1 DEF Last
<1>9. "ADDRESS_MASK" \in Reader.allow
  BY ReaderIs
<1>10. ~MaskRefused(Reader, m, FALSE)
  <2>1. MaskRefused(Reader, m, FALSE) <=>
            \/ "ADDRESS_MASK" \notin Reader.allow
            \/ FALSE = (m[1] = "[")
            \/ Last(m) # "]"
            \/ t # <<>> /\ t \notin DOMAIN Literal
            \/ t # <<>> /\ (t[1] \in V6Words) = FALSE
    BY <1>6, <1>7 DEF MaskRefused
  <2>2. m[1] = "[" /\ (m[1] = "[") = TRUE
    BY <1>4
  <2>3. ~(FALSE = (m[1] = "["))
    BY <2>2
  <2>4. (t[1] \in V6Words) = TRUE
    OBVIOUS
  <2>5. ~((t[1] \in V6Words) = FALSE)
    BY <2>4
  <2>6. t \in DOMAIN Literal
    OBVIOUS
  <2> QED
    BY <2>1, <2>3, <2>5, <2>6, <1>8, <1>9
<1>11. MaskBits(m, FALSE) = OnBits(Literal[t])
  BY <1>6, <1>7 DEF MaskBits
<1> QED
  BY <1>3, <1>5, <1>6, <1>10, <1>11 DEF IsReadMask, m

\* An address is given the mask which is read.
LEMMA MaskIsGiven ==
    ASSUME NEW v \in Seq(AddressRanges), Len(v) = 1, v[1].hasFrom, ~v[1].hasTo,
           NEW ipv4 \in BOOLEAN, NEW m, NEW bits \in Masks,
           IsReadMask(m, ipv4 /\ IsIpv4(v[1].from), bits)
    PROVE  LET y == ParseMasks(Reader, m, v, ipv4)
           IN  /\ y \in Results(AddressRanges) /\ y.errors = 0 /\ Len(y.ranges) = 1
               /\ y.ranges[1].hasFrom /\ ~y.ranges[1].hasTo
               /\ y.ranges[1].from.ip = v[1].from.ip
               /\ y.ranges[1].from.port = v[1].from.port
               /\ y.ranges[1].from.mask = bits
<1> DEFINE r == v[1]
           V4 == ipv4 /\ IsIpv4(r.from)
           q == [r EXCEPT !.from.mask = bits]
           x == PushBack(q)
           results == [k \in DOMAIN v |-> ParseMask(Reader, m, v[k], ipv4 /\ IsIpv4(v[k].from))]
           y == InTurn(results)
<1>1. DOMAIN v = {1} /\ r \in AddressRanges /\ r.hasFrom /\ ~r.hasTo
  <2>1. 1 \in 1..Len(v)
    OBVIOUS
  <2>2. r \in AddressRanges
    BY <2>1, ElementOfSeq
  <2>3. DOMAIN v = {1}
    BY LenProperties
  <2> QED
    BY <2>2, <2>3
<1>2. m # <<>> /\ IsReadMask(m, V4, bits)
  BY DEF IsReadMask
<1>3. ParseMasks(Reader, m, v, ipv4) = y
  <2>1. MaskOrDefault(Reader, m, ipv4) = m
    BY <1>2 DEF MaskOrDefault
  <2> QED
    BY <2>1 DEF ParseMasks
<1> HIDE DEF r
<1>4. /\ q \in AddressRanges /\ q.hasFrom /\ ~q.hasTo
      /\ q.from.ip = r.from.ip /\ q.from.port = r.from.port /\ q.from.mask = bits
  BY <1>1 DEF AddressRanges, SocketAddrs
<1> HIDE DEF q, V4
<1>5. ParseMask(Reader, m, r, V4) = x
  BY <1>2 DEF ParseMask, IsReadMask, q
<1>6. x \in Results(AddressRanges) /\ x.ranges = <<q>> /\ x.errors = 0
  <2>1. PushBack(q) \in Results(AddressRanges)
    BY <1>4, SomeResults
  <2> QED
    BY <2>1 DEF PushBack, Nothing
<1>7. results \in Seq(Results(AddressRanges)) /\ Len(results) = 1 /\ results[1] = x
  <2>1. results = [k \in {1} |-> x]
    BY <1>1, <1>5 DEF r, V4
  <2>2. results = <<x>>
    BY <2>1
  <2> HIDE DEF results, x
  <2> QED
    BY <1>6, <2>2, SingletonList
<1> HIDE DEF results, x
<1>8. y \in Results(AddressRanges) /\ y.ranges = <<q>> /\ y.errors = 0
  BY <1>6, <1>7, InTurnOfOne
<1> HIDE DEF y
<1>9. Len(y.ranges) = 1 /\ y.ranges[1] = q
  BY <1>8
<1> QED
  BY <1>3, <1>4, <1>8, <1>9 DEF r

\* Without a mask, the address keeps its own.
LEMMA MaskIsKept ==
    ASSUME NEW v \in Seq(AddressRanges), Len(v) = 1, NEW ipv4 \in BOOLEAN
    PROVE  LET y == ParseMasks(Reader, <<>>, v, ipv4)
           IN  y \in Results(AddressRanges) /\ y.errors = 0 /\ y.ranges = <<v[1]>>
<1> DEFINE r == v[1]
           none == <<>>
           x == PushBack(r)
           results == [k \in DOMAIN v |-> ParseMask(Reader, none, v[k], ipv4 /\ IsIpv4(v[k].from))]
           y == InTurn(results)
<1>1. DOMAIN v = {1} /\ r \in AddressRanges
  <2>1. 1 \in 1..Len(v)
    OBVIOUS
  <2>2. r \in AddressRanges
    BY <2>1, ElementOfSeq
  <2>3. DOMAIN v = {1}
    BY LenProperties
  <2> QED
    BY <2>2, <2>3
<1>2. ParseMasks(Reader, none, v, ipv4) = y
  <2>1. Reader.mask4 = none /\ Reader.mask6 = none
    BY ReaderIs
  <2>2. ~HasColon(none)
    BY DEF HasColon
  <2>3. MaskOrDefault(Reader, none, ipv4) = none
    BY <2>1, <2>2 DEF MaskOrDefault
  <2> QED
    BY <2>3 DEF ParseMasks
<1>3. \A b : ParseMask(Reader, none, r, b) = x
  <2>1. \A b : ~MaskRefused(Reader, none, b)
    BY DEF MaskRefused
  <2> QED
    BY <2>1 DEF ParseMask
<1> HIDE DEF r
<1>4. x \in Results(AddressRanges) /\ x.ranges = <<r>> /\ x.errors = 0
  <2>1. PushBack(r) \in Results(AddressRanges)
    BY <1>1, SomeResults
  <2> QED
    BY <2>1 DEF PushBack, Nothing
<1>5. results \in Seq(Results(AddressRanges)) /\ Len(results) = 1 /\ results[1] = x
  <2>1. results = [k \in {1} |-> x]
    BY <1>1, <1>3 DEF r
  <2>2. results = <<x>>
    BY <2>1
  <2> HIDE DEF results, x
  <2> QED
    BY <1>4, <2>2, SingletonList
<1> HIDE DEF results, x
<1>6. y \in Results(AddressRanges) /\ y.ranges = <<r>> /\ y.errors = 0
  BY <1>4, <1>5, InTurnOfOne
<1> QED
  BY <1>2, <1>6 DEF r

\* What is written after the address, and its mask: a mask, or nothing.
IsReadTail(tail, ipv4, bits) ==
    \/ tail = <<>> /\ bits = PrefixMask(Bits)
    \/ \E m \in Seq(STRING) : tail = <<"/">> \o m /\ IsReadMask(m, ipv4, bits)

\* The text of an address is cut in the address and its mask,
LEMMA TailIsCut ==
    ASSUME NEW u \in Seq(STRING), Without(u, Blanks \cup {"/"}),
           NEW m \in Seq(STRING), Without(m, Blanks)
    PROVE  LET t == u \o (<<"/">> \o m)
           IN  Trim(t) = t /\ UpTo(t, {"/"}) = u /\ Past(t, {"/"}) = m
<1> DEFINE t == u \o (<<"/">> \o m)
<1>1. "/" \in STRING
  BY TokensAre
<1>2. IsJoined(t, u, "/", m)
  BY <1>1, Joined
<1> HIDE DEF t
<1>3. Without(u, Blanks) /\ Without(u, {"/"})
  <2>1. Blanks \in SUBSET (Blanks \cup {"/"}) /\ {"/"} \in SUBSET (Blanks \cup {"/"})
    OBVIOUS
  <2> QED
    BY <2>1, WithoutSome
<1>4. "/" \notin Blanks
  BY DEF Blanks
<1>5. Without(t, Blanks) /\ t \in Seq(STRING)
  <2>1. t \in Seq(STRING)
    BY <1>2 DEF IsJoined
  <2> QED
    BY <1>2, <1>3, <1>4, <2>1, JoinedWithout
<1>6. Trim(t) = t
  BY <1>5, NothingTrimmed
<1>7. "/" \in {"/"}
  OBVIOUS
<1>8. UpTo(t, {"/"}) = u /\ Past(t, {"/"}) = m
  BY <1>2, <1>3, <1>7, CutAt
<1> QED
  BY <1>6, <1>8 DEF t

\* both of which are read,
LEMMA EntryIsRead ==
    ASSUME NEW names \in Resolvers, NEW ip, NEW port, NEW bits \in Masks,
           NEW u, IsReadWhole(u, ip \notin FirstV4..LastV4, ip, port),
           NEW tail, IsReadTail(tail, ip \in FirstV4..LastV4, bits)
    PROVE  /\ u \o tail \in Seq(STRING)
           /\ OneAddress(ParseCidr(Reader, names, u \o tail), ip, port, bits)
<1> DEFINE t == u \o tail
           V6 == ip \notin FirstV4..LastV4
           V4 == ip \in FirstV4..LastV4
           Found(m) == ParseAddress(Reader, names, u, m)
           Given(m) == ParseMasks(Reader, m, Found(m).ranges, V4)
           Read(m) == KeepUnlessErrors(Found(m), Given(m))
<1>1. u \in Seq(STRING) /\ Without(u, Blanks \cup {"/"})
  BY DEF IsReadWhole
<1>2. \A m : /\ OneAddress(Found(m), ip, port, PrefixMask(Bits))
             /\ UsesSyntax6(Reader, u, m) <=> V6
  BY DEF IsReadWhole
<1>3. \A m : ParseCidrMask(Reader, names, u, m) = Read(m)
  <2> SUFFICES ASSUME NEW m PROVE ParseCidrMask(Reader, names, u, m) = Read(m)
    OBVIOUS
  <2>1. (~UsesSyntax6(Reader, u, m)) = V4
    BY <1>2
  <2> QED
    BY <2>1 DEF ParseCidrMask
<1>4. \A m : /\ Found(m) \in Results(AddressRanges) /\ Found(m).errors = 0 /\ ~Found(m).threw
             /\ Found(m).ranges \in Seq(AddressRanges) /\ Len(Found(m).ranges) = 1
             /\ Found(m).ranges[1].hasFrom /\ ~Found(m).ranges[1].hasTo
             /\ Found(m).ranges[1].from.ip = ip
             /\ port # Unset => Found(m).ranges[1].from.port = port
             /\ Found(m).ranges[1].from.mask = PrefixMask(Bits)
  <2>1. \A x \in Results(AddressRanges) : x.ranges \in Seq(AddressRanges)
    BY DEF Results
  <2> HIDE DEF Found
  <2> QED
    BY <1>2, <2>1 DEF OneAddress
<1>5. "MASK" \in Reader.allow
  BY ReaderIs
<1> HIDE DEF Found
<1>6. ASSUME NEW m,
             Given(m) \in Results(AddressRanges), Given(m).errors = 0, Len(Given(m).ranges) = 1,
             Given(m).ranges[1].hasFrom, ~Given(m).ranges[1].hasTo,
             Given(m).ranges[1].from.ip = ip,
             port # Unset => Given(m).ranges[1].from.port = port,
             Given(m).ranges[1].from.mask = bits
      PROVE  OneAddress(Read(m), ip, port, bits)
  <2>1. /\ Read(m) \in Results(AddressRanges)
        /\ Read(m).errors = 0 /\ ~Read(m).threw /\ Read(m).ranges = Given(m).ranges
    <3> DEFINE f == Found(m)
               g == Given(m)
    <3>1. f \in Results(AddressRanges) /\ f.errors = 0 /\ ~f.threw
      BY <1>4
    <3>2. g \in Results(AddressRanges) /\ g.errors = 0
      BY <1>6
    <3> HIDE DEF f, g
    <3>3. KeepUnlessErrors(f, g) = [f EXCEPT !.errors = 0, !.ranges = g.ranges]
      BY <3>1, <3>2 DEF KeepUnlessErrors
    <3>4. /\ KeepUnlessErrors(f, g) \in Results(AddressRanges)
          /\ KeepUnlessErrors(f, g).errors = 0 /\ ~KeepUnlessErrors(f, g).threw
          /\ KeepUnlessErrors(f, g).ranges = g.ranges
      BY <3>1, <3>2, <3>3 DEF Results
    <3> QED
      BY <3>4 DEF f, g
  <2> HIDE DEF Read, Given
  <2> QED
    BY <1>6, <2>1 DEF OneAddress
<1>7. CASE tail = <<>> /\ bits = PrefixMask(Bits)
  <2> DEFINE none == <<>>
             v == Found(none).ranges
  <2>1. t = u
    BY <1>1, <1>7, ConcatEmptySeq
  <2>2. Without(u, Blanks) /\ Without(u, {"/"})
    <3>1. Blanks \in SUBSET (Blanks \cup {"/"}) /\ {"/"} \in SUBSET (Blanks \cup {"/"})
      OBVIOUS
    <3> QED
      BY <1>1, <3>1, WithoutSome
  <2>3. Trim(u) = u /\ UpTo(u, {"/"}) = u /\ Past(u, {"/"}) = none
    BY <1>1, <2>2, NothingTrimmed, NothingPast
  <2>4. ParseCidr(Reader, names, u) = Read(none)
    BY <1>3, <1>5, <2>3 DEF ParseCidr
  <2>5. v \in Seq(AddressRanges) /\ Len(v) = 1
    BY <1>4
  <2>6. Given(none) \in Results(AddressRanges) /\ Given(none).errors = 0 /\ Given(none).ranges = <<v[1]>>
    <3>1. V4 \in BOOLEAN
      OBVIOUS
    <3> HIDE DEF v, V4
    <3> QED
      BY <2>5, <3>1, MaskIsKept DEF v
  <2>7. Len(Given(none).ranges) = 1 /\ Given(none).ranges[1] = v[1]
    <3> HIDE DEF Given, v, none
    <3>1. \A x : Len(<<x>>) = 1 /\ <<x>>[1] = x
      OBVIOUS
    <3> QED
      BY <2>6, <3>1
  <2>8. /\ v[1].hasFrom /\ ~v[1].hasTo /\ v[1].from.ip = ip
        /\ port # Unset => v[1].from.port = port
        /\ v[1].from.mask = bits
    BY <1>4, <1>7
  <2> HIDE DEF Given, v, Read, none
  <2>9. OneAddress(Read(none), ip, port, bits)
    BY <1>6, <2>6, <2>7, <2>8
  <2> QED
    BY <1>1, <2>1, <2>4, <2>9
<1>8. CASE \E m \in Seq(STRING) : tail = <<"/">> \o m /\ IsReadMask(m, V4, bits)
  <2>1. PICK m \in Seq(STRING) : tail = <<"/">> \o m /\ IsReadMask(m, V4, bits)
    BY <1>8
  <2> DEFINE v == Found(m).ranges
  <2>2. Without(m, Blanks)
    BY <2>1 DEF IsReadMask
  <2>3. Trim(t) = t /\ UpTo(t, {"/"}) = u /\ Past(t, {"/"}) = m
    BY <1>1, <2>1, <2>2, TailIsCut
  <2>4. ParseCidr(Reader, names, t) = Read(m)
    BY <1>3, <1>5, <2>3 DEF ParseCidr
  <2>5. v \in Seq(AddressRanges) /\ Len(v) = 1 /\ v[1].hasFrom /\ ~v[1].hasTo
    BY <1>4
  <2>6. v[1].from.ip = ip /\ (port # Unset => v[1].from.port = port)
    BY <1>4
  <2>7. V4 \in BOOLEAN /\ (V4 /\ IsIpv4(v[1].from)) = V4
    BY <2>6 DEF IsIpv4
  <2>8. /\ Given(m) \in Results(AddressRanges) /\ Given(m).errors = 0 /\ Len(Given(m).ranges) = 1
        /\ Given(m).ranges[1].hasFrom /\ ~Given(m).ranges[1].hasTo
        /\ Given(m).ranges[1].from.ip = v[1].from.ip
        /\ Given(m).ranges[1].from.port = v[1].from.port
        /\ Given(m).ranges[1].from.mask = bits
    <3>1. IsReadMask(m, V4 /\ IsIpv4(v[1].from), bits)
      BY <2>1, <2>7
    <3> HIDE DEF v, V4
    <3> QED
      BY <2>5, <2>7, <3>1, MaskIsGiven DEF v
  <2> HIDE DEF Given, v, Read
  <2>9. OneAddress(Read(m), ip, port, bits)
    BY <1>6, <2>6, <2>8
  <2>10. t \in Seq(STRING)
    <3>1. tail \in Seq(STRING)
      BY <2>1, TokensAre, SingletonList, ConcatProperties
    <3> QED
      BY <1>1, <3>1, ConcatProperties
  <2> QED
    BY <2>4, <2>9, <2>10
<1> QED
  BY <1>7, <1>8 DEF IsReadTail

\* and is all of the text.
LEMMA TextIsRead ==
    ASSUME NEW names, NEW ip, NEW port, NEW bits, NEW t,
           OneAddress(ParseCidr(Reader, names, t), ip, port, bits)
    PROVE  OneAddress(ParseText(Reader, names, t), ip, port, bits)
<1> DEFINE e == ParseCidr(Reader, names, t)
           written == <<t>>
           results == [i \in DOMAIN written |-> ParseCidr(Reader, names, written[i])]
           G == AddressRanges
           x == InTurn(results)
<1>1. e \in Results(G)
  BY DEF OneAddress
<1>2. ParseText(Reader, names, t) = Unwound(x)
  BY ReaderIs DEF ParseText, TextEntries
<1>3. results \in Seq(Results(G)) /\ Len(results) = 1 /\ results[1] = e
  <2>1. DOMAIN written = {1} /\ written[1] = t
    OBVIOUS
  <2>2. results = <<e>>
    BY <2>1
  <2> HIDE DEF results, e, G
  <2> QED
    BY <1>1, <2>2
<1> HIDE DEF results
<1>4. /\ x \in Results(G) /\ x.ranges = e.ranges /\ x.errors = e.errors
      /\ x.threw <=> e.threw
  BY <1>3, InTurnOfOne
<1> HIDE DEF x, e
<1>5. OneAddress(e, ip, port, bits)
  BY DEF e
<1>6. OneAddress(x, ip, port, bits) /\ ~x.threw
  BY <1>4, <1>5 DEF OneAddress
<1> QED
  BY <1>2, <1>6 DEF Unwound

-----------------------------------------------------------------------------
(* What is printed                                                         *)

\* The mask which is printed, or the one of an address without a mask.
PrintedMask(a, mode) == IF Includes(mode, MaskModes) THEN a.mask ELSE PrefixMask(Bits)

\* The port, when it is printed, is a number.
LEMMA PortIsPrinted ==
    ASSUME NEW a \in SocketAddrs, NEW mode, Readable(a, mode)
    PROVE  \E portText \in PortWords :
              /\ PortText(a, mode) = PortPart(portText)
              /\ Includes(mode, PortModes) => WrittenPort(portText) = a.port
              /\ ~Includes(mode, PortModes) => portText = <<>>
<1>1. CASE ~Includes(mode, PortModes)
  <2>1. <<>> \in PortWords
    BY DEF PortWords
  <2>2. PortText(a, mode) = <<>> /\ PortPart(<<>>) = <<>>
    BY <1>1 DEF PortText, PortPart
  <2> QED
    BY <1>1, <2>1, <2>2
<1>2. CASE Includes(mode, PortModes)
  <2> DEFINE w == WordOf(a.port)
             portText == <<w>>
  <2>1. a.port \in 0..MaxPort
    BY DEF SocketAddrs
  <2>2. w \in DOMAIN Number /\ Number[w] = a.port
    BY <2>1, WordOfType
  <2>3. ~("PORT_NAME" \in mode /\ Services[a.port] # "")
    BY DEF Readable
  <2>4. Includes(mode, AddressModes)
    BY DEF Readable
  <2>5. PortText(a, mode) = <<":">> \o portText
    BY <1>2, <2>3, <2>4 DEF PortText
  <2> HIDE DEF w
  <2>6. portText # <<>> /\ NumberOf(portText) = a.port
    BY <2>2, NumberIsWord
  <2>7. portText \in PortWords
    BY <2>1, <2>2 DEF PortWords
  <2> HIDE DEF portText
  <2>8. PortPart(portText) = <<":">> \o portText /\ WrittenPort(portText) = a.port
    BY <2>6 DEF PortPart, WrittenPort
  <2> QED
    BY <1>2, <2>5, <2>7, <2>8
<1> QED
  BY <1>1, <1>2

\* A mask which is not shown is the one of an address without a mask.
LEMMA HiddenMask ==
    ASSUME NEW a, NEW mode, ~ShowsMask(a, mode)
    PROVE  PrintedMask(a, mode) = PrefixMask(Bits)
<1>1. CASE ~Includes(mode, MaskModes)
  BY <1>1 DEF PrintedMask
<1>2. CASE Includes(mode, MaskModes)
  <2>1. GetMaskSize(a) = Bits
    BY <1>2 DEF ShowsMask
  <2>2. GetMaskSize(a) # -1
    BY <2>1, AddrRangeAssumption DEF AddrRangeAssumption
  <2>3. PrefixMask(Bits) = a.mask
    BY <2>1, <2>2, SizeOfMask
  <2> QED
    BY <2>3 DEF PrintedMask
<1> QED
  BY <1>1, <1>2

\* The mask of an IPv4 is read as it is printed,
LEMMA MaskText4IsRead ==
    ASSUME NEW a \in SocketAddrs, IsIpv4(a), NEW mode, Readable(a, mode)
    PROVE  IsReadTail(MaskText4(a, mode), TRUE, PrintedMask(a, mode))
<1>1. CASE ~ShowsMask(a, mode)
  BY <1>1, HiddenMask DEF MaskText4, IsReadTail
<1>2. CASE ShowsMask(a, mode)
  <2> DEFINE ip == FirstV4 + IpOf(a.mask \cap 0..(V4Bits - 1))
             n == GetMaskSize(a) - (Bits - V4Bits)
             m == IF ShownBits(a, mode) = -1 THEN Text4Of(ip) ELSE <<WordOf(n)>>
  <2>1. a.mask \in Masks /\ Includes(mode, AddressModes) /\ IsMaskIpv4Compatible(a)
    BY <1>2 DEF SocketAddrs, Readable, ToStringThrows, Ipv4Throws
  <2>2. PrintedMask(a, mode) = a.mask
    BY <1>2 DEF PrintedMask, ShowsMask
  <2>3. Slash(mode) = <<"/">>
    BY <2>1 DEF Slash, Includes
  <2>4. MaskText4(a, mode) = <<"/">> \o m
    <3>1. ShownBits(a, mode) # -1 => ShownBits(a, mode) = GetMaskSize(a)
      BY DEF ShownBits
    <3> QED
      BY <1>2, <2>3, <3>1 DEF MaskText4
  <2>5. m \in Seq(STRING) /\ IsReadMask(m, TRUE, a.mask)
    <3>1. CASE ShownBits(a, mode) = -1
      <4>1. m = Text4Of(ip)
        BY <3>1
      <4>2. /\ ip \in Ips /\ ip \in FirstV4..LastV4
            /\ OnBits(ip) \cup PrefixMask(Bits - V4Bits) = a.mask
        BY <2>1, Ipv4MaskBits DEF IsMaskIpv4Compatible
      <4> HIDE DEF ip, m
      <4>3. /\ m \in Seq(STRING) /\ m \in DOMAIN Literal /\ Literal[m] = ip
            /\ m[1] \notin DOMAIN Number /\ m[1] \notin V6Words
        BY <4>1, <4>2, Text4OfType
      <4> QED
        BY <4>2, <4>3, Ipv4MaskIsRead
    <3>2. CASE ShownBits(a, mode) # -1
      <4> DEFINE w == WordOf(n)
      <4>1. GetMaskSize(a) # -1
        BY <3>2 DEF ShownBits
      <4>2. /\ GetMaskSize(a) \in 0..Bits /\ PrefixMask(GetMaskSize(a)) = a.mask
            /\ n \in 0..V4Bits
        BY <2>1, <4>1, SizeOfMask, SizeOfIpv4Mask
      <4>3. /\ n \in (0..Bits) \cup (0..MaxPort) /\ n + (Bits - V4Bits) = GetMaskSize(a)
            /\ n <= V4Bits
        BY <4>2, AddrRangeAssumption DEF AddrRangeAssumption
      <4> HIDE DEF n
      <4>4. w \in STRING /\ w \in DOMAIN Number /\ Number[w] = n
        BY <4>3, WordOfType
      <4>5. m = <<w>>
        BY <3>2
      <4> HIDE DEF w, m
      <4>6. IsReadMask(<<w>>, TRUE, PrefixMask(Number[w] + IF TRUE THEN Bits - V4Bits ELSE 0))
        BY <4>3, <4>4, SizeIsRead
      <4>7. PrefixMask(Number[w] + IF TRUE THEN Bits - V4Bits ELSE 0) = a.mask
        BY <4>2, <4>3, <4>4
      <4>8. <<w>> \in Seq(STRING)
        BY <4>4, SingletonList
      <4> QED
        BY <4>5, <4>6, <4>7, <4>8
    <3> QED
      BY <3>1, <3>2
  <2> HIDE DEF m
  <2> QED
    BY <2>2, <2>4, <2>5 DEF IsReadTail
<1> QED
  BY <1>1, <1>2

\* and so is the mask of an IPv6.
LEMMA MaskText6IsRead ==
    ASSUME NEW a \in SocketAddrs, ~IsIpv4(a), NEW mode, Readable(a, mode)
    PROVE  IsReadTail(MaskText6(a, mode), FALSE, PrintedMask(a, mode))
<1>1. CASE ~ShowsMask(a, mode)
  BY <1>1, HiddenMask DEF MaskText6, IsReadTail
<1>2. CASE ShowsMask(a, mode)
  <2> DEFINE t == Text6Of(IpOf(a.mask))
             n == GetMaskSize(a)
             m == IF ShownBits(a, mode) = -1 THEN Bracketed(t, mode) ELSE <<WordOf(n)>>
  <2>1. a.mask \in Masks /\ Includes(mode, AddressModes)
    BY DEF SocketAddrs, Readable
  <2>2. PrintedMask(a, mode) = a.mask
    BY <1>2 DEF PrintedMask, ShowsMask
  <2>3. Slash(mode) = <<"/">>
    BY <2>1 DEF Slash, Includes
  <2>4. MaskText6(a, mode) = <<"/">> \o m
    <3>1. ShownBits(a, mode) # -1 => ShownBits(a, mode) = GetMaskSize(a)
      BY DEF ShownBits
    <3> QED
      BY <1>2, <2>3, <3>1 DEF MaskText6
  <2>5. m \in Seq(STRING) /\ IsReadMask(m, FALSE, a.mask)
    <3>1. CASE ShownBits(a, mode) = -1
      <4>1. Includes(mode, {"BRACKET_ADDRESS", "BRACKET_MASK"} \cup PortModes)
        BY <1>2, <3>1 DEF Readable
      <4>2. m = InSquares(t)
        BY <3>1, <4>1 DEF Bracketed, InSquares
      <4>3. IpOf(a.mask) \in Ips /\ OnBits(IpOf(a.mask)) = a.mask
        <5>1. Bits \in 0..Bits
          BY AddrRangeAssumption DEF AddrRangeAssumption
        <5>2. a.mask \in SUBSET (0..(Bits - 1))
          BY <2>1 DEF Masks
        <5> QED
          BY <5>1, <5>2, IpOfBits
      <4>4. /\ t \in Seq(STRING) /\ t \in DOMAIN Literal /\ Literal[t] = IpOf(a.mask)
            /\ t[1] \in V6Words
        BY <4>3, Text6OfType
      <4> HIDE DEF t, m
      <4>5. IsReadMask(InSquares(t), FALSE, OnBits(Literal[t]))
        BY <4>4, Ipv6MaskIsRead
      <4>6. InSquares(t) \in Seq(STRING)
        BY <4>4, InBrackets DEF InSquares
      <4> QED
        BY <4>2, <4>3, <4>4, <4>5, <4>6
    <3>2. CASE ShownBits(a, mode) # -1
      <4> DEFINE w == WordOf(n)
      <4>1. GetMaskSize(a) # -1
        BY <3>2 DEF ShownBits
      <4>2. n \in 0..Bits /\ PrefixMask(n) = a.mask
        BY <4>1, SizeOfMask
      <4> HIDE DEF n
      <4>3. n \in (0..Bits) \cup (0..MaxPort) /\ n + 0 = n /\ n <= Bits
        BY <4>2, AddrRangeAssumption DEF AddrRangeAssumption
      <4>4. w \in STRING /\ w \in DOMAIN Number /\ Number[w] = n
        BY <4>3, WordOfType
      <4>5. m = <<w>>
        BY <3>2
      <4> HIDE DEF w, m
      <4>6. IsReadMask(<<w>>, FALSE, PrefixMask(Number[w] + IF FALSE THEN Bits - V4Bits ELSE 0))
        BY <4>3, <4>4, SizeIsRead
      <4>7. PrefixMask(Number[w] + IF FALSE THEN Bits - V4Bits ELSE 0) = a.mask
        BY <4>2, <4>3, <4>4
      <4>8. <<w>> \in Seq(STRING)
        BY <4>4, SingletonList
      <4> QED
        BY <4>5, <4>6, <4>7, <4>8
    <3> QED
      BY <3>1, <3>2
  <2> HIDE DEF m
  <2> QED
    BY <2>2, <2>4, <2>5 DEF IsReadTail
<1> QED
  BY <1>1, <1>2

\* The address of an IPv4 and its port are read as they are printed,
LEMMA Address4IsRead ==
    ASSUME NEW a \in SocketAddrs, IsIpv4(a), NEW portText \in PortWords
    PROVE  IsReadWhole(Text4Of(a.ip) \o PortPart(portText), FALSE, a.ip, WrittenPort(portText))
<1> DEFINE t == Text4Of(a.ip)
<1>1. a.ip \in FirstV4..LastV4
  BY DEF IsIpv4
<1>2. t \in DOMAIN Literal /\ Literal[t] = a.ip
  BY <1>1, Text4OfType
<1>3. t[1] \notin V6Words
  BY <1>1, Text4OfType
<1> HIDE DEF t
<1>4. IsReadWhole(t \o PortPart(portText), FALSE, Literal[t], WrittenPort(portText))
  BY <1>2, <1>3, Ipv4IsRead
<1> QED
  BY <1>2, <1>4 DEF t

\* and so are those of an IPv6.
LEMMA Address6IsRead ==
    ASSUME NEW a \in SocketAddrs, ~IsIpv4(a), NEW mode, Readable(a, mode),
           NEW portText \in PortWords, ~Includes(mode, PortModes) => portText = <<>>,
           NEW t \in DOMAIN Literal, t[1] \in V6Words, Literal[t] = a.ip
    PROVE  IsReadWhole(Bracketed(t, mode) \o PortPart(portText), TRUE, a.ip,
                       WrittenPort(portText))
<1>1. CASE Includes(mode, {"BRACKET_ADDRESS", "BRACKET_MASK"} \cup PortModes)
  <2>1. Bracketed(t, mode) = InSquares(t)
    BY <1>1 DEF Bracketed, InSquares
  <2> QED
    BY <2>1, Ipv6IsRead
<1>2. CASE ~Includes(mode, {"BRACKET_ADDRESS", "BRACKET_MASK"} \cup PortModes)
  <2> DEFINE u == t \o PortPart(portText)
  <2>1. Bracketed(t, mode) = t
    BY <1>2 DEF Bracketed
  <2>2. portText = <<>>
    BY <1>2 DEF Includes
  <2>3. PortPart(portText) = <<>> /\ WrittenPort(portText) = Unset
    BY <2>2 DEF PortPart, WrittenPort
  <2>4. u = t
    <3>1. t \in Seq(STRING)
      BY LiteralIsWord
    <3> QED
      BY <2>3, <3>1, ConcatEmptySeq
  <2> HIDE DEF u
  <2>5. IsReadWhole(t, TRUE, Literal[t], Unset)
    BY BareIpv6IsRead
  <2> QED
    BY <2>1, <2>3, <2>4, <2>5 DEF u
<1> QED
  BY <1>1, <1>2

\* The text an IPv6 is printed as.
LEMMA IpIsPrinted ==
    ASSUME NEW a \in SocketAddrs, ~IsIpv4(a), NEW mode, Readable(a, mode)
    PROVE  \E t \in DOMAIN Literal :
              /\ t[1] \in V6Words /\ Literal[t] = a.ip
              /\ ToIpv6String(a, mode) =
                    Bracketed(t, mode) \o PortText(a, mode) \o MaskText6(a, mode)
<1>1. a.ip \in Ips /\ a.ip \notin FirstV4..LastV4 /\ Includes(mode, AddressModes)
  BY DEF SocketAddrs, IsIpv4, Readable
<1>2. CASE ~IsDefault(a)
  <2> DEFINE t == Text6Of(a.ip)
  <2>1. t \in DOMAIN Literal /\ Literal[t] = a.ip
    BY <1>1, Text6OfType
  <2>2. t[1] \in V6Words
    BY <1>1, Text6OfType
  <2>3. ToIpv6String(a, mode) = Bracketed(t, mode) \o PortText(a, mode) \o MaskText6(a, mode)
    BY <1>1, <1>2 DEF ToIpv6String
  <2> HIDE DEF t
  <2> QED
    BY <2>1, <2>2, <2>3
<1>3. CASE IsDefault(a)
  <2> DEFINE t == <<"::">>
  <2>1. t \in DOMAIN Literal
    BY AddrParserAssumption DEF AddrParserAssumption
  <2>2. Literal[t] = 0 /\ t[1] \in V6Words
    BY AddrTextAssumption DEF AddrTextAssumption
  <2>3. a.ip = 0
    <3>1. FirstV4 \in FirstV4..LastV4
      <4>1. FirstV4 \in Nat /\ LastV4 \in Nat /\ FirstV4 <= LastV4
        BY AddrRangeAssumption DEF AddrRangeAssumption, Ips
      <4> QED
        BY <4>1
    <3> QED
      BY <1>1, <1>3, <3>1 DEF IsDefault
  <2>4. mode \cap {"DEFAULT_AS_ASTERISK", "DEFAULT_AS_IPV4"} = {}
    BY <1>3 DEF Readable
  <2>5. ToIpv6String(a, mode) = Bracketed(t, mode) \o PortText(a, mode) \o MaskText6(a, mode)
    BY <1>1, <1>3, <2>4 DEF ToIpv6String
  <2> HIDE DEF t
  <2> QED
    BY <2>1, <2>2, <2>3, <2>5
<1> QED
  BY <1>2, <1>3

\* The text of an address is read as this address.
LEMMA PrintedIsRead ==
    ASSUME NEW a \in SocketAddrs, NEW mode, Readable(a, mode), NEW names \in Resolvers
    PROVE  IsReadAs(ParseText(Reader, names, ToIpv4or6String(a, mode)), a, mode)
<1> DEFINE bits == PrintedMask(a, mode)
           text == ToIpv4or6String(a, mode)
           x == ParseText(Reader, names, text)
<1>1. bits \in Masks
  <2>1. a.mask \in Masks
    BY DEF SocketAddrs
  <2>2. PrefixMask(Bits) \in Masks
    BY AddrRangeAssumption DEF PrefixMask, Masks, AddrRangeAssumption
  <2> QED
    BY <2>1, <2>2 DEF PrintedMask
<1>2. PICK portText \in PortWords :
            /\ PortText(a, mode) = PortPart(portText)
            /\ Includes(mode, PortModes) => WrittenPort(portText) = a.port
            /\ ~Includes(mode, PortModes) => portText = <<>>
  BY PortIsPrinted
<1> DEFINE port == WrittenPort(portText)
           V4 == a.ip \in FirstV4..LastV4
           V6 == a.ip \notin FirstV4..LastV4
<1>3. \E u, tail : text = u \o tail /\ IsReadWhole(u, V6, a.ip, port) /\ IsReadTail(tail, V4, bits)
  <2>1. CASE IsIpv4(a)
    <3> DEFINE u == Text4Of(a.ip) \o PortPart(portText)
               tail == MaskText4(a, mode)
    <3>1. V4 = TRUE /\ V6 = FALSE
      BY <2>1 DEF IsIpv4
    <3>2. Includes(mode, AddressModes)
          /\ ~("DEFAULT_AS_ASTERISK" \in mode /\ IsDefault(a))
      BY DEF Readable
    <3>3. text = u \o tail
      BY <1>2, <2>1, <3>2 DEF ToIpv4or6String, ToIpv4String
    <3>4. IsReadWhole(u, FALSE, a.ip, port)
      BY <2>1, Address4IsRead
    <3>5. IsReadTail(tail, TRUE, bits)
      BY <2>1, MaskText4IsRead
    <3> HIDE DEF u, tail, V4, V6, bits, text, port
    <3> QED
      BY <3>1, <3>3, <3>4, <3>5
  <2>2. CASE ~IsIpv4(a)
    <3>1. V4 = FALSE /\ V6 = TRUE
      BY <2>2 DEF IsIpv4
    <3>2. PICK t \in DOMAIN Literal :
              /\ t[1] \in V6Words /\ Literal[t] = a.ip
              /\ ToIpv6String(a, mode) =
                    Bracketed(t, mode) \o PortText(a, mode) \o MaskText6(a, mode)
      BY <2>2, IpIsPrinted
    <3> DEFINE u == Bracketed(t, mode) \o PortPart(portText)
               tail == MaskText6(a, mode)
    <3>3. text = u \o tail
      BY <1>2, <2>2, <3>2 DEF ToIpv4or6String
    <3>4. IsReadWhole(u, TRUE, a.ip, port)
      BY <1>2, <2>2, <3>2, Address6IsRead
    <3>5. IsReadTail(tail, FALSE, bits)
      BY <2>2, MaskText6IsRead
    <3> HIDE DEF u, tail, V4, V6, bits, text, port
    <3> QED
      BY <3>1, <3>3, <3>4, <3>5
  <2> QED
    BY <2>1, <2>2
<1> HIDE DEF bits, text
<1>4. PICK u, tail : text = u \o tail /\ IsReadWhole(u, V6, a.ip, port) /\ IsReadTail(tail, V4, bits)
  BY <1>3
<1> HIDE DEF port
<1>5. OneAddress(ParseCidr(Reader, names, u \o tail), a.ip, port, bits)
  BY <1>1, <1>4, EntryIsRead
<1>6. OneAddress(x, a.ip, port, bits)
  BY <1>4, <1>5, TextIsRead
<1> HIDE DEF x
<1>7. Includes(mode, PortModes) => port = a.port /\ port # Unset
  <2>1. a.port \in 0..MaxPort
    BY DEF SocketAddrs
  <2>2. Includes(mode, PortModes) => port = a.port
    BY <1>2 DEF port
  <2> QED
    BY <2>1, <2>2, AddrParserAssumption DEF AddrParserAssumption, Unset
<1>8. Includes(mode, MaskModes) => bits = a.mask
  BY DEF bits, PrintedMask
<1>9. IsReadAs(x, a, mode)
  BY <1>6, <1>7, <1>8 DEF OneAddress, IsReadAs
<1> QED
  BY <1>9 DEF x, text

\* What was parsed and is printed is read again.
LEMMA ParsedReadsBack ==
    ASSUME ParsedAsText
    PROVE  PrintedReadsBack
<1> SUFFICES ASSUME Parsed, NEW a \in Returned, NEW mode \in PrintModes, Readable(a, mode)
             PROVE  IsReadAs(ParseText(Reader, last.resolver, ToIpv4or6String(a, mode)),
                             a, mode)
  BY DEF PrintedReadsBack
<1>1. /\ last.before \in Parsers /\ last.resolver \in Resolvers /\ last.text \in Seq(STRING)
      /\ last.result = ParseText(last.before, last.resolver, last.text)
  BY DEF ParsedAsText
<1> DEFINE x == last.result
<1>2. \A r \in ToSet(x.ranges) : r \in AddressRanges
  <2> DEFINE v == x.ranges
  <2>1. x \in Results(Answered(last.before))
    BY <1>1, ParseTextResult
  <2>2. v \in Seq(Answered(last.before))
    <3> HIDE DEF x
    <3> QED
      BY <2>1 DEF Results
  <2> HIDE DEF v, x
  <2>3. \A k \in DOMAIN v : v[k] \in AddressRanges
    <3>1. \A k \in DOMAIN v : v[k] \in Answered(last.before)
      BY <2>2
    <3> QED
      BY <3>1 DEF Answered
  <2> QED
    BY <2>3 DEF ToSet, v
<1>3. a \in SocketAddrs
  <2>1. PICK b \in UNION {Bounds(r) : r \in ToSet(x.ranges)} :
            a = [b EXCEPT !.protocol = "TCP", !.portDefined = TRUE]
    BY DEF Returned
  <2>2. PICK r \in ToSet(x.ranges) : b \in Bounds(r)
    OBVIOUS
  <2>3. b \in SocketAddrs
    BY <1>2, <2>2 DEF Bounds, AddressRanges
  <2> QED
    BY <2>1, <2>3 DEF SocketAddrs
<1> QED
  BY <1>1, <1>3, PrintedIsRead

\* The text of an address which was parsed is read as the same address, with
\* its port and its mask when they are printed, however it is printed as long
\* as all of it is there.
THEOREM PrintedIsReadBack == SessionSpec => []PrintedReadsBack
<1>1. SessionInv => PrintedReadsBack
  BY ParsedReadsBack DEF SessionInv
<1> QED
  BY <1>1, SessionIsInv, PTL

-----------------------------------------------------------------------------
(* The merge of the ranges                                                 *)

USE AddrRangeAssumption, ParserMergeAssumption

-----------------------------------------------------------------------------
(* Unions of two ranges                                                    *)

\* A union which is not empty covers the addresses of both ranges and no
\* other address, whether or not one of the two is empty.
LEMMA UnionExact ==
    ASSUME NEW l \in Ranges, NEW r \in Ranges,
           IsDefined(UnionIfPossible(l, r)),
           UnionIfPossible(l, r) \in Ranges,
           ~IsEmpty(UnionIfPossible(l, r))
    PROVE  Addresses(UnionIfPossible(l, r)) = Addresses(l) \cup Addresses(r)
<1> DEFINE u == UnionIfPossible(l, r)
<1>1. Low(u).ip <= High(u).ip
  BY EmptyBounds, BoundsType
<1>2. /\ Low(l).ip \in Int /\ High(l).ip \in Int
      /\ Low(r).ip \in Int /\ High(r).ip \in Int
      /\ Low(u).ip \in Int /\ High(u).ip \in Int
  BY BoundsType
<1>3. /\ Low(u).ip = Smaller(Low(l).ip, Low(r).ip)
      /\ High(u).ip = IF High(l).ip > High(r).ip THEN High(l).ip ELSE High(r).ip
  BY UnionBounds
<1>4. \/ Low(l).ip <= High(r).ip /\ High(l).ip >= Low(r).ip
      \/ Low(l).ip - 1 = High(r).ip
      \/ High(l).ip + 1 = Low(r).ip
  BY UnionBounds DEF Touches, IsNext, IsPrevious
<1> HIDE DEF u
<1>5. ASSUME NEW a \in Int
      PROVE  (Low(u).ip <= a /\ a <= High(u).ip) <=>
                \/ Low(l).ip <= a /\ a <= High(l).ip
                \/ Low(r).ip <= a /\ a <= High(r).ip
  BY <1>1, <1>2, <1>3, <1>4 DEF Smaller
<1>6. Addresses(u) = Addresses(l) \cup Addresses(r)
  BY <1>2, <1>5 DEF Addresses
<1> QED
  BY <1>6 DEF u

\* Two ranges with addresses of which no union is kept are apart.
LEMMA NoUnionApart ==
    ASSUME NEW l \in Ranges, NEW r \in Ranges,
           IsDefined(l), IsDefined(r), ~IsEmpty(l), ~IsEmpty(r),
           UnionIfPossible(l, r) \in Ranges,
           IsDefined(UnionIfPossible(l, r)) => IsEmpty(UnionIfPossible(l, r))
    PROVE  Apart(l, r)
<1> DEFINE u == UnionIfPossible(l, r)
<1>1. /\ Low(l).ip \in Int /\ High(l).ip \in Int
      /\ Low(r).ip \in Int /\ High(r).ip \in Int
      /\ Low(u).ip \in Int /\ High(u).ip \in Int
  BY BoundsType
<1>2. Low(l).ip <= High(l).ip /\ Low(r).ip <= High(r).ip
  BY <1>1, EmptyBounds
<1>3. ~Touches(l, r)
  <2> SUFFICES ASSUME Touches(l, r) PROVE FALSE
    OBVIOUS
  <2>1. u = SetTo(SetFrom(NoRange, SetMaskCount(LowerAddr(l, r), UnionMask(l.from, r.from))),
                  SetMaskCount(HigherAddr(l, r), UnionMask(l.to, r.to)))
        \/ u = SetFrom(NoRange, SetMaskCount(LowerAddr(l, r), UnionMask(l.from, r.from)))
    BY DEF UnionIfPossible
  <2>2. IsDefined(u)
    BY <2>1 DEF IsDefined, SetTo, SetFrom, NoRange
  <2>3. Low(u).ip > High(u).ip
    BY <2>2, EmptyBounds
  <2> QED
    BY <1>1, <1>2, <2>2, <2>3, UnionBounds DEF Smaller
<1>4. /\ ~(Low(l).ip <= High(r).ip /\ High(l).ip >= Low(r).ip)
      /\ ~(Low(l).ip # 0 /\ Low(l).ip - 1 = High(r).ip)
      /\ ~(High(l).ip # MaxIp /\ High(l).ip + 1 = Low(r).ip)
  BY <1>3 DEF Touches, IsNext, IsPrevious
<1>5. /\ 0 <= Low(l).ip /\ Low(l).ip <= MaxIp /\ 0 <= High(l).ip /\ High(l).ip <= MaxIp
      /\ 0 <= Low(r).ip /\ Low(r).ip <= MaxIp /\ 0 <= High(r).ip /\ High(r).ip <= MaxIp
  BY BoundsType DEF Addrs, Ips
<1>6. MaxIp \in Int
  OBVIOUS
<1> QED
  BY <1>1, <1>2, <1>4, <1>5, <1>6 DEF Apart

-----------------------------------------------------------------------------
(* The two orders                                                          *)

\* operator < is the order of the lower bounds, the longer range first when
\* they are equal, and the empty ranges last.
LEMMA LessMeans ==
    ASSUME NEW l \in Ranges, NEW r \in Ranges, IsDefined(l), IsDefined(r)
    PROVE  Less(l, r) <=>
             /\ ~IsEmpty(l)
             /\ \/ IsEmpty(r)
                \/ Low(l).ip < Low(r).ip
                \/ Low(l).ip = Low(r).ip /\ High(l).ip > High(r).ip
<1>1. /\ Low(l).ip \in Int /\ High(l).ip \in Int
      /\ Low(r).ip \in Int /\ High(r).ip \in Int
  BY BoundsType
<1>2. CASE IsEmpty(l) \/ IsEmpty(r)
  BY <1>2 DEF Less, Compare
<1>3. CASE ~IsEmpty(l) /\ ~IsEmpty(r)
  <2>1. Low(l).ip <= High(l).ip /\ Low(r).ip <= High(r).ip
    BY <1>1, <1>3, EmptyBounds
  <2>2. Compare(l, r, TRUE) = CompareBounds(l, r)
    BY <1>3 DEF Compare
  <2>3. CASE High(l).ip < Low(r).ip \/ Low(l).ip > High(r).ip
    <3>1. Compare(l, r, TRUE) = CompareApart(l, r)
      BY <2>2, <2>3 DEF CompareBounds
    <3>2. CASE High(l).ip < Low(r).ip
      <4>1. Compare(l, r, TRUE) \in {"PRECEDES", "SMALLER"}
        BY <3>1, <3>2 DEF CompareApart
      <4>2. Low(l).ip < Low(r).ip
        BY <1>1, <2>1, <3>2
      <4> QED
        BY <1>3, <4>1, <4>2 DEF Less
    <3>3. CASE ~(High(l).ip < Low(r).ip)
      <4>1. Compare(l, r, TRUE) \in {"FOLLOWS", "LARGER"}
        BY <3>1, <3>3 DEF CompareApart
      <4>2. ~(Low(l).ip < Low(r).ip) /\ Low(l).ip # Low(r).ip
        BY <1>1, <2>1, <2>3, <3>3
      <4> QED
        BY <1>3, <4>1, <4>2 DEF Less
    <3> QED
      BY <3>2, <3>3
  <2>4. CASE ~(High(l).ip < Low(r).ip \/ Low(l).ip > High(r).ip)
    <3>1. Compare(l, r, TRUE) = CompareOverlap(l, r)
      BY <2>2, <2>4 DEF CompareBounds
    <3>2. CASE \/ Low(l).ip < Low(r).ip
               \/ Low(l).ip = Low(r).ip /\ High(l).ip > High(r).ip
      <4>1. CompareOverlap(l, r) \in {"INCLUDED", "SMALL_VS_LARGE"}
        BY <1>1, <3>2 DEF CompareOverlap
      <4> QED
        BY <1>3, <3>1, <3>2, <4>1 DEF Less
    <3>3. CASE ~(\/ Low(l).ip < Low(r).ip
                 \/ Low(l).ip = Low(r).ip /\ High(l).ip > High(r).ip)
      <4>1. CompareOverlap(l, r) \in {"EQUAL", "INCLUDES", "LARGE_VS_SMALL"}
        BY <1>1, <3>3 DEF CompareOverlap
      <4> QED
        BY <1>3, <3>1, <3>3, <4>1 DEF Less
    <3> QED
      BY <3>2, <3>3
  <2> QED
    BY <2>3, <2>4
<1> QED
  BY <1>2, <1>3

\* The comparison by family is the order of the ranks.
LEMMA FamilyBeforeMeans ==
    ASSUME NEW flags, NEW l \in Ranges, NEW r \in Ranges,
           IsDefined(l), IsDefined(r)
    PROVE  FamilyBefore(flags, l, r) <=>
               FamilyRank(flags, l) < FamilyRank(flags, r)
<1>1. CASE IsEmpty(l) \/ IsEmpty(r)
  BY <1>1 DEF FamilyBefore, FamilyRank, Compare
<1>2. CASE ~IsEmpty(l) /\ ~IsEmpty(r)
  <2>1. IsRangeIpv4(l) \in BOOLEAN /\ IsRangeIpv4(r) \in BOOLEAN
    BY DEF IsRangeIpv4
  <2>2. CompareBounds(l, r) \notin {"IPV4_VS_IPV6", "IPV6_VS_IPV4", "FIRST"}
    BY DEF CompareBounds, CompareApart, CompareOverlap
  <2>3. Compare(l, r, FALSE) =
            IF IsRangeIpv4(l) /\ ~IsRangeIpv4(r) THEN "IPV4_VS_IPV6"
            ELSE IF ~IsRangeIpv4(l) /\ IsRangeIpv4(r) THEN "IPV6_VS_IPV4"
            ELSE CompareBounds(l, r)
    BY <1>2 DEF Compare
  <2>4. CASE "IPV4_FIRST" \in flags
    <3>1. FamilyBefore(flags, l, r) <=> IsRangeIpv4(l) /\ ~IsRangeIpv4(r)
      BY <2>2, <2>3, <2>4 DEF FamilyBefore
    <3> QED
      BY <1>2, <2>1, <2>4, <3>1 DEF FamilyRank
  <2>5. CASE "IPV4_FIRST" \notin flags
    <3>1. FamilyBefore(flags, l, r) <=> ~IsRangeIpv4(l) /\ IsRangeIpv4(r)
      BY <2>2, <2>3, <2>5 DEF FamilyBefore
    <3> QED
      BY <1>2, <2>1, <2>5, <3>1 DEF FamilyRank
  <2> QED
    BY <2>4, <2>5
<1> QED
  BY <1>1, <1>2

\* Both comparisons given to std::stable_sort() are strict weak orders on
\* the ranges a parser collects, which is what it requires of them.
THEOREM StrictWeakOrders ==
    ASSUME NEW byFamily \in BOOLEAN, NEW flags,
           NEW a \in Ranges, NEW b \in Ranges, NEW c \in Ranges,
           IsDefined(a), IsDefined(b), IsDefined(c)
    PROVE  /\ ~Before(byFamily, flags, a, a)
           /\ Before(byFamily, flags, a, b) => ~Before(byFamily, flags, b, a)
           /\ Before(byFamily, flags, a, b) =>
                 Before(byFamily, flags, a, c) \/ Before(byFamily, flags, c, b)
<1>1. CASE byFamily
  <2>1. /\ FamilyRank(flags, a) \in Int /\ FamilyRank(flags, b) \in Int
        /\ FamilyRank(flags, c) \in Int
    BY DEF FamilyRank
  <2>2. /\ FamilyBefore(flags, a, a) <=> FamilyRank(flags, a) < FamilyRank(flags, a)
        /\ FamilyBefore(flags, a, b) <=> FamilyRank(flags, a) < FamilyRank(flags, b)
        /\ FamilyBefore(flags, b, a) <=> FamilyRank(flags, b) < FamilyRank(flags, a)
        /\ FamilyBefore(flags, a, c) <=> FamilyRank(flags, a) < FamilyRank(flags, c)
        /\ FamilyBefore(flags, c, b) <=> FamilyRank(flags, c) < FamilyRank(flags, b)
    BY FamilyBeforeMeans
  <2> QED
    BY <1>1, <2>1, <2>2 DEF Before
<1>2. CASE ~byFamily
  <2>1. /\ Low(a).ip \in Int /\ High(a).ip \in Int
        /\ Low(b).ip \in Int /\ High(b).ip \in Int
        /\ Low(c).ip \in Int /\ High(c).ip \in Int
    BY BoundsType
  <2>2. ~Less(a, a)
    BY <2>1, LessMeans
  <2>3. Less(a, b) => ~Less(b, a)
    BY <2>1, LessMeans
  <2>4. Less(a, b) => Less(a, c) \/ Less(c, b)
    BY <2>1, LessMeans
  <2> QED
    BY <1>2, <2>2, <2>3, <2>4 DEF Before
<1> QED
  BY <1>1, <1>2

-----------------------------------------------------------------------------
(* Sequences                                                               *)

\* p tells where in s the elements of t come from.
StableSortOf(byFamily, flags, s, t, p) ==
    /\ \A i \in DOMAIN s : p[i] \in DOMAIN s /\ t[i] = s[p[i]]
    /\ \A i, j \in DOMAIN s : p[i] = p[j] => i = j
    /\ \A i \in DOMAIN s : \E j \in DOMAIN s : p[j] = i
    /\ \A i, j \in DOMAIN s :
          i < j => /\ ~Before(byFamily, flags, t[j], t[i])
                   /\ p[i] < p[j] \/ Before(byFamily, flags, t[i], t[j])

\* A stable sort is a permutation in which no range comes before one it
\* should follow, and equivalent ranges keep their places.
LEMMA StableSortMeans ==
    ASSUME NEW s \in Seq(Ranges), NEW byFamily, NEW flags,
           NEW t \in StableSorts(byFamily, flags, s)
    PROVE  /\ t \in Seq(Ranges)
           /\ DOMAIN t = DOMAIN s
           /\ \E p \in Bijection(DOMAIN s, DOMAIN s) :
                StableSortOf(byFamily, flags, s, t, p)
<1>1. PICK p \in Bijection(DOMAIN s, DOMAIN s) :
        /\ t = Reordered(s, p)
        /\ \A i, j \in DOMAIN s :
             i < j => /\ ~Before(byFamily, flags, s[p[j]], s[p[i]])
                      /\ p[i] < p[j] \/ Before(byFamily, flags, s[p[i]], s[p[j]])
  BY Zenon DEF StableSorts
<1>2. /\ p \in [DOMAIN s -> DOMAIN s]
      /\ \A i, j \in DOMAIN s : p[i] = p[j] => i = j
      /\ \A i \in DOMAIN s : \E j \in DOMAIN s : p[j] = i
  BY DEF Bijection, Injection, Surjection, IsInjective
<1>3. DOMAIN t = DOMAIN s /\ \A i \in DOMAIN s : p[i] \in DOMAIN s /\ t[i] = s[p[i]]
  BY <1>1, <1>2 DEF Reordered
<1>4. DOMAIN s = 1..Len(s) /\ Len(s) \in Nat /\ \A i \in DOMAIN s : s[i] \in Ranges
  OBVIOUS
<1>5. t \in Seq(Ranges)
  <2>1. t = [i \in 1..Len(s) |-> s[p[i]]]
    BY <1>1, <1>4 DEF Reordered
  <2>2. \A i \in 1..Len(s) : s[p[i]] \in Ranges
    BY <1>2, <1>4
  <2> QED
    BY <1>4, <2>1, <2>2
<1>6. \A i, j \in DOMAIN s :
        i < j => /\ ~Before(byFamily, flags, t[j], t[i])
                 /\ p[i] < p[j] \/ Before(byFamily, flags, t[i], t[j])
  BY <1>1, <1>3
<1>7. StableSortOf(byFamily, flags, s, t, p)
  BY <1>2, <1>3, <1>6, Zenon DEF StableSortOf
<1> QED
  BY <1>3, <1>5, <1>7, Zenon

\* A permutation covers what the sequence covers.
LEMMA SortCovers ==
    ASSUME NEW s \in Seq(Ranges), NEW byFamily, NEW flags,
           NEW t \in StableSorts(byFamily, flags, s)
    PROVE  Covered(t) = Covered(s)
<1>1. PICK p \in Bijection(DOMAIN s, DOMAIN s) :
        StableSortOf(byFamily, flags, s, t, p)
  BY StableSortMeans, Zenon
<1>2. DOMAIN t = DOMAIN s
  BY StableSortMeans
<1>3. ASSUME NEW a
      PROVE  (\E i \in DOMAIN t : a \in Addresses(t[i]))
                <=> (\E i \in DOMAIN s : a \in Addresses(s[i]))
  <2>1. ASSUME NEW i \in DOMAIN t, a \in Addresses(t[i])
        PROVE  \E j \in DOMAIN s : a \in Addresses(s[j])
    BY <1>1, <1>2, <2>1 DEF StableSortOf
  <2>2. ASSUME NEW i \in DOMAIN s, a \in Addresses(s[i])
        PROVE  \E j \in DOMAIN t : a \in Addresses(t[j])
    <3>1. PICK j \in DOMAIN s : p[j] = i
      BY <1>1, Zenon DEF StableSortOf
    <3>2. t[j] = s[i]
      BY <1>1, <3>1, Zenon DEF StableSortOf
    <3> QED
      BY <1>2, <2>2, <3>2
  <2> QED
    BY <2>1, <2>2
<1> QED
  BY <1>3, Zenon DEF Covered

\* t is s with its elements at i and i + 1 replaced by u.
ReplacedAt(s, i, u, t) ==
    /\ Len(t) = Len(s) - 1
    /\ \A k \in 1..Len(t) :
          t[k] = IF k < i THEN s[k] ELSE IF k = i THEN u ELSE s[k + 1]

\* What one pass of the merge loop leaves.
LEMMA MergeAt ==
    ASSUME NEW s \in Seq(Ranges), NEW u \in Ranges, NEW i \in 1..(Len(s) - 1),
           NEW t
    PROVE  t = RemoveAt(ReplaceAt(s, i, u), i + 1) =>
             t \in Seq(Ranges) /\ ReplacedAt(s, i, u, t)
<1>0. HAVE t = RemoveAt(ReplaceAt(s, i, u), i + 1)
<1>1. Len(s) \in Nat
  OBVIOUS
<1>2. /\ ReplaceAt(s, i, u) \in Seq(Ranges)
      /\ Len(ReplaceAt(s, i, u)) = Len(s)
      /\ \A k \in 1..Len(s) : ReplaceAt(s, i, u)[k] = IF k = i THEN u ELSE s[k]
  BY <1>1 DEF ReplaceAt
<1> DEFINE r == ReplaceAt(s, i, u)
           a == SubSeq(r, 1, i)
           b == SubSeq(r, i + 2, Len(s))
<1>3. t = a \o b
  BY <1>0, <1>1, <1>2, SMTT(30) DEF RemoveAt
<1> HIDE DEF r
<1>4. a \in Seq(Ranges) /\ Len(a) = i /\ \A k \in 1..i : a[k] = r[k]
  BY <1>1, <1>2 DEF r
<1>5. /\ b \in Seq(Ranges) /\ Len(b) = Len(s) - i - 1
      /\ \A k \in 1..(Len(s) - i - 1) : b[k] = r[k + i + 1]
  BY <1>1, <1>2 DEF r
<1> HIDE DEF a, b
<1>6. /\ t \in Seq(Ranges)
      /\ Len(t) = Len(a) + Len(b)
      /\ \A k \in 1..(Len(a) + Len(b)) :
            t[k] = IF k <= Len(a) THEN a[k] ELSE b[k - Len(a)]
  <2>1. a \in Seq(Ranges) /\ b \in Seq(Ranges)
    BY <1>4, <1>5
  <2>2. a \o b \in Seq(Ranges)
    BY <2>1, ConcatProperties, Zenon
  <2>3. Len(a \o b) = Len(a) + Len(b)
    BY <2>1, ConcatProperties, Zenon
  <2>4. \A k \in 1..(Len(a) + Len(b)) :
            (a \o b)[k] = IF k <= Len(a) THEN a[k] ELSE b[k - Len(a)]
    BY <2>1, ConcatProperties, Zenon
  <2> QED
    BY <1>3, <2>2, <2>3, <2>4, Zenon
<1>7. Len(t) = Len(s) - 1
  BY <1>1, <1>4, <1>5, <1>6
<1>8. ASSUME NEW k \in 1..Len(t)
      PROVE  t[k] = IF k < i THEN s[k] ELSE IF k = i THEN u ELSE s[k + 1]
  <2>1. CASE k <= i
    <3>1. k \in 1..i /\ k \in 1..Len(s)
      BY <1>1, <1>7, <2>1
    <3>2. t[k] = a[k]
      BY <1>4, <1>6, <2>1
    <3>3. a[k] = r[k]
      BY <1>4, <3>1
    <3>4. r[k] = IF k = i THEN u ELSE s[k]
      BY <1>2, <3>1 DEF r
    <3> QED
      BY <2>1, <3>1, <3>2, <3>3, <3>4
  <2>2. CASE k > i
    <3>1. k - i \in 1..(Len(s) - i - 1)
      BY <1>1, <1>7, <2>2
    <3>2. t[k] = b[k - i]
      BY <1>4, <1>6, <2>2
    <3>3. b[k - i] = r[k + 1]
      <4>1. b[k - i] = r[k - i + i + 1]
        BY <1>5, <3>1, Zenon
      <4>2. k - i + i + 1 = k + 1
        BY <1>1, <1>7
      <4> QED
        BY <4>1, <4>2, Zenon
    <3>4. r[k + 1] = s[k + 1]
      BY <1>1, <1>2, <1>7, <2>2 DEF r
    <3> QED
      BY <2>2, <3>2, <3>3, <3>4
  <2> QED
    BY <1>1, <1>7, <2>1, <2>2
<1> QED
  BY <1>6, <1>7, <1>8, Zenon DEF ReplacedAt

-----------------------------------------------------------------------------
(* Types                                                                   *)

Typed == TypeOK /\ ResultDefined

\* What Typed says of the ranges of the result.
LEMMA ResultType ==
    ASSUME Typed
    PROVE  /\ result \in Seq(Ranges)
           /\ Len(result) \in Nat
           /\ DOMAIN result = 1..Len(result)
           /\ \A i \in 1..Len(result) : result[i] \in Ranges /\ IsDefined(result[i])
<1>1. result \in Seq(Ranges) /\ \A i \in DOMAIN result : IsDefined(result[i])
  BY DEF Typed, TypeOK, ResultDefined
<1> QED
  BY <1>1

\* The steps which sort.
LEMMA SortType ==
    ASSUME Typed, NEW byFamily, result' \in StableSorts(byFamily, order, result)
    PROVE  /\ result' \in Seq(Ranges)
           /\ DOMAIN result' = DOMAIN result
           /\ ResultDefined'
           /\ \E p \in Bijection(DOMAIN result, DOMAIN result) :
                StableSortOf(byFamily, order, result, result', p)
<1>1. result \in Seq(Ranges)
  BY ResultType
<1>2. /\ result' \in Seq(Ranges)
      /\ DOMAIN result' = DOMAIN result
  BY <1>1, StableSortMeans
<1>3. PICK p \in Bijection(DOMAIN result, DOMAIN result) :
        StableSortOf(byFamily, order, result, result', p)
  BY <1>1, StableSortMeans, Zenon
<1>4. \A i \in DOMAIN result : p[i] \in DOMAIN result /\ result'[i] = result[p[i]]
  BY <1>3, Zenon DEF StableSortOf
<1>5. ResultDefined'
  BY <1>2, <1>4 DEF Typed, ResultDefined
<1> QED
  BY <1>2, <1>3, <1>5, Zenon

\* The step which merges.
LEMMA MergeType ==
    ASSUME Typed, Merge
    PROVE  /\ idx \in 1..(Len(result) - 1)
           /\ Merged(idx) \in Ranges
           /\ IsDefined(Merged(idx))
           /\ ~IsEmpty(Merged(idx))
           /\ result' \in Seq(Ranges)
           /\ Len(result') = Len(result) - 1
           /\ DOMAIN result' = 1..(Len(result) - 1)
           /\ \A k \in 1..(Len(result) - 1) :
                 result'[k] = IF k < idx THEN result[k]
                              ELSE IF k = idx THEN Merged(idx)
                              ELSE result[k + 1]
<1>1. idx \in 1..(Len(result) - 1)
  BY ResultType DEF Typed, TypeOK, Merge
<1>2. result[idx] \in Ranges /\ result[idx + 1] \in Ranges
  BY <1>1, ResultType
<1>3. Merged(idx) \in Ranges
  BY <1>2, UnionType DEF Merge, Merged
<1>4. IsDefined(Merged(idx)) /\ ~IsEmpty(Merged(idx))
  BY DEF Merge, CanMerge
<1>5. result \in Seq(Ranges)
  BY ResultType
<1>6. result' = RemoveAt(ReplaceAt(result, idx, Merged(idx)), idx + 1)
  BY DEF Merge
<1>7. result' \in Seq(Ranges) /\ ReplacedAt(result, idx, Merged(idx), result')
  BY <1>1, <1>3, <1>5, <1>6, MergeAt, Zenon
<1>8. DOMAIN result' = 1..Len(result')
  BY <1>7
<1> QED
  BY <1>1, <1>3, <1>4, <1>7, <1>8 DEF ReplacedAt

\* The empty vector.
LEMMA EmptyType ==
    /\ <<>> \in Seq(Ranges) /\ <<>> \in Seq(Entries)
    /\ \A s : s = <<>> => \A i \in DOMAIN s : IsDefined(s[i])
OBVIOUS

\* Each step keeps the types.
LEMMA TypedStep ==
    ASSUME Typed, [Next]_vars
    PROVE  Typed'
<1> USE DEF Typed
<1>1. ASSUME NEW flags \in SUBSET SortFlags, SetSortOrder(flags)
      PROVE  Typed'
  BY <1>1, EmptyType DEF SetSortOrder, TypeOK, ResultDefined
<1>2. CASE Call
  BY <1>2, EmptyType DEF Call, TypeOK, ResultDefined
<1>3. ASSUME NEW r \in Entries, Collect(r)
      PROVE  Typed'
  <2>1. r \in Ranges /\ IsDefined(r)
    OBVIOUS
  <2>2. TypeOK'
    BY <1>3, <2>1 DEF Collect, TypeOK
  <2>3. \A i \in DOMAIN result' : (i \in DOMAIN result /\ result'[i] = result[i]) \/ result'[i] = r
    BY <1>3, <2>1, ResultType DEF Collect
  <2>4. ResultDefined'
    BY <2>1, <2>3 DEF ResultDefined
  <2> QED
    BY <2>2, <2>4
<1>4. CASE EndOfInput
  BY <1>4 DEF EndOfInput, TypeOK, ResultDefined
<1>5. CASE Sort
  <2>1. result' \in Seq(Ranges) /\ ResultDefined'
    <3>1. CASE result' \in StableSorts(FALSE, order, result)
      BY <3>1, SortType
    <3>2. CASE result' = result
      <4>1. result \in Seq(Ranges) /\ ResultDefined
        BY DEF TypeOK
      <4>2. ResultDefined'
        BY <3>2, <4>1, Zenon DEF ResultDefined
      <4> QED
        BY <3>2, <4>1, <4>2
    <3> QED
      BY <1>5, <3>1, <3>2 DEF Sort
  <2> QED
    BY <1>5, <2>1 DEF Sort, TypeOK
<1>6. CASE Merge
  <2>1. ResultDefined'
    <3>1. ASSUME NEW k \in 1..(Len(result) - 1)
          PROVE  IsDefined(result'[k])
      <4>1. k \in 1..Len(result) /\ k + 1 \in 1..Len(result)
        BY ResultType
      <4>2. IsDefined(result[k]) /\ IsDefined(result[k + 1])
        BY <4>1, ResultType, Zenon
      <4>3. \/ result'[k] = result[k]
            \/ result'[k] = Merged(idx)
            \/ result'[k] = result[k + 1]
        BY <1>6, MergeType
      <4>4. IsDefined(Merged(idx))
        BY <1>6, MergeType, Zenon
      <4> QED
        BY <4>2, <4>3, <4>4, Zenon
    <3>2. DOMAIN result' = 1..(Len(result) - 1)
      BY <1>6, MergeType, Zenon
    <3> QED
      BY <3>1, <3>2, Zenon DEF ResultDefined
  <2>2. TypeOK'
    BY <1>6, MergeType DEF Merge, TypeOK
  <2> QED
    BY <2>1, <2>2
<1>7. CASE KeepApart
  BY <1>7 DEF KeepApart, TypeOK, ResultDefined
<1>8. CASE MergeThrows
  BY <1>8, EmptyType DEF MergeThrows, TypeOK, ResultDefined
<1>9. CASE EndOfMerge
  BY <1>9 DEF EndOfMerge, TypeOK, ResultDefined
<1>10. CASE FamilyFirst
  <2>1. result' \in Seq(Ranges) /\ ResultDefined'
    <3>1. CASE result' \in StableSorts(TRUE, order, result)
      BY <3>1, SortType
    <3>2. CASE result' = result
      <4>1. result \in Seq(Ranges) /\ ResultDefined
        BY DEF TypeOK
      <4>2. ResultDefined'
        BY <3>2, <4>1, Zenon DEF ResultDefined
      <4> QED
        BY <3>2, <4>1, <4>2
    <3> QED
      BY <1>10, <3>1, <3>2 DEF FamilyFirst
  <2> QED
    BY <1>10, <2>1 DEF FamilyFirst, TypeOK
<1>11. CASE UNCHANGED vars
  BY <1>11 DEF vars, TypeOK, ResultDefined
<1> QED
  BY <1>1, <1>2, <1>3, <1>4, <1>5, <1>6, <1>7, <1>8, <1>9, <1>10, <1>11
     DEF Next, Run

\* The types are kept.
LEMMA TypedInvariant == Spec => []Typed
<1>1. ASSUME Init
      PROVE  Typed
  <2>1. TypeOK
    <3>1. result \in Seq(Ranges) /\ entries \in Seq(Entries)
      BY <1>1, EmptyType DEF Init
    <3>2. order \subseteq SortFlags /\ thrown \in BOOLEAN
      BY <1>1, Zenon DEF Init
    <3>3. pc = "idle" /\ idx \in Nat \ {0}
      BY <1>1 DEF Init
    <3> QED
      BY <3>1, <3>2, <3>3 DEF TypeOK
  <2>2. ResultDefined
    BY <1>1, EmptyType DEF Init, ResultDefined
  <2> QED
    BY <2>1, <2>2 DEF Typed
<1>2. Typed /\ [Next]_vars => Typed'
  BY TypedStep
<1> QED
  BY <1>1, <1>2, PTL DEF Spec

\* parse() works on a vector of ranges at all times, and idx stays an index
\* although the merge loop moves it back.
THEOREM TypeCorrect == Spec => []TypeOK
<1>1. Typed => TypeOK
  BY DEF Typed
<1> QED
  BY <1>1, TypedInvariant, PTL

-----------------------------------------------------------------------------
(* Nothing is lost, nothing is added                                       *)

\* A range more adds its addresses.
LEMMA AppendCovers ==
    ASSUME NEW s \in Seq(Ranges), NEW r \in Ranges
    PROVE  Covered(Append(s, r)) = Covered(s) \cup Addresses(r)
<1>1. /\ Len(s) \in Nat /\ DOMAIN s = 1..Len(s)
      /\ DOMAIN Append(s, r) = 1..(Len(s) + 1)
      /\ \A i \in 1..Len(s) : Append(s, r)[i] = s[i]
      /\ Append(s, r)[Len(s) + 1] = r
  OBVIOUS
<1>2. ASSUME NEW a
      PROVE  (\E i \in DOMAIN Append(s, r) : a \in Addresses(Append(s, r)[i]))
               <=> (\E i \in DOMAIN s : a \in Addresses(s[i])) \/ a \in Addresses(r)
  <2>1. ASSUME NEW i \in DOMAIN Append(s, r), a \in Addresses(Append(s, r)[i])
        PROVE  (\E j \in DOMAIN s : a \in Addresses(s[j])) \/ a \in Addresses(r)
    BY <1>1, <2>1
  <2>2. ASSUME NEW i \in DOMAIN s, a \in Addresses(s[i])
        PROVE  \E j \in DOMAIN Append(s, r) : a \in Addresses(Append(s, r)[j])
    BY <1>1, <2>2
  <2>3. ASSUME a \in Addresses(r)
        PROVE  \E j \in DOMAIN Append(s, r) : a \in Addresses(Append(s, r)[j])
    BY <1>1, <2>3
  <2> QED
    BY <2>1, <2>2, <2>3
<1> QED
  BY <1>2, Zenon DEF Covered

\* A merge of two ranges keeps the addresses.
LEMMA MergeCovers ==
    ASSUME Typed, Merge
    PROVE  Covered(result') = Covered(result)
<1> DEFINE u == Merged(idx)
<1>1. /\ Len(result) \in Nat /\ DOMAIN result = 1..Len(result)
      /\ idx \in 1..(Len(result) - 1)
      /\ DOMAIN result' = 1..(Len(result) - 1)
      /\ \A k \in 1..(Len(result) - 1) :
            result'[k] = IF k < idx THEN result[k]
                         ELSE IF k = idx THEN u ELSE result[k + 1]
  BY ResultType, MergeType
<1>2. Addresses(u) = Addresses(result[idx]) \cup Addresses(result[idx + 1])
  <2>1. /\ result[idx] \in Ranges /\ result[idx + 1] \in Ranges
        /\ u \in Ranges /\ IsDefined(u) /\ ~IsEmpty(u)
    BY <1>1, ResultType, MergeType
  <2> QED
    BY <2>1, UnionExact DEF Merged
<1> HIDE DEF u
<1>3. ASSUME NEW a, NEW k \in DOMAIN result', a \in Addresses(result'[k])
      PROVE  \E j \in DOMAIN result : a \in Addresses(result[j])
  <2>1. CASE k < idx
    BY <1>1, <1>3, <2>1
  <2>2. CASE k = idx
    BY <1>1, <1>2, <1>3, <2>2
  <2>3. CASE k > idx
    <3>1. result'[k] = result[k + 1] /\ k + 1 \in DOMAIN result
      BY <1>1, <2>3
    <3> QED
      BY <1>3, <3>1
  <2> QED
    BY <1>1, <2>1, <2>2, <2>3
<1>4. ASSUME NEW a, NEW k \in DOMAIN result, a \in Addresses(result[k])
      PROVE  \E j \in DOMAIN result' : a \in Addresses(result'[j])
  <2>1. CASE k < idx
    BY <1>1, <1>4, <2>1
  <2>2. CASE k = idx \/ k = idx + 1
    <3>1. result'[idx] = u /\ idx \in DOMAIN result'
      BY <1>1
    <3>2. a \in Addresses(u)
      BY <1>2, <1>4, <2>2
    <3> QED
      BY <3>1, <3>2
  <2>3. CASE k > idx + 1
    <3>1. k - 1 \in DOMAIN result' /\ result'[k - 1] = result[k]
      BY <1>1, <2>3
    <3> QED
      BY <1>4, <3>1
  <2> QED
    BY <1>1, <2>1, <2>2, <2>3
<1>5. ASSUME NEW a
      PROVE  (\E j \in DOMAIN result' : a \in Addresses(result'[j]))
               <=> (\E j \in DOMAIN result : a \in Addresses(result[j]))
  BY <1>3, <1>4
<1> QED
  BY <1>5, Zenon DEF Covered

\* Each step keeps the addresses.
LEMMA CoverageStep ==
    ASSUME Typed, CoverageKept, [Next]_vars
    PROVE  CoverageKept'
<1>0. result \in Seq(Ranges) /\ entries \in Seq(Ranges)
  <2>1. entries \in Seq(Entries) /\ Entries \subseteq Ranges
    BY DEF Typed, TypeOK
  <2> QED
    BY <2>1, ResultType, SeqMonotonic
<1>1. ASSUME NEW flags \in SUBSET SortFlags, SetSortOrder(flags)
      PROVE  CoverageKept'
  BY <1>1 DEF SetSortOrder, CoverageKept
<1>2. CASE Call
  BY <1>2 DEF Call, CoverageKept
<1>3. ASSUME NEW r \in Entries, Collect(r)
      PROVE  CoverageKept'
  <2>1. r \in Ranges
    OBVIOUS
  <2>2. result' = Append(result, r) /\ entries' = Append(entries, r) /\ thrown' = thrown
    BY <1>3 DEF Collect
  <2>3. /\ Covered(Append(result, r)) = Covered(result) \cup Addresses(r)
        /\ Covered(Append(entries, r)) = Covered(entries) \cup Addresses(r)
    BY <1>0, <2>1, AppendCovers
  <2> QED
    BY <2>2, <2>3 DEF CoverageKept
<1>4. CASE EndOfInput
  BY <1>4 DEF EndOfInput, CoverageKept
<1>5. CASE Sort
  <2>1. Covered(result') = Covered(result)
    BY <1>0, <1>5, SortCovers DEF Sort
  <2> QED
    BY <1>5, <2>1 DEF Sort, CoverageKept
<1>6. CASE Merge
  BY <1>6, MergeCovers DEF Merge, CoverageKept
<1>7. CASE KeepApart
  BY <1>7 DEF KeepApart, CoverageKept
<1>8. CASE MergeThrows
  BY <1>8 DEF MergeThrows, CoverageKept
<1>9. CASE EndOfMerge
  BY <1>9 DEF EndOfMerge, CoverageKept
<1>10. CASE FamilyFirst
  <2>1. Covered(result') = Covered(result)
    BY <1>0, <1>10, SortCovers DEF FamilyFirst
  <2> QED
    BY <1>10, <2>1 DEF FamilyFirst, CoverageKept
<1>11. CASE UNCHANGED vars
  BY <1>11 DEF vars, CoverageKept
<1> QED
  BY <1>1, <1>2, <1>3, <1>4, <1>5, <1>6, <1>7, <1>8, <1>9, <1>10, <1>11
     DEF Next, Run

\* Whatever the entries and the flags are, the ranges parse() holds cover at
\* every step what the entries cover: no address is lost or added.
THEOREM NoAddressIsLost == Spec => []CoverageKept
<1>1. Init => CoverageKept
  BY DEF Init, CoverageKept
<1>2. Typed /\ CoverageKept /\ [Next]_vars => CoverageKept'
  BY CoverageStep
<1> QED
  BY <1>1, <1>2, TypedInvariant, PTL DEF Spec

-----------------------------------------------------------------------------
(* The merge loop                                                          *)

\* The two ranges which are merged are not both empty: the first is not.
\* Their union starts where the first one does, and ends after it.
LEMMA MergeBounds ==
    ASSUME NEW a \in Ranges, NEW b \in Ranges, IsDefined(a), IsDefined(b),
           ~Less(b, a),
           UnionIfPossible(a, b) \in Ranges,
           IsDefined(UnionIfPossible(a, b)), ~IsEmpty(UnionIfPossible(a, b))
    PROVE  /\ ~IsEmpty(a)
           /\ Low(UnionIfPossible(a, b)).ip = Low(a).ip
           /\ High(a).ip <= High(UnionIfPossible(a, b)).ip
<1> DEFINE u == UnionIfPossible(a, b)
<1>1. /\ Low(a).ip \in Int /\ High(a).ip \in Int
      /\ Low(b).ip \in Int /\ High(b).ip \in Int
      /\ Low(u).ip \in Int /\ High(u).ip \in Int
  BY BoundsType
<1>2. /\ IsEmpty(a) <=> Low(a).ip > High(a).ip
      /\ IsEmpty(b) <=> Low(b).ip > High(b).ip
      /\ Low(u).ip <= High(u).ip
  BY <1>1, EmptyBounds
<1>3. /\ Low(u).ip = Smaller(Low(a).ip, Low(b).ip)
      /\ High(u).ip = IF High(a).ip > High(b).ip THEN High(a).ip ELSE High(b).ip
  BY UnionBounds
<1>4. \/ Low(a).ip <= High(b).ip /\ High(a).ip >= Low(b).ip
      \/ Low(a).ip - 1 = High(b).ip
      \/ High(a).ip + 1 = Low(b).ip
  BY UnionBounds DEF Touches, IsNext, IsPrevious
<1>5. ~(/\ ~IsEmpty(b)
        /\ \/ IsEmpty(a)
           \/ Low(b).ip < Low(a).ip
           \/ Low(b).ip = Low(a).ip /\ High(b).ip > High(a).ip)
  BY LessMeans
<1> HIDE DEF u
<1>6. ~IsEmpty(a)
  BY <1>1, <1>2, <1>3, <1>4, <1>5 DEF Smaller
<1>7. Low(u).ip = Low(a).ip
  <2>1. CASE IsEmpty(b)
    BY <1>1, <1>2, <1>3, <1>4, <1>6, <2>1 DEF Smaller
  <2>2. CASE ~IsEmpty(b)
    BY <1>1, <1>3, <1>5, <2>2 DEF Smaller
  <2> QED
    BY <2>1, <2>2
<1>8. High(a).ip <= High(u).ip
  BY <1>1, <1>3
<1> QED
  BY <1>6, <1>7, <1>8 DEF u

\* Each step keeps the order of the sort.
LEMMA AscendingStep ==
    ASSUME Typed, Typed', Ascending, PassedApart, [Next]_vars
    PROVE  Ascending'
<1>1. ASSUME NEW flags \in SUBSET SortFlags, SetSortOrder(flags)
      PROVE  Ascending'
  BY <1>1 DEF SetSortOrder, Ascending
<1>2. CASE Call
  BY <1>2 DEF Call, Ascending
<1>3. ASSUME NEW r \in Entries, Collect(r)
      PROVE  Ascending'
  BY <1>3 DEF Collect, Ascending
<1>4. CASE EndOfInput
  BY <1>4 DEF EndOfInput, Ascending
<1>5. CASE Sort
  <2>1. CASE order \cap {"FULL", "MERGE"} # {}
    <3>1. result' \in StableSorts(FALSE, order, result)
      BY <1>5, <2>1 DEF Sort
    <3>2. PICK p \in Bijection(DOMAIN result, DOMAIN result) :
            StableSortOf(FALSE, order, result, result', p)
      BY <3>1, SortType, Zenon
    <3>3. \A i, j \in DOMAIN result : i < j => ~Less(result'[j], result'[i])
      BY <3>2, Zenon DEF StableSortOf, Before
    <3>4. DOMAIN result' = DOMAIN result
      BY <3>1, SortType
    <3> QED
      BY <3>3, <3>4 DEF Ascending
  <2>2. CASE order \cap {"FULL", "MERGE"} = {}
    BY <1>5, <2>2 DEF Sort, Ascending
  <2> QED
    BY <2>1, <2>2
<1>6. CASE Merge
  <2> DEFINE a == result[idx]
             b == result[idx + 1]
             u == Merged(idx)
  <2>1. /\ Len(result) \in Nat /\ DOMAIN result = 1..Len(result)
        /\ idx \in 1..(Len(result) - 1)
        /\ DOMAIN result' = 1..(Len(result) - 1)
        /\ \A k \in 1..(Len(result) - 1) :
              result'[k] = IF k < idx THEN result[k]
                           ELSE IF k = idx THEN u ELSE result[k + 1]
        /\ \A k \in 1..Len(result) : result[k] \in Ranges /\ IsDefined(result[k])
        /\ u \in Ranges /\ IsDefined(u) /\ ~IsEmpty(u)
    BY <1>6, ResultType, MergeType
  <2>2. \A i, j \in 1..Len(result) : i < j => ~Less(result[j], result[i])
    BY <1>6, <2>1 DEF Merge, Ascending
  <2>3. ~IsEmpty(a) /\ Low(u).ip = Low(a).ip /\ High(a).ip <= High(u).ip
    <3>1. a \in Ranges /\ b \in Ranges /\ IsDefined(a) /\ IsDefined(b) /\ ~Less(b, a)
      <4>1. /\ idx \in 1..Len(result) /\ idx + 1 \in 1..Len(result) /\ idx < idx + 1
        BY <2>1
      <4> QED
        BY <2>1, <2>2, <4>1, Zenon
    <3>2. u = UnionIfPossible(a, b)
      BY DEF Merged
    <3> HIDE DEF a, b, u
    <3> QED
      BY <2>1, <3>1, <3>2, MergeBounds
  <2>4. a \in Ranges /\ IsDefined(a)
    BY <2>1
  <2>5. /\ Low(a).ip \in Int /\ High(a).ip \in Int
        /\ Low(u).ip \in Int /\ High(u).ip \in Int
    BY <2>1, <2>4, BoundsType
  <2>6. ASSUME NEW i \in 1..Len(result), i < idx
        PROVE  ~Less(u, result[i])
    <3> DEFINE x == result[i]
    <3>1. x \in Ranges /\ IsDefined(x) /\ Low(x).ip \in Int /\ High(x).ip \in Int
      BY <2>1, BoundsType
    <3>2. ~Less(a, x)
      BY <2>1, <2>2, <2>6
    <3>3. High(x).ip + 1 < Low(a).ip
      <4>1. pc = "merge" /\ i \in DOMAIN result /\ idx \in DOMAIN result
        BY <1>6, <2>1 DEF Merge
      <4>2. i < idx /\ ~IsEmpty(result[idx])
        BY <2>3, <2>6
      <4>3. High(result[i]).ip + 1 < Low(result[idx]).ip
        BY <4>1, <4>2 DEF PassedApart
      <4> QED
        BY <4>3
    <3> HIDE DEF x, a, u
    <3>4. ~IsEmpty(x)
      BY <2>3, <2>4, <3>1, <3>2, LessMeans
    <3>5. Low(x).ip <= High(x).ip
      BY <3>1, <3>4, EmptyBounds
    <3>6. Low(x).ip < Low(u).ip
      BY <2>3, <2>5, <3>1, <3>3, <3>5
    <3>7. ~Less(u, x)
      <4>1. /\ ~(Low(u).ip < Low(x).ip) /\ Low(u).ip # Low(x).ip
        BY <2>5, <3>1, <3>6
      <4>2. u \in Ranges /\ IsDefined(u)
        BY <2>1, Zenon
      <4> QED
        BY <3>1, <3>4, <4>1, <4>2, LessMeans, Zenon
    <3> QED
      BY <3>7 DEF x
  <2>7. ASSUME NEW j \in 1..Len(result), idx < j
        PROVE  ~Less(result[j], u)
    <3> DEFINE y == result[j]
    <3>1. y \in Ranges /\ IsDefined(y) /\ Low(y).ip \in Int /\ High(y).ip \in Int
      BY <2>1, BoundsType
    <3>2. ~Less(y, a)
      BY <2>1, <2>2, <2>7
    <3> HIDE DEF y, a, u
    <3>3. ~(/\ ~IsEmpty(y)
            /\ \/ Low(y).ip < Low(a).ip
               \/ Low(y).ip = Low(a).ip /\ High(y).ip > High(a).ip)
      BY <2>4, <3>1, <3>2, LessMeans
    <3>4. ~(/\ ~IsEmpty(y)
            /\ \/ Low(y).ip < Low(u).ip
               \/ Low(y).ip = Low(u).ip /\ High(y).ip > High(u).ip)
      BY <2>3, <2>5, <3>1, <3>3
    <3>5. ~Less(y, u)
      BY <2>1, <3>1, <3>4, LessMeans
    <3> QED
      BY <3>5 DEF y
  <2> HIDE DEF a, b, u
  <2>8. ASSUME NEW i \in DOMAIN result', NEW j \in DOMAIN result', i < j
        PROVE  ~Less(result'[j], result'[i])
    <3>1. CASE j < idx
      BY <2>1, <2>2, <2>8, <3>1, SMTT(30)
    <3>2. CASE j = idx
      <4>1. result'[j] = u /\ result'[i] = result[i] /\ i < idx /\ i \in 1..Len(result)
        BY <2>1, <2>8, <3>2
      <4> QED
        BY <2>6, <4>1
    <3>3. CASE idx < j
      <4>1. result'[j] = result[j + 1] /\ j + 1 \in 1..Len(result)
        BY <2>1, <2>8, <3>3
      <4>2. CASE i < idx
        BY <2>1, <2>2, <2>8, <3>3, <4>1, <4>2
      <4>3. CASE i = idx
        BY <2>1, <2>7, <2>8, <3>3, <4>1, <4>3
      <4>4. CASE idx < i
        BY <2>1, <2>2, <2>8, <3>3, <4>1, <4>4
      <4> QED
        BY <2>1, <4>2, <4>3, <4>4
    <3> QED
      BY <2>1, <3>1, <3>2, <3>3
  <2> QED
    BY <2>8 DEF Ascending
<1>7. CASE KeepApart
  BY <1>7 DEF KeepApart, Ascending
<1>8. CASE MergeThrows
  BY <1>8 DEF MergeThrows, Ascending
<1>9. CASE EndOfMerge
  BY <1>9 DEF EndOfMerge, Ascending
<1>10. CASE FamilyFirst
  BY <1>10 DEF FamilyFirst, Ascending
<1>11. CASE UNCHANGED vars
  BY <1>11 DEF vars, Ascending
<1> QED
  BY <1>1, <1>2, <1>3, <1>4, <1>5, <1>6, <1>7, <1>8, <1>9, <1>10, <1>11
     DEF Next, Run

\* Each step keeps apart the ranges behind idx.
LEMMA PassedApartStep ==
    ASSUME Typed, Typed', Ascending, PassedApart, [Next]_vars
    PROVE  PassedApart'
<1>1. ASSUME NEW flags \in SUBSET SortFlags, SetSortOrder(flags)
      PROVE  PassedApart'
  BY <1>1 DEF SetSortOrder, PassedApart
<1>2. CASE Call
  BY <1>2 DEF Call, PassedApart
<1>3. ASSUME NEW r \in Entries, Collect(r)
      PROVE  PassedApart'
  BY <1>3 DEF Collect, PassedApart
<1>4. CASE EndOfInput
  BY <1>4 DEF EndOfInput, PassedApart
<1>5. CASE Sort
  <2>1. DOMAIN result' = 1..Len(result') /\ idx' = 1
    BY <1>5, ResultType DEF Sort, Typed, TypeOK
  <2>2. \A i \in DOMAIN result' : ~(i < idx')
    BY <2>1
  <2> QED
    BY <2>2 DEF PassedApart
<1>6. CASE Merge
  <2> DEFINE a == result[idx]
             b == result[idx + 1]
             u == Merged(idx)
  <2>1. /\ Len(result) \in Nat /\ DOMAIN result = 1..Len(result)
        /\ idx \in 1..(Len(result) - 1)
        /\ DOMAIN result' = 1..(Len(result) - 1)
        /\ \A k \in 1..(Len(result) - 1) :
              result'[k] = IF k < idx THEN result[k]
                           ELSE IF k = idx THEN u ELSE result[k + 1]
        /\ \A k \in 1..Len(result) : result[k] \in Ranges /\ IsDefined(result[k])
        /\ u \in Ranges /\ IsDefined(u) /\ ~IsEmpty(u)
    BY <1>6, ResultType, MergeType
  <2>2. pc = "merge" /\ idx' = idx
    BY <1>6 DEF Merge
  <2>3. ~IsEmpty(a) /\ Low(u).ip = Low(a).ip
    <3>1. a \in Ranges /\ b \in Ranges /\ IsDefined(a) /\ IsDefined(b) /\ ~Less(b, a)
      BY <2>1, <2>2, SMTT(30) DEF Ascending
    <3>2. u = UnionIfPossible(a, b)
      BY DEF Merged
    <3> HIDE DEF a, b, u
    <3> QED
      BY <2>1, <3>1, <3>2, MergeBounds
  <2> HIDE DEF b, u
  <2>4. ASSUME NEW i \in DOMAIN result', NEW j \in DOMAIN result',
               i < idx', i < j, ~IsEmpty(result'[j])
        PROVE  High(result'[i]).ip + 1 < Low(result'[j]).ip
    <3>1. i \in DOMAIN result /\ result'[i] = result[i] /\ i < idx
      BY <2>1, <2>2, <2>4
    <3>2. CASE j < idx
      <4>1. j \in DOMAIN result /\ result'[j] = result[j]
        BY <2>1, <3>2
      <4> QED
        BY <2>2, <2>4, <3>1, <4>1 DEF PassedApart
    <3>3. CASE j = idx
      <4>1. idx \in DOMAIN result /\ result'[j] = u
        BY <2>1, <3>3
      <4>2. High(result[i]).ip + 1 < Low(result[idx]).ip
        BY <2>2, <2>3, <3>1, <4>1 DEF PassedApart
      <4> QED
        BY <2>3, <3>1, <4>1, <4>2
    <3>4. CASE idx < j
      <4>1. j + 1 \in DOMAIN result /\ result'[j] = result[j + 1] /\ i < j + 1
        BY <2>1, <2>4, <3>4
      <4> QED
        BY <2>2, <2>4, <3>1, <4>1 DEF PassedApart
    <3> QED
      BY <2>1, <3>2, <3>3, <3>4
  <2> QED
    BY <2>4 DEF PassedApart
<1>7. CASE KeepApart
  <2> DEFINE a == result[idx]
             b == result[idx + 1]
             u == UnionIfPossible(a, b)
  <2>1. /\ pc = "merge" /\ idx' = idx + 1 /\ result' = result
        /\ idx \in 1..(Len(result) - 1)
        /\ ~UnionThrows(a, b)
        /\ IsDefined(u) => IsEmpty(u)
    BY <1>7, ResultType DEF KeepApart, CanMerge, Merged, Typed, TypeOK
  <2>2. /\ Len(result) \in Nat /\ DOMAIN result = 1..Len(result)
        /\ \A k \in 1..Len(result) : result[k] \in Ranges /\ IsDefined(result[k])
    BY ResultType
  <2>3. \A i, j \in 1..Len(result) : i < j => ~Less(result[j], result[i])
    BY <2>1, <2>2 DEF Ascending
  <2>4. a \in Ranges /\ IsDefined(a) /\ b \in Ranges /\ IsDefined(b)
    BY <2>1, <2>2
  <2>5. /\ Low(a).ip \in Int /\ High(a).ip \in Int
        /\ Low(b).ip \in Int /\ High(b).ip \in Int
    BY <2>4, BoundsType
  <2>6. ASSUME NEW j \in 1..Len(result), idx < j, ~IsEmpty(result[j])
        PROVE  High(a).ip + 1 < Low(result[j]).ip
    <3> DEFINE y == result[j]
    <3>1. y \in Ranges /\ IsDefined(y) /\ Low(y).ip \in Int /\ High(y).ip \in Int
      BY <2>2, BoundsType
    <3>2. ~Less(b, a) /\ (y = b \/ ~Less(y, b))
      <4>1. CASE j = idx + 1
        BY <2>1, <2>3, <4>1
      <4>2. CASE j # idx + 1
        BY <2>1, <2>3, <2>6, <4>2
      <4> QED
        BY <4>1, <4>2
    <3> HIDE DEF y, a, b
    <3>3. ~IsEmpty(b) /\ Low(b).ip <= Low(y).ip
      <4>1. CASE y = b
        BY <2>5, <2>6, <4>1 DEF y
      <4>2. CASE ~Less(y, b)
        <5>1. ~IsEmpty(y)
          BY <2>6 DEF y
        <5> QED
          BY <2>4, <2>5, <3>1, <4>2, <5>1, LessMeans
      <4> QED
        BY <3>2, <4>1, <4>2
    <3>4. ~IsEmpty(a) /\ Low(a).ip <= Low(b).ip
      BY <2>4, <2>5, <3>2, <3>3, LessMeans
    <3>5. Apart(a, b)
      <4>1. u \in Ranges
        BY <2>1, <2>4, UnionType DEF a, b
      <4> QED
        BY <2>1, <2>4, <3>3, <3>4, <4>1, NoUnionApart
    <3>6. Low(b).ip <= High(b).ip
      BY <2>4, <2>5, <3>3, EmptyBounds
    <3>7. High(a).ip + 1 < Low(y).ip
      BY <2>5, <3>1, <3>3, <3>4, <3>5, <3>6, SMTT(30) DEF Apart
    <3> QED
      BY <3>7 DEF y
  <2>7. ASSUME NEW i \in DOMAIN result, NEW j \in DOMAIN result,
               i < idx + 1, i < j, ~IsEmpty(result[j])
        PROVE  High(result[i]).ip + 1 < Low(result[j]).ip
    <3>1. CASE i < idx
      BY <2>1, <2>7, <3>1 DEF PassedApart
    <3>2. CASE i = idx
      BY <2>2, <2>6, <2>7, <3>2
    <3> QED
      BY <2>1, <2>2, <2>7, <3>1, <3>2
  <2> HIDE DEF a, b, u
  <2> QED
    BY <2>1, <2>7 DEF PassedApart
<1>8. CASE MergeThrows
  BY <1>8 DEF MergeThrows, PassedApart
<1>9. CASE EndOfMerge
  BY <1>9 DEF EndOfMerge, PassedApart
<1>10. CASE FamilyFirst
  BY <1>10 DEF FamilyFirst, PassedApart
<1>11. CASE UNCHANGED vars
  BY <1>11 DEF vars, PassedApart
<1> QED
  BY <1>1, <1>2, <1>3, <1>4, <1>5, <1>6, <1>7, <1>8, <1>9, <1>10, <1>11
     DEF Next, Run

\* The invariant of the merge loop.
LEMMA LoopInvariant == Spec => [](Typed /\ Ascending /\ PassedApart)
<1>1. Init => Ascending /\ PassedApart
  BY DEF Init, Ascending, PassedApart
<1>2. Typed /\ Typed' /\ Ascending /\ PassedApart /\ [Next]_vars
        => Ascending' /\ PassedApart'
  BY AscendingStep, PassedApartStep
<1> QED
  BY <1>1, <1>2, TypedInvariant, PTL DEF Spec

\* Each step leaves the ranges apart once they are merged.
LEMMA MergedApartStep ==
    ASSUME Typed, PassedApart, MergedApart, [Next]_vars
    PROVE  MergedApart'
<1>1. ASSUME NEW flags \in SUBSET SortFlags, SetSortOrder(flags)
      PROVE  MergedApart'
  BY <1>1 DEF SetSortOrder, MergedApart
<1>2. CASE Call
  BY <1>2 DEF Call, MergedApart
<1>3. ASSUME NEW r \in Entries, Collect(r)
      PROVE  MergedApart'
  BY <1>3 DEF Collect, MergedApart
<1>4. CASE EndOfInput
  BY <1>4 DEF EndOfInput, MergedApart
<1>5. CASE Sort
  BY <1>5 DEF Sort, MergedApart
<1>6. CASE Merge
  BY <1>6 DEF Merge, MergedApart
<1>7. CASE KeepApart
  BY <1>7 DEF KeepApart, MergedApart
<1>8. CASE MergeThrows
  BY <1>8 DEF MergeThrows, MergedApart
<1>9. CASE EndOfMerge
  <2>1. /\ Len(result) \in Nat /\ DOMAIN result = 1..Len(result)
        /\ pc = "merge" /\ idx >= Len(result) /\ idx \in Nat
        /\ result' = result
    BY <1>9, ResultType DEF EndOfMerge, Typed, TypeOK
  <2>2. ASSUME NEW i \in DOMAIN result, NEW j \in DOMAIN result, i # j,
               ~IsEmpty(result[i]), ~IsEmpty(result[j])
        PROVE  Apart(result[i], result[j])
    <3>1. CASE i < j
      BY <2>1, <2>2, <3>1 DEF PassedApart, Apart
    <3>2. CASE j < i
      BY <2>1, <2>2, <3>2 DEF PassedApart, Apart
    <3> QED
      BY <2>1, <2>2, <3>1, <3>2
  <2> QED
    BY <2>1, <2>2 DEF MergedApart
<1>10. CASE FamilyFirst
  <2>1. CASE result' = result
    BY <1>10, <2>1 DEF FamilyFirst, MergedApart
  <2>2. CASE result' \in StableSorts(TRUE, order, result)
    <3>1. PICK p \in Bijection(DOMAIN result, DOMAIN result) :
            StableSortOf(TRUE, order, result, result', p)
      BY <2>2, SortType, Zenon
    <3>2. /\ \A i \in DOMAIN result : p[i] \in DOMAIN result /\ result'[i] = result[p[i]]
          /\ \A i, j \in DOMAIN result : p[i] = p[j] => i = j
      BY <3>1, Zenon DEF StableSortOf
    <3>3. DOMAIN result' = DOMAIN result /\ order' = order /\ pc = "family"
      BY <1>10, <2>2, SortType DEF FamilyFirst
    <3>4. ASSUME NEW i \in DOMAIN result', NEW j \in DOMAIN result', i # j,
                 "MERGE" \in order,
                 ~IsEmpty(result'[i]), ~IsEmpty(result'[j])
          PROVE  Apart(result'[i], result'[j])
      BY <3>2, <3>3, <3>4 DEF MergedApart
    <3> QED
      BY <3>3, <3>4 DEF MergedApart
  <2> QED
    BY <1>10, <2>1, <2>2 DEF FamilyFirst
<1>11. CASE UNCHANGED vars
  BY <1>11 DEF vars, MergedApart
<1> QED
  BY <1>1, <1>2, <1>3, <1>4, <1>5, <1>6, <1>7, <1>8, <1>9, <1>10, <1>11
     DEF Next, Run

\* For inputs of any length, the single pass of the merge loop leaves no two
\* ranges which could still be merged.
THEOREM OnePassIsEnough == Spec => []MergedApart
<1>1. Init => MergedApart
  BY DEF Init, MergedApart
<1>2. Typed /\ PassedApart /\ MergedApart /\ [Next]_vars => MergedApart'
  BY MergedApartStep
<1> QED
  BY <1>1, <1>2, LoopInvariant, PTL DEF Spec

-----------------------------------------------------------------------------
(* The order of the result                                                 *)

\* Each step leaves the result in the order asked for.
LEMMA OrderedStep ==
    ASSUME Typed, Typed', Ascending, Ordered, [Next]_vars
    PROVE  Ordered'
<1>1. ASSUME NEW flags \in SUBSET SortFlags, SetSortOrder(flags)
      PROVE  Ordered'
  BY <1>1 DEF SetSortOrder, Ordered
<1>2. CASE Call
  BY <1>2 DEF Call, Ordered
<1>3. ASSUME NEW r \in Entries, Collect(r)
      PROVE  Ordered'
  BY <1>3 DEF Collect, Ordered
<1>4. CASE EndOfInput
  BY <1>4 DEF EndOfInput, Ordered
<1>5. CASE Sort
  BY <1>5 DEF Sort, Ordered
<1>6. CASE Merge
  BY <1>6 DEF Merge, Ordered
<1>7. CASE KeepApart
  BY <1>7 DEF KeepApart, Ordered
<1>8. CASE MergeThrows
  BY <1>8 DEF MergeThrows, Ordered
<1>9. CASE EndOfMerge
  BY <1>9 DEF EndOfMerge, Ordered
<1>10. CASE FamilyFirst
  <2>1. pc = "family" /\ order' = order
    BY <1>10 DEF FamilyFirst
  <2>2. ASSUME order \cap {"FULL", "MERGE"} # {}
        PROVE  \A i, j \in DOMAIN result : i < j => ~Less(result[j], result[i])
    BY <2>1, <2>2 DEF Ascending
  <2>3. CASE ~SortsFamilies
    <3>1. result' = result
      BY <1>10, <2>3 DEF FamilyFirst, SortsFamilies
    <3>2. \A r : Group(r)' = 0
      BY <2>1, <2>3 DEF Group, SortsFamilies
    <3> QED
      BY <2>1, <2>2, <3>1, <3>2 DEF Ordered
  <2>4. CASE SortsFamilies
    <3>1. result' \in StableSorts(TRUE, order, result)
      BY <1>10, <2>4 DEF FamilyFirst, SortsFamilies
    <3>2. PICK p \in Bijection(DOMAIN result, DOMAIN result) :
            StableSortOf(TRUE, order, result, result', p)
      BY <3>1, SortType, Zenon
    <3>3. DOMAIN result' = DOMAIN result
      BY <3>1, SortType
    <3>4. /\ \A i \in DOMAIN result : p[i] \in DOMAIN result /\ result'[i] = result[p[i]]
          /\ \A i, j \in DOMAIN result :
                i < j => /\ ~FamilyBefore(order, result'[j], result'[i])
                         /\ p[i] < p[j] \/ FamilyBefore(order, result'[i], result'[j])
      BY <3>2, Zenon DEF StableSortOf, Before
    <3>5. \A i \in DOMAIN result : result'[i] \in Ranges /\ IsDefined(result'[i])
      BY <3>4, ResultType
    <3>6. ASSUME NEW i \in DOMAIN result, NEW j \in DOMAIN result, i < j
          PROVE  /\ FamilyRank(order, result'[i]) <= FamilyRank(order, result'[j])
                 /\ (/\ order \cap {"FULL", "MERGE"} # {}
                     /\ FamilyRank(order, result'[i]) = FamilyRank(order, result'[j]))
                    => ~Less(result'[j], result'[i])
      <4>1. /\ FamilyRank(order, result'[i]) \in 0..2
            /\ FamilyRank(order, result'[j]) \in 0..2
        BY DEF FamilyRank
      <4>2. ~(FamilyRank(order, result'[j]) < FamilyRank(order, result'[i]))
        BY <3>4, <3>5, <3>6, FamilyBeforeMeans
      <4>3. ASSUME order \cap {"FULL", "MERGE"} # {},
                   FamilyRank(order, result'[i]) = FamilyRank(order, result'[j])
            PROVE  ~Less(result'[j], result'[i])
        <5>1. ~FamilyBefore(order, result'[i], result'[j])
          BY <3>5, <4>1, <4>3, FamilyBeforeMeans
        <5>2. p[i] < p[j]
          BY <3>4, <3>6, <5>1
        <5> QED
          BY <2>2, <3>4, <4>3, <5>2
      <4> QED
        BY <4>1, <4>2, <4>3
    <3>7. \A r : Group(r)' = FamilyRank(order, r)
      BY <2>1, <2>4 DEF Group, SortsFamilies
    <3> QED
      BY <2>1, <3>3, <3>6, <3>7 DEF Ordered
  <2> QED
    BY <2>3, <2>4
<1>11. CASE UNCHANGED vars
  BY <1>11 DEF vars, Ordered, Group, SortsFamilies
<1> QED
  BY <1>1, <1>2, <1>3, <1>4, <1>5, <1>6, <1>7, <1>8, <1>9, <1>10, <1>11
     DEF Next, Run

\* What parse() returns is grouped by family as asked for, empty ranges last,
\* and ascending in each group when it was sorted or merged.
THEOREM ResultIsOrdered == Spec => []Ordered
<1>1. Init => Ordered
  BY DEF Init, Ordered
<1>2. Typed /\ Typed' /\ Ascending /\ Ordered /\ [Next]_vars => Ordered'
  BY OrderedStep
<1> QED
  BY <1>1, <1>2, LoopInvariant, PTL DEF Spec

-----------------------------------------------------------------------------
(* The order of the input                                                  *)

\* Until it is sorted, the result is what was collected.
Collected ==
    /\ pc = "merge" => "MERGE" \in order
    /\ pc \in {"collect", "sort"} => result = entries
    /\ pc = "family" /\ order \cap {"FULL", "MERGE"} = {} => result = entries

\* Until it is sorted, the result is the entries.
LEMMA CollectedStep ==
    ASSUME Collected, [Next]_vars
    PROVE  Collected'
<1>1. CASE Call \/ EndOfInput \/ Sort \/ EndOfMerge
  BY <1>1 DEF Collected, Call, EndOfInput, Sort, EndOfMerge
<1>2. ASSUME NEW r \in Entries, Collect(r)
      PROVE  Collected'
  BY <1>2 DEF Collected, Collect
<1>3. ASSUME NEW flags \in SUBSET SortFlags, SetSortOrder(flags)
      PROVE  Collected'
  BY <1>3 DEF Collected, SetSortOrder
<1>4. CASE Merge \/ KeepApart
  BY <1>4 DEF Collected, Merge, KeepApart
<1>5. CASE MergeThrows \/ FamilyFirst
  BY <1>5 DEF Collected, MergeThrows, FamilyFirst
<1>6. CASE UNCHANGED vars
  BY <1>6 DEF Collected, vars
<1> QED
  BY <1>1, <1>2, <1>3, <1>4, <1>5, <1>6 DEF Next, Run

\* A sequence is itself in its own order.
LEMMA IdentityOrder ==
    ASSUME NEW T, NEW s \in Seq(T)
    PROVE  \E p \in Bijection(DOMAIN s, DOMAIN s) :
              /\ s = Reordered(s, p)
              /\ \A i, j \in DOMAIN s : i < j => p[i] < p[j]
<1> DEFINE p == [i \in DOMAIN s |-> i]
<1>1. p \in Bijection(DOMAIN s, DOMAIN s)
  BY DEF Bijection, Injection, Surjection, IsInjective
<1>2. s = [i \in DOMAIN s |-> s[i]]
  OBVIOUS
<1>3. s = Reordered(s, p)
  BY <1>2 DEF Reordered
<1>4. \A i, j \in DOMAIN s : i < j => p[i] < p[j]
  OBVIOUS
<1> HIDE DEF p
<1> QED
  BY <1>1, <1>3, <1>4

\* Each sort keeps the order of equivalent ranges.
LEMMA OrderKeptStep ==
    ASSUME Typed, Collected, OrderKept, [Next]_vars
    PROVE  OrderKept'
<1>1. CASE pc' # "idle" \/ order' \cap {"FULL", "MERGE"} # {}
  BY <1>1 DEF OrderKept
<1>2. CASE Call \/ EndOfInput \/ Sort \/ Merge \/ KeepApart \/ EndOfMerge
  <2>1. pc' # "idle"
    BY <1>2 DEF Call, EndOfInput, Sort, Merge, KeepApart, EndOfMerge
  <2> QED
    BY <1>1, <2>1
<1>3. ASSUME NEW r \in Entries, Collect(r)
      PROVE  OrderKept'
  BY <1>1, <1>3 DEF Collect
<1>4. ASSUME NEW flags \in SUBSET SortFlags, SetSortOrder(flags)
      PROVE  OrderKept'
  <2>1. result' = <<>> /\ entries' = <<>> /\ <<>> \in Seq(Ranges)
    BY <1>4, EmptyType DEF SetSortOrder
  <2>2. \A i, j : ~(i \in DOMAIN entries')
    BY <2>1
  <2>3. \E p \in Bijection(DOMAIN entries', DOMAIN entries') : result' = Reordered(entries', p)
    BY <2>1, IdentityOrder
  <2> QED
    BY <2>2, <2>3 DEF OrderKept
<1>5. CASE MergeThrows
  <2>1. order' \cap {"FULL", "MERGE"} # {}
    BY <1>5 DEF MergeThrows, Collected
  <2> QED
    BY <1>1, <2>1
<1>6. CASE FamilyFirst
  <2> SUFFICES ASSUME order \cap {"FULL", "MERGE"} = {}
               PROVE  OrderKept'
    BY <1>1, <1>6 DEF FamilyFirst
  <2>1. result = entries /\ order' = order /\ entries' = entries
    BY <1>6 DEF FamilyFirst, Collected
  <2>2. CASE ~SortsFamilies
    <3>1. result' = entries' /\ entries' \in Seq(Ranges)
      BY <1>6, <2>1, <2>2, ResultType DEF FamilyFirst, SortsFamilies
    <3> QED
      BY <3>1, IdentityOrder DEF OrderKept
  <2>3. CASE SortsFamilies
    <3>1. result' \in StableSorts(TRUE, order, result)
      BY <1>6, <2>3 DEF FamilyFirst, SortsFamilies
    <3>2. PICK p \in Bijection(DOMAIN result, DOMAIN result) :
            /\ result' = Reordered(result, p)
            /\ \A i, j \in DOMAIN result :
                  i < j => p[i] < p[j] \/ FamilyBefore(order, result[p[i]], result[p[j]])
      BY <3>1, Zenon DEF StableSorts, Before
    <3>3. \A i \in DOMAIN result : p[i] \in DOMAIN result /\ result'[i] = result[p[i]]
      BY <3>2 DEF Reordered, Bijection, Injection
    <3>4. ASSUME NEW i \in DOMAIN result, NEW j \in DOMAIN result, i < j,
                 FamilyRank(order, result'[i]) = FamilyRank(order, result'[j])
          PROVE  p[i] < p[j]
      <4>1. /\ result'[i] \in Ranges /\ IsDefined(result'[i])
            /\ result'[j] \in Ranges /\ IsDefined(result'[j])
        BY <3>3, ResultType
      <4>2. FamilyRank(order, result'[i]) \in 0..2
        BY DEF FamilyRank
      <4>3. ~FamilyBefore(order, result'[i], result'[j])
        BY <3>4, <4>1, <4>2, FamilyBeforeMeans
      <4> QED
        BY <3>2, <3>3, <3>4, <4>3
    <3>5. \A r : Group(r)' = FamilyRank(order, r)
      BY <2>1, <2>3 DEF Group, SortsFamilies
    <3>6. \A i, j \in DOMAIN entries' :
             i < j /\ Group(result[i])' = Group(result[j])' => p[i] < p[j]
      BY <2>1, <3>4, <3>5
    <3> QED
      BY <2>1, <3>2, <3>6 DEF OrderKept
  <2> QED
    BY <2>2, <2>3
<1>7. CASE UNCHANGED vars
  BY <1>7 DEF vars, OrderKept, Group, SortsFamilies
<1> QED
  BY <1>2, <1>3, <1>4, <1>5, <1>6, <1>7 DEF Next, Run

\* When parse() is not asked to sort or merge, what it returns is a
\* permutation of the entries of the input which keeps the order of those of
\* a family and of the empty ones.
THEOREM InputOrderIsKept == Spec => []OrderKept
<1>1. ASSUME Init
      PROVE  Collected /\ OrderKept
  <2>1. result = <<>> /\ entries = <<>> /\ <<>> \in Seq(Ranges)
    BY <1>1, EmptyType DEF Init
  <2>2. \E p \in Bijection(DOMAIN entries, DOMAIN entries) : result = Reordered(entries, p)
    BY <2>1, IdentityOrder
  <2>3. \A i, j : ~(i \in DOMAIN entries)
    BY <2>1
  <2> QED
    BY <1>1, <2>2, <2>3 DEF Init, Collected, OrderKept
<1>2. Typed /\ Collected /\ OrderKept /\ [Next]_vars => Collected' /\ OrderKept'
  BY CollectedStep, OrderKeptStep
<1> QED
  BY <1>1, <1>2, TypedInvariant, PTL DEF Spec

=============================================================================
