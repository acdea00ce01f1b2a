---------------------------- MODULE Stream_proofs ----------------------------
(***************************************************************************)
(* Proofs about the streams: StreamBridge for every limit of the bridge,   *)
(* every weight and every length of a behaviour, and StreamMailbox for     *)
(* every number of producers as well.                                      *)
(*                                                                         *)
(* The first part is about what both are built from: the weight of a queue *)
(* and the turns of DrainUpTo are recursive functions; Recursion shows     *)
(* that such a function exists and UpTo is the induction along it.         *)
(*                                                                         *)
(* The bridge's inductive invariant Linked ties its record to what the     *)
(* consumer has been given: which events may still come after the ones     *)
(* already seen.  A drain keeps it turn by turn.                           *)
(*                                                                         *)
(* The mailbox's inductive invariant comes in four parts, each inductive   *)
(* over the ones before it:                                                *)
(*                                                                         *)
(*   Shape    types, and what the UI thread's place in a call says of the  *)
(*            deferred event, of the event in its hand and of disposal     *)
(*   Flights  wakeCallbacksInFlight counts the threads inside a callback,  *)
(*            so a zero counter means nobody uses the old wake context     *)
(*   Content  the item counter and the order of the waiting events         *)
(*   Accounts the weight counter, and the path on which the waiting events *)
(*            take the bridge to the producers' view of the stream         *)
(*                                                                         *)
(* and NoLostWake needs only Shape and the reason why a pending wake is on *)
(* its way.                                                                *)
(***************************************************************************)
EXTENDS StreamBridge, StreamMailbox, TLAPS, FiniteSetTheorems,
        SequenceTheorems, WellFoundedInduction

-----------------------------------------------------------------------------
\* Every nonempty set of numbers has a least one.
LEMMA NatMinimum ==
  ASSUME NEW S \in SUBSET Nat, S # {}
  PROVE  \E m \in S : \A k \in S : m <= k
<1> DEFINE R == OpToRel(<, Nat)
<1>1. IsWellFoundedOn(R, Nat)
  BY NatLessThanWellFounded
<1>2. \A j, k \in Nat : <<j, k>> \in R <=> j < k
  BY DEF OpToRel
<1> HIDE DEF R
<1>3. PICK m \in S : \A k \in S : <<k, m>> \notin R
  BY <1>1, WFMin
<1>4. \A k \in S : ~(k < m)
  BY <1>2, <1>3
<1>5. m \in Nat /\ S \subseteq Nat
  OBVIOUS
<1> QED
  BY <1>4, <1>5

\* Induction up to N, on a set instead of a predicate.
LEMMA UpTo ==
  ASSUME NEW S, NEW N \in Nat, 0 \in S,
         \A n \in 1 .. N : n - 1 \in S => n \in S
  PROVE  \A n \in 0 .. N : n \in S
<1> SUFFICES ASSUME NEW n \in 0 .. N, n \notin S PROVE FALSE
  OBVIOUS
<1> DEFINE Bad == {k \in 0 .. N : k \notin S}
<1>1. Bad \in SUBSET Nat /\ Bad # {}
  OBVIOUS
<1>2. PICK m \in Bad : \A k \in Bad : m <= k
  <2> HIDE DEF Bad
  <2> QED BY <1>1, NatMinimum
<1>3. m \in 0 .. N /\ m \notin S /\ m # 0
  OBVIOUS
<1>4. m \in 1 .. N /\ m - 1 \in 0 .. N /\ ~(m <= m - 1)
  BY <1>3
<1>5. m - 1 \in S
  BY <1>2, <1>4
<1> QED BY <1>3, <1>4, <1>5

\* f starts with b and takes each further value from the one before it.
Obeys(f, b, n, g) == f[0] = b /\ \A i \in 1 .. n : f[i] = g[i][f[i - 1]]

\* A function defined by recursion on its predecessor's value exists: it is
\* glued from the functions on 0 .. n that obey the recursion.
LEMMA Recursion ==
  ASSUME NEW D, NEW b \in D, NEW N \in Nat, NEW g \in [1 .. N -> [D -> D]]
  PROVE  \E f \in [0 .. N -> D] : Obeys(f, b, N, g)
<1> USE DEF Obeys
<1> DEFINE Long == {n \in 0 .. N : \E f \in [0 .. N -> D] : Obeys(f, b, n, g)}
<1>1. 0 \in Long
  <2>1. [i \in 0 .. N |-> b] \in [0 .. N -> D] /\ 0 \in 0 .. N
    OBVIOUS
  <2>2. Obeys([i \in 0 .. N |-> b], b, 0, g)
    OBVIOUS
  <2> QED BY <2>1, <2>2
<1>2. \A n \in 1 .. N : n - 1 \in Long => n \in Long
  <2> SUFFICES ASSUME NEW n \in 1 .. N, n - 1 \in Long PROVE n \in Long
    OBVIOUS
  <2>1. PICK f \in [0 .. N -> D] : Obeys(f, b, n - 1, g)
    OBVIOUS
  <2>2. n - 1 \in 0 .. N /\ n \in 0 .. N /\ n # 0
    OBVIOUS
  <2>3. f[n - 1] \in D
    BY <2>2
  <2> DEFINE next == g[n][f[n - 1]]
             h    == [i \in 0 .. N |-> IF i = n THEN next ELSE f[i]]
  <2>4. next \in D
    BY <2>3
  <2> HIDE DEF next
  <2>5. h \in [0 .. N -> D]
    BY <2>4
  <2>6. h[0] = b
    BY <2>1, <2>2
  <2>7. ASSUME NEW i \in 1 .. n PROVE h[i] = g[i][h[i - 1]]
    <3>1. i - 1 \in 0 .. N /\ i \in 0 .. N /\ i - 1 # n
      OBVIOUS
    <3>2. h[i - 1] = f[i - 1]
      BY <3>1
    <3>3. CASE i = n
      BY <3>1, <3>2, <3>3 DEF next
    <3>4. CASE i # n
      <4>1. i \in 1 .. n - 1 /\ h[i] = f[i]
        BY <3>1, <3>4
      <4> QED BY <4>1, <3>2, <2>1
    <3> QED BY <3>3, <3>4
  <2> HIDE DEF h
  <2>8. Obeys(h, b, n, g)
    BY <2>6, <2>7
  <2> QED BY <2>2, <2>5, <2>8
<1>3. N \in Long
  <2> HIDE DEF Long
  <2>1. \A n \in 0 .. N : n \in Long
    BY <1>1, <1>2, UpTo
  <2> QED BY <2>1
<1> QED BY <1>3

-----------------------------------------------------------------------------
\* The recursion WeightOf is the last value of.
Sums(q, f) == /\ f = [i \in 0 .. Len(q) |->
                        IF i = 0 THEN 0 ELSE f[i - 1] + q[i].weight]

LEMMA EventFields ==
  ASSUME NEW q \in Seq(Event), NEW i \in 1 .. Len(q)
  PROVE  q[i] \in Event /\ q[i].weight \in Nat
<1>1. q[i] \in Event
  OBVIOUS
<1> QED BY <1>1 DEF Event

LEMMA SumExists ==
  ASSUME NEW q \in Seq(Event)
  PROVE  \E f : Sums(q, f)
<1> DEFINE N == Len(q)
           g == [n \in 1 .. N |-> [m \in Nat |-> m + q[n].weight]]
<1>1. N \in Nat
  OBVIOUS
<1>2. g \in [1 .. N -> [Nat -> Nat]]
  <2>1. ASSUME NEW n \in 1 .. N, NEW m \in Nat PROVE m + q[n].weight \in Nat
    BY EventFields
  <2> QED BY <2>1
<1>3. \A n \in 1 .. N, m \in Nat : g[n][m] = m + q[n].weight
  OBVIOUS
<1> HIDE DEF g
<1>4. PICK f \in [0 .. N -> Nat] :
        Obeys(f, 0, N, g)
  <2>1. 0 \in Nat
    OBVIOUS
  <2> HIDE DEF N
  <2> QED BY <1>1, <1>2, <2>1, Recursion
<1>5. ASSUME NEW n \in 0 .. N, n # 0 PROVE f[n] = f[n - 1] + q[n].weight
  <2>1. n \in 1 .. N /\ n - 1 \in 0 .. N
    BY <1>1, <1>5
  <2> QED BY <2>1, <1>3, <1>4 DEF Obeys
<1>6. f = [i \in 0 .. N |-> IF i = 0 THEN 0 ELSE f[i - 1] + q[i].weight]
  BY <1>4, <1>5 DEF Obeys
<1> QED BY <1>6 DEF Sums

LEMMA WeightIsSum ==
  ASSUME NEW q \in Seq(Event)
  PROVE  \E f \in [0 .. Len(q) -> Nat] :
           /\ WeightOf(q) = f[Len(q)] /\ f[0] = 0
           /\ \A i \in 1 .. Len(q) : f[i] = f[i - 1] + q[i].weight
<1> DEFINE f == CHOOSE f : Sums(q, f)
<1>1. Sums(q, f)
  BY SumExists, Zenon
<1>2. WeightOf(q) = f[Len(q)]
  BY Zenon DEF WeightOf, Sums
<1> HIDE DEF f
<1>3. f = [i \in 0 .. Len(q) |-> IF i = 0 THEN 0 ELSE f[i - 1] + q[i].weight]
  BY <1>1 DEF Sums
<1>4. Len(q) \in Nat
  OBVIOUS
<1>5. f[0] = 0
  BY <1>3, <1>4
<1>6. ASSUME NEW i \in 1 .. Len(q) PROVE f[i] = f[i - 1] + q[i].weight
  <2>1. i \in 0 .. Len(q) /\ i # 0
    OBVIOUS
  <2> QED BY <1>3, <2>1
<1>7. f \in [0 .. Len(q) -> Nat]
  <2> DEFINE S == {i \in 0 .. Len(q) : f[i] \in Nat}
  <2>1. 0 \in S
    BY <1>4, <1>5
  <2>2. \A i \in 1 .. Len(q) : i - 1 \in S => i \in S
    BY <1>6, EventFields
  <2>3. \A i \in 0 .. Len(q) : i \in S
    <3> HIDE DEF S
    <3> QED BY <1>4, <2>1, <2>2, UpTo
  <2>4. \A i \in 0 .. Len(q) : f[i] \in Nat
    BY <2>3
  <2> QED BY <1>3, <2>4
<1> QED BY <1>2, <1>5, <1>6, <1>7

\* Two sums over the same weights agree.
LEMMA SumsAgree ==
  ASSUME NEW N \in Nat, NEW c \in Nat,
         NEW f \in [0 .. N -> Nat], NEW h, 
         h[0] = f[0] + c,
         \A i \in 1 .. N : h[i] - h[i - 1] = f[i] - f[i - 1] /\ h[i] \in Int,
         h[0] \in Int
  PROVE  h[N] = f[N] + c
<1> DEFINE S == {i \in 0 .. N : h[i] = f[i] + c}
<1>1. 0 \in S
  OBVIOUS
<1>2. ASSUME NEW i \in 1 .. N, i - 1 \in S PROVE i \in S
  <2>1. i \in 0 .. N /\ f[i] \in Nat /\ f[i - 1] \in Nat /\ h[i - 1] = f[i - 1] + c
    BY <1>2
  <2> QED BY <2>1
<1>3. \A i \in 0 .. N : i \in S
  <2> HIDE DEF S
  <2> QED BY <1>1, <1>2, UpTo
<1> QED BY <1>3

LEMMA WeightType ==
  ASSUME NEW q \in Seq(Event)
  PROVE  WeightOf(q) \in Nat
<1>1. Len(q) \in Nat
  OBVIOUS
<1> QED BY <1>1, WeightIsSum

LEMMA WeightEmpty == WeightOf(<<>>) = 0
<1>1. <<>> \in Seq(Event) /\ Len(<<>>) = 0
  OBVIOUS
<1> QED BY <1>1, WeightIsSum

LEMMA WeightAppend ==
  ASSUME NEW q \in Seq(Event), NEW e \in Event
  PROVE  WeightOf(Append(q, e)) = WeightOf(q) + e.weight
<1> DEFINE r == Append(q, e)
           N == Len(q)
<1>1. /\ r \in Seq(Event) /\ Len(r) = N + 1 /\ N \in Nat
      /\ \A i \in 1 .. N : r[i] = q[i]
      /\ r[N + 1] = e
  BY AppendProperties
<1> HIDE DEF r
<1>2. PICK f \in [0 .. N -> Nat] :
        /\ WeightOf(q) = f[N] /\ f[0] = 0
        /\ \A i \in 1 .. N : f[i] = f[i - 1] + q[i].weight
  BY WeightIsSum
<1>3. PICK h \in [0 .. Len(r) -> Nat] :
        /\ WeightOf(r) = h[Len(r)] /\ h[0] = 0
        /\ \A i \in 1 .. Len(r) : h[i] = h[i - 1] + r[i].weight
  BY <1>1, WeightIsSum
<1>4. ASSUME NEW i \in 1 .. N PROVE h[i] - h[i - 1] = f[i] - f[i - 1] /\ h[i] \in Int
  <2>1. i \in 1 .. Len(r) /\ i \in 0 .. Len(r) /\ i - 1 \in 0 .. Len(r) /\ i - 1 \in 0 .. N
    BY <1>1
  <2>2. h[i] = h[i - 1] + q[i].weight /\ f[i] = f[i - 1] + q[i].weight
    BY <2>1, <1>1, <1>2, <1>3
  <2>3. h[i - 1] \in Nat /\ f[i - 1] \in Nat /\ q[i].weight \in Nat
    BY <2>1, EventFields
  <2> QED BY <2>2, <2>3
<1>5. h[0] = f[0] + 0 /\ h[0] \in Int
  BY <1>2, <1>3
<1>6. h[N] = f[N] + 0
  <2> HIDE DEF N
  <2> QED BY <1>1, <1>4, <1>5, SumsAgree
<1>7. h[N + 1] = h[N] + e.weight
  <2>1. N + 1 \in 1 .. Len(r) /\ (N + 1) - 1 = N
    BY <1>1
  <2> QED BY <2>1, <1>1, <1>3
<1>8. f[N] \in Nat
  BY <1>1
<1> QED BY <1>1, <1>2, <1>3, <1>6, <1>7, <1>8 DEF r

LEMMA WeightTail ==
  ASSUME NEW q \in Seq(Event), q # <<>>
  PROVE  WeightOf(Tail(q)) = WeightOf(q) - Head(q).weight
<1> DEFINE r == Tail(q)
           N == Len(r)
<1>1. /\ r \in Seq(Event) /\ N = Len(q) - 1 /\ N \in Nat /\ Len(q) \in Nat
      /\ \A i \in 1 .. N : r[i] = q[i + 1]
      /\ Head(q) = q[1] /\ 1 \in 1 .. Len(q)
  BY HeadTailProperties, EmptySeq
<1> HIDE DEF r
<1>2. PICK f \in [0 .. N -> Nat] :
        /\ WeightOf(r) = f[N] /\ f[0] = 0
        /\ \A i \in 1 .. N : f[i] = f[i - 1] + r[i].weight
  BY <1>1, WeightIsSum
<1>3. PICK k \in [0 .. Len(q) -> Nat] :
        /\ WeightOf(q) = k[Len(q)] /\ k[0] = 0
        /\ \A i \in 1 .. Len(q) : k[i] = k[i - 1] + q[i].weight
  BY WeightIsSum
<1> DEFINE h == [i \in 0 .. N |-> k[i + 1]]
           c == Head(q).weight
<1>4. c \in Nat /\ k[1] = c
  BY <1>1, <1>3, EventFields
<1>5. h[0] = f[0] + c /\ h[0] \in Int
  BY <1>1, <1>2, <1>4
<1>6. ASSUME NEW i \in 1 .. N PROVE h[i] - h[i - 1] = f[i] - f[i - 1] /\ h[i] \in Int
  <2>1. /\ i + 1 \in 1 .. Len(q) /\ i + 1 \in 0 .. Len(q) /\ i \in 0 .. Len(q)
        /\ i \in 0 .. N /\ i - 1 \in 0 .. N /\ (i + 1) - 1 = i /\ (i - 1) + 1 = i
    BY <1>1
  <2>2. h[i] = k[i + 1] /\ h[i - 1] = k[i]
    BY <2>1
  <2>3. k[i + 1] = k[i] + q[i + 1].weight /\ f[i] = f[i - 1] + q[i + 1].weight
    BY <2>1, <1>1, <1>2, <1>3
  <2>4. k[i] \in Nat /\ f[i - 1] \in Nat /\ q[i + 1].weight \in Nat
    BY <2>1, EventFields
  <2> QED BY <2>2, <2>3, <2>4
<1>7. h[N] = k[Len(q)]
  BY <1>1
<1>8. h[N] = f[N] + c
  <2>1. N \in Nat /\ c \in Nat
    BY <1>1, <1>4
  <2>2. \A i \in 1 .. N : h[i] - h[i - 1] = f[i] - f[i - 1] /\ h[i] \in Int
    BY <1>6
  <2> HIDE DEF h, c, N
  <2> QED BY <2>1, <2>2, <1>5, SumsAgree
<1>9. f[N] \in Nat
  BY <1>1
<1> QED BY <1>2, <1>3, <1>4, <1>7, <1>8, <1>9 DEF r

-----------------------------------------------------------------------------
\* Where a drain stands: the bridge and the events taken out of it.
Start(b) == [bridge |-> b, events |-> <<>>]

Turn(r) ==
  IF BridgePending(r.bridge)
  THEN [bridge |-> DrainTurn(r.bridge).bridge,
        events |-> Append(r.events, DrainTurn(r.bridge).event)]
  ELSE r

\* The recursion DrainUpTo takes the last value of.
Drains(b, N, f) ==
  f = [n \in 0 .. N |-> IF n = 0 THEN Start(b) ELSE Turn(f[n - 1])]

\* What holds after the first turn and is kept by every further one holds at
\* the end of a drain.
LEMMA DrainKeeps ==
  ASSUME NEW E, NEW b, NEW N \in Nat \ {0}, Turn(Start(b)) \in E,
         \A r \in E : Turn(r) \in E
  PROVE  DrainUpTo(b, N) \in E
<1> DEFINE D == E \cup {Start(b)}
           g == [n \in 1 .. N |-> [r \in D |-> Turn(r)]]
           f == CHOOSE f : Drains(b, N, f)
<1>1. \A r \in D : Turn(r) \in D
  OBVIOUS
<1>2. \E h : Drains(b, N, h)
  <2>1. Start(b) \in D /\ N \in Nat
    OBVIOUS
  <2>2. g \in [1 .. N -> [D -> D]]
    <3> HIDE DEF D
    <3> QED BY <1>1
  <2>3. \A n \in 1 .. N, r \in D : g[n][r] = Turn(r)
    <3> HIDE DEF D
    <3> QED OBVIOUS
  <2> HIDE DEF D, g
  <2>4. PICK h \in [0 .. N -> D] : Obeys(h, Start(b), N, g)
    BY <2>1, <2>2, Recursion
  <2>5. ASSUME NEW n \in 0 .. N, n # 0 PROVE h[n] = Turn(h[n - 1])
    <3>1. n \in 1 .. N /\ n - 1 \in 0 .. N
      BY <2>1, <2>5
    <3> QED BY <3>1, <2>3, <2>4 DEF Obeys
  <2>6. h = [n \in 0 .. N |-> IF n = 0 THEN Start(b) ELSE Turn(h[n - 1])]
    BY <2>4, <2>5 DEF Obeys
  <2> QED BY <2>6 DEF Drains
<1>3. Drains(b, N, f)
  BY <1>2, Zenon
<1>4. DrainUpTo(b, N) = f[N]
  BY Zenon DEF DrainUpTo, Drains, Start, Turn
<1> HIDE DEF f
<1>5. \A n \in 1 .. N : f[n] = Turn(f[n - 1])
  <2>1. \A n \in 1 .. N : n \in 0 .. N /\ n # 0
    OBVIOUS
  <2> QED BY <1>3, <2>1 DEF Drains
<1>6. f[0] = Start(b)
  BY <1>3 DEF Drains
<1> DEFINE S == {n \in 0 .. N : n = 0 \/ f[n] \in E}
<1>7. 0 \in S /\ N \in Nat
  OBVIOUS
<1>8. ASSUME NEW n \in 1 .. N, n - 1 \in S PROVE n \in S
  <2>1. CASE n = 1
    <3>1. f[1] = Turn(f[0])
      BY <1>5, <2>1
    <3> QED BY <3>1, <1>6, <2>1
  <2>2. CASE n # 1
    <3>1. f[n - 1] \in E
      BY <1>8, <2>2
    <3> QED BY <3>1, <1>5
  <2> QED BY <2>1, <2>2
<1>9. \A n \in 0 .. N : n \in S
  <2> HIDE DEF S
  <2> QED BY <1>7, <1>8, UpTo
<1> QED BY <1>4, <1>9

-----------------------------------------------------------------------------
\* The bridge.
Without(s, S) == Protocol!Without(s, S)
Terminals     == Protocol!Terminals
Given(s)      == Protocol!DataAmong(s, Len(s))

-----------------------------------------------------------------------------
\* The limits of the bridge and the weight it caches.
Fits(b) == /\ b.queuedWeight = WeightOf(b.queue)
           /\ b.queuedWeight <= BridgeWeight
           /\ Len(b.queue) <= BridgeItems

\* The queue holds the youngest of the p accepted data events.
Numbered(b, p) ==
  \A i \in 1 .. Len(b.queue) :
    /\ b.queue[i].kind = "sekData"
    /\ b.queue[i].value = (p - Len(b.queue)) + i

\* Work the consumer may only be given while no terminal event was.
BeforeTerminal(b) == \/ b.openPending \/ b.terminalPending
                     \/ b.queue # <<>>
                     \/ b.progress # NoProgress

\* Work the consumer may only be given after the open event.
AfterOpen(b) == \/ b.state = "ssOpen"
                \/ b.queue # <<>>
                \/ b.progress # NoProgress
                \/ b.terminalPending /\ b.terminal # "stkCancel"

\* What may still follow the events s.
Follows(b, s) ==
  /\ b.openPending => s = <<>>
  /\ AfterOpen(b) /\ ~b.openPending => s # <<>> /\ s[1].kind = "sekOpen"
  /\ BeforeTerminal(b) \/ b.state \in {"ssIdle", "ssOpen"} =>
       Without(s, Terminals \cup {"sekClose"})
  /\ b.closePending \/ b.state # "ssClosed" => Without(s, {"sekClose"})

\* What each state leaves pending.
Settled(b, s, d) ==
  /\ b.state = "ssIdle" => s = <<>> /\ ~BridgePending(b)
  /\ b.state = "ssOpen" => ~b.terminalPending
  /\ b.closePending => b.state = "ssClosed"
  /\ b.terminalPending => b.terminal # "stkNone"
  /\ d => b.state \in {"ssCancelled", "ssClosed"} /\ b.queue = <<>>

Linked(b, s, p, d) ==
  /\ b \in Bridges /\ s \in Seq(Event) /\ p \in Nat /\ d \in BOOLEAN
  /\ Fits(b)
  /\ Numbered(b, p)
  /\ ~d => p = Given(s) + Len(b.queue)
  /\ Settled(b, s, d)
  /\ Follows(b, s)
  /\ Protocol!Word(s)

LinkedNow == Linked(bridge, seen, pushed, dropped)

-----------------------------------------------------------------------------
LEMMA WithoutBefore ==
  ASSUME NEW s \in Seq(Event), NEW i \in 1 .. Len(s), NEW S
  PROVE  Protocol!Without(Protocol!Before(s, i), S)
           <=> \A j \in 1 .. i - 1 : s[j].kind \notin S
<1> DEFINE t == SubSeq(s, 1, i - 1)
<1>1. /\ t \in Seq(Event) /\ Len(t) = i - 1
      /\ \A j \in 1 .. i - 1 : t[j] = s[j]
  <2>1. i - 1 \in Int /\ 1 \in Int /\ \A j \in 1 .. i - 1 : s[j] \in Event
    OBVIOUS
  <2>2. /\ SubSeq(s, 1, i - 1) \in Seq(Event)
        /\ Len(SubSeq(s, 1, i - 1)) = IF 1 <= i - 1 THEN (i - 1) - 1 + 1 ELSE 0
        /\ \A j \in 1 .. (i - 1) - 1 + 1 : SubSeq(s, 1, i - 1)[j] = s[1 + j - 1]
    BY <2>1, SubSeqProperties
  <2>3. (i - 1) - 1 + 1 = i - 1 /\ (~(1 <= i - 1) => i - 1 = 0)
    OBVIOUS
  <2>4. \A j \in 1 .. i - 1 : 1 + j - 1 = j
    OBVIOUS
  <2> HIDE DEF t
  <2> QED BY <2>2, <2>3, <2>4 DEF t
<1> HIDE DEF t
<1>2. DOMAIN t = 1 .. i - 1
  BY <1>1
<1>3. Protocol!Before(s, i) = t
  BY DEF Protocol!Before, t
<1> QED BY <1>1, <1>2, <1>3 DEF Protocol!Without

\* The same positions of two sequences count alike.
LEMMA SameCount ==
  ASSUME NEW s, NEW t, NEW n \in Nat, \A i \in 1 .. n : s[i] = t[i]
  PROVE  Protocol!DataAmong(s, n) = Protocol!DataAmong(t, n)
<1>1. {i \in 1 .. n : s[i].kind = "sekData"} = {i \in 1 .. n : t[i].kind = "sekData"}
  OBVIOUS
<1> QED BY <1>1 DEF Protocol!DataAmong

LEMMA SameCardinality == \A S : Protocol!Cardinality(S) = Cardinality(S)
BY DEF Protocol!Cardinality, Cardinality

LEMMA CountType ==
  ASSUME NEW s, NEW n \in Nat
  PROVE  /\ IsFiniteSet({i \in 1 .. n : s[i].kind = "sekData"})
         /\ Protocol!DataAmong(s, n) \in Nat
<1>1. IsFiniteSet(1 .. n)
  BY FS_Interval
<1>2. IsFiniteSet({i \in 1 .. n : s[i].kind = "sekData"})
  BY <1>1, FS_Subset
<1>3. Cardinality({i \in 1 .. n : s[i].kind = "sekData"}) \in Nat
  BY <1>2, FS_CardinalityType
<1> QED BY <1>2, <1>3, SameCardinality DEF Protocol!DataAmong

LEMMA CountNone == \A s : Protocol!DataAmong(s, 0) = 0
<1> SUFFICES ASSUME NEW s PROVE Protocol!DataAmong(s, 0) = 0
  OBVIOUS
<1>1. {i \in 1 .. 0 : s[i].kind = "sekData"} = {}
  OBVIOUS
<1> QED BY <1>1, SameCardinality, FS_EmptySet DEF Protocol!DataAmong

\* One event more.
LEMMA CountNext ==
  ASSUME NEW s, NEW n \in Nat
  PROVE  Protocol!DataAmong(s, n + 1)
           = Protocol!DataAmong(s, n) + IF s[n + 1].kind = "sekData" THEN 1 ELSE 0
<1> DEFINE A == {i \in 1 .. n : s[i].kind = "sekData"}
           B == {i \in 1 .. n + 1 : s[i].kind = "sekData"}
<1>1. IsFiniteSet(A) /\ n + 1 \notin A
  <2>1. IsFiniteSet(A)
    BY CountType
  <2> QED BY <2>1
<1>2. Protocol!DataAmong(s, n) = Cardinality(A)
      /\ Protocol!DataAmong(s, n + 1) = Cardinality(B)
  BY SameCardinality DEF Protocol!DataAmong
<1>3. CASE s[n + 1].kind = "sekData"
  <2>1. B = A \cup {n + 1}
    BY <1>3
  <2> HIDE DEF A, B
  <2>2. Cardinality(A \cup {n + 1}) = Cardinality(A) + 1
    BY <1>1, FS_AddElement
  <2> QED BY <1>2, <1>3, <2>1, <2>2
<1>4. CASE s[n + 1].kind # "sekData"
  <2>1. B = A
    BY <1>4
  <2>2. Protocol!DataAmong(s, n) \in Nat
    BY CountType
  <2> HIDE DEF A, B
  <2> QED BY <1>2, <1>4, <2>1, <2>2
<1> QED BY <1>3, <1>4

-----------------------------------------------------------------------------
\* The events that may extend the word s.
MayFollow(s, e) ==
  /\ Without(s, {"sekClose"})
  /\ e.kind = "sekOpen" => s = <<>>
  /\ e.kind \notin {"sekOpen", "sekClose"} => Without(s, Terminals)
  /\ e.kind \notin {"sekOpen", "sekClose", "sekCancel"} =>
       s # <<>> /\ s[1].kind = "sekOpen"
  /\ e.kind = "sekData" => e.value = Given(s) + 1

LEMMA ExtendWord ==
  ASSUME NEW s \in Seq(Event), NEW e \in Event, Protocol!Word(s), MayFollow(s, e)
  PROVE  Protocol!Word(Append(s, e))
<1> DEFINE t == Append(s, e)
           n == Len(s)
<1>1. /\ t \in Seq(Event) /\ Len(t) = n + 1 /\ n \in Nat
      /\ \A i \in 1 .. n : t[i] = s[i]
      /\ t[n + 1] = e
  BY AppendProperties
<1>2. DOMAIN s = 1 .. n /\ DOMAIN t = 1 .. n + 1 /\ 1 .. n + 1 = 1 .. n \cup {n + 1}
  BY <1>1
<1> HIDE DEF t
<1>3. ASSUME NEW i \in 1 .. n PROVE Protocol!PlacedWell(t, i)
  <2>1. Protocol!PlacedWell(s, i)
    BY <1>2 DEF Protocol!Word
  <2>2. t[i] = s[i] /\ 1 \in 1 .. n /\ t[1] = s[1]
    BY <1>1
  <2>3. s[i].kind # "sekClose"
    BY <1>2 DEF MayFollow, Without, Protocol!Without
  <2>4. i \in 1 .. Len(t) /\ \A j \in 1 .. i - 1 : t[j] = s[j]
    BY <1>1
  <2>5. \A S : Protocol!Without(Protocol!Before(t, i), S)
               <=> Protocol!Without(Protocol!Before(s, i), S)
    <3> SUFFICES ASSUME NEW S
                 PROVE  Protocol!Without(Protocol!Before(t, i), S)
                        <=> Protocol!Without(Protocol!Before(s, i), S)
      OBVIOUS
    <3>1. Protocol!Without(Protocol!Before(t, i), S)
            <=> \A j \in 1 .. i - 1 : t[j].kind \notin S
      BY <1>1, <2>4, WithoutBefore
    <3>2. Protocol!Without(Protocol!Before(s, i), S)
            <=> \A j \in 1 .. i - 1 : s[j].kind \notin S
      BY WithoutBefore
    <3> QED BY <2>4, <3>1, <3>2
  <2> QED BY <2>1, <2>2, <2>3, <2>5 DEF Protocol!PlacedWell
<1>4. Protocol!PlacedWell(t, n + 1)
  <2>1. \A S : Without(s, S) => Protocol!Without(Protocol!Before(t, n + 1), S)
    <3> SUFFICES ASSUME NEW S, Without(s, S)
                 PROVE  Protocol!Without(Protocol!Before(t, n + 1), S)
      OBVIOUS
    <3>1. n + 1 \in 1 .. Len(t) /\ (n + 1) - 1 = n
      BY <1>1
    <3>2. \A j \in 1 .. n : t[j].kind \notin S
      BY <1>1, <1>2 DEF Without, Protocol!Without
    <3>3. Protocol!Without(Protocol!Before(t, n + 1), S)
            <=> \A j \in 1 .. (n + 1) - 1 : t[j].kind \notin S
      BY <1>1, <3>1, WithoutBefore
    <3> QED BY <3>1, <3>2, <3>3
  <2>2. e.kind \notin {"sekOpen", "sekClose"} =>
          Protocol!Without(Protocol!Before(t, n + 1), Protocol!Terminals \cup {"sekClose"})
    <3>1. e.kind \notin {"sekOpen", "sekClose"} =>
            Without(s, Protocol!Terminals \cup {"sekClose"})
      BY DEF MayFollow, Without, Protocol!Without, Terminals
    <3> QED BY <2>1, <3>1
  <2>3. CASE e.kind = "sekOpen"
    BY <1>1, <2>3 DEF MayFollow, Protocol!PlacedWell
  <2>4. CASE e.kind = "sekClose"
    BY <1>1, <2>4 DEF Protocol!PlacedWell
  <2>5. CASE e.kind = "sekCancel"
    BY <1>1, <2>2, <2>5 DEF Protocol!PlacedWell
  <2>6. CASE e.kind \notin {"sekOpen", "sekClose", "sekCancel"}
    <3>1. s # <<>> /\ s[1].kind = "sekOpen"
      BY <2>6 DEF MayFollow
    <3>2. t[1].kind = "sekOpen"
      BY <1>1, <3>1
    <3> QED BY <1>1, <2>2, <2>6, <3>2 DEF Protocol!PlacedWell
  <2> QED BY <2>3, <2>4, <2>5, <2>6
<1>5. Protocol!InPushOrder(t)
  <2> SUFFICES ASSUME NEW i \in 1 .. n + 1, t[i].kind = "sekData"
               PROVE  t[i].value = Protocol!DataAmong(t, i)
    BY <1>2 DEF Protocol!InPushOrder
  <2>1. CASE i \in 1 .. n
    <3>1. s[i].value = Protocol!DataAmong(s, i)
      BY <1>1, <1>2, <2>1 DEF Protocol!Word, Protocol!InPushOrder
    <3>2. i \in Nat /\ \A j \in 1 .. i : t[j] = s[j]
      BY <1>1, <2>1
    <3>3. Protocol!DataAmong(t, i) = Protocol!DataAmong(s, i)
      BY <3>2, SameCount
    <3> QED BY <1>1, <2>1, <3>1, <3>3
  <2>2. CASE i = n + 1
    <3>1. Protocol!DataAmong(t, n + 1) = Protocol!DataAmong(t, n) + 1
      BY <1>1, <2>2, CountNext
    <3>2. Protocol!DataAmong(t, n) = Protocol!DataAmong(s, n)
      BY <1>1, SameCount
    <3> QED BY <1>1, <2>2, <3>1, <3>2 DEF MayFollow, Given
  <2> QED BY <1>2, <2>1, <2>2
<1> QED BY <1>2, <1>3, <1>4, <1>5 DEF Protocol!Word, t

LEMMA GivenAfter ==
  ASSUME NEW s \in Seq(Event), NEW e \in Event
  PROVE  /\ Given(s) \in Nat
         /\ Given(Append(s, e)) = Given(s) + IF e.kind = "sekData" THEN 1 ELSE 0
<1> DEFINE t == Append(s, e)
           n == Len(s)
<1>1. /\ Len(t) = n + 1 /\ n \in Nat /\ t[n + 1] = e
      /\ \A i \in 1 .. n : t[i] = s[i]
  BY AppendProperties
<1> HIDE DEF t
<1>2. Protocol!DataAmong(t, n) = Protocol!DataAmong(s, n)
  BY <1>1, SameCount
<1>3. Protocol!DataAmong(t, n + 1)
        = Protocol!DataAmong(t, n) + IF t[n + 1].kind = "sekData" THEN 1 ELSE 0
  BY <1>1, CountNext
<1>4. Protocol!DataAmong(s, n) \in Nat
  BY <1>1, CountType
<1> QED BY <1>1, <1>2, <1>3, <1>4 DEF Given, t

\* What an event added at the end does to the absence of others.
LEMMA WithoutAfter ==
  ASSUME NEW s \in Seq(Event), NEW e \in Event, NEW S, Without(s, S), e.kind \notin S
  PROVE  Without(Append(s, e), S)
<1> DEFINE t == Append(s, e)
           n == Len(s)
<1>1. /\ t \in Seq(Event) /\ Len(t) = n + 1 /\ n \in Nat
      /\ \A i \in 1 .. n : t[i] = s[i]
      /\ t[n + 1] = e
  BY AppendProperties
<1>2. DOMAIN s = 1 .. n /\ DOMAIN t = 1 .. n + 1 /\ 1 .. n + 1 = 1 .. n \cup {n + 1}
  BY <1>1
<1> HIDE DEF t
<1> QED BY <1>1, <1>2 DEF Without, Protocol!Without, t

-----------------------------------------------------------------------------
\* The five turns a drain can take: c is the bridge after it, e its event.
SameQueue(b, c) == c.queue = b.queue /\ c.queuedWeight = b.queuedWeight

SameEnd(b, c) == c.terminalPending = b.terminalPending
                 /\ c.closePending = b.closePending

TakesOpen(b, c, e) ==
  /\ b.openPending /\ ~c.openPending
  /\ e.kind = "sekOpen"
  /\ SameQueue(b, c) /\ c.progress = b.progress /\ SameEnd(b, c)

TakesData(b, c, e) ==
  /\ ~b.openPending /\ ~c.openPending
  /\ b.queue # <<>> /\ e = Head(b.queue)
  /\ c.queue = Tail(b.queue)
  /\ c.queuedWeight = b.queuedWeight - Head(b.queue).weight
  /\ c.progress = b.progress /\ SameEnd(b, c)

TakesProgress(b, c, e) ==
  /\ ~b.openPending /\ ~c.openPending
  /\ b.queue = <<>>
  /\ b.progress # NoProgress /\ c.progress = NoProgress
  /\ e.kind = "sekProgress"
  /\ SameQueue(b, c) /\ SameEnd(b, c)

TakesTerminal(b, c, e) ==
  /\ ~b.openPending /\ ~c.openPending
  /\ b.queue = <<>>
  /\ b.progress = NoProgress /\ c.progress = NoProgress
  /\ b.terminalPending /\ ~c.terminalPending
  /\ e.kind \in {"sekEnd", "sekError", "sekCancel"}
  /\ b.terminal \in {"stkNone", "stkCancel"} => e.kind = "sekCancel"
  /\ SameQueue(b, c) /\ c.closePending = b.closePending

TakesClose(b, c, e) ==
  /\ ~b.openPending /\ ~c.openPending
  /\ b.queue = <<>>
  /\ b.progress = NoProgress /\ c.progress = NoProgress
  /\ ~b.terminalPending /\ ~c.terminalPending
  /\ b.closePending /\ ~c.closePending
  /\ e.kind = "sekClose"
  /\ SameQueue(b, c)

LEMMA TurnCases ==
  ASSUME NEW b \in Bridges, BridgePending(b),
         b.queuedWeight = WeightOf(b.queue),
         NEW c, c = DrainTurn(b).bridge, NEW e, e = DrainTurn(b).event
  PROVE  /\ c \in Bridges /\ e \in Event
         /\ c.state = b.state /\ c.terminal = b.terminal
         /\ \/ TakesOpen(b, c, e) \/ TakesData(b, c, e) \/ TakesProgress(b, c, e)
            \/ TakesTerminal(b, c, e) \/ TakesClose(b, c, e)
<1> DEFINE Kept == c \in Bridges /\ c.state = b.state /\ c.terminal = b.terminal
<1>1. CASE b.openPending
  <2>1. DrainTurn(b) =
          [bridge |-> [b EXCEPT !.openPending = FALSE],
           event  |-> [kind |-> "sekOpen", weight |-> 0, value |-> 0]]
    BY <1>1 DEF DrainTurn
  <2>2. /\ c = [b EXCEPT !.openPending = FALSE]
        /\ e = [kind |-> "sekOpen", weight |-> 0, value |-> 0]
    BY <2>1
  <2>3. Kept /\ ~c.openPending
    BY <2>2 DEF Bridges
  <2>4. SameQueue(b, c) /\ c.progress = b.progress /\ SameEnd(b, c)
    BY <2>2 DEF Bridges, SameQueue, SameEnd
  <2>5. e \in Event /\ e.kind = "sekOpen"
    BY <2>2 DEF Event, Kinds
  <2> QED BY <1>1, <2>3, <2>4, <2>5 DEF TakesOpen
<1>2. CASE ~b.openPending /\ b.queue # <<>>
  <2>1. DrainTurn(b) =
          [bridge |-> [b EXCEPT !.queue = Tail(@),
                                !.queuedWeight = @ - Head(b.queue).weight],
           event  |-> Head(b.queue)]
    BY <1>2 DEF DrainTurn
  <2>2. /\ c = [b EXCEPT !.queue = Tail(@),
                         !.queuedWeight = @ - Head(b.queue).weight]
        /\ e = Head(b.queue)
    BY <2>1
  <2>3. b.queue \in Seq(Event) /\ b.queuedWeight \in Nat
    BY DEF Bridges
  <2>4. e \in Event /\ Tail(b.queue) \in Seq(Event)
    BY <1>2, <2>2, <2>3, HeadTailProperties
  <2>5. b.queuedWeight - Head(b.queue).weight \in Nat
    <3>1. WeightOf(Tail(b.queue)) = WeightOf(b.queue) - Head(b.queue).weight
      BY <1>2, <2>3, WeightTail
    <3>2. WeightOf(Tail(b.queue)) \in Nat
      BY <2>4, WeightType
    <3> QED BY <3>1, <3>2
  <2> DEFINE m == [b EXCEPT !.queue = Tail(b.queue)]
             w == b.queuedWeight - Head(b.queue).weight
  <2>6. m \in Bridges /\ m.queue = Tail(b.queue) /\ m.state = b.state
        /\ m.terminal = b.terminal /\ m.progress = b.progress
        /\ m.openPending = b.openPending /\ SameEnd(b, m)
    BY <2>4 DEF Bridges, SameEnd
  <2>7. c = [m EXCEPT !.queuedWeight = w]
    BY <2>2 DEF Bridges
  <2> HIDE DEF m, w
  <2>8. Kept /\ c.queue = m.queue /\ c.queuedWeight = w
        /\ c.progress = m.progress /\ c.openPending = m.openPending
        /\ SameEnd(m, c)
    BY <2>5, <2>6, <2>7 DEF Bridges, SameEnd, w
  <2> QED BY <1>2, <2>2, <2>4, <2>6, <2>8 DEF TakesData, SameEnd, w
<1>3. CASE ~b.openPending /\ b.queue = <<>> /\ b.progress # NoProgress
  <2>1. DrainTurn(b) =
          [bridge |-> [b EXCEPT !.progress = NoProgress],
           event  |-> [kind |-> "sekProgress", weight |-> 0, value |-> b.progress]]
    BY <1>3 DEF DrainTurn
  <2>2. /\ c = [b EXCEPT !.progress = NoProgress]
        /\ e = [kind |-> "sekProgress", weight |-> 0, value |-> b.progress]
    BY <2>1
  <2>3. Kept /\ c.progress = NoProgress /\ c.openPending = b.openPending
    BY <2>2 DEF Bridges, NoProgress
  <2>4. SameQueue(b, c) /\ SameEnd(b, c)
    BY <2>2 DEF Bridges, SameQueue, SameEnd
  <2>5. e \in Event /\ e.kind = "sekProgress"
    BY <2>2 DEF Event, Kinds, Bridges
  <2> QED BY <1>3, <2>3, <2>4, <2>5 DEF TakesProgress
<1>4. CASE ~b.openPending /\ b.queue = <<>> /\ b.progress = NoProgress
           /\ b.terminalPending
  <2>1. DrainTurn(b) =
          [bridge |-> [b EXCEPT !.terminalPending = FALSE],
           event  |-> TerminalEvent(b)]
    BY <1>4 DEF DrainTurn
  <2>2. /\ c = [b EXCEPT !.terminalPending = FALSE]
        /\ e = TerminalEvent(b)
    BY <2>1
  <2>3. Kept /\ c.progress = b.progress /\ c.openPending = b.openPending
        /\ ~c.terminalPending
    BY <2>2 DEF Bridges
  <2>4. SameQueue(b, c) /\ c.closePending = b.closePending
    BY <2>2 DEF Bridges, SameQueue
  <2>5. /\ e \in Event /\ e.kind \in {"sekEnd", "sekError", "sekCancel"}
        /\ b.terminal \in {"stkNone", "stkCancel"} => e.kind = "sekCancel"
    BY <2>2 DEF Event, Kinds, TerminalEvent
  <2> QED BY <1>4, <2>3, <2>4, <2>5 DEF TakesTerminal
<1>5. CASE ~b.openPending /\ b.queue = <<>> /\ b.progress = NoProgress
           /\ ~b.terminalPending
  <2>1. DrainTurn(b) =
          [bridge |-> [b EXCEPT !.closePending = FALSE],
           event  |-> [kind |-> "sekClose", weight |-> 0, value |-> 0]]
    BY <1>5 DEF DrainTurn
  <2>2. /\ c = [b EXCEPT !.closePending = FALSE]
        /\ e = [kind |-> "sekClose", weight |-> 0, value |-> 0]
    BY <2>1
  <2>3. Kept /\ c.progress = b.progress /\ c.openPending = b.openPending
        /\ c.terminalPending = b.terminalPending /\ ~c.closePending
    BY <2>2 DEF Bridges
  <2>4. SameQueue(b, c)
    BY <2>2 DEF Bridges, SameQueue
  <2>5. e \in Event /\ e.kind = "sekClose"
    BY <2>2 DEF Event, Kinds
  <2> QED BY <1>5, <2>3, <2>4, <2>5 DEF TakesClose, BridgePending
<1> QED BY <1>1, <1>2, <1>3, <1>4, <1>5

-----------------------------------------------------------------------------
\* e carries the number of the queue's first event.
Leads(b, e, p) == e.kind = "sekData" /\ e.value = (p - Len(b.queue)) + 1

\* The head of a queue leaves: the limits hold for the rest.
LEMMA TailFits ==
  ASSUME NEW b \in Bridges, NEW c \in Bridges, NEW e \in Event, NEW p \in Nat,
         Fits(b), Numbered(b, p), TakesData(b, c, e)
  PROVE  /\ Fits(c) /\ Numbered(c, p)
         /\ Len(c.queue) = Len(b.queue) - 1 /\ Len(b.queue) \in Nat
         /\ Leads(b, e, p) /\ b.queue # <<>>
<1> DEFINE q == b.queue
           r == c.queue
<1>1. q \in Seq(Event) /\ q # <<>> /\ r = Tail(q) /\ e = Head(q)
  BY DEF TakesData, Bridges
<1> HIDE DEF q, r
<1>2. /\ r \in Seq(Event) /\ Len(r) = Len(q) - 1 /\ Len(q) \in Nat /\ Len(q) # 0
      /\ \A i \in 1 .. Len(r) : r[i] = q[i + 1]
      /\ e = q[1] /\ e \in Event
  BY <1>1, HeadTailProperties, EmptySeq
<1>3. WeightOf(r) = WeightOf(q) - e.weight
  BY <1>1, WeightTail
<1>4. c.queuedWeight = b.queuedWeight - e.weight
      /\ b.queuedWeight \in Nat /\ e.weight \in Nat
  BY <1>2 DEF TakesData, Event, Bridges
<1>5. /\ b.queuedWeight = WeightOf(q) /\ b.queuedWeight <= BridgeWeight
      /\ Len(q) <= BridgeItems
  BY DEF Fits, q
<1>6. BridgeItems \in Nat /\ BridgeWeight \in Nat
  BY BridgeLimits
<1>7. Fits(c)
  <2>1. c.queuedWeight = WeightOf(r)
    BY <1>3, <1>4, <1>5
  <2>2. c.queuedWeight <= BridgeWeight
    BY <1>4, <1>5, <1>6
  <2>3. Len(r) <= BridgeItems
    BY <1>2, <1>5, <1>6
  <2> QED BY <2>1, <2>2, <2>3 DEF Fits, r
<1>8. \A i \in 1 .. Len(q) : q[i].kind = "sekData" /\ q[i].value = (p - Len(q)) + i
  BY DEF Numbered, q
<1>9. \A i \in 1 .. Len(r) : r[i].kind = "sekData" /\ r[i].value = (p - Len(r)) + i
  <2> SUFFICES ASSUME NEW i \in 1 .. Len(r)
               PROVE  r[i].kind = "sekData" /\ r[i].value = (p - Len(r)) + i
    OBVIOUS
  <2>1. i + 1 \in 1 .. Len(q) /\ r[i] = q[i + 1]
    BY <1>2
  <2>2. (p - Len(q)) + (i + 1) = (p - Len(r)) + i
    BY <1>2
  <2>3. q[i + 1].kind = "sekData" /\ q[i + 1].value = (p - Len(q)) + (i + 1)
    BY <1>8, <2>1
  <2> QED BY <2>1, <2>2, <2>3
<1>10. e.kind = "sekData" /\ e.value = (p - Len(q)) + 1
  BY <1>2, <1>8
<1> QED BY <1>1, <1>2, <1>7, <1>9, <1>10 DEF Leads, Numbered, q, r

LEMMA SameFits ==
  ASSUME NEW b, NEW c, NEW p, Fits(b), Numbered(b, p), SameQueue(b, c)
  PROVE  Fits(c) /\ Numbered(c, p)
BY DEF Fits, Numbered, SameQueue

\* One turn of a drain: its event may follow what the consumer was given.
LEMMA TurnMayFollow ==
  ASSUME NEW b \in Bridges, NEW s \in Seq(Event), NEW p \in Nat, NEW d,
         Linked(b, s, p, d), BridgePending(b),
         NEW c \in Bridges, NEW e \in Event,
         \/ TakesOpen(b, c, e) \/ TakesData(b, c, e) \/ TakesProgress(b, c, e)
         \/ TakesTerminal(b, c, e) \/ TakesClose(b, c, e)
  PROVE  MayFollow(s, e)
<1>1. /\ b \in Bridges /\ p \in Nat /\ Fits(b) /\ Numbered(b, p)
      /\ Settled(b, s, d) /\ Follows(b, s)
      /\ ~d => p = Given(s) + Len(b.queue)
      /\ s \in Seq(Event)
  BY DEF Linked
<1>2. BeforeTerminal(b) => Without(s, {"sekClose"}) /\ Without(s, Terminals)
  BY <1>1 DEF Follows, Without, Protocol!Without
<1>3. CASE TakesOpen(b, c, e)
  BY <1>1, <1>2, <1>3 DEF TakesOpen, Follows, MayFollow, BeforeTerminal
<1>4. CASE TakesData(b, c, e)
  <2>1. e.kind = "sekData" /\ b.queue # <<>> /\ Len(b.queue) \in Nat
        /\ e.value = (p - Len(b.queue)) + 1
    <3>1. Leads(b, e, p) /\ Len(b.queue) \in Nat /\ b.queue # <<>>
      BY <1>1, <1>4, TailFits
    <3> QED BY <3>1 DEF Leads
  <2>2. p = Given(s) + Len(b.queue)
    BY <1>1, <2>1 DEF Settled
  <2>3. Given(s) \in Nat
    BY <1>1, GivenAfter
  <2>7. ~b.openPending
    BY <1>4 DEF TakesData
  <2>4. e.value = Given(s) + 1
    BY <2>1, <2>2, <2>3
  <2>5. BeforeTerminal(b) /\ AfterOpen(b)
    BY <2>1 DEF BeforeTerminal, AfterOpen
  <2>6. s # <<>> /\ s[1].kind = "sekOpen"
    BY <1>1, <2>5, <2>7 DEF Follows
  <2> QED BY <1>2, <2>1, <2>4, <2>5, <2>6 DEF MayFollow
<1>5. CASE TakesProgress(b, c, e)
  BY <1>1, <1>2, <1>5 DEF TakesProgress, Follows, MayFollow, BeforeTerminal, AfterOpen
<1>6. CASE TakesTerminal(b, c, e)
  BY <1>1, <1>2, <1>6
     DEF TakesTerminal, Follows, MayFollow, BeforeTerminal, AfterOpen
<1>7. CASE TakesClose(b, c, e)
  BY <1>1, <1>2, <1>7 DEF TakesClose, Follows, MayFollow, BeforeTerminal
<1> QED BY <1>3, <1>4, <1>5, <1>6, <1>7

\* One turn of a drain keeps the invariant.
LEMMA TurnLinked ==
  ASSUME NEW b, NEW s, NEW p, NEW d, Linked(b, s, p, d), BridgePending(b)
  PROVE  /\ DrainTurn(b).event \in Event
         /\ Linked(DrainTurn(b).bridge, Append(s, DrainTurn(b).event), p, d)
<1> DEFINE c == DrainTurn(b).bridge
           e == DrainTurn(b).event
           t == Append(s, e)
<1>1. /\ b \in Bridges /\ s \in Seq(Event) /\ p \in Nat /\ d \in BOOLEAN
      /\ Fits(b) /\ Numbered(b, p)
      /\ Settled(b, s, d) /\ Follows(b, s)
      /\ ~d => p = Given(s) + Len(b.queue)
      /\ Protocol!Word(s)
  BY DEF Linked
<1>2. /\ c \in Bridges /\ e \in Event
      /\ c.state = b.state /\ c.terminal = b.terminal
      /\ \/ TakesOpen(b, c, e) \/ TakesData(b, c, e) \/ TakesProgress(b, c, e)
         \/ TakesTerminal(b, c, e) \/ TakesClose(b, c, e)
  <2>1. b.queuedWeight = WeightOf(b.queue)
    BY <1>1 DEF Fits
  <2> HIDE DEF c, e
  <2> QED BY <1>1, <2>1, TurnCases DEF c, e
<1> HIDE DEF c, e
<1>3. MayFollow(s, e)
  BY <1>1, <1>2, TurnMayFollow
<1>4. /\ t \in Seq(Event) /\ t # <<>>
      /\ t[1] = IF s = <<>> THEN e ELSE s[1]
  <2>1. /\ t \in Seq(Event) /\ t # <<>> /\ Len(t) = Len(s) + 1
        /\ \A i \in 1 .. Len(s) : t[i] = s[i]
        /\ t[Len(s) + 1] = e
    BY <1>1, <1>2, AppendProperties
  <2>2. Len(s) \in Nat /\ (s = <<>> <=> Len(s) = 0)
    BY <1>1
  <2> QED BY <2>1, <2>2
<1>5. Protocol!Word(t)
  BY <1>1, <1>2, <1>3, ExtendWord
<1>6. /\ Given(s) \in Nat
      /\ Given(t) = Given(s) + IF e.kind = "sekData" THEN 1 ELSE 0
  BY <1>1, <1>2, GivenAfter
<1>7. \A S : Without(s, S) /\ e.kind \notin S => Without(t, S)
  BY <1>1, <1>2, WithoutAfter
<1> HIDE DEF t
<1>8. Fits(c) /\ Numbered(c, p) /\ (~d => p = Given(t) + Len(c.queue))
  <2>1. CASE TakesData(b, c, e)
    <3>1. /\ Fits(c) /\ Numbered(c, p)
          /\ Len(c.queue) = Len(b.queue) - 1 /\ Len(b.queue) \in Nat
          /\ e.kind = "sekData"
      BY <1>1, <1>2, <2>1, TailFits DEF Leads
    <3> QED BY <1>1, <1>6, <3>1
  <2>2. CASE ~TakesData(b, c, e)
    <3>1. SameQueue(b, c) /\ e.kind # "sekData"
      BY <1>2, <2>2 DEF TakesOpen, TakesProgress, TakesTerminal, TakesClose
    <3>2. Fits(c) /\ Numbered(c, p)
      BY <1>1, <3>1, SameFits
    <3> QED BY <1>1, <1>6, <3>1, <3>2 DEF SameQueue
  <2> QED BY <2>1, <2>2
<1>9. Settled(c, t, d)
  <2>1. b.state # "ssIdle"
    BY <1>1 DEF Settled
  <2>2. b.queue = <<>> => c.queue = <<>>
    BY <1>2 DEF TakesOpen, TakesData, TakesProgress, TakesTerminal, TakesClose, SameQueue
  <2>3. /\ c.terminalPending => b.terminalPending
        /\ c.closePending => b.closePending
    BY <1>2 DEF TakesOpen, TakesData, TakesProgress, TakesTerminal, TakesClose, SameEnd
  <2> QED BY <1>1, <1>2, <2>1, <2>2, <2>3 DEF Settled
<1>10. Follows(c, t)
  <2>1. ~c.openPending
    BY <1>2 DEF TakesOpen, TakesData, TakesProgress, TakesTerminal, TakesClose
  <2>2. AfterOpen(c) => t # <<>> /\ t[1].kind = "sekOpen"
    <3> SUFFICES ASSUME AfterOpen(c) PROVE t[1].kind = "sekOpen"
      BY <1>4
    <3>1. CASE TakesOpen(b, c, e)
      BY <1>1, <1>4, <3>1 DEF TakesOpen, Follows
    <3>2. CASE ~TakesOpen(b, c, e)
      <4>1. ~b.openPending
        BY <1>2, <3>2 DEF TakesData, TakesProgress, TakesTerminal, TakesClose
      <4>2. AfterOpen(b)
        BY <1>2, <3>2
           DEF AfterOpen, TakesData, TakesProgress, TakesTerminal, TakesClose,
               SameQueue, SameEnd
      <4> QED BY <1>1, <1>4, <4>1, <4>2 DEF Follows
    <3> QED BY <3>1, <3>2
  <2>3. BeforeTerminal(c) \/ c.state \in {"ssIdle", "ssOpen"} =>
          Without(t, Terminals \cup {"sekClose"})
    <3> SUFFICES ASSUME BeforeTerminal(c) \/ c.state \in {"ssIdle", "ssOpen"}
                 PROVE  Without(t, Terminals \cup {"sekClose"})
      OBVIOUS
    <3>1. TakesOpen(b, c, e) \/ TakesData(b, c, e) \/ TakesProgress(b, c, e)
      BY <1>1, <1>2
         DEF BeforeTerminal, TakesTerminal, TakesClose, SameQueue, Settled, BridgePending
    <3>2. BeforeTerminal(b)
      BY <3>1 DEF BeforeTerminal, TakesOpen, TakesData, TakesProgress
    <3>3. e.kind \notin Terminals \cup {"sekClose"}
      <4>1. TakesData(b, c, e) => e.kind = "sekData"
        BY <1>1, <1>2, TailFits DEF Leads
      <4> QED BY <3>1, <4>1 DEF TakesOpen, TakesProgress, Terminals, Protocol!Terminals
    <3> QED BY <1>1, <1>7, <3>2, <3>3 DEF Follows
  <2>4. c.closePending \/ c.state # "ssClosed" => Without(t, {"sekClose"})
    <3> SUFFICES ASSUME c.closePending \/ c.state # "ssClosed"
                 PROVE  Without(t, {"sekClose"})
      OBVIOUS
    <3>1. ~TakesClose(b, c, e)
      BY <1>1, <1>2 DEF TakesClose, Settled
    <3>2. e.kind # "sekClose"
      <4>1. TakesData(b, c, e) => e.kind = "sekData"
        BY <1>1, <1>2, TailFits DEF Leads
      <4> QED BY <1>2, <3>1, <4>1 DEF TakesOpen, TakesProgress, TakesTerminal
    <3>3. Without(s, {"sekClose"})
      BY <1>3 DEF MayFollow
    <3> QED BY <1>7, <3>2, <3>3
  <2> QED BY <2>1, <2>2, <2>3, <2>4 DEF Follows
<1>11. Linked(c, t, p, d)
  BY <1>1, <1>2, <1>4, <1>5, <1>8, <1>9, <1>10 DEF Linked
<1> QED BY <1>2, <1>11 DEF c, e, t

-----------------------------------------------------------------------------
LEMMA AppendConcat ==
  ASSUME NEW s \in Seq(Event), NEW t \in Seq(Event), NEW e \in Event
  PROVE  Append(s \o t, e) = s \o Append(t, e)
<1>1. s \o t \in Seq(Event) /\ <<e>> \in Seq(Event)
  BY ConcatProperties
<1>2. Append(s \o t, e) = (s \o t) \o <<e>>
  BY <1>1, AppendIsConcat
<1>3. Append(t, e) = t \o <<e>>
  BY AppendIsConcat
<1>4. (s \o t) \o <<e>> = s \o (t \o <<e>>)
  BY <1>1, ConcatAssociative
<1> QED BY <1>2, <1>3, <1>4

\* A drain gives the consumer at least one event and keeps the invariant.
LEMMA DrainLinked ==
  ASSUME LinkedNow, NEW n \in 1 .. MaxDrain, DrainBridge(n)
  PROVE  /\ LinkedNow'
         /\ Protocol!Deliver
<1> DEFINE E == {r \in [bridge : Bridges, events : Seq(Event)] :
                   r.events # <<>> /\ Linked(r.bridge, seen \o r.events, pushed, dropped)}
           s == Start(bridge)
<1>1. seen \in Seq(Event) /\ Linked(bridge, seen, pushed, dropped) /\ BridgePending(bridge)
  BY DEF LinkedNow, Linked, DrainBridge
<1>2. ASSUME NEW b, NEW ev \in Seq(Event),
             Linked(b, seen \o ev, pushed, dropped), BridgePending(b),
             NEW r, r.bridge = b, r.events = ev
      PROVE  Turn(r) \in E
  <2> DEFINE c == DrainTurn(b).bridge
             e == DrainTurn(b).event
             w == Append(ev, e)
             x == [bridge |-> c, events |-> w]
  <2>1. e \in Event /\ Linked(c, Append(seen \o ev, e), pushed, dropped)
    BY <1>2, TurnLinked
  <2>2. Turn(r) = x
    BY <1>2 DEF Turn
  <2> HIDE DEF c, e
  <2>3. Append(seen \o ev, e) = seen \o w
    <3>1. seen \in Seq(Event)
      BY <1>1
    <3>2. e \in Event
      BY <2>1
    <3> QED BY <3>1, <3>2, AppendConcat
  <2>4. w \in Seq(Event) /\ w # <<>>
    BY <2>1, AppendProperties
  <2>5. c \in Bridges
    BY <2>1 DEF Linked
  <2> HIDE DEF w
  <2>6. x \in [bridge : Bridges, events : Seq(Event)] /\ x.bridge = c /\ x.events = w
    BY <2>4, <2>5
  <2> HIDE DEF x
  <2>7. x \in E
    BY <2>1, <2>3, <2>4, <2>6
  <2> QED BY <2>2, <2>7
<1>3. Turn(s) \in E
  <2>1. <<>> \in Seq(Event) /\ seen \o <<>> = seen
    BY <1>1, ConcatEmptySeq
  <2>2. s.events = <<>> /\ s.bridge = bridge
    BY DEF Start
  <2> HIDE DEF E, s
  <2> QED BY <1>1, <1>2, <2>1, <2>2
<1>4. ASSUME NEW r \in E PROVE Turn(r) \in E
  <2>1. CASE BridgePending(r.bridge)
    <3>1. r.events \in Seq(Event) /\ Linked(r.bridge, seen \o r.events, pushed, dropped)
      OBVIOUS
    <3> HIDE DEF E
    <3> QED BY <1>2, <2>1, <3>1
  <2>2. CASE ~BridgePending(r.bridge)
    BY <2>2 DEF Turn
  <2> QED BY <2>1, <2>2
<1> DEFINE r == DrainUpTo(bridge, n)
<1>5. r \in E
  <2>1. n \in Nat \ {0}
    OBVIOUS
  <2> HIDE DEF E
  <2> QED BY <1>3, <1>4, <2>1, DrainKeeps
<1> HIDE DEF r
<1>6. /\ bridge' = r.bridge /\ seen' = seen \o r.events
      /\ pushed' = pushed /\ dropped' = dropped
  BY DEF DrainBridge, r
<1>7. /\ r.events \in Seq(Event) /\ r.events # <<>>
      /\ Linked(r.bridge, seen \o r.events, pushed, dropped)
  BY <1>5
<1>8. LinkedNow'
  BY <1>6, <1>7 DEF LinkedNow
<1>9. Len(seen') > Len(seen)
  <2>1. Len(seen \o r.events) = Len(seen) + Len(r.events)
    BY <1>1, <1>7, ConcatProperties
  <2>2. Len(r.events) \in Nat \ {0} /\ Len(seen) \in Nat
    BY <1>1, <1>7, EmptySeq
  <2> QED BY <1>6, <2>1, <2>2
<1>10. SubSeq(seen', 1, Len(seen)) = seen
  <2>1. CASE seen = <<>>
    <3>1. Len(seen) = 0 /\ Len(seen) \in Int /\ 1 \in Int
      BY <2>1
    <3>2. SubSeq(seen', 1, Len(seen)) = <<>>
      BY <3>1, SubSeqEmpty
    <3> QED BY <2>1, <3>2
  <2>2. CASE seen # <<>>
    <3>1. 1 \in 1 .. Len(seen) /\ Len(seen) \in 1 .. Len(seen)
      BY <1>1, <2>2
    <3>2. SubSeq(seen \o r.events, 1, Len(seen)) = SubSeq(seen, 1, Len(seen))
      BY <1>1, <1>7, <3>1, SubSeqOfConcat1
    <3> QED BY <1>1, <1>6, <3>2, SubSeqFull
  <2> QED BY <2>1, <2>2
<1>11. Protocol!Word(seen')
  BY <1>8 DEF LinkedNow, Linked
<1> QED BY <1>8, <1>9, <1>10, <1>11 DEF Protocol!Deliver

-----------------------------------------------------------------------------
\* What cancel and close leave of the record.
LEMMA TerminalSet ==
  ASSUME NEW b \in Bridges, NEW place \in States,
         NEW terminal \in {"stkEnd", "stkError", "stkCancel"},
         NEW c, c = SetTerminal(b, place, terminal)
  PROVE  /\ c \in Bridges /\ c.state = place /\ c.terminal = terminal
         /\ c.terminalPending /\ c.closePending = b.closePending
         /\ SameQueue(b, c) /\ c.progress = b.progress
         /\ c.openPending = b.openPending
<1>1. c = [b EXCEPT !.state = place, !.terminal = terminal, !.terminalPending = TRUE]
  BY DEF SetTerminal
<1>2. c \in Bridges
  BY <1>1 DEF Bridges
<1>3. c.state = place /\ c.terminal = terminal /\ c.terminalPending
  BY <1>1 DEF Bridges
<1>4. c.closePending = b.closePending /\ c.progress = b.progress
      /\ c.openPending = b.openPending
  BY <1>1 DEF Bridges
<1>5. SameQueue(b, c)
  BY <1>1 DEF Bridges, SameQueue
<1> QED BY <1>2, <1>3, <1>4, <1>5

\* Nothing but a terminal or a close is left to drain.
Cleared(c) == /\ c.queue = <<>> /\ c.queuedWeight = 0
              /\ ~c.openPending /\ c.progress = NoProgress

LEMMA Cancelled ==
  ASSUME NEW b \in Bridges, NEW c, c = CancelBridge(b)
  PROVE  /\ c \in Bridges /\ Cleared(c)
         /\ c.state = "ssCancelled" /\ c.terminal = "stkCancel"
         /\ c.terminalPending /\ c.closePending = b.closePending
<1> DEFINE m == [b EXCEPT !.queue = <<>>, !.queuedWeight = 0,
                          !.openPending = FALSE, !.progress = NoProgress]
<1>1. <<>> \in Seq(Event) /\ 0 \in Nat
  OBVIOUS
<1>2. m \in Bridges
  BY <1>1 DEF Bridges, NoProgress
<1>3. Cleared(m) /\ m.closePending = b.closePending
  BY DEF Bridges, Cleared
<1>4. c = SetTerminal(m, "ssCancelled", "stkCancel")
  BY DEF CancelBridge
<1> HIDE DEF m
<1>5. "ssCancelled" \in States /\ "stkCancel" \in {"stkEnd", "stkError", "stkCancel"}
  BY DEF States
<1>6. /\ c \in Bridges /\ c.state = "ssCancelled" /\ c.terminal = "stkCancel"
      /\ c.terminalPending /\ c.closePending = m.closePending
      /\ SameQueue(m, c) /\ c.progress = m.progress /\ c.openPending = m.openPending
  BY <1>2, <1>4, <1>5, TerminalSet
<1> QED BY <1>3, <1>6 DEF Cleared, SameQueue

LEMMA Closed ==
  ASSUME NEW b \in Bridges, NEW c, c = CloseBridge(b)
  PROVE  /\ c \in Bridges /\ c.state = "ssClosed" /\ c.closePending
         /\ b.state = "ssOpen" =>
              Cleared(c) /\ c.terminal = "stkCancel" /\ c.terminalPending
         /\ b.state # "ssOpen" =>
              /\ SameQueue(b, c) /\ c.progress = b.progress
              /\ c.terminal = b.terminal /\ c.terminalPending = b.terminalPending
              /\ c.openPending = (b.openPending /\ b.state # "ssIdle")
<1> DEFINE m == IF b.state = "ssOpen" THEN CancelBridge(b)
                ELSE IF b.state = "ssIdle" THEN [b EXCEPT !.openPending = FALSE]
                ELSE b
<1>1. c = [m EXCEPT !.state = "ssClosed", !.closePending = TRUE]
  BY DEF CloseBridge
<1>2. CASE b.state = "ssOpen"
  <2>1. m = CancelBridge(b)
    BY <1>2
  <2> HIDE DEF m
  <2>2. m \in Bridges /\ Cleared(m) /\ m.terminal = "stkCancel" /\ m.terminalPending
    BY <2>1, Cancelled
  <2>3. /\ c \in Bridges /\ c.state = "ssClosed" /\ c.closePending
        /\ c.terminal = m.terminal /\ c.terminalPending = m.terminalPending
    BY <1>1, <2>2 DEF Bridges, States
  <2>4. SameQueue(m, c) /\ c.openPending = m.openPending /\ c.progress = m.progress
    BY <1>1, <2>2 DEF Bridges, SameQueue
  <2> QED BY <1>2, <2>2, <2>3, <2>4 DEF Cleared, SameQueue
<1>3. CASE b.state # "ssOpen"
  <2>1. /\ m \in Bridges /\ m.terminal = b.terminal
        /\ m.terminalPending = b.terminalPending
        /\ m.openPending = (b.openPending /\ b.state # "ssIdle")
    BY <1>3 DEF Bridges
  <2>2. SameQueue(b, m) /\ m.progress = b.progress
    BY <1>3 DEF Bridges, SameQueue
  <2> HIDE DEF m
  <2>3. /\ c \in Bridges /\ c.state = "ssClosed" /\ c.closePending
        /\ c.terminal = m.terminal /\ c.terminalPending = m.terminalPending
    BY <1>1, <2>1 DEF Bridges, States
  <2>4. SameQueue(m, c) /\ c.openPending = m.openPending /\ c.progress = m.progress
    BY <1>1, <2>1 DEF Bridges, SameQueue
  <2> QED BY <1>3, <2>1, <2>2, <2>3, <2>4 DEF SameQueue
<1> QED BY <1>2, <1>3

LEMMA ClearedFits ==
  ASSUME NEW c, NEW p, Cleared(c)
  PROVE  Fits(c) /\ Numbered(c, p)
<1>1. Len(<<>>) = 0 /\ WeightOf(<<>>) = 0
  BY WeightEmpty
<1>2. 0 <= BridgeWeight /\ 0 <= BridgeItems
  BY BridgeLimits
<1>3. Fits(c)
  BY <1>1, <1>2 DEF Fits, Cleared
<1>4. Numbered(c, p)
  BY <1>1 DEF Numbered, Cleared
<1> QED BY <1>3, <1>4

-----------------------------------------------------------------------------
\* A data event joins the queue: it fits, and it is numbered after the others.
LEMMA AppendFits ==
  ASSUME NEW b \in Bridges, NEW p \in Nat, Fits(b), Numbered(b, p),
         NEW e \in Event, e.kind = "sekData", e.value = p + 1,
         BridgeAccepts(b, e), NEW c, c = AfterEvent(b, e)
  PROVE  /\ c \in Bridges /\ Fits(c) /\ Numbered(c, p + 1)
         /\ Len(c.queue) = Len(b.queue) + 1 /\ Len(b.queue) \in Nat
         /\ c.queue # <<>>
         /\ c.state = b.state /\ c.terminal = b.terminal
         /\ c.openPending = b.openPending /\ c.progress = b.progress
         /\ SameEnd(b, c)
<1> DEFINE q == b.queue
           r == Append(q, e)
           w == b.queuedWeight + e.weight
           m == [b EXCEPT !.queue = r]
<1>1. q \in Seq(Event) /\ b.queuedWeight \in Nat /\ e.weight \in Nat
  BY DEF Bridges, Event
<1>2. /\ r \in Seq(Event) /\ r # <<>> /\ Len(r) = Len(q) + 1 /\ Len(q) \in Nat
      /\ \A i \in 1 .. Len(q) : r[i] = q[i]
      /\ r[Len(q) + 1] = e
  BY <1>1, AppendProperties
<1>3. WeightOf(r) = WeightOf(q) + e.weight
  BY <1>1, WeightAppend
<1>4. c = [b EXCEPT !.queue = Append(@, e), !.queuedWeight = @ + e.weight]
  BY DEF AfterEvent
<1>5. ~Backpressured(b, e) /\ b.state = "ssOpen"
  BY DEF BridgeAccepts
<1>6. Len(q) < BridgeItems /\ w <= BridgeWeight
  <2>1. ~(Len(q) >= BridgeItems) /\ ~(b.queuedWeight > BridgeWeight - e.weight)
    BY <1>5 DEF Backpressured
  <2>2. BridgeItems \in Nat /\ BridgeWeight \in Nat
    BY BridgeLimits
  <2> HIDE DEF q
  <2> QED BY <1>1, <1>2, <2>1, <2>2
<1> HIDE DEF r, w
<1>7. /\ m \in Bridges /\ m.queue = r
      /\ m.state = b.state /\ m.terminal = b.terminal
      /\ m.openPending = b.openPending /\ m.progress = b.progress
      /\ SameEnd(b, m)
  BY <1>2 DEF Bridges, SameEnd
<1>8. c = [m EXCEPT !.queuedWeight = w] /\ w \in Nat
  BY <1>1, <1>4 DEF Bridges, r, w
<1> HIDE DEF m
<1>9. /\ c \in Bridges /\ c.queue = m.queue /\ c.queuedWeight = w
      /\ c.state = m.state /\ c.terminal = m.terminal
      /\ c.openPending = m.openPending /\ c.progress = m.progress
      /\ SameEnd(m, c)
  BY <1>7, <1>8 DEF Bridges, SameEnd
<1>10. Fits(c)
  <2>1. c.queuedWeight = WeightOf(c.queue)
    <3>1. b.queuedWeight = WeightOf(q)
      BY DEF Fits
    <3> QED BY <1>3, <1>7, <1>9, <3>1 DEF w
  <2>2. c.queuedWeight <= BridgeWeight
    BY <1>6, <1>9
  <2>3. Len(c.queue) <= BridgeItems
    <3>1. BridgeItems \in Nat /\ Len(c.queue) = Len(q) + 1
      BY <1>2, <1>7, <1>9, BridgeLimits
    <3> HIDE DEF q
    <3> QED BY <1>2, <1>6, <3>1
  <2> QED BY <2>1, <2>2, <2>3 DEF Fits
<1>11. Numbered(c, p + 1)
  <2>1. \A i \in 1 .. Len(q) : q[i].kind = "sekData" /\ q[i].value = (p - Len(q)) + i
    BY DEF Numbered
  <2> HIDE DEF q
  <2>2. ASSUME NEW i \in 1 .. Len(r)
        PROVE  r[i].kind = "sekData" /\ r[i].value = ((p + 1) - Len(r)) + i
    <3>1. CASE i \in 1 .. Len(q)
      <4>1. q[i].kind = "sekData" /\ q[i].value = (p - Len(q)) + i /\ r[i] = q[i]
        BY <1>2, <2>1, <3>1
      <4>2. (p - Len(q)) + i = ((p + 1) - Len(r)) + i
        BY <1>2
      <4> QED BY <4>1, <4>2
    <3>2. CASE i \notin 1 .. Len(q)
      <4>1. i = Len(q) + 1
        BY <1>2, <3>2
      <4>2. ((p + 1) - Len(r)) + i = p + 1
        BY <1>2, <4>1
      <4> QED BY <1>2, <4>1, <4>2
    <3> QED BY <3>1, <3>2
  <2> QED BY <1>7, <1>9, <2>2 DEF Numbered
<1> QED BY <1>2, <1>7, <1>9, <1>10, <1>11 DEF SameEnd

\* An event the bridge accepts keeps the invariant.
LEMMA EventLinked ==
  ASSUME NEW b, NEW s, NEW p, NEW d, Linked(b, s, p, d),
         NEW e \in Event, BridgeAccepts(b, e), e.kind = "sekData" => e.value = p + 1
  PROVE  Linked(AfterEvent(b, e), s, IF e.kind = "sekData" THEN p + 1 ELSE p,
                d \/ (b.state = "ssOpen" /\ e.kind \in {"sekCancel", "sekClose"}))
<1> DEFINE c == AfterEvent(b, e)
           n == IF e.kind = "sekData" THEN p + 1 ELSE p
           g == d \/ (b.state = "ssOpen" /\ e.kind \in {"sekCancel", "sekClose"})
<1>1. /\ b \in Bridges /\ s \in Seq(Event) /\ p \in Nat /\ d \in BOOLEAN
      /\ Fits(b) /\ Numbered(b, p)
      /\ Settled(b, s, d) /\ Follows(b, s)
      /\ ~d => p = Given(s) + Len(b.queue)
      /\ Protocol!Word(s)
  BY DEF Linked
<1>2. /\ n \in Nat /\ g \in BOOLEAN
      /\ e.kind # "sekData" => n = p
      /\ e.kind \notin {"sekCancel", "sekClose"} => g = d
      /\ b.state # "ssOpen" => g = d
  BY <1>1
<1>3. e.kind \in Kinds
  BY DEF Event
<1> DEFINE Goal == /\ c \in Bridges /\ Fits(c) /\ Numbered(c, n)
                   /\ ~g => n = Given(s) + Len(c.queue)
                   /\ Settled(c, s, g) /\ Follows(c, s)
<1>4. ASSUME e.kind = "sekOpen" PROVE Goal
  <2>1. c = [b EXCEPT !.state = "ssOpen", !.openPending = TRUE] /\ b.state = "ssIdle"
    BY <1>4 DEF AfterEvent, BridgeAccepts
  <2>2. s = <<>> /\ ~BridgePending(b)
    BY <1>1, <2>1 DEF Settled
  <2>3. c \in Bridges /\ c.state = "ssOpen" /\ c.openPending /\ c.terminal = b.terminal
    BY <1>1, <2>1 DEF Bridges, States
  <2>4. SameQueue(b, c) /\ c.progress = b.progress /\ SameEnd(b, c)
    BY <1>1, <2>1 DEF Bridges, SameQueue, SameEnd
  <2>5. Fits(c) /\ Numbered(c, p)
    BY <1>1, <2>4, SameFits
  <2>6. Settled(c, s, g)
    BY <1>1, <1>2, <1>4, <2>1, <2>2, <2>3, <2>4 DEF Settled, BridgePending, SameEnd
  <2>7. Follows(c, s)
    BY <1>1, <2>1, <2>2, <2>3, <2>4 DEF Follows, Without, Protocol!Without
  <2> QED BY <1>1, <1>2, <1>4, <2>3, <2>4, <2>5, <2>6, <2>7 DEF SameQueue
<1>5. ASSUME e.kind = "sekData" PROVE Goal
  <2>1. b.state = "ssOpen" /\ n = p + 1 /\ g = d
    BY <1>2, <1>5 DEF BridgeAccepts
  <2>2. /\ c \in Bridges /\ Fits(c) /\ Numbered(c, p + 1)
        /\ Len(c.queue) = Len(b.queue) + 1 /\ Len(b.queue) \in Nat
        /\ c.queue # <<>>
        /\ c.state = b.state /\ c.terminal = b.terminal
        /\ c.openPending = b.openPending /\ c.progress = b.progress
        /\ SameEnd(b, c)
    <3> HIDE DEF c
    <3> QED BY <1>1, <1>5, AppendFits DEF c
  <2> HIDE DEF c, n, g
  <2>3. ~g => n = Given(s) + Len(c.queue)
    <3>1. Given(s) \in Nat
      BY <1>1, GivenAfter
    <3> QED BY <1>1, <2>1, <2>2, <3>1
  <2>4. Settled(c, s, g)
    BY <1>1, <2>1, <2>2 DEF Settled, SameEnd
  <2>5. Follows(c, s)
    BY <1>1, <2>1, <2>2 DEF Follows, AfterOpen, BeforeTerminal, SameEnd
  <2> QED BY <2>1, <2>2, <2>3, <2>4, <2>5
<1>6. ASSUME e.kind = "sekProgress" PROVE Goal
  <2>1. c = [b EXCEPT !.progress = e.value] /\ b.state = "ssOpen" /\ e.value \in Nat
    BY <1>6 DEF AfterEvent, BridgeAccepts, Backpressured, Event
  <2>2. /\ c \in Bridges /\ c.state = b.state /\ c.openPending = b.openPending
        /\ c.terminal = b.terminal
    BY <1>1, <2>1 DEF Bridges
  <2>3. SameQueue(b, c) /\ SameEnd(b, c)
    BY <1>1, <2>1 DEF Bridges, SameQueue, SameEnd
  <2>4. Fits(c) /\ Numbered(c, p)
    BY <1>1, <2>3, SameFits
  <2> HIDE DEF c, n, g
  <2>5. Settled(c, s, g)
    BY <1>1, <1>2, <1>6, <2>1, <2>2, <2>3 DEF Settled, SameQueue, SameEnd
  <2>6. Follows(c, s)
    BY <1>1, <2>1, <2>2, <2>3 DEF Follows, AfterOpen, SameEnd
  <2> QED BY <1>1, <1>2, <1>6, <2>2, <2>3, <2>4, <2>5, <2>6 DEF SameQueue
<1>7. ASSUME e.kind \in {"sekEnd", "sekError"} PROVE Goal
  <2>1. PICK st \in {"ssEnded", "ssFailed"}, tm \in {"stkEnd", "stkError"} :
          c = SetTerminal(b, st, tm)
    BY <1>7 DEF AfterEvent
  <2>2. b.state = "ssOpen"
    BY <1>7 DEF BridgeAccepts
  <2>3. /\ c \in Bridges /\ c.state = st /\ c.terminal = tm
        /\ c.terminalPending /\ c.closePending = b.closePending
        /\ SameQueue(b, c) /\ c.progress = b.progress
        /\ c.openPending = b.openPending
    <3>1. st \in States /\ tm \in {"stkEnd", "stkError", "stkCancel"}
      BY DEF States
    <3> HIDE DEF c
    <3> QED BY <1>1, <2>1, <3>1, TerminalSet
  <2>4. Fits(c) /\ Numbered(c, p)
    BY <1>1, <2>3, SameFits
  <2> HIDE DEF c, n, g
  <2>5. Settled(c, s, g)
    BY <1>1, <1>2, <1>7, <2>2, <2>3 DEF Settled
  <2>6. Follows(c, s)
    BY <1>1, <2>2, <2>3 DEF Follows, AfterOpen, SameQueue
  <2> QED BY <1>1, <1>2, <1>7, <2>3, <2>4, <2>5, <2>6 DEF SameQueue
<1>8. ASSUME e.kind = "sekCancel" PROVE Goal
  <2>1. c = CancelBridge(b) /\ b.state \in {"ssIdle", "ssOpen"}
    BY <1>8 DEF AfterEvent, BridgeAccepts
  <2> HIDE DEF c
  <2>2. /\ c \in Bridges /\ Cleared(c)
        /\ c.state = "ssCancelled" /\ c.terminal = "stkCancel"
        /\ c.terminalPending /\ c.closePending = b.closePending
    BY <1>1, <2>1, Cancelled
  <2>3. Fits(c) /\ Numbered(c, p)
    BY <2>2, ClearedFits
  <2>4. ~g => n = Given(s) + Len(c.queue)
    BY <1>1, <1>2, <1>8, <2>1, <2>2 DEF Settled, BridgePending, Cleared
  <2>5. Settled(c, s, g)
    BY <1>1, <2>1, <2>2 DEF Settled, Cleared
  <2>6. Follows(c, s)
    BY <1>1, <2>1, <2>2 DEF Follows, AfterOpen, Cleared
  <2> QED BY <1>2, <1>8, <2>2, <2>3, <2>4, <2>5, <2>6
<1>9. ASSUME e.kind = "sekClose" PROVE Goal
  <2>1. c = CloseBridge(b) /\ b.state # "ssClosed"
    BY <1>9 DEF AfterEvent, BridgeAccepts
  <2> HIDE DEF c
  <2>2. /\ c \in Bridges /\ c.state = "ssClosed" /\ c.closePending
        /\ b.state = "ssOpen" =>
             Cleared(c) /\ c.terminal = "stkCancel" /\ c.terminalPending
        /\ b.state # "ssOpen" =>
             /\ SameQueue(b, c) /\ c.progress = b.progress
             /\ c.terminal = b.terminal /\ c.terminalPending = b.terminalPending
             /\ c.openPending = (b.openPending /\ b.state # "ssIdle")
    BY <1>1, <2>1, Closed
  <2>3. Without(s, {"sekClose"})
    BY <1>1, <2>1 DEF Follows
  <2>4. CASE b.state = "ssOpen"
    <3>1. Fits(c) /\ Numbered(c, p)
      BY <2>2, <2>4, ClearedFits
    <3>2. g
      BY <1>9, <2>4
    <3>3. Settled(c, s, g)
      BY <1>1, <2>2, <2>4 DEF Settled, Cleared
    <3>4. Follows(c, s)
      BY <1>1, <2>2, <2>3, <2>4 DEF Follows, AfterOpen, Cleared
    <3> QED BY <1>2, <1>9, <2>2, <3>1, <3>2, <3>3, <3>4
  <2>5. CASE b.state # "ssOpen"
    <3>1. Fits(c) /\ Numbered(c, p)
      BY <1>1, <2>2, <2>5, SameFits
    <3> HIDE DEF n, g
    <3>2. Settled(c, s, g)
      BY <1>1, <1>2, <2>2, <2>5 DEF Settled, SameQueue
    <3>3. Follows(c, s)
      <4>1. b.openPending => b.state # "ssIdle"
        BY <1>1 DEF Settled, BridgePending
      <4> QED BY <1>1, <2>2, <2>3, <2>5, <4>1
              DEF Follows, AfterOpen, BeforeTerminal, SameQueue
    <3> QED BY <1>1, <1>2, <1>9, <2>2, <2>5, <3>1, <3>2, <3>3 DEF SameQueue
  <2> QED BY <2>4, <2>5
<1>10. Goal
  BY <1>3, <1>4, <1>5, <1>6, <1>7, <1>8, <1>9 DEF Kinds
<1> HIDE DEF c, n, g
<1>11. Linked(c, s, n, g)
  BY <1>1, <1>2, <1>10 DEF Linked
<1> QED BY <1>11 DEF c, n, g

-----------------------------------------------------------------------------
\* The inductive invariant.
IInv == LinkedNow /\ pushed <= MaxData

LEMMA InitHolds == BridgeInit => IInv /\ Protocol!Init
<1> SUFFICES ASSUME BridgeInit PROVE IInv /\ Protocol!Init
  OBVIOUS
<1>1. bridge = NewBridge /\ seen = <<>> /\ pushed = 0 /\ dropped = FALSE
  BY DEF BridgeInit
<1>2. <<>> \in Seq(Event) /\ Len(<<>>) = 0 /\ DOMAIN <<>> = {}
  OBVIOUS
<1>3. /\ bridge \in Bridges /\ Cleared(bridge) /\ bridge.state = "ssIdle"
      /\ ~bridge.terminalPending /\ ~bridge.closePending
  BY <1>1, <1>2 DEF NewBridge, Bridges, States, Cleared, NoProgress
<1>4. Fits(bridge) /\ Numbered(bridge, 0)
  BY <1>3, ClearedFits
<1>5. 0 = Given(<<>>) + Len(<<>>)
  BY <1>2, CountNone DEF Given
<1>6. Protocol!Word(<<>>)
  BY <1>2 DEF Protocol!Word, Protocol!InPushOrder
<1>7. Settled(bridge, seen, dropped)
  BY <1>1, <1>3 DEF Settled, BridgePending, Cleared
<1>8. Follows(bridge, seen)
  BY <1>1, <1>2, <1>3 DEF Follows, AfterOpen, Cleared, Without, Protocol!Without
<1>9. LinkedNow
  BY <1>1, <1>2, <1>3, <1>4, <1>5, <1>6, <1>7, <1>8 DEF LinkedNow, Linked, Cleared
<1>10. pushed <= MaxData
  BY <1>1, BridgeInputs
<1> QED BY <1>1, <1>9, <1>10 DEF IInv, Protocol!Init

LEMMA EventsTyped ==
  ASSUME NEW e \in Events, pushed \in Nat
  PROVE  /\ e \in Event
         /\ e.kind = "sekData" => e.value = pushed + 1 /\ pushed < MaxData
<1>1. pushed + 1 \in Nat /\ Weights \subseteq Nat /\ ProgressValues \subseteq Nat
      /\ 0 \in Nat
  BY BridgeInputs
<1>2. CASE e \in {Control(k) : k \in Kinds \ {"sekData", "sekProgress"}}
  BY <1>1, <1>2 DEF Control, Event
<1>3. CASE e \in [kind : {"sekProgress"}, weight : {0}, value : ProgressValues]
  BY <1>1, <1>3 DEF Event, Kinds
<1>4. CASE /\ e \in [kind : {"sekData"}, weight : Weights, value : {pushed + 1}]
           /\ pushed < MaxData
  BY <1>1, <1>4 DEF Event, Kinds
<1> QED BY <1>2, <1>3, <1>4 DEF Events

LEMMA StepHolds ==
  ASSUME IInv, [BridgeNext]_bridgeVars
  PROVE  IInv' /\ [Protocol!Deliver]_seen
<1> USE DEF IInv
<1>1. ASSUME NEW e \in Events, Accept(e) PROVE IInv' /\ seen' = seen
  <2>1. LinkedNow /\ pushed \in Nat /\ Linked(bridge, seen, pushed, dropped)
    BY DEF LinkedNow, Linked
  <2>2. e \in Event /\ (e.kind = "sekData" => e.value = pushed + 1 /\ pushed < MaxData)
    BY <2>1, EventsTyped
  <2>3. Linked(AfterEvent(bridge, e), seen,
               IF e.kind = "sekData" THEN pushed + 1 ELSE pushed,
               dropped \/ (bridge.state = "ssOpen" /\ e.kind \in {"sekCancel", "sekClose"}))
    BY <1>1, <2>1, <2>2, EventLinked DEF Accept
  <2>4. LinkedNow'
    BY <1>1, <2>3 DEF Accept, LinkedNow
  <2>5. pushed' <= MaxData
    BY <1>1, <2>1, <2>2, BridgeInputs DEF Accept
  <2> QED BY <1>1, <2>4, <2>5 DEF Accept
<1>2. ASSUME NEW n \in 1 .. MaxDrain, DrainBridge(n) PROVE IInv' /\ Protocol!Deliver
  <2>1. LinkedNow' /\ Protocol!Deliver
    BY <1>2, DrainLinked
  <2>2. pushed' = pushed
    BY <1>2 DEF DrainBridge
  <2> QED BY <2>1, <2>2
<1>3. ASSUME UNCHANGED bridgeVars PROVE IInv' /\ seen' = seen
  BY <1>3 DEF bridgeVars, LinkedNow
<1> QED BY <1>1, <1>2, <1>3 DEF BridgeNext

LEMMA IInvAlways == BridgeSpec => []IInv
<1>1. BridgeInit => IInv
  BY InitHolds
<1>2. IInv /\ [BridgeNext]_bridgeVars => IInv'
  BY StepHolds
<1> QED BY <1>1, <1>2, PTL DEF BridgeSpec

\* The cached weight is the weight of the queue, and whatever the producer
\* pushes and however the consumer drains, neither limit is exceeded.
THEOREM WeightIsAccounted == BridgeSpec => []QueueAccounted
<1>1. IInv => QueueAccounted
  <2> SUFFICES ASSUME IInv PROVE QueueAccounted
    OBVIOUS
  <2>1. /\ bridge \in Bridges /\ seen \in Seq(Event) /\ pushed \in Nat
        /\ dropped \in BOOLEAN /\ Fits(bridge) /\ pushed <= MaxData
    BY DEF IInv, LinkedNow, Linked
  <2>2. pushed \in 0 .. MaxData
    BY <2>1, BridgeInputs
  <2> QED BY <2>1, <2>2 DEF QueueAccounted, BridgeTypeOK, Fits
<1> QED BY <1>1, IInvAlways, PTL

\* Until a cancellation drops queued work, the drained and the queued data
\* are together all the data accepted, in order.
THEOREM NoDataLost == BridgeSpec => []NothingLostUnlessCancelled
<1>1. IInv => NothingLostUnlessCancelled
  <2> SUFFICES ASSUME IInv, ~dropped PROVE NothingLostUnlessCancelled
    BY DEF NothingLostUnlessCancelled
  <2>1. /\ bridge.queue \in Seq(Event) /\ seen \in Seq(Event) /\ pushed \in Nat
        /\ Numbered(bridge, pushed)
        /\ pushed = Given(seen) + Len(bridge.queue)
        /\ Protocol!InPushOrder(seen)
    BY DEF IInv, LinkedNow, Linked, Bridges, Protocol!Word
  <2> DEFINE q == bridge.queue
             g == Protocol!DataAmong(seen, Len(seen))
  <2>2. g \in Nat /\ Given(seen) = g
    <3>1. Len(seen) \in Nat
      BY <2>1
    <3> QED BY <3>1, CountType DEF Given
  <2>3. DOMAIN q = 1 .. Len(q) /\ Len(q) \in Nat /\ q \in Seq(Event)
    BY <2>1
  <2>4. \A i \in 1 .. Len(q) : q[i].value = (pushed - Len(q)) + i
    BY <2>1 DEF Numbered
  <2>5. pushed = g + Len(q)
    BY <2>1, <2>2
  <2> HIDE DEF q, g
  <2>6. ASSUME NEW i \in DOMAIN q PROVE q[i].value = g + i
    <3>1. i \in 1 .. Len(q) /\ (pushed - Len(q)) + i = g + i
      BY <2>2, <2>3, <2>5
    <3> QED BY <2>4, <3>1
  <2> QED BY <2>1, <2>5, <2>6 DEF NothingLostUnlessCancelled, q, g
<1> QED BY <1>1, IInvAlways, PTL

\* Whatever the order of the calls, what the consumer is given is a word of
\* the stream protocol, and a drain only ever adds to it.
THEOREM BridgeIsProtocol == BridgeSpec => ImplementsProtocol
<1>1. BridgeInit => Protocol!Init
  BY InitHolds
<1>2. IInv /\ [BridgeNext]_bridgeVars => [Protocol!Deliver]_seen
  BY StepHolds
<1> QED BY <1>1, <1>2, IInvAlways, PTL DEF BridgeSpec, ImplementsProtocol, Protocol!Spec

-----------------------------------------------------------------------------
\* The mailbox.

\* What a thread's place in a call says of the data.
Places ==
  /\ \A t \in Threads : pc[t] = "calling" => context[t] \in Contexts
  /\ Len(deferred) <= 1
  /\ hand # <<>> => Len(hand) = 1
  /\ pc[UI] = "releasing" <=> hand # <<>>
  /\ pc[UI] \in {"disposing", "dropping"} => disposed
  /\ (disposed /\ pc[UI] \notin {"disposing", "dropping"}) =>
       channel = <<>> /\ deferred = <<>> /\ hand = <<>> /\ queuedItems = 0

Shape == TypeOK /\ Places

-----------------------------------------------------------------------------
LEMMA WaitingType ==
  ASSUME TypeOK
  PROVE  /\ Waiting \in Seq(Event)
         /\ Len(Waiting) = Len(deferred) + Len(channel)
         /\ deferred = <<>> => Waiting = channel
         /\ Waiting = <<>> <=> deferred = <<>> /\ channel = <<>>
         /\ Waiting # <<>> => /\ Head(Waiting) \in Event
                              /\ Head(Waiting) = Waiting[1]
<1> USE DEF TypeOK, Waiting
<1>1. /\ deferred \in Seq(Event) /\ channel \in Seq(Event)
      /\ Len(deferred) \in Nat /\ Len(channel) \in Nat
  BY LenProperties
<1>2. Waiting \in Seq(Event) /\ Len(Waiting) = Len(deferred) + Len(channel)
  BY <1>1, ConcatProperties
<1>3. deferred = <<>> => Waiting = channel
  BY <1>1, ConcatEmptySeq
<1>4. Waiting = <<>> <=> deferred = <<>> /\ channel = <<>>
  BY <1>1, ConcatEqualIffEmpty
<1>5. Waiting # <<>> => Head(Waiting) \in Event /\ Head(Waiting) = Waiting[1]
  BY <1>2, HeadTailProperties
<1> QED BY <1>2, <1>3, <1>4, <1>5

LEMMA ShapeInit == Init => Shape
<1> SUFFICES ASSUME Init PROVE Shape
  OBVIOUS
<1>1. <<>> \in Seq(Event) /\ Len(<<>>) = 0
  BY EmptySeq
<1>2. TypeOK
  <2>1. /\ pc \in [Threads -> PcValues]
        /\ \A t \in Producers : pc[t] \in {"idle", "calling", "finishing"}
        /\ context \in [Threads -> Contexts \cup {NoWake}]
    BY DEF Init, PcValues, Threads
  <2>2. state \in States /\ posted \subseteq Contexts
    BY DEF Init, States
  <2>3. /\ disposed \in BOOLEAN /\ wakePending \in BOOLEAN
        /\ asleep \in BOOLEAN /\ pumpAgain \in BOOLEAN
    BY DEF Init
  <2> QED BY <1>1, <2>1, <2>2, <2>3 DEF Init, TypeOK
<1>3. Places
  BY <1>1, Threads_Assumption DEF Init, Places, Threads
<1> QED BY <1>2, <1>3 DEF Shape

LEMMA UIThread == UI \in Threads /\ UI \notin Producers /\ Producers \subseteq Threads
BY Threads_Assumption DEF Threads

\* The cases of a step, so that each proof below names them all.
LEMMA StepCases ==
  ASSUME [Next]_vars
  PROVE  \/ \E t \in Threads : InvokeWake(t)
         \/ \E t \in Threads : FinishWake(t)
         \/ \E t \in Threads, e \in Offers : Offer(t, e)
         \/ \E c \in Contexts \cup {NoWake} : SetWakeCallback(c)
         \/ \E n \in 1 .. MaxMessages : PumpInto(n)
         \/ \E n \in 1 .. MaxMessages : Drain(n)
         \/ \E c \in Contexts, n \in 1 .. MaxMessages : HandleWake(c, n)
         \/ ResumeSetWake \/ ResumeDispose \/ DropQueued
         \/ PumpTake \/ PumpRelease \/ PumpLoopEnds \/ PumpEnd
         \/ SpuriousWakeup
         \/ Dispose
         \/ UNCHANGED vars
BY DEF Next, WakeStep, UIStep

LEMMA OffersAreEvents ==
  ASSUME TypeOK, NEW e \in Offers
  PROVE  e \in Event /\ e.value = accepted + 1
<1>1. accepted + 1 \in Nat /\ Weights \subseteq Nat
  BY Limits_Assumption DEF TypeOK
<1>2. CASE e \in [kind : Kinds \ {"sekData"}, weight : {0}, value : {accepted + 1}]
  BY <1>1, <1>2 DEF Event
<1>3. CASE e \in [kind : {"sekData"}, weight : Weights, value : {accepted + 1}]
  BY <1>1, <1>3 DEF Event, Kinds
<1> QED BY <1>2, <1>3 DEF Offers

LEMMA OneEvent ==
  ASSUME NEW e \in Event
  PROVE  /\ <<e>> \in Seq(Event) /\ Len(<<e>>) = 1 /\ <<e>>[1] = e
         /\ <<e>> # <<>> /\ <<>> \in Seq(Event)
OBVIOUS

\* What installing a wake callback changes.
InstallTypes ==
  /\ wakeContext \in Contexts \cup {NoWake}
  /\ wakePending \in BOOLEAN /\ callbacksInFlight \in Int
  /\ pc \in [Threads -> PcValues]
  /\ \A t \in Producers : pc[t] \in {"idle", "calling", "finishing"}
  /\ context \in [Threads -> Contexts \cup {NoWake}]

LEMMA InstallTyped ==
  ASSUME TypeOK, NEW c \in Contexts \cup {NoWake}, InstallWake(c)
  PROVE  InstallTypes'
<1>1. CASE StartWake(UI, c)
  BY <1>1, UIThread DEF TypeOK, InstallTypes, InstallWake, StartWake, PcValues
<1>2. CASE /\ wakePending' = FALSE
           /\ pc' = [pc EXCEPT ![UI] = "idle"]
           /\ UNCHANGED <<callbacksInFlight, context>>
  BY <1>2, UIThread DEF TypeOK, InstallTypes, InstallWake, PcValues
<1> QED BY <1>1, <1>2 DEF InstallWake

LEMMA TypeNext ==
  ASSUME Shape, [Next]_vars
  PROVE  TypeOK'
<1> USE UIThread DEF Shape
<1>1. ASSUME NEW t \in Threads, InvokeWake(t) PROVE TypeOK'
  <2>1. posted' \subseteq Contexts
    BY <1>1 DEF TypeOK, Places, InvokeWake
  <2> QED BY <1>1, <2>1 DEF TypeOK, InvokeWake, shared, local, PcValues
<1>2. ASSUME NEW t \in Threads, FinishWake(t) PROVE TypeOK'
  BY <1>2 DEF TypeOK, FinishWake, local, PcValues
<1>3. ASSUME NEW t \in Threads, NEW e \in Offers, Offer(t, e) PROVE TypeOK'
  <2>1. e \in Event /\ e.weight \in Int
    BY OffersAreEvents DEF Event
  <2>2. /\ channel' \in Seq(Event) /\ queuedItems' \in Int
        /\ queuedWeight' \in Int /\ accepted' \in Nat
    BY <1>3, <2>1, AppendProperties DEF TypeOK, Offer
  <2>3. state' \in States
    BY <1>3 DEF TypeOK, Offer, NextState, States
  <2>4. /\ wakePending' \in BOOLEAN /\ callbacksInFlight' \in Int
        /\ pc' \in [Threads -> PcValues]
        /\ \A p \in Producers : pc'[p] \in {"idle", "calling", "finishing"}
        /\ context' \in [Threads -> Contexts \cup {NoWake}]
    <3>1. CASE UNCHANGED <<wakePending, callbacksInFlight, calls>>
      BY <3>1 DEF TypeOK, calls
    <3>2. CASE StartWake(t, wakeContext)
      BY <3>2 DEF TypeOK, StartWake, PcValues
    <3> QED BY <1>3, <3>1, <3>2 DEF Offer
  <2> QED BY <1>3, <2>2, <2>3, <2>4 DEF TypeOK, Offer, local
<1>4. ASSUME NEW c \in Contexts \cup {NoWake}, SetWakeCallback(c) PROVE TypeOK'
  <2>1. CASE callbacksInFlight = 0
    <3>1. InstallWake(c) /\ UNCHANGED <<asleep, target>>
      BY <1>4, <2>1 DEF SetWakeCallback
    <3>2. InstallTypes'
      BY <3>1, InstallTyped
    <3> QED BY <1>4, <3>1, <3>2 DEF TypeOK, InstallTypes, SetWakeCallback
  <2>2. CASE callbacksInFlight > 0
    <3>1. /\ asleep' = TRUE /\ target' = c
          /\ pc' = [pc EXCEPT ![UI] = "settingWake"]
          /\ UNCHANGED <<wakePending, callbacksInFlight, wakeContext, context>>
      BY <1>4, <2>2 DEF SetWakeCallback
    <3>2. /\ asleep' \in BOOLEAN /\ target' \in Contexts \cup {NoWake}
          /\ pc' \in [Threads -> PcValues]
          /\ \A p \in Producers : pc'[p] \in {"idle", "calling", "finishing"}
      BY <3>1 DEF TypeOK, PcValues
    <3> QED BY <1>4, <3>1, <3>2 DEF TypeOK, SetWakeCallback
  <2> QED BY <1>4, <2>1, <2>2 DEF SetWakeCallback
<1>5. ASSUME NEW n \in 1 .. MaxMessages, PumpInto(n) PROVE TypeOK'
  BY <1>5 DEF TypeOK, PumpInto, shared, PcValues
<1>6. ASSUME NEW n \in 1 .. MaxMessages, Drain(n) PROVE TypeOK'
  BY <1>6 DEF TypeOK, Drain, shared, calls, PcValues
<1>7. ASSUME NEW c \in Contexts, NEW n \in 1 .. MaxMessages, HandleWake(c, n)
      PROVE TypeOK'
  BY <1>7 DEF TypeOK, HandleWake, shared, PcValues
<1>8. CASE ResumeSetWake
  <2>1. CASE callbacksInFlight = 0
    <3>1. InstallWake(target) /\ target' = NoWake /\ UNCHANGED asleep
      BY <1>8, <2>1 DEF ResumeSetWake
    <3>2. InstallTypes'
      BY <3>1, InstallTyped DEF TypeOK
    <3> QED BY <1>8, <3>1, <3>2 DEF TypeOK, InstallTypes, ResumeSetWake
  <2>2. CASE callbacksInFlight > 0
    <3>1. asleep' = TRUE
      BY <1>8, <2>2 DEF ResumeSetWake
    <3>2. UNCHANGED <<wakePending, callbacksInFlight, wakeContext, target, pc, context>>
      BY <1>8, <2>2 DEF ResumeSetWake, calls
    <3> QED BY <1>8, <3>1, <3>2 DEF TypeOK, ResumeSetWake
  <2> QED BY <1>8, <2>1, <2>2 DEF ResumeSetWake
<1>9. CASE ResumeDispose
  BY <1>9 DEF TypeOK, ResumeDispose, local, PcValues
<1>10. CASE DropQueued
  BY <1>10 DEF TypeOK, DropQueued, PcValues
<1>11. CASE PumpTake
  <2>1. Waiting # <<>> /\ Head(Waiting) \in Event
    BY <1>11, WaitingType DEF PumpTake, PushBack
  <2>2. channel' \in Seq(Event)
    BY <1>11, <2>1, WaitingType, HeadTailProperties DEF TypeOK, PumpTake, PushBack
  <2>3. deferred' \in Seq(Event) /\ hand' \in Seq(Event) /\ applied' \in Nat
    <3>1. CASE /\ deferred' = <<Head(Waiting)>>
               /\ UNCHANGED <<hand, bridge, applied>>
      BY <2>1, <3>1, OneEvent DEF TypeOK
    <3>2. CASE /\ deferred' = <<>>
               /\ hand' = <<Head(Waiting)>>
               /\ applied' = applied + 1
      BY <2>1, <3>2, OneEvent DEF TypeOK
    <3> QED BY <1>11, <3>1, <3>2 DEF PumpTake, PushBack
  <2>4. /\ pc' \in [Threads -> PcValues]
        /\ \A p \in Producers : pc'[p] \in {"idle", "calling", "finishing"}
    BY <1>11 DEF TypeOK, PumpTake, PushBack, PcValues
  <2> QED BY <1>11, <2>2, <2>3, <2>4 DEF TypeOK, PumpTake, PushBack
<1>12. CASE PumpRelease
  <2>1. hand # <<>> /\ Head(hand) \in Event
    BY <1>12, HeadTailProperties DEF TypeOK, Places, PumpRelease
  <2>2. queuedWeight' \in Int /\ hand' \in Seq(Event) /\ budget' \in Int
    BY <1>12, <2>1, EmptySeq DEF TypeOK, PumpRelease, Event
  <2> QED BY <1>12, <2>2 DEF TypeOK, PumpRelease, PcValues
<1>13. CASE PumpLoopEnds
  BY <1>13 DEF TypeOK, PumpLoopEnds, shared, local, PcValues
<1>14. CASE PumpEnd
  BY <1>14 DEF TypeOK, PumpEnd, PumpPending, PcValues
<1>15. CASE SpuriousWakeup
  BY <1>15 DEF TypeOK, SpuriousWakeup, local, calls, PcValues
<1>16. CASE Dispose
  <2>1. asleep' \in BOOLEAN
    BY <1>16 DEF Dispose
  <2>2. state' \in States
    BY <1>16 DEF Dispose, States
  <2> QED BY <1>16, <2>1, <2>2 DEF TypeOK, Dispose, local, PcValues
<1>17. CASE UNCHANGED vars
  BY <1>17 DEF TypeOK, vars, shared, local, calls
<1> QED
  BY StepCases, <1>1, <1>2, <1>3, <1>4, <1>5, <1>6, <1>7, <1>8, <1>9, <1>10,
     <1>11, <1>12, <1>13, <1>14, <1>15, <1>16, <1>17

LEMMA PlacesNext ==
  ASSUME Shape, [Next]_vars
  PROVE  Places'
<1> USE UIThread DEF Shape, Places
<1>t. /\ pc \in [Threads -> PcValues]
      /\ context \in [Threads -> Contexts \cup {NoWake}]
  BY DEF TypeOK
<1>1. ASSUME NEW t \in Threads, InvokeWake(t) PROVE Places'
  BY <1>1, <1>t DEF InvokeWake, shared, local
<1>2. ASSUME NEW t \in Threads, FinishWake(t) PROVE Places'
  BY <1>2, <1>t DEF FinishWake, local
<1>3. ASSUME NEW t \in Threads, NEW e \in Offers, Offer(t, e) PROVE Places'
  <2>1. CASE ~wakePending /\ wakeContext # NoWake /\ StartWake(t, wakeContext)
    BY <1>3, <1>t, <2>1 DEF TypeOK, Offer, StartWake, local
  <2>2. CASE UNCHANGED <<wakePending, callbacksInFlight, calls>>
    BY <1>3, <2>2 DEF Offer, local, calls
  <2> QED BY <1>3, <2>1, <2>2 DEF Offer
<1>4. ASSUME NEW c \in Contexts \cup {NoWake}, SetWakeCallback(c) PROVE Places'
  <2>1. CASE InstallWake(c)
    BY <1>4, <1>t, <2>1 DEF SetWakeCallback, InstallWake, StartWake
  <2>2. CASE /\ pc' = [pc EXCEPT ![UI] = "settingWake"]
             /\ UNCHANGED context
    BY <1>4, <1>t, <2>2 DEF SetWakeCallback
  <2> QED BY <1>4, <2>1, <2>2 DEF SetWakeCallback
<1>5. ASSUME NEW n \in 1 .. MaxMessages, PumpInto(n) PROVE Places'
  BY <1>5, <1>t DEF PumpInto, shared
<1>6. ASSUME NEW n \in 1 .. MaxMessages, Drain(n) PROVE Places'
  BY <1>6 DEF Drain, shared, calls
<1>7. ASSUME NEW c \in Contexts, NEW n \in 1 .. MaxMessages, HandleWake(c, n)
      PROVE Places'
  BY <1>7, <1>t DEF HandleWake, shared
<1>8. CASE ResumeSetWake
  <2>1. CASE InstallWake(target)
    BY <1>8, <1>t, <2>1 DEF TypeOK, ResumeSetWake, InstallWake, StartWake
  <2>2. CASE UNCHANGED calls
    BY <1>8, <2>2 DEF ResumeSetWake, calls
  <2> QED BY <1>8, <2>1, <2>2 DEF ResumeSetWake
<1>9. CASE ResumeDispose
  BY <1>9, <1>t DEF ResumeDispose, local
<1>10. CASE DropQueued
  BY <1>10, <1>t, EmptySeq DEF DropQueued
<1>11. CASE PumpTake
  <2>1. ~disposed
    BY <1>11, WaitingType DEF PumpTake, PushBack
  <2>2. CASE /\ deferred' = <<Head(Waiting)>>
             /\ pc' = [pc EXCEPT ![UI] = "pumpEnd"]
             /\ UNCHANGED <<hand, bridge, applied>>
    BY <1>11, <1>t, <2>1, <2>2 DEF PumpTake, PushBack
  <2>3. CASE /\ deferred' = <<>>
             /\ hand' = <<Head(Waiting)>>
             /\ pc' = [pc EXCEPT ![UI] = "releasing"]
    BY <1>11, <1>t, <2>1, <2>3 DEF PumpTake, PushBack
  <2> QED BY <1>11, <2>2, <2>3 DEF PumpTake, PushBack
<1>12. CASE PumpRelease
  BY <1>12, <1>t, EmptySeq DEF PumpRelease
<1>13. CASE PumpLoopEnds
  BY <1>13, <1>t DEF PumpLoopEnds, shared, local
<1>14. CASE PumpEnd
  BY <1>14, <1>t DEF PumpEnd
<1>15. CASE SpuriousWakeup
  BY <1>15 DEF SpuriousWakeup, local, calls
<1>16. CASE Dispose
  BY <1>16, <1>t DEF Dispose, local
<1>17. CASE UNCHANGED vars
  BY <1>17 DEF vars, shared, local, calls
<1> QED
  BY StepCases, <1>1, <1>2, <1>3, <1>4, <1>5, <1>6, <1>7, <1>8, <1>9, <1>10,
     <1>11, <1>12, <1>13, <1>14, <1>15, <1>16, <1>17

LEMMA ShapeAlways == Spec => []Shape
<1>1. Shape /\ [Next]_vars => Shape'
  BY TypeNext, PlacesNext DEF Shape
<1> QED BY ShapeInit, <1>1, PTL DEF Spec

\* Every variable keeps its type, for every set of producers and every limit.
THEOREM TypeCorrect == Spec => []TypeOK
<1>1. Shape => TypeOK
  BY DEF Shape
<1> QED BY ShapeAlways, <1>1, PTL

-----------------------------------------------------------------------------
(* The callbacks in flight *)

\* The counter the gate's condition variable is about, and the wake context
\* each counted thread uses.
Flights ==
  /\ IsFiniteSet(InFlight) /\ callbacksInFlight = Cardinality(InFlight)
  /\ asleep => callbacksInFlight > 0
  /\ ContextOwnership

\* A zero counter means that no thread is inside a wake callback.
LEMMA NobodyInside ==
  ASSUME Flights, callbacksInFlight = 0, NEW t \in Threads
  PROVE  pc[t] \notin {"calling", "finishing"}
BY FS_EmptySet DEF Flights, InFlight

\* A step that moves no thread into or out of a callback.
LEMMA SameInFlight ==
  ASSUME Flights, callbacksInFlight' = callbacksInFlight,
         \A t \in Threads : (pc'[t] \in {"calling", "finishing"})
                              <=> (pc[t] \in {"calling", "finishing"})
  PROVE  IsFiniteSet(InFlight)' /\ (callbacksInFlight = Cardinality(InFlight))'
<1>1. InFlight' = InFlight
  BY DEF InFlight
<1> QED BY <1>1 DEF Flights

LEMMA StartCounts ==
  ASSUME Flights, NEW t \in Threads, NEW c, StartWake(t, c),
         pc \in [Threads -> PcValues],
         pc[t] \notin {"calling", "finishing"}
  PROVE  /\ IsFiniteSet(InFlight)' /\ (callbacksInFlight = Cardinality(InFlight))'
         /\ callbacksInFlight' > 0
<1>1. InFlight' = InFlight \cup {t} /\ t \notin InFlight
  BY DEF InFlight, StartWake
<1>2. /\ IsFiniteSet(InFlight')
      /\ Cardinality(InFlight') = Cardinality(InFlight) + 1
  BY <1>1, FS_AddElement DEF Flights
<1>3. Cardinality(InFlight) \in Nat
  BY FS_CardinalityType DEF Flights
<1> QED BY <1>2, <1>3 DEF Flights, StartWake

LEMMA FinishCounts ==
  ASSUME Flights, NEW t \in Threads, FinishWake(t), pc \in [Threads -> PcValues]
  PROVE  IsFiniteSet(InFlight)' /\ (callbacksInFlight = Cardinality(InFlight))'
<1>1. InFlight' = InFlight \ {t} /\ t \in InFlight
  BY DEF InFlight, FinishWake
<1>2. /\ IsFiniteSet(InFlight')
      /\ Cardinality(InFlight') = Cardinality(InFlight) - 1
  BY <1>1, FS_RemoveElement DEF Flights
<1> QED BY <1>2 DEF Flights, FinishWake

\* setWakeCallback once its wait is over: the old context is out of use.
LEMMA InstallFlights ==
  ASSUME Shape, Flights, NEW c \in Contexts \cup {NoWake}, InstallWake(c),
         callbacksInFlight = 0, asleep' => asleep
  PROVE  Flights'
<1>1. \A t \in Threads : pc[t] \notin {"calling", "finishing"}
  BY NobodyInside
<1>2. pc \in [Threads -> PcValues]
      /\ context \in [Threads -> Contexts \cup {NoWake}]
  BY DEF Shape, TypeOK
<1>3. ~asleep
  BY DEF Flights
<1>4. CASE StartWake(UI, c)
  <2>1. /\ IsFiniteSet(InFlight)' /\ (callbacksInFlight = Cardinality(InFlight))'
        /\ callbacksInFlight' > 0
    BY <1>1, <1>2, <1>4, UIThread, StartCounts
  <2>2. ContextOwnership'
    BY <1>1, <1>2, <1>4, UIThread DEF ContextOwnership, InstallWake, StartWake
  <2> QED BY <1>3, <2>1, <2>2 DEF Flights
<1>5. CASE /\ pc' = [pc EXCEPT ![UI] = "idle"]
           /\ UNCHANGED <<callbacksInFlight, context>>
  <2>1. \A t \in Threads : pc'[t] \notin {"calling", "finishing"}
    BY <1>1, <1>2, <1>5, UIThread
  <2>2. IsFiniteSet(InFlight)' /\ (callbacksInFlight = Cardinality(InFlight))'
    BY <1>1, <1>5, <2>1, SameInFlight
  <2>3. ContextOwnership'
    BY <2>1 DEF ContextOwnership
  <2> QED BY <1>3, <2>2, <2>3 DEF Flights
<1> QED BY <1>4, <1>5 DEF InstallWake

\* A step of the UI thread between two places outside callbacks and dispose
\* that leaves the wake callback alone.
LEMMA QuietUIStep ==
  ASSUME Shape, Flights, NEW p \in PcValues,
         pc[UI] \notin {"calling", "finishing", "disposing"},
         p \notin {"calling", "finishing"},
         pc' = [pc EXCEPT ![UI] = p],
         UNCHANGED <<callbacksInFlight, wakeContext, context>>,
         asleep' => asleep \/ callbacksInFlight > 0
  PROVE  Flights'
<1>1. pc \in [Threads -> PcValues]
  BY DEF Shape, TypeOK
<1>2. \A t \in Threads : (pc'[t] \in {"calling", "finishing"})
                           <=> (pc[t] \in {"calling", "finishing"})
  BY <1>1, UIThread
<1>3. IsFiniteSet(InFlight)' /\ (callbacksInFlight = Cardinality(InFlight))'
  BY <1>2, SameInFlight
<1>4. ContextOwnership'
  BY <1>1, UIThread DEF Flights, ContextOwnership
<1> QED BY <1>3, <1>4 DEF Flights

\* A step that moves no thread.
LEMMA StillStep ==
  ASSUME Flights, UNCHANGED <<pc, context, callbacksInFlight, wakeContext>>,
         asleep' => asleep \/ callbacksInFlight > 0
  PROVE  Flights'
<1>1. IsFiniteSet(InFlight)' /\ (callbacksInFlight = Cardinality(InFlight))'
  BY SameInFlight
<1> QED BY <1>1 DEF Flights, ContextOwnership

LEMMA FlightsInit == Init => Flights
<1> SUFFICES ASSUME Init PROVE Flights
  OBVIOUS
<1>1. InFlight = {}
  BY DEF Init, InFlight
<1>2. ContextOwnership
  BY DEF Init, ContextOwnership
<1> QED BY <1>1, <1>2, FS_EmptySet DEF Init, Flights

LEMMA FlightsNext ==
  ASSUME Shape, Flights, [Next]_vars
  PROVE  Flights'
<1> USE UIThread
<1>t. /\ pc \in [Threads -> PcValues]
      /\ context \in [Threads -> Contexts \cup {NoWake}]
      /\ target \in Contexts \cup {NoWake}
  BY DEF Shape, TypeOK
<1>1. ASSUME NEW t \in Threads, InvokeWake(t) PROVE Flights'
  <2>1. \A u \in Threads : (pc'[u] \in {"calling", "finishing"})
                             <=> (pc[u] \in {"calling", "finishing"})
    BY <1>1, <1>t DEF InvokeWake
  <2>2. UNCHANGED <<callbacksInFlight, asleep, wakeContext, context>>
    BY <1>1 DEF InvokeWake, shared
  <2>3. IsFiniteSet(InFlight)' /\ (callbacksInFlight = Cardinality(InFlight))'
    BY <2>1, <2>2, SameInFlight
  <2>4. ContextOwnership'
    BY <1>1, <1>t, <2>2 DEF Flights, ContextOwnership, InvokeWake
  <2> QED BY <2>2, <2>3, <2>4 DEF Flights
<1>2. ASSUME NEW t \in Threads, FinishWake(t) PROVE Flights'
  <2>1. IsFiniteSet(InFlight)' /\ (callbacksInFlight = Cardinality(InFlight))'
    BY <1>2, <1>t, FinishCounts
  <2>2. Cardinality(InFlight') \in Nat
    BY <2>1, FS_CardinalityType
  <2>3. asleep' => callbacksInFlight' > 0
    <3>1. asleep' => callbacksInFlight' # 0
      BY <1>2, Zenon DEF FinishWake
    <3> QED BY <2>1, <2>2, <3>1
  <2>4. ContextOwnership'
    BY <1>2, <1>t DEF Flights, ContextOwnership, FinishWake
  <2> QED BY <2>1, <2>3, <2>4 DEF Flights
<1>3. ASSUME NEW t \in Threads, NEW e \in Offers, Offer(t, e) PROVE Flights'
  <2>1. CASE StartWake(t, wakeContext)
    <3>1. /\ IsFiniteSet(InFlight)'
          /\ (callbacksInFlight = Cardinality(InFlight))'
          /\ callbacksInFlight' > 0
      BY <1>3, <1>t, <2>1, StartCounts DEF Offer
    <3>2. ContextOwnership'
      BY <1>3, <1>t, <2>1 DEF Flights, ContextOwnership, Offer, StartWake
    <3> QED BY <3>1, <3>2 DEF Flights
  <2>2. CASE UNCHANGED <<wakePending, callbacksInFlight, calls>>
    BY <1>3, <2>2, StillStep DEF Offer, calls
  <2> QED BY <1>3, <2>1, <2>2 DEF Offer
<1>4. ASSUME NEW c \in Contexts \cup {NoWake}, SetWakeCallback(c) PROVE Flights'
  <2>1. CASE callbacksInFlight = 0 /\ InstallWake(c) /\ UNCHANGED asleep
    BY <2>1, InstallFlights
  <2>2. CASE /\ callbacksInFlight > 0
             /\ pc' = [pc EXCEPT ![UI] = "settingWake"]
             /\ UNCHANGED <<callbacksInFlight, wakeContext, context>>
    BY <1>4, <2>2, QuietUIStep DEF SetWakeCallback, PcValues
  <2> QED BY <1>4, <2>1, <2>2 DEF SetWakeCallback
<1>5. ASSUME NEW n \in 1 .. MaxMessages, PumpInto(n) PROVE Flights'
  BY <1>5, QuietUIStep DEF PumpInto, shared, PcValues
<1>6. ASSUME NEW n \in 1 .. MaxMessages, Drain(n) PROVE Flights'
  BY <1>6, StillStep DEF Drain, shared, calls
<1>7. ASSUME NEW c \in Contexts, NEW n \in 1 .. MaxMessages, HandleWake(c, n)
      PROVE Flights'
  <2>1. CASE pc' = [pc EXCEPT ![UI] = "pumping"]
    BY <1>7, <2>1, QuietUIStep DEF HandleWake, shared, PcValues
  <2>2. CASE UNCHANGED <<budget, pc>>
    BY <1>7, <2>2, StillStep DEF HandleWake, shared
  <2> QED BY <1>7, <2>1, <2>2 DEF HandleWake
<1>8. CASE ResumeSetWake
  <2>1. CASE callbacksInFlight = 0 /\ InstallWake(target) /\ UNCHANGED asleep
    BY <1>t, <2>1, InstallFlights
  <2>2. CASE callbacksInFlight > 0 /\ UNCHANGED <<callbacksInFlight, wakeContext, calls>>
    BY <2>2, StillStep DEF calls
  <2> QED BY <1>8, <2>1, <2>2 DEF ResumeSetWake
<1>9. CASE ResumeDispose
  <2>1. CASE callbacksInFlight = 0 /\ pc' = [pc EXCEPT ![UI] = "dropping"]
             /\ UNCHANGED asleep
    <3>1. \A u \in Threads : pc'[u] \notin {"calling", "finishing"}
      BY <1>t, <2>1, NobodyInside
    <3>2. IsFiniteSet(InFlight)' /\ (callbacksInFlight = Cardinality(InFlight))'
      BY <1>9, <2>1, <3>1, NobodyInside, SameInFlight DEF ResumeDispose
    <3>3. ContextOwnership'
      BY <3>1 DEF ContextOwnership
    <3> QED BY <1>9, <2>1, <3>2, <3>3 DEF Flights, ResumeDispose
  <2>2. CASE callbacksInFlight > 0 /\ UNCHANGED pc
    BY <1>9, <2>2, StillStep DEF ResumeDispose
  <2> QED BY <1>9, <2>1, <2>2 DEF ResumeDispose
<1>10. CASE DropQueued
  BY <1>10, QuietUIStep DEF DropQueued, PcValues
<1>11. CASE PumpTake
  <2>1. CASE pc' = [pc EXCEPT ![UI] = "pumpEnd"]
    BY <1>11, <2>1, QuietUIStep DEF PumpTake, PushBack, PcValues
  <2>2. CASE pc' = [pc EXCEPT ![UI] = "releasing"]
    BY <1>11, <2>2, QuietUIStep DEF PumpTake, PushBack, PcValues
  <2> QED BY <1>11, <2>1, <2>2 DEF PumpTake, PushBack
<1>12. CASE PumpRelease
  BY <1>12, QuietUIStep DEF PumpRelease, PcValues
<1>13. CASE PumpLoopEnds
  BY <1>13, QuietUIStep DEF PumpLoopEnds, shared, PcValues
<1>14. CASE PumpEnd
  BY <1>14, QuietUIStep DEF PumpEnd, PcValues
<1>15. CASE SpuriousWakeup
  BY <1>15, StillStep DEF SpuriousWakeup, calls
<1>16. CASE Dispose
  <2>1. \A u \in Threads : (pc'[u] \in {"calling", "finishing"})
                             <=> (pc[u] \in {"calling", "finishing"})
    BY <1>16, <1>t DEF Dispose
  <2>2. IsFiniteSet(InFlight)' /\ (callbacksInFlight = Cardinality(InFlight))'
    BY <1>16, <2>1, SameInFlight DEF Dispose
  <2>3. ContextOwnership'
    BY <1>16, <1>t DEF ContextOwnership, Dispose
  <2>4. asleep' => callbacksInFlight' > 0
    BY <1>16 DEF Dispose
  <2> QED BY <2>2, <2>3, <2>4 DEF Flights
<1>17. CASE UNCHANGED vars
  BY <1>17, StillStep DEF vars, shared, calls
<1> QED
  BY StepCases, <1>1, <1>2, <1>3, <1>4, <1>5, <1>6, <1>7, <1>8, <1>9, <1>10,
     <1>11, <1>12, <1>13, <1>14, <1>15, <1>16, <1>17

LEMMA FlightsAlways == Spec => []Flights
<1>1. Shape /\ Flights /\ [Next]_vars => Flights'
  BY FlightsNext
<1> QED BY FlightsInit, ShapeAlways, <1>1, PTL DEF Spec

\* A replaced or cleared wake context is never used after the call that
\* replaced it returned, whatever the number of producers.
THEOREM ContextOwned == Spec => []ContextOwnership
<1>1. Flights => ContextOwnership
  BY DEF Flights
<1> QED BY FlightsAlways, <1>1, PTL

\* A UI thread waiting for callbacks always has one to wait for.
THEOREM SleeperNotStranded == Spec => []SleeperIsSignalled
<1>1. Flights => SleeperIsSignalled
  BY FS_EmptySet DEF Flights, SleeperIsSignalled
<1> QED BY FlightsAlways, <1>1, PTL

-----------------------------------------------------------------------------
(* No wake is lost *)

\* A pending wake will reach the UI thread.
OnItsWay ==
  \/ \E t \in Threads : pc[t] = "calling" /\ context[t] = wakeContext
  \/ wakeContext \in posted
  \/ pc[UI] \in {"pumping", "releasing", "pumpEnd"}
  \/ pumpAgain

\* Queued work has a pending wake, and a pending wake is on its way.  The
\* second part is needed when the mailbox is empty too: a pump that applied
\* the last event has not cleared wakePending yet.
Woken ==
  wakeContext # NoWake =>
    /\ queuedItems > 0 => wakePending
    /\ wakePending => OnItsWay

LEMMA WokenInit == Init => Woken
BY DEF Init, Woken

LEMMA InstallWoken ==
  ASSUME Shape, NEW c \in Contexts \cup {NoWake}, InstallWake(c),
         UNCHANGED queuedItems
  PROVE  Woken'
BY UIThread DEF Shape, TypeOK, InstallWake, StartWake, Woken, OnItsWay

LEMMA WokenNext ==
  ASSUME Shape, Woken, [Next]_vars, ~LossyPost
  PROVE  Woken'
<1> USE UIThread
<1>t. /\ pc \in [Threads -> PcValues]
      /\ context \in [Threads -> Contexts \cup {NoWake}]
      /\ target \in Contexts \cup {NoWake}
      /\ queuedItems \in Int
  BY DEF Shape, TypeOK
<1>1. ASSUME NEW t \in Threads, InvokeWake(t) PROVE Woken'
  BY <1>1, <1>t DEF InvokeWake, shared, local, Woken, OnItsWay
<1>2. ASSUME NEW t \in Threads, FinishWake(t) PROVE Woken'
  BY <1>2, <1>t DEF FinishWake, local, Woken, OnItsWay
<1>3. ASSUME NEW t \in Threads, NEW e \in Offers, Offer(t, e) PROVE Woken'
  <2>1. CASE StartWake(t, wakeContext)
    BY <1>3, <1>t, <2>1 DEF Offer, StartWake, Woken, OnItsWay
  <2>2. CASE /\ wakePending \/ wakeContext = NoWake
             /\ UNCHANGED <<wakePending, callbacksInFlight, calls>>
    BY <1>3, <1>t, <2>2 DEF Offer, calls, local, Woken, OnItsWay
  <2> QED BY <1>3, <2>1, <2>2 DEF Offer
<1>4. ASSUME NEW c \in Contexts \cup {NoWake}, SetWakeCallback(c) PROVE Woken'
  <2>1. CASE InstallWake(c)
    BY <1>4, <2>1, InstallWoken DEF SetWakeCallback
  <2>2. CASE /\ pc' = [pc EXCEPT ![UI] = "settingWake"]
             /\ UNCHANGED <<wakePending, wakeContext, context>>
    BY <1>4, <1>t, <2>2 DEF SetWakeCallback, Woken, OnItsWay
  <2> QED BY <1>4, <2>1, <2>2 DEF SetWakeCallback
<1>5. ASSUME NEW n \in 1 .. MaxMessages, PumpInto(n) PROVE Woken'
  BY <1>5, <1>t DEF PumpInto, shared, Woken, OnItsWay
<1>6. ASSUME NEW n \in 1 .. MaxMessages, Drain(n) PROVE Woken'
  BY <1>6 DEF Drain, shared, calls, Woken, OnItsWay
<1>7. ASSUME NEW c \in Contexts, NEW n \in 1 .. MaxMessages, HandleWake(c, n)
      PROVE Woken'
  <2>1. CASE pc' = [pc EXCEPT ![UI] = "pumping"]
    BY <1>7, <1>t, <2>1 DEF HandleWake, shared, Woken, OnItsWay
  <2>2. CASE c # wakeContext /\ UNCHANGED <<budget, pc>>
    BY <1>7, <2>2 DEF HandleWake, shared, Woken, OnItsWay
  <2> QED BY <1>7, <2>1, <2>2 DEF HandleWake
<1>8. CASE ResumeSetWake
  <2>1. CASE InstallWake(target)
    BY <1>8, <1>t, <2>1, InstallWoken DEF ResumeSetWake
  <2>2. CASE UNCHANGED <<wakePending, wakeContext, calls>>
    BY <1>8, <2>2 DEF ResumeSetWake, calls, Woken, OnItsWay
  <2> QED BY <1>8, <2>1, <2>2 DEF ResumeSetWake
<1>9. CASE ResumeDispose
  <2>1. UNCHANGED <<queuedItems, wakePending, wakeContext, context, posted, pumpAgain>>
    BY <1>9 DEF ResumeDispose, local
  <2>2. CASE pc' = [pc EXCEPT ![UI] = "dropping"]
    BY <1>9, <1>t, <2>1, <2>2 DEF ResumeDispose, Woken, OnItsWay
  <2>3. CASE UNCHANGED pc
    BY <2>1, <2>3 DEF Woken, OnItsWay
  <2> QED BY <1>9, <2>2, <2>3 DEF ResumeDispose
<1>10. CASE DropQueued
  BY <1>10, <1>t DEF DropQueued, Woken, OnItsWay
<1>11. CASE PumpTake
  <2>1. UNCHANGED <<queuedItems, wakePending, wakeContext, context, posted, pumpAgain>>
    BY <1>11 DEF PumpTake, PushBack
  <2>2. pc'[UI] \in {"pumpEnd", "releasing"}
    BY <1>11, <1>t DEF PumpTake, PushBack
  <2> QED BY <2>1, <2>2 DEF Woken, OnItsWay
<1>12. CASE PumpRelease
  BY <1>12, <1>t DEF PumpRelease, Woken, OnItsWay
<1>13. CASE PumpLoopEnds
  BY <1>13, <1>t DEF PumpLoopEnds, shared, local, Woken, OnItsWay
<1>14. CASE PumpEnd
  BY <1>14, <1>t DEF PumpEnd, PumpPending, Woken, OnItsWay
<1>15. CASE SpuriousWakeup
  BY <1>15 DEF SpuriousWakeup, local, calls, Woken, OnItsWay
<1>16. CASE Dispose
  BY <1>16 DEF Dispose, Woken
<1>17. CASE UNCHANGED vars
  BY <1>17 DEF vars, shared, local, calls, Woken, OnItsWay
<1> QED
  BY StepCases, <1>1, <1>2, <1>3, <1>4, <1>5, <1>6, <1>7, <1>8, <1>9, <1>10,
     <1>11, <1>12, <1>13, <1>14, <1>15, <1>16, <1>17

\* Unless the host fails to post it, a wake that was asked for is on its way
\* to the UI thread as long as there is something to pump.
THEOREM WakesAreKept == ASSUME ~LossyPost PROVE Spec => []NoLostWake
<1>1. Shape /\ Woken /\ [Next]_vars => Woken'
  BY WokenNext
<1>2. Woken => NoLostWake
  BY DEF Woken, OnItsWay, NoLostWake
<1> QED BY WokenInit, ShapeAlways, <1>1, <1>2, PTL DEF Spec

-----------------------------------------------------------------------------
(* The waiting events *)

LEMMA WaitingAfterOffer ==
  ASSUME TypeOK, NEW t \in Threads, NEW e \in Offers, Offer(t, e)
  PROVE  Waiting' = Append(Waiting, e)
<1>1. deferred \in Seq(Event) /\ channel \in Seq(Event) /\ <<e>> \in Seq(Event)
      /\ e \in Event
  BY OffersAreEvents, OneEvent DEF TypeOK
<1>2. Waiting' = deferred \o Append(channel, e)
  BY DEF Waiting, Offer, local
<1>3. Append(channel, e) = channel \o <<e>>
  BY <1>1, AppendIsConcat
<1>4. Append(Waiting, e) = Waiting \o <<e>>
  BY <1>1, WaitingType, AppendIsConcat
<1> QED BY <1>1, <1>2, <1>3, <1>4, ConcatAssociative DEF Waiting

LEMMA OneDeferred ==
  ASSUME Shape, deferred # <<>>
  PROVE  Len(deferred) = 1
<1>1. deferred \in Seq(Event) /\ Len(deferred) <= 1
  BY DEF Shape, TypeOK, Places
<1>2. Len(deferred) \in Nat \ {0}
  BY <1>1, EmptySeq
<1> QED BY <1>1, <1>2

\* An event that is pushed back keeps its place in front of the channel.
LEMMA WaitingAfterPushBack ==
  ASSUME Shape, Waiting # <<>>, deferred' = <<Head(Waiting)>>,
         channel' = IF deferred = <<>> THEN Tail(channel) ELSE channel
  PROVE  Waiting' = Waiting
<1>1. deferred \in Seq(Event) /\ channel \in Seq(Event) /\ Len(deferred) <= 1
  BY DEF Shape, TypeOK, Places
<1>2. Head(Waiting) \in Event /\ Head(Waiting) = Waiting[1]
  BY WaitingType DEF Shape
<1>3. CASE deferred = <<>>
  <2>1. Waiting = channel /\ channel # <<>>
    BY <1>3, WaitingType DEF Shape
  <2>2. /\ Tail(channel) \in Seq(Event) /\ Len(Tail(channel)) = Len(channel) - 1
        /\ \A i \in 1 .. Len(Tail(channel)) : Tail(channel)[i] = channel[i + 1]
        /\ Len(channel) \in Nat
    BY <1>1, <2>1, HeadTailProperties, LenProperties
  <2>3. /\ <<channel[1]>> \in Seq(Event) /\ Len(<<channel[1]>>) = 1
        /\ <<channel[1]>>[1] = channel[1]
    BY <1>2, <2>1, OneEvent
  <2>4. Waiting' = <<channel[1]>> \o Tail(channel)
    BY <1>2, <1>3, <2>1 DEF Waiting
  <2>5. /\ Waiting' \in Seq(Event)
        /\ Len(Waiting') = 1 + Len(Tail(channel))
        /\ \A i \in 1 .. 1 + Len(Tail(channel)) :
             Waiting'[i] = IF i <= 1 THEN channel[1] ELSE Tail(channel)[i - 1]
    BY <2>2, <2>3, <2>4, ConcatProperties
  <2>6. \A i \in 1 .. Len(channel) : Waiting'[i] = channel[i]
    BY <2>2, <2>5
  <2>7. Len(Waiting') = Len(channel)
    BY <2>2, <2>5
  <2> QED BY <1>1, <2>1, <2>5, <2>6, <2>7, SeqEqual
<1>4. CASE deferred # <<>>
  <2>1. Len(deferred) = 1
    BY <1>4, OneDeferred
  <2>2. Head(Waiting) = deferred[1]
    BY <1>1, <1>2, <2>1, ConcatProperties, LenProperties DEF Waiting
  <2>3. deferred = <<deferred[1]>>
    BY <1>1, <1>2, <2>1, <2>2, OneEvent, SeqEqual
  <2> QED BY <1>4, <2>2, <2>3 DEF Waiting
<1> QED BY <1>3, <1>4

LEMMA WaitingAfterTake ==
  ASSUME Shape, Waiting # <<>>, deferred' = <<>>,
         channel' = IF deferred = <<>> THEN Tail(channel) ELSE channel
  PROVE  Waiting' = Tail(Waiting)
<1>1. deferred \in Seq(Event) /\ channel \in Seq(Event) /\ Len(deferred) <= 1
  BY DEF Shape, TypeOK, Places
<1>2. CASE deferred = <<>>
  <2>1. Waiting = channel /\ channel # <<>>
    BY <1>2, WaitingType DEF Shape
  <2>2. Tail(channel) \in Seq(Event)
    BY <1>1, <2>1, HeadTailProperties
  <2> QED BY <1>2, <2>1, <2>2, ConcatEmptySeq DEF Waiting
<1>3. CASE deferred # <<>>
  <2>1. Len(deferred) = 1
    BY <1>3, OneDeferred
  <2>2. Waiting' = channel
    BY <1>1, <1>3, ConcatEmptySeq DEF Waiting
  <2>3. Len(channel) \in Nat
    BY <1>1, LenProperties
  <2>4. /\ Waiting \in Seq(Event) /\ Len(Waiting) = 1 + Len(channel)
        /\ \A i \in 1 .. 1 + Len(channel) :
             Waiting[i] = IF i <= 1 THEN deferred[i] ELSE channel[i - 1]
    <3>1. /\ Waiting \in Seq(Event)
          /\ Len(Waiting) = Len(deferred) + Len(channel)
          /\ \A i \in 1 .. Len(deferred) + Len(channel) :
               Waiting[i] = IF i <= Len(deferred) THEN deferred[i]
                            ELSE channel[i - Len(deferred)]
      BY <1>1, ConcatProperties DEF Waiting
    <3> QED BY <2>1, <3>1
  <2>5. ASSUME NEW i \in 1 .. Len(channel) PROVE Waiting[i + 1] = channel[i]
    <3>1. i + 1 \in 1 .. 1 + Len(channel) /\ ~(i + 1 <= 1) /\ (i + 1) - 1 = i
      BY <2>3
    <3>2. Waiting[i + 1] = IF i + 1 <= 1 THEN deferred[i + 1] ELSE channel[(i + 1) - 1]
      BY <2>4, <3>1
    <3> QED BY <3>1, <3>2
  <2>6. /\ Tail(Waiting) \in Seq(Event) /\ Len(Tail(Waiting)) = Len(channel)
        /\ \A i \in 1 .. Len(channel) : Tail(Waiting)[i] = channel[i]
    BY <2>3, <2>4, <2>5, HeadTailProperties
  <2> QED BY <1>1, <2>2, <2>6, SeqEqual
<1> QED BY <1>2, <1>3

\* What a step does to the waiting events and to the one in the pump's hand.
QueueSteps ==
  \/ /\ Queue!Put(Waiting'[Len(Waiting')])
     /\ Waiting' = Append(Waiting, Waiting'[Len(Waiting')])
     /\ Waiting'[Len(Waiting')].value = accepted + 1
     /\ accepted' = accepted + 1 /\ queuedItems' = queuedItems + 1
     /\ queuedItems < MaxItems
     /\ UNCHANGED applied
  \/ Queue!Take /\ applied' = applied + 1 /\ UNCHANGED <<accepted, queuedItems>>
  \/ Queue!Done /\ queuedItems' = queuedItems - 1 /\ UNCHANGED <<accepted, applied>>
  \/ Queue!Close
  \/ Queue!Discard /\ disposed'
  \/ UNCHANGED <<Waiting, hand, disposed, accepted, applied, queuedItems>>

\* The counters agree with the waiting events, which are numbered on from the
\* last applied one.
Content ==
  ~disposed =>
    /\ queuedItems = Len(Waiting) + Len(hand) /\ queuedItems <= MaxItems
    /\ accepted = applied + Len(Waiting)
    /\ \A i \in 1 .. Len(Waiting) : Waiting[i].value = applied + i

LEMMA OfferIsPut ==
  ASSUME Shape, Content, NEW t \in Threads, NEW e \in Offers, Offer(t, e)
  PROVE  QueueSteps
<1>1. Waiting' = Append(Waiting, e) /\ e \in Event /\ e.value = accepted + 1
  BY WaitingAfterOffer, OffersAreEvents DEF Shape
<1>2. Len(Waiting') = Len(Waiting) + 1 /\ Waiting'[Len(Waiting')] = e
  BY <1>1, WaitingType, AppendProperties, LenProperties DEF Shape
<1>3. /\ ~disposed /\ queuedItems < MaxItems /\ queuedItems' = queuedItems + 1
      /\ accepted' = accepted + 1 /\ UNCHANGED <<hand, disposed, applied>>
  BY DEF Offer, HasRoom, local
<1>4. Queue!Put(e)
  BY <1>1, <1>3 DEF Content, Queue!Put
<1> QED BY <1>1, <1>2, <1>3, <1>4 DEF QueueSteps

LEMMA PumpTakeIsTake ==
  ASSUME Shape, PumpTake
  PROVE  QueueSteps
<1>1. /\ Waiting # <<>> /\ UNCHANGED <<disposed, accepted, queuedItems>>
      /\ channel' = IF deferred = <<>> THEN Tail(channel) ELSE channel
  BY DEF PumpTake, PushBack
<1>2. hand = <<>> /\ ~disposed
  BY <1>1, WaitingType DEF PumpTake, Shape, Places
<1>3. CASE deferred' = <<Head(Waiting)>> /\ UNCHANGED <<hand, bridge, applied>>
  <2>1. Waiting' = Waiting
    BY <1>1, <1>3, WaitingAfterPushBack
  <2> QED BY <1>1, <1>3, <2>1 DEF QueueSteps
<1>4. CASE deferred' = <<>> /\ hand' = <<Head(Waiting)>> /\ applied' = applied + 1
  <2>1. Waiting' = Tail(Waiting)
    BY <1>1, <1>4, WaitingAfterTake
  <2> QED BY <1>1, <1>2, <1>4, <2>1 DEF QueueSteps, Queue!Take
<1> QED BY <1>3, <1>4 DEF PumpTake, PushBack

LEMMA StepIsQueueStep ==
  ASSUME Shape, Content, [Next]_vars
  PROVE  QueueSteps
<1> USE UIThread
<1>1. ASSUME UNCHANGED <<channel, deferred, hand, disposed, accepted, applied,
                         queuedItems>>
      PROVE  QueueSteps
  BY <1>1 DEF QueueSteps, Waiting
<1>2. ASSUME NEW t \in Threads, InvokeWake(t) PROVE QueueSteps
  BY <1>1, <1>2 DEF InvokeWake, shared, local
<1>3. ASSUME NEW t \in Threads, FinishWake(t) PROVE QueueSteps
  BY <1>1, <1>3 DEF FinishWake, local
<1>4. ASSUME NEW t \in Threads, NEW e \in Offers, Offer(t, e) PROVE QueueSteps
  BY <1>4, OfferIsPut
<1>5. ASSUME NEW c \in Contexts \cup {NoWake}, SetWakeCallback(c)
      PROVE QueueSteps
  BY <1>1, <1>5 DEF SetWakeCallback
<1>6. ASSUME NEW n \in 1 .. MaxMessages, PumpInto(n) PROVE QueueSteps
  BY <1>1, <1>6 DEF PumpInto, shared
<1>7. ASSUME NEW n \in 1 .. MaxMessages, Drain(n) PROVE QueueSteps
  BY <1>1, <1>7 DEF Drain, shared
<1>8. ASSUME NEW c \in Contexts, NEW n \in 1 .. MaxMessages, HandleWake(c, n)
      PROVE QueueSteps
  BY <1>1, <1>8 DEF HandleWake, shared
<1>9. CASE ResumeSetWake
  BY <1>1, <1>9 DEF ResumeSetWake
<1>10. CASE ResumeDispose
  BY <1>1, <1>10 DEF ResumeDispose, local
<1>11. CASE DropQueued
  <2>1. disposed /\ disposed' /\ Waiting' = <<>> /\ UNCHANGED hand
    BY <1>11, EmptySeq, ConcatEmptySeq DEF DropQueued, Shape, Places, Waiting
  <2> QED BY <2>1 DEF QueueSteps, Queue!Discard
<1>12. CASE PumpTake
  BY <1>12, PumpTakeIsTake
<1>13. CASE PumpRelease
  BY <1>13 DEF PumpRelease, Shape, Places, Waiting, QueueSteps, Queue!Done
<1>14. CASE PumpLoopEnds
  BY <1>1, <1>14 DEF PumpLoopEnds, shared, local
<1>15. CASE PumpEnd
  BY <1>1, <1>15 DEF PumpEnd
<1>16. CASE SpuriousWakeup
  BY <1>1, <1>16 DEF SpuriousWakeup, local
<1>17. CASE Dispose
  BY <1>17 DEF Dispose, local, Waiting, QueueSteps, Queue!Close
<1>18. CASE UNCHANGED vars
  BY <1>1, <1>18 DEF vars, shared, local
<1> QED
  BY StepCases, <1>2, <1>3, <1>4, <1>5, <1>6, <1>7, <1>8, <1>9, <1>10, <1>11,
     <1>12, <1>13, <1>14, <1>15, <1>16, <1>17, <1>18

LEMMA ContentInit == Init => Content /\ Queue!Init
<1> SUFFICES ASSUME Init PROVE Content /\ Queue!Init
  OBVIOUS
<1>1. Waiting = <<>> /\ Len(Waiting) = 0 /\ Len(hand) = 0
  BY EmptySeq, ConcatEmptySeq DEF Init, Waiting
<1> QED BY <1>1, Limits_Assumption DEF Init, Content, Queue!Init

LEMMA ContentNext ==
  ASSUME Shape, Content, [Next]_vars
  PROVE  Content'
<1> SUFFICES ASSUME ~disposed' PROVE Content'
  BY DEF Content
<1>0. /\ QueueSteps
      /\ Waiting \in Seq(Event) /\ Len(Waiting) \in Nat
      /\ hand \in Seq(Event) /\ Len(hand) \in Nat
      /\ accepted \in Nat /\ applied \in Nat /\ queuedItems \in Int
  BY StepIsQueueStep, WaitingType, LenProperties DEF Shape, TypeOK
<1>1. CASE /\ Queue!Put(Waiting'[Len(Waiting')])
           /\ Waiting' = Append(Waiting, Waiting'[Len(Waiting')])
           /\ Waiting'[Len(Waiting')].value = accepted + 1
           /\ accepted' = accepted + 1 /\ queuedItems' = queuedItems + 1
           /\ queuedItems < MaxItems
           /\ UNCHANGED applied
  <2> DEFINE e == Waiting'[Len(Waiting')]
  <2>1. ~disposed /\ Waiting' = Append(Waiting, e) /\ hand' = hand
    BY <1>1 DEF Queue!Put
  <2>2. /\ Len(Waiting') = Len(Waiting) + 1
        /\ \A i \in 1 .. Len(Waiting) : Waiting'[i] = Waiting[i]
        /\ Waiting'[Len(Waiting) + 1] = e
    BY <1>0, <2>1
  <2>3. \A i \in 1 .. Len(Waiting') : Waiting'[i].value = applied' + i
    <3>1. \A i \in 1 .. Len(Waiting) : Waiting[i].value = applied + i
      BY <2>1 DEF Content
    <3>2. accepted = applied + Len(Waiting)
      BY <2>1 DEF Content
    <3>3. ASSUME NEW i \in 1 .. Len(Waiting') PROVE Waiting'[i].value = applied' + i
      <4>1. CASE i \in 1 .. Len(Waiting)
        BY <1>1, <2>2, <3>1, <4>1
      <4>2. CASE i = Len(Waiting) + 1
        BY <1>0, <1>1, <2>2, <3>2, <4>2
      <4> QED BY <1>0, <2>2, <4>1, <4>2
    <3> QED BY <3>3
  <2> QED BY <1>0, <1>1, <2>1, <2>2, <2>3, Limits_Assumption DEF Content
<1>2. CASE Queue!Take /\ applied' = applied + 1 /\ UNCHANGED <<accepted, queuedItems>>
  <2>1. /\ ~disposed /\ Waiting # <<>> /\ hand = <<>>
        /\ hand' = <<Head(Waiting)>> /\ Waiting' = Tail(Waiting)
    BY <1>2 DEF Queue!Take
  <2>2. /\ Len(Waiting') = Len(Waiting) - 1
        /\ \A i \in 1 .. Len(Waiting') : Waiting'[i] = Waiting[i + 1]
    BY <1>0, <2>1, HeadTailProperties
  <2>3. Len(hand) = 0 /\ Len(hand') = 1
    BY <2>1
  <2>4. ASSUME NEW i \in 1 .. Len(Waiting') PROVE Waiting'[i].value = applied' + i
    <3>1. i \in Nat /\ i + 1 \in 1 .. Len(Waiting)
      BY <1>0, <2>2
    <3>2. Waiting[i + 1].value = applied + (i + 1)
      BY <2>1, <3>1 DEF Content
    <3> QED BY <1>0, <1>2, <2>2, <3>1, <3>2
  <2> QED BY <1>0, <1>2, <2>1, <2>2, <2>3, <2>4 DEF Content
<1>3. CASE Queue!Done /\ queuedItems' = queuedItems - 1 /\ UNCHANGED <<accepted, applied>>
  <2>1. /\ hand # <<>> /\ hand' = <<>> /\ Waiting' = Waiting /\ disposed' = disposed
    BY <1>3 DEF Queue!Done
  <2>2. Len(hand) = 1 /\ Len(hand') = 0
    BY <2>1 DEF Shape, Places
  <2> QED BY <1>0, <1>3, <2>1, <2>2, Limits_Assumption DEF Content
<1>4. CASE Queue!Close \/ (Queue!Discard /\ disposed')
  BY <1>4 DEF Queue!Close, Queue!Discard
<1>5. CASE UNCHANGED <<Waiting, hand, disposed, accepted, applied, queuedItems>>
  BY <1>5 DEF Content
<1> QED BY <1>0, <1>1, <1>2, <1>3, <1>4, <1>5 DEF QueueSteps

LEMMA ContentAlways == Spec => []Content
<1>1. Shape /\ Content /\ [Next]_vars => Content'
  BY ContentNext
<1> QED BY ContentInit, ShapeAlways, <1>1, PTL DEF Spec

\* The item counter is exact and its limit holds, whatever the limit.
THEOREM ItemsCounted == Spec => []ItemsAccounted
<1>1. Shape /\ Content => ItemsAccounted
  <2> SUFFICES ASSUME Shape, Content PROVE ItemsAccounted
    OBVIOUS
  <2>1. /\ Len(Waiting) = Len(deferred) + Len(channel)
        /\ Len(deferred) \in Nat /\ Len(channel) \in Nat
    BY WaitingType, LenProperties DEF Shape, TypeOK
  <2> QED BY <2>1 DEF Content, ItemsAccounted
<1> QED BY ShapeAlways, ContentAlways, <1>1, PTL

\* No accepted event is lost, doubled or overtaken before the pump applies it.
THEOREM OrderKept == Spec => []InOrderWithoutLoss
<1>1. Shape /\ Content => InOrderWithoutLoss
  BY WaitingType, LenProperties DEF Shape, Content, InOrderWithoutLoss
<1> QED BY ShapeAlways, ContentAlways, <1>1, PTL

\* The mailbox implements one bounded first-in first-out queue.
THEOREM MailboxIsQueue == Spec => ImplementsQueue
<1>1. Init => Queue!Init
  BY ContentInit
<1>2. ASSUME Shape, Content, [Next]_vars
      PROVE  [Queue!Next]_<<Waiting, hand, disposed>>
  <2>1. QueueSteps
    BY <1>2, StepIsQueueStep
  <2>2. ASSUME Queue!Put(Waiting'[Len(Waiting')]),
               Waiting' = Append(Waiting, Waiting'[Len(Waiting')])
        PROVE  Queue!Next
    <3>1. Waiting' # <<>>
      BY <1>2, <2>2, WaitingType DEF Shape
    <3> QED BY <2>2, <3>1 DEF Queue!Next
  <2> QED BY <2>1, <2>2 DEF QueueSteps, Queue!Next
<1> QED BY <1>1, <1>2, ShapeAlways, ContentAlways, PTL
        DEF Spec, ImplementsQueue, Queue!Spec

-----------------------------------------------------------------------------
(* The bridge as the pump and the consumer leave it *)

BridgeRecords ==
  [state : States,
   terminal : {"stkNone", "stkEnd", "stkError", "stkCancel"},
   openPending : BOOLEAN, queue : Seq(Event), queuedWeight : Int,
   progress : Nat, terminalPending : BOOLEAN, closePending : BOOLEAN]

\* The state an event of the given kind leads to.
Target(s, kind) == CASE kind = "sekOpen"   -> "ssOpen"
                     [] kind = "sekEnd"    -> "ssEnded"
                     [] kind = "sekError"  -> "ssFailed"
                     [] kind = "sekCancel" -> "ssCancelled"
                     [] kind = "sekClose"  -> "ssClosed"
                     [] OTHER              -> s

LEMMA TurnTyped ==
  ASSUME NEW b \in BridgeRecords
  PROVE  /\ DrainTurn(b).bridge \in BridgeRecords
         /\ DrainTurn(b).bridge.state = b.state
         /\ BridgePending(b) => DrainTurn(b).event \in Event
<1> DEFINE c == DrainTurn(b).bridge
           e == DrainTurn(b).event
<1>1. CASE b.openPending
  <2>1. DrainTurn(b) =
          [bridge |-> [b EXCEPT !.openPending = FALSE],
           event  |-> [kind |-> "sekOpen", weight |-> 0, value |-> 0]]
    BY <1>1 DEF DrainTurn
  <2>2. /\ c = [b EXCEPT !.openPending = FALSE]
        /\ e = [kind |-> "sekOpen", weight |-> 0, value |-> 0]
    BY <2>1
  <2> HIDE DEF c, e
  <2>3. e \in Event
    BY <2>2 DEF Event, Kinds
  <2>4. c \in BridgeRecords /\ c.state = b.state
    BY <2>2 DEF BridgeRecords
  <2> QED BY <2>3, <2>4 DEF c, e
<1>2. CASE ~b.openPending /\ b.queue # <<>>
  <2>1. DrainTurn(b) =
          [bridge |-> [b EXCEPT !.queue = Tail(@),
                                !.queuedWeight = @ - Head(b.queue).weight],
           event  |-> Head(b.queue)]
    BY <1>2 DEF DrainTurn
  <2>2. b.queue \in Seq(Event) /\ b.queuedWeight \in Int
    BY DEF BridgeRecords
  <2>3. Head(b.queue) \in Event /\ Tail(b.queue) \in Seq(Event)
    BY <1>2, <2>2, HeadTailProperties
  <2>4. b.queuedWeight - Head(b.queue).weight \in Int
    BY <2>2, <2>3 DEF Event
  <2>5. /\ c = [b EXCEPT !.queue = Tail(@),
                         !.queuedWeight = @ - Head(b.queue).weight]
        /\ e = Head(b.queue)
    BY <2>1
  <2>6. c \in BridgeRecords /\ c.state = b.state
    BY <2>3, <2>4, <2>5 DEF BridgeRecords
  <2> QED BY <2>3, <2>5, <2>6
<1>3. CASE ~b.openPending /\ b.queue = <<>> /\ b.progress # NoProgress
  <2>1. DrainTurn(b) =
          [bridge |-> [b EXCEPT !.progress = NoProgress],
           event  |-> [kind |-> "sekProgress", weight |-> 0, value |-> b.progress]]
    BY <1>3 DEF DrainTurn
  <2>2. /\ c = [b EXCEPT !.progress = NoProgress]
        /\ e = [kind |-> "sekProgress", weight |-> 0, value |-> b.progress]
    BY <2>1
  <2>3. b.progress \in Nat /\ NoProgress \in Nat
    BY DEF BridgeRecords, NoProgress
  <2> HIDE DEF c, e
  <2>4. e \in Event
    BY <2>2, <2>3 DEF Event, Kinds
  <2>5. c \in BridgeRecords /\ c.state = b.state
    BY <2>2, <2>3 DEF BridgeRecords
  <2> QED BY <2>4, <2>5 DEF c, e
<1>4. CASE ~b.openPending /\ b.queue = <<>> /\ b.progress = NoProgress
           /\ b.terminalPending
  <2>1. DrainTurn(b) =
          [bridge |-> [b EXCEPT !.terminalPending = FALSE],
           event  |-> TerminalEvent(b)]
    BY <1>4 DEF DrainTurn
  <2>2. /\ c = [b EXCEPT !.terminalPending = FALSE]
        /\ e = TerminalEvent(b)
    BY <2>1
  <2> HIDE DEF c, e
  <2>3. e \in Event
    BY <2>2 DEF Event, Kinds, TerminalEvent
  <2>4. c \in BridgeRecords /\ c.state = b.state
    BY <2>2 DEF BridgeRecords
  <2> QED BY <2>3, <2>4 DEF c, e
<1>5. CASE ~b.openPending /\ b.queue = <<>> /\ b.progress = NoProgress
           /\ ~b.terminalPending
  <2>1. DrainTurn(b) =
          [bridge |-> [b EXCEPT !.closePending = FALSE],
           event  |-> [kind |-> "sekClose", weight |-> 0, value |-> 0]]
    BY <1>5 DEF DrainTurn
  <2>2. /\ c = [b EXCEPT !.closePending = FALSE]
        /\ e = [kind |-> "sekClose", weight |-> 0, value |-> 0]
    BY <2>1
  <2> HIDE DEF c, e
  <2>3. e \in Event
    BY <2>2 DEF Event, Kinds
  <2>4. c \in BridgeRecords /\ c.state = b.state
    BY <2>2 DEF BridgeRecords
  <2> QED BY <2>3, <2>4 DEF c, e
<1> QED BY <1>1, <1>2, <1>3, <1>4, <1>5

LEMMA CancelTyped ==
  ASSUME NEW b \in BridgeRecords
  PROVE  CancelBridge(b) \in BridgeRecords /\ CancelBridge(b).state = "ssCancelled"
<1> DEFINE k == [b EXCEPT !.queue = <<>>, !.queuedWeight = 0]
           m == [k EXCEPT !.openPending = FALSE, !.progress = NoProgress]
<1>1. <<>> \in Seq(Event) /\ 0 \in Int /\ NoProgress \in Nat
  BY DEF NoProgress
<1>2. m \in BridgeRecords
  <2>1. k \in BridgeRecords
    BY <1>1 DEF BridgeRecords
  <2> HIDE DEF k
  <2> QED BY <1>1, <2>1 DEF BridgeRecords
<1>3. CancelBridge(b) = [m EXCEPT !.state = "ssCancelled", !.terminal = "stkCancel",
                                  !.terminalPending = TRUE]
  BY DEF CancelBridge, SetTerminal
<1> HIDE DEF m
<1> QED BY <1>2, <1>3 DEF BridgeRecords, States

\* Accepted or not, an event leads to its target state.
LEMMA AfterEventTyped ==
  ASSUME NEW b \in BridgeRecords, NEW e \in Event
  PROVE  /\ AfterEvent(b, e) \in BridgeRecords
         /\ AfterEvent(b, e).state = Target(b.state, e.kind)
<1> DEFINE c == AfterEvent(b, e)
<1>1. e.kind \in Kinds /\ e.weight \in Nat /\ e.value \in Nat
  BY DEF Event
<1>2. CASE e.kind = "sekOpen"
  <2>1. c = [b EXCEPT !.state = "ssOpen", !.openPending = TRUE]
    BY <1>2 DEF AfterEvent
  <2> HIDE DEF c
  <2> QED BY <1>2, <2>1 DEF BridgeRecords, States, Target, c
<1>3. CASE e.kind = "sekData"
  <2>1. c = [b EXCEPT !.queue = Append(@, e), !.queuedWeight = @ + e.weight]
    BY <1>3 DEF AfterEvent
  <2>2. b.queue \in Seq(Event) /\ b.queuedWeight \in Int
    BY DEF BridgeRecords
  <2>3. Append(b.queue, e) \in Seq(Event) /\ b.queuedWeight + e.weight \in Int
    BY <1>1, <2>2, AppendProperties
  <2>4. c \in BridgeRecords /\ c.state = b.state
    BY <2>1, <2>3 DEF BridgeRecords
  <2> QED BY <1>3, <2>4 DEF Target
<1>4. CASE e.kind = "sekProgress"
  <2>1. c = [b EXCEPT !.progress = e.value]
    BY <1>4 DEF AfterEvent
  <2>2. c \in BridgeRecords /\ c.state = b.state
    BY <1>1, <2>1 DEF BridgeRecords
  <2> QED BY <1>4, <2>2 DEF Target
<1>5. CASE e.kind = "sekEnd"
  <2>1. c = [b EXCEPT !.state = "ssEnded", !.terminal = "stkEnd",
                      !.terminalPending = TRUE]
    BY <1>5 DEF AfterEvent, SetTerminal
  <2>2. c \in BridgeRecords /\ c.state = "ssEnded"
    BY <2>1 DEF BridgeRecords, States
  <2> QED BY <1>5, <2>2 DEF Target
<1>6. CASE e.kind = "sekError"
  <2>1. c = [b EXCEPT !.state = "ssFailed", !.terminal = "stkError",
                      !.terminalPending = TRUE]
    BY <1>6 DEF AfterEvent, SetTerminal
  <2>2. c \in BridgeRecords /\ c.state = "ssFailed"
    BY <2>1 DEF BridgeRecords, States
  <2> QED BY <1>6, <2>2 DEF Target
<1>7. CASE e.kind = "sekCancel"
  <2>1. c = CancelBridge(b)
    BY <1>7 DEF AfterEvent
  <2> QED BY <1>7, <2>1, CancelTyped DEF Target
<1>8. CASE e.kind = "sekClose"
  <2> DEFINE m == IF b.state = "ssOpen" THEN CancelBridge(b)
                  ELSE IF b.state = "ssIdle" THEN [b EXCEPT !.openPending = FALSE]
                  ELSE b
  <2>1. m \in BridgeRecords
    <3>1. [b EXCEPT !.openPending = FALSE] \in BridgeRecords
      BY DEF BridgeRecords
    <3> QED BY <3>1, CancelTyped
  <2>2. c = [m EXCEPT !.state = "ssClosed", !.closePending = TRUE]
    BY <1>8 DEF AfterEvent, CloseBridge
  <2> HIDE DEF m
  <2>3. c \in BridgeRecords /\ c.state = "ssClosed"
    BY <2>1, <2>2 DEF BridgeRecords, States
  <2> QED BY <1>8, <2>3 DEF Target
<1> QED BY <1>1, <1>2, <1>3, <1>4, <1>5, <1>6, <1>7, <1>8 DEF Kinds

LEMMA EmptiedTyped ==
  ASSUME NEW s \in States
  PROVE  Emptied(s) \in BridgeRecords /\ Emptied(s).state = s
<1>1. <<>> \in Seq(Event) /\ 0 \in Nat
  OBVIOUS
<1>2. NewBridge \in BridgeRecords
  BY <1>1 DEF NewBridge, BridgeRecords, States, NoProgress
<1>3. Emptied(s) = [NewBridge EXCEPT !.state = s]
  BY DEF Emptied
<1> QED BY <1>2, <1>3 DEF BridgeRecords

LEMMA TargetTyped ==
  ASSUME NEW s \in States, NEW e \in Event
  PROVE  /\ Target(s, e.kind) \in States
         /\ AfterEvent(Emptied(s), e).state = Target(s, e.kind)
<1>1. AfterEvent(Emptied(s), e).state = Target(s, e.kind)
  BY EmptiedTyped, AfterEventTyped
<1> QED BY <1>1 DEF Target, States

\* A drain does not change the state.
LEMMA DrainTyped ==
  ASSUME NEW b \in BridgeRecords, NEW n \in Nat \ {0}
  PROVE  /\ DrainUpTo(b, n).bridge \in BridgeRecords
         /\ DrainUpTo(b, n).bridge.state = b.state
<1> DEFINE E == {r \in [bridge : BridgeRecords, events : Seq(Event)] :
                   r.bridge.state = b.state}
           s == Start(b)
<1>1. ASSUME NEW r \in E PROVE Turn(r) \in E
  <2>1. r \in [bridge : BridgeRecords, events : Seq(Event)] /\ r.bridge.state = b.state
    OBVIOUS
  <2>2. CASE BridgePending(r.bridge)
    <3> DEFINE c == DrainTurn(r.bridge).bridge
               e == DrainTurn(r.bridge).event
               w == Append(r.events, e)
               x == [bridge |-> c, events |-> w]
    <3>1. c \in BridgeRecords /\ c.state = b.state /\ e \in Event
      BY <2>1, <2>2, TurnTyped
    <3>2. Turn(r) = x
      BY <2>2 DEF Turn
    <3> HIDE DEF c, e
    <3>3. w \in Seq(Event)
      BY <2>1, <3>1, AppendProperties
    <3> HIDE DEF w
    <3>4. x \in [bridge : BridgeRecords, events : Seq(Event)] /\ x.bridge = c
      BY <3>1, <3>3
    <3> QED BY <3>1, <3>2, <3>4
  <2>3. CASE ~BridgePending(r.bridge)
    BY <2>3 DEF Turn
  <2> QED BY <2>2, <2>3
<1>2. s \in E
  <2>1. <<>> \in Seq(Event)
    OBVIOUS
  <2> QED BY <2>1 DEF Start
<1>3. DrainUpTo(b, n) \in E
  <2>1. Turn(s) \in E
    BY <1>1, <1>2
  <2> HIDE DEF E
  <2> QED BY <1>1, <2>1, DrainKeeps
<1> QED BY <1>3

-----------------------------------------------------------------------------
(* The weight that counts against the limit, and what the bridge will make
   of the waiting events *)

\* A bridge in state s takes e, now or once it has room.
TakesEvent(s, e) == \/ Backpressured(Emptied(s), e)
                    \/ BridgeAccepts(Emptied(s), e)

\* f holds the states a bridge goes through that is in state s and is given
\* the events q, and g is the last of them.
Path(s, q, g, f) ==
  /\ f \in [0 .. Len(q) -> States]
  /\ f[0] = s /\ f[Len(q)] = g
  /\ \A i \in 1 .. Len(q) : f[i] = Target(f[i - 1], q[i].kind)
                            /\ TakesEvent(f[i - 1], q[i])

Reaches(s, q, g) == \E f : Path(s, q, g, f)

LEMMA ReachesSelf == \A s \in States : Reaches(s, <<>>, s)
<1> SUFFICES ASSUME NEW s \in States PROVE Reaches(s, <<>>, s)
  OBVIOUS
<1> DEFINE f == [i \in 0 .. 0 |-> s]
<1>1. Len(<<>>) = 0 /\ 0 \in 0 .. 0 /\ 1 .. 0 = {}
  OBVIOUS
<1>2. f \in [0 .. 0 -> States] /\ f[0] = s
  BY <1>1
<1> HIDE DEF f
<1>3. Path(s, <<>>, s, f)
  BY <1>1, <1>2 DEF Path
<1> QED BY <1>3 DEF Reaches

LEMMA ReachesAppend ==
  ASSUME NEW s \in States, NEW g \in States, NEW q \in Seq(Event), NEW e \in Event,
         Reaches(s, q, g), TakesEvent(g, e)
  PROVE  Reaches(s, Append(q, e), Target(g, e.kind))
<1> DEFINE r == Append(q, e)
           n == Len(q)
           t == Target(g, e.kind)
<1>1. /\ r \in Seq(Event) /\ Len(r) = n + 1 /\ n \in Nat
      /\ \A i \in 1 .. n : r[i] = q[i]
      /\ r[n + 1] = e
  BY AppendProperties
<1>2. t \in States
  BY TargetTyped
<1> HIDE DEF r, t
<1>3. PICK f : Path(s, q, g, f)
  BY DEF Reaches
<1>4. /\ f \in [0 .. n -> States] /\ f[0] = s /\ f[n] = g
      /\ \A i \in 1 .. n : f[i] = Target(f[i - 1], q[i].kind)
                           /\ TakesEvent(f[i - 1], q[i])
  BY <1>3 DEF Path
<1> HIDE DEF n
<1> DEFINE h == [i \in 0 .. n + 1 |-> IF i = n + 1 THEN t ELSE f[i]]
<1>5. h \in [0 .. n + 1 -> States]
  <2>1. ASSUME NEW i \in 0 .. n + 1, i # n + 1 PROVE f[i] \in States
    <3>1. i \in 0 .. n
      BY <1>1, <2>1
    <3> QED BY <1>4, <3>1
  <2> QED BY <1>2, <2>1
<1>6. /\ \A i \in 0 .. n : h[i] = f[i]
      /\ h[n + 1] = t
  BY <1>1
<1> HIDE DEF h
<1>7. ASSUME NEW i \in 1 .. n + 1
      PROVE  h[i] = Target(h[i - 1], r[i].kind) /\ TakesEvent(h[i - 1], r[i])
  <2>1. CASE i \in 1 .. n
    <3>1. i \in 0 .. n /\ i - 1 \in 0 .. n
      BY <1>1, <2>1
    <3>2. h[i] = f[i] /\ h[i - 1] = f[i - 1] /\ r[i] = q[i]
      BY <1>1, <1>6, <2>1, <3>1
    <3> QED BY <1>4, <2>1, <3>2
  <2>2. CASE i = n + 1
    <3>1. (n + 1) - 1 = n /\ n \in 0 .. n
      BY <1>1
    <3>2. h[i] = t /\ h[i - 1] = g /\ r[i] = e
      BY <1>1, <1>4, <1>6, <2>2, <3>1
    <3> QED BY <3>2 DEF t
  <2> QED BY <1>1, <2>1, <2>2
<1>8. h[0] = s /\ h[Len(r)] = t
  BY <1>1, <1>4, <1>6
<1>9. Path(s, r, t, h)
  BY <1>1, <1>5, <1>7, <1>8 DEF Path
<1> QED BY <1>9 DEF Reaches, r, t

LEMMA ReachesTail ==
  ASSUME NEW s \in States, NEW g \in States, NEW q \in Seq(Event), q # <<>>,
         Reaches(s, q, g)
  PROVE  /\ TakesEvent(s, Head(q))
         /\ Reaches(Target(s, Head(q).kind), Tail(q), g)
<1> DEFINE r == Tail(q)
           n == Len(r)
<1>1. /\ r \in Seq(Event) /\ n = Len(q) - 1 /\ n \in Nat /\ Len(q) \in Nat
      /\ \A i \in 1 .. n : r[i] = q[i + 1]
      /\ Head(q) = q[1] /\ 1 \in 1 .. Len(q)
  BY HeadTailProperties, EmptySeq
<1> HIDE DEF r
<1>2. PICK f : Path(s, q, g, f)
  BY DEF Reaches
<1>3. /\ f \in [0 .. Len(q) -> States] /\ f[0] = s /\ f[Len(q)] = g
      /\ \A i \in 1 .. Len(q) : f[i] = Target(f[i - 1], q[i].kind)
                                /\ TakesEvent(f[i - 1], q[i])
  BY <1>2 DEF Path
<1>4. f[1] = Target(s, Head(q).kind) /\ TakesEvent(s, Head(q))
  BY <1>1, <1>3
<1> HIDE DEF n
<1> DEFINE h == [i \in 0 .. n |-> f[i + 1]]
<1>5. h \in [0 .. n -> States]
  <2>1. \A i \in 0 .. n : i + 1 \in 0 .. Len(q)
    BY <1>1
  <2> QED BY <1>3, <2>1
<1>6. \A i \in 0 .. n : h[i] = f[i + 1]
  OBVIOUS
<1> HIDE DEF h
<1>7. h[0] = f[1] /\ h[n] = g
  <2>1. 0 \in 0 .. n /\ n \in 0 .. n /\ n + 1 = Len(q) /\ 0 + 1 = 1
    BY <1>1
  <2> QED BY <1>3, <1>6, <2>1
<1>8. ASSUME NEW i \in 1 .. n
      PROVE  h[i] = Target(h[i - 1], r[i].kind) /\ TakesEvent(h[i - 1], r[i])
  <2>1. /\ i \in 0 .. n /\ i - 1 \in 0 .. n /\ i + 1 \in 1 .. Len(q)
        /\ (i - 1) + 1 = i /\ (i + 1) - 1 = i
    BY <1>1
  <2>2. h[i] = f[i + 1] /\ h[i - 1] = f[i] /\ r[i] = q[i + 1]
    BY <1>1, <1>6, <2>1
  <2>3. f[i + 1] = Target(f[(i + 1) - 1], q[i + 1].kind)
        /\ TakesEvent(f[(i + 1) - 1], q[i + 1])
    BY <1>3, <2>1
  <2> QED BY <2>1, <2>2, <2>3
<1>9. Path(f[1], r, g, h)
  BY <1>5, <1>7, <1>8 DEF Path, n
<1> QED BY <1>4, <1>9 DEF Reaches, r

\* What the producers' check lets through, the bridge takes.
LEMMA AllowedIsTaken ==
  ASSUME NEW s \in States, NEW e \in Event, s \in AllowedStates(e.kind)
  PROVE  /\ TakesEvent(s, e)
         /\ Target(s, e.kind) = IF e.kind \in {"sekData", "sekProgress"} THEN s
                                ELSE NextState(e.kind)
<1>1. Emptied(s).state = s
  BY EmptiedTyped
<1>2. e.kind \in Kinds
  BY DEF Event
<1>3. TakesEvent(s, e)
  BY <1>1, <1>2 DEF TakesEvent, BridgeAccepts, AllowedStates, Kinds, States
<1>4. Target(s, e.kind) = IF e.kind \in {"sekData", "sekProgress"} THEN s
                          ELSE NextState(e.kind)
  BY <1>2 DEF Target, NextState, Kinds
<1> QED BY <1>3, <1>4

LEMMA TakenIsAccepted ==
  ASSUME NEW b \in BridgeRecords, NEW e \in Event, TakesEvent(b.state, e),
         ~Backpressured(b, e)
  PROVE  BridgeAccepts(b, e)
<1>1. b.state \in States /\ e.kind \in Kinds
  BY DEF BridgeRecords, Event
<1>2. Emptied(b.state).state = b.state
  BY <1>1, EmptiedTyped
<1>3. CASE Backpressured(Emptied(b.state), e)
  <2>1. e.kind = "sekData" /\ b.state = "ssOpen"
    BY <1>2, <1>3 DEF Backpressured
  <2> QED BY <2>1 DEF BridgeAccepts
<1>4. CASE BridgeAccepts(Emptied(b.state), e)
  BY <1>1, <1>2, <1>4 DEF BridgeAccepts, Kinds
<1> QED BY <1>3, <1>4 DEF TakesEvent

-----------------------------------------------------------------------------
HandWeight == IF hand = <<>> THEN 0 ELSE Head(hand).weight

Accounts ==
  /\ bridge \in BridgeRecords
  /\ ~disposed => /\ queuedWeight = HandWeight + WeightOf(Waiting)
                  /\ queuedWeight <= MaxWeight
                  /\ Reaches(bridge.state, Waiting, state)

LEMMA HandTyped ==
  ASSUME TypeOK
  PROVE  HandWeight \in Nat
<1>1. CASE hand = <<>>
  BY <1>1 DEF HandWeight
<1>2. CASE hand # <<>>
  <2>1. Head(hand) \in Event
    BY <1>2, HeadTailProperties DEF TypeOK
  <2> QED BY <1>2, <2>1 DEF HandWeight, Event
<1> QED BY <1>1, <1>2

LEMMA AccountsInit == Init => Accounts
<1> SUFFICES ASSUME Init PROVE Accounts
  OBVIOUS
<1>1. <<>> \in Seq(Event) /\ 0 \in Nat
  OBVIOUS
<1>2. bridge \in BridgeRecords /\ bridge.state = "ssIdle" /\ "ssIdle" \in States
  BY <1>1 DEF Init, NewBridge, BridgeRecords, States, NoProgress
<1>3. Waiting = <<>> /\ HandWeight = 0
  BY ConcatEmptySeq, <1>1 DEF Init, Waiting, HandWeight
<1>4. queuedWeight = HandWeight + WeightOf(Waiting) /\ queuedWeight <= MaxWeight
  BY <1>3, WeightEmpty, Limits_Assumption DEF Init
<1>5. Reaches(bridge.state, Waiting, state)
  BY <1>2, <1>3, ReachesSelf DEF Init
<1> QED BY <1>2, <1>4, <1>5 DEF Accounts

LEMMA OfferAccounts ==
  ASSUME Shape, Accounts, NEW t \in Threads, NEW e \in Offers, Offer(t, e)
  PROVE  Accounts'
<1>1. e \in Event /\ Waiting' = Append(Waiting, e) /\ Waiting \in Seq(Event)
  BY OffersAreEvents, WaitingAfterOffer, WaitingType DEF Shape
<1>2. /\ ~disposed /\ state \in AllowedStates(e.kind) /\ HasRoom(e)
      /\ queuedWeight' = queuedWeight + e.weight
      /\ state' = IF e.kind \in {"sekData", "sekProgress"} THEN state
                  ELSE NextState(e.kind)
      /\ hand' = hand /\ bridge' = bridge /\ disposed' = disposed
  BY DEF Offer, local
<1>3. state \in States /\ bridge.state \in States /\ queuedWeight \in Int
  BY DEF Shape, TypeOK, Accounts, BridgeRecords
<1>4. HandWeight' = HandWeight /\ HandWeight \in Nat
  BY <1>2, HandTyped DEF HandWeight, Shape
<1>5. WeightOf(Waiting') = WeightOf(Waiting) + e.weight
      /\ WeightOf(Waiting) \in Nat /\ e.weight \in Nat
  <2>1. WeightOf(Append(Waiting, e)) = WeightOf(Waiting) + e.weight
    BY <1>1, WeightAppend
  <2>2. WeightOf(Waiting) \in Nat
    BY <1>1, WeightType
  <2> QED BY <1>1, <2>1, <2>2 DEF Event
<1>6. queuedWeight' = HandWeight' + WeightOf(Waiting')
  <2>1. queuedWeight = HandWeight + WeightOf(Waiting)
    BY <1>2 DEF Accounts
  <2> QED BY <1>2, <1>4, <1>5, <2>1
<1>7. queuedWeight' <= MaxWeight
  <2>1. queuedWeight <= MaxWeight - e.weight /\ MaxWeight \in Nat
    BY <1>2, Limits_Assumption DEF HasRoom
  <2> QED BY <1>2, <1>3, <1>5, <2>1
<1>8. Reaches(bridge.state', Waiting', state')
  <2>1. TakesEvent(state, e) /\ state' = Target(state, e.kind)
    BY <1>1, <1>2, <1>3, AllowedIsTaken
  <2>2. Reaches(bridge.state, Waiting, state)
    BY <1>2 DEF Accounts
  <2>3. Reaches(bridge.state, Append(Waiting, e), Target(state, e.kind))
    BY <1>1, <1>3, <2>1, <2>2, ReachesAppend
  <2> QED BY <1>1, <1>2, <2>1, <2>3
<1> QED BY <1>2, <1>6, <1>7, <1>8 DEF Accounts

LEMMA TakeAccounts ==
  ASSUME Shape, Accounts, PumpTake
  PROVE  Accounts'
<1> DEFINE e == Head(Waiting)
<1>1. /\ Waiting # <<>> /\ UNCHANGED <<disposed, queuedWeight, state>>
      /\ channel' = IF deferred = <<>> THEN Tail(channel) ELSE channel
  BY DEF PumpTake, PushBack
<1>2. hand = <<>> /\ ~disposed /\ Waiting \in Seq(Event) /\ e \in Event
  BY <1>1, WaitingType DEF PumpTake, Shape, Places
<1>3. /\ bridge \in BridgeRecords /\ bridge.state \in States /\ state \in States
      /\ queuedWeight = HandWeight + WeightOf(Waiting)
      /\ queuedWeight <= MaxWeight
      /\ Reaches(bridge.state, Waiting, state)
  BY <1>2 DEF Accounts, BridgeRecords, Shape, TypeOK
<1>4. CASE deferred' = <<e>> /\ UNCHANGED <<hand, bridge, applied>>
  <2>1. Waiting' = Waiting
    BY <1>1, <1>4, WaitingAfterPushBack
  <2> QED BY <1>1, <1>3, <1>4, <2>1 DEF Accounts, HandWeight
<1>5. CASE /\ deferred' = <<>> /\ hand' = <<e>>
           /\ ~Backpressured(bridge, e)
           /\ bridge' = IF BridgeAccepts(bridge, e) THEN AfterEvent(bridge, e)
                        ELSE bridge
  <2>1. Waiting' = Tail(Waiting)
    BY <1>1, <1>5, WaitingAfterTake
  <2>2. TakesEvent(bridge.state, e) /\ Reaches(Target(bridge.state, e.kind), Waiting', state)
    BY <1>1, <1>2, <1>3, <2>1, ReachesTail
  <2>3. bridge' = AfterEvent(bridge, e)
    <3> HIDE DEF e
    <3>1. BridgeAccepts(bridge, e)
      BY <1>2, <1>3, <1>5, <2>2, TakenIsAccepted
    <3> QED BY <1>5, <3>1
  <2>4. bridge' \in BridgeRecords /\ bridge'.state = Target(bridge.state, e.kind)
    BY <1>2, <1>3, <2>3, AfterEventTyped
  <2>5. HandWeight' = e.weight /\ HandWeight = 0 /\ e.weight \in Nat
    <3> HIDE DEF e
    <3> QED BY <1>2, <1>5 DEF HandWeight, Event
  <2>6. WeightOf(Waiting') = WeightOf(Waiting) - e.weight /\ WeightOf(Waiting) \in Nat
    BY <1>1, <1>2, <2>1, WeightTail, WeightType
  <2> HIDE DEF e
  <2>7. queuedWeight' = HandWeight' + WeightOf(Waiting')
    BY <1>1, <1>3, <2>5, <2>6
  <2>8. Reaches(bridge.state', Waiting', state')
    BY <1>1, <2>2, <2>4
  <2> QED BY <1>1, <1>3, <2>4, <2>7, <2>8 DEF Accounts
<1> QED BY <1>4, <1>5 DEF PumpTake, PushBack

LEMMA AccountsNext ==
  ASSUME Shape, Accounts, [Next]_vars
  PROVE  Accounts'
<1>1. ASSUME UNCHANGED <<channel, deferred, hand, disposed, queuedWeight, state, bridge>>
      PROVE  Accounts'
  BY <1>1 DEF Accounts, HandWeight, Waiting
<1>2. ASSUME NEW t \in Threads, InvokeWake(t) PROVE Accounts'
  BY <1>1, <1>2 DEF InvokeWake, shared, local
<1>3. ASSUME NEW t \in Threads, FinishWake(t) PROVE Accounts'
  BY <1>1, <1>3 DEF FinishWake, local
<1>4. ASSUME NEW t \in Threads, NEW e \in Offers, Offer(t, e) PROVE Accounts'
  BY <1>4, OfferAccounts
<1>5. ASSUME NEW c \in Contexts \cup {NoWake}, SetWakeCallback(c)
      PROVE Accounts'
  BY <1>1, <1>5 DEF SetWakeCallback
<1>6. ASSUME NEW n \in 1 .. MaxMessages, PumpInto(n) PROVE Accounts'
  BY <1>1, <1>6 DEF PumpInto, shared
<1>7. ASSUME NEW n \in 1 .. MaxMessages, Drain(n) PROVE Accounts'
  <2>1. UNCHANGED <<channel, deferred, hand, disposed, queuedWeight, state>>
        /\ bridge' = DrainUpTo(bridge, n).bridge
    BY <1>7 DEF Drain, shared
  <2>2. n \in Nat \ {0} /\ bridge \in BridgeRecords
    BY DEF Accounts
  <2>3. bridge' \in BridgeRecords /\ bridge'.state = bridge.state
    BY <2>1, <2>2, DrainTyped
  <2> QED BY <2>1, <2>3 DEF Accounts, HandWeight, Waiting
<1>8. ASSUME NEW c \in Contexts, NEW n \in 1 .. MaxMessages, HandleWake(c, n)
      PROVE Accounts'
  BY <1>1, <1>8 DEF HandleWake, shared
<1>9. CASE ResumeSetWake
  BY <1>1, <1>9 DEF ResumeSetWake
<1>10. CASE ResumeDispose
  BY <1>1, <1>10 DEF ResumeDispose, local
<1>11. CASE DropQueued
  <2>1. disposed' /\ bridge' = bridge
    BY <1>11 DEF DropQueued, Shape, Places
  <2> QED BY <2>1 DEF Accounts
<1>12. CASE PumpTake
  BY <1>12, TakeAccounts
<1>13. CASE PumpRelease
  <2>1. /\ queuedWeight' = queuedWeight - Head(hand).weight /\ hand' = <<>>
        /\ UNCHANGED <<channel, deferred, disposed, state, bridge>>
    BY <1>13 DEF PumpRelease
  <2>2. hand # <<>> /\ HandWeight = Head(hand).weight /\ HandWeight \in Nat
    BY <1>13, HandTyped DEF PumpRelease, Shape, Places, HandWeight
  <2>3. HandWeight' = 0 /\ Waiting' = Waiting
    BY <2>1 DEF HandWeight, Waiting
  <2>4. WeightOf(Waiting) \in Nat /\ queuedWeight \in Int /\ MaxWeight \in Nat
    BY WaitingType, WeightType, Limits_Assumption DEF Shape, TypeOK
  <2>5. ASSUME ~disposed
        PROVE  queuedWeight' = HandWeight' + WeightOf(Waiting') /\ queuedWeight' <= MaxWeight
    <3>1. queuedWeight = HandWeight + WeightOf(Waiting)
      BY <2>5 DEF Accounts
    <3>2. queuedWeight <= MaxWeight
      BY <2>5 DEF Accounts
    <3>3. queuedWeight' = queuedWeight - HandWeight
      BY <2>1, <2>2
    <3>4. queuedWeight \in Int
      BY <2>4
    <3>5. HandWeight \in Nat
      BY <2>2
    <3>6. WeightOf(Waiting) \in Nat
      BY <2>4
    <3>7. MaxWeight \in Nat
      BY <2>4
    <3>8. queuedWeight' = WeightOf(Waiting)
      BY <3>1, <3>3, <3>4, <3>5, <3>6
    <3>9. WeightOf(Waiting') = WeightOf(Waiting)
      BY <2>3
    <3>10. queuedWeight' = HandWeight' + WeightOf(Waiting')
      BY <2>3, <3>6, <3>8, <3>9
    <3>11. queuedWeight' <= MaxWeight
      BY <3>2, <3>3, <3>4, <3>5, <3>7
    <3> QED BY <3>10, <3>11
  <2> QED BY <2>1, <2>3, <2>5 DEF Accounts
<1>14. CASE PumpLoopEnds
  BY <1>1, <1>14 DEF PumpLoopEnds, shared, local
<1>15. CASE PumpEnd
  BY <1>1, <1>15 DEF PumpEnd
<1>16. CASE SpuriousWakeup
  BY <1>1, <1>16 DEF SpuriousWakeup, local
<1>17. CASE Dispose
  BY <1>17 DEF Dispose, local, Accounts
<1>18. CASE UNCHANGED vars
  BY <1>1, <1>18 DEF vars, shared, local
<1> QED
  BY StepCases, <1>2, <1>3, <1>4, <1>5, <1>6, <1>7, <1>8, <1>9, <1>10, <1>11,
     <1>12, <1>13, <1>14, <1>15, <1>16, <1>17, <1>18

LEMMA AccountsAlways == Spec => []Accounts
<1>1. Shape /\ Accounts /\ [Next]_vars => Accounts'
  BY AccountsNext
<1> QED BY AccountsInit, ShapeAlways, <1>1, PTL DEF Spec

LEMMA HandCounts ==
  ASSUME Shape
  PROVE  WeightOf(hand \o deferred \o channel) = HandWeight + WeightOf(Waiting)
<1> DEFINE r == hand \o Waiting
<1>1. /\ hand \in Seq(Event) /\ deferred \in Seq(Event) /\ channel \in Seq(Event)
      /\ Waiting \in Seq(Event) /\ (hand # <<>> => Len(hand) = 1)
  BY WaitingType DEF Shape, TypeOK, Places
<1>2. hand \o deferred \o channel = r
  <2>1. hand \in Seq(Event)
    BY <1>1
  <2>2. deferred \in Seq(Event)
    BY <1>1
  <2>3. channel \in Seq(Event)
    BY <1>1
  <2>4. (hand \o deferred) \o channel = hand \o (deferred \o channel)
    BY <2>1, <2>2, <2>3, ConcatAssociative
  <2> QED BY <2>4 DEF Waiting
<1>3. WeightOf(Waiting) \in Nat
  BY <1>1, WeightType
<1>4. CASE hand = <<>>
  <2>1. r = Waiting
    BY <1>1, <1>4, ConcatEmptySeq
  <2> QED BY <1>2, <1>3, <1>4, <2>1 DEF HandWeight
<1>5. CASE hand # <<>>
  <2>1. /\ r \in Seq(Event) /\ Len(r) = 1 + Len(Waiting) /\ Len(Waiting) \in Nat
        /\ \A i \in 1 .. 1 + Len(Waiting) :
             r[i] = IF i <= 1 THEN hand[i] ELSE Waiting[i - 1]
    <3>1. /\ r \in Seq(Event) /\ Len(r) = Len(hand) + Len(Waiting)
          /\ \A i \in 1 .. Len(hand) + Len(Waiting) :
               r[i] = IF i <= Len(hand) THEN hand[i] ELSE Waiting[i - Len(hand)]
      BY <1>1, ConcatProperties
    <3>2. Len(hand) = 1
      BY <1>1, <1>5
    <3>3. Len(Waiting) \in Nat
      BY <1>1, LenProperties
    <3> QED BY <3>1, <3>2, <3>3
  <2> HIDE DEF r
  <2>2. r # <<>> /\ r[1] = hand[1]
    BY <2>1
  <2>3. Head(r) = Head(hand)
    BY <1>1, <1>5, <2>1, <2>2
  <2>4. Tail(r) = Waiting
    <3>1. /\ Tail(r) \in Seq(Event) /\ Len(Tail(r)) = Len(r) - 1
          /\ \A i \in 1 .. Len(Tail(r)) : Tail(r)[i] = r[i + 1]
      BY <2>1, <2>2, HeadTailProperties
    <3>2. Len(Tail(r)) = Len(Waiting)
      BY <2>1, <3>1
    <3>3. ASSUME NEW i \in 1 .. Len(Waiting) PROVE Tail(r)[i] = Waiting[i]
      <4>1. i + 1 \in 1 .. 1 + Len(Waiting) /\ ~(i + 1 <= 1) /\ (i + 1) - 1 = i
        BY <2>1
      <4>2. Tail(r)[i] = r[i + 1]
        BY <3>1, <3>2
      <4>3. r[i + 1] = Waiting[(i + 1) - 1]
        BY <2>1, <4>1
      <4> QED BY <4>1, <4>2, <4>3
    <3> QED BY <1>1, <3>1, <3>2, <3>3, SeqEqual
  <2>5. WeightOf(Waiting) = WeightOf(r) - Head(r).weight
    BY <2>1, <2>2, <2>4, WeightTail
  <2>6. WeightOf(r) \in Nat /\ HandWeight = Head(r).weight /\ HandWeight \in Nat
    BY <1>5, <2>1, <2>3, WeightType, HandTyped DEF HandWeight, Shape
  <2>7. WeightOf(r) = HandWeight + WeightOf(Waiting)
    <3>1. WeightOf(r) \in Nat
      BY <2>6
    <3>2. HandWeight \in Nat
      BY <2>6
    <3>3. WeightOf(Waiting) = WeightOf(r) - HandWeight
      BY <2>5, <2>6
    <3> QED BY <3>1, <3>2, <3>3
  <2> QED BY <1>2, <2>7
<1> QED BY <1>4, <1>5

\* The weight counter is exact and its limit holds, whatever the limit and
\* the weights producers declare.
THEOREM WeightCounted == Spec => []WeightAccounted
<1>1. Shape /\ Accounts => WeightAccounted
  BY HandCounts DEF Accounts, WeightAccounted
<1> QED BY ShapeAlways, AccountsAlways, <1>1, PTL

\* The recursion in NothingAcceptedIsRejected.
Reached(f) ==
  f = [i \in 0 .. Len(Waiting) |->
         IF i = 0 THEN bridge.state
         ELSE AfterEvent(Emptied(f[i - 1]), Waiting[i]).state]

\* The bridge refuses no event the mailbox accepted, and the producers' view
\* of the stream is the one the bridge will come to.
THEOREM AcceptedIsTaken == Spec => []NothingAcceptedIsRejected
<1>1. ASSUME Shape, Accounts PROVE NothingAcceptedIsRejected
  <2> SUFFICES ASSUME ~disposed PROVE NothingAcceptedIsRejected
    BY DEF NothingAcceptedIsRejected
  <2> DEFINE n == Len(Waiting)
             r == CHOOSE f : Reached(f)
  <2>1. Waiting \in Seq(Event) /\ n \in Nat /\ DOMAIN Waiting = 1 .. n
    BY <1>1, WaitingType DEF Shape
  <2>2. PICK f : Path(bridge.state, Waiting, state, f)
    BY <1>1 DEF Accounts, Reaches
  <2>3. /\ f \in [0 .. n -> States] /\ f[0] = bridge.state /\ f[n] = state
        /\ \A i \in 1 .. n : f[i] = Target(f[i - 1], Waiting[i].kind)
                             /\ TakesEvent(f[i - 1], Waiting[i])
    BY <2>2 DEF Path
  <2> HIDE DEF n
  <2>4. ASSUME NEW i \in 1 .. n
        PROVE  /\ i \in 0 .. n /\ i - 1 \in 0 .. n /\ i # 0
               /\ f[i] = AfterEvent(Emptied(f[i - 1]), Waiting[i]).state
    <3>1. i \in 0 .. n /\ i - 1 \in 0 .. n /\ i # 0
      BY <2>1
    <3>2. f[i - 1] \in States /\ Waiting[i] \in Event
      BY <2>1, <2>3, <3>1 DEF n
    <3>3. AfterEvent(Emptied(f[i - 1]), Waiting[i]).state
            = Target(f[i - 1], Waiting[i].kind)
      BY <3>2, TargetTyped
    <3> QED BY <2>3, <3>1, <3>3
  <2>5. Reached(f)
    <3>1. ASSUME NEW i \in 0 .. n, i # 0
          PROVE  f[i] = AfterEvent(Emptied(f[i - 1]), Waiting[i]).state
      <4>1. i \in 1 .. n
        BY <2>1, <3>1
      <4> QED BY <2>4, <4>1
    <3>2. f = [i \in 0 .. n |-> IF i = 0 THEN bridge.state
                 ELSE AfterEvent(Emptied(f[i - 1]), Waiting[i]).state]
      BY <2>3, <3>1
    <3> QED BY <3>2 DEF Reached, n
  <2>6. Reached(r)
    BY <2>5, Zenon
  <2> HIDE DEF r
  <2>7. r[0] = bridge.state
        /\ \A i \in 1 .. n : r[i] = AfterEvent(Emptied(r[i - 1]), Waiting[i]).state
    <3>1. r = [i \in 0 .. n |-> IF i = 0 THEN bridge.state
                 ELSE AfterEvent(Emptied(r[i - 1]), Waiting[i]).state]
      BY <2>6 DEF Reached, n
    <3>2. 0 \in 0 .. n
      BY <2>1
    <3> QED BY <2>4, <3>1, <3>2
  <2> DEFINE S == {i \in 0 .. n : r[i] = f[i]}
  <2>8. 0 \in S
    BY <2>1, <2>3, <2>7
  <2>9. ASSUME NEW i \in 1 .. n, i - 1 \in S PROVE i \in S
    <3>1. r[i - 1] = f[i - 1]
      BY <2>9
    <3> QED BY <2>4, <2>7, <3>1
  <2>10. \A i \in 0 .. n : i \in S
    <3> HIDE DEF S
    <3> QED BY <2>1, <2>8, <2>9, UpTo
  <2>11. r[n] = state
    <3>1. n \in 0 .. n
      BY <2>1
    <3> QED BY <2>3, <2>10, <3>1
  <2>12. ASSUME NEW i \in DOMAIN Waiting
         PROVE  \/ Backpressured(Emptied(r[i - 1]), Waiting[i])
                \/ BridgeAccepts(Emptied(r[i - 1]), Waiting[i])
    <3>1. i \in 1 .. n /\ i - 1 \in 0 .. n
      BY <2>1, <2>4
    <3>2. r[i - 1] = f[i - 1]
      BY <2>10, <3>1
    <3> QED BY <2>3, <3>1, <3>2 DEF TakesEvent
  <2> QED BY <2>11, <2>12, Zenon DEF NothingAcceptedIsRejected, Reached, r, n
<1> QED BY ShapeAlways, AccountsAlways, <1>1, PTL

=============================================================================
