-------------------------- MODULE CraftStore_proofs --------------------------
(***************************************************************************)
(* Proofs about CraftStore for every number of actions and subscriptions,  *)
(* every nesting and every choice of what panics.  The inductive invariant *)
(* has six parts, each inductive over the ones before it:                  *)
(*                                                                         *)
(*   Typed    types, and both signals agree with their indexes             *)
(*   Stacked  what is locked, open or emitting is on the stack of calls    *)
(*   Room     the application's bounds leave one subscription to the watch *)
(*   Heard    every commit listener has heard all revisions, up to the one *)
(*            that is being emitted                                        *)
(*   Fresh    a change the Selector has not seen is about to be projected  *)
(*   Followed a value the watch does not show is on its way to it          *)
(*                                                                         *)
(* The calls in progress enter the last three as the emissions among them  *)
(* only (Emissions), so that a frame pushed or taken off elsewhere changes *)
(* nothing: such a step is Quiet, and the others (Loud) are five.          *)
(***************************************************************************)
EXTENDS CraftStore, TLAPS, FiniteSetTheorems, SequenceTheorems,
        WellFoundedInduction

-----------------------------------------------------------------------------
\* Signals.
Binding == [id : Nat, active : BOOLEAN]
Indexes == UNION {[D -> Nat] : D \in SUBSET Nat}
SignalRecord == [bindings : Seq(Binding), index : Indexes, next : Nat,
                 depth : Nat, inactive : Nat]

\* Subscriptions are never numbered twice.
Numbered(s) ==
  /\ s.next > 0
  /\ \A p \in DOMAIN s.bindings :
       s.bindings[p].id > 0 /\ s.bindings[p].id < s.next
  /\ \A p, q \in DOMAIN s.bindings :
       s.bindings[p].id = s.bindings[q].id => p = q

Sound(s) == s \in SignalRecord /\ Numbered(s) /\ IndexAgrees(s)

\* What a call may do to a signal: while an emission runs every binding keeps
\* its place, and none is revived.
Keeps(s, t) ==
  /\ t.depth = s.depth
  /\ t.next >= s.next
  /\ \A id \in DOMAIN t.index : id \in DOMAIN s.index \/ id >= s.next
  /\ s.depth > 0 =>
       /\ Len(t.bindings) >= Len(s.bindings)
       /\ \A p \in DOMAIN t.bindings :
            t.bindings[p].active =>
              IF p \in DOMAIN s.bindings
              THEN s.bindings[p].active /\ s.bindings[p].id = t.bindings[p].id
              ELSE t.bindings[p].id >= s.next
       /\ \A id \in DOMAIN t.index :
            id \in DOMAIN s.index => t.index[id] = s.index[id]

\* The Selector's own subscription comes first.
SourceFirst(s) ==
  /\ 1 \in DOMAIN s.bindings
  /\ s.bindings[1] = [id |-> Source, active |-> TRUE]

-----------------------------------------------------------------------------
\* Calls in progress.
EmitFrame == [at : {"emit"}, sig : Signals, value : Nat, pos : Nat \ {0},
              count : Nat, failed : BOOLEAN]
Frame == EmitFrame
           \cup [at : {"listener"}, sig : Signals, id : Nat]
           \cup [at : {"drain"}, last : BOOLEAN, failed : BOOLEAN]
           \cup [at : {"ending"}, failed : BOOLEAN]
           \cup [at : {"body", "reading", "immediate"}]

Emits(f, sig) == f.at = "emit" /\ f.sig = sig

\* How far the emissions of a signal are.
Progress(f) == [value |-> f.value, pos |-> f.pos, count |-> f.count]
Emissions(s, sig) ==
  {Progress(s[i]) : i \in {j \in DOMAIN s : Emits(s[j], sig)}}

\* The number of emissions and of transaction bodies.
Many(s, sig) == Cardinality({i \in DOMAIN s : Emits(s[i], sig)})
Bodies(s)    == Cardinality({i \in DOMAIN s : s[i].at = "body"})
Drains(s)    == \E i \in DOMAIN s : s[i].at = "drain"
Starts(s)    == \E i \in DOMAIN s : s[i].at = "immediate"

\* The first call of a watch is made by nobody, commits are emitted by drain,
\* and drain does not nest.
Ordered(s) ==
  \A i \in DOMAIN s :
    /\ s[i].at = "immediate" => i = Len(s)
    /\ Emits(s[i], "commits") => i + 1 \in DOMAIN s /\ s[i + 1].at = "drain"
    /\ s[i].at = "drain" => \A j \in DOMAIN s : i < j => s[j].at # "drain"

-----------------------------------------------------------------------------
Typed ==
  /\ model \in Nat /\ revision \in Nat /\ depth \in 0 .. MaxDepth
  /\ calls \in 0 .. MaxActions /\ pending \in Seq(Actions)
  /\ pendingCommit \in BOOLEAN /\ processing \in BOOLEAN
  /\ unwinding \in BOOLEAN /\ stale \in BOOLEAN /\ behind \in BOOLEAN
  /\ selector \in [value : Nat, disposed : BOOLEAN]
  /\ watch \in [id : Nat, shown : Nat]
  /\ signals \in [Signals -> SignalRecord]
  /\ \A sig \in Signals : Sound(signals[sig])
  /\ stack \in Seq(Frame)
  /\ seen \in Indexes

\* The bounds of the application's subscriptions leave one for the watch.
Room ==
  /\ signals["changes"].next <= MaxSubs["changes"] + 2
  /\ Starts(stack) => signals["changes"].next <= MaxSubs["changes"] + 1
  /\ watch.id < signals["changes"].next

Stacked ==
  /\ Ordered(stack)
  /\ processing <=> Drains(stack)
  /\ depth = Bodies(stack)
  /\ \A sig \in Signals :
       /\ signals[sig].depth = Many(stack, sig)
       /\ \A f \in Emissions(stack, sig) : f.count <= Len(signals[sig].bindings)

\* E are the emissions of the commits s, heard what the listeners were told
\* last, rev the revision.
HeardBy(E, s, heard, rev, pc) ==
  /\ \A id \in DOMAIN heard : id < s.next /\ id # Source
  /\ \A f \in E :
       /\ f.value = rev /\ ~pc
       /\ \A p \in DOMAIN s.bindings :
            s.bindings[p].active /\ s.bindings[p].id \in DOMAIN heard =>
              /\ p <= f.count
              /\ p < f.pos => heard[s.bindings[p].id] = rev
              /\ p >= f.pos => heard[s.bindings[p].id] = rev - 1
  /\ E = {} => \A id \in DOMAIN s.index : id \in DOMAIN heard => heard[id] = rev

Heard == HeardBy(Emissions(stack, "commits"), signals["commits"], seen,
                 revision, pendingCommit)

Fresh ==
  /\ ~selector.disposed => SourceFirst(signals["commits"])
  /\ (~pendingCommit /\ ~stale /\ ~selector.disposed /\ selector.value # model) =>
       /\ ~unwinding /\ In("emit") /\ Top.sig = "commits"
       /\ Top.pos = 1 /\ Top.count >= 1

\* E are the emissions of the changes s, w the watch, value the selected one.
FollowedBy(E, s, w, value) ==
  /\ s.depth <= 1
  /\ \A f \in E : f.value = value
  /\ HasListener(s, w.id) /\ w.shown # value =>
       \E f \in E : f.pos <= s.index[w.id] /\ s.index[w.id] <= f.count

Followed ==
  ~behind => FollowedBy(Emissions(stack, "changes"), signals["changes"],
                        watch, selector.value)

-----------------------------------------------------------------------------
\* Every nonempty set of numbers has a least one.
LEMMA NatMinimum ==
  ASSUME NEW S \in SUBSET Nat, S # {}
  PROVE  \E m \in S : \A k \in S : m <= k
<1> DEFINE R == OpToRel(<, Nat)
<1>1. IsWellFoundedOn(R, Nat)
  BY NatLessThanWellFounded
<1>2. \A j, k \in Nat : <<j, k>> \in R <=> j < k
  BY DEF OpToRel
<1> HIDE DEF R
<1>3. PICK m \in S : \A k \in S : <<k, m>> \notin R
  BY <1>1, WFMin
<1>4. \A k \in S : ~(k < m)
  BY <1>2, <1>3
<1>5. m \in Nat /\ S \subseteq Nat
  OBVIOUS
<1> QED
  BY <1>4, <1>5

\* Induction up to N, on a set instead of a predicate.
LEMMA UpTo ==
  ASSUME NEW S, NEW N \in Nat, 0 \in S,
         \A n \in 1 .. N : n - 1 \in S => n \in S
  PROVE  \A n \in 0 .. N : n \in S
<1> SUFFICES ASSUME NEW n \in 0 .. N, n \notin S PROVE FALSE
  OBVIOUS
<1> DEFINE Bad == {k \in 0 .. N : k \notin S}
<1>1. Bad \in SUBSET Nat /\ Bad # {}
  OBVIOUS
<1>2. PICK m \in Bad : \A k \in Bad : m <= k
  <2> HIDE DEF Bad
  <2> QED BY <1>1, NatMinimum
<1>3. m \in 0 .. N /\ m \notin S /\ m # 0
  OBVIOUS
<1>4. m \in 1 .. N /\ m - 1 \in 0 .. N /\ ~(m <= m - 1)
  BY <1>3
<1>5. m - 1 \in S
  BY <1>2, <1>4
<1> QED BY <1>3, <1>4, <1>5

\* f starts with b and takes each further value from the one before it.
Obeys(f, b, n, g) == f[0] = b /\ \A i \in 1 .. n : f[i] = g[i][f[i - 1]]

\* A function defined by recursion on its predecessor's value exists: it is
\* glued from the functions on 0 .. n that obey the recursion.
LEMMA Recursion ==
  ASSUME NEW D, NEW b \in D, NEW N \in Nat, NEW g \in [1 .. N -> [D -> D]]
  PROVE  \E f \in [0 .. N -> D] : Obeys(f, b, N, g)
<1> USE DEF Obeys
<1> DEFINE Long == {n \in 0 .. N : \E f \in [0 .. N -> D] : Obeys(f, b, n, g)}
<1>1. 0 \in Long
  <2>1. [i \in 0 .. N |-> b] \in [0 .. N -> D] /\ 0 \in 0 .. N
    OBVIOUS
  <2>2. Obeys([i \in 0 .. N |-> b], b, 0, g)
    OBVIOUS
  <2> QED BY <2>1, <2>2
<1>2. \A n \in 1 .. N : n - 1 \in Long => n \in Long
  <2> SUFFICES ASSUME NEW n \in 1 .. N, n - 1 \in Long PROVE n \in Long
    OBVIOUS
  <2>1. PICK f \in [0 .. N -> D] : Obeys(f, b, n - 1, g)
    OBVIOUS
  <2>2. n - 1 \in 0 .. N /\ n \in 0 .. N /\ n # 0
    OBVIOUS
  <2>3. f[n - 1] \in D
    BY <2>2
  <2> DEFINE next == g[n][f[n - 1]]
             h    == [i \in 0 .. N |-> IF i = n THEN next ELSE f[i]]
  <2>4. next \in D
    BY <2>3
  <2> HIDE DEF next
  <2>5. h \in [0 .. N -> D]
    BY <2>4
  <2>6. h[0] = b
    BY <2>1, <2>2
  <2>7. ASSUME NEW i \in 1 .. n PROVE h[i] = g[i][h[i - 1]]
    <3>1. i - 1 \in 0 .. N /\ i \in 0 .. N /\ i - 1 # n
      OBVIOUS
    <3>2. h[i - 1] = f[i - 1]
      BY <3>1
    <3>3. CASE i = n
      BY <3>1, <3>2, <3>3 DEF next
    <3>4. CASE i # n
      <4>1. i \in 1 .. n - 1 /\ h[i] = f[i]
        BY <3>1, <3>4
      <4> QED BY <4>1, <3>2, <2>1
    <3> QED BY <3>3, <3>4
  <2> HIDE DEF h
  <2>8. Obeys(h, b, n, g)
    BY <2>6, <2>7
  <2> QED BY <2>2, <2>5, <2>8
<1>3. N \in Long
  <2> HIDE DEF Long
  <2>1. \A n \in 0 .. N : n \in Long
    BY <1>1, <1>2, UpTo
  <2> QED BY <2>1
<1> QED BY <1>3

-----------------------------------------------------------------------------
\* What retain leaves.
\* r holds the active ones of the first n bindings, in their order as far as
\* the first of all is concerned.
Collected(bs, n, r) ==
  /\ r \in Seq(Binding)
  /\ \A k \in DOMAIN r : \E p \in 1 .. n : bs[p].active /\ r[k] = bs[p]
  /\ \A p \in 1 .. n : bs[p].active => \E k \in DOMAIN r : r[k] = bs[p]
  /\ \A k, l \in DOMAIN r : r[k].id = r[l].id => k = l
  /\ n > 0 /\ bs[1].active => 1 \in DOMAIN r /\ r[1] = bs[1]

\* The recursion Retained is the last value of.
Collects(bs, f) ==
  f = [i \in 0 .. Len(bs) |->
         IF i = 0 THEN <<>>
         ELSE IF bs[i].active THEN Append(f[i - 1], bs[i])
         ELSE f[i - 1]]

LEMMA CollectOne ==
  ASSUME NEW bs \in Seq(Binding), NEW n \in 1 .. Len(bs), NEW r,
         \A p, q \in DOMAIN bs : bs[p].id = bs[q].id => p = q,
         Collected(bs, n - 1, r)
  PROVE  Collected(bs, n, IF bs[n].active THEN Append(r, bs[n]) ELSE r)
<1>1. /\ r \in Seq(Binding) /\ bs[n] \in Binding /\ DOMAIN bs = 1 .. Len(bs)
      /\ n \in DOMAIN bs /\ Len(bs) \in Nat
  BY DEF Collected
<1>2. ASSUME NEW p \in 1 .. n PROVE p = n \/ p \in 1 .. n - 1
  OBVIOUS
<1>3. ASSUME NEW p \in 1 .. n - 1
      PROVE p \in 1 .. n /\ p # n /\ p \in DOMAIN bs /\ bs[p].id # bs[n].id
  BY <1>1
<1>4. CASE ~bs[n].active
  <2>1. \A k \in DOMAIN r : \E p \in 1 .. n : bs[p].active /\ r[k] = bs[p]
    BY <1>3 DEF Collected
  <2>2. \A p \in 1 .. n : bs[p].active => \E k \in DOMAIN r : r[k] = bs[p]
    BY <1>2, <1>4 DEF Collected
  <2>3. bs[1].active => 1 \in DOMAIN r /\ r[1] = bs[1]
    BY <1>4 DEF Collected
  <2> QED BY <1>4, <2>1, <2>2, <2>3 DEF Collected
<1>5. CASE bs[n].active
  <2> DEFINE t == Append(r, bs[n])
  <2>1. /\ t \in Seq(Binding) /\ Len(t) = Len(r) + 1 /\ Len(r) \in Nat
        /\ \A k \in 1 .. Len(r) : t[k] = r[k]
        /\ t[Len(r) + 1] = bs[n]
    BY <1>1, AppendProperties
  <2>2. DOMAIN t = 1 .. Len(r) + 1 /\ DOMAIN r = 1 .. Len(r)
    BY <1>1, <2>1
  <2> HIDE DEF t
  <2>3. ASSUME NEW k \in DOMAIN t
        PROVE  \/ k \in DOMAIN r /\ t[k] = r[k]
               \/ k = Len(r) + 1 /\ t[k] = bs[n]
    BY <2>1, <2>2
  <2>4. ASSUME NEW k \in DOMAIN r PROVE k \in DOMAIN t /\ k # Len(r) + 1 /\ t[k] = r[k]
    BY <2>1, <2>2
  <2>5. ASSUME NEW k \in DOMAIN r PROVE r[k].id # bs[n].id
    <3>1. PICK p \in 1 .. n - 1 : r[k] = bs[p]
      BY DEF Collected
    <3> QED BY <1>3, <3>1
  <2>6. \A k \in DOMAIN t : \E p \in 1 .. n : bs[p].active /\ t[k] = bs[p]
    <3> SUFFICES ASSUME NEW k \in DOMAIN t
                 PROVE \E p \in 1 .. n : bs[p].active /\ t[k] = bs[p]
      OBVIOUS
    <3>1. CASE k \in DOMAIN r /\ t[k] = r[k]
      BY <1>3, <3>1 DEF Collected
    <3>2. CASE t[k] = bs[n]
      BY <1>5, <3>2
    <3> QED BY <2>3, <3>1, <3>2
  <2>7. \A p \in 1 .. n : bs[p].active => \E k \in DOMAIN t : t[k] = bs[p]
    <3> SUFFICES ASSUME NEW p \in 1 .. n, bs[p].active
                 PROVE \E k \in DOMAIN t : t[k] = bs[p]
      OBVIOUS
    <3>1. CASE p = n
      BY <2>1, <2>2, <3>1
    <3>2. CASE p \in 1 .. n - 1
      BY <2>4, <3>2 DEF Collected
    <3> QED BY <1>2, <3>1, <3>2
  <2>8. ASSUME NEW k \in DOMAIN t, NEW l \in DOMAIN t, t[k].id = t[l].id PROVE k = l
    BY <2>3, <2>5, <2>8 DEF Collected
  <2>9. bs[1].active => 1 \in DOMAIN t /\ t[1] = bs[1]
    <3>1. CASE n = 1
      <4>1. r = <<>>
        <5>1. \A k \in DOMAIN r : FALSE
          BY <3>1 DEF Collected
        <5> QED BY <1>1, <2>1, <2>2, <5>1
      <4> QED BY <2>1, <2>2, <3>1, <4>1
    <3>2. CASE n > 1
      <4>1. n - 1 > 0
        BY <3>2
      <4> QED BY <2>4, <4>1 DEF Collected
    <3> QED BY <3>1, <3>2
  <2>10. Collected(bs, n, t)
    BY <2>1, <2>6, <2>7, <2>8, <2>9 DEF Collected
  <2> QED BY <1>5, <2>10 DEF t
<1> QED BY <1>4, <1>5

LEMMA CollectsExists ==
  ASSUME NEW bs \in Seq(Binding)
  PROVE  \E f : Collects(bs, f)
<1> DEFINE N == Len(bs)
           g == [n \in 1 .. N |-> [r \in Seq(Binding) |->
                   IF bs[n].active THEN Append(r, bs[n]) ELSE r]]
<1>1. N \in Nat
  OBVIOUS
<1>2. g \in [1 .. N -> [Seq(Binding) -> Seq(Binding)]]
  <2>1. ASSUME NEW n \in 1 .. N, NEW r \in Seq(Binding)
        PROVE (IF bs[n].active THEN Append(r, bs[n]) ELSE r) \in Seq(Binding)
    <3>1. bs[n] \in Binding
      OBVIOUS
    <3> QED BY <3>1, AppendProperties
  <2> QED BY <2>1
<1>3. \A n \in 1 .. N, r \in Seq(Binding) :
        g[n][r] = IF bs[n].active THEN Append(r, bs[n]) ELSE r
  OBVIOUS
<1> HIDE DEF g
<1>4. PICK f \in [0 .. N -> Seq(Binding)] : Obeys(f, <<>>, N, g)
  <2>1. <<>> \in Seq(Binding)
    BY EmptySeq
  <2> HIDE DEF N
  <2> QED BY <1>1, <1>2, <2>1, Recursion
<1>5. ASSUME NEW n \in 0 .. N, n # 0
      PROVE f[n] = IF bs[n].active THEN Append(f[n - 1], bs[n]) ELSE f[n - 1]
  <2>1. n \in 1 .. N /\ n - 1 \in 0 .. N
    BY <1>1, <1>5
  <2>2. f[n - 1] \in Seq(Binding)
    BY <2>1
  <2>3. f[n] = g[n][f[n - 1]]
    BY <2>1, <1>4 DEF Obeys
  <2> QED BY <2>1, <2>2, <2>3, <1>3
<1>6. f[0] = <<>>
  BY <1>4 DEF Obeys
<1>7. f = [i \in 0 .. N |-> IF i = 0 THEN <<>>
             ELSE IF bs[i].active THEN Append(f[i - 1], bs[i]) ELSE f[i - 1]]
  BY <1>5, <1>6
<1> QED BY <1>7 DEF Collects

LEMMA RetainedActive ==
  ASSUME NEW bs \in Seq(Binding),
         \A p, q \in DOMAIN bs : bs[p].id = bs[q].id => p = q
  PROVE  Collected(bs, Len(bs), Retained(bs))
<1> DEFINE f == CHOOSE f : Collects(bs, f)
<1>1. Collects(bs, f)
  BY CollectsExists, Zenon
<1>2. Retained(bs) = f[Len(bs)]
  BY Zenon DEF Retained, Collects
<1> HIDE DEF f
<1>3. Len(bs) \in Nat
  OBVIOUS
<1>4. f = [i \in 0 .. Len(bs) |-> IF i = 0 THEN <<>>
             ELSE IF bs[i].active THEN Append(f[i - 1], bs[i]) ELSE f[i - 1]]
  BY <1>1 DEF Collects
<1>5. f[0] = <<>>
  BY <1>3, <1>4
<1>6. ASSUME NEW i \in 1 .. Len(bs)
      PROVE  f[i] = IF bs[i].active THEN Append(f[i - 1], bs[i]) ELSE f[i - 1]
  <2>1. i \in 0 .. Len(bs) /\ i # 0
    OBVIOUS
  <2> QED BY <1>4, <2>1
<1> DEFINE S == {i \in 0 .. Len(bs) : Collected(bs, i, f[i])}
<1>7. 0 \in S
  <2>1. <<>> \in Seq(Binding) /\ DOMAIN <<>> = {}
    BY EmptySeq
  <2>2. Collected(bs, 0, <<>>)
    BY <2>1 DEF Collected
  <2> QED BY <1>3, <1>5, <2>2
<1>8. ASSUME NEW i \in 1 .. Len(bs), i - 1 \in S PROVE i \in S
  <2>1. Collected(bs, i - 1, f[i - 1])
    BY <1>8
  <2>2. Collected(bs, i, f[i])
    BY <1>6, <2>1, CollectOne
  <2> QED BY <2>2
<1>9. \A i \in 0 .. Len(bs) : i \in S
  <2> HIDE DEF S
  <2> QED BY <1>3, <1>7, <1>8, UpTo
<1>10. Len(bs) \in S
  BY <1>3, <1>9
<1> QED BY <1>2, <1>10

-----------------------------------------------------------------------------
\* IndexAgrees, position by position.
Marked(s) == {p \in DOMAIN s.bindings : ~s.bindings[p].active}

Agrees(s) ==
  /\ \A id \in DOMAIN s.index :
       /\ s.index[id] \in DOMAIN s.bindings
       /\ s.bindings[s.index[id]].id = id
       /\ s.bindings[s.index[id]].active
  /\ \A p \in DOMAIN s.bindings :
       s.bindings[p].active => /\ s.bindings[p].id \in DOMAIN s.index
                               /\ s.index[s.bindings[p].id] = p
  /\ s.inactive = Cardinality(Marked(s))
  /\ s.depth = 0 => s.inactive = 0

LEMMA InIndexes ==
  ASSUME NEW D \in SUBSET Nat, NEW f \in [D -> Nat]
  PROVE  f \in Indexes
BY DEF Indexes

LEMMA IndexTyped ==
  ASSUME NEW s \in SignalRecord
  PROVE  /\ DOMAIN s.index \in SUBSET Nat
         /\ s.index \in [DOMAIN s.index -> Nat]
<1>1. s.index \in Indexes
  BY DEF SignalRecord
<1> QED BY <1>1 DEF Indexes

LEMMA BindingsTyped ==
  ASSUME NEW s \in SignalRecord
  PROVE  /\ s.bindings \in Seq(Binding) /\ Len(s.bindings) \in Nat
         /\ DOMAIN s.bindings = 1 .. Len(s.bindings)
         /\ \A p \in DOMAIN s.bindings : /\ s.bindings[p] \in Binding
                                         /\ s.bindings[p].id \in Nat
                                         /\ s.bindings[p].active \in BOOLEAN
<1>1. s.bindings \in Seq(Binding)
  BY DEF SignalRecord
<1>2. \A p \in DOMAIN s.bindings : s.bindings[p] \in Binding
  BY <1>1
<1>3. \A p \in DOMAIN s.bindings : s.bindings[p].id \in Nat /\ s.bindings[p].active \in BOOLEAN
  BY <1>2 DEF Binding
<1> QED BY <1>1, <1>2, <1>3

LEMMA ActiveIdsAre ==
  ASSUME NEW s
  PROVE  \A id : id \in ActiveIds(s)
                   <=> \E p \in DOMAIN s.bindings : s.bindings[p].active /\ s.bindings[p].id = id
BY DEF ActiveIds, ToSet

LEMMA AgreesIff ==
  ASSUME NEW s \in SignalRecord, Numbered(s)
  PROVE  IndexAgrees(s) <=> Agrees(s)
<1>1. \A p, q \in DOMAIN s.bindings : s.bindings[p].id = s.bindings[q].id => p = q
  BY DEF Numbered
<1>2. ASSUME IndexAgrees(s) PROVE Agrees(s)
  <2>1. /\ DOMAIN s.index = ActiveIds(s)
        /\ \A id \in DOMAIN s.index : /\ s.index[id] \in DOMAIN s.bindings
                                      /\ s.bindings[s.index[id]].id = id
    BY <1>2 DEF IndexAgrees
  <2>2. ASSUME NEW id \in DOMAIN s.index PROVE s.bindings[s.index[id]].active
    <3>1. PICK p \in DOMAIN s.bindings : s.bindings[p].active /\ s.bindings[p].id = id
      BY <2>1, ActiveIdsAre
    <3>2. p = s.index[id]
      BY <1>1, <2>1, <3>1
    <3> QED BY <3>1, <3>2
  <2>3. ASSUME NEW p \in DOMAIN s.bindings, s.bindings[p].active
        PROVE  s.bindings[p].id \in DOMAIN s.index /\ s.index[s.bindings[p].id] = p
    <3>1. s.bindings[p].id \in DOMAIN s.index
      BY <2>1, <2>3, ActiveIdsAre
    <3> QED BY <1>1, <2>1, <3>1
  <2> QED BY <1>2, <2>1, <2>2, <2>3 DEF Agrees, IndexAgrees, Marked
<1>3. ASSUME Agrees(s) PROVE IndexAgrees(s)
  <2>1. ASSUME NEW id \in DOMAIN s.index PROVE id \in ActiveIds(s)
    <3>1. s.index[id] \in DOMAIN s.bindings /\ s.bindings[s.index[id]].active
          /\ s.bindings[s.index[id]].id = id
      BY <1>3 DEF Agrees
    <3> QED BY <3>1, ActiveIdsAre
  <2>2. ASSUME NEW id \in ActiveIds(s) PROVE id \in DOMAIN s.index
    <3>1. PICK p \in DOMAIN s.bindings : s.bindings[p].active /\ s.bindings[p].id = id
      BY ActiveIdsAre
    <3> QED BY <1>3, <3>1 DEF Agrees
  <2>3. DOMAIN s.index = ActiveIds(s)
    BY <2>1, <2>2
  <2> QED BY <1>3, <2>3 DEF Agrees, IndexAgrees, Marked
<1> QED BY <1>2, <1>3

LEMMA SoundIs ==
  ASSUME NEW s
  PROVE  Sound(s) <=> s \in SignalRecord /\ Numbered(s) /\ Agrees(s)
BY AgreesIff DEF Sound

LEMMA MarkedFinite ==
  ASSUME NEW s \in SignalRecord
  PROVE  IsFiniteSet(Marked(s)) /\ Cardinality(Marked(s)) \in Nat
<1>1. IsFiniteSet(1 .. Len(s.bindings))
  BY BindingsTyped, FS_Interval
<1>2. Marked(s) \in SUBSET (1 .. Len(s.bindings))
  BY BindingsTyped DEF Marked
<1> QED BY <1>1, <1>2, FS_Subset, FS_CardinalityType

LEMMA NewSignalSound == Sound(NewSignal) /\ NewSignal.next = 1 /\ NewSignal.depth = 0
                        /\ NewSignal.bindings = <<>> /\ DOMAIN NewSignal.index = {}
<1>1. <<>> \in Seq(Binding) /\ DOMAIN <<>> = {} /\ <<>> \in [{} -> Nat]
  BY EmptySeq
<1>2. <<>> \in Indexes
  BY <1>1, InIndexes
<1>3. NewSignal \in SignalRecord
  BY <1>1, <1>2 DEF NewSignal, SignalRecord
<1>4. Numbered(NewSignal)
  BY <1>1 DEF NewSignal, Numbered
<1>5. Marked(NewSignal) = {}
  BY <1>1 DEF NewSignal, Marked
<1>6. Agrees(NewSignal)
  BY <1>1, <1>5, FS_EmptySet DEF NewSignal, Agrees
<1>7. Sound(NewSignal)
  BY <1>3, <1>4, <1>6, SoundIs
<1> QED BY <1>1, <1>7 DEF NewSignal

LEMMA SubscribeSound ==
  ASSUME NEW s, Sound(s)
  PROVE  /\ Sound(Subscribe(s)) /\ Keeps(s, Subscribe(s))
         /\ Subscribe(s).next = s.next + 1
         /\ Len(Subscribe(s).bindings) = Len(s.bindings) + 1
         /\ \A p \in DOMAIN s.bindings : /\ p \in DOMAIN Subscribe(s).bindings
                                         /\ Subscribe(s).bindings[p] = s.bindings[p]
         /\ DOMAIN Subscribe(s).index = DOMAIN s.index \cup {s.next}
<1> DEFINE t == Subscribe(s)
           n == Len(s.bindings)
           b == [id |-> s.next, active |-> TRUE]
<1>1. s \in SignalRecord /\ Numbered(s) /\ Agrees(s)
  BY SoundIs
<1>2. /\ s.bindings \in Seq(Binding) /\ n \in Nat /\ DOMAIN s.bindings = 1 .. n
      /\ DOMAIN s.index \in SUBSET Nat /\ s.index \in [DOMAIN s.index -> Nat]
      /\ s.next \in Nat /\ s.depth \in Nat /\ s.inactive \in Nat
  BY <1>1, BindingsTyped, IndexTyped DEF SignalRecord
<1>3. b \in Binding /\ b.id = s.next /\ b.active
  BY <1>2 DEF Binding
<1>4. /\ t.bindings = Append(s.bindings, b) /\ t.next = s.next + 1
      /\ t.depth = s.depth /\ t.inactive = s.inactive
      /\ t.index = [id \in DOMAIN s.index \cup {s.next} |->
                      IF id = s.next THEN n + 1 ELSE s.index[id]]
  BY <1>1 DEF Subscribe, SignalRecord
<1> HIDE DEF b
<1>5. /\ t.bindings \in Seq(Binding) /\ Len(t.bindings) = n + 1
      /\ \A p \in 1 .. n : t.bindings[p] = s.bindings[p]
      /\ t.bindings[n + 1] = b
  BY <1>2, <1>3, <1>4, AppendProperties
<1>6. t.index \in [DOMAIN s.index \cup {s.next} -> Nat]
  BY <1>2, <1>4
<1>7. t.index \in Indexes
  <2>1. DOMAIN s.index \cup {s.next} \in SUBSET Nat
    BY <1>2
  <2> QED BY <1>6, <2>1, InIndexes
<1>8. t \in SignalRecord
  <2>1. ASSUME NEW bs \in Seq(Binding), NEW ix \in Indexes
        PROVE [s EXCEPT !.next = @ + 1, !.bindings = bs, !.index = ix] \in SignalRecord
    <3>1. s \in SignalRecord
      BY <1>1
    <3>2. s.next + 1 \in Nat
      BY <1>2
    <3> QED BY <3>1, <3>2 DEF SignalRecord
  <2>2. t = [s EXCEPT !.next = @ + 1, !.bindings = t.bindings, !.index = t.index]
    BY <1>4 DEF Subscribe, b
  <2> HIDE DEF t
  <2>3. t.bindings \in Seq(Binding)
    BY <1>5
  <2>4. [s EXCEPT !.next = @ + 1, !.bindings = t.bindings, !.index = t.index] \in SignalRecord
    BY <1>7, <2>1, <2>3
  <2> QED BY <2>2, <2>4
<1> HIDE DEF t
<1>9. DOMAIN t.bindings = 1 .. n + 1 /\ DOMAIN t.index = DOMAIN s.index \cup {s.next}
  BY <1>5, <1>6, <1>8, BindingsTyped
<1>10. ASSUME NEW p \in DOMAIN t.bindings
       PROVE  \/ p \in DOMAIN s.bindings /\ t.bindings[p] = s.bindings[p] /\ p # n + 1
              \/ p = n + 1 /\ t.bindings[p] = b /\ p \notin DOMAIN s.bindings
  BY <1>2, <1>5, <1>9
<1>11. ASSUME NEW p \in DOMAIN s.bindings
       PROVE  /\ s.bindings[p].id > 0 /\ s.bindings[p].id < s.next
              /\ s.bindings[p].id # s.next /\ s.bindings[p].id \in Nat
  <2>1. s.bindings[p].id \in Nat
    BY <1>1, BindingsTyped
  <2> QED BY <1>1, <1>2, <2>1 DEF Numbered
<1>12. s.next \notin DOMAIN s.index
  BY <1>1, <1>11 DEF Agrees
<1>13. Numbered(t)
  <2>1. t.next > 0
    BY <1>2, <1>4
  <2>2. \A p \in DOMAIN t.bindings : t.bindings[p].id > 0 /\ t.bindings[p].id < t.next
    <3> SUFFICES ASSUME NEW p \in DOMAIN t.bindings
                 PROVE t.bindings[p].id > 0 /\ t.bindings[p].id < t.next
      OBVIOUS
    <3>1. CASE p \in DOMAIN s.bindings /\ t.bindings[p] = s.bindings[p]
      BY <1>2, <1>4, <1>11, <3>1
    <3>2. CASE t.bindings[p] = b
      BY <1>1, <1>2, <1>3, <1>4, <3>2 DEF Numbered
    <3> QED BY <1>10, <3>1, <3>2
  <2>3. \A p, q \in DOMAIN t.bindings : t.bindings[p].id = t.bindings[q].id => p = q
    BY <1>1, <1>3, <1>10, <1>11 DEF Numbered
  <2> QED BY <2>1, <2>2, <2>3 DEF Numbered
<1>14. Marked(t) = Marked(s)
  BY <1>2, <1>3, <1>5, <1>9, <1>10 DEF Marked
<1>15. Agrees(t)
  <2>1. ASSUME NEW id \in DOMAIN t.index
        PROVE  /\ t.index[id] \in DOMAIN t.bindings
               /\ t.bindings[t.index[id]].id = id
               /\ t.bindings[t.index[id]].active
    <3>1. CASE id = s.next
      BY <1>2, <1>3, <1>4, <1>5, <1>9, <3>1
    <3>2. CASE id \in DOMAIN s.index /\ id # s.next
      <4>1. t.index[id] = s.index[id]
        BY <1>4, <3>2
      <4>2. s.index[id] \in DOMAIN s.bindings /\ s.bindings[s.index[id]].id = id
            /\ s.bindings[s.index[id]].active
        BY <1>1, <3>2 DEF Agrees
      <4>3. s.index[id] \in DOMAIN t.bindings /\ t.bindings[s.index[id]] = s.bindings[s.index[id]]
        BY <1>2, <1>5, <1>9, <4>2
      <4> QED BY <4>1, <4>2, <4>3
    <3> QED BY <1>9, <3>1, <3>2
  <2>2. ASSUME NEW p \in DOMAIN t.bindings, t.bindings[p].active
        PROVE  t.bindings[p].id \in DOMAIN t.index /\ t.index[t.bindings[p].id] = p
    <3>1. CASE p \in DOMAIN s.bindings /\ t.bindings[p] = s.bindings[p]
      <4>1. s.bindings[p].id \in DOMAIN s.index /\ s.index[s.bindings[p].id] = p
        BY <1>1, <2>2, <3>1 DEF Agrees
      <4> QED BY <1>4, <1>9, <1>11, <3>1, <4>1
    <3>2. CASE p = n + 1 /\ t.bindings[p] = b
      BY <1>3, <1>4, <1>9, <3>2
    <3> QED BY <1>10, <3>1, <3>2
  <2> QED BY <1>1, <1>4, <1>14, <2>1, <2>2 DEF Agrees
<1>16. Keeps(s, t)
  <2>1. t.next >= s.next
    BY <1>2, <1>4
  <2>2. \A id \in DOMAIN t.index : id \in DOMAIN s.index \/ id >= s.next
    BY <1>2, <1>9
  <2>3. Len(t.bindings) >= Len(s.bindings)
    BY <1>2, <1>5
  <2>4. \A p \in DOMAIN t.bindings :
          IF p \in DOMAIN s.bindings
          THEN (t.bindings[p].active => s.bindings[p].active)
               /\ s.bindings[p].id = t.bindings[p].id
          ELSE t.bindings[p].id >= s.next
    BY <1>2, <1>3, <1>10
  <2>5. \A id \in DOMAIN t.index : id \in DOMAIN s.index => t.index[id] = s.index[id]
    BY <1>4, <1>9, <1>12
  <2> QED BY <1>4, <2>1, <2>2, <2>3, <2>4, <2>5 DEF Keeps
<1>17. \A p \in DOMAIN s.bindings : p \in DOMAIN t.bindings /\ t.bindings[p] = s.bindings[p]
  BY <1>2, <1>5, <1>9
<1> QED BY <1>4, <1>5, <1>8, <1>9, <1>13, <1>15, <1>16, <1>17, SoundIs DEF t

LEMMA RebuildSound ==
  ASSUME NEW u \in SignalRecord, Numbered(u), u.inactive = 0,
         \A p \in DOMAIN u.bindings : u.bindings[p].active
  PROVE  LET t == RebuildIndex(u) IN
         /\ Sound(t)
         /\ t.bindings = u.bindings /\ t.next = u.next /\ t.depth = u.depth
         /\ \A id : id \in DOMAIN t.index <=>
                      \E p \in DOMAIN u.bindings : u.bindings[p].id = id
<1> DEFINE t == RebuildIndex(u)
           ix == [id \in ActiveIds(u) |-> PositionOf(u, id)]
<1>1. /\ u.bindings \in Seq(Binding) /\ Len(u.bindings) \in Nat
      /\ DOMAIN u.bindings = 1 .. Len(u.bindings)
      /\ \A p \in DOMAIN u.bindings : u.bindings[p].id \in Nat
      /\ \A p, q \in DOMAIN u.bindings : u.bindings[p].id = u.bindings[q].id => p = q
  BY BindingsTyped DEF Numbered
<1>2. \A id : id \in ActiveIds(u) <=> \E p \in DOMAIN u.bindings : u.bindings[p].id = id
  BY ActiveIdsAre
<1>3. ASSUME NEW id \in ActiveIds(u)
      PROVE  PositionOf(u, id) \in DOMAIN u.bindings /\ u.bindings[PositionOf(u, id)].id = id
  BY <1>2, Zenon DEF PositionOf
<1>4. ActiveIds(u) \in SUBSET Nat
  BY <1>1, <1>2
<1>5. ix \in [ActiveIds(u) -> Nat]
  BY <1>1, <1>3
<1>6. ix \in Indexes
  <2> HIDE DEF ix
  <2> QED BY <1>4, <1>5, InIndexes
<1>7. t = [u EXCEPT !.index = ix]
  BY DEF RebuildIndex
<1>8. DOMAIN ix = ActiveIds(u) /\ \A id \in ActiveIds(u) : ix[id] = PositionOf(u, id)
  OBVIOUS
<1> HIDE DEF ix, t
<1>9. /\ t \in SignalRecord /\ t.index = ix /\ t.bindings = u.bindings
      /\ t.next = u.next /\ t.depth = u.depth /\ t.inactive = u.inactive
  BY <1>6, <1>7 DEF SignalRecord
<1>10. Numbered(t)
  BY <1>9 DEF Numbered
<1>11. Marked(t) = {}
  BY <1>9 DEF Marked
<1>12. Agrees(t)
  <2>1. \A id \in DOMAIN t.index : /\ t.index[id] \in DOMAIN t.bindings
                                   /\ t.bindings[t.index[id]].id = id
                                   /\ t.bindings[t.index[id]].active
    BY <1>3, <1>8, <1>9
  <2>2. ASSUME NEW p \in DOMAIN t.bindings
        PROVE t.bindings[p].id \in DOMAIN t.index /\ t.index[t.bindings[p].id] = p
    <3>1. t.bindings[p].id \in ActiveIds(u)
      BY <1>2, <1>9
    <3> QED BY <1>1, <1>3, <1>8, <1>9, <3>1
  <2> QED BY <1>9, <1>11, <2>1, <2>2, FS_EmptySet DEF Agrees
<1>13. Sound(t)
  BY <1>9, <1>10, <1>12, SoundIs
<1> QED BY <1>2, <1>8, <1>9, <1>13 DEF t

LEMMA RemoveAtIs ==
  ASSUME NEW q \in Seq(Binding), NEW i \in 1 .. Len(q)
  PROVE  /\ RemoveAt(q, i) \in Seq(Binding)
         /\ Len(RemoveAt(q, i)) = Len(q) - 1
         /\ \A k \in 1 .. Len(q) - 1 :
              RemoveAt(q, i)[k] = IF k < i THEN q[k] ELSE q[k + 1]
<1> DEFINE a == SubSeq(q, 1, i - 1)
           b == SubSeq(q, i + 1, Len(q))
<1>1. Len(q) \in Nat /\ i \in Nat /\ 1 <= i /\ i <= Len(q)
  OBVIOUS
<1>2. /\ a \in Seq(Binding) /\ Len(a) = i - 1
      /\ \A k \in 1 .. i - 1 : a[k] = q[k]
  <2>1. \A k \in 1 .. i - 1 : q[k] \in Binding
    BY <1>1
  <2>2. 1 \in Int /\ i - 1 \in Int
    BY <1>1
  <2>3. /\ a \in Seq(Binding) /\ Len(a) = IF 1 <= i - 1 THEN (i - 1) - 1 + 1 ELSE 0
        /\ \A k \in 1 .. (i - 1) - 1 + 1 : a[k] = q[1 + k - 1]
    BY <2>1, <2>2, SubSeqProperties
  <2> QED BY <1>1, <2>3
<1>3. /\ b \in Seq(Binding) /\ Len(b) = Len(q) - i
      /\ \A k \in 1 .. Len(q) - i : b[k] = q[i + k]
  <2>1. \A k \in i + 1 .. Len(q) : q[k] \in Binding
    BY <1>1
  <2>2. i + 1 \in Int /\ Len(q) \in Int
    BY <1>1
  <2>3. /\ b \in Seq(Binding)
        /\ Len(b) = IF i + 1 <= Len(q) THEN Len(q) - (i + 1) + 1 ELSE 0
        /\ \A k \in 1 .. Len(q) - (i + 1) + 1 : b[k] = q[(i + 1) + k - 1]
    BY <2>1, <2>2, SubSeqProperties
  <2> QED BY <1>1, <2>3
<1> HIDE DEF a, b
<1>4. /\ a \o b \in Seq(Binding) /\ Len(a \o b) = Len(a) + Len(b)
      /\ \A k \in 1 .. Len(a) + Len(b) :
           (a \o b)[k] = IF k <= Len(a) THEN a[k] ELSE b[k - Len(a)]
  BY <1>2, <1>3, ConcatProperties
<1>5. ASSUME NEW k \in 1 .. Len(q) - 1
      PROVE  (a \o b)[k] = IF k < i THEN q[k] ELSE q[k + 1]
  <2>1. k \in 1 .. Len(a) + Len(b)
    BY <1>1, <1>2, <1>3
  <2>2. CASE k < i
    BY <1>1, <1>2, <1>4, <2>1, <2>2
  <2>3. CASE ~(k < i)
    <3>1. k - (i - 1) \in 1 .. Len(q) - i /\ i + (k - (i - 1)) = k + 1
      BY <1>1, <2>3
    <3>2. b[k - (i - 1)] = q[k + 1]
      BY <1>3, <3>1
    <3> QED BY <1>1, <1>2, <1>4, <2>1, <2>3, <3>2
  <2> QED BY <2>2, <2>3
<1>6. Len(a \o b) = Len(q) - 1
  BY <1>1, <1>2, <1>3, <1>4
<1>7. RemoveAt(q, i) = a \o b
  BY DEF RemoveAt, a, b
<1> QED BY <1>4, <1>5, <1>6, <1>7

LEMMA EnterSound ==
  ASSUME NEW s, Sound(s)
  PROVE  LET t == EnterEmit(s) IN
         /\ Sound(t) /\ t.depth = s.depth + 1
         /\ t.bindings = s.bindings /\ t.next = s.next /\ t.index = s.index
<1> DEFINE t == EnterEmit(s)
<1>1. s \in SignalRecord /\ Numbered(s) /\ Agrees(s)
  BY SoundIs
<1>2. s \in SignalRecord
  BY <1>1
<1>3. /\ t \in SignalRecord /\ t.depth = s.depth + 1 /\ t.bindings = s.bindings
      /\ t.next = s.next /\ t.index = s.index /\ t.inactive = s.inactive
  BY <1>2 DEF EnterEmit, SignalRecord
<1>4. s.depth \in Nat
  BY <1>2 DEF SignalRecord
<1> HIDE DEF t
<1>5. Marked(t) = Marked(s)
  BY <1>3 DEF Marked
<1>6. Agrees(t)
  BY <1>1, <1>3, <1>4, <1>5 DEF Agrees
<1>7. Numbered(t)
  BY <1>1, <1>3 DEF Numbered
<1>8. Sound(t)
  BY <1>3, <1>6, <1>7, SoundIs
<1> QED BY <1>3, <1>8 DEF t

\* The outermost emission leaves the bindings that are active; an inner one
\* leaves them all.
LEMMA LeaveSound ==
  ASSUME NEW s, Sound(s), s.depth > 0
  PROVE  LET t == LeaveEmit(s) IN
         /\ Sound(t) /\ t.depth = s.depth - 1 /\ t.next = s.next
         /\ DOMAIN t.index = DOMAIN s.index
         /\ t.depth > 0 => t.bindings = s.bindings /\ t.index = s.index
         /\ SourceFirst(s) => SourceFirst(t)
<1> DEFINE t == LeaveEmit(s)
           left == [s EXCEPT !.depth = @ - 1]
<1>1. s \in SignalRecord /\ Numbered(s) /\ Agrees(s)
  BY SoundIs
<1>2. s \in SignalRecord
  BY <1>1
<1>3. s.depth \in Nat /\ s.depth - 1 \in Nat
  BY <1>2 DEF SignalRecord
<1>4. /\ left \in SignalRecord /\ left.depth = s.depth - 1 /\ left.bindings = s.bindings
      /\ left.next = s.next /\ left.index = s.index /\ left.inactive = s.inactive
  BY <1>2, <1>3 DEF SignalRecord
<1>5. Marked(left) = Marked(s)
  BY <1>4 DEF Marked
<1>6. Numbered(left)
  BY <1>1, <1>4 DEF Numbered
<1>7. t = IF left.depth > 0 \/ s.inactive = 0 THEN left
          ELSE RebuildIndex([left EXCEPT !.bindings = Retained(@), !.inactive = 0])
  BY Zenon DEF LeaveEmit
<1> HIDE DEF left, t
<1>8. CASE left.depth > 0 \/ s.inactive = 0
  <2>1. t = left
    BY <1>7, <1>8
  <2>2. Agrees(t)
    BY <1>1, <1>4, <1>5, <1>8, <2>1 DEF Agrees
  <2>3. Sound(t)
    BY <1>4, <1>6, <2>1, <2>2, SoundIs
  <2>4. SourceFirst(s) => SourceFirst(t)
    BY <1>4, <2>1 DEF SourceFirst
  <2> QED BY <1>4, <2>1, <2>3, <2>4 DEF t
<1>9. CASE ~(left.depth > 0 \/ s.inactive = 0)
  <2> DEFINE r == Retained(s.bindings)
             u == [left EXCEPT !.bindings = r, !.inactive = 0]
  <2>1. /\ s.bindings \in Seq(Binding) /\ Len(s.bindings) \in Nat
        /\ DOMAIN s.bindings = 1 .. Len(s.bindings)
        /\ \A p, q \in DOMAIN s.bindings : s.bindings[p].id = s.bindings[q].id => p = q
    BY <1>1, BindingsTyped DEF Numbered
  <2>2. Collected(s.bindings, Len(s.bindings), r)
    BY <2>1, RetainedActive
  <2> HIDE DEF r
  <2>3. r \in Seq(Binding)
    BY <2>2 DEF Collected
  <2>4. /\ u \in SignalRecord /\ u.depth = s.depth - 1 /\ u.bindings = r
        /\ u.next = s.next /\ u.inactive = 0
    BY <1>4, <2>3 DEF SignalRecord
  <2>5. t = RebuildIndex(u)
    BY <1>4, <1>7, <1>9 DEF r
  <2> HIDE DEF u
  <2>6. ASSUME NEW k \in DOMAIN r
        PROVE  \E p \in DOMAIN s.bindings : s.bindings[p].active /\ r[k] = s.bindings[p]
    BY <2>1, <2>2 DEF Collected
  <2>7. \A p \in DOMAIN u.bindings : u.bindings[p].active
    BY <2>4, <2>6
  <2>8. Numbered(u)
    <3>1. u.next > 0
      BY <1>1, <2>4 DEF Numbered
    <3>2. \A k \in DOMAIN r : r[k].id > 0 /\ r[k].id < s.next
      BY <1>1, <2>6 DEF Numbered
    <3>3. \A k, l \in DOMAIN r : r[k].id = r[l].id => k = l
      BY <2>2 DEF Collected
    <3> QED BY <2>4, <3>1, <3>2, <3>3 DEF Numbered
  <2>9. /\ Sound(t) /\ t.bindings = r /\ t.next = s.next /\ t.depth = s.depth - 1
        /\ \A id : id \in DOMAIN t.index <=> \E k \in DOMAIN r : r[k].id = id
    BY <2>4, <2>5, <2>7, <2>8, RebuildSound
  <2>10. ASSUME NEW id \in DOMAIN t.index PROVE id \in DOMAIN s.index
    <3>1. PICK k \in DOMAIN r : r[k].id = id
      BY <2>9
    <3>2. PICK p \in DOMAIN s.bindings : s.bindings[p].active /\ r[k] = s.bindings[p]
      BY <2>6
    <3> QED BY <1>1, <3>1, <3>2 DEF Agrees
  <2>11. ASSUME NEW id \in DOMAIN s.index PROVE id \in DOMAIN t.index
    <3>1. /\ s.index[id] \in DOMAIN s.bindings /\ s.bindings[s.index[id]].id = id
          /\ s.bindings[s.index[id]].active
      BY <1>1 DEF Agrees
    <3>2. PICK k \in DOMAIN r : r[k] = s.bindings[s.index[id]]
      BY <2>1, <2>2, <3>1 DEF Collected
    <3> QED BY <2>9, <3>1, <3>2
  <2>12. DOMAIN t.index = DOMAIN s.index
    BY <2>10, <2>11
  <2>13. SourceFirst(s) => SourceFirst(t)
    <3> SUFFICES ASSUME SourceFirst(s) PROVE SourceFirst(t)
      OBVIOUS
    <3>1. 1 \in DOMAIN s.bindings /\ s.bindings[1] = [id |-> Source, active |-> TRUE]
      BY DEF SourceFirst
    <3>2. Len(s.bindings) > 0 /\ s.bindings[1].active
      BY <2>1, <3>1
    <3>3. 1 \in DOMAIN r /\ r[1] = s.bindings[1]
      BY <2>2, <3>2 DEF Collected
    <3> QED BY <2>9, <3>1, <3>3 DEF SourceFirst
  <2>14. ~(t.depth > 0)
    BY <1>4, <1>9, <2>9
  <2> QED BY <2>9, <2>12, <2>13, <2>14 DEF t
<1> QED BY <1>8, <1>9

\* A call that changes the bindings keeps the emissions that run.
LEMMA KeepsSelf ==
  ASSUME NEW s, Sound(s)
  PROVE  Keeps(s, s)
<1>1. s \in SignalRecord
  BY SoundIs
<1>2. s.next \in Nat /\ Len(s.bindings) \in Nat
  BY <1>1, BindingsTyped DEF SignalRecord
<1> QED BY <1>2 DEF Keeps

LEMMA UnsubscribeSound ==
  ASSUME NEW s, Sound(s), NEW id
  PROVE  LET t == Unsubscribe(s, id) IN
         /\ Sound(t) /\ Keeps(s, t) /\ t.next = s.next
         /\ SourceFirst(s) /\ id # Source => SourceFirst(t)
<1> DEFINE t == Unsubscribe(s, id)
           left == [s EXCEPT !.index = [k \in DOMAIN s.index \ {id} |-> s.index[k]]]
           pos == s.index[id]
<1>1. s \in SignalRecord /\ Numbered(s) /\ Agrees(s)
  BY SoundIs
<1>2. s \in SignalRecord
  BY <1>1
<1>3. /\ s.bindings \in Seq(Binding) /\ Len(s.bindings) \in Nat
      /\ DOMAIN s.bindings = 1 .. Len(s.bindings)
      /\ \A p \in DOMAIN s.bindings : s.bindings[p] \in Binding
      /\ \A p, q \in DOMAIN s.bindings : s.bindings[p].id = s.bindings[q].id => p = q
      /\ DOMAIN s.index \in SUBSET Nat /\ s.index \in [DOMAIN s.index -> Nat]
  BY <1>2, <1>1, BindingsTyped, IndexTyped DEF Numbered
<1>4. s.next \in Nat /\ s.depth \in Nat /\ s.inactive \in Nat
  BY <1>2 DEF SignalRecord
<1>5. CASE id \notin DOMAIN s.index
  <2>1. t = s
    BY <1>5 DEF Unsubscribe, HasListener
  <2> QED BY <2>1, KeepsSelf
<1>6. ASSUME id \in DOMAIN s.index
      PROVE  /\ pos \in 1 .. Len(s.bindings) /\ pos \in DOMAIN s.bindings
             /\ s.bindings[pos].id = id /\ s.bindings[pos].active
  BY <1>1, <1>3, <1>6 DEF Agrees
<1>7. /\ left \in SignalRecord /\ left.bindings = s.bindings /\ left.next = s.next
      /\ left.depth = s.depth /\ left.inactive = s.inactive
      /\ DOMAIN left.index = DOMAIN s.index \ {id}
      /\ \A k \in DOMAIN left.index : left.index[k] = s.index[k]
  <2> DEFINE ix == [k \in DOMAIN s.index \ {id} |-> s.index[k]]
  <2>1. ix \in [DOMAIN s.index \ {id} -> Nat] /\ DOMAIN s.index \ {id} \in SUBSET Nat
    BY <1>3
  <2>2. ix \in Indexes
    <3> HIDE DEF ix
    <3> QED BY <2>1, InIndexes
  <2>3. DOMAIN ix = DOMAIN s.index \ {id} /\ \A k \in DOMAIN ix : ix[k] = s.index[k]
    OBVIOUS
  <2>4. left = [s EXCEPT !.index = ix]
    OBVIOUS
  <2> HIDE DEF ix, left
  <2> QED BY <1>2, <2>2, <2>3, <2>4 DEF SignalRecord
<1>8. CASE id \in DOMAIN s.index /\ s.depth > 0
  <2> DEFINE bs == [s.bindings EXCEPT ![pos].active = FALSE]
  <2>1. t = [left EXCEPT !.bindings = bs, !.inactive = s.inactive + 1]
    <3>1. t = [left EXCEPT !.bindings[s.index[id]].active = FALSE, !.inactive = @ + 1]
      BY <1>8 DEF Unsubscribe, HasListener
    <3> HIDE DEF t
    <3>2. left.bindings = s.bindings /\ left.inactive = s.inactive
      BY <1>7
    <3> HIDE DEF left
    <3> QED BY <3>1, <3>2
  <2> HIDE DEF t, left
  <2>2. /\ bs \in Seq(Binding) /\ Len(bs) = Len(s.bindings)
        /\ \A p \in 1 .. Len(s.bindings) : p # pos => bs[p] = s.bindings[p]
        /\ bs[pos].id = id /\ bs[pos].active = FALSE
    <3>1. [s.bindings[pos] EXCEPT !.active = FALSE] \in Binding
      BY <1>3, <1>6, <1>8 DEF Binding
    <3>2. /\ [s.bindings[pos] EXCEPT !.active = FALSE].id = id
          /\ [s.bindings[pos] EXCEPT !.active = FALSE].active = FALSE
      BY <1>3, <1>6, <1>8 DEF Binding
    <3> DEFINE e == [s.bindings[pos] EXCEPT !.active = FALSE]
    <3>3. bs = [s.bindings EXCEPT ![pos] = e]
      OBVIOUS
    <3> HIDE DEF e, bs
    <3>4. pos \in 1 .. Len(s.bindings) /\ e \in Binding
      BY <1>6, <1>8, <3>1 DEF e
    <3> HIDE DEF pos
    <3>5. /\ bs \in Seq(Binding) /\ Len(bs) = Len(s.bindings)
          /\ \A j \in 1 .. Len(s.bindings) : bs[j] = IF j = pos THEN e ELSE s.bindings[j]
      BY <1>3, <3>3, <3>4, ExceptSeq
    <3> QED BY <3>2, <3>4, <3>5 DEF e
  <2> HIDE DEF bs
  <2>3. /\ t \in SignalRecord /\ t.bindings = bs /\ t.next = s.next /\ t.depth = s.depth
        /\ t.inactive = s.inactive + 1 /\ t.index = left.index
    <3>1. left \in SignalRecord
      BY <1>7
    <3>2. s.inactive + 1 \in Nat
      BY <1>4
    <3>3. bs \in Seq(Binding)
      BY <2>2
    <3>4. t \in SignalRecord
      BY <2>1, <3>1, <3>2, <3>3 DEF SignalRecord
    <3> QED BY <1>7, <2>1, <3>1, <3>4 DEF SignalRecord
  <2>4. pos \in DOMAIN s.bindings /\ s.bindings[pos].id = id /\ s.bindings[pos].active
    BY <1>6, <1>8
  <2> HIDE DEF pos
  <2>5. /\ DOMAIN t.bindings = DOMAIN s.bindings
        /\ \A p \in DOMAIN s.bindings : t.bindings[p].id = s.bindings[p].id
        /\ \A p \in DOMAIN s.bindings : p # pos => t.bindings[p] = s.bindings[p]
        /\ ~t.bindings[pos].active
    BY <1>3, <2>2, <2>3, <2>4
  <2>6. Numbered(t)
    BY <1>1, <2>3, <2>5 DEF Numbered
  <2>7. Marked(t) = Marked(s) \cup {pos} /\ pos \notin Marked(s)
    BY <2>4, <2>5 DEF Marked
  <2>8. Cardinality(Marked(t)) = t.inactive
    <3>1. IsFiniteSet(Marked(s))
      BY <1>2, MarkedFinite
    <3>2. Cardinality(Marked(s) \cup {pos})
            = IF pos \in Marked(s) THEN Cardinality(Marked(s)) ELSE Cardinality(Marked(s)) + 1
      BY <3>1, FS_AddElement
    <3>3. Cardinality(Marked(t)) = Cardinality(Marked(s)) + 1
      BY <2>7, <3>2
    <3> QED BY <1>1, <2>3, <3>3 DEF Agrees
  <2>9. Agrees(t)
    <3>1. \A k \in DOMAIN t.index : /\ t.index[k] \in DOMAIN t.bindings
                                    /\ t.bindings[t.index[k]].id = k
                                    /\ t.bindings[t.index[k]].active
      <4> SUFFICES ASSUME NEW k \in DOMAIN t.index
                   PROVE  /\ t.index[k] \in DOMAIN t.bindings
                          /\ t.bindings[t.index[k]].id = k
                          /\ t.bindings[t.index[k]].active
        OBVIOUS
      <4>1. k \in DOMAIN s.index /\ k # id /\ t.index[k] = s.index[k]
        BY <1>7, <2>3
      <4>2. /\ s.index[k] \in DOMAIN s.bindings /\ s.bindings[s.index[k]].id = k
            /\ s.bindings[s.index[k]].active
        BY <1>1, <4>1 DEF Agrees
      <4>3. s.index[k] # pos
        BY <2>4, <4>1, <4>2
      <4> QED BY <2>5, <4>1, <4>2, <4>3
    <3>2. ASSUME NEW p \in DOMAIN t.bindings, t.bindings[p].active
          PROVE  t.bindings[p].id \in DOMAIN t.index /\ t.index[t.bindings[p].id] = p
      <4>1. p # pos /\ p \in DOMAIN s.bindings /\ t.bindings[p] = s.bindings[p]
        BY <2>5, <3>2
      <4>2. s.bindings[p].id # id
        BY <1>3, <2>4, <4>1
      <4>3. s.bindings[p].id \in DOMAIN s.index /\ s.index[s.bindings[p].id] = p
        BY <1>1, <3>2, <4>1 DEF Agrees
      <4> QED BY <1>7, <2>3, <4>1, <4>2, <4>3
    <3> QED BY <1>8, <2>3, <2>8, <3>1, <3>2 DEF Agrees
  <2>10. Sound(t)
    BY <2>3, <2>6, <2>9, SoundIs
  <2>11. Keeps(s, t)
    <3>1. t.next >= s.next /\ Len(t.bindings) >= Len(s.bindings)
      BY <1>3, <1>4, <2>2, <2>3
    <3>2. \A k \in DOMAIN t.index : k \in DOMAIN s.index /\ t.index[k] = s.index[k]
      BY <1>7, <2>3
    <3>3. \A p \in DOMAIN t.bindings :
            t.bindings[p].active => /\ p \in DOMAIN s.bindings /\ s.bindings[p].active
                                    /\ s.bindings[p].id = t.bindings[p].id
      BY <2>4, <2>5
    <3> QED BY <2>3, <3>1, <3>2, <3>3 DEF Keeps
  <2>12. SourceFirst(s) /\ id # Source => SourceFirst(t)
    <3> SUFFICES ASSUME SourceFirst(s), id # Source PROVE SourceFirst(t)
      OBVIOUS
    <3>1. pos # 1 /\ 1 \in DOMAIN s.bindings
      BY <2>4 DEF SourceFirst
    <3> QED BY <2>5, <3>1 DEF SourceFirst
  <2> QED BY <2>3, <2>10, <2>11, <2>12 DEF t
<1>9. CASE id \in DOMAIN s.index /\ ~(s.depth > 0)
  <2> DEFINE r == RemoveAt(s.bindings, pos)
             u == [left EXCEPT !.bindings = r]
  <2>1. t = RebuildIndex(u)
    <3>1. t = RebuildIndex([left EXCEPT !.bindings = RemoveAt(@, s.index[id])])
      BY <1>9 DEF Unsubscribe, HasListener
    <3>2. left.bindings = s.bindings
      BY <1>7
    <3> HIDE DEF t, left
    <3> QED BY <3>1, <3>2
  <2>2. pos \in 1 .. Len(s.bindings) /\ s.bindings[pos].id = id /\ pos \in Nat
    BY <1>6, <1>9
  <2> HIDE DEF t, left, pos
  <2>3. /\ r \in Seq(Binding) /\ Len(r) = Len(s.bindings) - 1
        /\ \A k \in 1 .. Len(s.bindings) - 1 :
             r[k] = IF k < pos THEN s.bindings[k] ELSE s.bindings[k + 1]
    BY <1>3, <2>2, RemoveAtIs
  <2>4. DOMAIN r = 1 .. Len(s.bindings) - 1
    BY <1>3, <2>3
  <2> HIDE DEF r
  <2>5. /\ u \in SignalRecord /\ u.bindings = r /\ u.next = s.next /\ u.depth = s.depth
        /\ u.inactive = s.inactive
    <3>1. left \in SignalRecord
      BY <1>7
    <3>2. r \in Seq(Binding)
      BY <2>3
    <3>3. u \in SignalRecord
      BY <3>1, <3>2 DEF SignalRecord
    <3> QED BY <1>7, <3>1, <3>3 DEF SignalRecord
  <2> HIDE DEF u
  <2>6. s.inactive = 0 /\ Marked(s) = {}
    <3>1. s.depth = 0
      BY <1>4, <1>9
    <3>2. s.inactive = 0 /\ Cardinality(Marked(s)) = 0
      BY <1>1, <3>1 DEF Agrees
    <3> QED BY <1>2, <3>2, MarkedFinite, FS_EmptySet
  <2>7. \A p \in DOMAIN s.bindings : s.bindings[p].active
    BY <2>6 DEF Marked
  <2>8. ASSUME NEW k \in DOMAIN r
        PROVE  \/ k < pos /\ k \in DOMAIN s.bindings /\ r[k] = s.bindings[k]
               \/ k >= pos /\ k + 1 \in DOMAIN s.bindings /\ r[k] = s.bindings[k + 1]
    <3>1. k \in 1 .. Len(s.bindings) - 1
      BY <2>4
    <3> QED BY <1>3, <2>2, <2>3, <3>1
  <2>9. \A k \in DOMAIN r : \E p \in DOMAIN s.bindings : r[k] = s.bindings[p]
    BY <2>8
  <2>10. \A p \in DOMAIN u.bindings : u.bindings[p].active
    BY <2>5, <2>7, <2>9
  <2>11. Numbered(u)
    <3>1. u.next > 0
      BY <1>1, <2>5 DEF Numbered
    <3>2. \A k \in DOMAIN r : r[k].id > 0 /\ r[k].id < s.next
      BY <1>1, <2>9 DEF Numbered
    <3>3. ASSUME NEW k \in DOMAIN r, NEW l \in DOMAIN r, r[k].id = r[l].id PROVE k = l
      <4>1. k \in Nat /\ l \in Nat
        BY <2>4
      <4>2. CASE k < pos /\ l < pos
        BY <1>3, <2>2, <2>8, <3>3, <4>1, <4>2
      <4>3. CASE k >= pos /\ l >= pos
        <5>1. k + 1 = l + 1
          BY <1>3, <2>2, <2>8, <3>3, <4>1, <4>3
        <5> QED BY <4>1, <5>1
      <4>4. CASE k < pos /\ l >= pos
        <5>1. k = l + 1
          BY <1>3, <2>2, <2>8, <3>3, <4>1, <4>4
        <5> QED BY <2>2, <4>1, <4>4, <5>1
      <4>5. CASE k >= pos /\ l < pos
        <5>1. k + 1 = l
          BY <1>3, <2>2, <2>8, <3>3, <4>1, <4>5
        <5> QED BY <2>2, <4>1, <4>5, <5>1
      <4> QED BY <2>2, <4>1, <4>2, <4>3, <4>4, <4>5
    <3> QED BY <2>5, <3>1, <3>2, <3>3 DEF Numbered
  <2>12. /\ Sound(t) /\ t.bindings = r /\ t.next = s.next /\ t.depth = s.depth
         /\ \A k : k \in DOMAIN t.index <=> \E p \in DOMAIN r : r[p].id = k
    BY <2>1, <2>5, <2>6, <2>10, <2>11, RebuildSound
  <2>13. Keeps(s, t)
    <3>1. t.next >= s.next
      BY <1>4, <2>12
    <3>2. \A k \in DOMAIN t.index : k \in DOMAIN s.index
      <4> SUFFICES ASSUME NEW k \in DOMAIN t.index PROVE k \in DOMAIN s.index
        OBVIOUS
      <4>1. PICK p \in DOMAIN s.bindings : s.bindings[p].id = k
        BY <2>9, <2>12
      <4> QED BY <1>1, <2>7, <4>1 DEF Agrees
    <3> QED BY <1>9, <2>12, <3>1, <3>2 DEF Keeps
  <2>14. SourceFirst(s) /\ id # Source => SourceFirst(t)
    <3> SUFFICES ASSUME SourceFirst(s), id # Source PROVE SourceFirst(t)
      OBVIOUS
    <3>1. 1 \in DOMAIN s.bindings /\ s.bindings[1] = [id |-> Source, active |-> TRUE]
          /\ s.bindings[1].id = Source
      BY DEF SourceFirst
    <3>2. 1 < pos
      BY <2>2, <3>1
    <3>3. 1 \in DOMAIN r
      BY <1>3, <2>2, <2>4, <3>2
    <3>4. r[1] = s.bindings[1]
      BY <2>2, <2>8, <3>2, <3>3
    <3> QED BY <2>12, <3>1, <3>3, <3>4 DEF SourceFirst
  <2> QED BY <2>12, <2>13, <2>14 DEF t
<1> QED BY <1>5, <1>8, <1>9

LEMMA ClearSound ==
  ASSUME NEW s, Sound(s)
  PROVE  Sound(Clear(s)) /\ Keeps(s, Clear(s)) /\ Clear(s).next = s.next
<1> DEFINE t == Clear(s)
           n == Len(s.bindings)
           marked == [p \in DOMAIN s.bindings |-> [s.bindings[p] EXCEPT !.active = FALSE]]
           Live == {p \in DOMAIN s.bindings : s.bindings[p].active}
           bs == IF s.depth = 0 THEN <<>> ELSE marked
           c  == IF s.depth = 0 THEN 0 ELSE s.inactive + Cardinality(Live)
<1>1. s \in SignalRecord /\ Numbered(s) /\ Agrees(s)
  BY SoundIs
<1>2. s \in SignalRecord
  BY <1>1
<1>3. /\ s.bindings \in Seq(Binding) /\ n \in Nat /\ DOMAIN s.bindings = 1 .. n
      /\ \A p \in DOMAIN s.bindings : s.bindings[p] \in Binding
  BY <1>2, BindingsTyped
<1>4. s.next \in Nat /\ s.depth \in Nat /\ s.inactive \in Nat
  BY <1>2 DEF SignalRecord
<1>5. <<>> \in Seq(Binding) /\ <<>> \in Indexes /\ DOMAIN <<>> = {}
  <2>1. <<>> \in [{} -> Nat] /\ DOMAIN <<>> = {}
    OBVIOUS
  <2> QED BY <2>1, EmptySeq, InIndexes
<1>6. /\ IsFiniteSet(Live) /\ Cardinality(Live) \in Nat
      /\ Cardinality(Marked(s)) + Cardinality(Live) = n
  <2>1. IsFiniteSet(1 .. n) /\ Cardinality(1 .. n) = n
    BY <1>3, FS_Interval
  <2>2. Live \in SUBSET (1 .. n)
    BY <1>3
  <2>3. IsFiniteSet(Live)
    <3> HIDE DEF Live
    <3> QED BY <2>1, <2>2, FS_Subset
  <2>4. IsFiniteSet(Marked(s))
    BY <1>2, MarkedFinite
  <2>5. Marked(s) \cup Live = 1 .. n /\ Marked(s) \cap Live = {}
    BY <1>3 DEF Marked
  <2> HIDE DEF Live
  <2>6. Cardinality(Marked(s) \cup Live)
          = Cardinality(Marked(s)) + Cardinality(Live) - Cardinality(Marked(s) \cap Live)
    BY <2>3, <2>4, FS_Union
  <2>7. Cardinality(Marked(s)) \in Nat
    BY <2>4, FS_CardinalityType
  <2>8. Cardinality(Live) \in Nat
    BY <2>3, FS_CardinalityType
  <2>9. n = Cardinality(Marked(s)) + Cardinality(Live) - 0
    BY <2>1, <2>5, <2>6, FS_EmptySet
  <2>10. Cardinality(Marked(s)) + Cardinality(Live) = n
    <3> HIDE DEF n
    <3> QED BY <2>7, <2>8, <2>9
  <2> QED BY <2>3, <2>8, <2>10
<1>7. /\ marked \in Seq(Binding) /\ Len(marked) = n /\ DOMAIN marked = 1 .. n
      /\ \A p \in 1 .. n : marked[p].id = s.bindings[p].id /\ ~marked[p].active
  <2>1. ASSUME NEW p \in 1 .. n
        PROVE  /\ [s.bindings[p] EXCEPT !.active = FALSE] \in Binding
               /\ [s.bindings[p] EXCEPT !.active = FALSE].id = s.bindings[p].id
               /\ ~[s.bindings[p] EXCEPT !.active = FALSE].active
    BY <1>3 DEF Binding
  <2>2. marked \in [1 .. n -> Binding]
    BY <1>3, <2>1
  <2>3. marked \in Seq(Binding) /\ Len(marked) = n
    BY <1>3, <2>2
  <2> QED BY <1>3, <2>1, <2>3
<1>8. t = [s EXCEPT !.index = <<>>, !.bindings = bs, !.inactive = c]
  BY DEF Clear
<1>9. bs \in Seq(Binding) /\ c \in Nat
  BY <1>4, <1>5, <1>6, <1>7
<1>10. s.depth # 0 => c = n
  BY <1>1, <1>3, <1>4, <1>6 DEF Agrees
<1>11. /\ s.depth = 0 => bs = <<>> /\ c = 0
       /\ s.depth # 0 => bs = marked
  OBVIOUS
<1> HIDE DEF bs, c, marked, t
<1>12. /\ t \in SignalRecord /\ t.bindings = bs /\ t.index = <<>> /\ t.inactive = c
       /\ t.next = s.next /\ t.depth = s.depth
  <2>1. bs \in Seq(Binding)
    BY <1>9
  <2>2. c \in Nat
    BY <1>9
  <2>3. <<>> \in Indexes
    BY <1>5
  <2>4. t \in SignalRecord
    BY <1>2, <1>8, <2>1, <2>2, <2>3 DEF SignalRecord
  <2> QED BY <1>2, <1>8, <2>4 DEF SignalRecord
<1>13. ASSUME NEW p \in DOMAIN t.bindings
       PROVE  /\ s.depth # 0 /\ p \in DOMAIN s.bindings
              /\ t.bindings[p].id = s.bindings[p].id /\ ~t.bindings[p].active
  BY <1>3, <1>5, <1>7, <1>11, <1>12
<1>14. Numbered(t)
  BY <1>1, <1>12, <1>13 DEF Numbered
<1>15. Marked(t) = DOMAIN t.bindings
  BY <1>13 DEF Marked
<1>16. Cardinality(Marked(t)) = c
  <2>1. CASE s.depth = 0
    BY <1>5, <1>11, <1>12, <1>15, <2>1, FS_EmptySet
  <2>2. CASE s.depth # 0
    <3>1. Marked(t) = 1 .. n
      BY <1>7, <1>11, <1>12, <1>15, <2>2
    <3>2. Cardinality(1 .. n) = n
      BY <1>3, FS_Interval
    <3> QED BY <1>10, <2>2, <3>1, <3>2
  <2> QED BY <2>1, <2>2
<1>17. Agrees(t)
  BY <1>5, <1>11, <1>12, <1>13, <1>16 DEF Agrees
<1>18. Keeps(s, t)
  <2>1. t.next >= s.next
    BY <1>4, <1>12
  <2>2. s.depth > 0 => Len(t.bindings) >= Len(s.bindings)
    BY <1>3, <1>4, <1>7, <1>11, <1>12
  <2> QED BY <1>5, <1>12, <1>13, <2>1, <2>2 DEF Keeps
<1> QED BY <1>12, <1>14, <1>17, <1>18, SoundIs DEF t

-----------------------------------------------------------------------------
\* The stack of calls.
LEMMA Pushed ==
  ASSUME NEW x \in Frame, NEW s \in Seq(Frame)
  PROVE  LET t == <<x>> \o s IN
         /\ t \in Seq(Frame) /\ t # <<>> /\ Len(t) = Len(s) + 1 /\ Len(s) \in Nat
         /\ Head(t) = x /\ Tail(t) = s /\ t[1] = x
         /\ DOMAIN t = 1 .. Len(s) + 1 /\ DOMAIN s = 1 .. Len(s)
         /\ \A i \in DOMAIN s : i + 1 \in DOMAIN t /\ t[i + 1] = s[i]
<1> DEFINE t == <<x>> \o s
<1>1. <<x>> \in Seq(Frame) /\ Len(<<x>>) = 1 /\ <<x>>[1] = x
  OBVIOUS
<1>2. Len(s) \in Nat /\ DOMAIN s = 1 .. Len(s)
  OBVIOUS
<1>3. /\ t \in Seq(Frame) /\ Len(t) = 1 + Len(s)
      /\ \A i \in 1 .. 1 + Len(s) : t[i] = IF i <= 1 THEN <<x>>[i] ELSE s[i - 1]
  BY <1>1, ConcatProperties
<1> HIDE DEF t
<1>4. t # <<>> /\ t[1] = x /\ DOMAIN t = 1 .. Len(s) + 1
  BY <1>1, <1>2, <1>3
<1>5. Head(t) = x
  BY <1>3, <1>4
<1>6. ASSUME NEW i \in DOMAIN s PROVE i + 1 \in DOMAIN t /\ t[i + 1] = s[i]
  <2>1. i + 1 \in 1 .. 1 + Len(s) /\ ~(i + 1 <= 1) /\ (i + 1) - 1 = i
    BY <1>2
  <2>2. t[i + 1] = s[(i + 1) - 1]
    BY <1>3, <2>1
  <2> QED BY <1>4, <2>1, <2>2
<1>7. Tail(t) = s
  <2>1. /\ Tail(t) \in Seq(Frame) /\ Len(Tail(t)) = Len(t) - 1
        /\ \A i \in 1 .. Len(Tail(t)) : Tail(t)[i] = t[i + 1]
    BY <1>3, <1>4, HeadTailProperties
  <2>2. Len(Tail(t)) = Len(s)
    BY <1>2, <1>3, <2>1
  <2>3. \A i \in 1 .. Len(s) : Tail(t)[i] = s[i]
    BY <1>2, <1>6, <2>1, <2>2
  <2> QED BY <2>1, <2>2, <2>3, SeqEqual
<1> QED BY <1>2, <1>3, <1>4, <1>5, <1>6, <1>7 DEF t

LEMMA Popped ==
  ASSUME NEW s \in Seq(Frame), s # <<>>
  PROVE  /\ Head(s) \in Frame /\ Tail(s) \in Seq(Frame) /\ s = <<Head(s)>> \o Tail(s)
         /\ Head(s) = s[1] /\ 1 \in DOMAIN s
<1>1. /\ Head(s) \in Frame /\ Tail(s) \in Seq(Frame) /\ Len(Tail(s)) = Len(s) - 1
      /\ \A i \in 1 .. Len(Tail(s)) : Tail(s)[i] = s[i + 1]
  BY HeadTailProperties
<1>2. Len(s) \in Nat /\ Len(s) # 0 /\ DOMAIN s = 1 .. Len(s) /\ Head(s) = s[1]
  BY EmptySeq
<1> DEFINE x == Head(s)
           r == Tail(s)
           t == <<x>> \o r
<1>3. /\ t \in Seq(Frame) /\ Len(t) = Len(r) + 1 /\ t[1] = x
      /\ DOMAIN r = 1 .. Len(r)
      /\ \A i \in DOMAIN r : t[i + 1] = r[i]
  <2> HIDE DEF x, r
  <2>1. x \in Frame /\ r \in Seq(Frame)
    BY <1>1 DEF x, r
  <2> QED BY <2>1, Pushed
<1> HIDE DEF t
<1>4. Len(t) = Len(s)
  BY <1>1, <1>2, <1>3
<1>5. ASSUME NEW i \in 1 .. Len(s) PROVE s[i] = t[i]
  <2>1. CASE i = 1
    BY <1>2, <1>3, <2>1
  <2>2. CASE i # 1
    <3>1. i - 1 \in 1 .. Len(r) /\ (i - 1) + 1 = i
      BY <1>1, <1>2, <2>2
    <3>2. r[i - 1] = s[i] /\ t[(i - 1) + 1] = r[i - 1]
      BY <1>1, <1>3, <3>1
    <3> QED BY <3>1, <3>2
  <2> QED BY <2>1, <2>2
<1>6. s = t
  BY <1>3, <1>4, <1>5, SeqEqual
<1>7. 1 \in DOMAIN s
  BY <1>2
<1> QED BY <1>1, <1>2, <1>6, <1>7 DEF t

LEMMA NoCalls ==
  /\ Ordered(<<>>) /\ ~Drains(<<>>) /\ ~Starts(<<>>) /\ Bodies(<<>>) = 0
  /\ \A sig : Many(<<>>, sig) = 0 /\ Emissions(<<>>, sig) = {}
<1>1. DOMAIN <<>> = {}
  OBVIOUS
<1>2. \A sig : {i \in DOMAIN <<>> : Emits(<<>>[i], sig)} = {}
  BY <1>1
<1>3. {i \in DOMAIN <<>> : <<>>[i].at = "body"} = {}
  BY <1>1
<1>4. Ordered(<<>>) /\ ~Drains(<<>>) /\ ~Starts(<<>>)
  BY <1>1 DEF Ordered, Drains, Starts
<1>5. Bodies(<<>>) = 0
  BY <1>3, FS_EmptySet DEF Bodies
<1>6. \A sig : Many(<<>>, sig) = 0
  BY <1>2, FS_EmptySet DEF Many
<1>7. \A sig : Emissions(<<>>, sig) = {}
  BY <1>2 DEF Emissions
<1> QED BY <1>4, <1>5, <1>6, <1>7

LEMMA ShiftCount ==
  ASSUME NEW K \in SUBSET Nat, IsFiniteSet(K)
  PROVE  LET M == {i + 1 : i \in K} IN
         /\ IsFiniteSet(M) /\ Cardinality(M) = Cardinality(K) /\ Cardinality(K) \in Nat
<1> DEFINE M == {i + 1 : i \in K}
           f == [i \in K |-> i + 1]
<1>1. f \in Bijection(K, M)
  <2>1. f \in [K -> M]
    OBVIOUS
  <2>2. \A a, b \in K : f[a] = f[b] => a = b
    OBVIOUS
  <2>3. \A m \in M : \E a \in K : f[a] = m
    OBVIOUS
  <2> QED BY <2>1, <2>2, <2>3 DEF Bijection, Injection, Surjection, IsInjective
<1>2. ExistsBijection(K, M)
  BY <1>1 DEF ExistsBijection
<1> HIDE DEF f, M
<1>3. IsFiniteSet(M) /\ Cardinality(M) = Cardinality(K)
  BY <1>2, FS_Bijection
<1> QED BY <1>3, FS_CardinalityType DEF M

\* K are the positions in a stack of the frames of some kind, J those in the
\* stack with one more frame, which is of that kind or not (one).
LEMMA CountPushed ==
  ASSUME NEW n \in Nat, NEW K \in SUBSET (1 .. n), NEW J \in SUBSET (1 .. n + 1),
         NEW one \in BOOLEAN,
         \A i \in 1 .. n : i \in K <=> i + 1 \in J,
         1 \in J <=> one
  PROVE  /\ Cardinality(K) \in Nat
         /\ Cardinality(J) = Cardinality(K) + (IF one THEN 1 ELSE 0)
<1> DEFINE M == {i + 1 : i \in K}
<1>1. IsFiniteSet(K)
  <2>1. IsFiniteSet(1 .. n)
    BY FS_Interval
  <2> QED BY <2>1, FS_Subset
<1>2. K \in SUBSET Nat
  OBVIOUS
<1>3. IsFiniteSet(M) /\ Cardinality(M) = Cardinality(K) /\ Cardinality(K) \in Nat
  BY <1>1, <1>2, ShiftCount
<1>4. 1 \notin M
  OBVIOUS
<1>5. ASSUME NEW j \in J, j # 1 PROVE j \in M
  <2>1. j - 1 \in 1 .. n /\ (j - 1) + 1 = j
    BY <1>5
  <2>2. j - 1 \in K
    BY <2>1
  <2> QED BY <2>1, <2>2
<1>6. M \subseteq J
  OBVIOUS
<1> HIDE DEF M
<1>7. CASE one
  <2>1. J = M \cup {1}
    BY <1>5, <1>6, <1>7
  <2>2. Cardinality(M \cup {1}) = Cardinality(M) + 1
    BY <1>3, <1>4, FS_AddElement
  <2> QED BY <1>3, <1>7, <2>1, <2>2
<1>8. CASE ~one
  <2>1. J = M
    BY <1>5, <1>6, <1>8
  <2> QED BY <1>3, <1>8, <2>1
<1> QED BY <1>7, <1>8

LEMMA PushKeeps ==
  ASSUME NEW x \in Frame, NEW s \in Seq(Frame)
  PROVE  LET t == <<x>> \o s IN
         /\ Drains(t) <=> x.at = "drain" \/ Drains(s)
         /\ Starts(t) <=> x.at = "immediate" \/ Starts(s)
         /\ Bodies(s) \in Nat
         /\ Bodies(t) = Bodies(s) + (IF x.at = "body" THEN 1 ELSE 0)
         /\ \A sig : /\ Many(s, sig) \in Nat
                     /\ Many(t, sig) = Many(s, sig) + (IF Emits(x, sig) THEN 1 ELSE 0)
                     /\ Emissions(t, sig) = Emissions(s, sig) \cup
                          (IF Emits(x, sig) THEN {Progress(x)} ELSE {})
<1> DEFINE t == <<x>> \o s
<1>1. /\ Len(s) \in Nat /\ t[1] = x
      /\ DOMAIN t = 1 .. Len(s) + 1 /\ DOMAIN s = 1 .. Len(s)
      /\ \A i \in DOMAIN s : i + 1 \in DOMAIN t /\ t[i + 1] = s[i]
  BY Pushed
<1> HIDE DEF t
<1>2. 1 \in DOMAIN t
  BY <1>1
<1>3. ASSUME NEW j \in DOMAIN t, j # 1 PROVE j - 1 \in DOMAIN s /\ t[j] = s[j - 1]
  <2>1. j - 1 \in DOMAIN s /\ (j - 1) + 1 = j
    BY <1>1, <1>3
  <2> QED BY <1>1, <2>1
<1>4. Drains(t) <=> x.at = "drain" \/ Drains(s)
  BY <1>1, <1>2, <1>3 DEF Drains
<1>5. Starts(t) <=> x.at = "immediate" \/ Starts(s)
  BY <1>1, <1>2, <1>3 DEF Starts
<1>6. Bodies(s) \in Nat /\ Bodies(t) = Bodies(s) + (IF x.at = "body" THEN 1 ELSE 0)
  <2> DEFINE K == {i \in DOMAIN s : s[i].at = "body"}
             J == {i \in DOMAIN t : t[i].at = "body"}
             one == x.at = "body"
  <2>1. K \in SUBSET (1 .. Len(s)) /\ J \in SUBSET (1 .. Len(s) + 1)
    BY <1>1
  <2>2. \A i \in 1 .. Len(s) : i \in K <=> i + 1 \in J
    BY <1>1
  <2>3. 1 \in J <=> one
    BY <1>1, <1>2
  <2>4. one \in BOOLEAN
    OBVIOUS
  <2>5. Len(s) \in Nat
    BY <1>1
  <2> HIDE DEF K, J, one
  <2>6. Cardinality(K) \in Nat /\ Cardinality(J) = Cardinality(K) + (IF one THEN 1 ELSE 0)
    BY <2>1, <2>2, <2>3, <2>4, <2>5, CountPushed
  <2> QED BY <2>6 DEF Bodies, K, J, one
<1>7. ASSUME NEW sig
      PROVE  /\ Many(s, sig) \in Nat
             /\ Many(t, sig) = Many(s, sig) + (IF Emits(x, sig) THEN 1 ELSE 0)
  <2> DEFINE K == {i \in DOMAIN s : Emits(s[i], sig)}
             J == {i \in DOMAIN t : Emits(t[i], sig)}
             one == Emits(x, sig)
  <2>1. K \in SUBSET (1 .. Len(s)) /\ J \in SUBSET (1 .. Len(s) + 1)
    BY <1>1
  <2>2. \A i \in 1 .. Len(s) : i \in K <=> i + 1 \in J
    BY <1>1
  <2>3. 1 \in J <=> one
    BY <1>1, <1>2
  <2>4. one \in BOOLEAN
    BY DEF Emits
  <2>5. Len(s) \in Nat
    BY <1>1
  <2> HIDE DEF K, J, one
  <2>6. Cardinality(K) \in Nat /\ Cardinality(J) = Cardinality(K) + (IF one THEN 1 ELSE 0)
    BY <2>1, <2>2, <2>3, <2>4, <2>5, CountPushed
  <2> QED BY <2>6 DEF Many, K, J, one
<1>8. ASSUME NEW sig
      PROVE  Emissions(t, sig) = Emissions(s, sig) \cup
               (IF Emits(x, sig) THEN {Progress(x)} ELSE {})
  <2> DEFINE K == {i \in DOMAIN s : Emits(s[i], sig)}
             J == {i \in DOMAIN t : Emits(t[i], sig)}
  <2>1. ASSUME NEW i \in K PROVE i + 1 \in J /\ t[i + 1] = s[i]
    BY <1>1
  <2>2. ASSUME NEW j \in J, j # 1 PROVE j - 1 \in K /\ t[j] = s[j - 1]
    BY <1>3, <2>2
  <2>3. 1 \in J <=> Emits(x, sig)
    BY <1>1, <1>2
  <2> HIDE DEF K, J
  <2>4. {Progress(t[j]) : j \in J} = {Progress(s[i]) : i \in K} \cup
               (IF Emits(x, sig) THEN {Progress(x)} ELSE {})
    <3>1. CASE Emits(x, sig)
      BY <1>1, <2>1, <2>2, <2>3, <3>1
    <3>2. CASE ~Emits(x, sig)
      BY <2>1, <2>2, <2>3, <3>2
    <3> QED BY <3>1, <3>2
  <2> QED BY <2>4 DEF Emissions, K, J
<1> QED BY <1>4, <1>5, <1>6, <1>7, <1>8 DEF t

LEMMA OrderedPush ==
  ASSUME NEW x \in Frame, NEW s \in Seq(Frame)
  PROVE  Ordered(<<x>> \o s) <=>
           /\ Ordered(s)
           /\ x.at = "immediate" => s = <<>>
           /\ Emits(x, "commits") => s # <<>> /\ Head(s).at = "drain"
           /\ x.at = "drain" => ~Drains(s)
<1> DEFINE t == <<x>> \o s
<1>1. /\ Len(s) \in Nat /\ t[1] = x /\ Len(t) = Len(s) + 1
      /\ DOMAIN t = 1 .. Len(s) + 1 /\ DOMAIN s = 1 .. Len(s)
      /\ \A i \in DOMAIN s : i + 1 \in DOMAIN t /\ t[i + 1] = s[i]
  BY Pushed
<1>2. s = <<>> <=> Len(s) = 0
  BY EmptySeq
<1>3. s # <<>> => Head(s) = s[1]
  OBVIOUS
<1> HIDE DEF t
<1>4. 1 \in DOMAIN t
  BY <1>1
<1>5. ASSUME NEW j \in DOMAIN t, j # 1
      PROVE  j - 1 \in DOMAIN s /\ t[j] = s[j - 1] /\ j - 1 \in Nat
  <2>1. j - 1 \in DOMAIN s /\ (j - 1) + 1 = j
    BY <1>1, <1>5
  <2> QED BY <1>1, <2>1
<1>6. ASSUME Ordered(t)
      PROVE  /\ Ordered(s)
             /\ x.at = "immediate" => s = <<>>
             /\ Emits(x, "commits") => s # <<>> /\ Head(s).at = "drain"
             /\ x.at = "drain" => ~Drains(s)
  <2>1. x.at = "immediate" => s = <<>>
    BY <1>1, <1>2, <1>4, <1>6 DEF Ordered
  <2>2. Emits(x, "commits") => s # <<>> /\ Head(s).at = "drain"
    <3> SUFFICES ASSUME Emits(x, "commits") PROVE s # <<>> /\ Head(s).at = "drain"
      OBVIOUS
    <3>1. 1 + 1 \in DOMAIN t /\ t[1 + 1].at = "drain"
      BY <1>1, <1>4, <1>6 DEF Ordered
    <3>2. 1 \in DOMAIN s
      BY <1>1, <3>1
    <3> QED BY <1>1, <1>2, <1>3, <3>1, <3>2
  <2>3. ASSUME x.at = "drain", Drains(s) PROVE FALSE
    <3>1. PICK i \in DOMAIN s : s[i].at = "drain"
      BY <2>3 DEF Drains
    <3>2. i + 1 \in DOMAIN t /\ t[i + 1].at = "drain" /\ 1 < i + 1
      BY <1>1, <3>1
    <3> QED BY <1>1, <1>4, <1>6, <2>3, <3>2 DEF Ordered
  <2>4. Ordered(s)
    <3> SUFFICES ASSUME NEW i \in DOMAIN s
                 PROVE /\ s[i].at = "immediate" => i = Len(s)
                       /\ Emits(s[i], "commits") => i + 1 \in DOMAIN s /\ s[i + 1].at = "drain"
                       /\ s[i].at = "drain" => \A j \in DOMAIN s : i < j => s[j].at # "drain"
      BY DEF Ordered
    <3>1. i + 1 \in DOMAIN t /\ t[i + 1] = s[i] /\ i \in Nat
      BY <1>1
    <3>2. s[i].at = "immediate" => i = Len(s)
      BY <1>1, <1>6, <3>1 DEF Ordered
    <3>3. Emits(s[i], "commits") => i + 1 \in DOMAIN s /\ s[i + 1].at = "drain"
      <4> SUFFICES ASSUME Emits(s[i], "commits")
                   PROVE  i + 1 \in DOMAIN s /\ s[i + 1].at = "drain"
        OBVIOUS
      <4>1. (i + 1) + 1 \in DOMAIN t /\ t[(i + 1) + 1].at = "drain"
        BY <1>6, <3>1 DEF Ordered
      <4>2. i + 1 \in DOMAIN s
        BY <1>1, <3>1, <4>1
      <4> QED BY <1>1, <4>1, <4>2
    <3>4. ASSUME s[i].at = "drain", NEW j \in DOMAIN s, i < j PROVE s[j].at # "drain"
      <4>1. j + 1 \in DOMAIN t /\ t[j + 1] = s[j] /\ i + 1 < j + 1
        BY <1>1, <3>4
      <4> QED BY <1>6, <3>1, <3>4, <4>1 DEF Ordered
    <3> QED BY <3>2, <3>3, <3>4
  <2> QED BY <2>1, <2>2, <2>3, <2>4
<1>7. ASSUME /\ Ordered(s)
             /\ x.at = "immediate" => s = <<>>
             /\ Emits(x, "commits") => s # <<>> /\ Head(s).at = "drain"
             /\ x.at = "drain" => ~Drains(s)
      PROVE  Ordered(t)
  <2> SUFFICES ASSUME NEW i \in DOMAIN t
               PROVE /\ t[i].at = "immediate" => i = Len(t)
                     /\ Emits(t[i], "commits") => i + 1 \in DOMAIN t /\ t[i + 1].at = "drain"
                     /\ t[i].at = "drain" => \A j \in DOMAIN t : i < j => t[j].at # "drain"
    BY DEF Ordered
  <2>1. CASE i = 1
    <3>1. t[i].at = "immediate" => i = Len(t)
      BY <1>1, <1>2, <1>7, <2>1
    <3>2. Emits(t[i], "commits") => i + 1 \in DOMAIN t /\ t[i + 1].at = "drain"
      <4> SUFFICES ASSUME Emits(x, "commits") PROVE i + 1 \in DOMAIN t /\ t[i + 1].at = "drain"
        BY <1>1, <2>1
      <4>1. s # <<>> /\ s[1].at = "drain"
        BY <1>3, <1>7
      <4>2. 1 \in DOMAIN s
        BY <1>1, <1>2, <4>1
      <4> QED BY <1>1, <2>1, <4>1, <4>2
    <3>3. ASSUME t[i].at = "drain", NEW j \in DOMAIN t, i < j PROVE t[j].at # "drain"
      <4>1. ~Drains(s) /\ j # 1
        BY <1>1, <1>7, <2>1, <3>3
      <4> QED BY <1>5, <4>1 DEF Drains
    <3> QED BY <3>1, <3>2, <3>3
  <2>2. CASE i # 1
    <3>1. i - 1 \in DOMAIN s /\ t[i] = s[i - 1] /\ i \in Nat
      BY <1>1, <1>5, <2>2
    <3>2. t[i].at = "immediate" => i = Len(t)
      BY <1>1, <1>7, <3>1 DEF Ordered
    <3>3. Emits(t[i], "commits") => i + 1 \in DOMAIN t /\ t[i + 1].at = "drain"
      <4> SUFFICES ASSUME Emits(t[i], "commits")
                   PROVE  i + 1 \in DOMAIN t /\ t[i + 1].at = "drain"
        OBVIOUS
      <4>1. (i - 1) + 1 \in DOMAIN s /\ s[(i - 1) + 1].at = "drain"
        BY <1>7, <3>1 DEF Ordered
      <4>2. (i - 1) + 1 = i
        BY <3>1
      <4> QED BY <1>1, <4>1, <4>2
    <3>4. ASSUME t[i].at = "drain", NEW j \in DOMAIN t, i < j PROVE t[j].at # "drain"
      <4>1. j # 1 /\ j \in Nat
        BY <1>1, <3>1, <3>4
      <4>2. j - 1 \in DOMAIN s /\ t[j] = s[j - 1] /\ i - 1 < j - 1
        BY <1>5, <3>1, <3>4, <4>1
      <4> QED BY <1>7, <3>1, <3>4, <4>2 DEF Ordered
    <3> QED BY <3>2, <3>3, <3>4
  <2> QED BY <2>1, <2>2
<1> QED BY <1>6, <1>7 DEF t

LEMMA NoneEmit ==
  ASSUME NEW s \in Seq(Frame), NEW sig
  PROVE  Many(s, sig) = 0 <=> Emissions(s, sig) = {}
<1> DEFINE K == {i \in DOMAIN s : Emits(s[i], sig)}
<1>1. IsFiniteSet(1 .. Len(s)) /\ K \in SUBSET (1 .. Len(s))
  BY FS_Interval
<1>2. Cardinality(K) = 0 <=> K = {}
  <2> HIDE DEF K
  <2> QED BY <1>1, FS_Subset, FS_EmptySet
<1>3. Emissions(s, sig) = {} <=> K = {}
  BY DEF Emissions
<1> QED BY <1>2, <1>3 DEF Many

\* Under a drain, and under an emission of commits, there is no emission of
\* commits.
LEMMA OneCommit ==
  ASSUME NEW x \in Frame, NEW s \in Seq(Frame), Ordered(<<x>> \o s),
         x.at = "drain" \/ Emits(x, "commits")
  PROVE  Emissions(s, "commits") = {}
<1>1. /\ Ordered(s)
      /\ Emits(x, "commits") => s # <<>> /\ Head(s).at = "drain"
      /\ x.at = "drain" => ~Drains(s)
  BY OrderedPush
<1>2. Len(s) \in Nat /\ DOMAIN s = 1 .. Len(s) /\ (s # <<>> => Head(s) = s[1])
  OBVIOUS
<1>3. ASSUME NEW i \in DOMAIN s, Emits(s[i], "commits") PROVE FALSE
  <2>1. i + 1 \in DOMAIN s /\ s[i + 1].at = "drain"
    BY <1>1, <1>3 DEF Ordered
  <2>2. Drains(s)
    BY <2>1 DEF Drains
  <2>3. s # <<>> /\ s[1].at = "drain"
    BY <1>1, <1>2, <2>2
  <2>4. 1 \in DOMAIN s /\ 1 < i + 1
    BY <1>2, <2>1
  <2> QED BY <1>1, <2>1, <2>3, <2>4 DEF Ordered
<1> QED BY <1>3 DEF Emissions

-----------------------------------------------------------------------------
\* Types.
\* The kinds of frame.
LEMMA FrameKinds ==
  ASSUME NEW f \in Frame
  PROVE  /\ f.at = "emit" => /\ f \in EmitFrame /\ f.sig \in Signals /\ f.value \in Nat
                             /\ f.pos \in Nat /\ f.pos # 0 /\ f.count \in Nat
                             /\ f.failed \in BOOLEAN
         /\ f.at = "drain" => /\ f \in [at : {"drain"}, last : BOOLEAN, failed : BOOLEAN]
                              /\ f.last \in BOOLEAN /\ f.failed \in BOOLEAN
         /\ f.at = "ending" => f.failed \in BOOLEAN
         /\ f.at \in UserFrames \cup {"emit", "drain", "ending"}
BY DEF Frame, EmitFrame, UserFrames

\* What a loop of the driver does to its own frame.
LEMMA Turned ==
  ASSUME NEW f \in Frame
  PROVE  /\ f.at = "emit" =>
              /\ [f EXCEPT !.pos = @ + 1] \in Frame
              /\ [f EXCEPT !.pos = @ + 1].at = "emit"
              /\ [f EXCEPT !.pos = @ + 1].sig = f.sig
              /\ Progress([f EXCEPT !.pos = @ + 1])
                   = [value |-> f.value, pos |-> f.pos + 1, count |-> f.count]
              /\ [f EXCEPT !.pos = @ + 1].pos = f.pos + 1
              /\ [f EXCEPT !.pos = @ + 1].count = f.count
         /\ f.at = "drain" =>
              /\ [f EXCEPT !.last = TRUE] \in Frame
              /\ [f EXCEPT !.last = TRUE].at = "drain"
         /\ f.at \in {"emit", "drain"} =>
              /\ [f EXCEPT !.failed = TRUE] \in Frame
              /\ [f EXCEPT !.failed = TRUE].at = f.at
              /\ f.at = "emit" =>
                   /\ [f EXCEPT !.failed = TRUE].sig = f.sig
                   /\ Progress([f EXCEPT !.failed = TRUE]) = Progress(f)
                   /\ [f EXCEPT !.failed = TRUE].pos = f.pos
                   /\ [f EXCEPT !.failed = TRUE].count = f.count
<1>1. ASSUME f.at = "emit"
      PROVE  f \in EmitFrame
  BY <1>1, FrameKinds
<1>2. ASSUME f.at = "drain"
      PROVE  f \in [at : {"drain"}, last : BOOLEAN, failed : BOOLEAN]
  BY <1>2, FrameKinds
<1>3. ASSUME NEW e \in EmitFrame
      PROVE  /\ [e EXCEPT !.pos = @ + 1] \in EmitFrame
             /\ [e EXCEPT !.pos = @ + 1].at = "emit"
             /\ [e EXCEPT !.pos = @ + 1].sig = e.sig
             /\ [e EXCEPT !.pos = @ + 1].value = e.value
             /\ [e EXCEPT !.pos = @ + 1].pos = e.pos + 1
             /\ [e EXCEPT !.pos = @ + 1].count = e.count
             /\ [e EXCEPT !.failed = TRUE] \in EmitFrame
             /\ [e EXCEPT !.failed = TRUE].at = "emit"
             /\ [e EXCEPT !.failed = TRUE].sig = e.sig
             /\ [e EXCEPT !.failed = TRUE].value = e.value
             /\ [e EXCEPT !.failed = TRUE].pos = e.pos
             /\ [e EXCEPT !.failed = TRUE].count = e.count
  <2>1. /\ e.pos \in Nat \ {0} /\ e.pos + 1 \in Nat \ {0}
        /\ e.sig \in Signals /\ e.value \in Nat /\ e.count \in Nat
    BY DEF EmitFrame
  <2>2. [e EXCEPT !.pos = @ + 1] \in EmitFrame
    BY <2>1 DEF EmitFrame
  <2>3. [e EXCEPT !.failed = TRUE] \in EmitFrame
    BY <2>1 DEF EmitFrame
  <2> QED BY <2>2, <2>3 DEF EmitFrame
<1>4. ASSUME NEW d \in [at : {"drain"}, last : BOOLEAN, failed : BOOLEAN]
      PROVE  /\ [d EXCEPT !.last = TRUE] \in [at : {"drain"}, last : BOOLEAN, failed : BOOLEAN]
             /\ [d EXCEPT !.last = TRUE].at = "drain"
             /\ [d EXCEPT !.failed = TRUE] \in [at : {"drain"}, last : BOOLEAN, failed : BOOLEAN]
             /\ [d EXCEPT !.failed = TRUE].at = "drain"
  OBVIOUS
<1>5. /\ EmitFrame \subseteq Frame
      /\ [at : {"drain"}, last : BOOLEAN, failed : BOOLEAN] \subseteq Frame
  BY DEF Frame
<1>6. CASE f.at = "emit"
  BY <1>1, <1>3, <1>5, <1>6, Zenon DEF Progress
<1>7. CASE f.at = "drain"
  BY <1>2, <1>4, <1>5, <1>7, Zenon
<1>8. CASE f.at \notin {"emit", "drain"}
  BY <1>8
<1> QED BY <1>6, <1>7, <1>8

\* The frames a call puts on the stack.
LEMMA NewFrames ==
  /\ \A sig \in Signals, v, n \in Nat :
       [at |-> "emit", sig |-> sig, value |-> v, pos |-> 1, count |-> n, failed |-> FALSE]
         \in Frame
  /\ \A sig \in Signals, id \in Nat : [at |-> "listener", sig |-> sig, id |-> id] \in Frame
  /\ Draining \in Frame
  /\ \A b \in BOOLEAN : [at |-> "ending", failed |-> b] \in Frame
  /\ [at |-> "body"] \in Frame /\ [at |-> "reading"] \in Frame /\ [at |-> "immediate"] \in Frame
BY DEF Frame, EmitFrame, Draining

\* The frame on top and what is below it.
LEMMA TopTyped ==
  ASSUME Typed, stack # <<>>
  PROVE  /\ Top \in Frame /\ Below \in Seq(Frame) /\ stack = <<Top>> \o Below
<1>1. stack \in Seq(Frame)
  BY DEF Typed
<1> QED BY <1>1, Popped DEF Top, Below

LEMMA Pushable ==
  ASSUME NEW x \in Frame, NEW s \in Seq(Frame)
  PROVE  <<x>> \o s \in Seq(Frame)
BY Pushed

\* What starting an emission does.
LEMMA StartEmitTyped ==
  ASSUME Typed, NEW sig \in Signals, NEW value \in Nat, NEW under \in Seq(Frame),
         StartEmit(sig, value, under)
  PROVE  /\ Emission(sig, value) \in Frame /\ Emission(sig, value).at = "emit"
         /\ Emission(sig, value).sig = sig
         /\ Emission(sig, value).count = Len(signals[sig].bindings)
         /\ Progress(Emission(sig, value))
              = [value |-> value, pos |-> 1, count |-> Len(signals[sig].bindings)]
         /\ stack' = <<Emission(sig, value)>> \o under /\ stack' \in Seq(Frame)
         /\ signals' \in [Signals -> SignalRecord]
         /\ \A g \in Signals : /\ Sound(signals'[g])
                               /\ signals'[g].next = signals[g].next
                               /\ signals'[g].bindings = signals[g].bindings
                               /\ signals'[g].index = signals[g].index
                               /\ signals'[g].depth
                                    = signals[g].depth + (IF g = sig THEN 1 ELSE 0)
<1>1. /\ signals \in [Signals -> SignalRecord]
      /\ \A g \in Signals : Sound(signals[g])
  BY DEF Typed
<1>2. signals[sig] \in SignalRecord
  BY <1>1
<1>3. Len(signals[sig].bindings) \in Nat
  BY <1>2, BindingsTyped
<1>4. Emission(sig, value) \in Frame
  BY <1>3, NewFrames, Zenon DEF Emission
<1>5. /\ Emission(sig, value).at = "emit" /\ Emission(sig, value).sig = sig
      /\ Emission(sig, value).count = Len(signals[sig].bindings)
      /\ Progress(Emission(sig, value))
              = [value |-> value, pos |-> 1, count |-> Len(signals[sig].bindings)]
  BY DEF Emission, Progress
<1>6. stack' = <<Emission(sig, value)>> \o under
  BY DEF StartEmit
<1>7. stack' \in Seq(Frame)
  BY <1>4, <1>6, Pushable
<1>8. signals' = [signals EXCEPT ![sig] = EnterEmit(signals[sig])]
  BY DEF StartEmit
<1>9. /\ Sound(EnterEmit(signals[sig])) /\ EnterEmit(signals[sig]).depth = signals[sig].depth + 1
      /\ EnterEmit(signals[sig]).bindings = signals[sig].bindings
      /\ EnterEmit(signals[sig]).next = signals[sig].next
      /\ EnterEmit(signals[sig]).index = signals[sig].index
  BY <1>1, EnterSound
<1>10. EnterEmit(signals[sig]) \in SignalRecord
  BY <1>9 DEF Sound
<1>11. /\ signals' \in [Signals -> SignalRecord]
       /\ signals'[sig] = EnterEmit(signals[sig])
       /\ \A g \in Signals : g # sig => signals'[g] = signals[g]
  BY <1>1, <1>8, <1>10
<1>12. ASSUME NEW g \in Signals
       PROVE  /\ Sound(signals'[g]) /\ signals'[g].next = signals[g].next
              /\ signals'[g].bindings = signals[g].bindings
              /\ signals'[g].index = signals[g].index
              /\ signals'[g].depth = signals[g].depth + (IF g = sig THEN 1 ELSE 0)
  <2>1. CASE g = sig
    BY <1>9, <1>11, <2>1
  <2>2. CASE g # sig
    <3>1. signals[g] \in SignalRecord
      BY <1>1
    <3>2. signals[g].depth \in Nat
      BY <3>1 DEF SignalRecord
    <3> QED BY <1>1, <1>11, <2>2, <3>2
  <2> QED BY <2>1, <2>2
<1> QED BY <1>4, <1>5, <1>6, <1>7, <1>11, <1>12

\* What one signal's change does to both.
LEMMA OneSignal ==
  ASSUME Typed, NEW sig \in Signals, NEW t, Sound(t),
         signals' = [signals EXCEPT ![sig] = t]
  PROVE  /\ signals' \in [Signals -> SignalRecord]
         /\ \A g \in Signals : /\ Sound(signals'[g])
                               /\ signals'[g] = IF g = sig THEN t ELSE signals[g]
<1>1. /\ signals \in [Signals -> SignalRecord]
      /\ \A g \in Signals : Sound(signals[g])
  BY DEF Typed
<1>2. t \in SignalRecord
  BY DEF Sound
<1> QED BY <1>1, <1>2

LEMMA SetSelectorTyped ==
  ASSUME Typed, NEW under \in Seq(Frame), SetSelector(under)
  PROVE  /\ selector' \in [value : Nat, disposed : BOOLEAN]
         /\ selector'.disposed = selector.disposed /\ selector'.value = model
         /\ stack' \in Seq(Frame)
         /\ stale' = FALSE /\ watch' = watch /\ behind' \in BOOLEAN
         /\ signals' \in [Signals -> SignalRecord]
         /\ \A g \in Signals : Sound(signals'[g]) /\ signals'[g].next = signals[g].next
<1>1. /\ signals \in [Signals -> SignalRecord]
      /\ \A g \in Signals : Sound(signals[g])
      /\ behind \in BOOLEAN
  BY DEF Typed
<1>2. selector \in [value : Nat, disposed : BOOLEAN]
  BY DEF Typed
<1>3. model \in Nat /\ "changes" \in Signals
  BY DEF Typed, Signals
<1>4. stale' = FALSE /\ watch' = watch
  BY DEF SetSelector
<1>5. CASE selector.value = model
  BY <1>1, <1>2, <1>4, <1>5 DEF SetSelector
<1>6. CASE selector.value # model
  <2>1. /\ selector' = [selector EXCEPT !.value = model]
        /\ StartEmit("changes", model, under)
        /\ behind' = (signals["changes"].depth > 0)
    BY <1>6 DEF SetSelector
  <2>2. /\ selector' \in [value : Nat, disposed : BOOLEAN]
        /\ selector'.disposed = selector.disposed /\ selector'.value = model
    BY <1>2, <1>3, <2>1
  <2>3. behind' \in BOOLEAN
    BY <2>1
  <2>4. "changes" \in Signals /\ model \in Nat
    BY <1>3
  <2>5. /\ stack' \in Seq(Frame) /\ signals' \in [Signals -> SignalRecord]
        /\ \A g \in Signals : Sound(signals'[g]) /\ signals'[g].next = signals[g].next
    BY <2>1, <2>4, StartEmitTyped
  <2> QED BY <1>4, <2>2, <2>3, <2>5
<1> QED BY <1>5, <1>6

-----------------------------------------------------------------------------
\* The cases of a step.
Under == <<[Top EXCEPT !.pos = @ + 1]>> \o Below
Bound == signals[Top.sig].bindings[Top.pos]

\* A turn of the loop of emit: nobody is called, the projection panics, the
\* Selector sets its value, or a listener is called.
SkipTurn ==
  /\ ~Bound.active \/ (Top.sig = "commits" /\ Bound.id = Source /\ selector.disposed)
  /\ stack' = Under
  /\ UNCHANGED <<selector, signals, watch, seen, stale, behind, unwinding>>
FailTurn ==
  /\ Top.sig = "commits" /\ Bound.id = Source
  /\ stack' = Under /\ unwinding' = TRUE /\ stale' = TRUE
  /\ UNCHANGED <<selector, signals, watch, seen, behind>>
SetTurn ==
  /\ Top.sig = "commits" /\ Bound.id = Source /\ ~selector.disposed
  /\ SetSelector(Under)
  /\ UNCHANGED <<unwinding, seen>>
CallTurn ==
  /\ Bound.active /\ ~(Top.sig = "commits" /\ Bound.id = Source)
  /\ stack' = <<[at |-> "listener", sig |-> Top.sig, id |-> Bound.id]>> \o Under
  /\ seen' = IF Top.sig = "commits" THEN Told(Bound.id, Top.value) ELSE seen
  /\ watch' = IF Top.sig = "changes" /\ Bound.id = watch.id
              THEN [watch EXCEPT !.shown = Top.value] ELSE watch
  /\ UNCHANGED <<selector, signals, stale, behind, unwinding>>

LEMMA Turns ==
  ASSUME EmitNext
  PROVE  /\ In("emit") /\ ~unwinding /\ Top.pos <= Top.count /\ UNCHANGED <<store, calls>>
         /\ SkipTurn \/ FailTurn \/ SetTurn \/ CallTurn
<1>1. In("emit") /\ ~unwinding /\ Top.pos <= Top.count /\ UNCHANGED <<store, calls>>
  BY DEF EmitNext
<1> DEFINE source == Top.sig = "commits" /\ Bound.id = Source
<1>2. ~Bound.active => SkipTurn
  BY DEF EmitNext, Under, Bound, SkipTurn
<1>3. ASSUME Bound.active, source PROVE SkipTurn \/ FailTurn \/ SetTurn
  <2>1. CASE selector.disposed
    BY <1>3, <2>1 DEF EmitNext, Under, Bound, SkipTurn
  <2>2. CASE ~selector.disposed
    <3>1. \/ SetSelector(Under) /\ UNCHANGED <<unwinding, seen>>
          \/ FailTurn
      BY <1>3, <2>2 DEF EmitNext, Under, Bound, FailTurn
    <3> QED BY <1>3, <2>2, <3>1 DEF SetTurn
  <2> QED BY <2>1, <2>2
<1>4. ASSUME Bound.active, ~source PROVE CallTurn
  BY <1>4 DEF EmitNext, Under, Bound, CallTurn
<1> QED BY <1>1, <1>2, <1>3, <1>4

\* A turn of the loop of drain: a commit, a change kept for the transaction's
\* end, or a reducer that panics.
CommitTurn ==
  /\ ~Reading /\ depth = 0
  /\ model' \in {model, model + 1}
  /\ Publish(stack)
  /\ UNCHANGED stale
KeepTurn ==
  /\ ~Reading /\ depth # 0
  /\ model' \in {model, model + 1}
  /\ pendingCommit' = TRUE
  /\ UNCHANGED <<revision, signals, stack, stale>>
PanicTurn ==
  /\ \/ UNCHANGED <<model, stale>>
     \/ model' = model + 1 /\ stale' = TRUE
  /\ stack' = TopFailed
  /\ UNCHANGED <<pendingCommit, revision, signals>>

LEMMA Drainings ==
  ASSUME Typed, DrainNext
  PROVE  /\ In("drain") /\ ~unwinding /\ ~Top.last /\ pending # <<>>
         /\ pending' = Tail(pending)
         /\ UNCHANGED <<depth, processing, selector, watch, unwinding, calls, seen, behind>>
         /\ CommitTurn \/ KeepTurn \/ PanicTurn
<1>1. /\ In("drain") /\ ~unwinding /\ ~Top.last /\ pending # <<>>
      /\ pending' = Tail(pending)
      /\ UNCHANGED <<depth, processing, selector, watch, unwinding, calls, seen, behind>>
  BY DEF DrainNext
<1>2. \/ /\ ReduceSucceeds(Head(pending)) /\ UNCHANGED stale
         /\ IF depth = 0
            THEN Publish(stack)
            ELSE pendingCommit' = TRUE /\ UNCHANGED <<revision, signals, stack>>
      \/ /\ ReducePanics(Head(pending)) /\ stack' = TopFailed
         /\ UNCHANGED <<pendingCommit, revision, signals>>
  BY DEF DrainNext
<1>3. model \in Nat
  BY DEF Typed
<1>4. ReduceSucceeds(Head(pending)) => ~Reading /\ model' \in {model, model + 1}
  BY <1>3 DEF ReduceSucceeds
<1>5. ReducePanics(Head(pending)) =>
        \/ UNCHANGED <<model, stale>>
        \/ model' = model + 1 /\ stale' = TRUE
  BY DEF ReducePanics
<1> QED BY <1>1, <1>2, <1>4, <1>5 DEF CommitTurn, KeepTurn, PanicTurn

\* Application code ends: a transaction's body, the first call of a watch,
\* which then subscribes, or any other.
EndBody == Top.at = "body" /\ \E p \in BOOLEAN : EndTransaction(p)
EndWatched ==
  /\ Top.at = "immediate" /\ ~selector.disposed
  /\ stack' = Below
  /\ watch' = [watch EXCEPT !.id = signals["changes"].next]
  /\ signals' = [signals EXCEPT !["changes"] = Subscribe(@)]
  /\ behind' = (watch.shown # selector.value)
  /\ unwinding' = FALSE
  /\ UNCHANGED <<store, selector, calls, seen, stale>>
EndCalled ==
  /\ Top.at \in UserFrames \ {"body"}
  /\ stack' = Below
  /\ unwinding' \in BOOLEAN
  /\ UNCHANGED <<signals, watch, behind, store, selector, calls, seen, stale>>

LEMMA Ends ==
  ASSUME NEW p \in BOOLEAN, EndUserCode(p)
  PROVE  stack # <<>> /\ (EndBody \/ EndWatched \/ EndCalled)
<1>1. stack # <<>> /\ Top.at \in UserFrames
  BY DEF EndUserCode
<1>2. CASE Top.at = "body"
  BY <1>1, <1>2 DEF EndUserCode, EndBody
<1>3. CASE Top.at # "body" /\ Top.at = "immediate" /\ ~p /\ ~selector.disposed
  BY <1>1, <1>3 DEF EndUserCode, EndWatched
<1>4. CASE Top.at # "body" /\ ~(Top.at = "immediate" /\ ~p /\ ~selector.disposed)
  <2>1. /\ stack' = Below /\ unwinding' = (p \/ Top.at = "immediate")
        /\ UNCHANGED <<signals, watch, behind, store, selector, calls, seen, stale>>
    BY <1>1, <1>4 DEF EndUserCode
  <2> QED BY <1>1, <1>4, <2>1 DEF EndCalled
<1> QED BY <1>1, <1>2, <1>3, <1>4

\* What is on the stack in an emission.
LEMMA Emitting ==
  ASSUME Typed, Stacked, In("emit")
  PROVE  /\ stack # <<>> /\ Top \in Frame /\ Below \in Seq(Frame) /\ stack = <<Top>> \o Below
         /\ Top.at = "emit" /\ Top.sig \in Signals /\ Emits(Top, Top.sig)
         /\ Top.value \in Nat /\ Top.pos \in Nat /\ Top.pos # 0 /\ Top.count \in Nat
         /\ Sound(signals[Top.sig]) /\ signals[Top.sig].depth > 0
         /\ Progress(Top) \in Emissions(stack, Top.sig)
         /\ Top.count <= Len(signals[Top.sig].bindings)
         /\ [Top EXCEPT !.pos = @ + 1] \in Frame /\ Under \in Seq(Frame)
<1>1. stack # <<>> /\ Top.at = "emit"
  BY DEF In
<1>2. Top \in Frame /\ Below \in Seq(Frame) /\ stack = <<Top>> \o Below
  BY <1>1, TopTyped
<1>3. /\ Top.sig \in Signals /\ Top.value \in Nat /\ Top.pos \in Nat /\ Top.pos # 0
      /\ Top.count \in Nat
  BY <1>1, <1>2, FrameKinds
<1>4. Emits(Top, Top.sig)
  BY <1>1 DEF Emits
<1>5. Sound(signals[Top.sig])
  BY <1>3 DEF Typed
<1> DEFINE x == Top
           s == Below
<1>6. /\ Many(s, x.sig) \in Nat /\ Many(<<x>> \o s, x.sig) = Many(s, x.sig) + 1
      /\ Progress(x) \in Emissions(<<x>> \o s, x.sig)
  <2>1. x \in Frame /\ s \in Seq(Frame) /\ Emits(x, x.sig)
    BY <1>2, <1>4
  <2> HIDE DEF x, s
  <2> QED BY <2>1, PushKeeps
<1>7. /\ signals[Top.sig].depth = Many(stack, Top.sig)
      /\ \A f \in Emissions(stack, Top.sig) : f.count <= Len(signals[Top.sig].bindings)
  BY <1>3 DEF Stacked
<1>8. signals[Top.sig].depth > 0
  BY <1>2, <1>6, <1>7
<1>9. Progress(Top) \in Emissions(stack, Top.sig)
  BY <1>2, <1>6
<1>10. Top.count <= Len(signals[Top.sig].bindings)
  BY <1>7, <1>9 DEF Progress
<1>11. [Top EXCEPT !.pos = @ + 1] \in Frame
  BY <1>1, <1>2, Turned
<1>12. Under \in Seq(Frame)
  BY <1>2, <1>11, Pushable DEF Under
<1> QED BY <1>1, <1>2, <1>3, <1>4, <1>5, <1>8, <1>9, <1>10, <1>11, <1>12

LEMMA BoundTyped ==
  ASSUME Typed, Stacked, In("emit"), Top.pos <= Top.count
  PROVE  /\ Top.pos \in DOMAIN signals[Top.sig].bindings
         /\ Bound.id \in Nat /\ Bound.active \in BOOLEAN
<1>1. /\ Top.sig \in Signals /\ Top.pos \in Nat /\ Top.pos # 0 /\ Top.count \in Nat
      /\ Top.count <= Len(signals[Top.sig].bindings)
  BY Emitting
<1>2. signals[Top.sig] \in SignalRecord
  BY <1>1 DEF Typed
<1>3. /\ Len(signals[Top.sig].bindings) \in Nat
      /\ DOMAIN signals[Top.sig].bindings = 1 .. Len(signals[Top.sig].bindings)
      /\ \A p \in DOMAIN signals[Top.sig].bindings :
           /\ signals[Top.sig].bindings[p].id \in Nat
           /\ signals[Top.sig].bindings[p].active \in BOOLEAN
  BY <1>2, BindingsTyped
<1>4. Top.pos \in DOMAIN signals[Top.sig].bindings
  BY <1>1, <1>3
<1> QED BY <1>3, <1>4 DEF Bound

-----------------------------------------------------------------------------
\* Typed is kept by every step.
LEMMA TypedInit == Init => Typed
<1> SUFFICES ASSUME Init PROVE Typed
  OBVIOUS
<1>1. /\ Sound(NewSignal) /\ Sound(Subscribe(NewSignal))
  BY NewSignalSound, SubscribeSound
<1>2. NewSignal \in SignalRecord /\ Subscribe(NewSignal) \in SignalRecord
  BY <1>1 DEF Sound
<1>3. signals = [commits |-> Subscribe(NewSignal), changes |-> NewSignal]
  BY DEF Init
<1>4. /\ signals \in [Signals -> SignalRecord]
      /\ \A sig \in Signals : Sound(signals[sig])
  BY <1>1, <1>2, <1>3 DEF Signals
<1>5. <<>> \in Indexes
  <2>1. <<>> \in [{} -> Nat]
    OBVIOUS
  <2> QED BY <2>1, InIndexes
<1>6. MaxActions \in Nat
  BY Bounds_Assumption
<1>7. /\ model = 0 /\ revision = 0 /\ depth = 0 /\ calls = 0 /\ pending = <<>>
      /\ pendingCommit = FALSE /\ processing = FALSE /\ unwinding = FALSE
      /\ stale = FALSE /\ behind = FALSE
      /\ selector = [value |-> 0, disposed |-> FALSE] /\ watch = [id |-> 0, shown |-> 0]
      /\ stack = <<>> /\ seen = <<>>
  BY DEF Init
<1>8. depth \in 0 .. MaxDepth /\ calls \in 0 .. MaxActions
  BY <1>6, <1>7 DEF MaxDepth
<1>9. pending \in Seq(Actions) /\ stack \in Seq(Frame)
  BY <1>7, EmptySeq
<1>10. /\ selector \in [value : Nat, disposed : BOOLEAN]
       /\ watch \in [id : Nat, shown : Nat]
  BY <1>7
<1> QED BY <1>4, <1>5, <1>7, <1>8, <1>9, <1>10 DEF Typed

LEMMA ToldTyped ==
  ASSUME seen \in Indexes, NEW id \in Nat, NEW value \in Nat
  PROVE  /\ Told(id, value) \in Indexes
         /\ DOMAIN Told(id, value) = DOMAIN seen \cup {id}
         /\ \A k \in DOMAIN seen \cup {id} :
              Told(id, value)[k] = IF k = id THEN value ELSE seen[k]
<1>1. DOMAIN seen \in SUBSET Nat /\ seen \in [DOMAIN seen -> Nat]
  BY DEF Indexes
<1>2. Told(id, value) \in [DOMAIN seen \cup {id} -> Nat]
  BY <1>1 DEF Told
<1>3. DOMAIN seen \cup {id} \in SUBSET Nat
  BY <1>1
<1>4. Told(id, value) \in Indexes
  BY <1>2, <1>3, InIndexes
<1> QED BY <1>4 DEF Told

LEMMA TypedEmitNext ==
  ASSUME Typed, Stacked, EmitNext
  PROVE  Typed'
<1>1. /\ In("emit") /\ Top.pos <= Top.count /\ UNCHANGED <<store, calls>>
      /\ SkipTurn \/ FailTurn \/ SetTurn \/ CallTurn
  BY Turns
<1>2. /\ Top.sig \in Signals /\ Top.value \in Nat
      /\ Under \in Seq(Frame)
  BY <1>1, Emitting
<1>3. Bound.id \in Nat
  BY <1>1, BoundTyped
<1>4. CASE SkipTurn
  BY <1>1, <1>2, <1>4 DEF SkipTurn, Typed, store
<1>5. CASE FailTurn
  BY <1>1, <1>2, <1>5 DEF FailTurn, Typed, store
<1>6. CASE SetTurn
  <2>1. SetSelector(Under) /\ UNCHANGED <<unwinding, seen>>
    BY <1>6 DEF SetTurn
  <2>2. /\ selector' \in [value : Nat, disposed : BOOLEAN]
        /\ stack' \in Seq(Frame)
        /\ stale' = FALSE /\ watch' = watch /\ behind' \in BOOLEAN
        /\ signals' \in [Signals -> SignalRecord]
        /\ \A g \in Signals : Sound(signals'[g])
    BY <1>2, <2>1, SetSelectorTyped
  <2> QED BY <1>1, <2>1, <2>2 DEF Typed, store
<1>7. CASE CallTurn
  <2>1. [at |-> "listener", sig |-> Top.sig, id |-> Bound.id] \in Frame
    BY <1>2, <1>3, NewFrames
  <2>2. stack' \in Seq(Frame)
    BY <1>2, <1>7, <2>1, Pushable DEF CallTurn
  <2>3. seen' \in Indexes
    <3>1. seen \in Indexes
      BY DEF Typed
    <3> QED BY <1>2, <1>3, <1>7, <3>1, ToldTyped DEF CallTurn
  <2>4. watch' \in [id : Nat, shown : Nat]
    <3>1. watch \in [id : Nat, shown : Nat]
      BY DEF Typed
    <3> QED BY <1>2, <1>7, <3>1 DEF CallTurn
  <2> QED BY <1>1, <1>7, <2>2, <2>3, <2>4 DEF CallTurn, Typed, store
<1> QED BY <1>1, <1>4, <1>5, <1>6, <1>7

LEMMA TypedEmitEnd ==
  ASSUME Typed, Stacked, EmitEnd
  PROVE  Typed'
<1>1. /\ In("emit") /\ stack' = Below /\ unwinding' = Top.failed
      /\ signals' = [signals EXCEPT ![Top.sig] = LeaveEmit(signals[Top.sig])]
      /\ UNCHANGED <<store, selector, watch, calls, seen, stale, behind>>
  BY DEF EmitEnd
<1>2. /\ Below \in Seq(Frame) /\ Top \in Frame /\ Top.at = "emit" /\ Top.sig \in Signals
      /\ Sound(signals[Top.sig]) /\ signals[Top.sig].depth > 0
  BY <1>1, Emitting
<1>3. Top.failed \in BOOLEAN
  BY <1>2, FrameKinds
<1>4. Sound(LeaveEmit(signals[Top.sig]))
  BY <1>2, LeaveSound
<1>5. /\ signals' \in [Signals -> SignalRecord]
      /\ \A g \in Signals : Sound(signals'[g])
  BY <1>1, <1>2, <1>4, OneSignal
<1> QED BY <1>1, <1>2, <1>3, <1>5 DEF Typed, store

LEMMA PublishTyped ==
  ASSUME Typed, NEW under \in Seq(Frame), Publish(under)
  PROVE  /\ pendingCommit' = FALSE /\ revision' = revision + 1 /\ revision' \in Nat
         /\ Emission("commits", revision') \in Frame
         /\ Emission("commits", revision').at = "emit"
         /\ Emission("commits", revision').sig = "commits"
         /\ Emission("commits", revision').pos = 1
         /\ Emission("commits", revision').count = Len(signals["commits"].bindings)
         /\ Progress(Emission("commits", revision'))
              = [value |-> revision + 1, pos |-> 1, count |-> Len(signals["commits"].bindings)]
         /\ stack' = <<Emission("commits", revision')>> \o under /\ stack' \in Seq(Frame)
         /\ signals' \in [Signals -> SignalRecord]
         /\ \A g \in Signals : /\ Sound(signals'[g])
                               /\ signals'[g].next = signals[g].next
                               /\ signals'[g].bindings = signals[g].bindings
                               /\ signals'[g].index = signals[g].index
                               /\ signals'[g].depth
                                    = signals[g].depth + (IF g = "commits" THEN 1 ELSE 0)
<1>1. revision \in Nat /\ "commits" \in Signals
  BY DEF Typed, Signals
<1>2. pendingCommit' = FALSE /\ revision' = revision + 1 /\ revision' \in Nat
  BY <1>1 DEF Publish
<1>3. StartEmit("commits", revision', under)
  BY <1>2 DEF Publish
<1>4. "commits" \in Signals /\ revision' \in Nat
  BY <1>1, <1>2
<1> DEFINE value == revision'
<1>5. Emission("commits", value).pos = 1
  BY DEF Emission
<1>6. value \in Nat /\ StartEmit("commits", value, under) /\ value = revision + 1
  BY <1>2, <1>3
<1> HIDE DEF value
<1>7. /\ Emission("commits", value) \in Frame
      /\ Emission("commits", value).at = "emit"
      /\ Emission("commits", value).sig = "commits"
      /\ Emission("commits", value).count = Len(signals["commits"].bindings)
      /\ Progress(Emission("commits", value))
           = [value |-> value, pos |-> 1, count |-> Len(signals["commits"].bindings)]
      /\ stack' = <<Emission("commits", value)>> \o under /\ stack' \in Seq(Frame)
      /\ signals' \in [Signals -> SignalRecord]
      /\ \A g \in Signals : /\ Sound(signals'[g])
                            /\ signals'[g].next = signals[g].next
                            /\ signals'[g].bindings = signals[g].bindings
                            /\ signals'[g].index = signals[g].index
                            /\ signals'[g].depth
                                 = signals[g].depth + (IF g = "commits" THEN 1 ELSE 0)
  BY <1>4, <1>6, StartEmitTyped
<1> QED BY <1>2, <1>5, <1>6, <1>7 DEF value

\* A loop of drain on top of the stack.
LEMMA DrainTop ==
  ASSUME Typed, In("drain")
  PROVE  /\ stack # <<>> /\ Top \in Frame /\ Below \in Seq(Frame) /\ stack = <<Top>> \o Below
         /\ Top.at = "drain" /\ Top.last \in BOOLEAN /\ Top.failed \in BOOLEAN
         /\ [Top EXCEPT !.last = TRUE] \in Frame /\ [Top EXCEPT !.last = TRUE].at = "drain"
         /\ <<[Top EXCEPT !.last = TRUE]>> \o Below \in Seq(Frame)
<1>1. stack # <<>> /\ Top.at = "drain"
  BY DEF In
<1>2. Top \in Frame /\ Below \in Seq(Frame) /\ stack = <<Top>> \o Below
  BY <1>1, TopTyped
<1>3. Top.last \in BOOLEAN /\ Top.failed \in BOOLEAN
  BY <1>1, <1>2, FrameKinds
<1>4. [Top EXCEPT !.last = TRUE] \in Frame /\ [Top EXCEPT !.last = TRUE].at = "drain"
  BY <1>1, <1>2, Turned
<1> QED BY <1>1, <1>2, <1>3, <1>4, Pushable

\* The frame of a loop that keeps a panic.
LEMMA FailedTyped ==
  ASSUME Typed, stack # <<>>, Top.at \in {"emit", "drain"}
  PROVE  /\ TopFailed = <<[Top EXCEPT !.failed = TRUE]>> \o Below
         /\ [Top EXCEPT !.failed = TRUE] \in Frame /\ [Top EXCEPT !.failed = TRUE].at = Top.at
         /\ Top.at = "emit" => /\ [Top EXCEPT !.failed = TRUE].sig = Top.sig
                               /\ Progress([Top EXCEPT !.failed = TRUE]) = Progress(Top)
                               /\ [Top EXCEPT !.failed = TRUE].pos = Top.pos
                               /\ [Top EXCEPT !.failed = TRUE].count = Top.count
         /\ TopFailed \in Seq(Frame)
<1>1. Top \in Frame /\ Below \in Seq(Frame) /\ stack = <<Top>> \o Below
  BY TopTyped
<1>2. /\ [Top EXCEPT !.failed = TRUE] \in Frame /\ [Top EXCEPT !.failed = TRUE].at = Top.at
      /\ Top.at = "emit" => /\ [Top EXCEPT !.failed = TRUE].sig = Top.sig
                            /\ Progress([Top EXCEPT !.failed = TRUE]) = Progress(Top)
                            /\ [Top EXCEPT !.failed = TRUE].pos = Top.pos
                            /\ [Top EXCEPT !.failed = TRUE].count = Top.count
  BY <1>1, Turned
<1> QED BY <1>1, <1>2, Pushable DEF TopFailed

LEMMA TypedDrainNext ==
  ASSUME Typed, DrainNext
  PROVE  Typed'
<1>1. /\ In("drain") /\ pending # <<>> /\ pending' = Tail(pending)
      /\ UNCHANGED <<depth, processing, selector, watch, unwinding, calls, seen, behind>>
      /\ CommitTurn \/ KeepTurn \/ PanicTurn
  BY Drainings
<1>2. pending' \in Seq(Actions)
  <2>1. pending \in Seq(Actions)
    BY DEF Typed
  <2> QED BY <1>1, <2>1, HeadTailProperties
<1>3. stack \in Seq(Frame) /\ model \in Nat /\ model + 1 \in Nat
  BY DEF Typed
<1>4. CASE CommitTurn
  <2>1. model' \in Nat /\ Publish(stack) /\ UNCHANGED stale
    BY <1>3, <1>4 DEF CommitTurn
  <2>2. stack \in Seq(Frame)
    BY <1>3
  <2>3. /\ pendingCommit' = FALSE /\ revision' \in Nat /\ stack' \in Seq(Frame)
        /\ signals' \in [Signals -> SignalRecord]
        /\ \A g \in Signals : Sound(signals'[g])
    BY <2>1, <2>2, PublishTyped
  <2> QED BY <1>1, <1>2, <2>1, <2>3 DEF Typed
<1>5. CASE KeepTurn
  BY <1>1, <1>2, <1>3, <1>5 DEF KeepTurn, Typed
<1>6. CASE PanicTurn
  <2>1. stack # <<>> /\ Top.at \in {"emit", "drain"}
    BY <1>1 DEF In
  <2>2. TopFailed \in Seq(Frame)
    BY <2>1, FailedTyped
  <2>3. model' \in Nat /\ stale' \in BOOLEAN
    BY <1>3, <1>6 DEF PanicTurn, Typed
  <2> QED BY <1>1, <1>2, <1>6, <2>2, <2>3 DEF PanicTurn, Typed
<1> QED BY <1>1, <1>4, <1>5, <1>6

LEMMA TypedDrainLeftOver ==
  ASSUME Typed, DrainLeftOver
  PROVE  Typed'
<1>1. /\ In("drain") /\ Publish(<<[Top EXCEPT !.last = TRUE]>> \o Below)
      /\ UNCHANGED <<model, pending, depth, processing, selector, watch, unwinding, calls,
                     seen, stale, behind>>
  BY DEF DrainLeftOver
<1>2. <<[Top EXCEPT !.last = TRUE]>> \o Below \in Seq(Frame)
  BY <1>1, DrainTop
<1>3. /\ pendingCommit' = FALSE /\ revision' \in Nat /\ stack' \in Seq(Frame)
      /\ signals' \in [Signals -> SignalRecord]
      /\ \A g \in Signals : Sound(signals'[g])
  BY <1>1, <1>2, PublishTyped
<1> QED BY <1>1, <1>3 DEF Typed

LEMMA TypedDrainEnd ==
  ASSUME Typed, DrainEnd
  PROVE  Typed'
<1>1. /\ In("drain") /\ processing' = FALSE /\ stack' = Below /\ unwinding' = Top.failed
      /\ UNCHANGED <<model, pending, revision, depth, pendingCommit, selector, signals,
                     watch, calls, seen, stale, behind>>
  BY DEF DrainEnd
<1>2. Below \in Seq(Frame) /\ Top.failed \in BOOLEAN
  BY <1>1, DrainTop
<1> QED BY <1>1, <1>2 DEF Typed

LEMMA TypedDrained ==
  ASSUME Typed, NEW under \in Seq(Frame), EnterDrain(under)
  PROVE  stack' \in Seq(Frame) /\ processing' \in BOOLEAN
<1>1. processing \in BOOLEAN /\ Draining \in Frame
  BY NewFrames DEF Typed
<1> QED BY <1>1, Pushable DEF EnterDrain

LEMMA TypedDispatch ==
  ASSUME Typed, NEW action \in Actions, Dispatch(action)
  PROVE  Typed'
<1>1. /\ calls < MaxActions /\ calls' = calls + 1 /\ pending' = Append(pending, action)
      /\ EnterDrain(stack)
      /\ UNCHANGED <<model, revision, depth, pendingCommit, selector, signals, watch,
                     unwinding, seen, stale, behind>>
  BY DEF Dispatch
<1>2. stack \in Seq(Frame)
  BY DEF Typed
<1>3. stack' \in Seq(Frame) /\ processing' \in BOOLEAN
  BY <1>1, <1>2, TypedDrained
<1>4. calls' \in 0 .. MaxActions
  BY <1>1, Bounds_Assumption DEF Typed
<1>5. pending' \in Seq(Actions)
  <2>1. pending \in Seq(Actions)
    BY DEF Typed
  <2> QED BY <1>1, <2>1, AppendProperties
<1> QED BY <1>1, <1>3, <1>4, <1>5 DEF Typed

LEMMA SilentIs ==
  ASSUME DispatchSilent, model \in Nat
  PROVE  \/ model' = model + 1 /\ stale' = TRUE /\ UNCHANGED unwinding
         \/ UNCHANGED <<model, stale>> /\ unwinding' = TRUE
         \/ model' = model + 1 /\ stale' = TRUE /\ unwinding' = TRUE
<1>1. \/ ReduceSucceeds("select") /\ stale' = TRUE /\ UNCHANGED unwinding
      \/ ReducePanics("select") /\ unwinding' = TRUE
  BY DEF DispatchSilent
<1>2. ReduceSucceeds("select") => model' = model + 1
  BY DEF ReduceSucceeds
<1>3. ReducePanics("select") =>
        UNCHANGED <<model, stale>> \/ (model' = model + 1 /\ stale' = TRUE)
  BY DEF ReducePanics
<1> QED BY <1>1, <1>2, <1>3

LEMMA TypedDispatchSilent ==
  ASSUME Typed, DispatchSilent
  PROVE  Typed'
<1>1. /\ calls < MaxActions /\ calls' = calls + 1
      /\ UNCHANGED <<pending, revision, depth, pendingCommit, processing, selector,
                     signals, watch, stack, seen, behind>>
  BY DEF DispatchSilent
<1>2. calls' \in 0 .. MaxActions
  BY <1>1, Bounds_Assumption DEF Typed
<1>3. model \in Nat /\ stale \in BOOLEAN /\ unwinding \in BOOLEAN
  BY DEF Typed
<1>4. \/ model' = model + 1 /\ stale' = TRUE /\ unwinding' = unwinding
      \/ model' = model /\ stale' = stale /\ unwinding' = TRUE
      \/ model' = model + 1 /\ stale' = TRUE /\ unwinding' = TRUE
  BY <1>3, SilentIs, Zenon
<1>5. model' \in Nat
  BY <1>3, <1>4
<1>6. stale' \in BOOLEAN
  BY <1>3, <1>4, Zenon
<1>7. unwinding' \in BOOLEAN
  BY <1>3, <1>4, Zenon
<1> QED BY <1>1, <1>2, <1>5, <1>6, <1>7 DEF Typed

LEMMA TypedTransactions ==
  ASSUME Typed, BeginTransaction \/ TransactionReturns \/ WithState \/ BeginWatch
  PROVE  Typed'
<1>1. stack \in Seq(Frame)
  BY DEF Typed
<1>2. CASE BeginTransaction
  <2>1. /\ depth < MaxDepth /\ depth' = depth + 1 /\ stack' = <<[at |-> "body"]>> \o stack
        /\ UNCHANGED <<model, pending, revision, pendingCommit, processing, selector,
                       signals, watch, unwinding, calls, seen, stale, behind>>
    BY <1>2 DEF BeginTransaction
  <2>2. stack' \in Seq(Frame)
    BY <1>1, <2>1, NewFrames, Pushable
  <2>3. depth' \in 0 .. MaxDepth
    BY <2>1 DEF Typed, MaxDepth
  <2> QED BY <2>1, <2>2, <2>3 DEF Typed
<1>3. CASE TransactionReturns
  <2>1. /\ stack # <<>> /\ Top.at = "ending" /\ stack' = Below
        /\ unwinding' = (unwinding \/ Top.failed)
        /\ UNCHANGED <<store, selector, signals, watch, calls, seen, stale, behind>>
    BY <1>3 DEF TransactionReturns, In
  <2>2. stack' \in Seq(Frame)
    BY <2>1, TopTyped
  <2>3. unwinding' \in BOOLEAN
    BY <2>1
  <2> QED BY <2>1, <2>2, <2>3 DEF Typed, store
<1>4. CASE WithState
  <2>1. /\ stack' = <<[at |-> "reading"]>> \o stack
        /\ UNCHANGED <<store, selector, signals, watch, unwinding, calls, seen, stale, behind>>
    BY <1>4 DEF WithState
  <2>2. stack' \in Seq(Frame)
    BY <1>1, <2>1, NewFrames, Pushable
  <2> QED BY <2>1, <2>2 DEF Typed, store
<1>5. CASE BeginWatch
  <2>1. /\ watch' = [watch EXCEPT !.shown = selector.value] /\ stack' = <<[at |-> "immediate"]>>
        /\ UNCHANGED <<store, selector, signals, unwinding, calls, seen, stale, behind>>
    BY <1>5 DEF BeginWatch
  <2>2. stack' \in Seq(Frame)
    BY <2>1, NewFrames
  <2>3. watch' \in [id : Nat, shown : Nat]
    <3>1. watch \in [id : Nat, shown : Nat]
      BY DEF Typed
    <3>2. selector.value \in Nat
      BY DEF Typed
    <3> QED BY <2>1, <3>1, <3>2
  <2> QED BY <2>1, <2>2, <2>3 DEF Typed, store
<1> QED BY <1>2, <1>3, <1>4, <1>5

\* What the application does to the signals.
LEMMA SubscribesIs ==
  ASSUME Typed, NEW sig \in Signals, SubscribeTo(sig)
  PROVE  /\ Sound(Subscribe(signals[sig])) /\ Sound(signals[sig])
         /\ signals' \in [Signals -> SignalRecord]
         /\ \A g \in Signals : /\ Sound(signals'[g])
                               /\ signals'[g] = IF g = sig THEN Subscribe(signals[sig])
                                                ELSE signals[g]
<1>1. Sound(signals[sig])
  BY DEF Typed
<1>2. Sound(Subscribe(signals[sig]))
  BY <1>1, SubscribeSound
<1>3. signals' = [signals EXCEPT ![sig] = Subscribe(signals[sig])]
  BY DEF SubscribeTo
<1> QED BY <1>1, <1>2, <1>3, OneSignal

LEMMA UnsubscribesIs ==
  ASSUME Typed, NEW sig \in Signals, NEW id,
         signals' = [signals EXCEPT ![sig] = Unsubscribe(signals[sig], id)]
  PROVE  /\ Sound(Unsubscribe(signals[sig], id)) /\ Sound(signals[sig])
         /\ signals' \in [Signals -> SignalRecord]
         /\ \A g \in Signals : /\ Sound(signals'[g])
                               /\ signals'[g] = IF g = sig THEN Unsubscribe(signals[sig], id)
                                                ELSE signals[g]
<1>1. Sound(signals[sig])
  BY DEF Typed
<1>2. Sound(Unsubscribe(signals[sig], id))
  BY <1>1, UnsubscribeSound
<1> QED BY <1>1, <1>2, OneSignal

LEMMA DisposeIs ==
  ASSUME Typed, DisposeSelector
  PROVE  /\ signals' \in [Signals -> SignalRecord]
         /\ signals'["commits"] = Unsubscribe(signals["commits"], Source)
         /\ signals'["changes"] = Clear(signals["changes"])
         /\ \A g \in Signals : Sound(signals'[g])
         /\ selector' = [selector EXCEPT !.disposed = TRUE]
         /\ selector' \in [value : Nat, disposed : BOOLEAN]
         /\ selector'.disposed /\ selector'.value = selector.value
         /\ UNCHANGED <<store, watch, stack, unwinding, calls, seen, stale, behind>>
<1>1. Sound(signals["commits"]) /\ Sound(signals["changes"])
  BY DEF Typed, Signals
<1>2. /\ Sound(Unsubscribe(signals["commits"], Source))
      /\ Sound(Clear(signals["changes"]))
  BY <1>1, UnsubscribeSound, ClearSound
<1>3. /\ Unsubscribe(signals["commits"], Source) \in SignalRecord
      /\ Clear(signals["changes"]) \in SignalRecord
  BY <1>2 DEF Sound
<1>4. /\ signals' = [commits |-> Unsubscribe(signals["commits"], Source),
                     changes |-> Clear(signals["changes"])]
      /\ selector' = [selector EXCEPT !.disposed = TRUE]
      /\ UNCHANGED <<store, watch, stack, unwinding, calls, seen, stale, behind>>
  BY DEF DisposeSelector
<1>5. /\ signals' \in [Signals -> SignalRecord]
      /\ signals'["commits"] = Unsubscribe(signals["commits"], Source)
      /\ signals'["changes"] = Clear(signals["changes"])
      /\ \A g \in Signals : Sound(signals'[g])
  BY <1>2, <1>3, <1>4 DEF Signals
<1>6. selector \in [value : Nat, disposed : BOOLEAN]
  BY DEF Typed
<1> QED BY <1>4, <1>5, <1>6

LEMMA TypedSubscriptions ==
  ASSUME Typed,
         \/ \E sig \in Signals :
              \/ SubscribeTo(sig)
              \/ \E id \in 1 .. MaxSubs[sig] : CloseSubscription(sig, id)
         \/ DisposeSelector \/ CloseWatch
  PROVE  Typed'
<1>1. ASSUME NEW sig \in Signals, SubscribeTo(sig) PROVE Typed'
  <2>1. /\ signals' \in [Signals -> SignalRecord]
        /\ \A g \in Signals : Sound(signals'[g])
    BY <1>1, SubscribesIs
  <2> QED BY <1>1, <2>1 DEF SubscribeTo, Typed, store
<1>2. ASSUME NEW sig \in Signals, NEW id, CloseSubscription(sig, id) PROVE Typed'
  <2>1. signals' = [signals EXCEPT ![sig] = Unsubscribe(signals[sig], id)]
    BY <1>2 DEF CloseSubscription
  <2>2. /\ signals' \in [Signals -> SignalRecord]
        /\ \A g \in Signals : Sound(signals'[g])
    BY <2>1, UnsubscribesIs
  <2> QED BY <1>2, <2>2 DEF CloseSubscription, Typed, store
<1>3. CASE DisposeSelector
  BY <1>3, DisposeIs DEF Typed, store
<1>4. CASE CloseWatch
  <2>1. /\ signals' = [signals EXCEPT !["changes"] = Unsubscribe(signals["changes"], watch.id)]
        /\ watch' = [id |-> 0, shown |-> 0]
        /\ UNCHANGED <<store, selector, stack, unwinding, calls, seen, stale, behind>>
    BY <1>4 DEF CloseWatch
  <2>2. "changes" \in Signals
    BY DEF Signals
  <2>3. /\ signals' \in [Signals -> SignalRecord]
        /\ \A g \in Signals : Sound(signals'[g])
    BY <2>1, <2>2, UnsubscribesIs
  <2>4. watch' \in [id : Nat, shown : Nat]
    BY <2>1
  <2> QED BY <2>1, <2>3, <2>4 DEF Typed, store
<1> QED BY <1>1, <1>2, <1>3, <1>4

LEMMA TypedRefresh ==
  ASSUME Typed, Refresh
  PROVE  Typed'
<1>1. UNCHANGED <<store, calls, seen>>
  BY DEF Refresh
<1>2. CASE selector.disposed
  BY <1>1, <1>2 DEF Refresh, Typed, store
<1>3. CASE ~selector.disposed
  <2>1. SetSelector(stack) /\ UNCHANGED unwinding
    BY <1>3 DEF Refresh
  <2>2. stack \in Seq(Frame)
    BY DEF Typed
  <2>3. /\ selector' \in [value : Nat, disposed : BOOLEAN]
        /\ stack' \in Seq(Frame)
        /\ stale' = FALSE /\ watch' = watch /\ behind' \in BOOLEAN
        /\ signals' \in [Signals -> SignalRecord]
        /\ \A g \in Signals : Sound(signals'[g])
    BY <2>1, <2>2, SetSelectorTyped
  <2> QED BY <1>1, <2>1, <2>3 DEF Typed, store
<1> QED BY <1>2, <1>3

\* The end of a transaction's body.
LEMMA EndingTyped ==
  ASSUME Typed, stack # <<>>, NEW p \in BOOLEAN
  PROVE  /\ [at |-> "ending", failed |-> p] \in Frame
         /\ <<[at |-> "ending", failed |-> p]>> \o Below \in Seq(Frame)
BY TopTyped, NewFrames, Pushable

LEMMA TypedEnds ==
  ASSUME Typed, Stacked, stack # <<>>, EndBody \/ EndWatched \/ EndCalled
  PROVE  Typed'
<1>1. Top \in Frame /\ Below \in Seq(Frame) /\ stack = <<Top>> \o Below
  BY TopTyped
<1>2. CASE EndBody
  <2>1. PICK p \in BOOLEAN : EndTransaction(p)
    BY <1>2 DEF EndBody
  <2> DEFINE under == <<[at |-> "ending", failed |-> p]>> \o Below
  <2>2. under \in Seq(Frame)
    BY EndingTyped
  <2>3. /\ depth' = depth - 1 /\ unwinding' = FALSE
        /\ UNCHANGED <<model, pending, revision, pendingCommit, selector, signals, watch,
                       calls, seen, stale, behind>>
        /\ IF depth = 1 THEN EnterDrain(under) ELSE stack' = under /\ UNCHANGED processing
    BY <2>1 DEF EndTransaction
  <2> HIDE DEF under
  <2>4. stack' \in Seq(Frame) /\ processing' \in BOOLEAN
    <3>1. CASE depth = 1
      BY <2>2, <2>3, <3>1, TypedDrained
    <3>2. CASE depth # 1
      BY <2>2, <2>3, <3>2 DEF Typed
    <3> QED BY <3>1, <3>2
  <2>5. depth > 0
    <3> DEFINE x == Top
               s == Below
    <3>1. x \in Frame /\ s \in Seq(Frame) /\ x.at = "body"
      BY <1>1, <1>2 DEF EndBody
    <3> HIDE DEF x, s
    <3>2. Bodies(s) \in Nat /\ Bodies(<<x>> \o s) = Bodies(s) + 1
      BY <3>1, PushKeeps
    <3>3. depth = Bodies(<<x>> \o s)
      BY <1>1 DEF Stacked, x, s
    <3> QED BY <3>2, <3>3
  <2>6. depth' \in 0 .. MaxDepth
    BY <2>3, <2>5 DEF Typed, MaxDepth
  <2> QED BY <2>3, <2>4, <2>6 DEF Typed
<1>3. CASE EndWatched
  <2>1. /\ signals' = [signals EXCEPT !["changes"] = Subscribe(signals["changes"])]
        /\ watch' = [watch EXCEPT !.id = signals["changes"].next]
        /\ stack' = Below /\ unwinding' = FALSE
        /\ behind' = (watch.shown # selector.value)
        /\ UNCHANGED <<store, selector, calls, seen, stale>>
    BY <1>3 DEF EndWatched
  <2>2. "changes" \in Signals /\ Sound(signals["changes"])
    BY DEF Typed, Signals
  <2>3. Sound(Subscribe(signals["changes"]))
    BY <2>2, SubscribeSound
  <2>4. /\ signals' \in [Signals -> SignalRecord]
        /\ \A g \in Signals : Sound(signals'[g])
    BY <2>1, <2>2, <2>3, OneSignal
  <2>5. watch' \in [id : Nat, shown : Nat]
    <3>1. watch \in [id : Nat, shown : Nat]
      BY DEF Typed
    <3>2. signals["changes"] \in SignalRecord
      BY <2>2 DEF Sound
    <3>3. signals["changes"].next \in Nat
      BY <3>2 DEF SignalRecord
    <3> QED BY <2>1, <3>1, <3>3
  <2>6. behind' \in BOOLEAN
    BY <2>1
  <2> QED BY <1>1, <2>1, <2>4, <2>5, <2>6 DEF Typed, store
<1>4. CASE EndCalled
  BY <1>1, <1>4 DEF EndCalled, Typed, store
<1> QED BY <1>2, <1>3, <1>4

LEMMA TypedCatches ==
  ASSUME Typed, CatchInLoop \/ CatchInUserCode
  PROVE  Typed'
<1>1. CASE CatchInLoop
  <2>1. /\ stack # <<>> /\ Top.at \in {"emit", "drain"} /\ stack' = TopFailed
        /\ unwinding' = FALSE
        /\ UNCHANGED <<store, selector, signals, watch, calls, seen, stale, behind>>
    BY <1>1 DEF CatchInLoop
  <2>2. TopFailed \in Seq(Frame)
    BY <2>1, FailedTyped
  <2> QED BY <2>1, <2>2 DEF Typed, store
<1>2. CASE CatchInUserCode
  BY <1>2 DEF CatchInUserCode, Typed, store
<1> QED BY <1>1, <1>2

\* The end of application code in a return or a panic.
LEMMA EndsOf ==
  ASSUME Return \/ Panic
  PROVE  stack # <<>> /\ (EndBody \/ EndWatched \/ EndCalled)
<1>1. \E p \in BOOLEAN : EndUserCode(p)
  BY DEF Return, Panic
<1> QED BY <1>1, Ends

LEMMA TypedNext ==
  ASSUME Typed, Stacked, [Next]_vars
  PROVE  Typed'
<1>1. CASE UNCHANGED vars
  BY <1>1 DEF vars, store, Typed
<1>2. CASE EmitNext
  BY <1>2, TypedEmitNext
<1>3. CASE EmitEnd
  BY <1>3, TypedEmitEnd
<1>4. CASE DrainNext \/ DrainLeftOver \/ DrainEnd
  BY <1>4, TypedDrainNext, TypedDrainLeftOver, TypedDrainEnd
<1>5. CASE (\E action \in Actions : Dispatch(action)) \/ DispatchSilent
  BY <1>5, TypedDispatch, TypedDispatchSilent
<1>6. CASE BeginTransaction \/ TransactionReturns \/ WithState \/ BeginWatch
  BY <1>6, TypedTransactions
<1>7. CASE \/ \E sig \in Signals :
                \/ SubscribeTo(sig)
                \/ \E id \in 1 .. MaxSubs[sig] : CloseSubscription(sig, id)
           \/ DisposeSelector \/ CloseWatch
  BY <1>7, TypedSubscriptions
<1>8. CASE Refresh
  BY <1>8, TypedRefresh
<1>9. CASE Return \/ Panic
  BY <1>9, EndsOf, TypedEnds
<1>10. CASE CatchInLoop \/ CatchInUserCode
  BY <1>10, TypedCatches
<1> QED BY <1>1, <1>2, <1>3, <1>4, <1>5, <1>6, <1>7, <1>8, <1>9, <1>10 DEF Next

-----------------------------------------------------------------------------
\* Stacked, of any stack: p says whether drain runs, d counts the open
\* transactions, sg are the signals.
Balanced(s, p, d, sg) ==
  /\ Ordered(s)
  /\ p <=> Drains(s)
  /\ d = Bodies(s)
  /\ \A sig \in Signals :
       /\ sg[sig].depth = Many(s, sig)
       /\ \A f \in Emissions(s, sig) : f.count <= Len(sg[sig].bindings)

LEMMA StackedIs == Stacked <=> Balanced(stack, processing, depth, signals)
BY DEF Stacked, Balanced

LEMMA EmissionsTyped ==
  ASSUME NEW s \in Seq(Frame), NEW sig, NEW f \in Emissions(s, sig)
  PROVE  f.value \in Nat /\ f.pos \in Nat /\ f.count \in Nat /\ f.pos # 0
<1>1. PICK i \in DOMAIN s : Emits(s[i], sig) /\ f = Progress(s[i])
  BY DEF Emissions
<1>2. s[i] \in Frame /\ s[i].at = "emit"
  BY <1>1 DEF Emits
<1>3. s[i].value \in Nat /\ s[i].pos \in Nat /\ s[i].count \in Nat /\ s[i].pos # 0
  BY <1>2, FrameKinds
<1> QED BY <1>1, <1>3 DEF Progress

LEMMA PushOn ==
  ASSUME NEW x \in Frame, NEW s \in Seq(Frame), NEW p \in BOOLEAN, NEW q \in BOOLEAN,
         NEW d, NEW sg, NEW tg, Balanced(s, p, d, sg),
         x.at = "immediate" => s = <<>>,
         Emits(x, "commits") => s # <<>> /\ Head(s).at = "drain",
         x.at = "drain" => ~p,
         q <=> (p \/ x.at = "drain"),
         \A sig \in Signals :
           /\ tg[sig].depth = sg[sig].depth + (IF Emits(x, sig) THEN 1 ELSE 0)
           /\ Len(tg[sig].bindings) \in Nat /\ Len(sg[sig].bindings) \in Nat
           /\ Len(tg[sig].bindings) >= Len(sg[sig].bindings)
           /\ Emits(x, sig) => x.count <= Len(tg[sig].bindings)
  PROVE  Balanced(<<x>> \o s, q, d + (IF x.at = "body" THEN 1 ELSE 0), tg)
<1> DEFINE t == <<x>> \o s
<1>1. /\ Drains(t) <=> x.at = "drain" \/ Drains(s)
      /\ Bodies(t) = Bodies(s) + (IF x.at = "body" THEN 1 ELSE 0)
      /\ \A sig : /\ Many(t, sig) = Many(s, sig) + (IF Emits(x, sig) THEN 1 ELSE 0)
                  /\ Emissions(t, sig) = Emissions(s, sig) \cup
                          (IF Emits(x, sig) THEN {Progress(x)} ELSE {})
  BY PushKeeps
<1>2. Ordered(t)
  BY OrderedPush DEF Balanced
<1> HIDE DEF t
<1>3. q <=> Drains(t)
  BY <1>1 DEF Balanced
<1>4. d + (IF x.at = "body" THEN 1 ELSE 0) = Bodies(t)
  BY <1>1 DEF Balanced
<1>5. ASSUME NEW sig \in Signals
      PROVE  /\ tg[sig].depth = Many(t, sig)
             /\ \A f \in Emissions(t, sig) : f.count <= Len(tg[sig].bindings)
  <2>1. tg[sig].depth = Many(t, sig)
    BY <1>1 DEF Balanced
  <2>2. ASSUME NEW f \in Emissions(s, sig) PROVE f.count <= Len(tg[sig].bindings)
    <3>1. f.count \in Nat
      BY EmissionsTyped
    <3>2. f.count <= Len(sg[sig].bindings)
      BY DEF Balanced
    <3> QED BY <3>1, <3>2
  <2>3. Emits(x, sig) => Progress(x).count <= Len(tg[sig].bindings)
    BY DEF Progress
  <2> QED BY <1>1, <2>1, <2>2, <2>3
<1> QED BY <1>2, <1>3, <1>4, <1>5 DEF Balanced, t

LEMMA PopOff ==
  ASSUME NEW x \in Frame, NEW s \in Seq(Frame), NEW p \in BOOLEAN, NEW q \in BOOLEAN,
         NEW d, NEW sg, NEW tg, Balanced(<<x>> \o s, q, d, tg),
         p <=> (q /\ x.at # "drain"),
         \A sig \in Signals :
           /\ sg[sig].depth = tg[sig].depth - (IF Emits(x, sig) THEN 1 ELSE 0)
           /\ Len(tg[sig].bindings) \in Nat /\ Len(sg[sig].bindings) \in Nat
           /\ Len(sg[sig].bindings) >= Len(tg[sig].bindings) \/ sg[sig].depth = 0
  PROVE  /\ Balanced(s, p, d - (IF x.at = "body" THEN 1 ELSE 0), sg)
         /\ x.at = "immediate" => s = <<>>
         /\ Emits(x, "commits") => s # <<>> /\ Head(s).at = "drain"
         /\ x.at = "drain" => q /\ ~Drains(s)
<1> DEFINE t == <<x>> \o s
<1>1. /\ Drains(t) <=> x.at = "drain" \/ Drains(s)
      /\ Bodies(s) \in Nat
      /\ Bodies(t) = Bodies(s) + (IF x.at = "body" THEN 1 ELSE 0)
      /\ \A sig : /\ Many(s, sig) \in Nat
                  /\ Many(t, sig) = Many(s, sig) + (IF Emits(x, sig) THEN 1 ELSE 0)
                  /\ Emissions(t, sig) = Emissions(s, sig) \cup
                          (IF Emits(x, sig) THEN {Progress(x)} ELSE {})
  BY PushKeeps
<1>2. Ordered(t)
  BY DEF Balanced
<1>3. /\ Ordered(s)
      /\ x.at = "immediate" => s = <<>>
      /\ Emits(x, "commits") => s # <<>> /\ Head(s).at = "drain"
      /\ x.at = "drain" => ~Drains(s)
  BY <1>2, OrderedPush
<1>4. /\ q <=> Drains(t)
      /\ d = Bodies(t)
      /\ \A sig \in Signals :
           /\ tg[sig].depth = Many(t, sig)
           /\ \A f \in Emissions(t, sig) : f.count <= Len(tg[sig].bindings)
  BY DEF Balanced
<1> HIDE DEF t
<1>5. p <=> Drains(s)
  BY <1>1, <1>3, <1>4
<1>6. d - (IF x.at = "body" THEN 1 ELSE 0) = Bodies(s)
  BY <1>1, <1>4
<1>7. ASSUME NEW sig \in Signals
      PROVE  /\ sg[sig].depth = Many(s, sig)
             /\ \A f \in Emissions(s, sig) : f.count <= Len(sg[sig].bindings)
  <2>1. sg[sig].depth = Many(s, sig)
    BY <1>1, <1>4
  <2>2. ASSUME NEW f \in Emissions(s, sig) PROVE f.count <= Len(sg[sig].bindings)
    <3>1. f.count \in Nat
      BY EmissionsTyped
    <3>2. f.count <= Len(tg[sig].bindings)
      BY <1>1, <1>4
    <3>3. sg[sig].depth # 0
      BY <2>1, NoneEmit
    <3> QED BY <3>1, <3>2, <3>3
  <2> QED BY <2>1, <2>2
<1> QED BY <1>1, <1>3, <1>4, <1>5, <1>6, <1>7 DEF Balanced

\* A frame that no count and no lock is about.
LEMMA PushQuiet ==
  ASSUME NEW x \in Frame, NEW s \in Seq(Frame), NEW p, NEW d, NEW sg,
         x.at \notin {"emit", "drain", "body"}
  PROVE  Balanced(<<x>> \o s, p, d, sg)
           <=> Balanced(s, p, d, sg) /\ (x.at = "immediate" => s = <<>>)
<1> DEFINE t == <<x>> \o s
<1>1. \A g : ~Emits(x, g)
  BY DEF Emits
<1>2. /\ Drains(t) <=> x.at = "drain" \/ Drains(s)
      /\ Bodies(s) \in Nat
      /\ Bodies(t) = Bodies(s) + (IF x.at = "body" THEN 1 ELSE 0)
      /\ \A g : /\ Many(s, g) \in Nat
                /\ Many(t, g) = Many(s, g) + (IF Emits(x, g) THEN 1 ELSE 0)
                /\ Emissions(t, g) = Emissions(s, g) \cup
                       (IF Emits(x, g) THEN {Progress(x)} ELSE {})
  BY PushKeeps
<1>3. Ordered(t) <=> Ordered(s) /\ (x.at = "immediate" => s = <<>>)
  BY <1>1, OrderedPush
<1> HIDE DEF t
<1>4. Bodies(t) = Bodies(s) /\ (Drains(t) <=> Drains(s))
  BY <1>2
<1>5. ASSUME NEW g PROVE Many(t, g) = Many(s, g) /\ Emissions(t, g) = Emissions(s, g)
  <2>1. Many(s, g) \in Nat /\ Many(t, g) = Many(s, g) + 0
    BY <1>1, <1>2
  <2>2. Emissions(t, g) = Emissions(s, g) \cup {}
    BY <1>1, <1>2
  <2> QED BY <2>1, <2>2
<1> QED BY <1>3, <1>4, <1>5 DEF Balanced, t

\* drain ends.
LEMMA PopDrain ==
  ASSUME NEW x \in Frame, NEW s \in Seq(Frame), NEW p, NEW d, NEW sg,
         x.at = "drain", Balanced(<<x>> \o s, p, d, sg)
  PROVE  Balanced(s, FALSE, d, sg)
<1> DEFINE t == <<x>> \o s
<1>1. \A g : ~Emits(x, g)
  BY DEF Emits
<1>2. /\ Bodies(s) \in Nat
      /\ Bodies(t) = Bodies(s) + (IF x.at = "body" THEN 1 ELSE 0)
      /\ \A g : /\ Many(s, g) \in Nat
                /\ Many(t, g) = Many(s, g) + (IF Emits(x, g) THEN 1 ELSE 0)
                /\ Emissions(t, g) = Emissions(s, g) \cup
                       (IF Emits(x, g) THEN {Progress(x)} ELSE {})
  BY PushKeeps
<1>3. Ordered(t) <=> Ordered(s) /\ ~Drains(s)
  BY <1>1, OrderedPush
<1> HIDE DEF t
<1>4. Bodies(t) = Bodies(s)
  BY <1>2
<1>5. ASSUME NEW g PROVE Many(t, g) = Many(s, g) /\ Emissions(t, g) = Emissions(s, g)
  <2>1. Many(s, g) \in Nat /\ Many(t, g) = Many(s, g) + 0
    BY <1>1, <1>2
  <2>2. Emissions(t, g) = Emissions(s, g) \cup {}
    BY <1>1, <1>2
  <2> QED BY <2>1, <2>2
<1>6. Balanced(t, p, d, sg)
  BY DEF t
<1>7. ~Drains(s)
  BY <1>3, <1>6 DEF Balanced
<1> QED BY <1>3, <1>4, <1>5, <1>6, <1>7 DEF Balanced

\* The body of a transaction ends.
LEMMA PopBody ==
  ASSUME NEW x \in Frame, NEW s \in Seq(Frame), NEW p, NEW d \in Nat, NEW sg,
         x.at = "body", Balanced(<<x>> \o s, p, d, sg)
  PROVE  d # 0 /\ Balanced(s, p, d - 1, sg)
<1> DEFINE t == <<x>> \o s
<1>1. \A g : ~Emits(x, g)
  BY DEF Emits
<1>2. /\ Drains(t) <=> x.at = "drain" \/ Drains(s)
      /\ Bodies(s) \in Nat
      /\ Bodies(t) = Bodies(s) + (IF x.at = "body" THEN 1 ELSE 0)
      /\ \A g : /\ Many(s, g) \in Nat
                /\ Many(t, g) = Many(s, g) + (IF Emits(x, g) THEN 1 ELSE 0)
                /\ Emissions(t, g) = Emissions(s, g) \cup
                       (IF Emits(x, g) THEN {Progress(x)} ELSE {})
  BY PushKeeps
<1>3. Ordered(t) => Ordered(s)
  BY <1>1, OrderedPush
<1> HIDE DEF t
<1>4. Bodies(t) = Bodies(s) + 1 /\ (Drains(t) <=> Drains(s))
  BY <1>2
<1>5. ASSUME NEW g PROVE Many(t, g) = Many(s, g) /\ Emissions(t, g) = Emissions(s, g)
  <2>1. Many(s, g) \in Nat /\ Many(t, g) = Many(s, g) + 0
    BY <1>1, <1>2
  <2>2. Emissions(t, g) = Emissions(s, g) \cup {}
    BY <1>1, <1>2
  <2> QED BY <2>1, <2>2
<1>6. Balanced(t, p, d, sg)
  BY DEF t
<1>7. d # 0 /\ d - 1 = Bodies(s)
  BY <1>2, <1>4, <1>6 DEF Balanced
<1> QED BY <1>3, <1>4, <1>5, <1>6, <1>7 DEF Balanced

\* A frame replaced by one of the same kind.
LEMMA Retop ==
  ASSUME NEW x \in Frame, NEW y \in Frame, NEW s \in Seq(Frame), NEW p, NEW d, NEW sg,
         Balanced(<<x>> \o s, p, d, sg), y.at = x.at,
         x.at = "emit" => y.sig = x.sig /\ y.count = x.count
  PROVE  Balanced(<<y>> \o s, p, d, sg)
<1> DEFINE t == <<x>> \o s
           u == <<y>> \o s
<1>1. /\ Drains(t) <=> x.at = "drain" \/ Drains(s)
      /\ Bodies(t) = Bodies(s) + (IF x.at = "body" THEN 1 ELSE 0)
      /\ \A sig : /\ Many(t, sig) = Many(s, sig) + (IF Emits(x, sig) THEN 1 ELSE 0)
                  /\ Emissions(t, sig) = Emissions(s, sig) \cup
                          (IF Emits(x, sig) THEN {Progress(x)} ELSE {})
  BY PushKeeps
<1>2. /\ Drains(u) <=> y.at = "drain" \/ Drains(s)
      /\ Bodies(u) = Bodies(s) + (IF y.at = "body" THEN 1 ELSE 0)
      /\ \A sig : /\ Many(u, sig) = Many(s, sig) + (IF Emits(y, sig) THEN 1 ELSE 0)
                  /\ Emissions(u, sig) = Emissions(s, sig) \cup
                          (IF Emits(y, sig) THEN {Progress(y)} ELSE {})
  BY PushKeeps
<1>3. \A sig : Emits(x, sig) <=> Emits(y, sig)
  BY DEF Emits
<1>4. Ordered(u)
  <2>1. Ordered(t)
    BY DEF Balanced
  <2> QED BY <1>3, <2>1, OrderedPush
<1> HIDE DEF t, u
<1>5. /\ p <=> Drains(t)
      /\ d = Bodies(t)
      /\ \A sig \in Signals :
           /\ sg[sig].depth = Many(t, sig)
           /\ \A f \in Emissions(t, sig) : f.count <= Len(sg[sig].bindings)
  BY DEF Balanced, t
<1>6. (p <=> Drains(u)) /\ d = Bodies(u)
  BY <1>1, <1>2, <1>5
<1>7. ASSUME NEW sig \in Signals
      PROVE  /\ sg[sig].depth = Many(u, sig)
             /\ \A f \in Emissions(u, sig) : f.count <= Len(sg[sig].bindings)
  <2>1. sg[sig].depth = Many(u, sig)
    BY <1>1, <1>2, <1>3, <1>5
  <2>2. Emits(y, sig) => Progress(x).count = Progress(y).count
    BY DEF Emits, Progress
  <2> QED BY <1>1, <1>2, <1>3, <1>5, <2>1, <2>2
<1> QED BY <1>4, <1>6, <1>7 DEF Balanced, u

\* The signals change, the stack does not.
LEMMA Steady ==
  ASSUME NEW s \in Seq(Frame), NEW p, NEW d, NEW sg, NEW tg, Balanced(s, p, d, sg),
         \A sig \in Signals : /\ Keeps(sg[sig], tg[sig])
                              /\ Len(sg[sig].bindings) \in Nat /\ Len(tg[sig].bindings) \in Nat
                              /\ sg[sig].depth \in Nat
  PROVE  Balanced(s, p, d, tg)
<1> SUFFICES ASSUME NEW sig \in Signals
             PROVE /\ tg[sig].depth = Many(s, sig)
                   /\ \A f \in Emissions(s, sig) : f.count <= Len(tg[sig].bindings)
  BY DEF Balanced
<1>1. /\ tg[sig].depth = sg[sig].depth
      /\ sg[sig].depth > 0 => Len(tg[sig].bindings) >= Len(sg[sig].bindings)
  BY DEF Keeps
<1>2. sg[sig].depth = Many(s, sig)
  BY DEF Balanced
<1>3. ASSUME NEW f \in Emissions(s, sig) PROVE f.count <= Len(tg[sig].bindings)
  <2>1. f.count \in Nat
    BY EmissionsTyped
  <2>2. f.count <= Len(sg[sig].bindings)
    BY DEF Balanced
  <2>3. sg[sig].depth # 0 /\ sg[sig].depth \in Nat
    BY <1>2, NoneEmit
  <2> QED BY <1>1, <2>1, <2>2, <2>3
<1> QED BY <1>1, <1>2, <1>3

\* The lengths and depths of the signals are numbers.
LEMMA SignalNumbers ==
  ASSUME Typed
  PROVE  \A sig \in Signals : /\ Len(signals[sig].bindings) \in Nat
                              /\ signals[sig].depth \in Nat
                              /\ signals[sig].next \in Nat
<1> SUFFICES ASSUME NEW sig \in Signals
             PROVE /\ Len(signals[sig].bindings) \in Nat
                   /\ signals[sig].depth \in Nat /\ signals[sig].next \in Nat
  OBVIOUS
<1>1. signals[sig] \in SignalRecord
  BY DEF Typed
<1> QED BY <1>1, BindingsTyped DEF SignalRecord

\* An emission starts on top of under.
LEMMA StackedStart ==
  ASSUME Typed, Typed', NEW sig \in Signals, NEW value \in Nat, NEW under \in Seq(Frame),
         StartEmit(sig, value, under),
         Balanced(under, processing, depth, signals), UNCHANGED <<processing, depth>>,
         sig = "commits" => under # <<>> /\ Head(under).at = "drain"
  PROVE  Balanced(stack', processing', depth', signals')
<1> DEFINE x == Emission(sig, value)
<1>1. /\ x \in Frame /\ x.at = "emit" /\ x.sig = sig /\ x.count = Len(signals[sig].bindings)
      /\ stack' = <<x>> \o under
      /\ \A g \in Signals : /\ signals'[g].bindings = signals[g].bindings
                            /\ signals'[g].depth
                                 = signals[g].depth + (IF g = sig THEN 1 ELSE 0)
  BY StartEmitTyped
<1> HIDE DEF x
<1>2. \A g \in Signals : Len(signals[g].bindings) \in Nat
  BY SignalNumbers
<1>3. processing \in BOOLEAN /\ depth + 0 = depth
  BY DEF Typed
<1>4. \A g : Emits(x, g) <=> g = sig
  BY <1>1 DEF Emits
<1>5. \A g \in Signals :
        /\ signals'[g].depth = signals[g].depth + (IF Emits(x, g) THEN 1 ELSE 0)
        /\ Len(signals'[g].bindings) \in Nat /\ Len(signals[g].bindings) \in Nat
        /\ Len(signals'[g].bindings) >= Len(signals[g].bindings)
        /\ Emits(x, g) => x.count <= Len(signals'[g].bindings)
  BY <1>1, <1>2, <1>4
<1>6. x.at # "immediate" /\ x.at # "drain" /\ x.at # "body"
  BY <1>1
<1>7. Emits(x, "commits") => under # <<>> /\ Head(under).at = "drain"
  BY <1>4
<1>8. x \in Frame /\ processing \in BOOLEAN
  BY <1>1, <1>3
<1> DEFINE tg == signals'
           sg == signals
           p == processing
           d == depth
<1>9. Balanced(<<x>> \o under, p, d + (IF x.at = "body" THEN 1 ELSE 0), tg)
  <2>1. x \in Frame /\ p \in BOOLEAN /\ Balanced(under, p, d, sg)
    BY <1>8
  <2>2. \A g \in Signals :
          /\ tg[g].depth = sg[g].depth + (IF Emits(x, g) THEN 1 ELSE 0)
          /\ Len(tg[g].bindings) \in Nat /\ Len(sg[g].bindings) \in Nat
          /\ Len(tg[g].bindings) >= Len(sg[g].bindings)
          /\ Emits(x, g) => x.count <= Len(tg[g].bindings)
    BY <1>5
  <2> HIDE DEF tg, sg, p, d
  <2> QED BY <1>6, <1>7, <2>1, <2>2, PushOn
<1> QED BY <1>1, <1>3, <1>6, <1>9

-----------------------------------------------------------------------------
\* Stacked is kept by every step.
LEMMA StackedInit == Init => Stacked
<1> SUFFICES ASSUME Init PROVE Stacked
  OBVIOUS
<1>1. stack = <<>> /\ processing = FALSE /\ depth = 0
  BY DEF Init
<1>2. signals["commits"].depth = 0 /\ signals["changes"].depth = 0
  <2>1. /\ Sound(NewSignal) /\ NewSignal.depth = 0
        /\ Keeps(NewSignal, Subscribe(NewSignal))
    BY NewSignalSound, SubscribeSound
  <2>2. Subscribe(NewSignal).depth = 0
    BY <2>1 DEF Keeps
  <2> QED BY <2>1, <2>2 DEF Init
<1> QED BY <1>1, <1>2, NoCalls DEF Stacked, Signals

\* The loop's frame stays on top.
LEMMA StackedUnder ==
  ASSUME Typed, Stacked, In("emit")
  PROVE  Balanced(Under, processing, depth, signals)
<1> DEFINE x == Top
           y == [Top EXCEPT !.pos = @ + 1]
           s == Below
<1>1. /\ x \in Frame /\ s \in Seq(Frame) /\ stack = <<x>> \o s /\ x.at = "emit"
      /\ y \in Frame
  BY Emitting
<1>2. y.at = "emit" /\ y.sig = x.sig /\ y.count = x.count
  BY <1>1, Turned
<1>3. Balanced(<<x>> \o s, processing, depth, signals)
  BY <1>1, StackedIs
<1> HIDE DEF x, y, s
<1>4. Balanced(<<y>> \o s, processing, depth, signals)
  BY <1>1, <1>2, <1>3, Retop
<1> QED BY <1>4 DEF y, s, Under

\* So it does when it keeps a panic.
LEMMA StackedFailed ==
  ASSUME Typed, Stacked, stack # <<>>, Top.at \in {"emit", "drain"}
  PROVE  Balanced(TopFailed, processing, depth, signals)
<1> DEFINE x == Top
           y == [Top EXCEPT !.failed = TRUE]
           s == Below
<1>1. x \in Frame /\ s \in Seq(Frame) /\ stack = <<x>> \o s
  BY TopTyped
<1>2. /\ TopFailed = <<y>> \o s /\ y \in Frame /\ y.at = x.at
      /\ x.at = "emit" => y.sig = x.sig /\ y.count = x.count
  BY FailedTyped
<1>3. Balanced(<<x>> \o s, processing, depth, signals)
  BY <1>1, StackedIs
<1> HIDE DEF x, y, s
<1>4. Balanced(<<y>> \o s, processing, depth, signals)
  BY <1>1, <1>2, <1>3, Retop
<1> QED BY <1>2, <1>4

\* A call of application code, or a frame kept for its end.
LEMMA StackedPush ==
  ASSUME NEW x \in Frame, NEW s \in Seq(Frame), Balanced(s, processing, depth, signals),
         x.at \in {"listener", "reading", "ending"}
  PROVE  Balanced(<<x>> \o s, processing, depth, signals)
BY PushQuiet

\* A frame that is no loop's is taken off.
LEMMA StackedPop ==
  ASSUME Typed, Stacked, stack # <<>>, Top.at \notin {"emit", "drain", "body"}
  PROVE  /\ Balanced(Below, processing, depth, signals)
         /\ Top.at = "immediate" => Below = <<>>
<1> DEFINE x == Top
           s == Below
<1>1. x \in Frame /\ s \in Seq(Frame) /\ x.at \notin {"emit", "drain", "body"}
  BY TopTyped
<1>2. Balanced(<<x>> \o s, processing, depth, signals)
  BY TopTyped, StackedIs
<1> HIDE DEF x, s
<1> QED BY <1>1, <1>2, PushQuiet DEF x, s

LEMMA StackedSet ==
  ASSUME Typed, Typed', NEW under \in Seq(Frame), SetSelector(under),
         Balanced(under, processing, depth, signals), UNCHANGED <<processing, depth>>
  PROVE  Stacked'
<1>1. Balanced(stack', processing', depth', signals')
  <2>1. CASE selector.value = model
    <3>1. stack' = under /\ signals' = signals
      BY <2>1 DEF SetSelector
    <3> QED BY <3>1
  <2>2. CASE selector.value # model
    <3>1. StartEmit("changes", model, under)
      BY <2>2 DEF SetSelector
    <3>2. "changes" \in Signals /\ model \in Nat
      BY DEF Typed, Signals
    <3> QED BY <3>1, <3>2, StackedStart
  <2> QED BY <2>1, <2>2
<1> QED BY <1>1 DEF Stacked, Balanced

LEMMA StackedEmitNext ==
  ASSUME Typed, Typed', Stacked, EmitNext
  PROVE  Stacked'
<1>1. /\ In("emit") /\ Top.pos <= Top.count /\ UNCHANGED <<processing, depth>>
      /\ SkipTurn \/ FailTurn \/ SetTurn \/ CallTurn
  BY Turns DEF store
<1>2. /\ Top.sig \in Signals /\ Under \in Seq(Frame)
  BY <1>1, Emitting
<1>3. Bound.id \in Nat
  BY <1>1, BoundTyped
<1>4. Balanced(Under, processing, depth, signals)
  BY <1>1, StackedUnder
<1>5. CASE SkipTurn \/ FailTurn
  <2>1. stack' = Under /\ signals' = signals
    BY <1>5 DEF SkipTurn, FailTurn
  <2> QED BY <1>1, <1>4, <2>1 DEF Balanced, Stacked
<1>6. CASE SetTurn
  <2>1. SetSelector(Under)
    BY <1>6 DEF SetTurn
  <2> QED BY <1>1, <1>2, <1>4, <2>1, StackedSet
<1>7. CASE CallTurn
  <2> DEFINE x == [at |-> "listener", sig |-> Top.sig, id |-> Bound.id]
  <2>1. x \in Frame /\ x.at = "listener"
    BY <1>2, <1>3, NewFrames
  <2>2. stack' = <<x>> \o Under /\ signals' = signals
    BY <1>7 DEF CallTurn
  <2> HIDE DEF x
  <2>3. Balanced(<<x>> \o Under, processing, depth, signals)
    BY <1>2, <1>4, <2>1, StackedPush
  <2> QED BY <1>1, <2>2, <2>3 DEF Balanced, Stacked
<1> QED BY <1>1, <1>5, <1>6, <1>7

LEMMA StackedEmitEnd ==
  ASSUME Typed, Typed', Stacked, EmitEnd
  PROVE  Stacked'
<1> DEFINE x == Top
           s == Below
           p == processing
           d == depth
           tg == signals
           sg == signals'
<1>1. /\ In("emit") /\ stack' = s
      /\ signals' = [signals EXCEPT ![x.sig] = LeaveEmit(signals[x.sig])]
      /\ UNCHANGED <<processing, depth>>
  BY DEF EmitEnd, store
<1>2. /\ x \in Frame /\ s \in Seq(Frame) /\ stack = <<x>> \o s /\ x.at = "emit"
      /\ x.sig \in Signals /\ Sound(signals[x.sig]) /\ signals[x.sig].depth > 0
  BY <1>1, Emitting
<1>3. Sound(LeaveEmit(signals[x.sig]))
  BY <1>2, LeaveSound
<1>4. \A g \in Signals : sg[g] = IF g = x.sig THEN LeaveEmit(signals[x.sig]) ELSE signals[g]
  BY <1>1, <1>2, <1>3, OneSignal
<1>5. /\ LeaveEmit(signals[x.sig]).depth = signals[x.sig].depth - 1
      /\ \/ LeaveEmit(signals[x.sig]).bindings = signals[x.sig].bindings
         \/ LeaveEmit(signals[x.sig]).depth = 0
  <2>1. signals[x.sig].depth \in Nat
    BY <1>2, SignalNumbers
  <2>2. LeaveEmit(signals[x.sig]).depth = signals[x.sig].depth - 1
    BY <1>2, LeaveSound
  <2>3. LeaveEmit(signals[x.sig]).depth > 0 =>
          LeaveEmit(signals[x.sig]).bindings = signals[x.sig].bindings
    BY <1>2, LeaveSound
  <2> QED BY <1>2, <2>1, <2>2, <2>3
<1>6. \A g \in Signals : Len(signals[g].bindings) \in Nat /\ signals[g].depth \in Nat
  BY SignalNumbers
<1>7. \A g \in Signals : Len(sg[g].bindings) \in Nat
  <2>1. ASSUME NEW g \in Signals PROVE Len(sg[g].bindings) \in Nat
    <3>1. Sound(sg[g])
      BY DEF Typed
    <3>2. sg[g] \in SignalRecord
      BY <3>1 DEF Sound
    <3> QED BY <3>2, BindingsTyped
  <2> QED BY <2>1
<1>8. \A g : Emits(x, g) <=> g = x.sig
  BY <1>2 DEF Emits
<1>9. Balanced(<<x>> \o s, p, d, tg)
  BY <1>2, StackedIs
<1>10. p \in BOOLEAN /\ d \in Nat
  BY DEF Typed
<1>11. \A g \in Signals :
         /\ sg[g].depth = tg[g].depth - (IF Emits(x, g) THEN 1 ELSE 0)
         /\ Len(tg[g].bindings) \in Nat /\ Len(sg[g].bindings) \in Nat
         /\ Len(sg[g].bindings) >= Len(tg[g].bindings) \/ sg[g].depth = 0
  BY <1>4, <1>5, <1>6, <1>7, <1>8
<1> HIDE DEF x, s, p, d, tg, sg
<1>12. p \in BOOLEAN /\ x \in Frame /\ s \in Seq(Frame) /\ x.at # "body" /\ x.at # "drain"
  BY <1>2, <1>10
<1>13. Balanced(s, p, d - (IF x.at = "body" THEN 1 ELSE 0), sg)
  BY <1>9, <1>11, <1>12, PopOff
<1>14. Balanced(s, p, d, sg)
  BY <1>10, <1>12, <1>13
<1>15. Balanced(stack', processing', depth', signals')
  BY <1>1, <1>14 DEF s, p, d, sg
<1> QED BY <1>15 DEF Balanced, Stacked

LEMMA StackedPublish ==
  ASSUME Typed, Typed', NEW under \in Seq(Frame), Publish(under),
         Balanced(under, processing, depth, signals), UNCHANGED <<processing, depth>>,
         under # <<>>, Head(under).at = "drain"
  PROVE  Stacked'
<1>1. StartEmit("commits", revision', under) /\ "commits" \in Signals
  BY DEF Publish, Signals
<1>2. revision' \in Nat
  BY DEF Typed
<1> DEFINE value == revision'
<1>3. value \in Nat /\ StartEmit("commits", value, under)
  BY <1>1, <1>2
<1> HIDE DEF value
<1>4. Balanced(stack', processing', depth', signals')
  BY <1>1, <1>3, StackedStart
<1> QED BY <1>4 DEF Balanced, Stacked

LEMMA StackedDrainNext ==
  ASSUME Typed, Typed', Stacked, DrainNext
  PROVE  Stacked'
<1>1. /\ In("drain") /\ UNCHANGED <<processing, depth>>
      /\ CommitTurn \/ KeepTurn \/ PanicTurn
  BY Drainings
<1>2. stack # <<>> /\ Head(stack).at = "drain"
  BY <1>1 DEF In, Top
<1>3. Balanced(stack, processing, depth, signals) /\ stack \in Seq(Frame)
  BY StackedIs DEF Typed
<1>4. CASE CommitTurn
  <2>1. Publish(stack) /\ stack \in Seq(Frame)
    BY <1>3, <1>4 DEF CommitTurn
  <2> DEFINE under == stack
  <2>2. /\ under \in Seq(Frame) /\ Publish(under) /\ Balanced(under, processing, depth, signals)
        /\ under # <<>> /\ Head(under).at = "drain"
    BY <1>2, <1>3, <2>1
  <2> HIDE DEF under
  <2> QED BY <1>1, <2>2, StackedPublish
<1>5. CASE KeepTurn
  BY <1>1, <1>3, <1>5 DEF KeepTurn, Balanced, Stacked
<1>6. CASE PanicTurn
  <2>1. Balanced(TopFailed, processing, depth, signals)
    BY <1>1, StackedFailed DEF In
  <2> QED BY <1>1, <1>6, <2>1 DEF PanicTurn, Balanced, Stacked
<1> QED BY <1>1, <1>4, <1>5, <1>6

LEMMA StackedDrainLeftOver ==
  ASSUME Typed, Typed', Stacked, DrainLeftOver
  PROVE  Stacked'
<1> DEFINE x == Top
           y == [Top EXCEPT !.last = TRUE]
           s == Below
           under == <<y>> \o s
<1>1. In("drain") /\ Publish(under) /\ UNCHANGED <<processing, depth>>
  BY DEF DrainLeftOver
<1>2. /\ x \in Frame /\ s \in Seq(Frame) /\ stack = <<x>> \o s /\ x.at = "drain"
      /\ y \in Frame /\ y.at = "drain"
  BY <1>1, DrainTop
<1>3. Balanced(<<x>> \o s, processing, depth, signals)
  BY <1>2, StackedIs
<1> HIDE DEF x, y, s
<1>4. Balanced(under, processing, depth, signals)
  BY <1>2, <1>3, Retop
<1>5. under \in Seq(Frame) /\ under # <<>> /\ Head(under).at = "drain"
  BY <1>2, Pushed
<1> HIDE DEF under
<1> QED BY <1>1, <1>4, <1>5, StackedPublish

LEMMA StackedDrainEnd ==
  ASSUME Typed, Stacked, DrainEnd
  PROVE  Stacked'
<1> DEFINE x == Top
           s == Below
<1>1. In("drain") /\ processing' = FALSE /\ stack' = s /\ UNCHANGED <<depth, signals>>
  BY DEF DrainEnd
<1>2. x \in Frame /\ s \in Seq(Frame) /\ stack = <<x>> \o s /\ x.at = "drain"
  BY <1>1, DrainTop
<1>3. Balanced(<<x>> \o s, processing, depth, signals)
  BY <1>2, StackedIs
<1> HIDE DEF x, s
<1>4. Balanced(s, FALSE, depth, signals)
  BY <1>2, <1>3, PopDrain
<1>5. Balanced(stack', processing', depth', signals')
  <2>1. stack' = s /\ processing' = FALSE /\ depth' = depth /\ signals' = signals
    BY <1>1
  <2> QED BY <1>4, <2>1, Zenon
<1> QED BY <1>5 DEF Balanced, Stacked

\* A call of drain that finds it running leaves the stack as it is.
LEMMA StackedDrained ==
  ASSUME Typed, NEW under \in Seq(Frame), EnterDrain(under), NEW d \in Nat,
         Balanced(under, processing, d, signals)
  PROVE  Balanced(stack', processing', d, signals)
<1>1. CASE processing
  <2>1. stack' = under /\ processing' = processing
    BY <1>1 DEF EnterDrain
  <2> QED BY <2>1
<1>2. CASE ~processing
  <2> DEFINE x == Draining
             p == processing
             sg == signals
  <2>1. processing' = TRUE /\ stack' = <<x>> \o under
    BY <1>2 DEF EnterDrain
  <2>2. x \in Frame /\ x.at = "drain"
    BY NewFrames DEF Draining
  <2>3. p \in BOOLEAN /\ ~p /\ Balanced(under, p, d, sg)
    BY <1>2 DEF Typed
  <2>4. \A g \in Signals : Len(sg[g].bindings) \in Nat /\ sg[g].depth \in Nat
    BY SignalNumbers
  <2> HIDE DEF x, p, sg
  <2>5. (\A g : ~Emits(x, g)) /\ x.at # "body" /\ x.at # "immediate"
    BY <2>2 DEF Emits
  <2>6. \A g \in Signals :
          /\ sg[g].depth = sg[g].depth + (IF Emits(x, g) THEN 1 ELSE 0)
          /\ Len(sg[g].bindings) >= Len(sg[g].bindings)
          /\ Emits(x, g) => x.count <= Len(sg[g].bindings)
    BY <2>4, <2>5
  <2>7. Balanced(<<x>> \o under, TRUE, d + (IF x.at = "body" THEN 1 ELSE 0), sg)
    <3>1. TRUE \in BOOLEAN /\ (TRUE <=> (p \/ x.at = "drain"))
      BY <2>2
    <3> QED BY <2>2, <2>3, <2>4, <2>5, <2>6, <3>1, PushOn
  <2>8. Balanced(<<x>> \o under, TRUE, d, sg)
    <3>1. d + (IF x.at = "body" THEN 1 ELSE 0) = d
      BY <2>5
    <3> QED BY <2>7, <3>1, Zenon
  <2> QED BY <2>1, <2>8 DEF sg
<1> QED BY <1>1, <1>2

LEMMA StackedCalls ==
  ASSUME Typed, Stacked,
         \/ \E action \in Actions : Dispatch(action)
         \/ DispatchSilent \/ BeginTransaction \/ TransactionReturns \/ WithState \/ BeginWatch
  PROVE  Stacked'
<1>1. /\ stack \in Seq(Frame) /\ Balanced(stack, processing, depth, signals)
      /\ depth \in Nat
  BY StackedIs DEF Typed
<1>2. ASSUME NEW action \in Actions, Dispatch(action) PROVE Stacked'
  <2>1. EnterDrain(stack) /\ UNCHANGED <<depth, signals>>
    BY <1>2 DEF Dispatch
  <2>2. stack \in Seq(Frame) /\ depth \in Nat
    BY <1>1
  <2> DEFINE under == stack
             d == depth
  <2>3. /\ under \in Seq(Frame) /\ d \in Nat /\ EnterDrain(under)
        /\ Balanced(under, processing, d, signals)
    BY <1>1, <2>1
  <2> HIDE DEF under, d
  <2>4. Balanced(stack', processing', d, signals)
    BY <2>3, StackedDrained
  <2> QED BY <2>1, <2>4 DEF Balanced, Stacked, d
<1>3. CASE DispatchSilent
  <2>1. UNCHANGED <<processing, depth, signals, stack>>
    BY <1>3 DEF DispatchSilent
  <2> QED BY <2>1 DEF Stacked
<1>4. CASE BeginTransaction
  <2> DEFINE x == [at |-> "body"]
             s == stack
             p == processing
             d == depth
             sg == signals
  <2>1. depth' = depth + 1 /\ stack' = <<x>> \o s /\ UNCHANGED <<processing, signals>>
    BY <1>4 DEF BeginTransaction
  <2>2. x \in Frame /\ x.at = "body" /\ s \in Seq(Frame) /\ p \in BOOLEAN
    BY <1>1, NewFrames DEF Typed
  <2>3. Balanced(s, p, d, sg)
    BY <1>1
  <2>4. \A g \in Signals : Len(sg[g].bindings) \in Nat /\ sg[g].depth \in Nat
    BY SignalNumbers
  <2> HIDE DEF x, s, p, d, sg
  <2>5. \A g : ~Emits(x, g)
    BY <2>2 DEF Emits
  <2>6. \A g \in Signals :
          /\ sg[g].depth = sg[g].depth + (IF Emits(x, g) THEN 1 ELSE 0)
          /\ Len(sg[g].bindings) >= Len(sg[g].bindings)
          /\ Emits(x, g) => x.count <= Len(sg[g].bindings)
    BY <2>4, <2>5
  <2>7. Balanced(<<x>> \o s, p, d + (IF x.at = "body" THEN 1 ELSE 0), sg)
    BY <2>2, <2>3, <2>4, <2>5, <2>6, PushOn
  <2>8. Balanced(<<x>> \o s, p, d + 1, sg)
    BY <2>2, <2>7
  <2>9. Balanced(stack', processing', depth', signals')
    BY <2>1, <2>8 DEF s, p, d, sg
  <2> QED BY <2>9 DEF Balanced, Stacked
<1>5. CASE TransactionReturns
  <2>1. stack # <<>> /\ Top.at = "ending" /\ stack' = Below /\ UNCHANGED <<processing, depth, signals>>
    BY <1>5 DEF TransactionReturns, In, store
  <2>2. Balanced(Below, processing, depth, signals)
    BY <2>1, StackedPop
  <2> QED BY <2>1, <2>2 DEF Balanced, Stacked
<1>6. CASE WithState
  <2> DEFINE x == [at |-> "reading"]
  <2>1. stack' = <<x>> \o stack /\ UNCHANGED <<processing, depth, signals>>
    BY <1>6 DEF WithState, store
  <2>2. x \in Frame /\ x.at = "reading"
    BY NewFrames
  <2> HIDE DEF x
  <2>3. stack \in Seq(Frame)
    BY <1>1
  <2>4. Balanced(<<x>> \o stack, processing, depth, signals)
    BY <1>1, <2>2, <2>3, StackedPush
  <2> QED BY <2>1, <2>4 DEF Balanced, Stacked
<1>7. CASE BeginWatch
  <2> DEFINE x == [at |-> "immediate"]
             s == stack
             p == processing
             d == depth
             sg == signals
  <2>1. stack = <<>> /\ stack' = <<x>> /\ UNCHANGED <<processing, depth, signals>>
    BY <1>7 DEF BeginWatch, store
  <2>2. x \in Frame /\ x.at = "immediate" /\ s \in Seq(Frame) /\ p \in BOOLEAN /\ d \in Nat
    BY <1>1, NewFrames DEF Typed
  <2>3. Balanced(s, p, d, sg) /\ s = <<>>
    BY <1>1, <2>1
  <2>4. \A g \in Signals : Len(sg[g].bindings) \in Nat /\ sg[g].depth \in Nat
    BY SignalNumbers
  <2>5. stack' = <<x>> \o s
    <3>1. <<x>> \in Seq(Frame)
      BY <2>2
    <3> QED BY <2>1, <2>3, <3>1, ConcatEmptySeq
  <2> HIDE DEF x, s, p, d, sg
  <2>6. \A g : ~Emits(x, g)
    BY <2>2 DEF Emits
  <2>7. \A g \in Signals :
          /\ sg[g].depth = sg[g].depth + (IF Emits(x, g) THEN 1 ELSE 0)
          /\ Len(sg[g].bindings) >= Len(sg[g].bindings)
          /\ Emits(x, g) => x.count <= Len(sg[g].bindings)
    BY <2>4, <2>6
  <2>8. Balanced(<<x>> \o s, p, d + (IF x.at = "body" THEN 1 ELSE 0), sg)
    BY <2>2, <2>3, <2>4, <2>6, <2>7, PushOn
  <2>9. Balanced(<<x>> \o s, p, d, sg)
    BY <2>2, <2>8
  <2>10. Balanced(stack', processing', depth', signals')
    BY <2>1, <2>5, <2>9 DEF p, d, sg
  <2> QED BY <2>10 DEF Balanced, Stacked
<1> QED BY <1>2, <1>3, <1>4, <1>5, <1>6, <1>7

\* What subscriptions, disposal and the watch's end do to the signals.
LEMMA SignalsKept ==
  ASSUME Typed,
         \/ \E sig \in Signals :
              \/ SubscribeTo(sig)
              \/ \E id \in 1 .. MaxSubs[sig] : CloseSubscription(sig, id)
         \/ DisposeSelector \/ CloseWatch
  PROVE  /\ \A sig \in Signals : Keeps(signals[sig], signals'[sig])
         /\ UNCHANGED <<store, stack, unwinding, calls, seen, stale, behind>>
<1>1. \A g \in Signals : Sound(signals[g]) /\ Keeps(signals[g], signals[g])
  BY KeepsSelf DEF Typed
<1>2. ASSUME NEW sig \in Signals, SubscribeTo(sig)
      PROVE  /\ \A g \in Signals : Keeps(signals[g], signals'[g])
             /\ UNCHANGED <<store, stack, unwinding, calls, seen, stale, behind>>
  <2>1. \A g \in Signals : signals'[g] = IF g = sig THEN Subscribe(signals[sig]) ELSE signals[g]
    BY <1>2, SubscribesIs
  <2>2. Keeps(signals[sig], Subscribe(signals[sig]))
    BY <1>1, SubscribeSound
  <2>3. \A g \in Signals : Keeps(signals[g], signals'[g])
    BY <1>1, <2>1, <2>2
  <2> QED BY <1>2, <2>3 DEF SubscribeTo
<1>3. ASSUME NEW sig \in Signals, NEW id, CloseSubscription(sig, id)
      PROVE  /\ \A g \in Signals : Keeps(signals[g], signals'[g])
             /\ UNCHANGED <<store, stack, unwinding, calls, seen, stale, behind>>
  <2>1. signals' = [signals EXCEPT ![sig] = Unsubscribe(signals[sig], id)]
    BY <1>3 DEF CloseSubscription
  <2>2. \A g \in Signals :
          signals'[g] = IF g = sig THEN Unsubscribe(signals[sig], id) ELSE signals[g]
    BY <2>1, UnsubscribesIs
  <2>3. Keeps(signals[sig], Unsubscribe(signals[sig], id))
    BY <1>1, UnsubscribeSound
  <2>4. \A g \in Signals : Keeps(signals[g], signals'[g])
    BY <1>1, <2>2, <2>3
  <2> QED BY <1>3, <2>4 DEF CloseSubscription
<1>4. ASSUME DisposeSelector
      PROVE  /\ \A g \in Signals : Keeps(signals[g], signals'[g])
             /\ UNCHANGED <<store, stack, unwinding, calls, seen, stale, behind>>
  <2>1. /\ signals'["commits"] = Unsubscribe(signals["commits"], Source)
        /\ signals'["changes"] = Clear(signals["changes"])
        /\ UNCHANGED <<store, watch, stack, unwinding, calls, seen, stale, behind>>
    BY <1>4, DisposeIs
  <2>2. Sound(signals["commits"]) /\ Sound(signals["changes"])
    BY <1>1 DEF Signals
  <2>3. /\ Keeps(signals["commits"], Unsubscribe(signals["commits"], Source))
        /\ Keeps(signals["changes"], Clear(signals["changes"]))
    BY <2>2, UnsubscribeSound, ClearSound
  <2> QED BY <2>1, <2>3 DEF Signals
<1>5. ASSUME CloseWatch
      PROVE  /\ \A g \in Signals : Keeps(signals[g], signals'[g])
             /\ UNCHANGED <<store, stack, unwinding, calls, seen, stale, behind>>
  <2> DEFINE id == watch.id
  <2>1. /\ signals' = [signals EXCEPT !["changes"] = Unsubscribe(signals["changes"], id)]
        /\ UNCHANGED <<store, stack, unwinding, calls, seen, stale, behind>>
    BY <1>5 DEF CloseWatch
  <2> HIDE DEF id
  <2>2. "changes" \in Signals
    BY DEF Signals
  <2>3. \A g \in Signals :
          signals'[g] = IF g = "changes" THEN Unsubscribe(signals["changes"], id) ELSE signals[g]
    BY <2>1, <2>2, UnsubscribesIs
  <2>4. Keeps(signals["changes"], Unsubscribe(signals["changes"], id))
    BY <1>1, <2>2, UnsubscribeSound
  <2>5. \A g \in Signals : Keeps(signals[g], signals'[g])
    BY <1>1, <2>3, <2>4
  <2> QED BY <2>1, <2>5
<1> QED BY <1>2, <1>3, <1>4, <1>5

LEMMA StackedSubscriptions ==
  ASSUME Typed, Typed', Stacked,
         \/ \E sig \in Signals :
              \/ SubscribeTo(sig)
              \/ \E id \in 1 .. MaxSubs[sig] : CloseSubscription(sig, id)
         \/ DisposeSelector \/ CloseWatch
  PROVE  Stacked'
<1> DEFINE tg == signals'
           sg == signals
<1>1. /\ \A sig \in Signals : Keeps(sg[sig], tg[sig])
      /\ UNCHANGED <<processing, depth, stack>>
  BY SignalsKept DEF store
<1>2. \A sig \in Signals : Len(sg[sig].bindings) \in Nat /\ sg[sig].depth \in Nat
  BY SignalNumbers
<1>3. \A sig \in Signals : Len(tg[sig].bindings) \in Nat
  <2>1. ASSUME NEW g \in Signals PROVE Len(tg[g].bindings) \in Nat
    <3>1. Sound(tg[g])
      BY DEF Typed
    <3>2. tg[g] \in SignalRecord
      BY <3>1 DEF Sound
    <3> QED BY <3>2, BindingsTyped
  <2> QED BY <2>1
<1>4. stack \in Seq(Frame) /\ Balanced(stack, processing, depth, sg)
  BY StackedIs DEF Typed
<1> DEFINE s == stack
<1>5. s \in Seq(Frame) /\ Balanced(s, processing, depth, sg)
  BY <1>4
<1> HIDE DEF s, tg, sg
<1>6. Balanced(s, processing, depth, tg)
  BY <1>1, <1>2, <1>3, <1>5, Steady
<1> QED BY <1>1, <1>6 DEF Balanced, Stacked, s, tg

LEMMA StackedRefresh ==
  ASSUME Typed, Typed', Stacked, Refresh
  PROVE  Stacked'
<1>1. UNCHANGED <<processing, depth>>
  BY DEF Refresh, store
<1>2. CASE selector.disposed
  BY <1>1, <1>2 DEF Refresh, Stacked
<1>3. CASE ~selector.disposed
  <2> DEFINE under == stack
  <2>1. /\ SetSelector(under) /\ under \in Seq(Frame)
        /\ Balanced(under, processing, depth, signals)
    BY <1>3, StackedIs DEF Refresh, Typed
  <2> HIDE DEF under
  <2> QED BY <1>1, <2>1, StackedSet
<1> QED BY <1>2, <1>3

LEMMA StackedEnds ==
  ASSUME Typed, Typed', Stacked, stack # <<>>, EndBody \/ EndWatched \/ EndCalled
  PROVE  Stacked'
<1> DEFINE x == Top
           s == Below
           d == depth
<1>1. x \in Frame /\ s \in Seq(Frame) /\ stack = <<x>> \o s /\ d \in Nat
  <2>1. d \in Nat
    BY DEF Typed
  <2> QED BY <2>1, TopTyped
<1>2. Balanced(<<x>> \o s, processing, d, signals)
  BY <1>1, StackedIs
<1>3. CASE EndBody
  <2>1. PICK p \in BOOLEAN : EndTransaction(p)
    BY <1>3 DEF EndBody
  <2> DEFINE y == [at |-> "ending", failed |-> p]
             under == <<y>> \o s
  <2>2. y \in Frame /\ y.at = "ending"
    BY NewFrames
  <2>3. /\ depth' = d - 1 /\ signals' = signals
        /\ IF d = 1 THEN EnterDrain(under) ELSE stack' = under /\ UNCHANGED processing
    BY <2>1 DEF EndTransaction
  <2>4. x.at = "body"
    BY <1>3 DEF EndBody
  <2> HIDE DEF x, s, y, d
  <2>5. Balanced(s, processing, d - 1, signals)
    BY <1>1, <1>2, <2>4, PopBody
  <2>6. Balanced(under, processing, d - 1, signals) /\ under \in Seq(Frame)
    BY <1>1, <2>2, <2>5, PushQuiet, Pushable
  <2>7. d # 0
    BY <1>1, <1>2, <2>4, PopBody
  <2>8. d - 1 \in Nat
    BY <1>1, <2>7
  <2> HIDE DEF under
  <2>9. Balanced(stack', processing', d - 1, signals)
    <3>1. CASE d = 1
      BY <2>3, <2>6, <2>8, <3>1, StackedDrained
    <3>2. CASE d # 1
      <4>1. stack' = under /\ processing' = processing
        BY <2>3, <3>2
      <4> QED BY <2>6, <4>1
    <3> QED BY <3>1, <3>2
  <2> QED BY <2>3, <2>9 DEF Balanced, Stacked
<1>4. CASE EndWatched
  <2>1. /\ stack' = s /\ UNCHANGED <<processing, depth>>
        /\ signals' = [signals EXCEPT !["changes"] = Subscribe(signals["changes"])]
        /\ Top.at = "immediate"
    BY <1>4 DEF EndWatched, store
  <2>2. Balanced(s, processing, depth, signals) /\ s = <<>>
    BY <2>1, StackedPop
  <2>3. "changes" \in Signals /\ Sound(signals["changes"])
    BY DEF Typed, Signals
  <2>4. Sound(Subscribe(signals["changes"]))
    BY <2>3, SubscribeSound
  <2>5. \A g \in Signals :
          signals'[g] = IF g = "changes" THEN Subscribe(signals["changes"]) ELSE signals[g]
    BY <2>1, <2>3, <2>4, OneSignal
  <2>6. Subscribe(signals["changes"]).depth = signals["changes"].depth
    BY <2>3, SubscribeSound DEF Keeps
  <2>7. \A g \in Signals : signals'[g].depth = signals[g].depth
    BY <2>5, <2>6
  <2>8. Balanced(<<>>, processing, depth, signals')
    BY <2>2, <2>7, NoCalls DEF Balanced
  <2> QED BY <2>1, <2>2, <2>8 DEF Balanced, Stacked
<1>5. CASE EndCalled
  <2>1. Top.at \notin {"emit", "drain", "body"} /\ stack' = s
        /\ UNCHANGED <<processing, depth, signals>>
    BY <1>5 DEF EndCalled, UserFrames, store
  <2>2. Balanced(s, processing, depth, signals)
    BY <2>1, StackedPop
  <2> QED BY <2>1, <2>2 DEF Balanced, Stacked
<1> QED BY <1>3, <1>4, <1>5

LEMMA StackedCatches ==
  ASSUME Typed, Stacked, CatchInLoop \/ CatchInUserCode
  PROVE  Stacked'
<1>1. CASE CatchInLoop
  <2>1. /\ stack # <<>> /\ Top.at \in {"emit", "drain"} /\ stack' = TopFailed
        /\ UNCHANGED <<processing, depth, signals>>
    BY <1>1 DEF CatchInLoop, store
  <2>2. Balanced(TopFailed, processing, depth, signals)
    BY <2>1, StackedFailed
  <2> QED BY <2>1, <2>2 DEF Balanced, Stacked
<1>2. CASE CatchInUserCode
  BY <1>2 DEF CatchInUserCode, store, Stacked
<1> QED BY <1>1, <1>2

LEMMA StackedNext ==
  ASSUME Typed, Typed', Stacked, [Next]_vars
  PROVE  Stacked'
<1>1. CASE UNCHANGED vars
  BY <1>1 DEF vars, store, Stacked
<1>2. CASE EmitNext
  BY <1>2, StackedEmitNext
<1>3. CASE EmitEnd
  BY <1>3, StackedEmitEnd
<1>4. CASE DrainNext \/ DrainLeftOver \/ DrainEnd
  BY <1>4, StackedDrainNext, StackedDrainLeftOver, StackedDrainEnd
<1>5. CASE \/ \E action \in Actions : Dispatch(action)
           \/ DispatchSilent \/ BeginTransaction \/ TransactionReturns \/ WithState
           \/ BeginWatch
  BY <1>5, StackedCalls
<1>6. CASE \/ \E sig \in Signals :
                \/ SubscribeTo(sig)
                \/ \E id \in 1 .. MaxSubs[sig] : CloseSubscription(sig, id)
           \/ DisposeSelector \/ CloseWatch
  BY <1>6, StackedSubscriptions
<1>7. CASE Refresh
  BY <1>7, StackedRefresh
<1>8. CASE Return \/ Panic
  BY <1>8, EndsOf, StackedEnds
<1>9. CASE CatchInLoop \/ CatchInUserCode
  BY <1>9, StackedCatches
<1> QED BY <1>1, <1>2, <1>3, <1>4, <1>5, <1>6, <1>7, <1>8, <1>9 DEF Next

-----------------------------------------------------------------------------
\* Room is kept by every step.
LEMMA RoomInit == Init => Room
<1> SUFFICES ASSUME Init PROVE Room
  OBVIOUS
<1>1. signals["changes"].next = 1 /\ stack = <<>> /\ watch.id = 0
  BY NewSignalSound DEF Init
<1>2. MaxSubs["changes"] \in Nat
  BY Bounds_Assumption DEF MaxSubs
<1>3. ~Starts(stack)
  BY <1>1, NoCalls
<1> QED BY <1>1, <1>2, <1>3 DEF Room

\* The first call of a watch is on the stack only as long as it was.
LEMMA StartsPushed ==
  ASSUME NEW x \in Frame, NEW s \in Seq(Frame), x.at # "immediate"
  PROVE  Starts(<<x>> \o s) <=> Starts(s)
BY PushKeeps

LEMMA StartsUnder ==
  ASSUME Typed, stack # <<>>
  PROVE  /\ Starts(Below) => Starts(stack)
         /\ Top.at # "immediate" => (Starts(stack) <=> Starts(Below))
         /\ In("emit") => Starts(Under) = Starts(stack)
         /\ Top.at \in {"emit", "drain"} => (Starts(TopFailed) <=> Starts(stack))
         /\ In("drain") =>
              (Starts(<<[Top EXCEPT !.last = TRUE]>> \o Below) <=> Starts(stack))
<1> DEFINE x == Top
           s == Below
<1>1. x \in Frame /\ s \in Seq(Frame) /\ stack = <<x>> \o s
  BY TopTyped
<1>2. Starts(<<x>> \o s) <=> x.at = "immediate" \/ Starts(s)
  <2> HIDE DEF x, s
  <2> QED BY <1>1, PushKeeps
<1>3. Starts(stack) <=> x.at = "immediate" \/ Starts(s)
  BY <1>1, <1>2
<1>4. ASSUME In("emit") PROVE Starts(Under) = Starts(stack)
  <2> DEFINE y == [Top EXCEPT !.pos = @ + 1]
  <2>1. y \in Frame /\ y.at = "emit" /\ x.at = "emit"
    BY <1>1, <1>4, Turned DEF In
  <2>2. Starts(<<y>> \o s) <=> Starts(s)
    <3> HIDE DEF y, s
    <3> QED BY <1>1, <2>1, StartsPushed
  <2>3. Starts(Under) <=> Starts(stack)
    BY <1>3, <2>1, <2>2 DEF Under
  <2> QED BY <2>3 DEF Starts
<1>5. ASSUME Top.at \in {"emit", "drain"} PROVE Starts(TopFailed) <=> Starts(stack)
  <2> DEFINE y == [Top EXCEPT !.failed = TRUE]
  <2>1. y \in Frame /\ y.at = x.at
    BY <1>1, <1>5, Turned
  <2>2. Starts(<<y>> \o s) <=> Starts(s)
    <3>1. y.at # "immediate"
      BY <1>5, <2>1
    <3> HIDE DEF y, s
    <3> QED BY <1>1, <2>1, <3>1, StartsPushed
  <2> QED BY <1>3, <1>5, <2>1, <2>2 DEF TopFailed
<1>6. ASSUME In("drain")
      PROVE Starts(<<[Top EXCEPT !.last = TRUE]>> \o Below) <=> Starts(stack)
  <2> DEFINE y == [Top EXCEPT !.last = TRUE]
  <2>1. y \in Frame /\ y.at = "drain" /\ x.at = "drain"
    BY <1>1, <1>6, Turned DEF In
  <2>2. Starts(<<y>> \o s) <=> Starts(s)
    <3> HIDE DEF y, s
    <3> QED BY <1>1, <2>1, StartsPushed
  <2> QED BY <1>3, <2>1, <2>2
<1> QED BY <1>3, <1>4, <1>5, <1>6

LEMMA RoomSame ==
  ASSUME Room, signals'["changes"].next = signals["changes"].next, watch'.id = watch.id,
         Starts(stack') => Starts(stack)
  PROVE  Room'
<1>1. Starts(stack)' => Starts(stack)
  BY DEF Starts
<1> QED BY <1>1 DEF Room

\* An emission that starts leaves the numbers of the subscriptions alone.
LEMMA RoomStart ==
  ASSUME Typed, Room, NEW sig \in Signals, NEW value \in Nat, NEW under \in Seq(Frame),
         StartEmit(sig, value, under), Starts(under) => Starts(stack), watch' = watch
  PROVE  Room'
<1> DEFINE x == Emission(sig, value)
<1>1. /\ x \in Frame /\ x.at = "emit" /\ stack' = <<x>> \o under
      /\ \A g \in Signals : signals'[g].next = signals[g].next
  BY StartEmitTyped
<1> HIDE DEF x
<1>2. Starts(<<x>> \o under) <=> Starts(under)
  BY <1>1, StartsPushed
<1>3. signals'["changes"].next = signals["changes"].next
  BY <1>1 DEF Signals
<1>4. Starts(stack') => Starts(stack)
  BY <1>1, <1>2
<1> QED BY <1>3, <1>4, RoomSame

LEMMA RoomSet ==
  ASSUME Typed, Room, NEW under \in Seq(Frame), SetSelector(under),
         Starts(under) => Starts(stack)
  PROVE  Room'
<1>1. watch' = watch
  BY DEF SetSelector
<1>2. CASE selector.value = model
  <2>1. stack' = under /\ signals' = signals
    BY <1>2 DEF SetSelector
  <2> QED BY <1>1, <2>1, RoomSame
<1>3. CASE selector.value # model
  <2>1. StartEmit("changes", model, under)
    BY <1>3 DEF SetSelector
  <2>2. "changes" \in Signals /\ model \in Nat
    BY DEF Typed, Signals
  <2> QED BY <1>1, <2>1, <2>2, RoomStart
<1> QED BY <1>2, <1>3

LEMMA RoomEmits ==
  ASSUME Typed, Stacked, Room, EmitNext \/ EmitEnd
  PROVE  Room'
<1>1. /\ In("emit") /\ stack # <<>> /\ Below \in Seq(Frame) /\ Under \in Seq(Frame)
      /\ Top.sig \in Signals
  BY Emitting DEF EmitNext, EmitEnd
<1>2. Starts(Under) <=> Starts(stack)
  BY <1>1, StartsUnder
<1>3. CASE EmitNext
  <2>1. Top.pos <= Top.count /\ (SkipTurn \/ FailTurn \/ SetTurn \/ CallTurn)
    BY <1>3, Turns
  <2>2. CASE SkipTurn \/ FailTurn
    <3>1. stack' = Under /\ signals' = signals /\ watch' = watch
      BY <2>2 DEF SkipTurn, FailTurn
    <3> QED BY <1>2, <3>1, RoomSame
  <2>3. CASE SetTurn
    <3>1. SetSelector(Under)
      BY <2>3 DEF SetTurn
    <3> QED BY <1>1, <1>2, <3>1, RoomSet
  <2>4. CASE CallTurn
    <3> DEFINE x == [at |-> "listener", sig |-> Top.sig, id |-> Bound.id]
    <3>1. Bound.id \in Nat
      BY <1>1, <2>1, BoundTyped
    <3>2. x \in Frame /\ x.at # "immediate"
      BY <1>1, <3>1, NewFrames
    <3>3. /\ stack' = <<x>> \o Under /\ signals' = signals
      BY <2>4 DEF CallTurn
    <3>4. watch'.id = watch.id
      <4>1. watch \in [id : Nat, shown : Nat]
        BY DEF Typed
      <4> QED BY <2>4, <4>1 DEF CallTurn
    <3> HIDE DEF x
    <3>5. Starts(<<x>> \o Under) <=> Starts(Under)
      BY <1>1, <3>2, StartsPushed
    <3>6. Starts(stack') => Starts(stack)
      BY <1>2, <3>3, <3>5
    <3> QED BY <3>3, <3>4, <3>6, RoomSame
  <2> QED BY <2>1, <2>2, <2>3, <2>4
<1>4. CASE EmitEnd
  <2>1. /\ stack' = Below /\ watch' = watch
        /\ signals' = [signals EXCEPT ![Top.sig] = LeaveEmit(signals[Top.sig])]
    BY <1>4 DEF EmitEnd
  <2>2. Sound(signals[Top.sig]) /\ signals[Top.sig].depth > 0
    BY <1>1, Emitting
  <2>3. /\ Sound(LeaveEmit(signals[Top.sig]))
        /\ LeaveEmit(signals[Top.sig]).next = signals[Top.sig].next
    BY <2>2, LeaveSound
  <2>4. \A g \in Signals :
          signals'[g] = IF g = Top.sig THEN LeaveEmit(signals[Top.sig]) ELSE signals[g]
    BY <1>1, <2>1, <2>3, OneSignal
  <2>5. signals'["changes"].next = signals["changes"].next
    BY <2>3, <2>4 DEF Signals
  <2>6. Starts(Below) => Starts(stack)
    BY <1>1, StartsUnder
  <2>7. Starts(stack') => Starts(stack)
    BY <2>1, <2>6
  <2> QED BY <2>1, <2>5, <2>7, RoomSame
<1> QED BY <1>3, <1>4

LEMMA RoomPublish ==
  ASSUME Typed, Typed', Room, NEW under \in Seq(Frame), Publish(under),
         Starts(under) => Starts(stack), watch' = watch
  PROVE  Room'
<1> DEFINE value == revision'
<1>1. StartEmit("commits", value, under) /\ "commits" \in Signals /\ value \in Nat
  BY DEF Publish, Signals, Typed
<1> HIDE DEF value
<1> QED BY <1>1, RoomStart

LEMMA RoomDrains ==
  ASSUME Typed, Typed', Room, DrainNext \/ DrainLeftOver \/ DrainEnd
  PROVE  Room'
<1>1. In("drain") /\ stack # <<>> /\ stack \in Seq(Frame) /\ watch' = watch
  BY DEF DrainNext, DrainLeftOver, DrainEnd, In, Typed
<1>2. CASE DrainNext
  <2>1. CommitTurn \/ KeepTurn \/ PanicTurn
    BY <1>2, Drainings
  <2>2. CASE CommitTurn
    <3> DEFINE under == stack
    <3>1. Publish(under) /\ under \in Seq(Frame) /\ (Starts(under) => Starts(stack))
      BY <1>1, <2>2 DEF CommitTurn
    <3> HIDE DEF under
    <3> QED BY <1>1, <3>1, RoomPublish
  <2>3. CASE KeepTurn
    <3>1. stack' = stack /\ signals' = signals
      BY <2>3 DEF KeepTurn
    <3> QED BY <1>1, <3>1, RoomSame
  <2>4. CASE PanicTurn
    <3>1. stack' = TopFailed /\ signals' = signals
      BY <2>4 DEF PanicTurn
    <3>2. Starts(TopFailed) <=> Starts(stack)
      BY <1>1, StartsUnder DEF In
    <3> QED BY <1>1, <3>1, <3>2, RoomSame
  <2> QED BY <2>1, <2>2, <2>3, <2>4
<1>3. CASE DrainLeftOver
  <2> DEFINE under == <<[Top EXCEPT !.last = TRUE]>> \o Below
  <2>1. Publish(under)
    BY <1>3 DEF DrainLeftOver
  <2>2. under \in Seq(Frame)
    BY <1>1, DrainTop
  <2>3. Starts(under) <=> Starts(stack)
    BY <1>1, StartsUnder
  <2> HIDE DEF under
  <2> QED BY <1>1, <2>1, <2>2, <2>3, RoomPublish
<1>4. CASE DrainEnd
  <2>1. stack' = Below /\ signals' = signals
    BY <1>4 DEF DrainEnd
  <2>2. Starts(Below) => Starts(stack)
    BY <1>1, StartsUnder
  <2>3. Starts(stack') => Starts(stack)
    BY <2>1, <2>2
  <2> QED BY <1>1, <2>1, <2>3, RoomSame
<1> QED BY <1>2, <1>3, <1>4

LEMMA StartsDrained ==
  ASSUME NEW under \in Seq(Frame), EnterDrain(under)
  PROVE  Starts(stack') => Starts(under)
<1> DEFINE x == Draining
<1>1. x \in Frame /\ x.at # "immediate"
  BY NewFrames DEF Draining
<1>2. stack' = under \/ stack' = <<x>> \o under
  BY DEF EnterDrain
<1> HIDE DEF x
<1>3. Starts(<<x>> \o under) <=> Starts(under)
  BY <1>1, StartsPushed
<1> QED BY <1>2, <1>3

LEMMA RoomCalls ==
  ASSUME Typed, Room,
         \/ \E action \in Actions : Dispatch(action)
         \/ DispatchSilent \/ BeginTransaction \/ TransactionReturns \/ WithState \/ BeginWatch
  PROVE  Room'
<1>1. stack \in Seq(Frame)
  BY DEF Typed
<1>2. ASSUME NEW action \in Actions, Dispatch(action) PROVE Room'
  <2>1. EnterDrain(stack) /\ UNCHANGED <<watch, signals>>
    BY <1>2 DEF Dispatch
  <2> DEFINE under == stack
  <2>2. under \in Seq(Frame) /\ EnterDrain(under)
    BY <1>1, <2>1
  <2> HIDE DEF under
  <2>3. Starts(stack') => Starts(under)
    BY <2>2, StartsDrained
  <2>4. Starts(stack') => Starts(stack)
    BY <2>3 DEF under
  <2> QED BY <2>1, <2>4, RoomSame
<1>3. CASE DispatchSilent
  BY <1>3 DEF DispatchSilent, Room
<1>4. ASSUME NEW x \in Frame, x.at # "immediate", stack' = <<x>> \o stack,
             UNCHANGED <<watch, signals>>
      PROVE  Room'
  <2> DEFINE s == stack
  <2>1. s \in Seq(Frame)
    BY <1>1
  <2> HIDE DEF s
  <2>2. Starts(<<x>> \o s) <=> Starts(s)
    BY <1>4, <2>1, StartsPushed
  <2>3. Starts(stack') => Starts(stack)
    BY <1>4, <2>2 DEF s
  <2> QED BY <1>4, <2>3, RoomSame
<1>5. CASE BeginTransaction
  <2>1. stack' = <<[at |-> "body"]>> \o stack /\ UNCHANGED <<watch, signals>>
    BY <1>5 DEF BeginTransaction
  <2>2. [at |-> "body"] \in Frame /\ [at |-> "body"].at # "immediate"
    BY NewFrames
  <2> QED BY <1>4, <2>1, <2>2
<1>6. CASE WithState
  <2>1. stack' = <<[at |-> "reading"]>> \o stack /\ UNCHANGED <<watch, signals>>
    BY <1>6 DEF WithState
  <2>2. [at |-> "reading"] \in Frame /\ [at |-> "reading"].at # "immediate"
    BY NewFrames
  <2> QED BY <1>4, <2>1, <2>2
<1>7. CASE TransactionReturns
  <2>1. stack # <<>> /\ stack' = Below /\ UNCHANGED <<watch, signals>>
    BY <1>7 DEF TransactionReturns, In
  <2>2. Starts(Below) => Starts(stack)
    BY <2>1, StartsUnder
  <2>3. Starts(stack') => Starts(stack)
    BY <2>1, <2>2
  <2> QED BY <2>1, <2>3, RoomSame
<1>8. CASE BeginWatch
  <2>1. /\ signals["changes"].next <= MaxSubs["changes"] + 1 /\ signals' = signals
        /\ watch' = [watch EXCEPT !.shown = selector.value]
    BY <1>8 DEF BeginWatch
  <2>2. watch \in [id : Nat, shown : Nat]
    BY DEF Typed
  <2>3. watch'.id = watch.id
    BY <2>1, <2>2
  <2> QED BY <2>1, <2>3 DEF Room
<1> QED BY <1>2, <1>3, <1>5, <1>6, <1>7, <1>8

LEMMA RoomSubscriptions ==
  ASSUME Typed, Room,
         \/ \E sig \in Signals :
              \/ SubscribeTo(sig)
              \/ \E id \in 1 .. MaxSubs[sig] : CloseSubscription(sig, id)
         \/ DisposeSelector \/ CloseWatch
  PROVE  Room'
<1>1. \A g \in Signals : Sound(signals[g]) /\ signals[g].next \in Nat
  BY SignalNumbers DEF Typed
<1>2. "changes" \in Signals /\ MaxSubs["changes"] \in Nat
  BY Bounds_Assumption DEF Signals, MaxSubs
<1>3. ASSUME NEW sig \in Signals, SubscribeTo(sig) PROVE Room'
  <2>1. \A g \in Signals : signals'[g] = IF g = sig THEN Subscribe(signals[sig]) ELSE signals[g]
    BY <1>3, SubscribesIs
  <2>2. UNCHANGED <<watch, stack>> /\ signals[sig].next <= MaxSubs[sig]
    BY <1>3 DEF SubscribeTo
  <2>3. CASE sig = "changes"
    <3>1. signals'["changes"].next = signals["changes"].next + 1
      <4>1. Subscribe(signals["changes"]).next = signals["changes"].next + 1
        BY <1>1, <1>2, SubscribeSound
      <4> QED BY <1>2, <2>1, <2>3, <4>1
    <3>2. signals["changes"].next \in Nat /\ signals["changes"].next <= MaxSubs["changes"]
      BY <1>1, <1>2, <2>2, <2>3
    <3>3. watch.id \in Nat
      BY DEF Typed
    <3> DEFINE n == signals["changes"].next
               m == MaxSubs["changes"]
    <3>4. n + 1 <= m + 2 /\ n + 1 <= m + 1 /\ (watch.id < n => watch.id < n + 1)
      <4>1. n \in Nat /\ m \in Nat /\ n <= m
        BY <1>2, <3>2
      <4> HIDE DEF n, m
      <4> QED BY <3>3, <4>1
    <3> QED BY <2>2, <3>1, <3>4 DEF Room
  <2>4. CASE sig # "changes"
    <3>1. signals'["changes"] = signals["changes"]
      BY <1>2, <2>1, <2>4
    <3> QED BY <2>2, <3>1, RoomSame
  <2> QED BY <2>3, <2>4
<1>4. ASSUME NEW sig \in Signals, NEW id, CloseSubscription(sig, id) PROVE Room'
  <2>1. /\ signals' = [signals EXCEPT ![sig] = Unsubscribe(signals[sig], id)]
        /\ UNCHANGED <<watch, stack>>
    BY <1>4 DEF CloseSubscription
  <2>2. \A g \in Signals :
          signals'[g] = IF g = sig THEN Unsubscribe(signals[sig], id) ELSE signals[g]
    BY <2>1, UnsubscribesIs
  <2>3. Unsubscribe(signals[sig], id).next = signals[sig].next
    BY <1>1, UnsubscribeSound
  <2>4. signals'["changes"].next = signals["changes"].next
    BY <1>2, <2>2, <2>3
  <2> QED BY <2>1, <2>4, RoomSame
<1>5. CASE DisposeSelector
  <2>1. signals'["changes"] = Clear(signals["changes"]) /\ UNCHANGED <<watch, stack>>
    BY <1>5, DisposeIs
  <2>2. Clear(signals["changes"]).next = signals["changes"].next
    BY <1>1, <1>2, ClearSound
  <2> QED BY <2>1, <2>2, RoomSame
<1>6. CASE CloseWatch
  <2> DEFINE id == watch.id
  <2>1. /\ signals' = [signals EXCEPT !["changes"] = Unsubscribe(signals["changes"], id)]
        /\ watch' = [id |-> 0, shown |-> 0] /\ stack' = stack
    BY <1>6 DEF CloseWatch
  <2> HIDE DEF id
  <2>2. signals'["changes"] = Unsubscribe(signals["changes"], id)
    BY <1>2, <2>1, UnsubscribesIs
  <2>3. Unsubscribe(signals["changes"], id).next = signals["changes"].next
    BY <1>1, <1>2, UnsubscribeSound
  <2>4. 0 < signals["changes"].next
    BY <1>1, <1>2 DEF Sound, Numbered
  <2>5. watch'.id = 0
    BY <2>1
  <2> QED BY <2>1, <2>2, <2>3, <2>4, <2>5 DEF Room
<1> QED BY <1>3, <1>4, <1>5, <1>6

LEMMA RoomEnds ==
  ASSUME Typed, Stacked, Room, stack # <<>>, EndBody \/ EndWatched \/ EndCalled
  PROVE  Room'
<1>1. stack \in Seq(Frame) /\ (Starts(Below) => Starts(stack))
  BY StartsUnder DEF Typed
<1>2. CASE EndBody
  <2>1. PICK p \in BOOLEAN : EndTransaction(p)
    BY <1>2 DEF EndBody
  <2> DEFINE y == [at |-> "ending", failed |-> p]
             under == <<y>> \o Below
  <2>2. y \in Frame /\ y.at # "immediate" /\ under \in Seq(Frame) /\ Below \in Seq(Frame)
    BY EndingTyped, TopTyped
  <2>3. /\ UNCHANGED <<signals, watch>>
        /\ IF depth = 1 THEN EnterDrain(under) ELSE stack' = under
    BY <2>1 DEF EndTransaction
  <2> HIDE DEF y
  <2>4. Starts(under) <=> Starts(Below)
    BY <2>2, StartsPushed
  <2> HIDE DEF under
  <2>5. Starts(stack') => Starts(under)
    BY <2>2, <2>3, StartsDrained
  <2>6. Starts(stack') => Starts(stack)
    BY <1>1, <2>4, <2>5
  <2> QED BY <2>3, <2>6, RoomSame
<1>3. CASE EndWatched
  <2>1. /\ Top.at = "immediate" /\ stack' = Below
        /\ signals' = [signals EXCEPT !["changes"] = Subscribe(signals["changes"])]
        /\ watch' = [watch EXCEPT !.id = signals["changes"].next]
    BY <1>3 DEF EndWatched
  <2>2. "changes" \in Signals /\ Sound(signals["changes"]) /\ MaxSubs["changes"] \in Nat
    BY Bounds_Assumption DEF Typed, Signals, MaxSubs
  <2>3. /\ Sound(Subscribe(signals["changes"]))
        /\ Subscribe(signals["changes"]).next = signals["changes"].next + 1
    BY <2>2, SubscribeSound
  <2>4. signals'["changes"].next = signals["changes"].next + 1
    BY <2>1, <2>2, <2>3, OneSignal
  <2>5. watch'.id = signals["changes"].next
    <3>1. watch \in [id : Nat, shown : Nat]
      BY DEF Typed
    <3> QED BY <2>1, <3>1
  <2>6. Below = <<>>
    BY <2>1, StackedPop
  <2>7. ~Starts(stack')
    BY <2>1, <2>6, NoCalls
  <2>8. Starts(stack)
    <3> DEFINE x == Top
               s == Below
    <3>1. x \in Frame /\ s \in Seq(Frame) /\ stack = <<x>> \o s /\ x.at = "immediate"
      BY <2>1, TopTyped
    <3> HIDE DEF x, s
    <3>2. Starts(<<x>> \o s)
      BY <3>1, PushKeeps
    <3> QED BY <3>1, <3>2
  <2>9. signals["changes"].next \in Nat
    BY <2>2, SignalNumbers
  <2>10. /\ signals["changes"].next + 1 <= MaxSubs["changes"] + 2
         /\ signals["changes"].next < signals["changes"].next + 1
    <3>1. signals["changes"].next <= MaxSubs["changes"] + 1
      BY <2>8 DEF Room
    <3> QED BY <2>2, <2>9, <3>1
  <2>11. ~Starts(stack)'
    BY <2>7 DEF Starts
  <2> QED BY <2>4, <2>5, <2>10, <2>11 DEF Room
<1>4. CASE EndCalled
  <2>1. stack' = Below /\ UNCHANGED <<signals, watch>>
    BY <1>4 DEF EndCalled
  <2>2. Starts(stack') => Starts(stack)
    BY <1>1, <2>1
  <2> QED BY <2>1, <2>2, RoomSame
<1> QED BY <1>2, <1>3, <1>4

LEMMA RoomNext ==
  ASSUME Typed, Typed', Stacked, Room, [Next]_vars
  PROVE  Room'
<1>1. CASE UNCHANGED vars
  BY <1>1 DEF vars, Room
<1>2. CASE EmitNext \/ EmitEnd
  BY <1>2, RoomEmits
<1>3. CASE DrainNext \/ DrainLeftOver \/ DrainEnd
  BY <1>3, RoomDrains
<1>4. CASE \/ \E action \in Actions : Dispatch(action)
           \/ DispatchSilent \/ BeginTransaction \/ TransactionReturns \/ WithState
           \/ BeginWatch
  BY <1>4, RoomCalls
<1>5. CASE \/ \E sig \in Signals :
                \/ SubscribeTo(sig)
                \/ \E id \in 1 .. MaxSubs[sig] : CloseSubscription(sig, id)
           \/ DisposeSelector \/ CloseWatch
  BY <1>5, RoomSubscriptions
<1>6. CASE Refresh
  <2>1. CASE selector.disposed
    BY <1>6, <2>1 DEF Refresh, Room
  <2>2. CASE ~selector.disposed
    <3> DEFINE under == stack
    <3>1. SetSelector(under) /\ under \in Seq(Frame) /\ (Starts(under) => Starts(stack))
      BY <1>6, <2>2 DEF Refresh, Typed
    <3> HIDE DEF under
    <3> QED BY <3>1, RoomSet
  <2> QED BY <2>1, <2>2
<1>7. CASE Return \/ Panic
  BY <1>7, EndsOf, RoomEnds
<1>8. CASE CatchInLoop \/ CatchInUserCode
  <2>1. CASE CatchInLoop
    <3>1. /\ stack # <<>> /\ Top.at \in {"emit", "drain"} /\ stack' = TopFailed
          /\ UNCHANGED <<watch, signals>>
      BY <2>1 DEF CatchInLoop
    <3>2. Starts(stack') => Starts(stack)
      BY <3>1, StartsUnder
    <3> QED BY <3>1, <3>2, RoomSame
  <2>2. CASE CatchInUserCode
    BY <2>2 DEF CatchInUserCode, Room
  <2> QED BY <1>8, <2>1, <2>2
<1> QED BY <1>1, <1>2, <1>3, <1>4, <1>5, <1>6, <1>7, <1>8 DEF Next

-----------------------------------------------------------------------------
\* The first three parts, and what they say.
Shape == Typed /\ Stacked /\ Room

LEMMA ShapeInit == Init => Shape
BY TypedInit, StackedInit, RoomInit DEF Shape

LEMMA ShapeNext == Shape /\ [Next]_vars => Shape'
<1> SUFFICES ASSUME Shape, [Next]_vars PROVE Shape'
  OBVIOUS
<1>1. Typed /\ Stacked /\ Room
  BY DEF Shape
<1>2. Typed'
  BY <1>1, TypedNext
<1>3. Stacked'
  BY <1>1, <1>2, StackedNext
<1>4. Room'
  BY <1>1, <1>2, RoomNext
<1> QED BY <1>2, <1>3, <1>4 DEF Shape

LEMMA ShapeAgrees == Shape => SignalsAgree
<1> SUFFICES ASSUME Shape PROVE SignalsAgree
  OBVIOUS
<1>1. Typed /\ Room
  BY DEF Shape
<1>2. \A sig \in Signals : IndexAgrees(signals[sig])
  BY <1>1 DEF Typed, Sound
<1>3. /\ model \in Nat /\ revision \in Nat /\ depth \in 0 .. MaxDepth
      /\ calls \in 0 .. MaxActions /\ pending \in Seq(Actions)
  BY <1>1 DEF Typed
<1>4. selector \in [value : Nat, disposed : BOOLEAN] /\ watch \in [id : Nat, shown : Nat]
  BY <1>1 DEF Typed
<1>5. {pendingCommit, processing, unwinding, stale, behind, selector.disposed} \subseteq BOOLEAN
  <2>1. selector.disposed \in BOOLEAN
    BY <1>4
  <2>2. /\ pendingCommit \in BOOLEAN /\ processing \in BOOLEAN /\ unwinding \in BOOLEAN
        /\ stale \in BOOLEAN /\ behind \in BOOLEAN
    BY <1>1 DEF Typed
  <2> QED BY <2>1, <2>2
<1>6. watch.id \in 0 .. MaxSubs["changes"] + 2
  <2>1. signals["changes"].next \in Nat /\ watch.id \in Nat
    BY <1>1, <1>4, SignalNumbers DEF Signals
  <2>2. MaxSubs["changes"] \in Nat
    BY Bounds_Assumption DEF MaxSubs
  <2>3. watch.id < signals["changes"].next /\ signals["changes"].next <= MaxSubs["changes"] + 2
    BY <1>1 DEF Room
  <2> QED BY <2>1, <2>2, <2>3
<1>7. \A f \in ToSet(stack) : f.at \in UserFrames \cup {"emit", "drain", "ending"}
  <2> SUFFICES ASSUME NEW i \in DOMAIN stack
               PROVE stack[i].at \in UserFrames \cup {"emit", "drain", "ending"}
    BY DEF ToSet
  <2>1. stack[i] \in Frame
    BY <1>1 DEF Typed
  <2> QED BY <2>1, FrameKinds
<1>8. selector.value \in Nat /\ watch.shown \in Nat
  BY <1>4
<1> QED BY <1>2, <1>3, <1>5, <1>6, <1>7, <1>8 DEF SignalsAgree, TypeOK

\* However subscriptions come and go in the middle of notifications, each live
\* one is found at its position, no closed one is left once the outermost
\* emission has ended, and the state has its types: SignalCore's subscribe,
\* unsubscribe, clear and compact keep each other's promises.
THEOREM SignalsAreSound == Spec => []SignalsAgree
<1>1. Init => Shape
  BY ShapeInit
<1>2. Shape /\ [Next]_vars => Shape'
  BY ShapeNext
<1>3. Shape => SignalsAgree
  BY ShapeAgrees
<1> QED BY <1>1, <1>2, <1>3, PTL DEF Spec

LEMMA ShapeUnlocks == Shape => PanicsUnlock
<1> SUFFICES ASSUME Shape, Idle PROVE /\ ~processing /\ depth = 0
                                      /\ \A sig \in Signals : signals[sig].depth = 0
  BY DEF PanicsUnlock
<1>1. stack = <<>> /\ Balanced(stack, processing, depth, signals)
  BY StackedIs DEF Idle, Shape
<1>2. Balanced(<<>>, processing, depth, signals)
  BY <1>1
<1> QED BY <1>2, NoCalls DEF Balanced

\* Whatever panicked and wherever it was caught, a Store with no call in
\* progress is not processing, in no transaction and in no emission: the next
\* dispatch is reduced and published.
THEOREM PanicsAlwaysUnlock == Spec => []PanicsUnlock
<1>1. Init => Shape
  BY ShapeInit
<1>2. Shape /\ [Next]_vars => Shape'
  BY ShapeNext
<1>3. Shape => PanicsUnlock
  BY ShapeUnlocks
<1> QED BY <1>1, <1>2, <1>3, PTL DEF Spec

-----------------------------------------------------------------------------
\* The emissions on the stack.
LEMMA Emitted ==
  ASSUME NEW x \in Frame, NEW s \in Seq(Frame), NEW sig
  PROVE  Emissions(<<x>> \o s, sig)
           = IF Emits(x, sig) THEN Emissions(s, sig) \cup {Progress(x)}
             ELSE Emissions(s, sig)
<1> DEFINE t == <<x>> \o s
<1>1. Emissions(t, sig) = Emissions(s, sig) \cup
                            (IF Emits(x, sig) THEN {Progress(x)} ELSE {})
  BY PushKeeps
<1> HIDE DEF t
<1>2. CASE Emits(x, sig)
  BY <1>1, <1>2 DEF t
<1>3. CASE ~Emits(x, sig)
  <2>1. Emissions(t, sig) = Emissions(s, sig) \cup {}
    BY <1>1, <1>3
  <2> QED BY <1>3, <2>1 DEF t
<1> QED BY <1>2, <1>3

LEMMA EmissionsTop ==
  ASSUME Typed, stack # <<>>, NEW sig
  PROVE  /\ Emissions(stack, sig) = IF Emits(Top, sig)
                                    THEN Emissions(Below, sig) \cup {Progress(Top)}
                                    ELSE Emissions(Below, sig)
         /\ Top.at \in {"emit", "drain"} => Emissions(TopFailed, sig) = Emissions(stack, sig)
         /\ In("drain") =>
              /\ Emissions(stack, sig) = Emissions(Below, sig)
              /\ Emissions(<<[Top EXCEPT !.last = TRUE]>> \o Below, sig) = Emissions(stack, sig)
         /\ In("emit") =>
              Emissions(Under, sig)
                = IF Emits(Top, sig)
                  THEN Emissions(Below, sig) \cup {[value |-> Top.value, pos |-> Top.pos + 1,
                                                    count |-> Top.count]}
                  ELSE Emissions(Below, sig)
<1> DEFINE x == Top
           s == Below
<1>1. x \in Frame /\ s \in Seq(Frame) /\ stack = <<x>> \o s
  BY TopTyped
<1>2. Emissions(<<x>> \o s, sig) = IF Emits(x, sig)
                                   THEN Emissions(s, sig) \cup {Progress(x)}
                                   ELSE Emissions(s, sig)
  <2> HIDE DEF x, s
  <2> QED BY <1>1, Emitted
<1>3. Emissions(stack, sig) = IF Emits(x, sig)
                              THEN Emissions(s, sig) \cup {Progress(x)}
                              ELSE Emissions(s, sig)
  BY <1>1, <1>2
<1>4. ASSUME x.at \in {"emit", "drain"} PROVE Emissions(TopFailed, sig) = Emissions(stack, sig)
  <2> DEFINE y == [Top EXCEPT !.failed = TRUE]
  <2>1. /\ TopFailed = <<y>> \o s /\ y \in Frame /\ y.at = x.at
        /\ x.at = "emit" => y.sig = x.sig /\ Progress(y) = Progress(x)
    BY <1>4, FailedTyped
  <2> HIDE DEF x, y, s
  <2>2. Emits(y, sig) <=> Emits(x, sig)
    BY <2>1 DEF Emits
  <2>3. Emits(x, sig) => Progress(y) = Progress(x)
    BY <2>1 DEF Emits
  <2>4. Emissions(<<y>> \o s, sig) = IF Emits(y, sig)
                                     THEN Emissions(s, sig) \cup {Progress(y)}
                                     ELSE Emissions(s, sig)
    BY <1>1, <2>1, Emitted
  <2> QED BY <1>3, <2>1, <2>2, <2>3, <2>4
<1>5. ASSUME In("drain")
      PROVE  /\ Emissions(stack, sig) = Emissions(Below, sig)
             /\ Emissions(<<[Top EXCEPT !.last = TRUE]>> \o Below, sig) = Emissions(stack, sig)
  <2> DEFINE y == [Top EXCEPT !.last = TRUE]
  <2>1. y \in Frame /\ y.at = "drain" /\ x.at = "drain"
    BY <1>5, DrainTop
  <2> HIDE DEF x, y
  <2>2. ~Emits(x, sig) /\ ~Emits(y, sig)
    BY <2>1 DEF Emits
  <2>3. Emissions(<<y>> \o s, sig) = Emissions(s, sig)
    <3> HIDE DEF s
    <3> QED BY <1>1, <2>1, <2>2, Emitted
  <2> QED BY <1>3, <2>2, <2>3 DEF y
<1>6. ASSUME In("emit")
      PROVE  Emissions(Under, sig)
                = IF Emits(Top, sig)
                  THEN Emissions(Below, sig) \cup {[value |-> Top.value, pos |-> Top.pos + 1,
                                                    count |-> Top.count]}
                  ELSE Emissions(Below, sig)
  <2> DEFINE y == [Top EXCEPT !.pos = @ + 1]
  <2>1. /\ y \in Frame /\ y.at = "emit" /\ x.at = "emit" /\ y.sig = x.sig
        /\ Progress(y) = [value |-> Top.value, pos |-> Top.pos + 1, count |-> Top.count]
    BY <1>1, <1>6, Turned DEF In
  <2> HIDE DEF y
  <2>2. Emits(y, sig) <=> Emits(Top, sig)
    BY <2>1 DEF Emits
  <2>3. Emissions(<<y>> \o s, sig) = IF Emits(y, sig)
                                     THEN Emissions(s, sig) \cup {Progress(y)}
                                     ELSE Emissions(s, sig)
    <3> HIDE DEF s
    <3> QED BY <1>1, <2>1, Emitted
  <2> QED BY <2>1, <2>2, <2>3 DEF y, Under
<1> QED BY <1>3, <1>4, <1>5, <1>6

\* A frame that does not emit.
LEMMA EmissionsQuiet ==
  ASSUME NEW x \in Frame, NEW s \in Seq(Frame), x.at # "emit", NEW sig
  PROVE  Emissions(<<x>> \o s, sig) = Emissions(s, sig)
BY Emitted DEF Emits

LEMMA EmissionsDrained ==
  ASSUME NEW under \in Seq(Frame), EnterDrain(under), NEW sig
  PROVE  Emissions(stack', sig) = Emissions(under, sig)
<1> DEFINE x == Draining
<1>1. x \in Frame /\ x.at # "emit"
  BY NewFrames DEF Draining
<1>2. stack' = under \/ stack' = <<x>> \o under
  BY DEF EnterDrain
<1> HIDE DEF x
<1>3. Emissions(<<x>> \o under, sig) = Emissions(under, sig)
  BY <1>1, EmissionsQuiet
<1> QED BY <1>2, <1>3

\* The steps that start, advance and end no emission.
Quiet == \A sig \in Signals : /\ Emissions(stack', sig) = Emissions(stack, sig)
                              /\ Keeps(signals[sig], signals'[sig])

LEMMA QuietUnchanged ==
  ASSUME Typed, signals' = signals,
         \A sig \in Signals : Emissions(stack', sig) = Emissions(stack, sig)
  PROVE  Quiet
<1>1. \A sig \in Signals : Keeps(signals[sig], signals[sig])
  BY KeepsSelf DEF Typed
<1> QED BY <1>1 DEF Quiet

LEMMA QuietCalls ==
  ASSUME Typed,
         \/ \E action \in Actions : Dispatch(action)
         \/ DispatchSilent \/ BeginTransaction \/ TransactionReturns \/ WithState \/ BeginWatch
  PROVE  Quiet
<1>1. stack \in Seq(Frame)
  BY DEF Typed
<1>2. ASSUME NEW action \in Actions, Dispatch(action) PROVE Quiet
  <2>1. EnterDrain(stack) /\ signals' = signals
    BY <1>2 DEF Dispatch
  <2> DEFINE under == stack
  <2>2. under \in Seq(Frame) /\ EnterDrain(under)
    BY <1>1, <2>1
  <2> HIDE DEF under
  <2>3. \A sig : Emissions(stack', sig) = Emissions(under, sig)
    BY <2>2, EmissionsDrained
  <2> QED BY <2>1, <2>3, QuietUnchanged DEF under
<1>3. CASE DispatchSilent
  BY <1>3, QuietUnchanged DEF DispatchSilent
<1>4. ASSUME NEW x \in Frame, x.at # "emit", stack' = <<x>> \o stack, signals' = signals
      PROVE  Quiet
  <2> DEFINE s == stack
  <2>1. s \in Seq(Frame)
    BY <1>1
  <2> HIDE DEF s
  <2>2. \A sig : Emissions(<<x>> \o s, sig) = Emissions(s, sig)
    BY <1>4, <2>1, EmissionsQuiet
  <2> QED BY <1>4, <2>2, QuietUnchanged DEF s
<1>5. CASE BeginTransaction
  <2>1. stack' = <<[at |-> "body"]>> \o stack /\ signals' = signals
    BY <1>5 DEF BeginTransaction
  <2>2. [at |-> "body"] \in Frame /\ [at |-> "body"].at # "emit"
    BY NewFrames
  <2> QED BY <1>4, <2>1, <2>2
<1>6. CASE WithState
  <2>1. stack' = <<[at |-> "reading"]>> \o stack /\ signals' = signals
    BY <1>6 DEF WithState
  <2>2. [at |-> "reading"] \in Frame /\ [at |-> "reading"].at # "emit"
    BY NewFrames
  <2> QED BY <1>4, <2>1, <2>2
<1>7. CASE BeginWatch
  <2> DEFINE x == [at |-> "immediate"]
  <2>1. stack = <<>> /\ stack' = <<x>> /\ signals' = signals
    BY <1>7 DEF BeginWatch
  <2>2. x \in Frame /\ x.at # "emit" /\ <<x>> \in Seq(Frame)
    BY NewFrames
  <2>3. <<x>> \o <<>> = <<x>>
    BY <2>2, ConcatEmptySeq
  <2> HIDE DEF x
  <2> QED BY <1>4, <2>1, <2>2, <2>3
<1>8. CASE TransactionReturns
  <2>1. stack # <<>> /\ Top.at = "ending" /\ stack' = Below /\ signals' = signals
    BY <1>8 DEF TransactionReturns, In
  <2>2. \A sig : Emissions(stack, sig) = Emissions(Below, sig)
    BY <2>1, EmissionsTop DEF Emits
  <2> QED BY <2>1, <2>2, QuietUnchanged
<1> QED BY <1>2, <1>3, <1>5, <1>6, <1>7, <1>8

LEMMA QuietEnds ==
  ASSUME Typed, Typed', stack # <<>>, EndBody \/ EndWatched \/ EndCalled
  PROVE  Quiet
<1>1. Top.at # "emit" /\ Below \in Seq(Frame)
  BY TopTyped DEF EndBody, EndWatched, EndCalled, UserFrames
<1>2. \A sig : Emissions(stack, sig) = Emissions(Below, sig)
  BY <1>1, EmissionsTop DEF Emits
<1>3. CASE EndBody
  <2>1. PICK p \in BOOLEAN : EndTransaction(p)
    BY <1>3 DEF EndBody
  <2> DEFINE y == [at |-> "ending", failed |-> p]
             s == Below
             under == <<y>> \o s
  <2>2. y \in Frame /\ y.at # "emit" /\ under \in Seq(Frame) /\ s \in Seq(Frame)
    BY <1>1, EndingTyped
  <2>3. /\ signals' = signals
        /\ EnterDrain(under) \/ stack' = under
    BY <2>1 DEF EndTransaction
  <2> HIDE DEF y
  <2>4. \A sig : Emissions(under, sig) = Emissions(s, sig)
    <3> HIDE DEF s
    <3> QED BY <2>2, EmissionsQuiet
  <2> HIDE DEF under
  <2>5. \A sig : Emissions(stack', sig) = Emissions(under, sig)
    BY <2>2, <2>3, EmissionsDrained
  <2>6. \A sig : Emissions(stack', sig) = Emissions(stack, sig)
    BY <1>2, <2>4, <2>5
  <2> QED BY <2>3, <2>6, QuietUnchanged
<1>4. CASE EndWatched
  <2>1. /\ stack' = Below
        /\ signals' = [signals EXCEPT !["changes"] = Subscribe(signals["changes"])]
    BY <1>4 DEF EndWatched
  <2>2. \A g \in Signals : Sound(signals[g]) /\ Keeps(signals[g], signals[g])
    BY KeepsSelf DEF Typed
  <2>3. "changes" \in Signals
    BY DEF Signals
  <2>4. Sound(Subscribe(signals["changes"])) /\ Keeps(signals["changes"], Subscribe(signals["changes"]))
    BY <2>2, <2>3, SubscribeSound
  <2>5. \A g \in Signals :
          signals'[g] = IF g = "changes" THEN Subscribe(signals["changes"]) ELSE signals[g]
    BY <2>1, <2>3, <2>4, OneSignal
  <2>6. \A g \in Signals : Keeps(signals[g], signals'[g])
    BY <2>2, <2>4, <2>5
  <2> QED BY <1>2, <2>1, <2>6 DEF Quiet
<1>5. CASE EndCalled
  <2>1. stack' = Below /\ signals' = signals
    BY <1>5 DEF EndCalled
  <2> QED BY <1>2, <2>1, QuietUnchanged
<1> QED BY <1>3, <1>4, <1>5

LEMMA QuietLoops ==
  ASSUME Typed,
         \/ DrainNext /\ (KeepTurn \/ PanicTurn)
         \/ DrainEnd \/ CatchInLoop \/ CatchInUserCode \/ UNCHANGED vars
  PROVE  Quiet
<1>1. CASE DrainNext /\ KeepTurn
  BY <1>1, QuietUnchanged DEF KeepTurn
<1>2. CASE DrainNext /\ PanicTurn
  <2>1. stack # <<>> /\ Top.at \in {"emit", "drain"} /\ stack' = TopFailed /\ signals' = signals
    BY <1>2 DEF DrainNext, In, PanicTurn
  <2>2. \A sig : Emissions(TopFailed, sig) = Emissions(stack, sig)
    BY <2>1, EmissionsTop
  <2> QED BY <2>1, <2>2, QuietUnchanged
<1>3. CASE DrainEnd
  <2>1. stack # <<>> /\ In("drain") /\ stack' = Below /\ signals' = signals
    BY <1>3 DEF DrainEnd, In
  <2>2. \A sig : Emissions(stack, sig) = Emissions(Below, sig)
    BY <2>1, EmissionsTop
  <2> QED BY <2>1, <2>2, QuietUnchanged
<1>4. CASE CatchInLoop
  <2>1. stack # <<>> /\ Top.at \in {"emit", "drain"} /\ stack' = TopFailed /\ signals' = signals
    BY <1>4 DEF CatchInLoop
  <2>2. \A sig : Emissions(TopFailed, sig) = Emissions(stack, sig)
    BY <2>1, EmissionsTop
  <2> QED BY <2>1, <2>2, QuietUnchanged
<1>5. CASE CatchInUserCode
  BY <1>5, QuietUnchanged DEF CatchInUserCode
<1>6. CASE UNCHANGED vars
  BY <1>6, QuietUnchanged DEF vars
<1> QED BY <1>1, <1>2, <1>3, <1>4, <1>5, <1>6

LEMMA QuietSubscriptions ==
  ASSUME Typed,
         \/ \E sig \in Signals :
              \/ SubscribeTo(sig)
              \/ \E id \in 1 .. MaxSubs[sig] : CloseSubscription(sig, id)
         \/ DisposeSelector \/ CloseWatch
  PROVE  Quiet
BY SignalsKept DEF Quiet

\* Every step that is not quiet.
Loud ==
  \/ EmitNext \/ EmitEnd
  \/ DrainNext /\ CommitTurn
  \/ DrainLeftOver
  \/ Refresh /\ ~selector.disposed /\ SetSelector(stack)

\* What else a quiet step does.
Rest ==
  /\ UNCHANGED <<revision, seen>>
  /\ (pendingCommit' = pendingCommit) \/ (In("drain") /\ pendingCommit' = TRUE)
  /\ (UNCHANGED <<model, stale>>) \/ stale' = TRUE \/ pendingCommit' = TRUE
  /\ (selector' = selector) \/ DisposeSelector
  /\ (UNCHANGED <<watch, behind>>) \/ BeginWatch \/ CloseWatch \/ (stack # <<>> /\ EndWatched)
  /\ ~In("emit") \/ unwinding \/ UNCHANGED vars

LEMMA RestOfCalls ==
  ASSUME Typed,
         \/ \E action \in Actions : Dispatch(action)
         \/ DispatchSilent \/ BeginTransaction \/ TransactionReturns \/ WithState \/ BeginWatch
         \/ \E sig \in Signals :
              \/ SubscribeTo(sig)
              \/ \E id \in 1 .. MaxSubs[sig] : CloseSubscription(sig, id)
         \/ DisposeSelector \/ CloseWatch
  PROVE  Rest
<1>1. UserRuns => ~In("emit")
  BY DEF UserRuns, UserFrames, In
<1>2. CASE \E action \in Actions : Dispatch(action)
  BY <1>1, <1>2 DEF Dispatch, Rest
<1>3. CASE DispatchSilent
  <2>1. model \in Nat
    BY DEF Typed
  <2>2. UNCHANGED <<model, stale>> \/ stale' = TRUE
    BY <1>3, <2>1, SilentIs
  <2>3. /\ UserRuns
        /\ UNCHANGED <<pendingCommit, revision, selector, watch, seen, behind>>
    BY <1>3 DEF DispatchSilent
  <2> QED BY <1>1, <2>2, <2>3 DEF Rest
<1>4. CASE BeginTransaction
  BY <1>1, <1>4 DEF BeginTransaction, Rest
<1>5. CASE TransactionReturns
  BY <1>5 DEF TransactionReturns, In, store, Rest
<1>6. CASE WithState
  BY <1>1, <1>6 DEF WithState, store, Rest
<1>7. CASE BeginWatch
  BY <1>7 DEF BeginWatch, store, In, Rest
<1>8. CASE \E sig \in Signals : SubscribeTo(sig)
  BY <1>1, <1>8 DEF SubscribeTo, store, Rest
<1>9. CASE \E sig \in Signals : \E id \in 1 .. MaxSubs[sig] : CloseSubscription(sig, id)
  BY <1>1, <1>9 DEF CloseSubscription, store, Rest
<1>10. CASE DisposeSelector
  BY <1>1, <1>10 DEF DisposeSelector, store, Rest
<1>11. CASE CloseWatch
  BY <1>1, <1>11 DEF CloseWatch, store, Rest
<1> QED BY <1>2, <1>3, <1>4, <1>5, <1>6, <1>7, <1>8, <1>9, <1>10, <1>11

LEMMA RestOfLoops ==
  ASSUME Typed,
         \/ DrainNext /\ (KeepTurn \/ PanicTurn)
         \/ DrainEnd \/ CatchInLoop \/ CatchInUserCode \/ UNCHANGED vars
         \/ Refresh /\ selector.disposed
         \/ Return \/ Panic
  PROVE  Rest
<1>1. ASSUME DrainNext, KeepTurn \/ PanicTurn PROVE Rest
  <2>1. /\ In("drain") /\ UNCHANGED <<selector, watch, seen, behind>>
    BY <1>1, Drainings
  <2>2. ~In("emit")
    BY <2>1 DEF In
  <2> QED BY <1>1, <2>1, <2>2 DEF KeepTurn, PanicTurn, Rest
<1>2. CASE DrainEnd
  BY <1>2 DEF DrainEnd, In, Rest
<1>3. CASE CatchInLoop
  BY <1>3 DEF CatchInLoop, store, Rest
<1>4. CASE CatchInUserCode
  BY <1>4 DEF CatchInUserCode, store, Rest
<1>5. CASE UNCHANGED vars
  BY <1>5 DEF vars, store, Rest
<1>6. CASE Refresh /\ selector.disposed
  <2>1. ~In("emit")
    BY <1>6 DEF Refresh, UserRuns, UserFrames, In
  <2> QED BY <1>6, <2>1 DEF Refresh, store, Rest
<1>7. CASE Return \/ Panic
  <2>1. stack # <<>> /\ (EndBody \/ EndWatched \/ EndCalled)
    BY <1>7, EndsOf
  <2>2. ~In("emit")
    BY <2>1 DEF EndBody, EndWatched, EndCalled, UserFrames, In
  <2>3. CASE EndBody
    BY <2>2, <2>3 DEF EndBody, EndTransaction, Rest
  <2>4. CASE EndWatched
    BY <2>1, <2>2, <2>4 DEF EndWatched, store, Rest
  <2>5. CASE EndCalled
    BY <2>2, <2>5 DEF EndCalled, store, Rest
  <2> QED BY <2>1, <2>3, <2>4, <2>5
<1> QED BY <1>1, <1>2, <1>3, <1>4, <1>5, <1>6, <1>7

LEMMA Steps ==
  ASSUME Typed, Typed', [Next]_vars
  PROVE  (Quiet /\ Rest) \/ Loud
<1>1. CASE \/ UNCHANGED vars
           \/ DrainEnd \/ CatchInLoop \/ CatchInUserCode
           \/ Return \/ Panic
  <2>1. Rest
    BY <1>1, RestOfLoops
  <2>2. CASE UNCHANGED vars \/ DrainEnd \/ CatchInLoop \/ CatchInUserCode
    BY <2>1, <2>2, QuietLoops
  <2>3. CASE Return \/ Panic
    BY <2>1, <2>3, EndsOf, QuietEnds
  <2> QED BY <1>1, <2>2, <2>3
<1>2. CASE EmitNext \/ EmitEnd \/ DrainLeftOver
  BY <1>2 DEF Loud
<1>3. CASE DrainNext
  <2>1. CommitTurn \/ KeepTurn \/ PanicTurn
    BY <1>3, Drainings
  <2> QED BY <1>3, <2>1, QuietLoops, RestOfLoops DEF Loud
<1>4. CASE \/ \E action \in Actions : Dispatch(action)
           \/ DispatchSilent \/ BeginTransaction \/ TransactionReturns \/ WithState
           \/ BeginWatch
  BY <1>4, QuietCalls, RestOfCalls
<1>5. CASE \/ \E sig \in Signals :
                \/ SubscribeTo(sig)
                \/ \E id \in 1 .. MaxSubs[sig] : CloseSubscription(sig, id)
           \/ DisposeSelector \/ CloseWatch
  BY <1>5, QuietSubscriptions, RestOfCalls
<1>6. CASE Refresh
  <2>1. CASE selector.disposed
    <3>1. stack' = stack /\ signals' = signals
      BY <1>6, <2>1 DEF Refresh
    <3>2. Quiet
      BY <3>1, QuietUnchanged
    <3> QED BY <1>6, <2>1, <3>2, RestOfLoops
  <2>2. CASE ~selector.disposed
    BY <1>6, <2>2 DEF Refresh, Loud
  <2> QED BY <2>1, <2>2
<1> QED BY <1>1, <1>2, <1>3, <1>4, <1>5, <1>6 DEF Next

-----------------------------------------------------------------------------
\* Heard is kept by every step.
LEMMA HeardInit == Init => Heard
<1> SUFFICES ASSUME Init PROVE Heard
  OBVIOUS
<1>1. stack = <<>> /\ seen = <<>> /\ Emissions(stack, "commits") = {}
  BY NoCalls DEF Init
<1>2. DOMAIN seen = {}
  BY <1>1
<1> QED BY <1>1, <1>2 DEF Heard, HeardBy

\* Listeners that come and go between two turns.
LEMMA HeardKept ==
  ASSUME NEW E, NEW s, NEW t, NEW h, NEW rev, NEW p, NEW q, HeardBy(E, s, h, rev, p),
         Sound(s), Sound(t), Keeps(s, t), DOMAIN h \in SUBSET Nat,
         E # {} => s.depth > 0 /\ (q => p)
  PROVE  HeardBy(E, t, h, rev, q)
<1>1. s \in SignalRecord /\ t \in SignalRecord
  BY DEF Sound
<1>2. s.next \in Nat /\ t.next \in Nat /\ s.next <= t.next
  <2>1. s \in SignalRecord
    BY <1>1
  <2>2. t \in SignalRecord
    BY <1>1
  <2>3. s.next \in Nat /\ t.next \in Nat
    BY <2>1, <2>2 DEF SignalRecord
  <2> QED BY <2>3 DEF Keeps
<1>3. ASSUME NEW id \in DOMAIN h PROVE id \in Nat /\ id < s.next /\ id < t.next /\ id # Source
  <2>1. id \in Nat /\ id < s.next /\ id # Source
    BY DEF HeardBy
  <2> QED BY <1>2, <2>1
<1>4. ASSUME NEW f \in E
      PROVE  /\ f.value = rev /\ ~q
             /\ \A k \in DOMAIN t.bindings :
                  t.bindings[k].active /\ t.bindings[k].id \in DOMAIN h =>
                    /\ k <= f.count
                    /\ k < f.pos => h[t.bindings[k].id] = rev
                    /\ k >= f.pos => h[t.bindings[k].id] = rev - 1
  <2>1. s.depth > 0 /\ f.value = rev /\ ~p /\ ~q
    BY DEF HeardBy
  <2> SUFFICES ASSUME NEW k \in DOMAIN t.bindings,
                      t.bindings[k].active, t.bindings[k].id \in DOMAIN h
               PROVE  /\ k <= f.count
                      /\ k < f.pos => h[t.bindings[k].id] = rev
                      /\ k >= f.pos => h[t.bindings[k].id] = rev - 1
    BY <2>1
  <2>2. IF k \in DOMAIN s.bindings
        THEN s.bindings[k].active /\ s.bindings[k].id = t.bindings[k].id
        ELSE t.bindings[k].id >= s.next
    BY <2>1 DEF Keeps
  <2>3. ~(t.bindings[k].id >= s.next)
    BY <1>2, <1>3
  <2>4. /\ k \in DOMAIN s.bindings /\ s.bindings[k].active
        /\ s.bindings[k].id = t.bindings[k].id
    BY <2>2, <2>3
  <2> QED BY <2>4 DEF HeardBy
<1>5. ASSUME E = {}, NEW id \in DOMAIN t.index, id \in DOMAIN h PROVE h[id] = rev
  <2>1. id \in DOMAIN s.index \/ id >= s.next
    BY DEF Keeps
  <2>2. id \in DOMAIN s.index
    BY <1>2, <1>3, <1>5, <2>1
  <2> QED BY <1>5, <2>2 DEF HeardBy
<1> QED BY <1>3, <1>4, <1>5 DEF HeardBy

\* What the stack says of a signal's depth.
LEMMA DepthIs ==
  ASSUME Typed, Stacked, NEW sig \in Signals
  PROVE  /\ signals[sig].depth \in Nat
         /\ signals[sig].depth = 0 <=> Emissions(stack, sig) = {}
<1>1. signals[sig].depth \in Nat
  BY SignalNumbers
<1>2. stack \in Seq(Frame) /\ signals[sig].depth = Many(stack, sig)
  BY DEF Typed, Stacked
<1>3. stack \in Seq(Frame)
  BY <1>2
<1>4. Many(stack, sig) = 0 <=> Emissions(stack, sig) = {}
  <2> DEFINE s == stack
  <2>1. s \in Seq(Frame)
    BY <1>3
  <2> HIDE DEF s
  <2>2. Many(s, sig) = 0 <=> Emissions(s, sig) = {}
    BY <2>1, NoneEmit
  <2> QED BY <2>2 DEF s
<1> QED BY <1>1, <1>2, <1>4

\* While the commits are emitted, or drain is on top, no other emission of
\* them is in progress.
LEMMA OnlyCommit ==
  ASSUME Typed, Stacked, stack # <<>>, Top.at = "drain" \/ Emits(Top, "commits")
  PROVE  Emissions(Below, "commits") = {}
<1> DEFINE x == Top
           s == Below
<1>1. x \in Frame /\ s \in Seq(Frame) /\ stack = <<x>> \o s
  BY TopTyped
<1>2. Ordered(<<x>> \o s)
  BY <1>1 DEF Stacked
<1>3. x.at = "drain" \/ Emits(x, "commits")
  OBVIOUS
<1> HIDE DEF x, s
<1>4. Emissions(s, "commits") = {}
  BY <1>1, <1>2, <1>3, OneCommit
<1> QED BY <1>4 DEF s

LEMMA HeardQuiet ==
  ASSUME Typed, Typed', Stacked, Heard, Quiet, Rest
  PROVE  Heard'
<1> DEFINE E == Emissions(stack, "commits")
           s == signals["commits"]
           t == signals'["commits"]
           h == seen
           rev == revision
           p == pendingCommit
           q == pendingCommit'
<1>1. "commits" \in Signals
  BY DEF Signals
<1>2. Sound(s) /\ Sound(t)
  BY <1>1 DEF Typed
<1>3. Keeps(s, t) /\ Emissions(stack', "commits") = E
  BY <1>1 DEF Quiet
<1>4. DOMAIN h \in SUBSET Nat
  BY DEF Typed, Indexes
<1>5. HeardBy(E, s, h, rev, p)
  BY DEF Heard
<1>6. ASSUME E # {} PROVE s.depth > 0 /\ (q => p)
  <2>1. s.depth > 0
    BY <1>1, <1>6, DepthIs
  <2>2. ~In("drain")
    <3> SUFFICES ASSUME In("drain") PROVE FALSE
      OBVIOUS
    <3>1. stack # <<>> /\ Top.at = "drain"
      BY DEF In
    <3>2. Emissions(Below, "commits") = {}
      BY <3>1, OnlyCommit
    <3> QED BY <1>6, <3>1, <3>2, EmissionsTop
  <2>3. pendingCommit' = pendingCommit
    BY <2>2 DEF Rest
  <2> QED BY <2>1, <2>3
<1>7. seen' = h /\ revision' = rev
  BY DEF Rest
<1> HIDE DEF E, s, t, h, rev, p, q
<1>8. HeardBy(E, t, h, rev, q)
  BY <1>2, <1>3, <1>4, <1>5, <1>6, HeardKept
<1>9. HeardBy(Emissions(stack', "commits"), signals'["commits"], seen', revision', pendingCommit')
  BY <1>3, <1>7, <1>8 DEF t, q
<1> QED BY <1>9 DEF Heard, HeardBy, Emissions

\* An emission of commits goes on to its next listener: one that is closed or
\* the Selector's own, which is not among those heard of, or one that is told.
GoesOn(s, h, rev, p, f, e) ==
  LET b == s.bindings[f.pos]
  IN /\ f.value = rev /\ ~p
     /\ ~b.active \/ b.id = Source => HeardBy({e}, s, h, rev, p)
     /\ \A g : /\ b.active /\ b.id # Source
               /\ DOMAIN g = DOMAIN h \cup {b.id}
               /\ \A k \in DOMAIN g : g[k] = IF k = b.id THEN rev ELSE h[k]
               => HeardBy({e}, s, g, rev, p)
     /\ b.active /\ b.id \in DOMAIN h => h[b.id] = rev - 1

LEMMA HeardOn ==
  ASSUME NEW s, NEW h, NEW rev \in Nat, NEW p, NEW f,
         f.pos \in Nat, f.count \in Nat, HeardBy({f}, s, h, rev, p), Sound(s),
         f.pos \in DOMAIN s.bindings, f.pos <= f.count,
         NEW e, e.value = f.value, e.pos = f.pos + 1, e.count = f.count
  PROVE  GoesOn(s, h, rev, p, f, e)
<1> DEFINE b == s.bindings[f.pos]
<1>1. s \in SignalRecord /\ Numbered(s)
  BY DEF Sound
<1>2. s \in SignalRecord
  BY <1>1
<1>3. /\ DOMAIN s.bindings \subseteq Nat
      /\ \A k \in DOMAIN s.bindings : s.bindings[k].id \in Nat
  BY <1>2, BindingsTyped
<1>4. /\ \A k, l \in DOMAIN s.bindings : s.bindings[k].id = s.bindings[l].id => k = l
      /\ \A k \in DOMAIN s.bindings : s.bindings[k].id < s.next
  BY <1>1 DEF Numbered
<1>5. /\ \A id \in DOMAIN h : id < s.next /\ id # Source
      /\ f.value = rev /\ ~p
      /\ \A k \in DOMAIN s.bindings :
           s.bindings[k].active /\ s.bindings[k].id \in DOMAIN h =>
             /\ k <= f.count
             /\ k < f.pos => h[s.bindings[k].id] = rev
             /\ k >= f.pos => h[s.bindings[k].id] = rev - 1
  BY DEF HeardBy
<1>6. ASSUME NEW k \in DOMAIN s.bindings
      PROVE  /\ k < e.pos <=> (k < f.pos \/ k = f.pos)
             /\ k >= e.pos <=> (k >= f.pos /\ k # f.pos)
  BY <1>3
<1>7. ASSUME ~b.active \/ b.id = Source PROVE HeardBy({e}, s, h, rev, p)
  <2>1. ~(b.active /\ b.id \in DOMAIN h)
    BY <1>5, <1>7
  <2>2. ASSUME NEW k \in DOMAIN s.bindings, s.bindings[k].active, s.bindings[k].id \in DOMAIN h
        PROVE  /\ k <= e.count
               /\ k < e.pos => h[s.bindings[k].id] = rev
               /\ k >= e.pos => h[s.bindings[k].id] = rev - 1
    <3>1. k # f.pos
      BY <2>1, <2>2
    <3> QED BY <1>5, <1>6, <2>2, <3>1
  <2> QED BY <1>5, <2>2 DEF HeardBy
<1>8. ASSUME NEW g, b.active, b.id # Source, DOMAIN g = DOMAIN h \cup {b.id},
             \A k \in DOMAIN g : g[k] = IF k = b.id THEN rev ELSE h[k]
      PROVE  HeardBy({e}, s, g, rev, p)
  <2>1. ASSUME NEW k \in DOMAIN s.bindings, s.bindings[k].active, s.bindings[k].id \in DOMAIN g
        PROVE  /\ k <= e.count
               /\ k < e.pos => g[s.bindings[k].id] = rev
               /\ k >= e.pos => g[s.bindings[k].id] = rev - 1
    <3>1. CASE k = f.pos
      <4>1. g[s.bindings[k].id] = rev
        BY <1>8, <2>1, <3>1
      <4>2. k <= e.count /\ ~(k >= e.pos)
        BY <1>6, <3>1
      <4> QED BY <4>1, <4>2
    <3>2. CASE k # f.pos
      <4>1. s.bindings[k].id # b.id
        BY <1>4, <3>2
      <4>2. s.bindings[k].id \in DOMAIN h /\ g[s.bindings[k].id] = h[s.bindings[k].id]
        BY <1>8, <2>1, <4>1
      <4> QED BY <1>5, <1>6, <2>1, <3>2, <4>2
    <3> QED BY <3>1, <3>2
  <2>2. \A id \in DOMAIN g : id < s.next /\ id # Source
    BY <1>4, <1>5, <1>8
  <2> HIDE DEF b
  <2> QED BY <1>5, <2>1, <2>2 DEF HeardBy
<1>9. ASSUME b.active, b.id \in DOMAIN h PROVE h[b.id] = rev - 1
  <2>1. f.pos >= f.pos
    OBVIOUS
  <2> QED BY <1>5, <1>9, <2>1
<1> QED BY <1>5, <1>7, <1>8, <1>9 DEF GoesOn

\* What Heard reads of the commits is unmoved.
LEMMA HeardSame ==
  ASSUME NEW E, NEW s, NEW t, NEW h, NEW rev, NEW p, HeardBy(E, s, h, rev, p),
         t.next = s.next, t.bindings = s.bindings, t.index = s.index
  PROVE  HeardBy(E, t, h, rev, p)
BY DEF HeardBy

LEMMA HeardThen ==
  ASSUME HeardBy(Emissions(stack', "commits"), signals'["commits"], seen', revision',
                 pendingCommit')
  PROVE  Heard'
BY DEF Heard, HeardBy, Emissions, Emits, Progress

\* The Selector's value is set: the commits stay as they are.
LEMMA CommitsUnderSet ==
  ASSUME Typed, NEW under \in Seq(Frame), SetSelector(under)
  PROVE  /\ Emissions(stack', "commits") = Emissions(under, "commits")
         /\ signals'["commits"].next = signals["commits"].next
         /\ signals'["commits"].bindings = signals["commits"].bindings
         /\ signals'["commits"].index = signals["commits"].index
<1>1. "commits" \in Signals /\ "changes" \in Signals /\ model \in Nat
  BY DEF Signals, Typed
<1>2. CASE selector.value = model
  BY <1>2 DEF SetSelector
<1>3. CASE selector.value # model
  <2> DEFINE x == Emission("changes", model)
  <2>1. StartEmit("changes", model, under)
    BY <1>3 DEF SetSelector
  <2>2. /\ x \in Frame /\ x.at = "emit" /\ x.sig = "changes" /\ stack' = <<x>> \o under
        /\ \A g \in Signals : /\ signals'[g].next = signals[g].next
                              /\ signals'[g].bindings = signals[g].bindings
                              /\ signals'[g].index = signals[g].index
    BY <1>1, <2>1, StartEmitTyped
  <2> HIDE DEF x
  <2>3. ~Emits(x, "commits")
    BY <2>2 DEF Emits
  <2>4. Emissions(<<x>> \o under, "commits") = Emissions(under, "commits")
    BY <2>2, <2>3, Emitted
  <2> QED BY <1>1, <2>2, <2>4
<1> QED BY <1>2, <1>3

\* What a turn of an emission does to the commits' own emissions.
LEMMA CommitTop ==
  ASSUME Typed, Stacked, In("emit"), Top.sig = "commits"
  PROVE  /\ Emissions(stack, "commits") = {Progress(Top)}
         /\ Emissions(Under, "commits")
              = {[value |-> Top.value, pos |-> Top.pos + 1, count |-> Top.count]}
         /\ Emissions(Below, "commits") = {}
<1>1. stack # <<>> /\ Emits(Top, "commits")
  BY DEF In, Emits
<1>2. Emissions(Below, "commits") = {}
  BY <1>1, OnlyCommit
<1>3. /\ Emissions(stack, "commits") = Emissions(Below, "commits") \cup {Progress(Top)}
      /\ Emissions(Under, "commits") = Emissions(Below, "commits")
           \cup {[value |-> Top.value, pos |-> Top.pos + 1, count |-> Top.count]}
  BY <1>1, EmissionsTop
<1> QED BY <1>2, <1>3

LEMMA CommitApart ==
  ASSUME Typed, stack # <<>>, ~Emits(Top, "commits")
  PROVE  /\ Emissions(stack, "commits") = Emissions(Below, "commits")
         /\ In("emit") => Emissions(Under, "commits") = Emissions(Below, "commits")
BY EmissionsTop

\* What a turn does to what was heard, and what it tells.
ToldRight ==
  \A id \in DOMAIN seen' :
    (id \notin DOMAIN seen \/ seen'[id] # seen[id]) =>
      /\ seen'[id] = revision /\ ~pendingCommit
      /\ id \in DOMAIN seen => seen'[id] = seen[id] + 1

LEMMA HeardEmitNext ==
  ASSUME Typed, Stacked, Heard, EmitNext
  PROVE  Heard' /\ ToldRight
<1>1. /\ In("emit") /\ Top.pos <= Top.count /\ UNCHANGED <<revision, pendingCommit>>
      /\ SkipTurn \/ FailTurn \/ SetTurn \/ CallTurn
  BY Turns DEF store
<1>2. /\ Top.sig \in Signals /\ Under \in Seq(Frame) /\ stack # <<>>
      /\ Top.pos \in Nat /\ Top.count \in Nat /\ Top.at = "emit" /\ Top.value \in Nat
  BY <1>1, Emitting
<1>3. /\ Top.pos \in DOMAIN signals[Top.sig].bindings
      /\ Bound.id \in Nat
  BY <1>1, BoundTyped
<1>4. /\ HeardBy(Emissions(stack, "commits"), signals["commits"], seen, revision, pendingCommit)
      /\ "commits" \in Signals /\ revision \in Nat /\ Sound(signals["commits"])
  BY DEF Heard, Typed, Signals
<1>5. seen' = seen => ToldRight
  BY DEF ToldRight
\* What is on the stack above Under emits no commit.
<1>6. /\ Emissions(stack', "commits") = Emissions(Under, "commits")
      /\ signals'["commits"].next = signals["commits"].next
      /\ signals'["commits"].bindings = signals["commits"].bindings
      /\ signals'["commits"].index = signals["commits"].index
  <2>1. CASE SkipTurn \/ FailTurn
    BY <2>1 DEF SkipTurn, FailTurn
  <2>2. CASE SetTurn
    <3>1. SetSelector(Under)
      BY <2>2 DEF SetTurn
    <3> QED BY <1>2, <3>1, CommitsUnderSet
  <2>3. CASE CallTurn
    <3> DEFINE x == [at |-> "listener", sig |-> Top.sig, id |-> Bound.id]
    <3>1. x \in Frame /\ x.at # "emit"
      BY <1>2, <1>3, NewFrames
    <3>2. stack' = <<x>> \o Under /\ signals' = signals
      BY <2>3 DEF CallTurn
    <3> HIDE DEF x
    <3>3. Emissions(<<x>> \o Under, "commits") = Emissions(Under, "commits")
      BY <1>2, <3>1, EmissionsQuiet
    <3> QED BY <3>2, <3>3
  <2> QED BY <1>1, <2>1, <2>2, <2>3
<1>7. CASE Top.sig # "commits"
  <2>1. ~Emits(Top, "commits")
    BY <1>7 DEF Emits
  <2>2. Emissions(Under, "commits") = Emissions(stack, "commits")
    BY <1>1, <1>2, <2>1, CommitApart
  <2>3. seen' = seen
    BY <1>1, <1>7 DEF SkipTurn, FailTurn, SetTurn, CallTurn
  <2>4. HeardBy(Emissions(stack', "commits"), signals["commits"], seen', revision', pendingCommit')
    BY <1>1, <1>4, <1>6, <2>2, <2>3
  <2>5. HeardBy(Emissions(stack', "commits"), signals'["commits"], seen', revision', pendingCommit')
    BY <1>6, <2>4, HeardSame
  <2> QED BY <1>5, <2>3, <2>5, HeardThen
<1>8. CASE Top.sig = "commits"
  <2> DEFINE f == Progress(Top)
             e == [value |-> Top.value, pos |-> Top.pos + 1, count |-> Top.count]
             s == signals["commits"]
             h == seen
             rev == revision
             p == pendingCommit
  <2>1. Emissions(stack, "commits") = {f} /\ Emissions(Under, "commits") = {e}
    BY <1>1, <1>8, CommitTop
  <2>2. /\ f.value = Top.value /\ f.pos = Top.pos /\ f.count = Top.count
        /\ e.value = f.value /\ e.pos = f.pos + 1 /\ e.count = f.count
    BY DEF Progress
  <2>3. HeardBy({f}, s, h, rev, p) /\ Sound(s) /\ rev \in Nat
    BY <1>4, <2>1
  <2>4. f.pos \in DOMAIN s.bindings /\ f.pos <= f.count /\ f.pos \in Nat /\ f.count \in Nat
    BY <1>1, <1>2, <1>3, <1>8, <2>2
  <2>5. Bound = s.bindings[f.pos]
    BY <1>8, <2>2 DEF Bound
  <2> HIDE DEF f, e, s, h, rev, p
  <2>6. GoesOn(s, h, rev, p, f, e)
    <3>1. rev \in Nat
      BY <2>3
    <3>2. f.pos \in Nat
      BY <2>4
    <3>3. f.count \in Nat
      BY <2>4
    <3>4. HeardBy({f}, s, h, rev, p) /\ Sound(s)
      BY <2>3
    <3> QED BY <2>2, <2>4, <3>1, <3>2, <3>3, <3>4, HeardOn
  <2>7. HeardBy({e}, s, seen', rev, p) /\ ToldRight
    <3>1. CASE SkipTurn \/ FailTurn \/ SetTurn
      <4>1. ~Bound.active \/ Bound.id = Source
        BY <3>1 DEF SkipTurn, FailTurn, SetTurn
      <4>2. seen' = h
        BY <3>1 DEF SkipTurn, FailTurn, SetTurn, h
      <4> QED BY <1>5, <2>5, <2>6, <4>1, <4>2 DEF h, GoesOn
    <3>2. CASE CallTurn
      <4>1. Bound.active /\ Bound.id # Source /\ seen' = Told(Bound.id, Top.value)
        BY <1>8, <3>2 DEF CallTurn
      <4>2. seen \in Indexes
        BY DEF Typed
      <4> DEFINE id == Bound.id
                 v == Top.value
      <4>6. id \in Nat
        BY <1>3
      <4>7. v \in Nat
        BY <1>2
      <4>3. /\ DOMAIN seen' = DOMAIN seen \cup {Bound.id}
            /\ \A k \in DOMAIN seen \cup {Bound.id} :
                 seen'[k] = IF k = Bound.id THEN Top.value ELSE seen[k]
        <5>1. seen' = Told(id, v)
          BY <4>1
        <5> HIDE DEF id, v
        <5>2. /\ DOMAIN Told(id, v) = DOMAIN seen \cup {id}
              /\ \A k \in DOMAIN seen \cup {id} : Told(id, v)[k] = IF k = id THEN v ELSE seen[k]
          BY <4>2, <4>6, <4>7, ToldTyped
        <5>3. /\ DOMAIN seen' = DOMAIN seen \cup {id}
              /\ \A k \in DOMAIN seen \cup {id} : seen'[k] = IF k = id THEN v ELSE seen[k]
          BY <5>1, <5>2
        <5> QED BY <5>3 DEF id, v
      <4>4. Top.value = rev
        BY <2>2, <2>6 DEF GoesOn
      <4>5. HeardBy({e}, s, seen', rev, p)
        BY <2>5, <2>6, <4>1, <4>3, <4>4 DEF h, GoesOn
      <4>8. ToldRight
        <5> SUFFICES ASSUME NEW k \in DOMAIN seen',
                            k \notin DOMAIN seen \/ seen'[k] # seen[k]
                     PROVE  /\ seen'[k] = revision /\ ~pendingCommit
                            /\ k \in DOMAIN seen => seen'[k] = seen[k] + 1
          BY DEF ToldRight
        <5>1. k = Bound.id
          BY <4>3
        <5>2. seen'[k] = rev
          BY <4>3, <4>4, <5>1
        <5>3. k \in DOMAIN seen => seen[k] = rev - 1
          BY <2>5, <2>6, <4>1, <5>1 DEF h, GoesOn
        <5>4. rev \in Nat
          BY <2>3
        <5> QED BY <2>6, <5>2, <5>3, <5>4 DEF rev, p, GoesOn
      <4> QED BY <4>5, <4>8
    <3> QED BY <1>1, <3>1, <3>2
  <2>8. HeardBy({e}, signals'["commits"], seen', rev, p)
    BY <1>6, <2>7, HeardSame DEF s
  <2>9. HeardBy(Emissions(stack', "commits"), signals'["commits"], seen', revision', pendingCommit')
    BY <1>1, <1>6, <2>1, <2>8 DEF rev, p
  <2> QED BY <2>7, <2>9, HeardThen
<1> QED BY <1>7, <1>8

\* An emission of commits that has called every listener ends.
LEMMA HeardLeft ==
  ASSUME NEW s, NEW h, NEW rev, NEW p, NEW f, HeardBy({f}, s, h, rev, p), Sound(s),
         s.depth > 0, f.pos \in Nat, f.count \in Nat, f.pos > f.count
  PROVE  HeardBy({}, LeaveEmit(s), h, rev, p)
<1> DEFINE t == LeaveEmit(s)
<1>1. s \in SignalRecord /\ Numbered(s) /\ Agrees(s)
  BY SoundIs
<1>2. s \in SignalRecord
  BY <1>1
<1>3. DOMAIN s.bindings \subseteq Nat
  BY <1>2, BindingsTyped
<1>4. t.next = s.next /\ DOMAIN t.index = DOMAIN s.index
  BY LeaveSound
<1>5. /\ \A id \in DOMAIN h : id < s.next /\ id # Source
      /\ \A k \in DOMAIN s.bindings :
           s.bindings[k].active /\ s.bindings[k].id \in DOMAIN h =>
             /\ k <= f.count
             /\ k < f.pos => h[s.bindings[k].id] = rev
  BY DEF HeardBy
<1>6. ASSUME NEW id \in DOMAIN s.index, id \in DOMAIN h PROVE h[id] = rev
  <2> DEFINE k == s.index[id]
  <2>1. k \in DOMAIN s.bindings /\ s.bindings[k].id = id /\ s.bindings[k].active
    BY <1>1 DEF Agrees
  <2> HIDE DEF k
  <2>2. k \in Nat
    BY <1>3, <2>1
  <2>3. k <= f.count /\ (k < f.pos => h[id] = rev)
    BY <1>5, <1>6, <2>1
  <2> QED BY <2>2, <2>3
<1> HIDE DEF t
<1>7. HeardBy({}, t, h, rev, p)
  BY <1>4, <1>5, <1>6 DEF HeardBy
<1> QED BY <1>7 DEF t

\* A commit starts: every listener is to be called.
LEMMA HeardStarts ==
  ASSUME NEW s, NEW t, NEW h, NEW rev \in Nat, NEW p, NEW q, HeardBy({}, s, h, rev, p), Sound(s),
         t.next = s.next, t.bindings = s.bindings, t.index = s.index, ~q,
         NEW f, f.value = rev + 1, f.pos = 1, f.count = Len(s.bindings)
  PROVE  HeardBy({f}, t, h, rev + 1, q)
<1>1. s \in SignalRecord /\ Numbered(s) /\ Agrees(s)
  BY SoundIs
<1>2. s \in SignalRecord
  BY <1>1
<1>3. DOMAIN s.bindings = 1 .. Len(s.bindings) /\ Len(s.bindings) \in Nat
  BY <1>2, BindingsTyped
<1>4. /\ \A id \in DOMAIN h : id < s.next /\ id # Source
      /\ \A id \in DOMAIN s.index : id \in DOMAIN h => h[id] = rev
  BY DEF HeardBy
<1>5. ASSUME NEW k \in DOMAIN s.bindings, s.bindings[k].active, s.bindings[k].id \in DOMAIN h
      PROVE  /\ k <= f.count
             /\ k < f.pos => h[s.bindings[k].id] = rev + 1
             /\ k >= f.pos => h[s.bindings[k].id] = (rev + 1) - 1
  <2>1. k \in Nat /\ k <= f.count /\ ~(k < f.pos)
    BY <1>3
  <2>2. s.bindings[k].id \in DOMAIN s.index
    BY <1>1, <1>5 DEF Agrees
  <2>3. h[s.bindings[k].id] = rev
    BY <1>4, <1>5, <2>2
  <2> QED BY <2>1, <2>3
<1> QED BY <1>4, <1>5 DEF HeardBy

LEMMA HeardEmitEnd ==
  ASSUME Typed, Stacked, Heard, EmitEnd
  PROVE  Heard'
<1>1. /\ In("emit") /\ Top.pos > Top.count /\ stack' = Below
      /\ signals' = [signals EXCEPT ![Top.sig] = LeaveEmit(signals[Top.sig])]
      /\ UNCHANGED <<revision, pendingCommit, seen>>
  BY DEF EmitEnd, store
<1>2. /\ Top.sig \in Signals /\ stack # <<>> /\ Sound(signals[Top.sig])
      /\ signals[Top.sig].depth > 0 /\ Top.pos \in Nat /\ Top.count \in Nat
  BY <1>1, Emitting
<1>3. /\ HeardBy(Emissions(stack, "commits"), signals["commits"], seen, revision, pendingCommit)
      /\ "commits" \in Signals /\ signals \in [Signals -> SignalRecord]
  BY DEF Heard, Typed, Signals
<1>4. CASE Top.sig # "commits"
  <2>1. ~Emits(Top, "commits")
    BY <1>4 DEF Emits
  <2>2. Emissions(Below, "commits") = Emissions(stack, "commits")
    BY <1>2, <2>1, CommitApart
  <2>3. signals'["commits"] = signals["commits"]
    BY <1>1, <1>3, <1>4
  <2> QED BY <1>1, <1>3, <2>2, <2>3, HeardThen
<1>5. CASE Top.sig = "commits"
  <2>1. /\ Emissions(stack, "commits") = {Progress(Top)}
        /\ Emissions(Below, "commits") = {}
    BY <1>1, <1>5, CommitTop
  <2>2. signals'["commits"] = LeaveEmit(signals["commits"])
    BY <1>1, <1>3, <1>5
  <2> DEFINE f == Progress(Top)
             s == signals["commits"]
             h == seen
             rev == revision
             p == pendingCommit
  <2>3. f.pos \in Nat
    BY <1>2 DEF Progress
  <2>4. f.count \in Nat
    BY <1>2 DEF Progress
  <2>5. f.pos > f.count
    BY <1>1 DEF Progress
  <2>6. HeardBy({f}, s, h, rev, p) /\ Sound(s) /\ s.depth > 0
    BY <1>2, <1>3, <1>5, <2>1
  <2> HIDE DEF f, s, h, rev, p
  <2>7. HeardBy({}, LeaveEmit(s), h, rev, p)
    BY <2>3, <2>4, <2>5, <2>6, HeardLeft
  <2>8. HeardBy(Emissions(stack', "commits"), signals'["commits"], seen', revision', pendingCommit')
    BY <1>1, <2>1, <2>2, <2>7 DEF s, h, rev, p
  <2> QED BY <2>8, HeardThen
<1> QED BY <1>4, <1>5

LEMMA HeardPublish ==
  ASSUME Typed, Stacked, Heard, NEW under \in Seq(Frame), Publish(under), seen' = seen,
         Emissions(stack, "commits") = {}, Emissions(under, "commits") = {}
  PROVE  Heard'
<1> DEFINE x == Emission("commits", revision')
           f == Progress(x)
           s == signals["commits"]
           t == signals'["commits"]
           h == seen
           rev == revision
           p == pendingCommit
           q == pendingCommit'
<1>1. "commits" \in Signals
  BY DEF Signals
<1>2. /\ ~q /\ revision' = rev + 1 /\ x \in Frame /\ x.at = "emit" /\ x.sig = "commits"
      /\ f = [value |-> rev + 1, pos |-> 1, count |-> Len(s.bindings)]
      /\ stack' = <<x>> \o under
      /\ t.next = s.next /\ t.bindings = s.bindings /\ t.index = s.index
  BY <1>1, PublishTyped
<1>3. f.value = rev + 1 /\ f.pos = 1 /\ f.count = Len(s.bindings)
  BY <1>2
<1>4. HeardBy({}, s, h, rev, p) /\ Sound(s)
  BY <1>1 DEF Heard, Typed
<1>5. rev \in Nat
  BY DEF Typed
<1>6. Emissions(stack', "commits") = {f}
  <2> HIDE DEF x
  <2>1. Emits(x, "commits")
    BY <1>2 DEF Emits
  <2>2. Emissions(<<x>> \o under, "commits") = Emissions(under, "commits") \cup {Progress(x)}
    BY <1>2, <2>1, Emitted
  <2> QED BY <1>2, <2>2
<1> HIDE DEF x, f, s, t, h, rev, p, q
<1>7. HeardBy({f}, t, h, rev + 1, q)
  BY <1>2, <1>3, <1>4, <1>5, HeardStarts
<1>8. HeardBy(Emissions(stack', "commits"), signals'["commits"], seen', revision', pendingCommit')
  BY <1>2, <1>6, <1>7 DEF t, h, q
<1> QED BY <1>8, HeardThen

LEMMA HeardCommits ==
  ASSUME Typed, Stacked, Heard, (DrainNext /\ CommitTurn) \/ DrainLeftOver
  PROVE  Heard' /\ seen' = seen
<1>1. In("drain") /\ seen' = seen
  BY DEF DrainNext, DrainLeftOver
<1>2. /\ stack # <<>> /\ Top.at = "drain" /\ Below \in Seq(Frame) /\ stack \in Seq(Frame)
  BY <1>1, DrainTop DEF Typed
<1>3. Emissions(Below, "commits") = {}
  BY <1>2, OnlyCommit
<1>4. /\ Emissions(stack, "commits") = {}
      /\ Emissions(<<[Top EXCEPT !.last = TRUE]>> \o Below, "commits") = {}
  BY <1>1, <1>2, <1>3, EmissionsTop
<1>5. CASE DrainNext /\ CommitTurn
  <2>1. Publish(stack)
    BY <1>5 DEF CommitTurn
  <2> QED BY <1>1, <1>2, <1>4, <2>1, HeardPublish
<1>6. CASE DrainLeftOver
  <2> DEFINE under == <<[Top EXCEPT !.last = TRUE]>> \o Below
  <2>1. Publish(under)
    BY <1>6 DEF DrainLeftOver
  <2>2. under \in Seq(Frame)
    BY <1>2, DrainTop, Turned, Pushable, TopTyped
  <2>3. Emissions(under, "commits") = {}
    BY <1>4
  <2> HIDE DEF under
  <2> QED BY <1>1, <1>4, <2>1, <2>2, <2>3, HeardPublish
<1> QED BY <1>5, <1>6

LEMMA HeardRefresh ==
  ASSUME Typed, Heard, Refresh, SetSelector(stack)
  PROVE  Heard' /\ seen' = seen
<1>1. UNCHANGED <<revision, pendingCommit, seen>> /\ stack \in Seq(Frame)
  BY DEF Refresh, store, Typed
<1>2. /\ Emissions(stack', "commits") = Emissions(stack, "commits")
      /\ signals'["commits"].next = signals["commits"].next
      /\ signals'["commits"].bindings = signals["commits"].bindings
      /\ signals'["commits"].index = signals["commits"].index
  BY <1>1, CommitsUnderSet
<1>3. HeardBy(Emissions(stack', "commits"), signals["commits"], seen', revision', pendingCommit')
  BY <1>1, <1>2 DEF Heard
<1>4. HeardBy(Emissions(stack', "commits"), signals'["commits"], seen', revision', pendingCommit')
  BY <1>2, <1>3, HeardSame
<1> QED BY <1>1, <1>4, HeardThen

LEMMA HeardNext ==
  ASSUME Typed, Typed', Stacked, Heard, [Next]_vars
  PROVE  Heard' /\ ToldRight
<1>1. seen' = seen => ToldRight
  BY DEF ToldRight
<1>2. CASE Quiet /\ Rest
  BY <1>1, <1>2, HeardQuiet DEF Rest
<1>3. CASE EmitNext
  BY <1>3, HeardEmitNext
<1>4. CASE EmitEnd
  <2>1. seen' = seen
    BY <1>4 DEF EmitEnd
  <2> QED BY <1>1, <1>4, <2>1, HeardEmitEnd
<1>5. CASE (DrainNext /\ CommitTurn) \/ DrainLeftOver
  BY <1>1, <1>5, HeardCommits
<1>6. CASE Refresh /\ SetSelector(stack)
  BY <1>1, <1>6, HeardRefresh
<1> QED BY <1>2, <1>3, <1>4, <1>5, <1>6, Steps DEF Loud

LEMMA ShapeHeard == (Shape /\ Heard) /\ [Next]_vars => (Shape /\ Heard)' /\ ToldRight
<1> SUFFICES ASSUME Shape, Heard, [Next]_vars PROVE Shape' /\ Heard' /\ ToldRight
  OBVIOUS
<1>1. Shape'
  BY ShapeNext
<1>2. Typed /\ Stacked /\ Typed'
  BY <1>1 DEF Shape
<1> QED BY <1>1, <1>2, HeardNext

\* A commit listener is told every revision once and in order, although it and
\* its peers dispatch, subscribe, close and open transactions while they run:
\* emit calls the listeners at their positions, and drain does not nest.
THEOREM EveryRevisionInOrder == Spec => RevisionsInOrder
<1>1. Init => Shape /\ Heard
  BY ShapeInit, HeardInit
<1>2. (Shape /\ Heard) /\ [Next]_vars => (Shape /\ Heard)' /\ ToldRight
  BY ShapeHeard
<1> QED BY <1>1, <1>2, PTL DEF Spec, RevisionsInOrder, ToldRight

-----------------------------------------------------------------------------
\* The Selector's own subscription stays the first one until it is disposed.
First == ~selector.disposed => SourceFirst(signals["commits"])

LEMMA FirstSame ==
  ASSUME First, selector'.disposed = selector.disposed,
         signals'["commits"].bindings = signals["commits"].bindings
  PROVE  First'
BY DEF First, SourceFirst

LEMMA FirstTurns ==
  ASSUME Typed, Stacked, First, EmitNext \/ EmitEnd
  PROVE  First'
<1>0. "commits" \in Signals /\ signals \in [Signals -> SignalRecord] /\ Sound(signals["commits"])
  BY DEF Signals, Typed
<1>1. CASE EmitNext
  <2>1. In("emit") /\ (SkipTurn \/ FailTurn \/ SetTurn \/ CallTurn)
    BY <1>1, Turns
  <2>2. CASE SkipTurn \/ FailTurn \/ CallTurn
    BY <2>2, FirstSame DEF SkipTurn, FailTurn, CallTurn
  <2>3. CASE SetTurn
    <3>1. SetSelector(Under) /\ Under \in Seq(Frame)
      BY <2>1, <2>3, Emitting DEF SetTurn
    <3> QED BY <3>1, SetSelectorTyped, CommitsUnderSet, FirstSame
  <2> QED BY <2>1, <2>2, <2>3
<1>2. CASE EmitEnd
  <2>1. /\ In("emit") /\ selector' = selector
        /\ signals' = [signals EXCEPT ![Top.sig] = LeaveEmit(signals[Top.sig])]
    BY <1>2 DEF EmitEnd
  <2>2. Top.sig \in Signals /\ signals[Top.sig].depth > 0
    BY <2>1, Emitting
  <2>3. CASE Top.sig # "commits"
    <3>1. signals'["commits"] = signals["commits"]
      BY <1>0, <2>1, <2>2, <2>3
    <3> QED BY <2>1, <3>1, FirstSame
  <2>4. CASE Top.sig = "commits"
    <3>1. signals'["commits"] = LeaveEmit(signals["commits"])
      BY <1>0, <2>1, <2>2, <2>4
    <3>2. SourceFirst(signals["commits"]) => SourceFirst(LeaveEmit(signals["commits"]))
      BY <1>0, <2>2, <2>4, LeaveSound
    <3> QED BY <2>1, <3>1, <3>2 DEF First
  <2> QED BY <2>3, <2>4
<1> QED BY <1>1, <1>2

LEMMA FirstSubscriptions ==
  ASSUME Typed, First,
         \/ \E sig \in Signals :
              \/ SubscribeTo(sig)
              \/ \E id \in 1 .. MaxSubs[sig] : CloseSubscription(sig, id)
         \/ DisposeSelector \/ CloseWatch \/ EndWatched
  PROVE  First'
<1>0. /\ "commits" \in Signals /\ "changes" \in Signals /\ signals \in [Signals -> SignalRecord]
      /\ Sound(signals["commits"])
  BY DEF Signals, Typed
<1>1. ASSUME NEW sig \in Signals, SubscribeTo(sig) PROVE First'
  <2>1. /\ signals'["commits"] = IF "commits" = sig THEN Subscribe(signals[sig])
                                 ELSE signals["commits"]
        /\ selector' = selector
    BY <1>0, <1>1, SubscribesIs DEF SubscribeTo
  <2>2. SourceFirst(signals["commits"]) => SourceFirst(Subscribe(signals["commits"]))
    BY <1>0, SubscribeSound DEF SourceFirst
  <2> QED BY <2>1, <2>2 DEF First
<1>2. ASSUME NEW sig \in Signals, NEW id, CloseSubscription(sig, id) PROVE First'
  <2>1. /\ signals' = [signals EXCEPT ![sig] = Unsubscribe(signals[sig], id)]
        /\ selector' = selector /\ <<sig, id>> # <<"commits", Source>>
    BY <1>2 DEF CloseSubscription
  <2>2. signals'["commits"] = IF "commits" = sig THEN Unsubscribe(signals[sig], id)
                              ELSE signals["commits"]
    BY <1>0, <2>1, UnsubscribesIs
  <2>3. CASE sig = "commits"
    <3>1. id # Source
      BY <2>1, <2>3
    <3>2. SourceFirst(signals["commits"]) => SourceFirst(Unsubscribe(signals["commits"], id))
      BY <1>0, <3>1, UnsubscribeSound
    <3> QED BY <2>1, <2>2, <2>3, <3>2 DEF First
  <2>4. CASE sig # "commits"
    BY <2>1, <2>2, <2>4 DEF First
  <2> QED BY <2>3, <2>4
<1>3. CASE DisposeSelector
  BY <1>3, DisposeIs DEF First
<1>4. CASE CloseWatch \/ EndWatched
  <2>1. selector' = selector
    BY <1>4 DEF CloseWatch, EndWatched
  <2>2. signals'["commits"] = signals["commits"]
    BY <1>0, <1>4 DEF CloseWatch, EndWatched
  <2> QED BY <2>1, <2>2, FirstSame
<1> QED BY <1>1, <1>2, <1>3, <1>4

LEMMA FirstOthers ==
  ASSUME Typed, First,
         \/ UNCHANGED vars
         \/ DrainNext \/ DrainLeftOver \/ DrainEnd \/ CatchInLoop \/ CatchInUserCode
         \/ \E action \in Actions : Dispatch(action)
         \/ DispatchSilent \/ BeginTransaction \/ TransactionReturns \/ WithState
         \/ BeginWatch \/ Refresh \/ EndBody \/ EndCalled
  PROVE  First'
<1>0. "commits" \in Signals /\ stack \in Seq(Frame)
  BY DEF Signals, Typed
<1>1. CASE \/ UNCHANGED vars \/ DrainEnd \/ CatchInLoop \/ CatchInUserCode
           \/ \E action \in Actions : Dispatch(action)
           \/ DispatchSilent \/ BeginTransaction \/ TransactionReturns \/ WithState
           \/ BeginWatch \/ EndBody \/ EndCalled
  <2>1. UNCHANGED <<selector, signals>>
    BY <1>1 DEF vars, DrainEnd, CatchInLoop, CatchInUserCode, Dispatch, DispatchSilent,
                BeginTransaction, TransactionReturns, WithState, BeginWatch, EndBody,
                EndTransaction, EndCalled
  <2> QED BY <2>1, FirstSame
<1>2. CASE DrainNext
  <2>1. selector' = selector /\ (CommitTurn \/ KeepTurn \/ PanicTurn)
    BY <1>2, Drainings
  <2>2. CASE KeepTurn \/ PanicTurn
    BY <2>1, <2>2, FirstSame DEF KeepTurn, PanicTurn
  <2>3. CASE CommitTurn
    <3>1. Publish(stack)
      BY <2>3 DEF CommitTurn
    <3>2. signals'["commits"].bindings = signals["commits"].bindings
      BY <1>0, <3>1, PublishTyped
    <3> QED BY <2>1, <3>2, FirstSame
  <2> QED BY <2>1, <2>2, <2>3
<1>3. CASE DrainLeftOver
  <2> DEFINE under == <<[Top EXCEPT !.last = TRUE]>> \o Below
  <2>1. Publish(under) /\ selector' = selector /\ In("drain")
    BY <1>3 DEF DrainLeftOver
  <2>2. under \in Seq(Frame)
    BY <2>1, DrainTop, Turned, Pushable, TopTyped
  <2> HIDE DEF under
  <2>3. signals'["commits"].bindings = signals["commits"].bindings
    BY <1>0, <2>1, <2>2, PublishTyped
  <2> QED BY <2>1, <2>3, FirstSame
<1>4. CASE Refresh
  <2>1. CASE selector.disposed
    BY <1>4, <2>1, FirstSame DEF Refresh
  <2>2. CASE ~selector.disposed
    <3>1. SetSelector(stack)
      BY <1>4, <2>2 DEF Refresh
    <3> QED BY <1>0, <3>1, SetSelectorTyped, CommitsUnderSet, FirstSame
  <2> QED BY <2>1, <2>2
<1> QED BY <1>1, <1>2, <1>3, <1>4

LEMMA FirstNext ==
  ASSUME Typed, Stacked, First, [Next]_vars
  PROVE  First'
<1>1. CASE EmitNext \/ EmitEnd
  BY <1>1, FirstTurns
<1>2. CASE \/ \E sig \in Signals :
                \/ SubscribeTo(sig)
                \/ \E id \in 1 .. MaxSubs[sig] : CloseSubscription(sig, id)
           \/ DisposeSelector \/ CloseWatch
  BY <1>2, FirstSubscriptions
<1>3. CASE \/ UNCHANGED vars
           \/ DrainNext \/ DrainLeftOver \/ DrainEnd \/ CatchInLoop \/ CatchInUserCode
           \/ \E action \in Actions : Dispatch(action)
           \/ DispatchSilent \/ BeginTransaction \/ TransactionReturns \/ WithState
           \/ BeginWatch \/ Refresh
  BY <1>3, FirstOthers
<1>4. CASE Return \/ Panic
  BY <1>4, EndsOf, FirstSubscriptions, FirstOthers
<1> QED BY <1>1, <1>2, <1>3, <1>4 DEF Next

\* The Selector misses a change it is about to be told of.
Missed == ~pendingCommit /\ ~stale /\ ~selector.disposed /\ selector.value # model
Coming == ~unwinding /\ In("emit") /\ Top.sig = "commits" /\ Top.pos = 1 /\ Top.count >= 1

LEMMA FreshIs == Fresh <=> First /\ (Missed => Coming)
BY DEF Fresh, First, Missed, Coming

LEMMA MissedSame ==
  ASSUME Fresh, ~Missed, UNCHANGED <<pendingCommit, stale, selector, model>>
  PROVE  ~Missed'
BY DEF Missed

\* The Selector's own listener has run.
LEMMA MissedSet ==
  ASSUME Typed, NEW under \in Seq(Frame), SetSelector(under), model' = model
  PROVE  ~Missed'
<1>1. selector'.value = model'
  BY SetSelectorTyped
<1> QED BY <1>1 DEF Missed

LEMMA FreshQuiet ==
  ASSUME Typed, Fresh, Rest
  PROVE  Missed' => Coming'
<1> SUFFICES ASSUME Missed' PROVE Coming'
  OBVIOUS
<1>1. ~pendingCommit' /\ ~stale' /\ ~selector'.disposed /\ selector'.value # model'
  BY DEF Missed
<1>2. UNCHANGED <<model, stale>>
  BY <1>1 DEF Rest
<1>3. pendingCommit' = pendingCommit
  BY <1>1 DEF Rest
<1>4. selector' = selector
  BY <1>1, DisposeIs DEF Rest
<1>5. Missed
  BY <1>1, <1>2, <1>3, <1>4 DEF Missed
<1>6. Coming
  BY <1>5, FreshIs
<1>7. UNCHANGED vars
  BY <1>6 DEF Rest, Coming
<1> QED BY <1>6, <1>7 DEF vars, Coming, In, Top

LEMMA FreshEmitNext ==
  ASSUME Typed, Stacked, Fresh, EmitNext
  PROVE  ~Missed'
<1>1. /\ In("emit") /\ UNCHANGED <<model, pendingCommit>>
      /\ SkipTurn \/ FailTurn \/ SetTurn \/ CallTurn
  BY Turns DEF store
<1>2. CASE SetTurn
  BY <1>1, <1>2, Emitting, MissedSet DEF SetTurn
<1>3. CASE FailTurn
  BY <1>3 DEF FailTurn, Missed
<1>4. CASE SkipTurn \/ CallTurn
  <2>1. UNCHANGED <<pendingCommit, stale, selector, model>>
    BY <1>1, <1>4 DEF SkipTurn, CallTurn
  <2>2. ~Missed
    <3> SUFFICES ASSUME Missed PROVE FALSE
      OBVIOUS
    <3>1. Top.sig = "commits" /\ Top.pos = 1 /\ ~selector.disposed
      BY FreshIs DEF Coming, Missed
    <3>2. SourceFirst(signals["commits"])
      BY <3>1, FreshIs DEF First
    <3>3. Bound = [id |-> Source, active |-> TRUE]
      BY <3>1, <3>2 DEF Bound, SourceFirst
    <3>4. Bound.active /\ Bound.id = Source
      BY <3>3
    <3> QED BY <1>4, <3>1, <3>4 DEF SkipTurn, CallTurn
  <2> QED BY <2>1, <2>2, MissedSame
<1> QED BY <1>1, <1>2, <1>3, <1>4

LEMMA FreshEmitEnd ==
  ASSUME Typed, Stacked, Fresh, EmitEnd
  PROVE  ~Missed'
<1>1. /\ In("emit") /\ Top.pos > Top.count
      /\ UNCHANGED <<pendingCommit, stale, selector, model>>
  BY DEF EmitEnd, store
<1>2. Top.pos \in Nat /\ Top.count \in Nat
  BY <1>1, Emitting
<1>3. ~Coming
  BY <1>1, <1>2 DEF Coming
<1> QED BY <1>1, <1>3, FreshIs, MissedSame

\* A commit starts: the Selector is called first.
LEMMA FreshPublish ==
  ASSUME Typed, First, NEW under \in Seq(Frame), Publish(under), ~unwinding',
         selector' = selector
  PROVE  Missed' => Coming'
<1> SUFFICES ASSUME ~selector.disposed PROVE Coming'
  BY DEF Missed
<1> DEFINE x == Emission("commits", revision')
           s == signals["commits"]
<1>1. "commits" \in Signals
  BY DEF Signals
<1>2. /\ x \in Frame /\ x.at = "emit" /\ x.sig = "commits" /\ x.pos = 1
      /\ x.count = Len(s.bindings) /\ stack' = <<x>> \o under
  BY PublishTyped
<1>3. s \in SignalRecord /\ 1 \in DOMAIN s.bindings
  BY <1>1 DEF Typed, First, SourceFirst
<1>4. s \in SignalRecord
  BY <1>3
<1>5. Len(s.bindings) >= 1
  BY <1>3, <1>4, BindingsTyped
<1> HIDE DEF x, s
<1>6. stack' # <<>> /\ Head(stack') = x
  BY <1>2, Pushed
<1> QED BY <1>2, <1>5, <1>6 DEF Coming, In, Top

LEMMA FreshCommits ==
  ASSUME Typed, First, (DrainNext /\ CommitTurn) \/ DrainLeftOver
  PROVE  Missed' => Coming'
<1>1. In("drain") /\ ~unwinding' /\ selector' = selector
  BY DEF DrainNext, DrainLeftOver
<1>2. stack \in Seq(Frame)
  BY DEF Typed
<1>3. CASE DrainNext /\ CommitTurn
  <2>1. Publish(stack)
    BY <1>3 DEF CommitTurn
  <2> QED BY <1>1, <1>2, <2>1, FreshPublish
<1>4. CASE DrainLeftOver
  <2> DEFINE under == <<[Top EXCEPT !.last = TRUE]>> \o Below
  <2>1. Publish(under)
    BY <1>4 DEF DrainLeftOver
  <2>2. under \in Seq(Frame)
    BY <1>1, DrainTop, Turned, Pushable, TopTyped
  <2> HIDE DEF under
  <2> QED BY <1>1, <2>1, <2>2, FreshPublish
<1> QED BY <1>3, <1>4

LEMMA FreshNext ==
  ASSUME Typed, Typed', Stacked, Fresh, [Next]_vars
  PROVE  Fresh'
<1>1. First /\ First'
  BY FreshIs, FirstNext
<1>2. Missed' => Coming'
  <2>1. CASE Quiet /\ Rest
    BY <2>1, FreshQuiet
  <2>2. CASE EmitNext \/ EmitEnd
    BY <2>2, FreshEmitNext, FreshEmitEnd
  <2>3. CASE (DrainNext /\ CommitTurn) \/ DrainLeftOver
    BY <1>1, <2>3, FreshCommits
  <2>4. CASE Refresh /\ SetSelector(stack)
    <3>1. stack \in Seq(Frame) /\ model' = model
      BY <2>4 DEF Refresh, store, Typed
    <3> QED BY <2>4, <3>1, MissedSet
  <2> QED BY <2>1, <2>2, <2>3, <2>4, Steps DEF Loud
<1> QED BY <1>1, <1>2, FreshIs DEF Fresh, First, Missed, Coming

LEMMA FreshInit == Init => Fresh
<1> SUFFICES ASSUME Init PROVE Fresh
  OBVIOUS
<1>1. selector.value = model /\ signals["commits"] = Subscribe(NewSignal)
  BY DEF Init
<1>2. Subscribe(NewSignal).bindings = Append(<<>>, [id |-> 1, active |-> TRUE])
  <2> DEFINE s == NewSignal
  <2>1. Sound(s) /\ s.next = 1 /\ s.bindings = <<>>
    BY NewSignalSound
  <2> HIDE DEF s
  <2>2. s \in SignalRecord
    BY <2>1 DEF Sound
  <2>3. Subscribe(s).bindings = Append(s.bindings, [id |-> s.next, active |-> TRUE])
    BY <2>2 DEF Subscribe, SignalRecord
  <2>4. Subscribe(s).bindings = Append(<<>>, [id |-> 1, active |-> TRUE])
    BY <2>1, <2>3
  <2> QED BY <2>4 DEF s
<1>3. SourceFirst(signals["commits"])
  BY <1>1, <1>2 DEF SourceFirst, Source
<1> QED BY <1>1, <1>3 DEF Fresh

\* Once everything is published the Selector holds the projection of the
\* state: its own listener is the first one a commit calls, and between the
\* change of the state and that call nothing else runs.
THEOREM SelectorHoldsTheState == Spec => []SelectorIsFresh
<1>1. Init => Shape /\ Fresh
  BY ShapeInit, FreshInit
<1>2. (Shape /\ Fresh) /\ [Next]_vars => (Shape /\ Fresh)'
  <2> SUFFICES ASSUME Shape, Fresh, [Next]_vars PROVE Shape' /\ Fresh'
    OBVIOUS
  <2>1. Shape'
    BY ShapeNext
  <2>2. Typed /\ Stacked /\ Typed'
    BY <2>1 DEF Shape
  <2> QED BY <2>1, <2>2, FreshNext
<1>3. Shape /\ Fresh => SelectorIsFresh
  BY DEF Fresh, SelectorIsFresh, Idle, In
<1> QED BY <1>1, <1>2, <1>3, PTL DEF Spec

-----------------------------------------------------------------------------
\* A value the watch does not show is on its way to it.

\* Listeners that come and go between two turns.
LEMMA FollowedKept ==
  ASSUME NEW E, NEW s, NEW t, NEW w, NEW value, FollowedBy(E, s, w, value),
         Sound(s), Sound(t), Keeps(s, t), w.id \in Nat, w.id < s.next,
         E # {} => s.depth > 0
  PROVE  FollowedBy(E, t, w, value)
<1>1. s \in SignalRecord
  BY DEF Sound
<1>2. s.next \in Nat
  BY <1>1 DEF SignalRecord
<1>3. ~(w.id >= s.next)
  BY <1>2
<1>4. t.depth <= 1 /\ \A f \in E : f.value = value
  BY DEF FollowedBy, Keeps
<1>5. ASSUME HasListener(t, w.id), w.shown # value
      PROVE  \E f \in E : f.pos <= t.index[w.id] /\ t.index[w.id] <= f.count
  <2>1. w.id \in DOMAIN t.index
    BY <1>5 DEF HasListener
  <2>2. w.id \in DOMAIN s.index
    BY <1>3, <2>1 DEF Keeps
  <2>3. PICK f \in E : f.pos <= s.index[w.id] /\ s.index[w.id] <= f.count
    BY <1>5, <2>2 DEF FollowedBy, HasListener
  <2>4. t.index[w.id] = s.index[w.id]
    BY <2>1, <2>2, <2>3 DEF Keeps
  <2> QED BY <2>3, <2>4
<1> QED BY <1>4, <1>5 DEF FollowedBy

\* What FollowedBy reads of the changes is unmoved.
LEMMA FollowedSame ==
  ASSUME NEW E, NEW s, NEW t, NEW w, NEW value, FollowedBy(E, s, w, value),
         t.depth = s.depth, t.index = s.index
  PROVE  FollowedBy(E, t, w, value)
BY DEF FollowedBy, HasListener

LEMMA FollowedThen ==
  ASSUME ~behind' => FollowedBy(Emissions(stack', "changes"), signals'["changes"], watch',
                                selector'.value)
  PROVE  Followed'
BY DEF Followed, FollowedBy, HasListener, Emissions, Emits, Progress

\* A turn that does not call the watch: the listener called is another one, or
\* none is.
LEMMA FollowedOn ==
  ASSUME NEW s, NEW w, NEW value, NEW f, FollowedBy({f}, s, w, value), Sound(s),
         f.pos \in Nat, f.pos \in DOMAIN s.bindings,
         ~s.bindings[f.pos].active \/ s.bindings[f.pos].id # w.id,
         NEW e, e.value = f.value, e.pos = f.pos + 1, e.count = f.count
  PROVE  FollowedBy({e}, s, w, value)
<1>1. s \in SignalRecord /\ Agrees(s)
  BY SoundIs
<1>2. s \in SignalRecord
  BY <1>1
<1>3. DOMAIN s.bindings \subseteq Nat
  BY <1>2, BindingsTyped
<1>4. ASSUME HasListener(s, w.id), w.shown # value
      PROVE  e.pos <= s.index[w.id] /\ s.index[w.id] <= e.count
  <2> DEFINE k == s.index[w.id]
  <2>1. f.pos <= k /\ k <= f.count
    BY <1>4 DEF FollowedBy
  <2>2. k \in DOMAIN s.bindings /\ s.bindings[k].id = w.id /\ s.bindings[k].active
    BY <1>1, <1>4 DEF Agrees, HasListener
  <2> HIDE DEF k
  <2>3. k \in Nat /\ k # f.pos
    BY <1>3, <2>2
  <2>4. e.pos <= k
    BY <2>1, <2>3
  <2>5. k <= e.count
    BY <2>1
  <2> QED BY <2>4, <2>5 DEF k
<1> QED BY <1>4 DEF FollowedBy

\* The watch shows the selected value.
LEMMA FollowedShown ==
  ASSUME NEW E, NEW s, NEW value, NEW w, s.depth <= 1, \A f \in E : f.value = value,
         w.shown = value
  PROVE  FollowedBy(E, s, w, value)
BY DEF FollowedBy

\* An emission of changes that has called every listener ends.
LEMMA FollowedLeft ==
  ASSUME NEW s, NEW w, NEW value, NEW f, FollowedBy({f}, s, w, value), Sound(s),
         s.depth > 0, f.pos \in Nat, f.count \in Nat, f.pos > f.count
  PROVE  FollowedBy({}, LeaveEmit(s), w, value)
<1> DEFINE t == LeaveEmit(s)
<1>1. s \in SignalRecord /\ Agrees(s)
  BY SoundIs
<1>2. s \in SignalRecord
  BY <1>1
<1>3. s.depth \in Nat /\ DOMAIN s.bindings \subseteq Nat
  BY <1>2, BindingsTyped DEF SignalRecord
<1>4. t.depth = s.depth - 1 /\ DOMAIN t.index = DOMAIN s.index
  BY LeaveSound
<1>5. t.depth <= 1
  BY <1>3, <1>4 DEF FollowedBy
<1>6. ASSUME HasListener(s, w.id), w.shown # value PROVE FALSE
  <2> DEFINE k == s.index[w.id]
  <2>1. f.pos <= k /\ k <= f.count
    BY <1>6 DEF FollowedBy
  <2>2. k \in DOMAIN s.bindings
    BY <1>1, <1>6 DEF Agrees, HasListener
  <2> HIDE DEF k
  <2>3. k \in Nat
    BY <1>3, <2>2
  <2> QED BY <2>1, <2>3
<1> HIDE DEF t
<1>7. FollowedBy({}, t, w, value)
  BY <1>4, <1>5, <1>6 DEF FollowedBy, HasListener
<1> QED BY <1>7 DEF t

\* While changes are not emitted inside one another there is one emission.
LEMMA OneChange ==
  ASSUME Typed, Stacked, In("emit"), Top.sig = "changes", signals["changes"].depth <= 1
  PROVE  /\ Emissions(Below, "changes") = {}
         /\ Emissions(stack, "changes") = {Progress(Top)}
         /\ Emissions(Under, "changes")
              = {[value |-> Top.value, pos |-> Top.pos + 1, count |-> Top.count]}
<1> DEFINE x == Top
           s == Below
<1>1. /\ stack # <<>> /\ x \in Frame /\ s \in Seq(Frame) /\ stack = <<x>> \o s
      /\ Emits(x, "changes") /\ "changes" \in Signals
  BY TopTyped DEF In, Emits, Signals
<1>2. signals["changes"].depth = Many(stack, "changes")
  BY <1>1 DEF Stacked
<1>3. Many(<<x>> \o s, "changes") <= 1
  BY <1>1, <1>2
<1> HIDE DEF x, s
<1>4. Many(s, "changes") \in Nat /\ Many(<<x>> \o s, "changes") = Many(s, "changes") + 1
  BY <1>1, PushKeeps
<1>5. Many(s, "changes") = 0
  BY <1>3, <1>4
<1>6. Emissions(s, "changes") = {}
  BY <1>1, <1>5, NoneEmit
<1>7. Emissions(Below, "changes") = {}
  BY <1>6 DEF s
<1>8. stack # <<>> /\ Emits(Top, "changes")
  BY <1>1 DEF x
<1> QED BY <1>7, <1>8, EmissionsTop

LEMMA FollowedQuiet ==
  ASSUME Typed, Typed', Stacked, Room, Followed, Quiet, Rest, UNCHANGED <<watch, behind>>
  PROVE  Followed'
<1> DEFINE E == Emissions(stack, "changes")
           s == signals["changes"]
           t == signals'["changes"]
           w == watch
           value == selector.value
<1>1. "changes" \in Signals
  BY DEF Signals
<1>2. Sound(s) /\ Sound(t)
  BY <1>1 DEF Typed
<1>3. Keeps(s, t) /\ Emissions(stack', "changes") = E
  BY <1>1 DEF Quiet
<1>4. w.id \in Nat /\ w.id < s.next
  BY DEF Typed, Room
<1>5. E # {} => s.depth > 0
  BY <1>1, DepthIs
<1>6. selector'.value = value
  BY DisposeIs DEF Rest
<1>7. watch' = w /\ behind' = behind
  OBVIOUS
<1> SUFFICES ASSUME ~behind PROVE Followed'
  BY <1>7 DEF Followed
<1>8. FollowedBy(E, s, w, value)
  BY DEF Followed
<1> HIDE DEF E, s, t, w, value
<1>9. FollowedBy(E, t, w, value)
  BY <1>2, <1>3, <1>4, <1>5, <1>8, FollowedKept
<1>10. FollowedBy(Emissions(stack', "changes"), signals'["changes"], watch', selector'.value)
  BY <1>3, <1>6, <1>7, <1>9 DEF t
<1> QED BY <1>10, FollowedThen

\* A watch begins by showing the value, and subscribes after its first call.
LEMMA FollowedWatch ==
  ASSUME Typed, Typed', Stacked, Followed, Quiet, Rest,
         BeginWatch \/ CloseWatch \/ (stack # <<>> /\ EndWatched)
  PROVE  Followed'
<1> DEFINE E == Emissions(stack, "changes")
           F == Emissions(stack', "changes")
           s == signals["changes"]
           t == signals'["changes"]
<1>1. "changes" \in Signals
  BY DEF Signals
<1>2. Sound(s) /\ Sound(t) /\ Keeps(s, t) /\ F = E
  BY <1>1 DEF Typed, Quiet
<1>3. t.depth = s.depth
  BY <1>2 DEF Keeps
<1>4. ~behind => s.depth <= 1 /\ \A f \in E : f.value = selector.value
  BY DEF Followed, FollowedBy
<1>5. CASE BeginWatch
  <2>1. watch \in [id : Nat, shown : Nat]
    BY DEF Typed
  <2>2. watch'.shown = selector.value /\ UNCHANGED <<selector, behind>>
    BY <1>5, <2>1 DEF BeginWatch
  <2>3. ASSUME ~behind' PROVE FollowedBy(F, t, watch', selector'.value)
    <3>1. t.depth <= 1 /\ \A f \in F : f.value = selector.value
      BY <1>2, <1>3, <1>4, <2>2, <2>3
    <3> HIDE DEF F, t
    <3> QED BY <2>2, <3>1, FollowedShown
  <2> QED BY <2>3, FollowedThen
<1>6. CASE CloseWatch
  <2>1. watch'.id = 0 /\ UNCHANGED <<selector, behind>>
    BY <1>6 DEF CloseWatch
  <2>2. ~HasListener(t, watch'.id)
    <3> SUFFICES ASSUME 0 \in DOMAIN t.index PROVE FALSE
      BY <2>1 DEF HasListener
    <3>1. Numbered(t) /\ Agrees(t)
      BY <1>2, SoundIs
    <3>2. t.index[0] \in DOMAIN t.bindings /\ t.bindings[t.index[0]].id = 0
      BY <3>1 DEF Agrees
    <3>3. t.bindings[t.index[0]].id > 0
      BY <3>1, <3>2 DEF Numbered
    <3> QED BY <3>2, <3>3
  <2>3. ASSUME ~behind' PROVE FollowedBy(F, t, watch', selector'.value)
    <3>1. t.depth <= 1 /\ \A f \in F : f.value = selector'.value
      BY <1>2, <1>3, <1>4, <2>1, <2>3
    <3> HIDE DEF F, t
    <3> QED BY <2>2, <3>1 DEF FollowedBy
  <2> QED BY <2>3, FollowedThen
<1>7. CASE stack # <<>> /\ EndWatched
  <2>1. watch \in [id : Nat, shown : Nat]
    BY DEF Typed
  <2>2. /\ Top.at = "immediate" /\ stack' = Below /\ selector' = selector
        /\ behind' = (watch.shown # selector.value) /\ watch'.shown = watch.shown
    BY <1>7, <2>1 DEF EndWatched
  <2>3. stack' = <<>>
    <3>1. stack \in Seq(Frame) /\ stack # <<>>
      BY <1>7 DEF Typed
    <3>2. Top = stack[1] /\ 1 \in DOMAIN stack
      BY <3>1, Popped DEF Top
    <3>3. Len(stack) = 1
      BY <2>2, <3>2 DEF Stacked, Ordered
    <3>4. Below \in Seq(Frame) /\ Len(Below) = 0
      BY <3>1, <3>3, HeadTailProperties DEF Below
    <3> QED BY <2>2, <3>4, EmptySeq
  <2>4. F = {}
    BY <2>3, NoCalls
  <2>5. t.depth = 0
    <3>1. s.depth = 0 <=> E = {}
      BY <1>1, DepthIs
    <3> QED BY <1>2, <1>3, <2>4, <3>1
  <2>6. ASSUME ~behind' PROVE FollowedBy(F, t, watch', selector'.value)
    <3>1. watch'.shown = selector'.value
      BY <2>2, <2>6
    <3>2. t.depth <= 1 /\ \A f \in F : f.value = selector'.value
      BY <2>4, <2>5
    <3> HIDE DEF F, t
    <3> QED BY <3>1, <3>2, FollowedShown
  <2> QED BY <2>6, FollowedThen
<1> QED BY <1>5, <1>6, <1>7

\* The Selector's value is set.
LEMMA FollowedSet ==
  ASSUME Typed, Stacked, Followed, NEW under \in Seq(Frame), SetSelector(under),
         Emissions(under, "changes") = Emissions(stack, "changes")
  PROVE  Followed'
<1> DEFINE s == signals["changes"]
           t == signals'["changes"]
           x == Emission("changes", model)
           F == Emissions(stack', "changes")
<1>1. "changes" \in Signals /\ model \in Nat /\ watch' = watch /\ Sound(s)
  BY DEF Signals, Typed, SetSelector
<1>2. CASE selector.value = model
  <2>1. stack' = under /\ UNCHANGED <<selector, signals, behind>>
    BY <1>2 DEF SetSelector
  <2>2. ~behind' => FollowedBy(Emissions(stack', "changes"), signals'["changes"], watch',
                               selector'.value)
    BY <1>1, <2>1 DEF Followed
  <2> QED BY <2>2, FollowedThen
<1>3. CASE selector.value # model
  <2>1. /\ StartEmit("changes", model, under)
        /\ behind' = (s.depth > 0)
    BY <1>3 DEF SetSelector
  <2>2. selector'.value = model
    BY SetSelectorTyped
  <2>3. model \in Nat /\ "changes" \in Signals
    BY <1>1
  <2>4. /\ x \in Frame /\ x.at = "emit" /\ x.sig = "changes" /\ stack' = <<x>> \o under
        /\ Progress(x) = [value |-> model, pos |-> 1, count |-> Len(s.bindings)]
        /\ t.index = s.index /\ t.depth = s.depth + 1
    BY <2>1, <2>3, StartEmitTyped
  <2> SUFFICES ASSUME ~behind' PROVE FollowedBy(F, t, watch', selector'.value)
    BY FollowedThen
  <2>5. s.depth = 0 /\ Emissions(under, "changes") = {}
    <3>1. s.depth \in Nat /\ (s.depth = 0 <=> Emissions(stack, "changes") = {})
      BY <1>1, DepthIs
    <3>2. ~(s.depth > 0)
      BY <2>1, Zenon
    <3>3. s.depth = 0
      BY <3>1, <3>2
    <3> QED BY <3>1, <3>3
  <2>6. F = {Progress(x)}
    <3> HIDE DEF x
    <3>1. Emits(x, "changes")
      BY <2>4 DEF Emits
    <3> QED BY <2>4, <2>5, <3>1, Emitted
  <2>7. t.depth <= 1 /\ \A f \in F : f.value = selector'.value
    BY <2>2, <2>4, <2>5, <2>6
  <2>8. ASSUME NEW id \in DOMAIN t.index
        PROVE  \E f \in F : f.pos <= t.index[id] /\ t.index[id] <= f.count
    <3>1. s \in SignalRecord /\ Agrees(s)
      BY <1>1, SoundIs
    <3>2. s \in SignalRecord
      BY <3>1
    <3> DEFINE k == s.index[id]
    <3>3. DOMAIN s.bindings = 1 .. Len(s.bindings) /\ Len(s.bindings) \in Nat
      BY <3>2, BindingsTyped
    <3>4. k \in DOMAIN s.bindings /\ t.index[id] = k
      BY <2>4, <2>8, <3>1 DEF Agrees
    <3>5. Progress(x) \in F /\ Progress(x).pos = 1 /\ Progress(x).count = Len(s.bindings)
      BY <2>4, <2>6
    <3> HIDE DEF k, x, F, s, t
    <3> QED BY <3>3, <3>4, <3>5
  <2> HIDE DEF F, t
  <2> QED BY <2>7, <2>8 DEF FollowedBy, HasListener
<1> QED BY <1>2, <1>3

\* What a turn of an emission of commits does, but for a Selector that sets.
LEMMA FollowedUnder ==
  ASSUME Followed, UNCHANGED <<signals, watch, selector, behind>>,
         Emissions(stack', "changes") = Emissions(stack, "changes")
  PROVE  Followed'
<1>1. ~behind' => FollowedBy(Emissions(stack', "changes"), signals'["changes"], watch',
                             selector'.value)
  BY DEF Followed
<1> QED BY <1>1, FollowedThen

LEMMA ChangesApart ==
  ASSUME Typed, In("emit"), Top.sig # "changes"
  PROVE  /\ Emissions(Below, "changes") = Emissions(stack, "changes")
         /\ Emissions(Under, "changes") = Emissions(stack, "changes")
<1>1. stack # <<>> /\ ~Emits(Top, "changes")
  BY DEF In, Emits
<1> QED BY <1>1, EmissionsTop

\* The stack after a turn that skips, fails or calls.
LEMMA TurnedStack ==
  ASSUME Typed, Stacked, EmitNext, SkipTurn \/ FailTurn \/ CallTurn, NEW sig
  PROVE  Emissions(stack', sig) = Emissions(Under, sig)
<1>1. Top.sig \in Signals /\ Under \in Seq(Frame) /\ Bound.id \in Nat
  BY Turns, Emitting, BoundTyped
<1>2. CASE SkipTurn \/ FailTurn
  BY <1>2 DEF SkipTurn, FailTurn
<1>3. CASE CallTurn
  <2> DEFINE x == [at |-> "listener", sig |-> Top.sig, id |-> Bound.id]
  <2>1. x \in Frame /\ x.at # "emit"
    BY <1>1, NewFrames
  <2>2. stack' = <<x>> \o Under
    BY <1>3 DEF CallTurn
  <2> HIDE DEF x
  <2> QED BY <1>1, <2>1, <2>2, EmissionsQuiet
<1> QED BY <1>2, <1>3

LEMMA FollowedEmitNext ==
  ASSUME Typed, Stacked, Followed, EmitNext
  PROVE  Followed'
<1>1. In("emit") /\ Top.pos <= Top.count /\ (SkipTurn \/ FailTurn \/ SetTurn \/ CallTurn)
  BY Turns
<1>2. /\ Top.sig \in Signals /\ Under \in Seq(Frame) /\ Top.pos \in Nat /\ Top.value \in Nat
      /\ Top.pos \in DOMAIN signals[Top.sig].bindings
  BY <1>1, Emitting, BoundTyped
<1>3. CASE Top.sig # "changes"
  <2>1. Emissions(Under, "changes") = Emissions(stack, "changes")
    BY <1>1, <1>3, ChangesApart
  <2>2. CASE SetTurn
    <3>1. SetSelector(Under)
      BY <2>2 DEF SetTurn
    <3> QED BY <1>2, <2>1, <3>1, FollowedSet
  <2>3. CASE SkipTurn \/ FailTurn \/ CallTurn
    <3>1. UNCHANGED <<signals, watch, selector, behind>>
      BY <1>3, <2>3 DEF SkipTurn, FailTurn, CallTurn
    <3>2. Emissions(stack', "changes") = Emissions(stack, "changes")
      BY <2>1, <2>3, TurnedStack
    <3> QED BY <3>1, <3>2, FollowedUnder
  <2> QED BY <1>1, <2>2, <2>3
<1>4. CASE Top.sig = "changes"
  <2> DEFINE f == Progress(Top)
             e == [value |-> Top.value, pos |-> Top.pos + 1, count |-> Top.count]
             s == signals["changes"]
             w == watch
             value == selector.value
  <2>1. /\ SkipTurn \/ CallTurn
        /\ UNCHANGED <<signals, selector, behind>>
    BY <1>1, <1>4 DEF SkipTurn, CallTurn, SetTurn, FailTurn
  <2> SUFFICES ASSUME ~behind
               PROVE  FollowedBy(Emissions(stack', "changes"), s, watch', value)
    BY <2>1, FollowedThen
  <2>2. FollowedBy(Emissions(stack, "changes"), s, w, value)
    BY DEF Followed
  <2>3. s.depth <= 1
    BY <2>2 DEF FollowedBy
  <2>4. Emissions(stack, "changes") = {f} /\ Emissions(Under, "changes") = {e}
    BY <1>1, <1>4, <2>3, OneChange
  <2>5. Emissions(stack', "changes") = {e}
    BY <2>1, <2>4, TurnedStack
  <2>6. /\ f.value = Top.value /\ f.pos = Top.pos /\ f.count = Top.count
        /\ e.value = f.value /\ e.pos = f.pos + 1 /\ e.count = f.count
    BY DEF Progress
  <2>7. FollowedBy({f}, s, w, value)
    BY <2>2, <2>4
  <2>8. f.value = value
    BY <2>7 DEF FollowedBy
  <2>9. CASE CallTurn /\ Bound.id = watch.id
    <3>1. watch \in [id : Nat, shown : Nat]
      BY DEF Typed
    <3>2. watch' = [watch EXCEPT !.shown = Top.value]
      BY <1>4, <2>9 DEF CallTurn
    <3>3. watch'.shown = value
      BY <2>6, <2>8, <3>1, <3>2
    <3>4. \A g \in {e} : g.value = value
      BY <2>6, <2>8
    <3> HIDE DEF e, s, value
    <3>5. FollowedBy({e}, s, watch', value)
      BY <2>3, <3>3, <3>4, FollowedShown
    <3> QED BY <2>5, <3>5
  <2>10. CASE SkipTurn \/ (CallTurn /\ Bound.id # watch.id)
    <3>1. watch' = w
      BY <1>4, <2>10 DEF SkipTurn, CallTurn
    <3>2. ~s.bindings[f.pos].active \/ s.bindings[f.pos].id # w.id
      BY <1>4, <2>6, <2>10 DEF SkipTurn, CallTurn, Bound
    <3>3. f.pos \in DOMAIN s.bindings /\ Sound(s)
      BY <1>2, <1>4, <2>6 DEF Typed
    <3>4. f.pos \in Nat
      BY <1>2, <2>6
    <3> HIDE DEF e, f, s, value, w
    <3>5. FollowedBy({e}, s, w, value)
      BY <2>6, <2>7, <3>2, <3>3, <3>4, FollowedOn
    <3> QED BY <2>5, <3>1, <3>5
  <2> QED BY <2>1, <2>9, <2>10
<1> QED BY <1>3, <1>4

LEMMA FollowedEmitEnd ==
  ASSUME Typed, Stacked, Followed, EmitEnd
  PROVE  Followed'
<1>1. /\ In("emit") /\ Top.pos > Top.count /\ stack' = Below
      /\ signals' = [signals EXCEPT ![Top.sig] = LeaveEmit(signals[Top.sig])]
      /\ UNCHANGED <<watch, selector, behind>>
  BY DEF EmitEnd
<1>2. /\ Top.sig \in Signals /\ Sound(signals[Top.sig])
      /\ signals[Top.sig].depth > 0 /\ Top.pos \in Nat /\ Top.count \in Nat
  BY <1>1, Emitting
<1>3. "changes" \in Signals /\ signals \in [Signals -> SignalRecord]
  BY DEF Typed, Signals
<1> SUFFICES ASSUME ~behind
             PROVE  FollowedBy(Emissions(stack', "changes"), signals'["changes"], watch',
                               selector'.value)
  BY <1>1, FollowedThen
<1>4. FollowedBy(Emissions(stack, "changes"), signals["changes"], watch, selector.value)
  BY DEF Followed
<1>5. CASE Top.sig # "changes"
  <2>1. Emissions(Below, "changes") = Emissions(stack, "changes")
    BY <1>1, <1>5, ChangesApart
  <2>2. signals'["changes"] = signals["changes"]
    BY <1>1, <1>3, <1>5
  <2> QED BY <1>1, <1>4, <2>1, <2>2
<1>6. CASE Top.sig = "changes"
  <2> DEFINE f == Progress(Top)
             s == signals["changes"]
             w == watch
             value == selector.value
  <2>1. s.depth <= 1
    BY <1>4 DEF FollowedBy
  <2>2. Emissions(stack, "changes") = {f} /\ Emissions(Below, "changes") = {}
    BY <1>1, <1>6, <2>1, OneChange
  <2>3. signals'["changes"] = LeaveEmit(s)
    BY <1>1, <1>3, <1>6
  <2>4. f.pos \in Nat
    BY <1>2 DEF Progress
  <2>5. f.count \in Nat
    BY <1>2 DEF Progress
  <2>6. f.pos > f.count
    BY <1>1 DEF Progress
  <2>7. FollowedBy({f}, s, w, value) /\ Sound(s) /\ s.depth > 0
    BY <1>2, <1>4, <1>6, <2>2
  <2> HIDE DEF f, s, w, value
  <2>8. FollowedBy({}, LeaveEmit(s), w, value)
    BY <2>4, <2>5, <2>6, <2>7, FollowedLeft
  <2> QED BY <1>1, <2>2, <2>3, <2>8 DEF w, value
<1> QED BY <1>5, <1>6

LEMMA FollowedPublish ==
  ASSUME Typed, Followed, NEW under \in Seq(Frame), Publish(under),
         Emissions(under, "changes") = Emissions(stack, "changes"),
         UNCHANGED <<watch, selector, behind>>
  PROVE  Followed'
<1> DEFINE x == Emission("commits", revision')
<1>1. "changes" \in Signals /\ "changes" # "commits"
  BY DEF Signals
<1>2. /\ x \in Frame /\ x.sig = "commits" /\ stack' = <<x>> \o under
      /\ \A g \in Signals : /\ signals'[g].index = signals[g].index
                            /\ signals'[g].depth
                                 = signals[g].depth + (IF g = "commits" THEN 1 ELSE 0)
  BY PublishTyped
<1>3. signals["changes"].depth \in Nat
  BY <1>1, SignalNumbers
<1>4. /\ signals'["changes"].index = signals["changes"].index
      /\ signals'["changes"].depth = signals["changes"].depth + 0
  BY <1>1, <1>2
<1>5. signals'["changes"].depth = signals["changes"].depth
  BY <1>3, <1>4
<1>6. Emissions(stack', "changes") = Emissions(stack, "changes")
  <2> HIDE DEF x
  <2>1. ~Emits(x, "changes")
    BY <1>2 DEF Emits
  <2> QED BY <1>2, <2>1, Emitted
<1> SUFFICES ASSUME ~behind
             PROVE  FollowedBy(Emissions(stack', "changes"), signals'["changes"], watch',
                               selector'.value)
  BY FollowedThen
<1>7. FollowedBy(Emissions(stack', "changes"), signals["changes"], watch', selector'.value)
  BY <1>6 DEF Followed
<1> QED BY <1>4, <1>5, <1>7, FollowedSame

LEMMA FollowedCommits ==
  ASSUME Typed, Followed, (DrainNext /\ CommitTurn) \/ DrainLeftOver
  PROVE  Followed'
<1>1. In("drain") /\ UNCHANGED <<watch, selector, behind>> /\ stack \in Seq(Frame)
  BY DEF DrainNext, DrainLeftOver, Typed
<1>2. CASE DrainNext /\ CommitTurn
  <2>1. Publish(stack)
    BY <1>2 DEF CommitTurn
  <2> QED BY <1>1, <2>1, FollowedPublish
<1>3. CASE DrainLeftOver
  <2> DEFINE under == <<[Top EXCEPT !.last = TRUE]>> \o Below
  <2>1. Publish(under)
    BY <1>3 DEF DrainLeftOver
  <2>2. under \in Seq(Frame) /\ stack # <<>>
    BY <1>1, DrainTop, Turned, Pushable, TopTyped
  <2>3. Emissions(under, "changes") = Emissions(stack, "changes")
    BY <1>1, <2>2, EmissionsTop
  <2> HIDE DEF under
  <2> QED BY <1>1, <2>1, <2>2, <2>3, FollowedPublish
<1> QED BY <1>2, <1>3

LEMMA FollowedNext ==
  ASSUME Typed, Typed', Stacked, Room, Followed, [Next]_vars
  PROVE  Followed'
<1>1. CASE Quiet /\ Rest
  <2>1. CASE UNCHANGED <<watch, behind>>
    BY <1>1, <2>1, FollowedQuiet
  <2>2. CASE BeginWatch \/ CloseWatch \/ (stack # <<>> /\ EndWatched)
    BY <1>1, <2>2, FollowedWatch
  <2> QED BY <1>1, <2>1, <2>2 DEF Rest
<1>2. CASE EmitNext
  BY <1>2, FollowedEmitNext
<1>3. CASE EmitEnd
  BY <1>3, FollowedEmitEnd
<1>4. CASE (DrainNext /\ CommitTurn) \/ DrainLeftOver
  BY <1>4, FollowedCommits
<1>5. CASE Refresh /\ SetSelector(stack)
  BY <1>5, FollowedSet DEF Typed
<1> QED BY <1>1, <1>2, <1>3, <1>4, <1>5, Steps DEF Loud

LEMMA FollowedInit == Init => Followed
<1> SUFFICES ASSUME Init PROVE FollowedBy(Emissions(stack, "changes"), signals["changes"],
                                          watch, selector.value)
  BY DEF Followed
<1>1. /\ Emissions(stack, "changes") = {} /\ signals["changes"] = NewSignal
      /\ watch.shown = selector.value
  BY NoCalls DEF Init
<1>2. NewSignal.depth = 0
  BY NewSignalSound
<1> QED BY <1>1, <1>2 DEF FollowedBy

\* A watch shows the selected value once the Store is idle, unless a listener
\* refreshed the Selector in the middle of a notification or the watch's first
\* call changed the value: until then an emission that carries the value has
\* still to reach the watch's position.
THEOREM WatchShowsTheValue == Spec => []WatchFollows
<1>1. Init => Shape /\ Followed
  BY ShapeInit, FollowedInit
<1>2. (Shape /\ Followed) /\ [Next]_vars => (Shape /\ Followed)'
  <2> SUFFICES ASSUME Shape, Followed, [Next]_vars PROVE Shape' /\ Followed'
    OBVIOUS
  <2>1. Shape'
    BY ShapeNext
  <2>2. Typed /\ Stacked /\ Room /\ Typed'
    BY <2>1 DEF Shape
  <2> QED BY <2>1, <2>2, FollowedNext
<1>3. Shape /\ Followed => WatchFollows
  <2> SUFFICES ASSUME Shape, Followed, Idle, ~behind,
                      HasListener(signals["changes"], watch.id)
               PROVE  watch.shown = selector.value
    BY DEF WatchFollows
  <2>1. Emissions(stack, "changes") = {}
    BY NoCalls DEF Idle
  <2>2. FollowedBy({}, signals["changes"], watch, selector.value)
    BY <2>1 DEF Followed
  <2> QED BY <2>2 DEF FollowedBy
<1> QED BY <1>1, <1>2, <1>3, PTL DEF Spec

=============================================================================
