------------------------- MODULE CraftCommand_proofs -------------------------
(***************************************************************************)
(* Proofs about CraftCommand for every policy, number of runs, limit of    *)
(* the completions, nesting and choice of which callback makes which call  *)
(* and which panics.                                                       *)
(*                                                                         *)
(* What the calls in progress owe a run is on the stack, and enters the    *)
(* invariant as sets: Ops, the steps and callbacks in progress; Runs, the  *)
(* runs some of them are for; Batches, the runs a pump has taken.  Once    *)
(* says that two frames are for different runs, Linked what may stand      *)
(* below a step, Late the starts that wait under another call.  The first  *)
(* part says what a frame pushed, a frame taken off and a panic do to      *)
(* these, so that the invariants need no case analysis on stacks.          *)
(***************************************************************************)
EXTENDS CraftCommand, TLAPS, FiniteSetTheorems, SequenceTheorems,
        WellFoundedInduction

-----------------------------------------------------------------------------
\* Stacks.
Ends    == {"end", "close"}
Placing == {"start", "mark"}
Owing   == {"cancelActive", "mark", "tell", "report", "startNext", "cancelQueued", "deliver"}
ForRun  == Callbacks \cup {"start", "return", "cancelActive", "mark", "tell", "report"}
AllOps  == Callbacks \cup Owing \cup Ends \cup {"start", "return"}
Waking  == {"startNext", "cancelQueued", "cancelActive"}

Completion  == [run : RunIds, outcome : Outcomes]
FrameRecord == [op : AllOps, run : 0 .. MaxRuns, batch : Seq(Completion), failed : BOOLEAN]
Stacks      == Seq(FrameRecord)

Ops(s)       == {s[i].op : i \in DOMAIN s}
Runs(s, ops) == {s[i].run : i \in {k \in DOMAIN s : s[k].op \in ops}}
TakenIn(f)   == {f.batch[j].run : j \in DOMAIN f.batch}
Batches(s)   == UNION {TakenIn(s[i]) : i \in {k \in DOMAIN s : s[k].op = "deliver"}}
Late(s)      == {s[i].run : i \in {k \in DOMAIN s : k > 1 /\ s[k].op = "start"}}
Once(s, ops) == \A i, j \in DOMAIN s :
                  s[i].op \in ops /\ s[j].op \in ops /\ s[i].run = s[j].run => i = j

\* A step that is caught has a step or an end below it, and the cancellation of
\* a run the step that looks at the queue afterwards.
Linked(s) ==
  \A i \in DOMAIN s :
    /\ s[i].op \in Owing => i < Len(s) /\ s[i + 1].op \in Owing \cup Ends
    /\ s[i].op = "cancelActive" => s[i + 1].op \in Waking

\* run returns a ticket of a waiting run only after it has started it.
Returning(s, st) ==
  \A i \in DOMAIN s :
    s[i].op = "return" /\ st[s[i].run] = "queued" =>
      i > 1 /\ s[i - 1].op = "start" /\ s[i - 1].run = s[i].run

\* The call on top is a start.
Starting(s) == s # <<>> /\ s[1].op = "start"

-----------------------------------------------------------------------------
\* The inductive invariant.
Known ==
  /\ \A r \in RunIds : r >= nextRun => status[r] = "new"
  /\ \A r \in tickets : status[r] # "new"
  /\ \A r \in Runs(stack, ForRun) : r \in RunIds /\ status[r] # "new"

Framed == /\ Linked(stack)
          /\ Once(stack, Placing)
          /\ Once(stack, {"executor"})

Placed ==
  /\ \A r \in active : status[r] = "running"
  /\ \A r \in ToSet(queue) : status[r] = "queued"
  /\ \A r \in Runs(stack, {"mark"}) : r \notin active /\ r \notin ToSet(queue)
  /\ \A r \in Runs(stack, {"start"}) : status[r] = "queued" /\ r \notin ToSet(queue)
  /\ \A r \in Runs(stack, {"executor"}) :
       status[r] \notin {"new", "queued"} /\ hook[r] = "none"

Owned ==
  \A r \in RunIds :
    /\ status[r] = "running" => r \in active \/ r \in Runs(stack, {"mark"})
    /\ status[r] = "queued" /\ r \in tickets =>
         r \in ToSet(queue) \/ r \in Runs(stack, Placing)
    /\ hook[r] = "live" => r \in active

Told == \A r \in RunIds : status[r] \in Final => observer[r] # "waiting"

Prompt ==
  /\ \A r \in Late(stack) : r \notin tickets
  /\ Returning(stack, status)
  /\ policy # "latest" => Late(stack) = {}
  /\ policy = "ordered" => /\ Starting(stack) => active = {}
                           /\ \A a, b \in active : a = b
  /\ policy # "ordered" => queue = <<>>

Attended ==
  queue # <<>> => active # {} \/ Ops(stack) \cap Waking # {} \/ Starting(stack)

Pending == {items[i].run : i \in DOMAIN items}
Answered ==
  \A r \in answered :
    r \in active /\ (r \notin lost => r \in Pending \/ r \in Batches(stack))

Core == stack \in Stacks /\ Known /\ Framed /\ Placed /\ Owned /\ Prompt
IInv == TypeOK /\ Core /\ Told /\ Attended /\ Answered

-----------------------------------------------------------------------------
\* Every nonempty set of numbers has a least one.
LEMMA NatMinimum ==
  ASSUME NEW S \in SUBSET Nat, S # {}
  PROVE  \E m \in S : \A k \in S : m <= k
<1> DEFINE R == OpToRel(<, Nat)
<1>1. IsWellFoundedOn(R, Nat)
  BY NatLessThanWellFounded
<1>2. \A j, k \in Nat : <<j, k>> \in R <=> j < k
  BY DEF OpToRel
<1> HIDE DEF R
<1>3. PICK m \in S : \A k \in S : <<k, m>> \notin R
  BY <1>1, WFMin
<1>4. \A k \in S : ~(k < m)
  BY <1>2, <1>3
<1>5. m \in Nat /\ S \subseteq Nat
  OBVIOUS
<1> QED
  BY <1>4, <1>5

\* Induction up to N, on a set instead of a predicate.
LEMMA UpTo ==
  ASSUME NEW S, NEW N \in Nat, 0 \in S,
         \A n \in 1 .. N : n - 1 \in S => n \in S
  PROVE  \A n \in 0 .. N : n \in S
<1> SUFFICES ASSUME NEW n \in 0 .. N, n \notin S PROVE FALSE
  OBVIOUS
<1> DEFINE Bad == {k \in 0 .. N : k \notin S}
<1>1. Bad \in SUBSET Nat /\ Bad # {}
  OBVIOUS
<1>2. PICK m \in Bad : \A k \in Bad : m <= k
  <2> HIDE DEF Bad
  <2> QED BY <1>1, NatMinimum
<1>3. m \in 0 .. N /\ m \notin S /\ m # 0
  OBVIOUS
<1>4. m \in 1 .. N /\ m - 1 \in 0 .. N /\ ~(m <= m - 1)
  BY <1>3
<1>5. m - 1 \in S
  BY <1>2, <1>4
<1> QED BY <1>3, <1>4, <1>5

\* f starts with b and takes each further value from the one before it.
Obeys(f, b, n, g) == f[0] = b /\ \A i \in 1 .. n : f[i] = g[i][f[i - 1]]

\* A function defined by recursion on its predecessor's value exists: it is
\* glued from the functions on 0 .. n that obey the recursion.
LEMMA Recursion ==
  ASSUME NEW D, NEW b \in D, NEW N \in Nat, NEW g \in [1 .. N -> [D -> D]]
  PROVE  \E f \in [0 .. N -> D] : Obeys(f, b, N, g)
<1> USE DEF Obeys
<1> DEFINE Long == {n \in 0 .. N : \E f \in [0 .. N -> D] : Obeys(f, b, n, g)}
<1>1. 0 \in Long
  <2>1. [i \in 0 .. N |-> b] \in [0 .. N -> D] /\ 0 \in 0 .. N
    OBVIOUS
  <2>2. Obeys([i \in 0 .. N |-> b], b, 0, g)
    OBVIOUS
  <2> QED BY <2>1, <2>2
<1>2. \A n \in 1 .. N : n - 1 \in Long => n \in Long
  <2> SUFFICES ASSUME NEW n \in 1 .. N, n - 1 \in Long PROVE n \in Long
    OBVIOUS
  <2>1. PICK f \in [0 .. N -> D] : Obeys(f, b, n - 1, g)
    OBVIOUS
  <2>2. n - 1 \in 0 .. N /\ n \in 0 .. N /\ n # 0
    OBVIOUS
  <2>3. f[n - 1] \in D
    BY <2>2
  <2> DEFINE next == g[n][f[n - 1]]
             h    == [i \in 0 .. N |-> IF i = n THEN next ELSE f[i]]
  <2>4. next \in D
    BY <2>3
  <2> HIDE DEF next
  <2>5. h \in [0 .. N -> D]
    BY <2>4
  <2>6. h[0] = b
    BY <2>1, <2>2
  <2>7. ASSUME NEW i \in 1 .. n PROVE h[i] = g[i][h[i - 1]]
    <3>1. i - 1 \in 0 .. N /\ i \in 0 .. N /\ i - 1 # n
      OBVIOUS
    <3>2. h[i - 1] = f[i - 1]
      BY <3>1
    <3>3. CASE i = n
      BY <3>1, <3>2, <3>3 DEF next
    <3>4. CASE i # n
      <4>1. i \in 1 .. n - 1 /\ h[i] = f[i]
        BY <3>1, <3>4
      <4> QED BY <4>1, <3>2, <2>1
    <3> QED BY <3>3, <3>4
  <2> HIDE DEF h
  <2>8. Obeys(h, b, n, g)
    BY <2>6, <2>7
  <2> QED BY <2>2, <2>5, <2>8
<1>3. N \in Long
  <2> HIDE DEF Long
  <2>1. \A n \in 0 .. N : n \in Long
    BY <1>1, <1>2, UpTo
  <2> QED BY <2>1
<1> QED BY <1>3

-----------------------------------------------------------------------------
\* A frame pushed or taken off: s is t with f on top.
Consed(s, f, t) ==
  /\ Len(s) = Len(t) + 1 /\ s[1] = f
  /\ DOMAIN s = 1 .. Len(s) /\ DOMAIN t = 1 .. Len(t) /\ Len(t) \in Nat
  /\ \A i \in DOMAIN t : s[i + 1] = t[i]

LEMMA PushIs ==
  ASSUME NEW t \in Stacks, NEW f \in FrameRecord
  PROVE  LET s == <<f>> \o t
         IN /\ s \in Stacks /\ s # <<>> /\ Head(s) = f /\ Tail(s) = t
            /\ Consed(s, f, t)
<1> DEFINE s == <<f>> \o t
<1> USE DEF Stacks
<1>1. s \in Stacks /\ Len(s) = Len(t) + 1 /\ s[1] = f /\ s # <<>>
  OBVIOUS
<1>2. \A i \in DOMAIN t : s[i + 1] = t[i]
  OBVIOUS
<1>3. Head(s) = f
  BY <1>1
<1>4. Tail(s) = t
  OBVIOUS
<1>5. DOMAIN s = 1 .. Len(s) /\ DOMAIN t = 1 .. Len(t) /\ Len(t) \in Nat
  OBVIOUS
<1> HIDE DEF s
<1> QED BY <1>1, <1>2, <1>3, <1>4, <1>5 DEF Consed

LEMMA PopIs ==
  ASSUME NEW s \in Stacks, s # <<>>
  PROVE  /\ Tail(s) \in Stacks /\ Head(s) \in FrameRecord
         /\ s = <<Head(s)>> \o Tail(s)
         /\ Consed(s, Head(s), Tail(s))
<1> USE DEF Stacks
<1>1. Tail(s) \in Stacks /\ Head(s) \in FrameRecord /\ Len(s) = Len(Tail(s)) + 1 /\ s[1] = Head(s)
  BY HeadTailProperties, EmptySeq
<1>2. \A i \in DOMAIN Tail(s) : s[i + 1] = Tail(s)[i]
  OBVIOUS
<1>3. s = <<Head(s)>> \o Tail(s)
  OBVIOUS
<1>4. DOMAIN s = 1 .. Len(s) /\ DOMAIN Tail(s) = 1 .. Len(Tail(s)) /\ Len(Tail(s)) \in Nat
  BY <1>1
<1> QED BY <1>1, <1>2, <1>3, <1>4 DEF Consed

\* What it does to the sets.
LEMMA ConsOps ==
  ASSUME NEW s, NEW f, NEW t, Consed(s, f, t)
  PROVE  /\ Ops(s) = Ops(t) \cup {f.op}
         /\ \A ops : Runs(s, ops) = Runs(t, ops) \cup (IF f.op \in ops THEN {f.run} ELSE {})
         /\ Late(s) = Runs(t, {"start"})
         /\ s # <<>> => (Starting(s) <=> f.op = "start")
<1> USE DEF Consed
<1>1. \A i \in DOMAIN s : i = 1 \/ (i - 1 \in DOMAIN t /\ s[i] = t[i - 1])
  <2> SUFFICES ASSUME NEW i \in DOMAIN s, i # 1 PROVE i - 1 \in DOMAIN t /\ s[i] = t[i - 1]
    OBVIOUS
  <2>1. i - 1 \in 1 .. Len(t)
    OBVIOUS
  <2>2. i - 1 \in DOMAIN t /\ (i - 1) + 1 = i
    BY <2>1
  <2> QED BY <2>2
<1>2. 1 \in DOMAIN s /\ \A i \in DOMAIN t : i + 1 \in DOMAIN s /\ i + 1 > 1
  OBVIOUS
<1>3. Ops(s) = Ops(t) \cup {f.op}
  <2>1. ASSUME NEW o \in Ops(s) PROVE o \in Ops(t) \/ o = f.op
    <3>1. PICK i \in DOMAIN s : o = s[i].op
      BY DEF Ops
    <3> QED BY <1>1, <3>1 DEF Ops
  <2>2. ASSUME NEW o \in Ops(t) PROVE o \in Ops(s)
    <3>1. PICK i \in DOMAIN t : o = t[i].op
      BY DEF Ops
    <3>2. i + 1 \in DOMAIN s /\ s[i + 1] = t[i]
      BY <1>2
    <3> QED BY <3>1, <3>2 DEF Ops
  <2>3. f.op \in Ops(s)
    BY <1>2 DEF Ops
  <2> QED BY <2>1, <2>2, <2>3
<1>4. ASSUME NEW ops PROVE Runs(s, ops) = Runs(t, ops) \cup (IF f.op \in ops THEN {f.run} ELSE {})
  <2>1. ASSUME NEW r \in Runs(s, ops) PROVE r \in Runs(t, ops) \/ (f.op \in ops /\ r = f.run)
    <3>1. PICK i \in DOMAIN s : s[i].op \in ops /\ r = s[i].run
      BY DEF Runs
    <3> QED BY <1>1, <3>1 DEF Runs
  <2>2. ASSUME NEW r \in Runs(t, ops) PROVE r \in Runs(s, ops)
    <3>1. PICK i \in DOMAIN t : t[i].op \in ops /\ r = t[i].run
      BY DEF Runs
    <3>2. i + 1 \in DOMAIN s /\ s[i + 1] = t[i]
      BY <1>2
    <3> QED BY <3>1, <3>2 DEF Runs
  <2>3. f.op \in ops => f.run \in Runs(s, ops)
    BY <1>2 DEF Runs
  <2> QED BY <2>1, <2>2, <2>3
<1>5. Late(s) = Runs(t, {"start"})
  <2>1. ASSUME NEW r \in Late(s) PROVE r \in Runs(t, {"start"})
    <3>1. PICK i \in DOMAIN s : i > 1 /\ s[i].op = "start" /\ r = s[i].run
      BY DEF Late
    <3> QED BY <1>1, <3>1 DEF Runs
  <2>2. ASSUME NEW r \in Runs(t, {"start"}) PROVE r \in Late(s)
    <3>1. PICK i \in DOMAIN t : t[i].op = "start" /\ r = t[i].run
      BY DEF Runs
    <3>2. i + 1 \in DOMAIN s /\ i + 1 > 1 /\ s[i + 1] = t[i]
      BY <1>2
    <3> QED BY <3>1, <3>2 DEF Late
  <2> QED BY <2>1, <2>2
<1> QED BY <1>3, <1>4, <1>5 DEF Starting

LEMMA ConsBatches ==
  ASSUME NEW s, NEW f, NEW t, Consed(s, f, t)
  PROVE  Batches(s) = Batches(t) \cup (IF f.op = "deliver" THEN TakenIn(f) ELSE {})
<1> USE DEF Consed
<1>1. \A i \in DOMAIN s : i = 1 \/ (i - 1 \in DOMAIN t /\ s[i] = t[i - 1])
  <2> SUFFICES ASSUME NEW i \in DOMAIN s, i # 1 PROVE i - 1 \in DOMAIN t /\ s[i] = t[i - 1]
    OBVIOUS
  <2>1. i - 1 \in 1 .. Len(t)
    OBVIOUS
  <2>2. i - 1 \in DOMAIN t /\ (i - 1) + 1 = i
    BY <2>1
  <2> QED BY <2>2
<1>2. 1 \in DOMAIN s /\ \A i \in DOMAIN t : i + 1 \in DOMAIN s
  OBVIOUS
<1>3. ASSUME NEW r \in Batches(s) PROVE r \in Batches(t) \/ (f.op = "deliver" /\ r \in TakenIn(f))
  <2>1. PICK i \in DOMAIN s : s[i].op = "deliver" /\ r \in TakenIn(s[i])
    BY DEF Batches
  <2>2. CASE i = 1
    BY <2>1, <2>2
  <2>3. CASE i - 1 \in DOMAIN t /\ s[i] = t[i - 1]
    BY <2>1, <2>3 DEF Batches
  <2> QED BY <1>1, <2>2, <2>3
<1>4. ASSUME NEW r \in Batches(t) PROVE r \in Batches(s)
  <2>1. PICK i \in DOMAIN t : t[i].op = "deliver" /\ r \in TakenIn(t[i])
    BY DEF Batches
  <2>2. i + 1 \in DOMAIN s /\ s[i + 1] = t[i]
    BY <1>2
  <2> QED BY <2>1, <2>2 DEF Batches
<1>5. f.op = "deliver" => \A r \in TakenIn(f) : r \in Batches(s)
  BY <1>2 DEF Batches
<1> QED BY <1>3, <1>4, <1>5

LEMMA ConsOnce ==
  ASSUME NEW s, NEW f, NEW t, Consed(s, f, t), NEW ops
  PROVE  Once(s, ops) <=> /\ Once(t, ops)
                          /\ f.op \in ops => f.run \notin Runs(t, ops)
<1> USE DEF Consed
<1>1. \A i \in DOMAIN s : i = 1 \/ (i - 1 \in DOMAIN t /\ s[i] = t[i - 1])
  <2> SUFFICES ASSUME NEW i \in DOMAIN s, i # 1 PROVE i - 1 \in DOMAIN t /\ s[i] = t[i - 1]
    OBVIOUS
  <2>1. i - 1 \in 1 .. Len(t)
    OBVIOUS
  <2>2. i - 1 \in DOMAIN t /\ (i - 1) + 1 = i
    BY <2>1
  <2> QED BY <2>2
<1>2. 1 \in DOMAIN s /\ \A i \in DOMAIN t : i \in Nat /\ i + 1 \in DOMAIN s /\ i + 1 # 1
  OBVIOUS
<1>3. DOMAIN s \subseteq Nat
  OBVIOUS
<1>4. ASSUME Once(s, ops) PROVE Once(t, ops)
  <2> SUFFICES ASSUME NEW i \in DOMAIN t, NEW j \in DOMAIN t,
                      t[i].op \in ops, t[j].op \in ops, t[i].run = t[j].run
               PROVE  i = j
    BY DEF Once
  <2>1. i + 1 = j + 1
    BY <1>2, <1>4 DEF Once
  <2> QED BY <1>2, <2>1
<1>5. ASSUME Once(s, ops), f.op \in ops PROVE f.run \notin Runs(t, ops)
  <2> SUFFICES ASSUME NEW i \in DOMAIN t, t[i].op \in ops, t[i].run = f.run PROVE FALSE
    BY DEF Runs
  <2>1. s[i + 1] = t[i] /\ i + 1 \in DOMAIN s /\ i + 1 # 1
    BY <1>2
  <2> QED BY <1>2, <1>5, <2>1 DEF Once
<1>6. ASSUME Once(t, ops), f.op \in ops => f.run \notin Runs(t, ops) PROVE Once(s, ops)
  <2> SUFFICES ASSUME NEW i \in DOMAIN s, NEW j \in DOMAIN s,
                      s[i].op \in ops, s[j].op \in ops, s[i].run = s[j].run
               PROVE  i = j
    BY DEF Once
  <2>1. CASE i = 1 /\ j = 1
    BY <2>1
  <2>2. CASE i = 1 /\ j - 1 \in DOMAIN t /\ s[j] = t[j - 1]
    BY <1>6, <2>2 DEF Runs
  <2>3. CASE j = 1 /\ i - 1 \in DOMAIN t /\ s[i] = t[i - 1]
    BY <1>6, <2>3 DEF Runs
  <2>4. CASE /\ i - 1 \in DOMAIN t /\ s[i] = t[i - 1]
             /\ j - 1 \in DOMAIN t /\ s[j] = t[j - 1]
    <3>1. i - 1 = j - 1
      BY <1>6, <2>4 DEF Once
    <3> QED BY <1>3, <3>1
  <2> QED BY <1>1, <2>1, <2>2, <2>3, <2>4
<1> QED BY <1>4, <1>5, <1>6

LEMMA ConsLinked ==
  ASSUME NEW s, NEW f, NEW t, Consed(s, f, t)
  PROVE  Linked(s) <=> /\ Linked(t)
                       /\ f.op \in Owing => t # <<>> /\ t[1].op \in Owing \cup Ends
                       /\ f.op = "cancelActive" => t[1].op \in Waking
<1> USE DEF Consed
<1>1. \A i \in DOMAIN s : i = 1 \/ (i - 1 \in DOMAIN t /\ s[i] = t[i - 1])
  <2> SUFFICES ASSUME NEW i \in DOMAIN s, i # 1 PROVE i - 1 \in DOMAIN t /\ s[i] = t[i - 1]
    OBVIOUS
  <2>1. i - 1 \in 1 .. Len(t)
    OBVIOUS
  <2>2. i - 1 \in DOMAIN t /\ (i - 1) + 1 = i
    BY <2>1
  <2> QED BY <2>2
<1>2. 1 \in DOMAIN s /\ \A i \in DOMAIN t : i \in Nat /\ i + 1 \in DOMAIN s /\ i + 1 # 1
  OBVIOUS
<1>3. DOMAIN s \subseteq Nat /\ "cancelActive" \in Owing
  BY DEF Owing
<1>4. ASSUME Linked(s) PROVE Linked(t)
  <2> SUFFICES ASSUME NEW i \in DOMAIN t
               PROVE  /\ t[i].op \in Owing => i < Len(t) /\ t[i + 1].op \in Owing \cup Ends
                      /\ t[i].op = "cancelActive" => t[i + 1].op \in Waking
    BY DEF Linked
  <2>1. s[i + 1] = t[i] /\ i + 1 \in DOMAIN s
    BY <1>2
  <2>2. t[i].op \in Owing => i + 1 < Len(s) /\ s[(i + 1) + 1].op \in Owing \cup Ends
    BY <1>4, <2>1 DEF Linked
  <2>3. t[i].op = "cancelActive" => s[(i + 1) + 1].op \in Waking
    BY <1>4, <2>1 DEF Linked
  <2>4. i + 1 < Len(s) => i < Len(t) /\ i + 1 \in DOMAIN t
    BY <1>2
  <2>5. i + 1 \in DOMAIN t => s[(i + 1) + 1] = t[i + 1]
    OBVIOUS
  <2> QED BY <1>3, <2>2, <2>3, <2>4, <2>5
<1>5. ASSUME Linked(s)
      PROVE  /\ f.op \in Owing => t # <<>> /\ t[1].op \in Owing \cup Ends
             /\ f.op = "cancelActive" => t[1].op \in Waking
  <2>1. f.op \in Owing => 1 < Len(s) /\ s[1 + 1].op \in Owing \cup Ends
    BY <1>2, <1>5 DEF Linked
  <2>2. f.op = "cancelActive" => s[1 + 1].op \in Waking
    BY <1>2, <1>5 DEF Linked
  <2>3. 1 < Len(s) => 1 \in DOMAIN t
    OBVIOUS
  <2>4. 1 \in DOMAIN t => t # <<>> /\ s[1 + 1] = t[1]
    OBVIOUS
  <2> QED BY <1>3, <2>1, <2>2, <2>3, <2>4
<1>6. ASSUME Linked(t),
             f.op \in Owing => t # <<>> /\ t[1].op \in Owing \cup Ends,
             f.op = "cancelActive" => t[1].op \in Waking,
             t # <<>> => 1 \in DOMAIN t
      PROVE  Linked(s)
  <2> SUFFICES ASSUME NEW i \in DOMAIN s
               PROVE  /\ s[i].op \in Owing => i < Len(s) /\ s[i + 1].op \in Owing \cup Ends
                      /\ s[i].op = "cancelActive" => s[i + 1].op \in Waking
    BY DEF Linked
  <2>1. CASE i = 1
    <3>1. f.op \in Owing => 1 < Len(s) /\ s[1 + 1] = t[1]
      BY <1>6
    <3> QED BY <1>3, <1>6, <2>1, <3>1
  <2>2. CASE i - 1 \in DOMAIN t /\ s[i] = t[i - 1]
    <3> DEFINE j == i - 1
    <3>1. j \in DOMAIN t /\ s[i] = t[j] /\ i = j + 1
      BY <1>3, <2>2
    <3> HIDE DEF j
    <3>2. /\ t[j].op \in Owing => j < Len(t) /\ t[j + 1].op \in Owing \cup Ends
          /\ t[j].op = "cancelActive" => t[j + 1].op \in Waking
      BY <1>6, <3>1 DEF Linked
    <3>3. j < Len(t) => i < Len(s) /\ j + 1 \in DOMAIN t
      BY <1>2, <3>1
    <3>4. j + 1 \in DOMAIN t => s[i + 1] = t[j + 1]
      BY <3>1
    <3> QED BY <1>3, <3>1, <3>2, <3>3, <3>4
  <2> QED BY <1>1, <2>1, <2>2
<1> QED BY <1>4, <1>5, <1>6

LEMMA ConsReturning ==
  ASSUME NEW s, NEW f, NEW t, Consed(s, f, t), NEW st
  PROVE  /\ Returning(t, st) /\ (f.op = "return" => st[f.run] # "queued") => Returning(s, st)
         /\ Returning(s, st) =>
              /\ f.op = "return" => st[f.run] # "queued"
              /\ \/ Returning(t, st)
                 \/ f.op = "start" /\ st[f.run] = "queued"
<1> USE DEF Consed
<1>1. \A i \in DOMAIN s : i = 1 \/ (i - 1 \in DOMAIN t /\ s[i] = t[i - 1])
  <2> SUFFICES ASSUME NEW i \in DOMAIN s, i # 1 PROVE i - 1 \in DOMAIN t /\ s[i] = t[i - 1]
    OBVIOUS
  <2>1. i - 1 \in 1 .. Len(t)
    OBVIOUS
  <2>2. i - 1 \in DOMAIN t /\ (i - 1) + 1 = i
    BY <2>1
  <2> QED BY <2>2
<1>2. 1 \in DOMAIN s /\ DOMAIN s \subseteq Nat /\ DOMAIN t \subseteq Nat
  OBVIOUS
<1>3. ASSUME Returning(t, st), f.op = "return" => st[f.run] # "queued" PROVE Returning(s, st)
  <2> SUFFICES ASSUME NEW i \in DOMAIN s, s[i].op = "return", st[s[i].run] = "queued"
               PROVE  i > 1 /\ s[i - 1].op = "start" /\ s[i - 1].run = s[i].run
    BY DEF Returning
  <2>1. i - 1 \in DOMAIN t /\ s[i] = t[i - 1]
    BY <1>1, <1>3
  <2> DEFINE j == i - 1
  <2>2. j \in DOMAIN t /\ s[i] = t[j] /\ i = j + 1
    BY <1>2, <2>1
  <2> HIDE DEF j
  <2>3. j > 1 /\ t[j - 1].op = "start" /\ t[j - 1].run = t[j].run
    BY <1>3, <2>2 DEF Returning
  <2>4. j - 1 \in DOMAIN t /\ (j - 1) + 1 = j
    BY <1>2, <2>2, <2>3
  <2>5. s[j] = t[j - 1]
    BY <2>4
  <2>6. i - 1 = j /\ i > 1
    BY <1>2, <2>2
  <2> QED BY <2>2, <2>3, <2>5, <2>6
<1>4. ASSUME Returning(s, st) PROVE f.op = "return" => st[f.run] # "queued"
  BY <1>2, <1>4 DEF Returning
<1>5. ASSUME Returning(s, st), ~(f.op = "start" /\ st[f.run] = "queued") PROVE Returning(t, st)
  <2> SUFFICES ASSUME NEW j \in DOMAIN t, t[j].op = "return", st[t[j].run] = "queued"
               PROVE  j > 1 /\ t[j - 1].op = "start" /\ t[j - 1].run = t[j].run
    BY DEF Returning
  <2> DEFINE i == j + 1
  <2>1. i \in DOMAIN s /\ s[i] = t[j] /\ i - 1 = j
    BY <1>2
  <2> HIDE DEF i
  <2>2. s[j].op = "start" /\ s[j].run = t[j].run
    BY <1>5, <2>1 DEF Returning
  <2>3. j # 1
    BY <1>5, <2>2
  <2>4. j > 1 /\ j - 1 \in DOMAIN t /\ (j - 1) + 1 = j
    BY <1>2, <2>3
  <2>5. s[j] = t[j - 1]
    BY <2>4
  <2> QED BY <2>2, <2>4, <2>5
<1> QED BY <1>3, <1>4, <1>5

LEMMA ReturningThen ==
  ASSUME NEW s, NEW st, NEW then, Returning(s, st),
         \A r \in Runs(s, {"return"}) : then[r] = "queued" => st[r] = "queued"
  PROVE  Returning(s, then)
BY DEF Returning, Runs

-----------------------------------------------------------------------------
\* A panic takes off k frames, of which it skips none that is caught.
Unwound(t, s, k) ==
  /\ k \in Nat /\ DOMAIN s = 1 .. Len(s) /\ DOMAIN t = 1 .. Len(t)
  /\ Len(s) \in Nat /\ Len(t) \in Nat /\ Len(s) = k + Len(t)
  /\ \A i \in DOMAIN t : /\ t[i].op = s[k + i].op /\ t[i].run = s[k + i].run
                         /\ t[i].batch = s[k + i].batch
  /\ \A i \in 1 .. k : s[i].op \notin Owing
  /\ k > 0 /\ 1 \in DOMAIN t => t[1].op \in Callbacks

LEMMA OpSets ==
  /\ Callbacks \cap (Owing \cup Ends \cup {"start", "return"}) = {}
  /\ Owing \cap (Ends \cup {"start", "return"}) = {}
  /\ "start" \notin Owing \cup Ends \cup Callbacks
  /\ "return" \notin Owing \cup Ends \cup Callbacks
  /\ Waking \subseteq Owing
BY DEF Callbacks, Owing, Ends, Waking

\* The step nothing below i catches cannot be among the frames in between.
LEMMA NoneOwing ==
  ASSUME NEW s \in Stacks, Linked(s), NEW n \in 0 .. Len(s),
         \A i \in 1 .. n : s[i].op \notin Ends,
         n < Len(s) => s[n + 1].op \notin Owing \cup Ends
  PROVE  \A i \in 1 .. n : s[i].op \notin Owing
<1> SUFFICES ASSUME NEW b \in 1 .. n, s[b].op \in Owing PROVE FALSE
  OBVIOUS
<1>0. Len(s) \in Nat /\ DOMAIN s = 1 .. Len(s)
  BY DEF Stacks
<1> DEFINE Left == {k \in 0 .. n : n - k >= 1 /\ s[n - k].op \in Owing}
<1>1. Left \in SUBSET Nat
  OBVIOUS
<1>2. n - b \in Left
  <2>1. n - b \in 0 .. n /\ n - (n - b) = b
    BY <1>0
  <2> QED BY <2>1
<1>3. PICK m \in Left : \A k \in Left : m <= k
  <2> HIDE DEF Left
  <2>1. Left # {}
    BY <1>2
  <2> QED BY <1>1, <2>1, NatMinimum
<1> DEFINE l == n - m
<1>4. m \in Nat /\ l \in 1 .. n /\ l \in DOMAIN s /\ s[l].op \in Owing
  BY <1>0
<1>5. l < Len(s) /\ s[l + 1].op \in Owing \cup Ends
  <2> HIDE DEF l
  <2> QED BY <1>4 DEF Linked
<1>6. CASE m = 0
  BY <1>4, <1>5, <1>6
<1>7. CASE m # 0
  <2>1. l + 1 \in 1 .. n /\ m - 1 \in 0 .. n /\ n - (m - 1) = l + 1
    BY <1>0, <1>4, <1>7
  <2>2. s[l + 1].op \in Owing
    BY <1>5, <2>1
  <2>3. m - 1 \in Left
    BY <2>1, <2>2
  <2> HIDE DEF Left
  <2>4. m <= m - 1
    BY <1>3, <2>3
  <2> QED BY <1>4, <2>4
<1> QED BY <1>6, <1>7

LEMMA PanicIs ==
  ASSUME NEW s \in Stacks, Linked(s)
  PROVE  /\ Panic(s) \in Stacks
         /\ \E k \in Nat : Unwound(Panic(s), s, k)
<1> DEFINE C == Catches(s)
<1>0. Len(s) \in Nat /\ DOMAIN s = 1 .. Len(s) /\ s \in Seq(FrameRecord)
  BY DEF Stacks
<1>1. \A i \in DOMAIN s : s[i] \in FrameRecord
  BY DEF Stacks
<1>2. CASE C = {}
  <2>1. Panic(s) = <<>>
    BY <1>2 DEF Panic
  <2>2. \A i \in 1 .. Len(s) : s[i].op \notin Ends
    BY <1>0, <1>2 DEF Catches, Ends
  <2>3. \A i \in 1 .. Len(s) : s[i].op \notin Owing
    <3>1. Len(s) \in 0 .. Len(s) /\ ~(Len(s) < Len(s))
      BY <1>0
    <3> QED BY <2>2, <3>1, NoneOwing
  <2>4. <<>> \in Stacks /\ DOMAIN <<>> = {} /\ Len(<<>>) = 0 /\ 1 .. 0 = {}
    BY DEF Stacks
  <2>5. Unwound(<<>>, s, Len(s))
    BY <1>0, <2>3, <2>4 DEF Unwound
  <2> QED BY <1>0, <2>1, <2>4, <2>5
<1>3. CASE C # {}
  <2> DEFINE i == Nearest(s)
  <2>1. i \in C /\ \A j \in C : i <= j
    <3>1. C \in SUBSET Nat
      BY <1>0 DEF Catches
    <3>2. \E m \in C : \A j \in C : m <= j
      <4> HIDE DEF C
      <4> QED BY <1>3, <3>1, NatMinimum
    <3> QED BY <3>2, Zenon DEF Nearest
  <2>2. i \in DOMAIN s /\ i \in 1 .. Len(s) /\ s[i].op \in Callbacks \cup Ends
    BY <1>0, <2>1 DEF Catches, Ends
  <2>3. \A j \in 1 .. i - 1 : s[j].op \notin Ends
    <3> SUFFICES ASSUME NEW j \in 1 .. i - 1, s[j].op \in Ends PROVE FALSE
      OBVIOUS
    <3>1. j \in DOMAIN s /\ ~(i <= j)
      BY <1>0, <2>2
    <3>2. j \in C
      BY <3>1 DEF Catches, Ends
    <3> QED BY <2>1, <3>1, <3>2
  <2>4. CASE s[i].op \in Callbacks
    <3> DEFINE t == SubSeq(s, i, Len(s))
    <3>1. Panic(s) = t
      BY <1>3, <2>4 DEF Panic
    <3>2. \A j \in 1 .. i - 1 : s[j].op \notin Owing
      <4>1. i - 1 \in 0 .. Len(s) /\ (i - 1) + 1 = i
        BY <1>0, <2>2
      <4>2. s[(i - 1) + 1].op \notin Owing \cup Ends
        BY <2>4, <4>1, OpSets
      <4> HIDE DEF i
      <4> QED BY <2>3, <4>1, <4>2, NoneOwing
    <3> HIDE DEF i
    <3>3. /\ t \in Stacks /\ Len(t) = Len(s) - (i - 1) /\ Len(t) \in Nat
          /\ DOMAIN t = 1 .. Len(t)
          /\ \A j \in 1 .. Len(t) : t[j] = s[(i - 1) + j]
      <4>1. i \in 1 .. Len(s) + 1 /\ Len(s) \in Nat
        BY <1>0, <2>2
      <4>2. t \in Seq(FrameRecord) /\ Len(t) = Len(s) - i + 1 /\ \A j \in 1 .. Len(s) - i + 1 : t[j] = s[i + j - 1]
        BY <1>0, <2>2, <4>1
      <4>3. Len(t) = Len(s) - (i - 1) /\ Len(t) \in Nat /\ \A j \in 1 .. Len(t) : i + j - 1 = (i - 1) + j
        BY <2>2, <4>1, <4>2
      <4> HIDE DEF t
      <4> QED BY <4>2, <4>3 DEF Stacks
    <3>4. 1 \in DOMAIN t => t[1] = s[i]
      BY <2>2, <3>3
    <3> HIDE DEF t
    <3>5. i - 1 \in Nat /\ Len(s) = (i - 1) + Len(t)
      BY <1>0, <2>2, <3>3
    <3>6. Unwound(t, s, i - 1)
      BY <1>0, <2>4, <3>2, <3>3, <3>4, <3>5 DEF Unwound
    <3> QED BY <3>1, <3>3, <3>5, <3>6
  <2>5. CASE s[i].op \notin Callbacks
    <3> DEFINE f == [s[i] EXCEPT !.failed = TRUE]
               t == [s EXCEPT ![i] = f]
    <3>1. Panic(s) = t
      BY <1>3, <2>5 DEF Panic
    <3> HIDE DEF i
    <3>2. f \in FrameRecord /\ f.op = s[i].op /\ f.run = s[i].run /\ f.batch = s[i].batch
      <4>1. s[i] \in FrameRecord
        BY <1>1, <2>2
      <4> QED BY <4>1 DEF FrameRecord
    <3> HIDE DEF f
    <3>3. t \in Stacks /\ Len(t) = Len(s) /\ DOMAIN t = 1 .. Len(t)
          /\ \A j \in DOMAIN t : t[j] = IF j = i THEN f ELSE s[j]
      BY <1>0, <2>2, <3>2 DEF Stacks
    <3> HIDE DEF t
    <3>4. \A j \in DOMAIN t : t[j].op = s[0 + j].op /\ t[j].run = s[0 + j].run /\ t[j].batch = s[0 + j].batch
      BY <1>0, <3>2, <3>3
    <3>5. Unwound(t, s, 0)
      BY <1>0, <3>3, <3>4 DEF Unwound
    <3> QED BY <3>1, <3>3, <3>5
  <2> QED BY <2>4, <2>5
<1> QED BY <1>2, <1>3

\* What it leaves of the sets: everything but starts and returns.
Leaves(t, s) ==
  /\ t \in Stacks
  /\ Ops(t) \subseteq Ops(s) /\ Ops(s) \cap Owing \subseteq Ops(t)
  /\ \A ops : Runs(t, ops) \subseteq Runs(s, ops)
  /\ \A ops : ops \subseteq Owing => Runs(t, ops) = Runs(s, ops)
  /\ \A ops : Once(s, ops) => Once(t, ops)
  /\ Late(t) \subseteq Late(s) /\ (Starting(t) => Starting(s))
  /\ Batches(t) = Batches(s)
  /\ Linked(t)
  /\ \A st : Returning(s, st) => Returning(t, st)

LEMMA UnwoundSets ==
  ASSUME NEW s, NEW t, NEW k \in Nat, Unwound(t, s, k)
  PROVE  /\ Ops(t) \subseteq Ops(s) /\ Ops(s) \cap Owing \subseteq Ops(t)
         /\ \A ops : Runs(t, ops) \subseteq Runs(s, ops)
         /\ \A ops : ops \subseteq Owing => Runs(t, ops) = Runs(s, ops)
         /\ Late(t) \subseteq Late(s)
         /\ Batches(t) = Batches(s)
<1> USE DEF Unwound
<1>1. \A i \in DOMAIN t : i \in Nat /\ k + i \in DOMAIN s /\ k + i >= i
  OBVIOUS
<1>2. ASSUME NEW j \in DOMAIN s, s[j].op \in Owing
      PROVE  \E i \in DOMAIN t : j = k + i
  <2>1. ~(j \in 1 .. k)
    BY <1>2
  <2>2. j - k \in DOMAIN t /\ j = k + (j - k)
    BY <2>1
  <2> QED BY <2>2
<1>3. ASSUME NEW o \in Ops(t) PROVE o \in Ops(s)
  BY <1>1 DEF Ops
<1>4. ASSUME NEW o \in Ops(s) \cap Owing PROVE o \in Ops(t)
  <2>1. PICK j \in DOMAIN s : o = s[j].op
    BY DEF Ops
  <2>2. PICK i \in DOMAIN t : j = k + i
    BY <1>2, <2>1
  <2> QED BY <2>1, <2>2 DEF Ops
<1>5. ASSUME NEW ops, NEW r \in Runs(t, ops) PROVE r \in Runs(s, ops)
  <2>1. PICK i \in DOMAIN t : t[i].op \in ops /\ r = t[i].run
    BY DEF Runs
  <2>2. k + i \in DOMAIN s /\ s[k + i].op = t[i].op /\ s[k + i].run = t[i].run
    BY <1>1
  <2> QED BY <2>1, <2>2 DEF Runs
<1>6. ASSUME NEW ops, ops \subseteq Owing, NEW r \in Runs(s, ops) PROVE r \in Runs(t, ops)
  <2>1. PICK j \in DOMAIN s : s[j].op \in ops /\ r = s[j].run
    BY DEF Runs
  <2>2. PICK i \in DOMAIN t : j = k + i
    BY <1>2, <1>6, <2>1
  <2> QED BY <2>1, <2>2 DEF Runs
<1>7. ASSUME NEW r \in Late(t) PROVE r \in Late(s)
  <2>1. PICK i \in DOMAIN t : i > 1 /\ t[i].op = "start" /\ r = t[i].run
    BY DEF Late
  <2>2. k + i \in DOMAIN s /\ s[k + i].op = t[i].op /\ s[k + i].run = t[i].run
    BY <1>1
  <2>3. k + i > 1
    BY <1>1, <2>1
  <2> QED BY <2>1, <2>2, <2>3 DEF Late
<1>8. "deliver" \in Owing
  BY DEF Owing
<1>9. ASSUME NEW r \in Batches(t) PROVE r \in Batches(s)
  <2>1. PICK i \in DOMAIN t : t[i].op = "deliver" /\ r \in TakenIn(t[i])
    BY DEF Batches
  <2>2. k + i \in DOMAIN s /\ s[k + i].op = t[i].op /\ TakenIn(s[k + i]) = TakenIn(t[i])
    BY <1>1 DEF TakenIn
  <2> QED BY <2>1, <2>2 DEF Batches
<1>10. ASSUME NEW r \in Batches(s) PROVE r \in Batches(t)
  <2>1. PICK j \in DOMAIN s : s[j].op = "deliver" /\ r \in TakenIn(s[j])
    BY DEF Batches
  <2>2. PICK i \in DOMAIN t : j = k + i
    BY <1>2, <1>8, <2>1
  <2>3. t[i].op = "deliver" /\ TakenIn(s[j]) = TakenIn(t[i])
    BY <2>1, <2>2 DEF TakenIn
  <2> QED BY <2>1, <2>3 DEF Batches
<1> QED BY <1>3, <1>4, <1>5, <1>6, <1>7, <1>9, <1>10

LEMMA UnwoundOrder ==
  ASSUME NEW s, NEW t, NEW k \in Nat, Unwound(t, s, k), Linked(s)
  PROVE  /\ \A ops : Once(s, ops) => Once(t, ops)
         /\ t # <<>> /\ Starting(t) /\ 1 \in DOMAIN t => Starting(s)
         /\ Linked(t)
         /\ \A st : Returning(s, st) => Returning(t, st)
<1> USE DEF Unwound
<1>1. \A i \in DOMAIN t : i \in Nat /\ k + i \in DOMAIN s
  OBVIOUS
<1>2. ASSUME NEW ops, Once(s, ops) PROVE Once(t, ops)
  <2> SUFFICES ASSUME NEW i \in DOMAIN t, NEW j \in DOMAIN t,
                      t[i].op \in ops, t[j].op \in ops, t[i].run = t[j].run
               PROVE  i = j
    BY DEF Once
  <2>1. k + i = k + j
    BY <1>1, <1>2 DEF Once
  <2> QED BY <1>1, <2>1
<1>3. k > 0 /\ 1 \in DOMAIN t => t[1].op \notin {"start", "return"}
  BY OpSets
<1>4. ASSUME k = 0, 1 \in DOMAIN t PROVE t[1].op = s[1].op /\ s # <<>>
  BY <1>1, <1>4
<1>5. Starting(t) /\ 1 \in DOMAIN t => Starting(s)
  BY <1>3, <1>4 DEF Starting
<1>6. Linked(t)
  <2> SUFFICES ASSUME NEW i \in DOMAIN t
               PROVE  /\ t[i].op \in Owing => i < Len(t) /\ t[i + 1].op \in Owing \cup Ends
                      /\ t[i].op = "cancelActive" => t[i + 1].op \in Waking
    BY DEF Linked
  <2>1. /\ t[i].op \in Owing => k + i < Len(s) /\ s[(k + i) + 1].op \in Owing \cup Ends
        /\ t[i].op = "cancelActive" => s[(k + i) + 1].op \in Waking
    BY <1>1 DEF Linked
  <2>2. k + i < Len(s) => i < Len(t) /\ i + 1 \in DOMAIN t
    BY <1>1
  <2>3. i + 1 \in DOMAIN t => t[i + 1].op = s[(k + i) + 1].op
    <3>1. i + 1 \in DOMAIN t => t[i + 1].op = s[k + (i + 1)].op
      OBVIOUS
    <3>2. k + (i + 1) = (k + i) + 1
      BY <1>1
    <3> QED BY <3>1, <3>2
  <2>4. "cancelActive" \in Owing
    BY DEF Owing
  <2> QED BY <2>1, <2>2, <2>3, <2>4
<1>7. ASSUME NEW st, Returning(s, st) PROVE Returning(t, st)
  <2> SUFFICES ASSUME NEW i \in DOMAIN t, t[i].op = "return", st[t[i].run] = "queued"
               PROVE  i > 1 /\ t[i - 1].op = "start" /\ t[i - 1].run = t[i].run
    BY DEF Returning
  <2>1. k + i > 1 /\ s[(k + i) - 1].op = "start" /\ s[(k + i) - 1].run = t[i].run
    BY <1>1, <1>7 DEF Returning
  <2>2. i # 1
    BY <1>3, <2>1
  <2>3. i > 1 /\ i - 1 \in DOMAIN t /\ k + (i - 1) = (k + i) - 1
    <3>1. i \in 1 .. Len(t) /\ i \in Nat /\ Len(t) \in Nat
      BY <1>1
    <3>2. i > 1 /\ i - 1 \in 1 .. Len(t)
      BY <2>2, <3>1
    <3>3. k + (i - 1) = (k + i) - 1
      BY <3>1
    <3> QED BY <3>2, <3>3
  <2>4. t[i - 1].op = s[k + (i - 1)].op /\ t[i - 1].run = s[k + (i - 1)].run
    BY <2>3
  <2> QED BY <2>1, <2>3, <2>4
<1> QED BY <1>2, <1>5, <1>6, <1>7

LEMMA PanicLeaves ==
  ASSUME NEW s \in Stacks, Linked(s)
  PROVE  Leaves(Panic(s), s)
<1>1. PICK k \in Nat : Unwound(Panic(s), s, k)
  BY PanicIs
<1>2. Panic(s) \in Stacks
  BY PanicIs
<1> DEFINE t == Panic(s)
<1>3. t # <<>> => 1 \in DOMAIN t
  BY <1>2 DEF Stacks
<1> HIDE DEF t
<1>4. t \in Stacks /\ Unwound(t, s, k)
  BY <1>1, <1>2 DEF t
<1>5. /\ Ops(t) \subseteq Ops(s) /\ Ops(s) \cap Owing \subseteq Ops(t)
      /\ \A ops : Runs(t, ops) \subseteq Runs(s, ops)
      /\ \A ops : ops \subseteq Owing => Runs(t, ops) = Runs(s, ops)
      /\ Late(t) \subseteq Late(s)
      /\ Batches(t) = Batches(s)
  BY <1>4, UnwoundSets
<1>6. /\ \A ops : Once(s, ops) => Once(t, ops)
      /\ t # <<>> /\ Starting(t) /\ 1 \in DOMAIN t => Starting(s)
      /\ Linked(t)
      /\ \A st : Returning(s, st) => Returning(t, st)
  BY <1>4, UnwoundOrder
<1>7. Starting(t) => Starting(s)
  BY <1>3, <1>6 DEF Starting
<1>8. Leaves(t, s)
  BY <1>4, <1>5, <1>6, <1>7 DEF Leaves
<1> QED BY <1>8 DEF t

-----------------------------------------------------------------------------
\* The cancellations of the active runs, on top of a stack that then looks at
\* the queue.
Piled(t, s, n, ids) ==
  /\ n \in Nat /\ Len(s) \in Nat /\ Len(t) = n + Len(s)
  /\ DOMAIN s = 1 .. Len(s) /\ DOMAIN t = 1 .. Len(t)
  /\ \A i \in DOMAIN s : t[n + i] = s[i]
  /\ \A i \in 1 .. n : t[i].op = "cancelActive" /\ t[i].run \in ids

Piles(t, s, ids) ==
  /\ t \in Stacks /\ t # <<>> /\ ~Starting(t)
  /\ Ops(s) \subseteq Ops(t)
  /\ \A ops : "cancelActive" \notin ops => Runs(t, ops) = Runs(s, ops)
  /\ \A ops : Runs(t, ops) \subseteq Runs(s, ops) \cup ids
  /\ \A ops : "cancelActive" \notin ops /\ Once(s, ops) => Once(t, ops)
  /\ Late(t) = Late(s)
  /\ Batches(t) = Batches(s)
  /\ Linked(s) => Linked(t)
  /\ \A st : Returning(s, st) => Returning(t, st)

LEMMA FrameIs ==
  ASSUME NEW op \in AllOps, NEW r \in 0 .. MaxRuns
  PROVE  /\ Frame(op, r) \in FrameRecord
         /\ Frame(op, r).op = op /\ Frame(op, r).run = r
         /\ Frame(op, r).batch = <<>> /\ Frame(op, r).failed = FALSE
BY DEF Frame, FrameRecord

LEMMA RunsAre ==
  /\ MaxRuns \in Nat /\ RunIds \subseteq 0 .. MaxRuns /\ 0 \notin RunIds /\ IsFiniteSet(RunIds)
  /\ 0 \in 0 .. MaxRuns
<1>1. MaxRuns \in Nat
  BY Constants_Assumption
<1>2. IsFiniteSet(1 .. MaxRuns)
  BY <1>1, FS_Interval
<1> QED BY <1>1, <1>2 DEF RunIds

LEMMA RunFrame ==
  ASSUME NEW op \in AllOps, NEW r \in RunIds
  PROVE  /\ Frame(op, r) \in FrameRecord /\ <<Frame(op, r)>> \in Stacks
         /\ Frame(op, r).op = op /\ Frame(op, r).run = r
<1>1. r \in 0 .. MaxRuns
  BY RunsAre
<1>2. Frame(op, r) \in FrameRecord /\ Frame(op, r).op = op /\ Frame(op, r).run = r
  BY <1>1, FrameIs
<1> QED BY <1>2 DEF Stacks

LEMMA CancelFramesPile ==
  ASSUME NEW ids \in SUBSET RunIds, NEW s \in Stacks, NEW t \in CancelFrames(ids, s)
  PROVE  t \in Stacks /\ \E n \in Nat : Piled(t, s, n, ids)
<1> DEFINE n == Cardinality(ids)
<1>1. n \in Nat
  <2>1. IsFiniteSet(ids)
    BY RunsAre, FS_Subset
  <2> QED BY <2>1, FS_CardinalityType
<1> HIDE DEF n
<1>2. PICK order \in [1 .. n -> ids] :
        t = [i \in DOMAIN order |-> Frame("cancelActive", order[i])] \o s
  BY Zenon DEF CancelFrames, n
<1> DEFINE p == [i \in DOMAIN order |-> Frame("cancelActive", order[i])]
<1>3. /\ p \in Seq(FrameRecord) /\ Len(p) = n
      /\ \A i \in 1 .. n : p[i].op = "cancelActive" /\ p[i].run \in ids
  <2>1. "cancelActive" \in AllOps
    BY DEF AllOps, Owing
  <2>2. \A i \in 1 .. n : order[i] \in ids /\ order[i] \in 0 .. MaxRuns
    BY RunsAre
  <2>3. \A i \in 1 .. n : /\ Frame("cancelActive", order[i]) \in FrameRecord
                          /\ Frame("cancelActive", order[i]).op = "cancelActive"
                          /\ Frame("cancelActive", order[i]).run = order[i]
    BY <2>1, <2>2, FrameIs
  <2>4. p \in [1 .. n -> FrameRecord]
    BY <2>3
  <2> QED BY <1>1, <2>2, <2>3, <2>4
<1> HIDE DEF p
<1>4. t = p \o s
  BY <1>2 DEF p
<1>5. /\ t \in Seq(FrameRecord) /\ Len(t) = n + Len(s) /\ Len(s) \in Nat
      /\ DOMAIN t = 1 .. Len(t) /\ DOMAIN s = 1 .. Len(s)
      /\ \A i \in 1 .. n : t[i] = p[i]
      /\ \A i \in DOMAIN s : t[n + i] = s[i]
  <2>1. p \in Seq(FrameRecord) /\ s \in Seq(FrameRecord) /\ Len(p) = n
    BY <1>3 DEF Stacks
  <2>2. t \in Seq(FrameRecord) /\ Len(t) = n + Len(s) /\ Len(s) \in Nat
    BY <1>4, <2>1
  <2>3. DOMAIN t = 1 .. Len(t) /\ DOMAIN s = 1 .. Len(s) /\ DOMAIN p = 1 .. n
    BY <2>1, <2>2
  <2>4. \A i \in 1 .. n : t[i] = p[i]
    BY <1>1, <1>4, <2>1, <2>2
  <2>5. \A i \in 1 .. Len(s) : (p \o s)[Len(p) + i] = s[i]
    BY <2>1
  <2> QED BY <1>4, <2>1, <2>2, <2>3, <2>4, <2>5
<1>6. Piled(t, s, n, ids)
  BY <1>1, <1>3, <1>5 DEF Piled
<1> QED BY <1>1, <1>5, <1>6 DEF Stacks

LEMMA PiledSets ==
  ASSUME NEW s, NEW t, NEW ids, NEW n \in Nat, Piled(t, s, n, ids),
         s[1].op # "start"
  PROVE  /\ Ops(s) \subseteq Ops(t)
         /\ \A ops : "cancelActive" \notin ops => Runs(t, ops) = Runs(s, ops)
         /\ \A ops : Runs(t, ops) \subseteq Runs(s, ops) \cup ids
         /\ Late(t) = Late(s)
         /\ Batches(t) = Batches(s)
<1> USE DEF Piled
<1>1. \A i \in DOMAIN s : i \in Nat /\ n + i \in DOMAIN t /\ n + i >= i
  OBVIOUS
<1>2. ASSUME NEW j \in DOMAIN t
      PROVE  \/ t[j].op = "cancelActive" /\ t[j].run \in ids
             \/ \E i \in DOMAIN s : j = n + i
  <2>1. CASE j \in 1 .. n
    BY <2>1
  <2>2. CASE ~(j \in 1 .. n)
    <3>1. j - n \in DOMAIN s /\ j = n + (j - n)
      BY <2>2
    <3> QED BY <3>1
  <2> QED BY <2>1, <2>2
<1>3. ASSUME NEW o \in Ops(s) PROVE o \in Ops(t)
  <2>1. PICK i \in DOMAIN s : o = s[i].op
    BY DEF Ops
  <2>2. n + i \in DOMAIN t /\ t[n + i] = s[i]
    BY <1>1
  <2> QED BY <2>1, <2>2 DEF Ops
<1>4. ASSUME NEW ops, NEW r \in Runs(s, ops) PROVE r \in Runs(t, ops)
  <2>1. PICK i \in DOMAIN s : s[i].op \in ops /\ r = s[i].run
    BY DEF Runs
  <2>2. n + i \in DOMAIN t /\ t[n + i] = s[i]
    BY <1>1
  <2> QED BY <2>1, <2>2 DEF Runs
<1>5. ASSUME NEW ops, NEW r \in Runs(t, ops)
      PROVE  r \in Runs(s, ops) \/ (r \in ids /\ "cancelActive" \in ops)
  <2>1. PICK j \in DOMAIN t : t[j].op \in ops /\ r = t[j].run
    BY DEF Runs
  <2>2. CASE \E i \in DOMAIN s : j = n + i
    <3>1. PICK i \in DOMAIN s : j = n + i
      BY <2>2
    <3>2. t[j] = s[i]
      BY <3>1
    <3> QED BY <2>1, <3>2 DEF Runs
  <2> QED BY <1>2, <2>1, <2>2
<1>6. ASSUME NEW r \in Late(t) PROVE r \in Late(s)
  <2>1. PICK j \in DOMAIN t : j > 1 /\ t[j].op = "start" /\ r = t[j].run
    BY DEF Late
  <2>2. PICK i \in DOMAIN s : j = n + i
    BY <1>2, <2>1
  <2>3. t[j] = s[i] /\ i # 1
    BY <2>1, <2>2
  <2>4. i > 1
    BY <2>3
  <2> QED BY <2>1, <2>3, <2>4 DEF Late
<1>7. ASSUME NEW r \in Late(s) PROVE r \in Late(t)
  <2>1. PICK i \in DOMAIN s : i > 1 /\ s[i].op = "start" /\ r = s[i].run
    BY DEF Late
  <2>2. n + i \in DOMAIN t /\ n + i > 1 /\ t[n + i] = s[i]
    BY <1>1, <2>1
  <2> QED BY <2>1, <2>2 DEF Late
<1>8. ASSUME NEW r \in Batches(t) PROVE r \in Batches(s)
  <2>1. PICK j \in DOMAIN t : t[j].op = "deliver" /\ r \in TakenIn(t[j])
    BY DEF Batches
  <2>2. PICK i \in DOMAIN s : j = n + i
    BY <1>2, <2>1
  <2>3. t[j] = s[i]
    BY <2>2
  <2> QED BY <2>1, <2>3 DEF Batches
<1>9. ASSUME NEW r \in Batches(s) PROVE r \in Batches(t)
  <2>1. PICK i \in DOMAIN s : s[i].op = "deliver" /\ r \in TakenIn(s[i])
    BY DEF Batches
  <2>2. n + i \in DOMAIN t /\ t[n + i] = s[i]
    BY <1>1
  <2> QED BY <2>1, <2>2 DEF Batches
<1> QED BY <1>3, <1>4, <1>5, <1>6, <1>7, <1>8, <1>9

LEMMA PiledOrder ==
  ASSUME NEW s, NEW t, NEW ids, NEW n \in Nat, Piled(t, s, n, ids),
         1 \in DOMAIN s, s[1].op \in Waking
  PROVE  /\ \A ops : "cancelActive" \notin ops /\ Once(s, ops) => Once(t, ops)
         /\ Linked(s) => Linked(t)
         /\ \A st : Returning(s, st) => Returning(t, st)
<1> USE DEF Piled
<1>1. \A i \in DOMAIN s : i \in Nat /\ n + i \in DOMAIN t
  OBVIOUS
<1>2. ASSUME NEW j \in DOMAIN t
      PROVE  \/ j \in 1 .. n /\ t[j].op = "cancelActive"
             \/ \E i \in DOMAIN s : j = n + i
  <2>1. CASE j \in 1 .. n
    BY <2>1
  <2>2. CASE ~(j \in 1 .. n)
    <3>1. j - n \in DOMAIN s /\ j = n + (j - n)
      BY <2>2
    <3> QED BY <3>1
  <2> QED BY <2>1, <2>2
<1>3. ASSUME NEW ops, "cancelActive" \notin ops, Once(s, ops) PROVE Once(t, ops)
  <2> SUFFICES ASSUME NEW i \in DOMAIN t, NEW j \in DOMAIN t,
                      t[i].op \in ops, t[j].op \in ops, t[i].run = t[j].run
               PROVE  i = j
    BY DEF Once
  <2>1. PICK a \in DOMAIN s : i = n + a
    BY <1>2, <1>3
  <2>2. PICK b \in DOMAIN s : j = n + b
    BY <1>2, <1>3
  <2>3. t[i] = s[a] /\ t[j] = s[b]
    BY <2>1, <2>2
  <2>4. a = b
    BY <1>3, <2>3 DEF Once
  <2> QED BY <2>1, <2>2, <2>4
<1>4. Waking \subseteq Owing /\ "return" \notin Owing /\ "cancelActive" \in Waking
  BY OpSets DEF Waking
<1>5. ASSUME Linked(s) PROVE Linked(t)
  <2> SUFFICES ASSUME NEW j \in DOMAIN t
               PROVE  /\ t[j].op \in Owing => j < Len(t) /\ t[j + 1].op \in Owing \cup Ends
                      /\ t[j].op = "cancelActive" => t[j + 1].op \in Waking
    BY DEF Linked
  <2>1. CASE j \in 1 .. n
    <3>1. CASE j = n
      <4>1. t[j + 1] = s[1] /\ j < Len(t)
        BY <3>1
      <4> QED BY <1>4, <4>1
    <3>2. CASE j # n
      <4>1. j + 1 \in 1 .. n /\ j < Len(t)
        BY <2>1, <3>2
      <4>2. t[j + 1].op = "cancelActive"
        BY <4>1
      <4> QED BY <1>4, <4>1, <4>2
    <3> QED BY <3>1, <3>2
  <2>2. CASE \E i \in DOMAIN s : j = n + i
    <3>1. PICK i \in DOMAIN s : j = n + i
      BY <2>2
    <3>2. t[j] = s[i]
      BY <3>1
    <3>3. /\ s[i].op \in Owing => i < Len(s) /\ s[i + 1].op \in Owing \cup Ends
          /\ s[i].op = "cancelActive" => s[i + 1].op \in Waking
      BY <1>5 DEF Linked
    <3>4. i < Len(s) => i + 1 \in DOMAIN s /\ j < Len(t) /\ n + (i + 1) = j + 1
      BY <1>1, <3>1
    <3>5. i + 1 \in DOMAIN s => t[n + (i + 1)] = s[i + 1]
      OBVIOUS
    <3> QED BY <1>4, <3>2, <3>3, <3>4, <3>5
  <2> QED BY <1>2, <2>1, <2>2
<1>6. ASSUME NEW st, Returning(s, st) PROVE Returning(t, st)
  <2> SUFFICES ASSUME NEW j \in DOMAIN t, t[j].op = "return", st[t[j].run] = "queued"
               PROVE  j > 1 /\ t[j - 1].op = "start" /\ t[j - 1].run = t[j].run
    BY DEF Returning
  <2>1. PICK i \in DOMAIN s : j = n + i
    BY <1>2
  <2>2. t[j] = s[i]
    BY <2>1
  <2>3. i > 1 /\ s[i - 1].op = "start" /\ s[i - 1].run = s[i].run
    BY <1>6, <2>2 DEF Returning
  <2>4. i - 1 \in DOMAIN s /\ n + (i - 1) = j - 1 /\ j > 1
    <3>1. i \in 1 .. Len(s) /\ i \in Nat /\ i > 1 /\ Len(s) \in Nat
      BY <1>1, <2>3
    <3>2. i - 1 \in 1 .. Len(s) /\ n + (i - 1) = (n + i) - 1 /\ n + i > 1
      BY <3>1
    <3> QED BY <2>1, <3>2
  <2>5. t[j - 1] = s[i - 1]
    BY <2>4
  <2> QED BY <2>2, <2>3, <2>4, <2>5
<1> QED BY <1>3, <1>5, <1>6

LEMMA CancelFramesAre ==
  ASSUME NEW ids \in SUBSET RunIds, NEW s \in Stacks, NEW t \in CancelFrames(ids, s),
         s # <<>>, s[1].op \in Waking
  PROVE  Piles(t, s, ids)
<1>1. t \in Stacks
  BY CancelFramesPile
<1>2. PICK n \in Nat : Piled(t, s, n, ids)
  BY CancelFramesPile
<1>3. 1 \in DOMAIN s
  BY DEF Stacks
<1>4. s[1].op # "start" /\ "start" # "cancelActive"
  BY OpSets
<1>5. t # <<>> /\ ~Starting(t)
  <2>1. CASE n = 0
    BY <1>1, <1>2, <1>3, <1>4, <2>1 DEF Piled, Starting, Stacks
  <2>2. CASE n # 0
    <3>1. 1 \in 1 .. n /\ t[1].op = "cancelActive" /\ 1 \in DOMAIN t
      BY <1>2, <2>2 DEF Piled
    <3> QED BY <3>1 DEF Starting
  <2> QED BY <2>1, <2>2
<1>6. /\ Ops(s) \subseteq Ops(t)
      /\ \A ops : "cancelActive" \notin ops => Runs(t, ops) = Runs(s, ops)
      /\ \A ops : Runs(t, ops) \subseteq Runs(s, ops) \cup ids
      /\ Late(t) = Late(s)
      /\ Batches(t) = Batches(s)
  BY <1>2, <1>4, PiledSets
<1>7. /\ \A ops : "cancelActive" \notin ops /\ Once(s, ops) => Once(t, ops)
      /\ Linked(s) => Linked(t)
      /\ \A st : Returning(s, st) => Returning(t, st)
  BY <1>2, <1>3, PiledOrder
<1> QED BY <1>1, <1>5, <1>6, <1>7 DEF Piles

-----------------------------------------------------------------------------
\* The recursion WeightOf is the last value of.
Sums(q, f) == /\ f = [i \in 0 .. Len(q) |->
                        IF i = 0 THEN 0 ELSE f[i - 1] + Weight[q[i].outcome]]

LEMMA WeightsAre == Outcomes = {"succeeded", "failed"} /\ \A o \in Outcomes : Weight[o] \in Nat
BY DEF Outcomes, Weight

LEMMA CompletionFields ==
  ASSUME NEW q \in Seq(Completion), NEW i \in 1 .. Len(q)
  PROVE  q[i] \in Completion /\ Weight[q[i].outcome] \in Nat
<1>1. q[i] \in Completion
  OBVIOUS
<1> QED BY <1>1, WeightsAre DEF Completion

LEMMA SumExists ==
  ASSUME NEW q \in Seq(Completion)
  PROVE  \E f : Sums(q, f)
<1> DEFINE N == Len(q)
           g == [n \in 1 .. N |-> [m \in Nat |-> m + Weight[q[n].outcome]]]
<1>1. N \in Nat
  OBVIOUS
<1>2. g \in [1 .. N -> [Nat -> Nat]]
  <2>1. ASSUME NEW n \in 1 .. N, NEW m \in Nat PROVE m + Weight[q[n].outcome] \in Nat
    BY CompletionFields
  <2> QED BY <2>1
<1>3. \A n \in 1 .. N, m \in Nat : g[n][m] = m + Weight[q[n].outcome]
  OBVIOUS
<1> HIDE DEF g
<1>4. PICK f \in [0 .. N -> Nat] :
        Obeys(f, 0, N, g)
  <2>1. 0 \in Nat
    OBVIOUS
  <2> HIDE DEF N
  <2> QED BY <1>1, <1>2, <2>1, Recursion
<1>5. ASSUME NEW n \in 0 .. N, n # 0 PROVE f[n] = f[n - 1] + Weight[q[n].outcome]
  <2>1. n \in 1 .. N /\ n - 1 \in 0 .. N
    BY <1>1, <1>5
  <2> QED BY <2>1, <1>3, <1>4 DEF Obeys
<1>6. f = [i \in 0 .. N |-> IF i = 0 THEN 0 ELSE f[i - 1] + Weight[q[i].outcome]]
  BY <1>4, <1>5 DEF Obeys
<1> QED BY <1>6 DEF Sums

LEMMA WeightIsSum ==
  ASSUME NEW q \in Seq(Completion)
  PROVE  \E f \in [0 .. Len(q) -> Nat] :
           /\ WeightOf(q) = f[Len(q)] /\ f[0] = 0
           /\ \A i \in 1 .. Len(q) : f[i] = f[i - 1] + Weight[q[i].outcome]
<1> DEFINE f == CHOOSE f : Sums(q, f)
<1>1. Sums(q, f)
  BY SumExists, Zenon
<1>2. WeightOf(q) = f[Len(q)]
  BY Zenon DEF WeightOf, Sums
<1> HIDE DEF f
<1>3. f = [i \in 0 .. Len(q) |-> IF i = 0 THEN 0 ELSE f[i - 1] + Weight[q[i].outcome]]
  BY <1>1 DEF Sums
<1>4. Len(q) \in Nat
  OBVIOUS
<1>5. f[0] = 0
  BY <1>3, <1>4
<1>6. ASSUME NEW i \in 1 .. Len(q) PROVE f[i] = f[i - 1] + Weight[q[i].outcome]
  <2>1. i \in 0 .. Len(q) /\ i # 0
    OBVIOUS
  <2> QED BY <1>3, <2>1
<1>7. f \in [0 .. Len(q) -> Nat]
  <2> DEFINE S == {i \in 0 .. Len(q) : f[i] \in Nat}
  <2>1. 0 \in S
    BY <1>4, <1>5
  <2>2. \A i \in 1 .. Len(q) : i - 1 \in S => i \in S
    <3> SUFFICES ASSUME NEW i \in 1 .. Len(q), f[i - 1] \in Nat PROVE f[i] \in Nat
      BY <1>4
    <3>1. Weight[q[i].outcome] \in Nat
      BY CompletionFields
    <3>2. f[i] = f[i - 1] + Weight[q[i].outcome]
      BY <1>6
    <3> QED BY <3>1, <3>2
  <2>3. \A i \in 0 .. Len(q) : i \in S
    <3> HIDE DEF S
    <3> QED BY <1>4, <2>1, <2>2, UpTo
  <2>4. \A i \in 0 .. Len(q) : f[i] \in Nat
    BY <2>3
  <2> QED BY <1>3, <2>4
<1> QED BY <1>2, <1>5, <1>6, <1>7

\* Two sums over the same weights agree.
LEMMA SumsAgree ==
  ASSUME NEW N \in Nat, NEW c \in Nat,
         NEW f \in [0 .. N -> Nat], NEW h, 
         h[0] = f[0] + c,
         \A i \in 1 .. N : h[i] - h[i - 1] = f[i] - f[i - 1] /\ h[i] \in Int,
         h[0] \in Int
  PROVE  h[N] = f[N] + c
<1> DEFINE S == {i \in 0 .. N : h[i] = f[i] + c}
<1>1. 0 \in S
  OBVIOUS
<1>2. ASSUME NEW i \in 1 .. N, i - 1 \in S PROVE i \in S
  <2>1. i \in 0 .. N /\ f[i] \in Nat /\ f[i - 1] \in Nat /\ h[i - 1] = f[i - 1] + c
    BY <1>2
  <2> QED BY <2>1
<1>3. \A i \in 0 .. N : i \in S
  <2> HIDE DEF S
  <2> QED BY <1>1, <1>2, UpTo
<1> QED BY <1>3

LEMMA WeightType ==
  ASSUME NEW q \in Seq(Completion)
  PROVE  WeightOf(q) \in Nat
<1>1. Len(q) \in Nat
  OBVIOUS
<1> QED BY <1>1, WeightIsSum

LEMMA WeightEmpty == WeightOf(<<>>) = 0
<1>1. <<>> \in Seq(Completion) /\ Len(<<>>) = 0
  OBVIOUS
<1> QED BY <1>1, WeightIsSum

LEMMA WeightAppend ==
  ASSUME NEW q \in Seq(Completion), NEW e \in Completion
  PROVE  WeightOf(Append(q, e)) = WeightOf(q) + Weight[e.outcome]
<1> DEFINE r == Append(q, e)
           N == Len(q)
<1>1. /\ r \in Seq(Completion) /\ Len(r) = N + 1 /\ N \in Nat
      /\ \A i \in 1 .. N : r[i] = q[i]
      /\ r[N + 1] = e
  BY AppendProperties
<1> HIDE DEF r
<1>2. PICK f \in [0 .. N -> Nat] :
        /\ WeightOf(q) = f[N] /\ f[0] = 0
        /\ \A i \in 1 .. N : f[i] = f[i - 1] + Weight[q[i].outcome]
  BY WeightIsSum
<1>3. PICK h \in [0 .. Len(r) -> Nat] :
        /\ WeightOf(r) = h[Len(r)] /\ h[0] = 0
        /\ \A i \in 1 .. Len(r) : h[i] = h[i - 1] + Weight[r[i].outcome]
  BY <1>1, WeightIsSum
<1>4. ASSUME NEW i \in 1 .. N PROVE h[i] - h[i - 1] = f[i] - f[i - 1] /\ h[i] \in Int
  <2>1. i \in 1 .. Len(r) /\ i \in 0 .. Len(r) /\ i - 1 \in 0 .. Len(r) /\ i - 1 \in 0 .. N
    BY <1>1
  <2>2. h[i] = h[i - 1] + Weight[q[i].outcome] /\ f[i] = f[i - 1] + Weight[q[i].outcome]
    BY <2>1, <1>1, <1>2, <1>3
  <2>3. h[i - 1] \in Nat /\ f[i - 1] \in Nat /\ Weight[q[i].outcome] \in Nat
    BY <2>1, CompletionFields
  <2> QED BY <2>2, <2>3
<1>5. h[0] = f[0] + 0 /\ h[0] \in Int
  BY <1>2, <1>3
<1>6. h[N] = f[N] + 0
  <2> HIDE DEF N
  <2> QED BY <1>1, <1>4, <1>5, SumsAgree
<1>7. h[N + 1] = h[N] + Weight[e.outcome]
  <2>1. N + 1 \in 1 .. Len(r) /\ (N + 1) - 1 = N
    BY <1>1
  <2> QED BY <2>1, <1>1, <1>3
<1>8. f[N] \in Nat
  BY <1>1
<1> QED BY <1>1, <1>2, <1>3, <1>6, <1>7, <1>8 DEF r


LEMMA SumsBelow ==
  ASSUME NEW N \in Nat, NEW f \in [0 .. N -> Nat], NEW h \in [0 .. N -> Nat], f[0] = 0,
         \A i \in 1 .. N : h[i] - h[i - 1] = f[i] - f[i - 1]
  PROVE  f[N] <= h[N]
<1> DEFINE S == {i \in 0 .. N : f[i] <= h[i]}
<1>1. 0 \in S
  OBVIOUS
<1>2. ASSUME NEW i \in 1 .. N, i - 1 \in S PROVE i \in S
  <2>1. i \in 0 .. N /\ f[i] \in Nat /\ h[i] \in Nat /\ f[i - 1] \in Nat /\ h[i - 1] \in Nat
    OBVIOUS
  <2> QED BY <1>2, <2>1
<1>3. \A i \in 0 .. N : i \in S
  <2> HIDE DEF S
  <2> QED BY <1>1, <1>2, UpTo
<1> QED BY <1>3

LEMMA SuffixSums ==
  ASSUME NEW L \in Nat, NEW n \in 0 .. L, NEW N \in Nat, N = L - n,
         NEW k \in [0 .. L -> Nat], NEW f \in [0 .. N -> Nat], f[0] = 0,
         \A i \in 1 .. N : k[i + n] - k[(i - 1) + n] = f[i] - f[i - 1]
  PROVE  f[N] <= k[L]
<1> DEFINE h == [i \in 0 .. N |-> k[i + n]]
<1>1. h \in [0 .. N -> Nat]
  OBVIOUS
<1>2. N \in 0 .. N /\ N + n = L
  OBVIOUS
<1>3. h[N] = k[L]
  BY <1>2
<1>4. \A i \in 1 .. N : h[i] - h[i - 1] = f[i] - f[i - 1]
  OBVIOUS
<1> HIDE DEF h
<1>5. f[N] <= h[N]
  BY <1>1, <1>4, SumsBelow
<1> QED BY <1>3, <1>5

LEMMA WeightSuffix ==
  ASSUME NEW q \in Seq(Completion), NEW n \in 0 .. Len(q)
  PROVE  LET r == SubSeq(q, n + 1, Len(q))
         IN /\ r \in Seq(Completion) /\ Len(r) = Len(q) - n
            /\ \A i \in 1 .. Len(r) : r[i] = q[i + n]
            /\ WeightOf(r) <= WeightOf(q)
<1> DEFINE r == SubSeq(q, n + 1, Len(q))
           N == Len(r)
           L == Len(q)
<1>0. L \in Nat /\ n \in 0 .. L
  OBVIOUS
<1>1. r \in Seq(Completion) /\ N = L - n /\ N \in Nat
  OBVIOUS
<1>2. \A i \in 1 .. N : r[i] = q[i + n]
  <2>1. \A i \in 1 .. N : r[i] = q[(n + 1) + i - 1]
    OBVIOUS
  <2>2. \A i \in 1 .. N : (n + 1) + i - 1 = i + n
    BY <1>0, <1>1
  <2> HIDE DEF r, N
  <2> QED BY <2>1, <2>2
<1> HIDE DEF r
<1>3. PICK f \in [0 .. N -> Nat] :
        /\ WeightOf(r) = f[N] /\ f[0] = 0
        /\ \A i \in 1 .. N : f[i] = f[i - 1] + Weight[r[i].outcome]
  BY <1>1, WeightIsSum
<1>4. PICK k \in [0 .. L -> Nat] :
        /\ WeightOf(q) = k[L] /\ k[0] = 0
        /\ \A i \in 1 .. L : k[i] = k[i - 1] + Weight[q[i].outcome]
  BY WeightIsSum
<1>5. \A i \in 1 .. L : Weight[q[i].outcome] \in Nat
  BY CompletionFields
<1> HIDE DEF N, L
<1>6. ASSUME NEW i \in 1 .. N PROVE k[i + n] - k[(i - 1) + n] = f[i] - f[i - 1]
  <2>1. /\ i + n \in 1 .. L /\ (i - 1) + n \in 0 .. L /\ i \in 0 .. N /\ i - 1 \in 0 .. N
        /\ (i + n) - 1 = (i - 1) + n
    BY <1>0, <1>1
  <2> DEFINE w == Weight[q[i + n].outcome]
  <2>2. k[i + n] = k[(i - 1) + n] + w /\ f[i] = f[i - 1] + w
    BY <1>2, <1>3, <1>4, <2>1
  <2>3. w \in Nat /\ k[(i - 1) + n] \in Nat /\ f[i - 1] \in Nat
    BY <1>5, <2>1
  <2> HIDE DEF w
  <2> QED BY <2>2, <2>3
<1>7. f[N] <= k[L]
  BY <1>0, <1>1, <1>3, <1>6, SuffixSums
<1> QED BY <1>1, <1>2, <1>3, <1>4, <1>7 DEF r, N, L

-----------------------------------------------------------------------------
\* The queue: every run at most once.
Queues == {q \in Seq(RunIds) : IsInjective(q)}

LEMMA QueueAppend ==
  ASSUME NEW q \in Queues, NEW r \in RunIds, r \notin ToSet(q)
  PROVE  /\ Append(q, r) \in Queues /\ Append(q, r) # <<>>
         /\ ToSet(Append(q, r)) = ToSet(q) \cup {r}
<1> DEFINE t == Append(q, r)
           n == Len(q)
<1>1. /\ t \in Seq(RunIds) /\ n \in Nat /\ DOMAIN q = 1 .. n /\ DOMAIN t = 1 .. n + 1
      /\ t[n + 1] = r /\ \A i \in 1 .. n : t[i] = q[i]
  BY AppendProperties DEF Queues
<1>2. t # <<>>
  BY <1>1
<1> HIDE DEF t, n
<1>3. ToSet(t) = ToSet(q) \cup {r}
  <2>1. \A i \in DOMAIN t : i \in DOMAIN q \/ i = n + 1
    BY <1>1
  <2>2. \A i \in DOMAIN q : i \in DOMAIN t
    BY <1>1
  <2>3. n + 1 \in DOMAIN t
    BY <1>1
  <2> QED BY <1>1, <2>1, <2>2, <2>3 DEF ToSet
<1>4. IsInjective(t)
  <2> SUFFICES ASSUME NEW i \in DOMAIN t, NEW j \in DOMAIN t, t[i] = t[j] PROVE i = j
    BY DEF IsInjective
  <2>1. \A k \in DOMAIN q : q[k] # r
    BY DEF ToSet
  <2>2. CASE i \in DOMAIN q /\ j \in DOMAIN q
    BY <1>1, <2>2 DEF Queues, IsInjective
  <2>3. CASE i \notin DOMAIN q \/ j \notin DOMAIN q
    BY <1>1, <2>1, <2>3
  <2> QED BY <2>2, <2>3
<1>5. t \in Queues
  BY <1>1, <1>4 DEF Queues
<1> QED BY <1>2, <1>3, <1>5 DEF t

\* t is q without what stands at p.
LEMMA QueueWithout ==
  ASSUME NEW q \in Queues, NEW p \in DOMAIN q, NEW t \in Seq(RunIds),
         Len(t) = Len(q) - 1,
         \A i \in 1 .. Len(t) : t[i] = IF i < p THEN q[i] ELSE q[i + 1]
  PROVE  t \in Queues /\ ToSet(t) = ToSet(q) \ {q[p]} /\ q[p] \in ToSet(q)
<1>1. /\ Len(q) \in Nat /\ Len(t) \in Nat /\ DOMAIN q = 1 .. Len(q) /\ DOMAIN t = 1 .. Len(t)
      /\ p \in 1 .. Len(q)
  BY DEF Queues
<1> DEFINE at(i) == IF i < p THEN i ELSE i + 1
<1>2. \A i \in DOMAIN t : at(i) \in DOMAIN q /\ at(i) # p /\ t[i] = q[at(i)]
  BY <1>1
<1>3. \A i, j \in DOMAIN t : at(i) = at(j) => i = j
  BY <1>1
<1>4. ASSUME NEW k \in DOMAIN q, k # p PROVE \E i \in DOMAIN t : at(i) = k
  <2>1. CASE k < p
    <3>1. k \in DOMAIN t /\ at(k) = k
      BY <1>1, <2>1
    <3> QED BY <3>1
  <2>2. CASE ~(k < p)
    <3>1. k - 1 \in DOMAIN t /\ at(k - 1) = k
      BY <1>1, <1>4, <2>2
    <3> QED BY <3>1
  <2> QED BY <2>1, <2>2
<1> HIDE DEF at
<1>5. \A a, b \in DOMAIN q : q[a] = q[b] => a = b
  BY DEF Queues, IsInjective
<1>6. IsInjective(t)
  BY <1>2, <1>3, <1>5 DEF IsInjective
<1>7. ToSet(t) = ToSet(q) \ {q[p]}
  <2>1. ASSUME NEW r \in ToSet(t) PROVE r \in ToSet(q) \ {q[p]}
    BY <1>2, <1>5 DEF ToSet
  <2>2. ASSUME NEW r \in ToSet(q) \ {q[p]} PROVE r \in ToSet(t)
    <3>1. PICK k \in DOMAIN q : r = q[k] /\ k # p
      BY DEF ToSet
    <3>2. PICK i \in DOMAIN t : at(i) = k
      BY <1>4, <3>1
    <3> QED BY <1>2, <3>1, <3>2 DEF ToSet
  <2> QED BY <2>1, <2>2
<1> QED BY <1>6, <1>7 DEF Queues, ToSet

LEMMA QueueRemove ==
  ASSUME NEW q \in Queues, NEW p \in DOMAIN q
  PROVE  /\ RemoveAt(q, p) \in Queues
         /\ ToSet(RemoveAt(q, p)) = ToSet(q) \ {q[p]} /\ q[p] \in ToSet(q)
<1> DEFINE t == RemoveAt(q, p)
           n == Len(q)
<1>1. n \in Nat /\ p \in 1 .. n /\ q \in Seq(RunIds)
  BY DEF Queues
<1> DEFINE a == SubSeq(q, 1, p - 1)
           b == SubSeq(q, p + 1, n)
<1>2. /\ a \in Seq(RunIds) /\ Len(a) = p - 1
      /\ \A i \in 1 .. p - 1 : a[i] = q[i]
  BY <1>1
<1>3. /\ b \in Seq(RunIds) /\ Len(b) = n - p
      /\ \A i \in 1 .. n - p : b[i] = q[i + p]
  <2>1. b \in Seq(RunIds) /\ Len(b) = n - p
    BY <1>1
  <2>2. \A i \in 1 .. Len(b) : b[i] = q[(p + 1) + i - 1]
    BY <1>1
  <2>3. \A i \in 1 .. n - p : (p + 1) + i - 1 = i + p
    BY <1>1
  <2> HIDE DEF b
  <2> QED BY <2>1, <2>2, <2>3
<1>4. t = a \o b
  BY DEF RemoveAt
<1> HIDE DEF a, b, t
<1>5. t \in Seq(RunIds) /\ Len(t) = n - 1
  BY <1>1, <1>2, <1>3, <1>4
<1>6. ASSUME NEW i \in 1 .. n - 1 PROVE t[i] = IF i < p THEN q[i] ELSE q[i + 1]
  <2>1. CASE i < p
    <3>1. i \in 1 .. Len(a) /\ i \in 1 .. p - 1
      BY <1>1, <1>2, <2>1
    <3>2. t[i] = a[i]
      BY <1>2, <1>3, <1>4, <3>1
    <3> QED BY <1>2, <2>1, <3>1, <3>2
  <2>2. CASE ~(i < p)
    <3> DEFINE j == i - (p - 1)
    <3>1. j \in 1 .. Len(b) /\ j \in 1 .. n - p /\ i = Len(a) + j /\ j + p = i + 1
      BY <1>1, <1>2, <1>3, <2>2
    <3> HIDE DEF j
    <3>2. (a \o b)[Len(a) + j] = b[j]
      <4>1. a \in Seq(RunIds) /\ b \in Seq(RunIds)
        BY <1>2, <1>3
      <4>2. \A k \in 1 .. Len(b) : (a \o b)[Len(a) + k] = b[k]
        BY <4>1
      <4> QED BY <3>1, <4>2
    <3> QED BY <1>3, <1>4, <2>2, <3>1, <3>2
  <2> QED BY <2>1, <2>2
<1>7. t \in Queues /\ ToSet(t) = ToSet(q) \ {q[p]} /\ q[p] \in ToSet(q)
  BY <1>5, <1>6, QueueWithout
<1> QED BY <1>7 DEF t

LEMMA QueueTail ==
  ASSUME NEW q \in Queues, q # <<>>
  PROVE  /\ Tail(q) \in Queues
         /\ ToSet(Tail(q)) = ToSet(q) \ {Head(q)} /\ Head(q) \in ToSet(q) /\ Head(q) \in RunIds
<1>1. /\ Tail(q) \in Seq(RunIds) /\ Len(Tail(q)) = Len(q) - 1 /\ Head(q) = q[1] /\ Head(q) \in RunIds
      /\ \A i \in 1 .. Len(Tail(q)) : Tail(q)[i] = q[i + 1]
  BY HeadTailProperties, EmptySeq DEF Queues
<1>2. 1 \in DOMAIN q
  BY DEF Queues
<1>3. \A i \in 1 .. Len(Tail(q)) : ~(i < 1)
  OBVIOUS
<1>4. \A i \in 1 .. Len(Tail(q)) : Tail(q)[i] = IF i < 1 THEN q[i] ELSE q[i + 1]
  BY <1>1, <1>3
<1>5. Tail(q) \in Queues /\ ToSet(Tail(q)) = ToSet(q) \ {q[1]} /\ q[1] \in ToSet(q)
  BY <1>1, <1>2, <1>4, QueueWithout
<1> QED BY <1>1, <1>5

LEMMA QueueFront ==
  ASSUME NEW q \in Queues, q # <<>>
  PROVE  /\ Front(q) \in Queues
         /\ ToSet(Front(q)) = ToSet(q) \ {Last(q)} /\ Last(q) \in ToSet(q) /\ Last(q) \in RunIds
<1> DEFINE n == Len(q)
<1>1. n \in Nat /\ n # 0 /\ n \in DOMAIN q /\ q \in Seq(RunIds)
  BY EmptySeq DEF Queues
<1>2. /\ Front(q) \in Seq(RunIds) /\ Len(Front(q)) = n - 1
      /\ \A i \in 1 .. n - 1 : Front(q)[i] = q[i]
  <2> DEFINE t == SubSeq(q, 1, n - 1)
  <2>1. n - 1 \in Nat /\ n - 1 \in 0 .. Len(q) /\ n - 1 \in 0 .. n
    BY <1>1
  <2>2. t \in Seq(RunIds) /\ Len(t) = n - 1
    <3>1. \A k \in 1 .. n - 1 : q[k] \in RunIds
      BY <1>1
    <3>2. 1 \in Int /\ n - 1 \in Int
      BY <2>1
    <3>3. t \in Seq(RunIds) /\ Len(t) = IF 1 <= n - 1 THEN (n - 1) - 1 + 1 ELSE 0
      BY <3>1, <3>2, SubSeqProperties
    <3> HIDE DEF t, n
    <3> QED BY <1>1, <2>1, <3>3
  <2>3. \A i \in 1 .. n - 1 : t[i] = q[i]
    BY <1>1, <2>1
  <2> QED BY <2>2, <2>3 DEF Front
<1>3. Last(q) = q[n] /\ q[n] \in RunIds
  BY <1>1 DEF Last
<1>4. \A i \in 1 .. n - 1 : i < n
  BY <1>1
<1>5. \A i \in 1 .. Len(Front(q)) : Front(q)[i] = IF i < n THEN q[i] ELSE q[i + 1]
  BY <1>2, <1>4
<1>6. Front(q) \in Queues /\ ToSet(Front(q)) = ToSet(q) \ {q[n]} /\ q[n] \in ToSet(q)
  BY <1>1, <1>2, <1>5, QueueWithout
<1> QED BY <1>3, <1>6

-----------------------------------------------------------------------------
\* All of that about one frame.
Pushed(t, f, s) ==
  /\ t \in Stacks /\ t # <<>> /\ s \in Stacks /\ f \in FrameRecord
  /\ Starting(t) <=> f.op = "start"
  /\ Ops(t) = Ops(s) \cup {f.op}
  /\ \A ops : Runs(t, ops) = Runs(s, ops) \cup (IF f.op \in ops THEN {f.run} ELSE {})
  /\ Late(t) = Runs(s, {"start"})
  /\ Batches(t) = Batches(s) \cup (IF f.op = "deliver" THEN TakenIn(f) ELSE {})
  /\ \A ops : Once(t, ops) <=> /\ Once(s, ops)
                               /\ f.op \in ops => f.run \notin Runs(s, ops)
  /\ Linked(t) <=> /\ Linked(s)
                   /\ f.op \in Owing => s # <<>> /\ s[1].op \in Owing \cup Ends
                   /\ f.op = "cancelActive" => s[1].op \in Waking
  /\ \A st : Returning(s, st) /\ (f.op = "return" => st[f.run] # "queued") => Returning(t, st)
  /\ \A st : Returning(t, st) =>
               /\ f.op = "return" => st[f.run] # "queued"
               /\ Returning(s, st) \/ (f.op = "start" /\ st[f.run] = "queued")

LEMMA ConsPushed ==
  ASSUME NEW s \in Stacks, NEW f \in FrameRecord, NEW t \in Stacks, Consed(s, f, t), s # <<>>
  PROVE  Pushed(s, f, t)
<1>1. /\ Starting(s) <=> f.op = "start"
      /\ Ops(s) = Ops(t) \cup {f.op}
      /\ \A ops : Runs(s, ops) = Runs(t, ops) \cup (IF f.op \in ops THEN {f.run} ELSE {})
      /\ Late(s) = Runs(t, {"start"})
  BY ConsOps
<1>2. Batches(s) = Batches(t) \cup (IF f.op = "deliver" THEN TakenIn(f) ELSE {})
  BY ConsBatches
<1>3. \A ops : Once(s, ops) <=> /\ Once(t, ops)
                                /\ f.op \in ops => f.run \notin Runs(t, ops)
  BY ConsOnce
<1>4. Linked(s) <=> /\ Linked(t)
                    /\ f.op \in Owing => t # <<>> /\ t[1].op \in Owing \cup Ends
                    /\ f.op = "cancelActive" => t[1].op \in Waking
  BY ConsLinked
<1>5. /\ \A st : Returning(t, st) /\ (f.op = "return" => st[f.run] # "queued") => Returning(s, st)
      /\ \A st : Returning(s, st) =>
                   /\ f.op = "return" => st[f.run] # "queued"
                   /\ Returning(t, st) \/ (f.op = "start" /\ st[f.run] = "queued")
  BY ConsReturning
<1> QED BY <1>1, <1>2, <1>3, <1>4, <1>5 DEF Pushed

LEMMA Push ==
  ASSUME NEW s \in Stacks, NEW f \in FrameRecord
  PROVE  /\ Pushed(<<f>> \o s, f, s)
         /\ <<f>> \o s \in Stacks /\ (<<f>> \o s)[1] = f /\ <<f>> \o s # <<>>
<1>1. LET t == <<f>> \o s
      IN /\ t \in Stacks /\ t # <<>> /\ Head(t) = f /\ Tail(t) = s
         /\ Consed(t, f, s)
  BY PushIs
<1>2. Pushed(<<f>> \o s, f, s)
  BY <1>1, ConsPushed
<1> QED BY <1>1, <1>2 DEF Consed

LEMMA Pop ==
  ASSUME NEW s \in Stacks, s # <<>>
  PROVE  /\ Pushed(s, Head(s), Tail(s))
         /\ Tail(s) \in Stacks /\ Head(s) \in FrameRecord /\ s[1] = Head(s)
<1>1. /\ Tail(s) \in Stacks /\ Head(s) \in FrameRecord
      /\ s = <<Head(s)>> \o Tail(s)
      /\ Consed(s, Head(s), Tail(s))
  BY PopIs
<1>2. Pushed(s, Head(s), Tail(s))
  BY <1>1, ConsPushed
<1> QED BY <1>1, <1>2 DEF Consed

LEMMA PushedRuns ==
  ASSUME NEW t, NEW f, NEW s, Pushed(t, f, s)
  PROVE  /\ \A ops : f.op \notin ops => Runs(t, ops) = Runs(s, ops)
         /\ \A ops : f.op \in ops => Runs(t, ops) = Runs(s, ops) \cup {f.run}
         /\ \A ops : Runs(s, ops) \subseteq Runs(t, ops)
<1>1. \A ops : Runs(t, ops) = Runs(s, ops) \cup (IF f.op \in ops THEN {f.run} ELSE {})
  BY DEF Pushed
<1> SUFFICES ASSUME NEW ops
             PROVE  /\ f.op \notin ops => Runs(t, ops) = Runs(s, ops)
                    /\ f.op \in ops => Runs(t, ops) = Runs(s, ops) \cup {f.run}
                    /\ Runs(s, ops) \subseteq Runs(t, ops)
  OBVIOUS
<1>2. Runs(t, ops) = Runs(s, ops) \cup (IF f.op \in ops THEN {f.run} ELSE {})
  BY <1>1
<1> QED BY <1>2

LEMMA Flat2 ==
  ASSUME NEW a, NEW b, NEW s \in Stacks
  PROVE  <<a>> \o <<b>> \o s = <<a>> \o (<<b>> \o s)
BY DEF Stacks

LEMMA Flat3 ==
  ASSUME NEW a, NEW b, NEW c, NEW s \in Stacks
  PROVE  <<a>> \o <<b>> \o <<c>> \o s = <<a>> \o (<<b>> \o (<<c>> \o s))
BY DEF Stacks

LEMMA EmptyStack ==
  /\ <<>> \in Stacks /\ Ops(<<>>) = {} /\ Late(<<>>) = {} /\ Batches(<<>>) = {}
  /\ \A ops : Runs(<<>>, ops) = {} /\ Once(<<>>, ops)
  /\ Linked(<<>>) /\ \A st : Returning(<<>>, st)
  /\ ~Starting(<<>>)
<1>1. <<>> \in Stacks /\ DOMAIN <<>> = {}
  BY DEF Stacks
<1> QED BY <1>1 DEF Ops, Late, Batches, Runs, Once, Linked, Returning, Starting

LEMMA StartsWithin ==
  ASSUME NEW s \in Stacks
  PROVE  /\ Late(s) \subseteq Runs(s, {"start"}) /\ (Starting(s) => Runs(s, {"start"}) # {})
         /\ ~Starting(s) => Runs(s, {"start"}) = Late(s)
<1>1. s # <<>> => 1 \in DOMAIN s
  BY DEF Stacks
<1>2. ASSUME ~Starting(s), NEW i \in DOMAIN s, s[i].op = "start" PROVE i > 1
  <2>1. DOMAIN s = 1 .. Len(s) /\ Len(s) \in Nat /\ s # <<>>
    BY DEF Stacks
  <2>2. i # 1
    BY <1>2, <2>1 DEF Starting
  <2> QED BY <2>1, <2>2
<1>3. ~Starting(s) => Runs(s, {"start"}) = Late(s)
  BY <1>2 DEF Late, Runs
<1> QED BY <1>1, <1>3 DEF Late, Runs, Starting

LEMMA RunsPlacing ==
  /\ \A s : Runs(s, Placing) = Runs(s, {"start"}) \cup Runs(s, {"mark"})
  /\ \A s, ops, some : some \subseteq ops => Runs(s, some) \subseteq Runs(s, ops)
BY DEF Runs, Placing

-----------------------------------------------------------------------------
\* A step that starts and marks no run: its frames are for runs in R, and what
\* a panic drops were starts that waited.
Over(t, s, R) ==
  /\ t \in Stacks /\ Linked(t)
  /\ Once(t, Placing) /\ Once(t, {"executor"})
  /\ Runs(t, {"mark"}) = Runs(s, {"mark"})
  /\ Runs(t, {"executor"}) \subseteq Runs(s, {"executor"})
  /\ Runs(t, {"start"}) \subseteq Runs(s, {"start"})
  /\ \A r \in Runs(s, {"start"}) : r \in Runs(t, {"start"}) \/ r \in Late(s)
  /\ Runs(t, ForRun) \subseteq Runs(s, ForRun) \cup R
  /\ Late(t) \subseteq Late(s)
  /\ Starting(t) => Starting(s) \/ Late(s) # {}
  /\ \A st : Returning(s, st) => Returning(t, st)

\* Steps that start no run, mark none and take no ticket.
Plain == AllOps \ {"start", "mark", "executor", "return"}

LEMMA OverPush ==
  ASSUME NEW s \in Stacks, NEW f \in FrameRecord, NEW R,
         Linked(s), Once(s, Placing), Once(s, {"executor"}), ~Starting(s),
         f.op \in Plain, f.op \in ForRun => f.run \in R,
         f.op \in Owing => s # <<>> /\ s[1].op \in Owing \cup Ends,
         f.op = "cancelActive" => s[1].op \in Waking
  PROVE  Over(<<f>> \o s, s, R)
<1> DEFINE t == <<f>> \o s
<1>1. Pushed(t, f, s)
  BY Push
<1> HIDE DEF t
<1>2. f.op \notin {"start", "mark", "executor", "return"}
  BY DEF Plain
<1>3. Runs(s, {"start"}) = Late(s)
  BY StartsWithin
<1>4. t \in Stacks /\ Linked(t) /\ Once(t, Placing) /\ Once(t, {"executor"})
  BY <1>1, <1>2 DEF Pushed, Placing
<1>5. /\ Runs(t, {"mark"}) = Runs(s, {"mark"}) /\ Runs(t, {"executor"}) = Runs(s, {"executor"})
      /\ Runs(t, {"start"}) = Runs(s, {"start"})
      /\ Runs(t, ForRun) \subseteq Runs(s, ForRun) \cup R
      /\ Late(t) = Late(s) /\ ~Starting(t)
  <2>1. \A ops : f.op \notin ops => Runs(t, ops) = Runs(s, ops)
    BY <1>1, PushedRuns
  <2>2. Runs(t, ForRun) \subseteq Runs(s, ForRun) \cup R
    BY <1>1 DEF Pushed
  <2>3. Late(t) = Late(s) /\ ~Starting(t)
    BY <1>1, <1>2, <1>3 DEF Pushed
  <2> QED BY <1>2, <2>1, <2>2, <2>3
<1>6. \A st : Returning(s, st) => Returning(t, st)
  BY <1>1, <1>2 DEF Pushed
<1> QED BY <1>4, <1>5, <1>6 DEF Over, t

LEMMA OverPop ==
  ASSUME NEW s \in Stacks, s # <<>>, NEW R,
         Linked(s), Once(s, Placing), Once(s, {"executor"}),
         Head(s).op \in Plain \cup {"executor"}
  PROVE  Over(Tail(s), s, R)
<1> DEFINE t == Tail(s)
           f == Head(s)
<1>1. Pushed(s, f, t)
  BY Pop
<1>2. f.op \notin {"start", "mark", "return"}
  BY DEF Plain
<1> HIDE DEF t, f
<1>4. t \in Stacks /\ Linked(t) /\ Once(t, Placing) /\ Once(t, {"executor"})
  BY <1>1 DEF Pushed
<1>5. /\ Runs(t, {"mark"}) = Runs(s, {"mark"}) /\ Runs(t, {"executor"}) \subseteq Runs(s, {"executor"})
      /\ Runs(t, {"start"}) = Runs(s, {"start"})
      /\ Runs(t, ForRun) \subseteq Runs(s, ForRun)
      /\ Late(s) = Runs(t, {"start"})
  <2>1. \A ops : f.op \notin ops => Runs(t, ops) = Runs(s, ops)
    BY <1>1, PushedRuns
  <2>2. \A ops : Runs(t, ops) \subseteq Runs(s, ops)
    BY <1>1, PushedRuns
  <2>3. Late(s) = Runs(t, {"start"})
    BY <1>1 DEF Pushed
  <2> QED BY <1>2, <2>1, <2>2, <2>3
<1>6. \A st : Returning(s, st) => Returning(t, st)
  BY <1>1, <1>2 DEF Pushed
<1>7. Late(t) \subseteq Runs(t, {"start"}) /\ (Starting(t) => Runs(t, {"start"}) # {})
  <2>1. t # <<>> => 1 \in DOMAIN t
    BY <1>4 DEF Stacks
  <2> QED BY <2>1 DEF Late, Runs, Starting
<1> QED BY <1>4, <1>5, <1>6, <1>7 DEF Over, t

LEMMA OverTrans ==
  ASSUME NEW s, NEW t, NEW u, NEW R, Over(t, s, R), Over(u, t, R)
  PROVE  Over(u, s, R)
BY DEF Over

LEMMA OverPanic ==
  ASSUME NEW s \in Stacks, NEW t \in Stacks, NEW R, Linked(t), Once(t, Placing), Once(t, {"executor"}),
         Over(t, s, R), Late(s) = Runs(t, {"start"})
  PROVE  Over(Panic(t), s, R)
<1>1. Leaves(Panic(t), t)
  BY PanicLeaves
<1> DEFINE u == Panic(t)
<1> HIDE DEF u
<1>2. Leaves(u, t)
  BY <1>1 DEF u
<1>3. u \in Stacks /\ Linked(u) /\ Once(u, Placing) /\ Once(u, {"executor"})
  BY <1>2 DEF Leaves
<1>4. {"mark"} \subseteq Owing
  BY DEF Owing
<1>5. Runs(u, {"mark"}) = Runs(t, {"mark"})
  BY <1>2, <1>4 DEF Leaves
<1>6. /\ Runs(u, {"executor"}) \subseteq Runs(t, {"executor"})
      /\ Runs(u, {"start"}) \subseteq Runs(t, {"start"})
      /\ Runs(u, ForRun) \subseteq Runs(t, ForRun)
      /\ Late(u) \subseteq Late(t) /\ (Starting(u) => Starting(t))
  BY <1>2 DEF Leaves
<1>7. \A st : Returning(t, st) => Returning(u, st)
  BY <1>2 DEF Leaves
<1> QED BY <1>3, <1>5, <1>6, <1>7 DEF Over, u

-----------------------------------------------------------------------------
\* Such a step keeps all that is said of runs and stacks.
LEMMA OverKeeps ==
  ASSUME Core, NEW R, \A r \in R : r \in RunIds /\ status[r] # "new",
         Over(stack', stack, R),
         UNCHANGED <<policy, nextRun, status, active, queue, hook, tickets>>
  PROVE  Core'
<1> USE DEF Over
<1>1. stack' \in Stacks
  OBVIOUS
<1>2. Known'
  BY DEF Core, Known
<1>3. Framed'
  BY DEF Framed
<1>4. Placed'
  <2>1. Placed
    BY DEF Core
  <2> QED BY <2>1 DEF Placed
<1>5. Owned'
  <2>1. Owned /\ \A r \in Late(stack) : r \notin tickets
    BY DEF Core, Prompt
  <2>2. /\ Runs(stack', Placing) = Runs(stack', {"start"}) \cup Runs(stack', {"mark"})
        /\ Runs(stack, Placing) = Runs(stack, {"start"}) \cup Runs(stack, {"mark"})
    BY RunsPlacing
  <2>3. \A r \in Runs(stack, Placing) : r \in tickets => r \in Runs(stack', Placing)
    BY <2>1, <2>2
  <2>4. Runs(stack', {"mark"}) = Runs(stack, {"mark"})
    OBVIOUS
  <2> QED BY <2>1, <2>3, <2>4 DEF Owned
<1>6. Prompt'
  <2>1. Prompt
    BY DEF Core
  <2>2. \A r \in Late(stack') : r \notin tickets'
    BY <2>1 DEF Prompt
  <2>3. Returning(stack', status')
    BY <2>1 DEF Prompt
  <2>4. policy' # "latest" => Late(stack') = {}
    BY <2>1 DEF Prompt
  <2>5. policy' = "ordered" /\ Starting(stack') => active' = {}
    <3>1. policy = "ordered" => policy # "latest"
      OBVIOUS
    <3> QED BY <2>1, <3>1 DEF Prompt
  <2>6. policy' = "ordered" => \A a, b \in active' : a = b
    BY <2>1 DEF Prompt
  <2>7. policy' # "ordered" => queue' = <<>>
    BY <2>1 DEF Prompt
  <2> QED BY <2>2, <2>3, <2>4, <2>5, <2>6, <2>7 DEF Prompt
<1> QED BY <1>1, <1>2, <1>3, <1>4, <1>5, <1>6 DEF Core

\* A step that touches neither the stack nor the runs.
LEMMA SameKeeps ==
  ASSUME Core, UNCHANGED <<policy, nextRun, status, active, queue, hook, tickets, stack>>
  PROVE  Core'
BY DEF Core, Known, Framed, Placed, Owned, Prompt

\* The call on top.
LEMMA OnTop ==
  ASSUME Core, stack # <<>>
  PROVE  /\ Pushed(stack, Top, Below) /\ Below \in Stacks /\ Top \in FrameRecord
         /\ stack[1] = Top /\ Below = Tail(stack)
         /\ Top.op \in ForRun => Top.run \in RunIds /\ status[Top.run] # "new"
         /\ Linked(stack) /\ Once(stack, Placing) /\ Once(stack, {"executor"})
         /\ Linked(Below) /\ Once(Below, Placing) /\ Once(Below, {"executor"})
<1>1. stack \in Stacks /\ Linked(stack) /\ Once(stack, Placing) /\ Once(stack, {"executor"})
  BY DEF Core, Framed
<1>2. /\ Pushed(stack, Top, Below) /\ Below \in Stacks /\ Top \in FrameRecord
      /\ stack[1] = Top /\ Below = Tail(stack)
  BY <1>1, Pop DEF Top, Below
<1>3. Linked(Below) /\ Once(Below, Placing) /\ Once(Below, {"executor"})
  BY <1>1, <1>2 DEF Pushed
<1>4. Top.op \in ForRun => Top.run \in Runs(stack, ForRun)
  BY <1>2, PushedRuns
<1>5. Top.op \in ForRun => Top.run \in RunIds /\ status[Top.run] # "new"
  BY <1>4 DEF Core, Known
<1> QED BY <1>1, <1>2, <1>3, <1>5

\* Where the application may call, no start is on top.
LEMMA Calling ==
  ASSUME NEW call, MayCall(call)
  PROVE  ~Starting(stack) /\ (stack # <<>> => Top.op \in Callbacks)
<1>1. stack # <<>> => Top.op \in Callbacks
  <2> SUFFICES ASSUME stack # <<>> PROVE Top.op \in Callbacks
    OBVIOUS
  <2>1. <<Top.op, call>> \in Callbacks \X Calls
    BY Constants_Assumption DEF MayCall
  <2> QED BY <2>1
<1>2. stack # <<>> => Top = stack[1]
  BY DEF Top
<1> QED BY <1>1, <1>2, OpSets DEF Starting

-----------------------------------------------------------------------------
\* Types.
StateOK ==
  /\ policy \in Policies /\ nextRun \in 1 .. MaxRuns + 1
  /\ status \in [RunIds -> Final \cup {"new", "queued", "running"}]
  /\ active \subseteq RunIds /\ tickets \subseteq RunIds /\ answered \subseteq RunIds
  /\ lost \subseteq RunIds
  /\ hook \in [RunIds -> {"unstarted", "none", "live", "called"}]
  /\ queue \in Queues
  /\ observer \in [RunIds -> {"none", "waiting", "told"}]
  /\ phase \in {"open", "disposed", "dropped"}
  /\ closed \in BOOLEAN /\ wake \in BOOLEAN /\ known \in {"none", "told", "quiet"}
  /\ owed \in 0 .. 2
ItemsOK == items \in Seq(Completion) /\ Len(items) <= MaxPending /\ Queued <= MaxWeight

LEMMA TypeParts == TypeOK <=> StateOK /\ ItemsOK
BY DEF TypeOK, StateOK, ItemsOK, Queues, Completion

LEMMA TypeInit == Init => TypeOK
<1> SUFFICES ASSUME Init PROVE TypeOK
  OBVIOUS
<1>1. MaxRuns \in Nat \ {0} /\ MaxPending \in Nat /\ MaxWeight \in Nat
  BY Constants_Assumption
<1>2. ItemsOK
  <2>1. items \in Seq(Completion) /\ Len(items) = 0
    BY DEF Init
  <2>2. Queued = 0
    BY WeightEmpty DEF Init, Queued
  <2> QED BY <1>1, <2>1, <2>2 DEF ItemsOK
<1>3. queue \in Queues
  BY DEF Init, Queues, IsInjective
<1>4. nextRun \in 1 .. MaxRuns + 1
  BY <1>1 DEF Init
<1>5. /\ policy \in Policies
      /\ status \in [RunIds -> Final \cup {"new", "queued", "running"}]
      /\ active \subseteq RunIds /\ tickets \subseteq RunIds /\ answered \subseteq RunIds
      /\ lost \subseteq RunIds
      /\ hook \in [RunIds -> {"unstarted", "none", "live", "called"}]
      /\ observer \in [RunIds -> {"none", "waiting", "told"}]
      /\ phase \in {"open", "disposed", "dropped"}
      /\ known \in {"none", "told", "quiet"} /\ owed \in 0 .. 2
  BY DEF Init
<1>6. closed \in BOOLEAN /\ wake \in BOOLEAN
  BY DEF Init
<1>7. StateOK
  BY <1>3, <1>4, <1>5, <1>6 DEF StateOK
<1> QED BY <1>2, <1>7, TypeParts

\* What a step leaves of the completions queued keeps their limits.
LEMMA ItemsSame ==
  ASSUME ItemsOK, UNCHANGED items
  PROVE  ItemsOK'
BY DEF ItemsOK, Queued

LEMMA ItemsEmpty ==
  ASSUME items' = <<>>
  PROVE  ItemsOK'
<1>1. items' \in Seq(Completion) /\ Len(items') = 0
  OBVIOUS
<1>2. Queued' = 0
  BY WeightEmpty DEF Queued
<1> QED BY <1>1, <1>2, Constants_Assumption DEF ItemsOK

LEMMA ItemsFewer ==
  ASSUME ItemsOK, NEW n \in 1 .. MaxPending, n <= Len(items),
         items' = SubSeq(items, n + 1, Len(items))
  PROVE  ItemsOK'
<1>1. items \in Seq(Completion) /\ Len(items) \in Nat /\ MaxPending \in Nat /\ MaxWeight \in Nat
  BY Constants_Assumption DEF ItemsOK
<1>2. n \in 0 .. Len(items) /\ n \in Nat
  BY <1>1
<1>3. items' \in Seq(Completion) /\ Len(items') = Len(items) - n /\ WeightOf(items') <= WeightOf(items)
  BY <1>1, <1>2, WeightSuffix
<1>4. WeightOf(items) \in Nat /\ WeightOf(items') \in Nat
  BY <1>1, <1>3, WeightType
<1>5. Len(items') <= MaxPending /\ WeightOf(items') <= MaxWeight
  BY <1>1, <1>2, <1>3, <1>4 DEF ItemsOK, Queued
<1> QED BY <1>3, <1>5 DEF ItemsOK, Queued

LEMMA ItemsMore ==
  ASSUME ItemsOK, NEW r \in RunIds, NEW outcome \in Outcomes, Accepts(outcome),
         items' = Append(items, [run |-> r, outcome |-> outcome])
  PROVE  ItemsOK'
<1> DEFINE e == [run |-> r, outcome |-> outcome]
<1>1. items \in Seq(Completion) /\ Len(items) \in Nat /\ MaxPending \in Nat /\ MaxWeight \in Nat
  BY Constants_Assumption DEF ItemsOK
<1>2. e \in Completion /\ e.outcome = outcome
  BY DEF Completion
<1> HIDE DEF e
<1>3. items' = Append(items, e)
  BY DEF e
<1>4. items' \in Seq(Completion) /\ Len(items') = Len(items) + 1
  BY <1>1, <1>2, <1>3
<1>5. WeightOf(items') = WeightOf(items) + Weight[outcome]
  BY <1>1, <1>2, <1>3, WeightAppend
<1>6. WeightOf(items) \in Nat /\ Weight[outcome] \in Nat
  BY <1>1, WeightType, WeightsAre
<1>7. Len(items) < MaxPending /\ Weight[outcome] <= MaxWeight /\ WeightOf(items) <= MaxWeight - Weight[outcome]
  BY DEF Accepts, Queued
<1>8. Len(items') <= MaxPending
  BY <1>1, <1>4, <1>7
<1>9. WeightOf(items') <= MaxWeight
  <2> DEFINE w == Weight[outcome]
             a == WeightOf(items)
             b == WeightOf(items')
  <2>1. b = a + w /\ a \in Nat /\ w \in Nat /\ a <= MaxWeight - w
    BY <1>5, <1>6, <1>7
  <2> HIDE DEF w, a, b
  <2>2. b <= MaxWeight
    BY <1>1, <2>1
  <2> QED BY <2>2 DEF b
<1> QED BY <1>4, <1>8, <1>9 DEF ItemsOK, Queued

\* The run of a call on top of the stack.
LEMMA TopRun ==
  ASSUME Core, NEW op \in ForRun, In(op)
  PROVE  stack # <<>> /\ Top.op = op /\ Top.run \in RunIds /\ status[Top.run] # "new"
BY OnTop DEF In, Top

LEMMA StateCalls ==
  ASSUME StateOK, Core, NEW r \in RunIds, NEW n \in 1 .. MaxPending,
         \/ CancelAll \/ Dispose \/ SetWake \/ CancelRunning(r) \/ CancelWaiting(r)
         \/ Observe(r) \/ CloseObserver(r) \/ Pump(n) \/ Close \/ Drop
  PROVE  StateOK'
<1>1. CASE CancelAll \/ CancelRunning(r)
  BY <1>1 DEF CancelAll, CancelRunning, StateOK, runs, completions
<1>2. CASE Dispose
  BY <1>2 DEF Dispose, StateOK, runs, completions
<1>3. CASE SetWake
  BY <1>3 DEF SetWake, StateOK, runs, completions
<1>4. CASE CancelWaiting(r)
  <2>1. queue' \in Queues
    BY <1>4, QueueRemove DEF CancelWaiting, StateOK
  <2> QED BY <1>4, <2>1 DEF CancelWaiting, StateOK, completions
<1>5. CASE Observe(r)
  <2>1. observer' \in [RunIds -> {"none", "waiting", "told"}]
    BY <1>5 DEF Observe, StateOK
  <2> QED BY <1>5, <2>1 DEF Observe, StateOK, completions
<1>6. CASE CloseObserver(r)
  <2>1. observer' \in [RunIds -> {"none", "waiting", "told"}]
    BY <1>6 DEF CloseObserver, StateOK
  <2> QED BY <1>6, <2>1 DEF CloseObserver, StateOK, completions
<1>7. CASE Pump(n)
  <2>1. known' \in {"none", "told", "quiet"}
    BY <1>7 DEF Pump
  <2>2. lost' \subseteq RunIds
    BY <1>7 DEF Pump, StateOK
  <2> QED BY <1>7, <2>1, <2>2 DEF Pump, StateOK, runs
<1>8. CASE Close
  <2>1. observer' \in [RunIds -> {"none", "waiting", "told"}]
    BY <1>8 DEF Close, StateOK
  <2>2. closed' = TRUE /\ wake' = FALSE /\ answered' = {} /\ lost' = {} /\ known' = "none"
        /\ UNCHANGED owed
    BY <1>8 DEF Close, CloseQueue
  <2>3. closed' \in BOOLEAN /\ wake' \in BOOLEAN
    BY <2>2
  <2> QED BY <1>8, <2>1, <2>2, <2>3 DEF Close, StateOK
<1>9. CASE Drop
  <2>1. observer' \in [RunIds -> {"none", "waiting", "told"}]
    BY <1>9 DEF Drop, Notified, StateOK
  <2>2. closed' = TRUE /\ wake' = FALSE /\ answered' = {} /\ lost' = {} /\ known' = "none"
        /\ UNCHANGED owed
    BY <1>9 DEF Drop, CloseQueue
  <2>3. closed' \in BOOLEAN /\ wake' \in BOOLEAN
    BY <2>2
  <2>4. status' \in [RunIds -> Final \cup {"new", "queued", "running"}]
    BY <1>9 DEF Drop, StateOK, Final
  <2>5. hook' \in [RunIds -> {"unstarted", "none", "live", "called"}]
    BY <1>9 DEF Drop, StateOK
  <2>6. active' = {} /\ queue' \in Queues /\ phase' = "dropped"
    BY <1>9 DEF Drop, Queues, IsInjective
  <2> QED BY <1>9, <2>1, <2>2, <2>3, <2>4, <2>5, <2>6 DEF Drop, StateOK
<1> QED BY <1>1, <1>2, <1>3, <1>4, <1>5, <1>6, <1>7, <1>8, <1>9

LEMMA StateSteps ==
  ASSUME StateOK, Core, NEW gives \in BOOLEAN, NEW r \in RunIds, NEW outcome \in Outcomes,
         \/ Run \/ Return \/ Start \/ StartNext \/ ExecutorReturns(gives) \/ ExecutorPanics
         \/ CancelActive \/ MarkCancelled \/ CancelQueued \/ Tell
         \/ Offer(r, outcome) \/ CallWake \/ CallbackReturns \/ CallbackPanics \/ End
  PROVE  StateOK'
<1>1. CASE Tell \/ CallbackReturns \/ CallbackPanics \/ End
  BY <1>1 DEF Tell, CallbackReturns, CallbackPanics, End, StateOK, runs, completions
<1>2. CASE Run
  <2>1. nextRun \in RunIds /\ nextRun' = nextRun + 1 /\ MaxRuns \in Nat
    BY <1>2, Constants_Assumption DEF Run
  <2>2. nextRun' \in 1 .. MaxRuns + 1
    BY <2>1 DEF RunIds
  <2>3. status' \in [RunIds -> Final \cup {"new", "queued", "running"}]
    BY <1>2 DEF Run, StateOK
  <2>4. nextRun \notin ToSet(queue)
    <3>1. nextRun >= nextRun /\ status[nextRun] = "new"
      BY <2>1 DEF Core, Known, RunIds
    <3> QED BY <3>1 DEF Core, Placed
  <2>5. queue' \in Queues /\ tickets' \subseteq RunIds
    <3>1. (UNCHANGED <<queue, tickets>>)
          \/ (queue' = Append(queue, nextRun) /\ tickets' = tickets \cup {nextRun})
      BY <1>2 DEF Run
    <3> QED BY <2>1, <2>4, <3>1, QueueAppend DEF StateOK
  <2> QED BY <1>2, <2>2, <2>3, <2>5 DEF Run, StateOK, completions
<1>3. CASE Return
  <2>1. Top.run \in RunIds
    BY <1>3, TopRun DEF Return, ForRun
  <2> QED BY <1>3, <2>1 DEF Return, StateOK, completions
<1>4. CASE Start
  <2>1. Top.run \in RunIds
    BY <1>4, TopRun DEF Start, ForRun
  <2>2. /\ status' \in [RunIds -> Final \cup {"new", "queued", "running"}]
        /\ hook' \in [RunIds -> {"unstarted", "none", "live", "called"}]
        /\ active' \subseteq RunIds
    BY <1>4, <2>1 DEF Start, StateOK
  <2> QED BY <1>4, <2>2 DEF Start, StateOK, completions
<1>5. CASE StartNext
  <2>1. queue' \in Queues
    BY <1>5, QueueTail DEF StartNext, CanStartNext, StateOK
  <2> QED BY <1>5, <2>1 DEF StartNext, StateOK, completions
<1>6. CASE ExecutorReturns(gives)
  <2>2. hook' \in [RunIds -> {"unstarted", "none", "live", "called"}]
    BY <1>6 DEF ExecutorReturns, StateOK
  <2> QED BY <1>6, <2>2 DEF ExecutorReturns, StateOK, completions
<1>7. CASE ExecutorPanics
  <2>1. /\ status' \in [RunIds -> Final \cup {"new", "queued", "running"}]
        /\ observer' \in [RunIds -> {"none", "waiting", "told"}]
        /\ active' \subseteq RunIds /\ answered' \subseteq RunIds /\ lost' \subseteq RunIds
    BY <1>7 DEF ExecutorPanics, Notified, StateOK, Final
  <2> QED BY <1>7, <2>1 DEF ExecutorPanics, StateOK
<1>8. CASE CancelActive
  <2>1. /\ hook' \in [RunIds -> {"unstarted", "none", "live", "called"}]
        /\ active' \subseteq RunIds /\ answered' \subseteq RunIds /\ lost' \subseteq RunIds
    BY <1>8 DEF CancelActive, StateOK
  <2> QED BY <1>8, <2>1 DEF CancelActive, StateOK
<1>9. CASE MarkCancelled
  <2>1. /\ status' \in [RunIds -> Final \cup {"new", "queued", "running"}]
        /\ observer' \in [RunIds -> {"none", "waiting", "told"}]
    BY <1>9 DEF MarkCancelled, Notified, StateOK, Final
  <2> QED BY <1>9, <2>1 DEF MarkCancelled, StateOK, completions
<1>10. CASE CancelQueued
  <2>1. queue' \in Queues
    BY <1>10, QueueFront DEF CancelQueued, StateOK
  <2> QED BY <1>10, <2>1 DEF CancelQueued, StateOK, completions
<1>11. CASE Offer(r, outcome)
  <2>1. /\ owed' \in 0 .. 2 /\ answered' \subseteq RunIds /\ lost' \subseteq RunIds
        /\ known' \in {"none", "told", "quiet"}
    BY <1>11 DEF Offer, StateOK
  <2> QED BY <1>11, <2>1 DEF Offer, StateOK, runs
<1>12. CASE CallWake
  <2>1. owed' \in 0 .. 2
    BY <1>12 DEF CallWake, StateOK
  <2> QED BY <1>12, <2>1 DEF CallWake, StateOK, runs
<1> QED BY <1>1, <1>2, <1>3, <1>4, <1>5, <1>6, <1>7, <1>8, <1>9, <1>10, <1>11, <1>12

\* A pump's frame, before and after it takes a completion.
LEMMA BatchHead ==
  ASSUME NEW f \in FrameRecord, f.batch # <<>>
  PROVE  LET c == Head(f.batch)
             g == [f EXCEPT !.batch = Tail(@)]
         IN /\ c \in Completion /\ c.run \in RunIds /\ c.outcome \in Outcomes
            /\ g \in FrameRecord /\ g.op = f.op
            /\ TakenIn(f) \subseteq TakenIn(g) \cup {c.run}
<1> DEFINE q == f.batch
           c == Head(f.batch)
           g == [f EXCEPT !.batch = Tail(@)]
<1>1. q \in Seq(Completion) /\ Len(q) \in Nat /\ DOMAIN q = 1 .. Len(q)
  BY DEF FrameRecord
<1>2. /\ Tail(q) \in Seq(Completion) /\ Len(Tail(q)) = Len(q) - 1 /\ c = q[1]
      /\ \A i \in 1 .. Len(Tail(q)) : Tail(q)[i] = q[i + 1]
      /\ c \in Completion
  BY <1>1, HeadTailProperties, EmptySeq
<1>3. g \in FrameRecord /\ g.op = f.op /\ g.batch = Tail(q)
  <2>1. DOMAIN f = {"op", "run", "batch", "failed"}
    BY DEF FrameRecord
  <2> QED BY <1>2, <2>1 DEF FrameRecord
<1>4. c.run \in RunIds /\ c.outcome \in Outcomes
  BY <1>2 DEF Completion
<1> HIDE DEF g
<1>5. ASSUME NEW r \in TakenIn(f) PROVE r \in TakenIn(g) \cup {c.run}
  <2>1. PICK j \in 1 .. Len(q) : r = q[j].run
    BY <1>1 DEF TakenIn
  <2>2. CASE j = 1
    BY <1>2, <2>1, <2>2
  <2>3. CASE j # 1
    <3>1. j - 1 \in 1 .. Len(Tail(q)) /\ (j - 1) + 1 = j
      BY <1>1, <1>2, <2>3
    <3>2. DOMAIN Tail(q) = 1 .. Len(Tail(q))
      BY <1>2
    <3>3. j - 1 \in DOMAIN g.batch /\ g.batch[j - 1] = q[j]
      BY <1>2, <1>3, <3>1, <3>2
    <3> QED BY <2>1, <3>3 DEF TakenIn
  <2> QED BY <2>2, <2>3
<1> QED BY <1>2, <1>3, <1>4, <1>5 DEF g

LEMMA StateDeliver ==
  ASSUME StateOK, Core, Deliver
  PROVE  StateOK'
<1>1. CASE Top.batch = <<>> \/ Head(Top.batch).run \notin active
  BY <1>1 DEF Deliver, StateOK
<1>2. CASE ~(Top.batch = <<>> \/ Head(Top.batch).run \notin active)
  <2>1. Top \in FrameRecord
    BY OnTop DEF Deliver, In
  <2>2. Head(Top.batch).run \in RunIds /\ Head(Top.batch).outcome \in Outcomes
    BY <1>2, <2>1, BatchHead
  <2> DEFINE c == Head(Top.batch)
  <2>3. /\ active' = active \ {c.run}
        /\ status' = [status EXCEPT ![c.run] = c.outcome]
        /\ hook' = [hook EXCEPT ![c.run] = "none"]
        /\ Notified({c.run})
        /\ answered' = answered \ {c.run} /\ lost' = lost \ {c.run}
    BY <1>2 DEF Deliver
  <2> HIDE DEF c
  <2>4. c.outcome \in Final
    BY <2>2 DEF c, Final
  <2>5. /\ status' \in [RunIds -> Final \cup {"new", "queued", "running"}]
        /\ hook' \in [RunIds -> {"unstarted", "none", "live", "called"}]
        /\ observer' \in [RunIds -> {"none", "waiting", "told"}]
        /\ active' \subseteq RunIds /\ answered' \subseteq RunIds /\ lost' \subseteq RunIds
    BY <2>3, <2>4 DEF Notified, StateOK
  <2> QED BY <2>5 DEF Deliver, StateOK
<1> QED BY <1>1, <1>2

LEMMA TypeStep ==
  ASSUME TypeOK, Core, [Next]_vars
  PROVE  TypeOK'
<1>1. StateOK /\ ItemsOK
  BY TypeParts
<1>2. TypeOK' <=> StateOK' /\ ItemsOK'
  BY DEF TypeOK, StateOK, ItemsOK, Queues, Completion
<1> USE <1>1
<1>3. CASE UNCHANGED vars
  <2>1. ItemsOK'
    BY <1>3, ItemsSame DEF vars, completions
  <2>2. StateOK'
    BY <1>3 DEF vars, runs, completions, StateOK
  <2> QED BY <1>2, <2>1, <2>2
<1>4. StateOK' /\ ItemsOK' => TypeOK'
  BY <1>2
<1>5. ASSUME NEW r \in RunIds, NEW n \in 1 .. MaxPending,
             \/ CancelAll \/ Dispose \/ SetWake \/ CancelRunning(r) \/ CancelWaiting(r)
             \/ Observe(r) \/ CloseObserver(r) \/ Pump(n) \/ Close \/ Drop
      PROVE  TypeOK'
  <2>1. StateOK'
    BY <1>5, StateCalls
  <2>2. CASE \/ CancelAll \/ Dispose \/ SetWake \/ CancelRunning(r) \/ CancelWaiting(r)
             \/ Observe(r) \/ CloseObserver(r)
    <3>1. UNCHANGED items
      BY <2>2 DEF CancelAll, Dispose, SetWake, CancelRunning, CancelWaiting, Observe,
                  CloseObserver, completions
    <3> QED BY <1>4, <2>1, <3>1, ItemsSame
  <2>3. CASE Pump(n)
    <3>1. ItemsOK'
      BY <2>3, ItemsFewer DEF Pump
    <3> QED BY <1>4, <2>1, <3>1
  <2>4. CASE Close \/ Drop
    <3>1. items' = <<>>
      BY <2>4 DEF Close, Drop, CloseQueue
    <3> QED BY <1>4, <2>1, <3>1, ItemsEmpty
  <2> QED BY <1>5, <2>2, <2>3, <2>4
<1>6. ASSUME NEW gives \in BOOLEAN, NEW r \in RunIds, NEW outcome \in Outcomes,
             \/ Run \/ Return \/ Start \/ StartNext \/ ExecutorReturns(gives) \/ ExecutorPanics
             \/ CancelActive \/ MarkCancelled \/ CancelQueued \/ Tell
             \/ Offer(r, outcome) \/ CallWake \/ CallbackReturns \/ CallbackPanics \/ End
      PROVE  TypeOK'
  <2>1. StateOK'
    BY <1>6, StateSteps
  <2>2. CASE Offer(r, outcome)
    <3>1. ItemsOK'
      BY <2>2, ItemsMore DEF Offer
    <3> QED BY <1>4, <2>1, <3>1
  <2>3. CASE \/ Run \/ Return \/ Start \/ StartNext \/ ExecutorReturns(gives) \/ ExecutorPanics
             \/ CancelActive \/ MarkCancelled \/ CancelQueued \/ Tell
             \/ CallWake \/ CallbackReturns \/ CallbackPanics \/ End
    <3>1. UNCHANGED items
      BY <2>3 DEF Run, Return, Start, StartNext, ExecutorReturns, ExecutorPanics, CancelActive,
                  MarkCancelled, CancelQueued, Tell, CallWake, CallbackReturns, CallbackPanics,
                  End, completions
    <3> QED BY <1>4, <2>1, <3>1, ItemsSame
  <2> QED BY <1>6, <2>2, <2>3
<1>7. CASE Deliver
  <2>1. UNCHANGED items
    BY <1>7 DEF Deliver
  <2> QED BY <1>4, <1>7, <2>1, ItemsSame, StateDeliver
<1>8. 1 \in RunIds /\ 1 \in 1 .. MaxPending /\ TRUE \in BOOLEAN /\ "failed" \in Outcomes
  BY Constants_Assumption, WeightsAre DEF RunIds
<1>9. CASE \/ CancelAll \/ Dispose \/ SetWake \/ Close \/ Drop
           \/ \E r \in RunIds : CancelRunning(r) \/ CancelWaiting(r) \/ Observe(r) \/ CloseObserver(r)
           \/ \E n \in 1 .. MaxPending : Pump(n)
  BY <1>5, <1>8, <1>9
<1>10. CASE \/ Run \/ Return \/ Start \/ StartNext \/ ExecutorPanics
            \/ CancelActive \/ MarkCancelled \/ CancelQueued \/ Tell
            \/ CallWake \/ CallbackReturns \/ CallbackPanics \/ End
            \/ \E gives \in BOOLEAN : ExecutorReturns(gives)
            \/ \E r \in RunIds, outcome \in Outcomes : Offer(r, outcome)
  BY <1>6, <1>8, <1>10
<1> QED BY <1>3, <1>7, <1>9, <1>10 DEF Next

-----------------------------------------------------------------------------
\* The steps that leave the runs as they are.
Sound(s) == /\ s \in Stacks /\ Linked(s) /\ Once(s, Placing) /\ Once(s, {"executor"})
            /\ ~Starting(s)

LEMMA OverSame ==
  ASSUME NEW s, Sound(s), NEW R
  PROVE  Over(s, s, R)
BY DEF Over, Sound

\* A frame that may stand on s.
Stands(f, s, R) ==
  /\ f \in FrameRecord /\ f.op \in Plain /\ (f.op \in ForRun => f.run \in R)
  /\ f.op \in Owing => s # <<>> /\ s[1].op \in Owing \cup Ends
  /\ f.op = "cancelActive" => s[1].op \in Waking

LEMMA SoundPush ==
  ASSUME NEW s, NEW f, NEW R, Sound(s), Stands(f, s, R)
  PROVE  /\ Over(<<f>> \o s, s, R) /\ Sound(<<f>> \o s)
         /\ <<f>> \o s # <<>> /\ (<<f>> \o s)[1] = f
         /\ Pushed(<<f>> \o s, f, s)
<1> DEFINE t == <<f>> \o s
<1>1. s \in Stacks /\ f \in FrameRecord
  BY DEF Sound, Stands
<1>2. Over(t, s, R)
  BY <1>1, OverPush DEF Sound, Stands
<1>3. Pushed(t, f, s) /\ t[1] = f /\ t # <<>>
  BY <1>1, Push
<1> HIDE DEF t
<1>4. ~Starting(t)
  BY <1>3 DEF Pushed, Stands, Plain
<1>5. Sound(t)
  BY <1>2, <1>4 DEF Over, Sound
<1> QED BY <1>2, <1>3, <1>5 DEF t

\* A caught step on the end that catches it.
LEMMA Guarded ==
  ASSUME NEW s, NEW R, Sound(s), NEW f \in FrameRecord, NEW e \in FrameRecord,
         e.op \in Ends, f.op \in {"cancelQueued", "startNext", "deliver"}
  PROVE  LET t == <<f>> \o <<e>> \o s
             u == <<e>> \o s
         IN /\ Over(t, s, R) /\ Sound(t) /\ t # <<>> /\ t[1] = f
            /\ Pushed(t, f, u) /\ Pushed(u, e, s)
<1> DEFINE u == <<e>> \o s
           t == <<f>> \o u
<1>1. Stands(e, s, R)
  BY DEF Stands, Plain, AllOps, Owing, Ends, ForRun, Callbacks
<1>2. /\ Over(u, s, R) /\ Sound(u) /\ u # <<>> /\ u[1] = e /\ Pushed(u, e, s)
  BY <1>1, SoundPush
<1> HIDE DEF u
<1>3. Stands(f, u, R)
  BY <1>2 DEF Stands, Plain, AllOps, Owing, Ends, ForRun, Callbacks
<1>4. Over(t, u, R) /\ Sound(t) /\ t # <<>> /\ t[1] = f /\ Pushed(t, f, u)
  BY <1>2, <1>3, SoundPush
<1> HIDE DEF t
<1>5. Over(t, s, R)
  BY <1>2, <1>4, OverTrans
<1>6. t = <<f>> \o <<e>> \o s
  <2>1. s \in Stacks
    BY DEF Sound
  <2> QED BY <2>1, Flat2 DEF t, u
<1> QED BY <1>2, <1>4, <1>5, <1>6 DEF u

\* The cancellations of ids on top.
LEMMA SoundPile ==
  ASSUME NEW s, NEW u, NEW R, NEW ids \in SUBSET RunIds, ids \subseteq R,
         Sound(u), Over(u, s, R), u # <<>>, u[1].op \in Waking, NEW t \in CancelFrames(ids, u)
  PROVE  Over(t, s, R) /\ Sound(t) /\ Piles(t, u, ids)
<1>1. Piles(t, u, ids)
  BY CancelFramesAre DEF Sound
<1>2. /\ "cancelActive" \notin Placing /\ "cancelActive" \notin {"executor"}
      /\ "cancelActive" \notin {"mark"} /\ "cancelActive" \notin {"start"}
  BY DEF Placing
<1>3. Sound(t)
  BY <1>1, <1>2 DEF Piles, Sound
<1>4. /\ Runs(t, {"mark"}) = Runs(u, {"mark"}) /\ Runs(t, {"executor"}) = Runs(u, {"executor"})
      /\ Runs(t, {"start"}) = Runs(u, {"start"}) /\ Late(t) = Late(u)
      /\ Runs(t, ForRun) \subseteq Runs(u, ForRun) \cup ids
  BY <1>1, <1>2 DEF Piles
<1>5. \A st : Returning(u, st) => Returning(t, st)
  BY <1>1 DEF Piles
<1>6. Over(t, u, R)
  BY <1>3, <1>4, <1>5 DEF Over, Sound
<1> QED BY <1>1, <1>3, <1>6, OverTrans

LEMMA StepIs ==
  ASSUME NEW op \in AllOps
  PROVE  /\ Step(op) = <<Frame(op, 0)>> /\ Frame(op, 0) \in FrameRecord /\ Frame(op, 0).op = op
         /\ Frame(op, 0).batch = <<>>
BY FrameIs, RunsAre DEF Step

LEMMA GuardOps ==
  /\ {"cancelQueued", "startNext", "deliver", "end", "close"} \subseteq AllOps
  /\ "end" \in Ends /\ "close" \in Ends
  /\ Waking \subseteq Owing
  /\ "cancelQueued" \in Waking /\ "startNext" \in Waking
BY DEF AllOps, Owing, Ends, Waking

\* Below a call of the application, or a caught step, no start comes next.
LEMMA SoundNow ==
  ASSUME Core, ~Starting(stack)
  PROVE  Sound(stack)
BY DEF Core, Framed, Sound

LEMMA SoundBelow ==
  ASSUME Core, stack # <<>>, Top.op \in Owing
  PROVE  Sound(Below) /\ Below # <<>> /\ Below[1].op \in Owing \cup Ends
<1>1. /\ Pushed(stack, Top, Below) /\ Below \in Stacks /\ Linked(stack)
      /\ Linked(Below) /\ Once(Below, Placing) /\ Once(Below, {"executor"})
  BY OnTop
<1>2. Below # <<>> /\ Below[1].op \in Owing \cup Ends
  BY <1>1 DEF Pushed
<1>3. ~Starting(Below)
  BY <1>2, OpSets DEF Starting
<1> QED BY <1>1, <1>2, <1>3 DEF Sound

LEMMA OverBelow ==
  ASSUME Core, stack # <<>>, NEW R, Top.op \in Plain \cup {"executor"}
  PROVE  Over(Below, stack, R) /\ Late(stack) = Runs(Below, {"start"})
<1>1. /\ Pushed(stack, Top, Below) /\ stack \in Stacks
      /\ Linked(stack) /\ Once(stack, Placing) /\ Once(stack, {"executor"})
  BY OnTop DEF Core
<1>2. Over(Below, stack, R)
  BY <1>1, OverPop DEF Top, Below
<1> QED BY <1>1, <1>2 DEF Pushed

\* What is active is running, hence known.
LEMMA ActiveKnown ==
  ASSUME StateOK, Core
  PROVE  /\ \A r \in active : r \in RunIds /\ status[r] # "new" /\ status[r] = "running"
         /\ active \in SUBSET RunIds
BY DEF StateOK, Core, Placed

LEMMA CoreCancels ==
  ASSUME StateOK, Core, NEW r \in RunIds, CancelAll \/ Dispose \/ CancelRunning(r)
  PROVE  Core'
<1>1. ~Starting(stack)
  BY Calling DEF CancelAll, Dispose, CancelRunning
<1>2. Sound(stack)
  BY <1>1, SoundNow
<1>3. UNCHANGED <<policy, nextRun, status, active, queue, hook, tickets>>
  BY DEF CancelAll, Dispose, CancelRunning, runs
<1>4. \A q \in active : q \in RunIds /\ status[q] # "new"
  BY ActiveKnown
<1>5. SUFFICES Over(stack', stack, active)
  BY <1>3, <1>4, OverKeeps
<1>6. CASE CancelAll
  <2> DEFINE u == Step("cancelQueued") \o Step("end") \o stack
  <2>1. Over(u, stack, active) /\ Sound(u) /\ u # <<>> /\ u[1].op = "cancelQueued"
    BY <1>2, StepIs, GuardOps, Guarded
  <2>2. stack' \in CancelFrames(active, u)
    BY <1>6 DEF CancelAll
  <2> HIDE DEF u
  <2> QED BY <2>1, <2>2, ActiveKnown, GuardOps, SoundPile
<1>7. CASE Dispose
  <2>1. CASE Borrowed
    <3>1. Stands(Frame("close", 0), stack, active) /\ Step("close") = <<Frame("close", 0)>>
      BY StepIs, GuardOps, OpSets DEF Stands, Plain, ForRun, Ends, Waking, Owing
    <3> QED BY <1>2, <1>7, <2>1, <3>1, SoundPush DEF Dispose
  <2>2. CASE ~Borrowed
    <3> DEFINE u == Step("cancelQueued") \o Step("close") \o stack
    <3>1. Over(u, stack, active) /\ Sound(u) /\ u # <<>> /\ u[1].op = "cancelQueued"
      BY <1>2, StepIs, GuardOps, Guarded
    <3>2. stack' \in CancelFrames(active, u)
      BY <1>7, <2>2 DEF Dispose
    <3> HIDE DEF u
    <3> QED BY <3>1, <3>2, ActiveKnown, GuardOps, SoundPile
  <2> QED BY <2>1, <2>2
<1>8. CASE CancelRunning(r)
  <2> DEFINE u == Step("startNext") \o Step("end") \o stack
             f == Frame("cancelActive", r)
  <2>1. Over(u, stack, active) /\ Sound(u) /\ u # <<>> /\ u[1].op = "startNext"
    BY <1>2, StepIs, GuardOps, Guarded
  <2>2. r \in active
    BY <1>8 DEF CancelRunning
  <2>3. f \in FrameRecord /\ f.op = "cancelActive" /\ f.run = r
    BY FrameIs, RunsAre DEF AllOps, Owing
  <2> HIDE DEF f
  <2>4. stack' = <<f>> \o u
    <3>1. stack' = <<f>> \o <<Frame("startNext", 0)>> \o <<Frame("end", 0)>> \o stack
      BY <1>8 DEF CancelRunning, f, Step
    <3>2. u = <<Frame("startNext", 0)>> \o (<<Frame("end", 0)>> \o stack)
      BY <1>2, Flat2 DEF Step, Sound
    <3>3. <<f>> \o <<Frame("startNext", 0)>> \o <<Frame("end", 0)>> \o stack
            = <<f>> \o (<<Frame("startNext", 0)>> \o (<<Frame("end", 0)>> \o stack))
      BY <1>2, Flat3 DEF Sound
    <3> HIDE DEF u
    <3> QED BY <3>1, <3>2, <3>3
  <2> HIDE DEF u
  <2>5. Stands(f, u, active)
    BY <2>1, <2>2, <2>3, GuardOps DEF Stands, Plain, AllOps, Owing
  <2>6. Over(<<f>> \o u, u, active)
    BY <2>1, <2>5, SoundPush
  <2> QED BY <2>1, <2>4, <2>6, OverTrans
<1> QED BY <1>6, <1>7, <1>8

LEMMA CorePump ==
  ASSUME TypeOK, Core, NEW n \in 1 .. MaxPending, Pump(n)
  PROVE  Core'
<1>3. UNCHANGED <<policy, nextRun, status, active, queue, hook, tickets>>
  BY DEF Pump, runs
<1>6. CASE Borrowed
  BY <1>3, <1>6, SameKeeps DEF Pump
<1>7. CASE ~Borrowed
  <2> DEFINE f == [Frame("deliver", 0) EXCEPT !.batch = SubSeq(items, 1, n)]
  <2>1. Sound(stack)
    BY Calling, SoundNow DEF Pump
  <2>2. SubSeq(items, 1, n) \in Seq(Completion)
    <3>1. items \in Seq(Completion) /\ Len(items) \in Nat /\ n <= Len(items) /\ n \in Nat
      BY TypeParts, Constants_Assumption DEF Pump, ItemsOK
    <3> QED BY <3>1
  <2>3. f \in FrameRecord /\ f.op = "deliver"
    <3>1. Frame("deliver", 0) \in FrameRecord /\ Frame("deliver", 0).op = "deliver"
      BY StepIs, GuardOps
    <3> QED BY <2>2, <3>1 DEF FrameRecord
  <2>4. stack' = <<f>> \o <<Frame("end", 0)>> \o stack
    BY <1>7 DEF Pump, Step
  <2> HIDE DEF f
  <2>5. Over(stack', stack, {})
    BY <2>1, <2>3, <2>4, StepIs, GuardOps, Guarded
  <2> QED BY <1>3, <2>5, OverKeeps
<1> QED BY <1>6, <1>7

LEMMA CoreQuiet ==
  ASSUME StateOK, Core, NEW r \in RunIds, NEW outcome \in Outcomes,
         \/ Observe(r) \/ CloseObserver(r) \/ Close \/ Tell
         \/ CallbackReturns \/ CallbackPanics \/ End
         \/ Offer(r, outcome) \/ CallWake \/ SetWake
  PROVE  Core'
<1>1. UNCHANGED <<policy, nextRun, status, active, queue, hook, tickets>>
  BY DEF Observe, CloseObserver, Close, Tell, CallbackReturns, CallbackPanics, End, Offer,
         CallWake, SetWake, runs
<1>2. CASE Offer(r, outcome) \/ CallWake \/ SetWake \/ CloseObserver(r)
  BY <1>1, <1>2, SameKeeps DEF Offer, CallWake, SetWake, CloseObserver
<1>3. CASE Observe(r)
  <2>1. CASE stack' = stack
    BY <1>1, <2>1, SameKeeps
  <2>2. CASE stack' = <<Frame("observer", r)>> \o stack
    <3>1. Sound(stack) /\ r \in tickets
      BY <1>3, Calling, SoundNow DEF Observe
    <3>2. status[r] # "new"
      BY <3>1 DEF Core, Known
    <3>3. Frame("observer", r) \in FrameRecord /\ Frame("observer", r).op = "observer"
          /\ Frame("observer", r).run = r
      BY FrameIs, RunsAre DEF AllOps, Callbacks
    <3>4. Stands(Frame("observer", r), stack, {r})
      BY <3>3, OpSets DEF Stands, Plain, AllOps, Callbacks, Waking
    <3>5. Over(stack', stack, {r})
      BY <2>2, <3>1, <3>4, SoundPush
    <3> QED BY <1>1, <3>2, <3>5, OverKeeps
  <2> QED BY <1>3, <2>1, <2>2 DEF Observe
<1>4. CASE Close \/ CallbackReturns
  <2>1. stack # <<>> /\ Top.op \in Plain /\ stack' = Below
    BY <1>4, OpSets DEF Close, CallbackReturns, In, Top, Plain, AllOps, Ends, Callbacks
  <2>2. Over(stack', stack, {})
    BY <2>1, OverBelow
  <2> QED BY <1>1, <2>2, OverKeeps
<1>5. CASE CallbackPanics \/ (End /\ Top.failed)
  <2>1. stack # <<>> /\ Top.op \in Plain /\ stack' = Panic(Below)
    BY <1>5, OpSets DEF End, CallbackPanics, In, Top, Plain, AllOps, Ends, Callbacks
  <2>2. Over(Below, stack, {}) /\ Late(stack) = Runs(Below, {"start"})
    BY <2>1, OverBelow
  <2>3. /\ stack \in Stacks /\ Below \in Stacks
        /\ Linked(Below) /\ Once(Below, Placing) /\ Once(Below, {"executor"})
    BY <2>1, OnTop DEF Core
  <2>4. Over(stack', stack, {})
    BY <2>1, <2>2, <2>3, OverPanic
  <2> QED BY <1>1, <2>4, OverKeeps
<1>6. CASE End /\ ~Top.failed
  <2>1. stack # <<>> /\ Top.op \in Plain /\ stack' = Below
    BY <1>6, OpSets DEF End, In, Top, Plain, AllOps, Ends
  <2>2. Over(stack', stack, {})
    BY <2>1, OverBelow
  <2> QED BY <1>1, <2>2, OverKeeps
<1>7. CASE Tell
  <2>1. stack # <<>> /\ Top.op \in {"tell", "report"}
    BY <1>7 DEF Tell, In, Top
  <2>2. Top.op \in Owing /\ Top.op \in Plain /\ Top.op \in ForRun
    BY <2>1, OpSets DEF Owing, Plain, ForRun, AllOps, Callbacks
  <2>3. Sound(Below) /\ Over(Below, stack, {Top.run})
    BY <2>1, <2>2, SoundBelow, OverBelow
  <2>4. Top.run \in RunIds /\ status[Top.run] # "new"
    BY <2>1, <2>2, OnTop
  <2>5. CASE phase # "open"
    <3>1. stack' = <<>> \o Below
      BY <1>7, <2>5 DEF Tell
    <3>2. stack' = Below
      BY <3>1, <2>3 DEF Sound, Stacks
    <3> QED BY <1>1, <2>3, <2>4, <3>2, OverKeeps
  <2>6. CASE phase = "open"
    <3> DEFINE o == IF In("tell") THEN "cancelled" ELSE "result"
               f == Frame(o, Top.run)
    <3>1. stack' = <<f>> \o Below
      BY <1>7, <2>6 DEF Tell
    <3>2. o \in Callbacks
      BY DEF Callbacks
    <3>3. o # "executor"
      OBVIOUS
    <3> HIDE DEF o
    <3>4. f \in FrameRecord /\ f.op = o /\ f.run = Top.run
      BY <2>4, <3>2, FrameIs, RunsAre DEF AllOps
    <3> HIDE DEF f
    <3>5. Stands(f, Below, {Top.run})
      BY <3>2, <3>3, <3>4, OpSets DEF Stands, Plain, AllOps, Callbacks, Waking
    <3>6. Over(<<f>> \o Below, Below, {Top.run})
      BY <2>3, <3>5, SoundPush
    <3>7. Over(stack', stack, {Top.run})
      BY <2>3, <3>1, <3>6, OverTrans
    <3> QED BY <1>1, <2>4, <3>7, OverKeeps
  <2> QED BY <2>5, <2>6
<1> QED BY <1>2, <1>3, <1>4, <1>5, <1>6, <1>7

-----------------------------------------------------------------------------
\* The steps that end a run.
LEMMA OverEnds ==
  ASSUME StateOK, Core, NEW R, \A r \in R : r \in RunIds /\ status[r] # "new",
         Over(stack', stack, R),
         UNCHANGED <<policy, nextRun, queue, tickets>>, active' \subseteq active,
         \A r \in RunIds : \/ status'[r] = status[r] /\ (r \in active => r \in active')
                           \/ /\ status'[r] \in Final /\ status[r] \notin {"new", "queued"}
                              /\ r \notin active',
         \A r \in RunIds : hook'[r] = "live" => r \in active',
         \A r \in Runs(stack', {"executor"}) : hook'[r] = "none"
  PROVE  Core'
<1> USE DEF Over
<1>1. stack' \in Stacks /\ Framed'
  BY DEF Framed
<1>2. /\ "new" \notin Final /\ "queued" \notin Final /\ "running" \notin Final
      /\ active \subseteq RunIds /\ ToSet(queue) \subseteq RunIds /\ tickets \subseteq RunIds
  BY DEF Final, Outcomes, Weight, StateOK, Queues, ToSet
<1>3. /\ \A r \in RunIds : status'[r] = "new" <=> status[r] = "new"
      /\ \A r \in RunIds : status'[r] = "queued" <=> status[r] = "queued"
      /\ \A r \in RunIds : r \in active' => status'[r] = status[r]
      /\ \A r \in RunIds : status'[r] = "running" => status[r] = "running" /\ (r \in active => r \in active')
  BY <1>2
<1>4. {"executor"} \subseteq ForRun /\ {"start"} \subseteq ForRun /\ {"mark"} \subseteq ForRun
      /\ {"return"} \subseteq ForRun
  BY DEF ForRun, Callbacks
<1>5. \A r \in Runs(stack, ForRun) : r \in RunIds /\ status[r] # "new"
  BY DEF Core, Known
<1>6. Known'
  BY <1>2, <1>3, <1>5 DEF Core, Known
<1>7. Placed'
  <2>1. Placed
    BY DEF Core
  <2>2. /\ Runs(stack, {"executor"}) \subseteq RunIds /\ Runs(stack, {"start"}) \subseteq RunIds
        /\ Runs(stack, {"mark"}) \subseteq RunIds
    BY <1>4, <1>5, RunsPlacing
  <2>3. \A r \in active' : status'[r] = "running"
    BY <1>2, <1>3, <2>1 DEF Placed
  <2>4. \A r \in ToSet(queue') : status'[r] = "queued"
    BY <1>2, <1>3, <2>1 DEF Placed
  <2>5. \A r \in Runs(stack', {"mark"}) : r \notin active' /\ r \notin ToSet(queue')
    BY <2>1 DEF Placed
  <2>6. \A r \in Runs(stack', {"start"}) : status'[r] = "queued" /\ r \notin ToSet(queue')
    BY <1>3, <2>1, <2>2 DEF Placed
  <2>7. \A r \in Runs(stack', {"executor"}) : status'[r] \notin {"new", "queued"} /\ hook'[r] = "none"
    BY <1>3, <2>1, <2>2 DEF Placed
  <2> QED BY <2>3, <2>4, <2>5, <2>6, <2>7 DEF Placed
<1>8. Owned'
  <2>1. Owned /\ \A r \in Late(stack) : r \notin tickets
    BY DEF Core, Prompt
  <2>2. /\ Runs(stack', Placing) = Runs(stack', {"start"}) \cup Runs(stack', {"mark"})
        /\ Runs(stack, Placing) = Runs(stack, {"start"}) \cup Runs(stack, {"mark"})
    BY RunsPlacing
  <2>3. \A r \in Runs(stack, Placing) : r \in tickets => r \in Runs(stack', Placing)
    BY <2>1, <2>2
  <2>4. Runs(stack', {"mark"}) = Runs(stack, {"mark"})
    OBVIOUS
  <2> QED BY <1>3, <2>1, <2>3, <2>4 DEF Owned
<1>9. Prompt'
  <2>1. Prompt
    BY DEF Core
  <2>2. \A r \in Late(stack') : r \notin tickets'
    BY <2>1 DEF Prompt
  <2>3. Returning(stack', status')
    <3>1. Returning(stack', status)
      BY <2>1 DEF Prompt
    <3>2. \A r \in Runs(stack', {"return"}) : r \in RunIds
      <4>1. Runs(stack', {"return"}) \subseteq Runs(stack', ForRun)
        BY <1>4, RunsPlacing
      <4> QED BY <4>1, <1>5
    <3>3. \A r \in Runs(stack', {"return"}) : status'[r] = "queued" => status[r] = "queued"
      BY <1>3, <3>2
    <3> QED BY <3>1, <3>3, ReturningThen
  <2>4. policy' # "latest" => Late(stack') = {}
    BY <2>1 DEF Prompt
  <2>5. policy' = "ordered" /\ Starting(stack') => active' = {}
    <3>1. policy = "ordered" => policy # "latest"
      OBVIOUS
    <3> QED BY <2>1, <3>1 DEF Prompt
  <2>6. policy' = "ordered" => \A a, b \in active' : a = b
    BY <2>1 DEF Prompt
  <2>7. policy' # "ordered" => queue' = <<>>
    BY <2>1 DEF Prompt
  <2> QED BY <2>2, <2>3, <2>4, <2>5, <2>6, <2>7 DEF Prompt
<1> QED BY <1>1, <1>6, <1>7, <1>8, <1>9 DEF Core

\* The call on top is replaced by another.
LEMMA OverReplace ==
  ASSUME Core, stack # <<>>, NEW R, Top.op \in Plain \cup {"executor"},
         NEW f \in FrameRecord, f.op \in Plain, f.op \in ForRun => f.run \in R,
         f.op \in Owing => Below # <<>> /\ Below[1].op \in Owing \cup Ends,
         f.op = "cancelActive" => Below[1].op \in Waking
  PROVE  /\ Over(<<f>> \o Below, stack, R) /\ Sound(<<f>> \o Below)
         /\ <<f>> \o Below # <<>> /\ (<<f>> \o Below)[1] = f
         /\ Pushed(<<f>> \o Below, f, Below)
<1> DEFINE t == <<f>> \o Below
<1>1. /\ Below \in Stacks /\ Linked(Below) /\ Once(Below, Placing) /\ Once(Below, {"executor"})
  BY OnTop
<1>2. Over(Below, stack, R) /\ Late(stack) = Runs(Below, {"start"})
  BY OverBelow
<1>3. Pushed(t, f, Below) /\ t # <<>> /\ t[1] = f
  BY <1>1, Push
<1> HIDE DEF t
<1>4. f.op \notin {"start", "mark", "executor", "return"}
  BY DEF Plain
<1>5. t \in Stacks /\ Linked(t) /\ Once(t, Placing) /\ Once(t, {"executor"}) /\ ~Starting(t)
  BY <1>1, <1>3, <1>4 DEF Pushed, Placing
<1>6. /\ Runs(t, {"mark"}) = Runs(Below, {"mark"}) /\ Runs(t, {"executor"}) = Runs(Below, {"executor"})
      /\ Runs(t, {"start"}) = Runs(Below, {"start"})
      /\ Runs(t, ForRun) \subseteq Runs(Below, ForRun) \cup R
      /\ Late(t) = Runs(Below, {"start"})
  <2>1. \A ops : f.op \notin ops => Runs(t, ops) = Runs(Below, ops)
    BY <1>3, PushedRuns
  <2>2. Runs(t, ForRun) \subseteq Runs(Below, ForRun) \cup R
    BY <1>3 DEF Pushed
  <2>3. Late(t) = Runs(Below, {"start"})
    BY <1>3 DEF Pushed
  <2> QED BY <1>4, <2>1, <2>2, <2>3
<1>7. \A st : Returning(Below, st) => Returning(t, st)
  BY <1>3, <1>4 DEF Pushed
<1>8. Over(t, stack, R)
  BY <1>2, <1>5, <1>6, <1>7 DEF Over
<1> QED BY <1>3, <1>5, <1>8 DEF Sound, t

LEMMA Joined ==
  ASSUME NEW a \in Stacks, NEW b \in Stacks, NEW c \in Stacks
  PROVE  a \o b \o c = a \o (b \o c)
BY ConcatAssociative DEF Stacks

LEMMA Single ==
  ASSUME NEW f \in FrameRecord
  PROVE  <<f>> \in Stacks
BY DEF Stacks

LEMMA Onto ==
  ASSUME NEW a \in Stacks, NEW b \in Stacks
  PROVE  a \o b \in Stacks /\ <<>> \o b = b
BY DEF Stacks

\* The observer of a run that has ended, on top of what follows.
LEMMA SettledOn ==
  ASSUME NEW r \in RunIds, NEW s, NEW u, NEW R, r \in R, Sound(u), Over(u, s, R)
  PROVE  /\ Settled(r) \in Stacks
         /\ Over(Settled(r) \o u, s, R) /\ Sound(Settled(r) \o u)
         /\ Runs(Settled(r) \o u, {"executor"}) = Runs(u, {"executor"})
         /\ Ops(u) \subseteq Ops(Settled(r) \o u) /\ Batches(Settled(r) \o u) = Batches(u)
<1>1. CASE observer[r] # "waiting"
  <2>1. Settled(r) = <<>>
    BY <1>1 DEF Settled
  <2>2. <<>> \o u = u /\ <<>> \in Stacks
    BY Onto, EmptyStack DEF Sound
  <2> QED BY <2>1, <2>2
<1>2. CASE observer[r] = "waiting"
  <2> DEFINE f == Frame("observer", r)
  <2>1. Settled(r) = <<f>>
    BY <1>2 DEF Settled
  <2>2. f \in FrameRecord /\ f.op = "observer" /\ f.run = r
    BY FrameIs, RunsAre DEF AllOps, Callbacks
  <2> HIDE DEF f
  <2>3. Stands(f, u, R)
    BY <2>2, OpSets DEF Stands, Plain, AllOps, Callbacks, Waking
  <2> DEFINE t == <<f>> \o u
  <2>4. Over(t, u, R) /\ Sound(t) /\ Pushed(t, f, u)
    BY <2>3, SoundPush
  <2> HIDE DEF t
  <2>5. Over(t, s, R)
    BY <2>4, OverTrans
  <2>6. Runs(t, {"executor"}) = Runs(u, {"executor"})
    <3>1. f.op \notin {"executor"}
      BY <2>2
    <3> QED BY <2>4, <3>1, PushedRuns
  <2>7. Ops(u) \subseteq Ops(t) /\ Batches(t) = Batches(u)
    BY <2>2, <2>4 DEF Pushed
  <2>8. <<f>> \in Stacks
    BY <2>2, Single
  <2> QED BY <2>1, <2>4, <2>5, <2>6, <2>7, <2>8 DEF t
<1> QED BY <1>1, <1>2

\* The executor on top has not stored a hook, and no other call of it is under way.
LEMMA ExecutorTop ==
  ASSUME Core, In("executor")
  PROVE  /\ stack # <<>> /\ Top.op = "executor" /\ Top.run \in RunIds
         /\ status[Top.run] \notin {"new", "queued"} /\ hook[Top.run] = "none"
         /\ Top.run \notin Runs(Below, {"executor"})
         /\ Runs(Below, {"executor"}) \subseteq Runs(stack, {"executor"})
<1>1. stack # <<>> /\ Top.op = "executor"
  BY DEF In, Top
<1>2. Pushed(stack, Top, Below) /\ Once(stack, {"executor"}) /\ Below \in Stacks
  BY <1>1, OnTop
<1>3. Top.run \in RunIds
  BY <1>1, OnTop DEF ForRun, Callbacks
<1>4. Top.op \in {"executor"}
  BY <1>1
<1>5. Top.run \in Runs(stack, {"executor"}) /\ Runs(Below, {"executor"}) \subseteq Runs(stack, {"executor"})
  BY <1>2, <1>4, PushedRuns
<1>6. Top.run \notin Runs(Below, {"executor"})
  BY <1>2, <1>4 DEF Pushed
<1>7. status[Top.run] \notin {"new", "queued"} /\ hook[Top.run] = "none"
  BY <1>5 DEF Core, Placed
<1> QED BY <1>1, <1>3, <1>5, <1>6, <1>7

LEMMA CoreExecutorReturns ==
  ASSUME StateOK, Core, NEW gives \in BOOLEAN, ExecutorReturns(gives)
  PROVE  Core'
<1> DEFINE r == Top.run
<1>1. In("executor")
  BY DEF ExecutorReturns
<1>2. /\ stack # <<>> /\ Top.op = "executor" /\ r \in RunIds
      /\ status[r] \notin {"new", "queued"} /\ hook[r] = "none"
      /\ r \notin Runs(Below, {"executor"})
      /\ Runs(Below, {"executor"}) \subseteq Runs(stack, {"executor"})
      /\ Below \in Stacks
  BY <1>1, ExecutorTop, OnTop
<1>3. Over(stack', stack, {r}) /\ Runs(stack', {"executor"}) = Runs(Below, {"executor"})
  <2>1. CASE gives /\ r \notin active
    <3> DEFINE f == Frame("lateHook", r)
    <3>1. stack' = <<f>> \o Below
      BY <2>1 DEF ExecutorReturns
    <3>2. f \in FrameRecord /\ f.op = "lateHook" /\ f.run = r
      <4>1. "lateHook" \in AllOps
        BY DEF AllOps, Callbacks
      <4>2. Top.run \in RunIds
        BY <1>2
      <4> QED BY <4>1, <4>2, RunFrame
    <3> HIDE DEF f
    <3>3. f.op \in Plain /\ f.op \notin Owing
      BY <3>2, OpSets DEF Plain, AllOps, Callbacks
    <3>4. Over(<<f>> \o Below, stack, {r}) /\ Pushed(<<f>> \o Below, f, Below)
      BY <1>2, <3>2, <3>3, OverReplace
    <3>5. f.op \notin {"executor"}
      BY <3>2
    <3>6. Runs(<<f>> \o Below, {"executor"}) = Runs(Below, {"executor"})
      BY <3>4, <3>5, PushedRuns
    <3> QED BY <3>1, <3>4, <3>6
  <2>2. CASE ~(gives /\ r \notin active)
    <3>1. stack' = <<>> \o Below
      BY <2>2 DEF ExecutorReturns
    <3>2. stack' = Below
      BY <1>2, <3>1, Onto, EmptyStack
    <3> QED BY <1>2, <3>2, OverBelow
  <2> QED BY <2>1, <2>2
<1>4. /\ UNCHANGED <<policy, nextRun, queue, tickets, active, status>>
      /\ hook' = [hook EXCEPT ![r] = IF ~gives THEN @ ELSE IF r \notin active THEN "called" ELSE "live"]
  BY DEF ExecutorReturns
<1> HIDE DEF r
<1>5. \A q \in RunIds : hook'[q] = "live" => q \in active'
  <2>1. \A q \in RunIds : hook[q] = "live" => q \in active
    BY DEF Core, Owned
  <2> QED BY <1>2, <1>4, <2>1 DEF StateOK
<1>6. \A q \in Runs(stack', {"executor"}) : hook'[q] = "none"
  <2>1. \A q \in Runs(stack, {"executor"}) : hook[q] = "none"
    BY DEF Core, Placed
  <2>2. \A q : q # r => hook'[q] = hook[q] \/ q \notin RunIds
    BY <1>4 DEF StateOK
  <2>3. Runs(stack, {"executor"}) \subseteq RunIds
    <3>1. Runs(stack, {"executor"}) \subseteq Runs(stack, ForRun)
      BY RunsPlacing DEF ForRun, Callbacks
    <3> QED BY <3>1 DEF Core, Known
  <2> QED BY <1>2, <1>3, <2>1, <2>2, <2>3
<1>7. \A q \in {r} : q \in RunIds /\ status[q] # "new"
  BY <1>2
<1>8. \A q \in RunIds : status'[q] = status[q] /\ (q \in active => q \in active')
  BY <1>4
<1> QED BY <1>3, <1>4, <1>5, <1>6, <1>7, <1>8, OverEnds

\* What follows an executor's panic.
LEMMA FailedStart ==
  ASSUME Core, ExecutorPanics
  PROVE  LET u == AfterFailedStart \o Below
         IN /\ Sound(u) /\ Over(u, stack, {Top.run})
            /\ stack' = Settled(Top.run) \o u
            /\ Runs(u, {"executor"}) = Runs(Below, {"executor"})
            /\ "startNext" \in Ops(u) /\ Batches(u) = Batches(Below)
<1> DEFINE r  == Top.run
           e  == [Frame("end", 0) EXCEPT !.failed = TRUE]
           sn == Frame("startNext", 0)
           v  == <<e>> \o Below
           u  == <<sn>> \o v
<1>1. /\ stack # <<>> /\ Top.op = "executor" /\ r \in RunIds /\ Below \in Stacks
  BY ExecutorTop, OnTop DEF ExecutorPanics
<1>2. e \in FrameRecord /\ e.op = "end"
  <2>1. Frame("end", 0) \in FrameRecord /\ Frame("end", 0).op = "end"
    BY StepIs, GuardOps
  <2> QED BY <2>1 DEF FrameRecord
<1>3. sn \in FrameRecord /\ sn.op = "startNext" /\ Step("startNext") = <<sn>>
  BY StepIs, GuardOps
<1>4. AfterFailedStart = <<sn>> \o <<e>>
  BY <1>3 DEF AfterFailedStart
<1> HIDE DEF e, sn, r
<1>5. <<e>> \in Stacks /\ <<sn>> \in Stacks
  BY <1>2, <1>3, Single
<1>6. AfterFailedStart \in Stacks
  BY <1>4, <1>5, Onto
<1>7. AfterFailedStart \o Below = u
  <2>1. <<sn>> \o <<e>> \o Below = <<sn>> \o (<<e>> \o Below)
    BY <1>1, Flat2
  <2> QED BY <1>4, <2>1
<1>8. Over(v, stack, {r}) /\ Sound(v) /\ v # <<>> /\ v[1] = e /\ Pushed(v, e, Below)
  <2>1. e.op \in Plain /\ e.op \notin ForRun /\ e.op \notin Owing
    BY <1>2, OpSets, GuardOps DEF Plain, AllOps, Ends, ForRun, Callbacks, Owing
  <2>2. e.op # "cancelActive"
    BY <1>2
  <2> QED BY <1>1, <1>2, <2>1, <2>2, OverReplace
<1> HIDE DEF v
<1>9. Over(u, v, {r}) /\ Sound(u) /\ Pushed(u, sn, v)
  <2>1. Stands(sn, v, {r})
    BY <1>2, <1>3, <1>8, GuardOps DEF Stands, Plain, AllOps, ForRun, Callbacks, Owing
  <2> QED BY <1>8, <2>1, SoundPush
<1> HIDE DEF u
<1>10. Over(u, stack, {r})
  BY <1>8, <1>9, OverTrans
<1>11. stack' = Settled(r) \o u
  <2>1. stack' = Settled(r) \o AfterFailedStart \o Below
    BY DEF ExecutorPanics, r
  <2>2. Settled(r) \in Stacks
    BY <1>1, <1>9, <1>10, SettledOn
  <2> QED BY <1>1, <1>6, <1>7, <2>1, <2>2, Joined
<1>12. Runs(u, {"executor"}) = Runs(Below, {"executor"})
  <2>1. sn.op \notin {"executor"} /\ e.op \notin {"executor"}
    BY <1>2, <1>3
  <2> QED BY <1>8, <1>9, <2>1, PushedRuns
<1>13. "startNext" \in Ops(u) /\ Batches(u) = Batches(Below)
  BY <1>2, <1>3, <1>8, <1>9 DEF Pushed
<1> QED BY <1>7, <1>9, <1>10, <1>11, <1>12, <1>13 DEF r

LEMMA CoreExecutorPanics ==
  ASSUME StateOK, Core, ExecutorPanics
  PROVE  Core'
<1> DEFINE r == Top.run
           u == AfterFailedStart \o Below
<1>1. /\ stack # <<>> /\ r \in RunIds
      /\ status[r] \notin {"new", "queued"} /\ hook[r] = "none"
      /\ r \notin Runs(Below, {"executor"})
      /\ Runs(Below, {"executor"}) \subseteq Runs(stack, {"executor"})
  BY ExecutorTop DEF ExecutorPanics
<1>2. /\ Sound(u) /\ Over(u, stack, {r}) /\ stack' = Settled(r) \o u
      /\ Runs(u, {"executor"}) = Runs(Below, {"executor"})
  BY FailedStart
<1>3. /\ UNCHANGED <<policy, nextRun, queue, tickets, hook>>
      /\ active' = active \ {r} /\ status' = [status EXCEPT ![r] = "cancelled"]
  BY DEF ExecutorPanics
<1> HIDE DEF r, u
<1>4. Over(stack', stack, {r}) /\ Runs(stack', {"executor"}) = Runs(u, {"executor"})
  BY <1>1, <1>2, SettledOn
<1>5. \A q \in RunIds : hook'[q] = "live" => q \in active'
  <2>1. \A q \in RunIds : hook[q] = "live" => q \in active
    BY DEF Core, Owned
  <2> QED BY <1>1, <1>3, <2>1
<1>6. \A q \in Runs(stack', {"executor"}) : hook'[q] = "none"
  <2>1. \A q \in Runs(stack, {"executor"}) : hook[q] = "none"
    BY DEF Core, Placed
  <2> QED BY <1>1, <1>2, <1>3, <1>4, <2>1
<1>7. \A q \in {r} : q \in RunIds /\ status[q] # "new"
  BY <1>1
<1>8. \A q \in RunIds : \/ status'[q] = status[q] /\ (q \in active => q \in active')
                        \/ /\ status'[q] \in Final /\ status[q] \notin {"new", "queued"}
                           /\ q \notin active'
  BY <1>1, <1>3 DEF StateOK, Final
<1> QED BY <1>3, <1>4, <1>5, <1>6, <1>7, <1>8, OverEnds

\* A pump's turn: what is left of its batch, and what follows a run it ends.
LEMMA Delivered ==
  ASSUME Core, Deliver, Top.batch # <<>>
  PROVE  LET g == [Top EXCEPT !.batch = Tail(@)]
             c == Head(Top.batch)
             v == <<g>> \o Below
             u == <<Frame("startNext", 0)>> \o (<<Frame("report", c.run)>> \o v)
         IN /\ Sound(v) /\ Over(v, stack, {c.run}) /\ Pushed(v, g, Below)
            /\ Sound(u) /\ Over(u, stack, {c.run}) /\ "startNext" \in Ops(u)
            /\ Runs(u, {"executor"}) = Runs(stack, {"executor"})
            /\ Batches(u) = Batches(v) /\ Batches(stack) \subseteq Batches(v) \cup {c.run}
            /\ AfterCompletion(c.run) \o v = Settled(c.run) \o u
            /\ c \in Completion /\ c.run \in RunIds /\ c.outcome \in Outcomes
<1> DEFINE g  == [Top EXCEPT !.batch = Tail(@)]
           c  == Head(Top.batch)
           rp == Frame("report", c.run)
           sn == Frame("startNext", 0)
           v  == <<g>> \o Below
           w  == <<rp>> \o v
           u  == <<sn>> \o w
<1>1. /\ stack # <<>> /\ Top.op = "deliver" /\ Top \in FrameRecord /\ Below \in Stacks
      /\ Pushed(stack, Top, Below)
  BY OnTop DEF Deliver, In, Top
<1>2. /\ c \in Completion /\ c.run \in RunIds /\ c.outcome \in Outcomes
      /\ g \in FrameRecord /\ g.op = "deliver"
      /\ TakenIn(Top) \subseteq TakenIn(g) \cup {c.run}
  BY <1>1, BatchHead
<1>3. sn \in FrameRecord /\ sn.op = "startNext" /\ Step("startNext") = <<sn>>
  BY StepIs, GuardOps
<1> HIDE DEF g, c
<1>4. rp \in FrameRecord /\ rp.op = "report" /\ rp.run = c.run
  <2>1. "report" \in AllOps
    BY DEF AllOps, Owing
  <2>2. c.run \in RunIds
    BY <1>2
  <2> QED BY <2>1, <2>2, RunFrame
<1> HIDE DEF sn, rp
<1>5. "deliver" \in Owing /\ "deliver" \in Plain /\ "deliver" \notin ForRun
  BY OpSets DEF Owing, Plain, AllOps, ForRun, Callbacks
<1>6. Sound(Below) /\ Below # <<>> /\ Below[1].op \in Owing \cup Ends
  BY <1>1, <1>5, SoundBelow
<1>7. /\ Over(v, stack, {c.run}) /\ Sound(v) /\ v # <<>> /\ v[1] = g /\ Pushed(v, g, Below)
  <2>1. g.op # "cancelActive"
    BY <1>2
  <2> QED BY <1>1, <1>2, <1>5, <1>6, <2>1, OverReplace
<1> HIDE DEF v
<1>8. Over(w, v, {c.run}) /\ Sound(w) /\ w # <<>> /\ w[1] = rp /\ Pushed(w, rp, v)
  <2>1. Stands(rp, v, {c.run})
    BY <1>2, <1>4, <1>5, <1>7 DEF Stands, Plain, AllOps, Owing
  <2> QED BY <1>7, <2>1, SoundPush
<1>9. <<rp>> \o v \in Stacks
  BY <1>8 DEF Sound
<1> HIDE DEF w
<1>10. Over(u, w, {c.run}) /\ Sound(u) /\ Pushed(u, sn, w)
  <2>1. Stands(sn, w, {c.run})
    BY <1>3, <1>4, <1>8, GuardOps DEF Stands, Plain, AllOps, ForRun, Callbacks, Owing
  <2> QED BY <1>8, <2>1, SoundPush
<1>11. u \in Stacks
  BY <1>10 DEF Sound
<1> HIDE DEF u
<1>12. Over(u, stack, {c.run})
  BY <1>7, <1>8, <1>10, OverTrans
<1>13. Runs(u, {"executor"}) = Runs(stack, {"executor"})
  <2>1. /\ sn.op \notin {"executor"} /\ rp.op \notin {"executor"} /\ g.op \notin {"executor"}
        /\ Top.op \notin {"executor"}
    BY <1>1, <1>2, <1>3, <1>4
  <2> QED BY <1>1, <1>7, <1>8, <1>10, <2>1, PushedRuns
<1>14. "startNext" \in Ops(u) /\ Batches(u) = Batches(v)
  BY <1>3, <1>4, <1>8, <1>10 DEF Pushed
<1>15. Batches(stack) \subseteq Batches(v) \cup {c.run}
  BY <1>1, <1>2, <1>7 DEF Pushed
<1>16. AfterCompletion(c.run) \o v = Settled(c.run) \o u
  <2>1. AfterCompletion(c.run) = Settled(c.run) \o <<sn>> \o <<rp>>
    BY <1>3 DEF AfterCompletion, rp
  <2>2. Settled(c.run) \in Stacks
    BY <1>2, <1>10, <1>12, SettledOn
  <2>3. <<sn>> \in Stacks /\ <<rp>> \in Stacks /\ v \in Stacks
    BY <1>3, <1>4, <1>7, Single DEF Sound
  <2> DEFINE S == Settled(c.run)
  <2> HIDE DEF S
  <2>4. S \o <<sn>> \in Stacks /\ <<sn>> \o <<rp>> \in Stacks /\ S \in Stacks
    BY <2>2, <2>3, Onto DEF S
  <2>5. S \o <<sn>> \o <<rp>> = S \o (<<sn>> \o <<rp>>)
    BY <2>3, <2>4, Joined
  <2>6. S \o (<<sn>> \o <<rp>>) \o v = S \o ((<<sn>> \o <<rp>>) \o v)
    BY <2>3, <2>4, Joined
  <2>7. <<sn>> \o <<rp>> \o v = <<sn>> \o (<<rp>> \o v)
    BY <2>3, Flat2
  <2> QED BY <2>1, <2>5, <2>6, <2>7 DEF S, u, w
<1> QED BY <1>2, <1>7, <1>10, <1>12, <1>13, <1>14, <1>15, <1>16 DEF g, c, v, w, u, sn, rp

LEMMA CoreDeliver ==
  ASSUME StateOK, Core, Deliver
  PROVE  Core'
<1>1. UNCHANGED <<policy, nextRun, queue, tickets>>
  BY DEF Deliver
<1>2. stack # <<>> /\ Top.op = "deliver" /\ Top.op \in Plain
  BY OpSets DEF Deliver, In, Top, Plain, AllOps, Owing
<1>3. CASE Top.batch = <<>>
  <2>1. stack' = Below /\ UNCHANGED <<status, active, hook>>
    BY <1>3 DEF Deliver
  <2>2. Over(stack', stack, {})
    BY <1>2, <2>1, OverBelow
  <2> QED BY <1>1, <2>1, <2>2, OverKeeps
<1>4. CASE Top.batch # <<>>
  <2> DEFINE g == [Top EXCEPT !.batch = Tail(@)]
             c == Head(Top.batch)
             v == <<g>> \o Below
             u == <<Frame("startNext", 0)>> \o (<<Frame("report", c.run)>> \o v)
  <2>1. /\ Sound(v) /\ Over(v, stack, {c.run})
        /\ Sound(u) /\ Over(u, stack, {c.run})
        /\ Runs(u, {"executor"}) = Runs(stack, {"executor"})
        /\ AfterCompletion(c.run) \o v = Settled(c.run) \o u
        /\ c.run \in RunIds /\ c.outcome \in Outcomes
    BY <1>4, Delivered
  <2>2. /\ c.run \notin active => stack' = v /\ UNCHANGED <<status, active, hook>>
        /\ c.run \in active =>
             /\ active' = active \ {c.run}
             /\ status' = [status EXCEPT ![c.run] = c.outcome]
             /\ hook' = [hook EXCEPT ![c.run] = "none"]
             /\ stack' = AfterCompletion(c.run) \o v
    BY <1>4 DEF Deliver
  <2> HIDE DEF c, v, u
  <2> DEFINE r == c.run
  <2>3. r \in RunIds /\ c.outcome \in Final
    BY <2>1 DEF Final
  <2>4. CASE r \notin active
    <3>1. Over(v, stack, {})
      <4>1. Runs(v, ForRun) \subseteq Runs(stack, ForRun)
        <5>1. "deliver" \notin ForRun
          BY OpSets DEF ForRun, Callbacks
        <5>2. Pushed(stack, Top, Below)
          BY <1>2, OnTop
        <5>3. Pushed(v, g, Below) /\ g.op \notin ForRun
          <6>1. Pushed(v, g, Below)
            BY <1>4, Delivered DEF v, c
          <6>2. g.op = "deliver"
            BY <1>2, OnTop DEF FrameRecord
          <6> QED BY <5>1, <6>1, <6>2
        <5> HIDE DEF g
        <5> QED BY <5>2, <5>3, PushedRuns
      <4> QED BY <2>1, <4>1 DEF Over
    <3> QED BY <1>1, <2>2, <2>4, <3>1, OverKeeps
  <2>5. CASE r \in active
    <3>1. Over(stack', stack, {r}) /\ Runs(stack', {"executor"}) = Runs(stack, {"executor"})
      <4>1. r \in {r}
        OBVIOUS
      <4>2. Over(Settled(r) \o u, stack, {r}) /\ Runs(Settled(r) \o u, {"executor"}) = Runs(u, {"executor"})
        BY <2>1, <2>3, <4>1, SettledOn
      <4> QED BY <2>1, <2>2, <2>5, <4>2
    <3>2. status[r] = "running"
      BY <2>5, ActiveKnown
    <3>3. /\ active' = active \ {r} /\ status' = [status EXCEPT ![r] = c.outcome]
          /\ hook' = [hook EXCEPT ![r] = "none"]
      BY <2>2, <2>5
    <3> HIDE DEF r
    <3>4. \A q \in RunIds : hook'[q] = "live" => q \in active'
      <4>1. \A q \in RunIds : hook[q] = "live" => q \in active
        BY DEF Core, Owned
      <4> QED BY <2>3, <3>3, <4>1 DEF StateOK
    <3>5. \A q \in Runs(stack', {"executor"}) : hook'[q] = "none"
      <4>1. \A q \in Runs(stack, {"executor"}) : hook[q] = "none"
        BY DEF Core, Placed
      <4>2. Runs(stack, {"executor"}) \subseteq RunIds
        <5>1. Runs(stack, {"executor"}) \subseteq Runs(stack, ForRun)
          BY RunsPlacing DEF ForRun, Callbacks
        <5> QED BY <5>1 DEF Core, Known
      <4> QED BY <3>1, <3>3, <4>1, <4>2 DEF StateOK
    <3>6. \A q \in {r} : q \in RunIds /\ status[q] # "new"
      BY <2>3, <3>2
    <3>7. \A q \in RunIds : \/ status'[q] = status[q] /\ (q \in active => q \in active')
                            \/ /\ status'[q] \in Final /\ status[q] \notin {"new", "queued"}
                               /\ q \notin active'
      BY <2>3, <3>2, <3>3 DEF StateOK
    <3>8. active' \subseteq active
      BY <3>3
    <3> QED BY <1>1, <3>1, <3>4, <3>5, <3>6, <3>7, <3>8, OverEnds
  <2> QED BY <2>4, <2>5
<1> QED BY <1>3, <1>4

\* The last handle goes with no call in progress.
LEMMA CoreDrop ==
  ASSUME StateOK, Core, Drop
  PROVE  Core'
<1>1. /\ stack = <<>> /\ stack' = <<>> /\ UNCHANGED <<policy, nextRun, tickets>>
      /\ status' = [r \in RunIds |-> IF r \in Dropped THEN "cancelled" ELSE status[r]]
      /\ hook' = [r \in RunIds |-> IF r \in active /\ hook[r] = "live" THEN "called" ELSE hook[r]]
      /\ active' = {} /\ queue' = <<>>
  BY DEF Drop
<1>2. Known /\ Placed /\ Owned /\ tickets \subseteq RunIds
  BY DEF Core, StateOK
<1>3. Dropped \subseteq RunIds /\ \A r \in Dropped : status[r] \notin {"new"}
  BY <1>2 DEF Dropped, Placed, StateOK, Queues, ToSet
<1>4. stack' \in Stacks /\ Framed'
  BY <1>1, EmptyStack DEF Framed
<1>5. Known'
  BY <1>1, <1>2, <1>3, EmptyStack DEF Known
<1>6. Placed'
  BY <1>1, EmptyStack DEF Placed, ToSet
<1>7. Owned'
  BY <1>1, <1>2, EmptyStack DEF Owned, Dropped
<1>8. Prompt'
  BY <1>1, EmptyStack DEF Prompt
<1> QED BY <1>4, <1>5, <1>6, <1>7, <1>8 DEF Core

LEMMA CoreReturn ==
  ASSUME StateOK, Core, Return
  PROVE  Core'
<1> DEFINE r == Top.run
<1>1. /\ stack # <<>> /\ Top.op = "return" /\ r \in RunIds /\ status[r] # "new"
      /\ stack' = Below /\ tickets' = tickets \cup {r}
      /\ UNCHANGED <<policy, nextRun, status, active, hook, queue>>
  BY TopRun DEF Return, ForRun
<1>2. Pushed(stack, Top, Below) /\ Below \in Stacks
  BY <1>1, OnTop
<1>3. Prompt /\ Placed /\ Owned /\ Known /\ Linked(stack)
  BY DEF Core, Framed
<1>4. status[r] # "queued" /\ Returning(Below, status)
  BY <1>1, <1>2, <1>3 DEF Pushed, Prompt
<1>5. /\ \A ops : Runs(Below, ops) \subseteq Runs(stack, ops)
      /\ Runs(Below, {"mark"}) = Runs(stack, {"mark"}) /\ Runs(Below, Placing) = Runs(stack, Placing)
      /\ Runs(Below, {"start"}) = Runs(stack, {"start"}) /\ Late(stack) = Runs(Below, {"start"})
  <2>1. Top.op \notin {"mark"} /\ Top.op \notin Placing /\ Top.op \notin {"start"}
    BY <1>1 DEF Placing
  <2> QED BY <1>2, <2>1, PushedRuns DEF Pushed
<1> HIDE DEF r
<1>6. Late(Below) \subseteq Late(stack) /\ (Starting(Below) => Late(stack) # {})
  <2>1. Late(Below) \subseteq Runs(Below, {"start"}) /\ (Starting(Below) => Runs(Below, {"start"}) # {})
    BY <1>2, StartsWithin
  <2> QED BY <1>5, <2>1
<1>7. Framed'
  BY <1>1, <1>2 DEF Core, Framed, Pushed
<1>8. Known'
  BY <1>1, <1>3, <1>5 DEF Known
<1>9. Placed'
  BY <1>1, <1>3, <1>5 DEF Placed
<1>10. Owned'
  BY <1>1, <1>3, <1>4, <1>5 DEF Owned
<1>11. Prompt'
  <2>1. \A q \in Late(Below) : q \notin tickets \cup {r}
    BY <1>3, <1>4, <1>5, <1>6 DEF Prompt, Placed
  <2>2. policy # "latest" => Late(Below) = {}
    BY <1>3, <1>6 DEF Prompt
  <2>3. policy = "ordered" /\ Starting(Below) => active = {}
    <3>1. policy = "ordered" => policy # "latest"
      OBVIOUS
    <3> QED BY <1>3, <1>6, <3>1 DEF Prompt
  <2> QED BY <1>1, <1>3, <1>4, <2>1, <2>2, <2>3 DEF Prompt
<1> QED BY <1>1, <1>2, <1>7, <1>8, <1>9, <1>10, <1>11 DEF Core

-----------------------------------------------------------------------------
\* The steps that take a run away to mark it cancelled.
LEMMA MarkOn ==
  ASSUME NEW s, Sound(s), s # <<>>, s[1].op \in Owing \cup Ends,
         NEW r \in RunIds, r \notin Runs(s, Placing)
  PROVE  LET t == <<Frame("mark", r)>> \o s
         IN /\ Sound(t) /\ t # <<>>
            /\ Runs(t, {"mark"}) = Runs(s, {"mark"}) \cup {r}
            /\ Runs(t, {"start"}) = Late(s) /\ Late(t) = Late(s)
            /\ Runs(t, {"executor"}) = Runs(s, {"executor"})
            /\ Runs(t, ForRun) = Runs(s, ForRun) \cup {r}
            /\ \A st : Returning(s, st) => Returning(t, st)
            /\ Ops(s) \subseteq Ops(t) /\ Batches(t) = Batches(s)
            /\ t[1].op = "mark"
<1> DEFINE f == Frame("mark", r)
           t == <<f>> \o s
<1>1. f \in FrameRecord /\ f.op = "mark" /\ f.run = r
  <2>1. "mark" \in AllOps
    BY DEF AllOps, Owing
  <2> QED BY <2>1, RunFrame
<1>2. s \in Stacks /\ Linked(s) /\ Once(s, Placing) /\ Once(s, {"executor"})
  BY DEF Sound
<1> HIDE DEF f
<1>3. Pushed(t, f, s) /\ t # <<>> /\ t[1] = f
  BY <1>1, <1>2, Push
<1> HIDE DEF t
<1>4. Sound(t)
  BY <1>1, <1>2, <1>3 DEF Pushed, Sound, Placing
<1>5. /\ Runs(t, {"mark"}) = Runs(s, {"mark"}) \cup {r}
      /\ Runs(t, {"start"}) = Runs(s, {"start"})
      /\ Runs(t, {"executor"}) = Runs(s, {"executor"})
      /\ Runs(t, ForRun) = Runs(s, ForRun) \cup {r}
  <2>1. f.op \in {"mark"} /\ f.op \in ForRun /\ f.op \notin {"start"} /\ f.op \notin {"executor"}
    BY <1>1 DEF ForRun
  <2> QED BY <1>1, <1>3, <2>1, PushedRuns
<1>6. Late(t) = Runs(s, {"start"}) /\ Runs(s, {"start"}) = Late(s)
  BY <1>2, <1>3, StartsWithin DEF Pushed, Sound
<1>7. \A st : Returning(s, st) => Returning(t, st)
  BY <1>1, <1>3 DEF Pushed
<1>8. Ops(s) \subseteq Ops(t) /\ Batches(t) = Batches(s)
  BY <1>1, <1>3 DEF Pushed
<1> QED BY <1>1, <1>3, <1>4, <1>5, <1>6, <1>7, <1>8 DEF f, t

\* A run that waits or runs is neither being marked nor started.
LEMMA NotPlaced ==
  ASSUME Core, NEW r, r \in active \cup ToSet(queue), NEW s, NEW R, Over(s, stack, R)
  PROVE  /\ r \notin Runs(s, Placing) /\ status[r] \in {"running", "queued"}
         /\ status[r] = "running" => r \notin ToSet(queue)
         /\ status[r] = "queued" => r \notin active
<1>1. Placed
  BY DEF Core
<1>2. Runs(s, Placing) = Runs(s, {"start"}) \cup Runs(s, {"mark"})
  BY RunsPlacing
<1>3. Runs(s, {"start"}) \subseteq Runs(stack, {"start"}) /\ Runs(s, {"mark"}) = Runs(stack, {"mark"})
  BY DEF Over
<1>4. /\ status[r] \in {"running", "queued"}
      /\ r \in active => status[r] = "running"
      /\ r \in ToSet(queue) => status[r] = "queued"
  BY <1>1 DEF Placed
<1>5. r \notin Runs(stack, {"mark"})
  BY <1>1 DEF Placed
<1>6. r \notin Runs(stack, {"start"})
  BY <1>1, <1>4 DEF Placed
<1> QED BY <1>2, <1>3, <1>4, <1>5, <1>6

LEMMA OverMarks ==
  ASSUME StateOK, Core, NEW r \in RunIds, r \in active \cup ToSet(queue),
         NEW s, Sound(s), Over(s, stack, {}), s # <<>>, s[1].op \in Owing \cup Ends,
         Sound(stack'), Over(stack', <<Frame("mark", r)>> \o s, {r}),
         UNCHANGED <<policy, nextRun, status, tickets>>,
         active' = active \ {r}, ToSet(queue') = ToSet(queue) \ {r},
         queue = <<>> => queue' = <<>>,
         \A q \in RunIds : hook'[q] = "live" => q \in active',
         \A q \in Runs(stack', {"executor"}) : hook'[q] = "none"
  PROVE  Core'
<1> DEFINE t == <<Frame("mark", r)>> \o s
<1>1. /\ r \notin Runs(s, Placing) /\ status[r] \in {"running", "queued"}
      /\ status[r] = "running" => r \notin ToSet(queue)
      /\ status[r] = "queued" => r \notin active
  BY NotPlaced
<1>2. /\ Sound(t)
      /\ Runs(t, {"mark"}) = Runs(s, {"mark"}) \cup {r}
      /\ Runs(t, {"start"}) = Late(s) /\ Late(t) = Late(s)
      /\ Runs(t, {"executor"}) = Runs(s, {"executor"})
      /\ Runs(t, ForRun) = Runs(s, ForRun) \cup {r}
      /\ \A st : Returning(s, st) => Returning(t, st)
  BY <1>1, MarkOn
<1>3. Over(stack', t, {r})
  OBVIOUS
<1> HIDE DEF t
<1>4. /\ Runs(stack', {"mark"}) = Runs(stack, {"mark"}) \cup {r}
      /\ Runs(stack', {"start"}) \subseteq Late(stack) /\ Runs(stack', {"start"}) \subseteq Runs(stack, {"start"})
      /\ Late(stack') \subseteq Late(stack)
      /\ Runs(stack', {"executor"}) \subseteq Runs(stack, {"executor"})
      /\ Runs(stack', ForRun) \subseteq Runs(stack, ForRun) \cup {r}
      /\ \A st : Returning(stack, st) => Returning(stack', st)
  <2>1. /\ Runs(stack', {"mark"}) = Runs(t, {"mark"}) /\ Runs(s, {"mark"}) = Runs(stack, {"mark"})
        /\ Runs(stack', {"executor"}) \subseteq Runs(t, {"executor"})
        /\ Runs(s, {"executor"}) \subseteq Runs(stack, {"executor"})
    BY <1>3 DEF Over
  <2>2. /\ Runs(stack', {"start"}) \subseteq Runs(t, {"start"})
        /\ Late(stack') \subseteq Late(t) /\ Late(s) \subseteq Late(stack)
    BY <1>3 DEF Over
  <2>3. /\ Runs(stack', ForRun) \subseteq Runs(t, ForRun) \cup {r}
        /\ Runs(s, ForRun) \subseteq Runs(stack, ForRun) \cup {}
    BY <1>3 DEF Over
  <2>4. /\ \A st : Returning(t, st) => Returning(stack', st)
        /\ \A st : Returning(stack, st) => Returning(s, st)
    BY <1>3 DEF Over
  <2>5. Late(stack) \subseteq Runs(stack, {"start"})
    BY StartsWithin DEF Core
  <2> QED BY <1>2, <2>1, <2>2, <2>3, <2>4, <2>5
<1>5. \A q \in Runs(stack, {"start"}) : q \in Runs(stack', {"start"}) \/ q \in Late(stack)
  <2>1. \A q \in Runs(stack, {"start"}) : q \in Runs(s, {"start"}) \/ q \in Late(stack)
    BY DEF Over
  <2>2. Runs(s, {"start"}) = Late(s) /\ Late(s) \subseteq Late(stack)
    BY StartsWithin DEF Sound, Over
  <2> QED BY <2>1, <2>2
<1>6. Known /\ Placed /\ Owned /\ Prompt
  BY DEF Core
<1>7. stack' \in Stacks /\ Framed' /\ ~Starting(stack')
  BY DEF Sound, Framed
<1>8. Known'
  BY <1>1, <1>4, <1>6 DEF Known
<1>9. Placed'
  <2>1. \A q \in active' : status'[q] = "running"
    BY <1>6 DEF Placed
  <2>2. \A q \in ToSet(queue') : status'[q] = "queued"
    BY <1>6 DEF Placed
  <2>3. \A q \in Runs(stack', {"mark"}) : q \notin active' /\ q \notin ToSet(queue')
    BY <1>4, <1>6 DEF Placed
  <2>4. \A q \in Runs(stack', {"start"}) : status'[q] = "queued" /\ q \notin ToSet(queue')
    BY <1>4, <1>6 DEF Placed
  <2>5. \A q \in Runs(stack', {"executor"}) : status'[q] \notin {"new", "queued"} /\ hook'[q] = "none"
    BY <1>4, <1>6 DEF Placed
  <2> QED BY <2>1, <2>2, <2>3, <2>4, <2>5 DEF Placed
<1>10. Owned'
  <2>1. \A q \in RunIds : status'[q] = "running" => q \in active' \/ q \in Runs(stack', {"mark"})
    BY <1>4, <1>6 DEF Owned
  <2>2. ASSUME NEW q \in RunIds, status'[q] = "queued", q \in tickets'
        PROVE  q \in ToSet(queue') \/ q \in Runs(stack', Placing)
    <3>1. q \in ToSet(queue) \/ q \in Runs(stack, Placing)
      BY <1>6, <2>2 DEF Owned
    <3>2. /\ Runs(stack', Placing) = Runs(stack', {"start"}) \cup Runs(stack', {"mark"})
          /\ Runs(stack, Placing) = Runs(stack, {"start"}) \cup Runs(stack, {"mark"})
      BY RunsPlacing
    <3>3. q \notin Late(stack)
      BY <1>6, <2>2 DEF Prompt
    <3> QED BY <1>4, <1>5, <3>1, <3>2, <3>3
  <2> QED BY <2>1, <2>2 DEF Owned
<1>11. Prompt'
  BY <1>4, <1>6, <1>7 DEF Prompt
<1> QED BY <1>7, <1>8, <1>9, <1>10, <1>11 DEF Core

\* hook values that the invariant speaks of.
LEMMA HooksNow ==
  ASSUME StateOK, Core
  PROVE  /\ \A q \in RunIds : hook[q] = "live" => q \in active
         /\ \A q \in Runs(stack, {"executor"}) : hook[q] = "none" /\ q \in RunIds
<1>1. Runs(stack, {"executor"}) \subseteq Runs(stack, ForRun)
  BY RunsPlacing DEF ForRun, Callbacks
<1> QED BY <1>1 DEF Core, Known, Owned, Placed

LEMMA CoreCancelWaiting ==
  ASSUME StateOK, Core, NEW r \in RunIds, CancelWaiting(r)
  PROVE  Core'
<1> DEFINE s == <<Frame("end", 0)>> \o stack
           t == <<Frame("mark", r)>> \o s
<1>1. PICK i \in DOMAIN queue : queue[i] = r /\ queue' = RemoveAt(queue, i)
  BY DEF CancelWaiting
<1>2. ToSet(queue') = ToSet(queue) \ {r} /\ r \in ToSet(queue) /\ queue # <<>>
  <2>1. queue \in Queues
    BY DEF StateOK
  <2> QED BY <1>1, <2>1, QueueRemove
<1>3. status[r] = "queued" /\ r \notin active
  BY <1>2 DEF Core, Placed
<1>4. Sound(stack)
  BY Calling, SoundNow DEF CancelWaiting
<1>5. Over(s, stack, {}) /\ Sound(s) /\ s # <<>> /\ s[1].op \in Owing \cup Ends
      /\ Runs(s, {"executor"}) = Runs(stack, {"executor"})
  <2> DEFINE e == Frame("end", 0)
  <2>1. e \in FrameRecord /\ e.op = "end"
    BY StepIs, GuardOps
  <2> HIDE DEF e
  <2>2. Stands(e, stack, {})
    BY <2>1, OpSets, GuardOps DEF Stands, Plain, AllOps, Ends, ForRun, Callbacks, Owing
  <2>3. /\ Over(<<e>> \o stack, stack, {}) /\ Sound(<<e>> \o stack)
        /\ <<e>> \o stack # <<>> /\ (<<e>> \o stack)[1] = e /\ Pushed(<<e>> \o stack, e, stack)
    BY <1>4, <2>2, SoundPush
  <2>4. e.op \notin {"executor"} /\ e.op \in Ends
    BY <2>1, GuardOps
  <2>5. Runs(<<e>> \o stack, {"executor"}) = Runs(stack, {"executor"})
    BY <2>3, <2>4, PushedRuns
  <2> QED BY <2>3, <2>4, <2>5 DEF e
<1>6. stack' = t
  <2>1. stack' = <<Frame("mark", r)>> \o <<Frame("end", 0)>> \o stack
    BY DEF CancelWaiting, Step
  <2> QED BY <1>4, <2>1, Flat2 DEF Sound
<1> HIDE DEF s
<1>7. r \notin Runs(s, Placing)
  BY <1>2, <1>5, NotPlaced
<1>8. Sound(t) /\ Runs(t, {"executor"}) = Runs(s, {"executor"})
  BY <1>5, <1>7, MarkOn
<1>9. Over(t, t, {r})
  <2> HIDE DEF t
  <2> QED BY <1>8, OverSame
<1>10. UNCHANGED <<policy, nextRun, status, tickets, active, hook>>
  BY DEF CancelWaiting
<1>11. active' = active \ {r}
  BY <1>3, <1>10
<1>12. /\ \A q \in RunIds : hook'[q] = "live" => q \in active'
       /\ \A q \in Runs(stack', {"executor"}) : hook'[q] = "none"
  BY <1>5, <1>6, <1>8, <1>10, HooksNow
<1>13. Over(stack', <<Frame("mark", r)>> \o s, {r}) /\ Sound(stack')
  BY <1>6, <1>8, <1>9
<1> QED BY <1>2, <1>5, <1>10, <1>11, <1>12, <1>13, OverMarks

LEMMA CoreCancelQueued ==
  ASSUME StateOK, Core, CancelQueued
  PROVE  Core'
<1>1. stack # <<>> /\ Top.op = "cancelQueued" /\ Top.op \in Plain /\ Top.op \in Owing
  BY OpSets DEF CancelQueued, In, Top, Plain, AllOps, Owing
<1>2. CASE queue = <<>>
  <2>1. stack' = Below /\ UNCHANGED <<policy, nextRun, status, active, queue, hook, tickets>>
    BY <1>2 DEF CancelQueued
  <2>2. Over(stack', stack, {})
    BY <1>1, <2>1, OverBelow
  <2> QED BY <2>1, <2>2, OverKeeps
<1>3. CASE queue # <<>>
  <2> DEFINE r == Last(queue)
             t == <<Frame("mark", r)>> \o stack
  <2>1. queue \in Queues
    BY DEF StateOK
  <2>2. /\ r \in ToSet(queue) /\ r \in RunIds /\ ToSet(queue') = ToSet(queue) \ {r}
        /\ stack' = t /\ UNCHANGED <<policy, nextRun, status, tickets, active, hook>>
    BY <1>3, <2>1, QueueFront DEF CancelQueued
  <2> HIDE DEF r
  <2>3. status[r] = "queued" /\ r \notin active
    BY <2>2 DEF Core, Placed
  <2>4. Sound(stack) /\ stack[1].op \in Owing \cup Ends
    <3>1. stack[1] = Top /\ stack \in Stacks
      BY <1>1, OnTop DEF Core
    <3> QED BY <1>1, <3>1, SoundNow, OpSets DEF Starting
  <2>5. Over(stack, stack, {})
    BY <2>4, OverSame
  <2>6. r \notin Runs(stack, Placing)
    BY <2>2, <2>5, NotPlaced
  <2>7. Sound(t) /\ Runs(t, {"executor"}) = Runs(stack, {"executor"})
    <3>1. r \in RunIds
      BY <2>2
    <3> QED BY <1>1, <2>4, <2>6, <3>1, MarkOn
  <2>8. Over(t, t, {r})
    <3> HIDE DEF t
    <3> QED BY <2>7, OverSame
  <2>9. active' = active \ {r}
    BY <2>2, <2>3
  <2>10. /\ \A q \in RunIds : hook'[q] = "live" => q \in active'
         /\ \A q \in Runs(stack', {"executor"}) : hook'[q] = "none"
    BY <2>2, <2>7, HooksNow
  <2>11. Over(stack', <<Frame("mark", r)>> \o stack, {r}) /\ Sound(stack')
    BY <2>2, <2>7, <2>8
  <2>12. r \in RunIds /\ r \in active \cup ToSet(queue)
    BY <2>2
  <2> QED BY <1>1, <1>3, <2>2, <2>4, <2>5, <2>9, <2>10, <2>11, <2>12, OverMarks
<1> QED BY <1>2, <1>3

LEMMA CoreCancelActive ==
  ASSUME StateOK, Core, CancelActive
  PROVE  Core'
<1> DEFINE r == Top.run
<1>1. stack # <<>> /\ Top.op = "cancelActive" /\ Top.op \in Plain /\ Top.op \in Owing
      /\ Top.op \in ForRun
  BY OpSets DEF CancelActive, In, Top, Plain, AllOps, Owing, ForRun
<1>2. r \in RunIds
  BY <1>1, OnTop
<1>3. Over(Below, stack, {}) /\ Sound(Below) /\ Below # <<>> /\ Below[1].op \in Owing \cup Ends
  BY <1>1, OverBelow, SoundBelow
<1>4. CASE r \notin active
  <2>1. stack' = Below /\ UNCHANGED <<policy, nextRun, status, active, queue, hook, tickets>>
    BY <1>4 DEF CancelActive
  <2> QED BY <1>3, <2>1, OverKeeps
<1>5. CASE r \in active
  <2> DEFINE t == <<Frame("mark", r)>> \o Below
             f == Frame("hook", r)
  <2>1. /\ active' = active \ {r}
        /\ hook' = [hook EXCEPT ![r] = IF @ = "live" THEN "called" ELSE @]
        /\ stack' = (IF hook[r] = "live" THEN <<f>> ELSE <<>>) \o <<Frame("mark", r)>> \o Below
        /\ UNCHANGED <<policy, nextRun, status, queue, tickets>>
    BY <1>5 DEF CancelActive
  <2>2. r \notin Runs(Below, Placing) /\ status[r] = "running" /\ r \notin ToSet(queue)
    <3>1. status[r] = "running" /\ r \in active \cup ToSet(queue)
      BY <1>5, ActiveKnown
    <3> HIDE DEF r
    <3> QED BY <1>3, <3>1, NotPlaced
  <2>3. f \in FrameRecord /\ f.op = "hook" /\ f.run = r
    <3>1. "hook" \in AllOps /\ Top.run \in RunIds
      BY <1>2 DEF AllOps, Callbacks
    <3> QED BY <3>1, RunFrame
  <2> HIDE DEF f, r
  <2>4. Sound(t) /\ Runs(t, {"executor"}) = Runs(Below, {"executor"})
    BY <1>2, <1>3, <2>2, MarkOn
  <2>5. Below \in Stacks /\ t \in Stacks
    BY <1>3, <2>4 DEF Sound
  <2>6. Over(t, t, {r})
    <3> HIDE DEF t
    <3> QED BY <2>4, OverSame
  <2>7. Over(stack', t, {r}) /\ Sound(stack')
        /\ Runs(stack', {"executor"}) = Runs(Below, {"executor"})
    <3>1. CASE hook[r] = "live"
      <4>1. stack' = <<f>> \o t
        <5>1. stack' = <<f>> \o <<Frame("mark", r)>> \o Below
          BY <2>1, <3>1
        <5> QED BY <2>5, <5>1, Flat2
      <4> HIDE DEF t
      <4>2. Stands(f, t, {r})
        BY <2>3, OpSets DEF Stands, Plain, AllOps, Callbacks, Waking
      <4>3. Over(<<f>> \o t, t, {r}) /\ Sound(<<f>> \o t) /\ Pushed(<<f>> \o t, f, t)
        BY <2>4, <4>2, SoundPush
      <4>4. f.op \notin {"executor"}
        BY <2>3
      <4>5. Runs(<<f>> \o t, {"executor"}) = Runs(t, {"executor"})
        BY <4>3, <4>4, PushedRuns
      <4> QED BY <2>4, <4>1, <4>3, <4>5
    <3>2. CASE hook[r] # "live"
      <4>1. stack' = <<>> \o <<Frame("mark", r)>> \o Below
        BY <2>1, <3>2
      <4>2. <<>> \o <<Frame("mark", r)>> = <<Frame("mark", r)>>
        OBVIOUS
      <4>3. stack' = t
        BY <4>1, <4>2
      <4> QED BY <2>4, <2>6, <4>3
    <3> QED BY <3>1, <3>2
  <2>8. ToSet(queue') = ToSet(queue) \ {r} /\ (queue = <<>> => queue' = <<>>)
    BY <2>1, <2>2
  <2>9. \A q \in RunIds : hook'[q] = "live" => q \in active'
    BY <1>2, <2>1, HooksNow DEF StateOK
  <2>10. \A q \in Runs(stack', {"executor"}) : hook'[q] = "none"
    <3>1. Runs(stack', {"executor"}) \subseteq Runs(stack, {"executor"})
      BY <1>3, <2>7 DEF Over
    <3> QED BY <1>2, <2>1, <3>1, HooksNow DEF StateOK
  <2>11. r \in active \cup ToSet(queue)
    BY <1>5 DEF r
  <2> QED BY <1>2, <1>3, <2>1, <2>7, <2>8, <2>9, <2>10, <2>11, OverMarks
<1> QED BY <1>4, <1>5

\* The run marked is told to its observer, then to on_cancelled.
LEMMA Marking ==
  ASSUME Core, MarkCancelled
  PROVE  /\ Top.run \in RunIds /\ stack # <<>> /\ Top.op = "mark"
         /\ Sound(Below) /\ Over(stack', Below, {Top.run}) /\ Sound(stack')
         /\ Ops(Below) \subseteq Ops(stack') /\ Batches(stack') = Batches(Below)
<1> DEFINE r == Top.run
           f == Frame("tell", r)
           u == <<f>> \o Below
<1>1. stack # <<>> /\ Top.op = "mark" /\ Top.op \in Owing /\ Top.op \in ForRun
  BY DEF MarkCancelled, In, Top, Owing, ForRun
<1>2. r \in RunIds
  BY <1>1, OnTop
<1>3. Sound(Below) /\ Below # <<>> /\ Below[1].op \in Owing \cup Ends
  BY <1>1, SoundBelow
<1>4. f \in FrameRecord /\ f.op = "tell" /\ f.run = r
  <2>1. "tell" \in AllOps /\ Top.run \in RunIds
    BY <1>2 DEF AllOps, Owing
  <2> QED BY <2>1, RunFrame
<1>5. stack' = Settled(r) \o <<f>> \o Below
  BY DEF MarkCancelled
<1> HIDE DEF f, r
<1>6. Over(u, Below, {r}) /\ Sound(u) /\ Pushed(u, f, Below)
  <2>1. Stands(f, Below, {r})
    BY <1>3, <1>4 DEF Stands, Plain, AllOps, Owing
  <2> QED BY <1>3, <2>1, SoundPush
<1>7. /\ Settled(r) \in Stacks /\ Over(Settled(r) \o u, Below, {r}) /\ Sound(Settled(r) \o u)
      /\ Ops(u) \subseteq Ops(Settled(r) \o u) /\ Batches(Settled(r) \o u) = Batches(u)
  <2> HIDE DEF u
  <2>1. r \in {r}
    OBVIOUS
  <2> QED BY <1>2, <1>6, <2>1, SettledOn
<1>8. stack' = Settled(r) \o u
  <2>1. <<f>> \in Stacks /\ Below \in Stacks
    BY <1>3, <1>4, Single DEF Sound
  <2> QED BY <1>5, <1>7, <2>1, Joined
<1>9. Ops(Below) \subseteq Ops(u) /\ Batches(u) = Batches(Below)
  BY <1>4, <1>6 DEF Pushed
<1> QED BY <1>1, <1>2, <1>3, <1>7, <1>8, <1>9 DEF r

LEMMA CoreMarkCancelled ==
  ASSUME StateOK, Core, MarkCancelled
  PROVE  Core'
<1> DEFINE r == Top.run
<1>1. /\ r \in RunIds /\ stack # <<>> /\ Top.op = "mark"
      /\ Sound(Below) /\ Over(stack', Below, {r}) /\ Sound(stack')
  BY Marking
<1>2. Pushed(stack, Top, Below) /\ Once(stack, Placing) /\ status[r] # "new"
  BY <1>1, OnTop DEF ForRun
<1>3. /\ Runs(stack, {"mark"}) = Runs(Below, {"mark"}) \cup {r}
      /\ Runs(stack, {"start"}) = Runs(Below, {"start"}) /\ Late(stack) = Runs(Below, {"start"})
      /\ Runs(stack, {"executor"}) = Runs(Below, {"executor"})
      /\ Runs(stack, ForRun) = Runs(Below, ForRun) \cup {r}
      /\ r \notin Runs(Below, Placing)
  <2>1. Top.op \in {"mark"} /\ Top.op \notin {"start"} /\ Top.op \notin {"executor"}
        /\ Top.op \in ForRun /\ Top.op \in Placing
    BY <1>1 DEF ForRun, Placing
  <2>2. r \notin Runs(Below, Placing) /\ Late(stack) = Runs(Below, {"start"})
    BY <1>2, <2>1 DEF Pushed
  <2> QED BY <1>2, <2>1, <2>2, PushedRuns
<1>4. /\ UNCHANGED <<policy, nextRun, active, hook, queue, tickets>>
      /\ status' = [status EXCEPT ![r] = "cancelled"]
  BY DEF MarkCancelled
<1>5. Returning(Below, status)
  <2>1. Returning(stack, status)
    BY DEF Core, Prompt
  <2> QED BY <1>1, <1>2, <2>1 DEF Pushed
<1> HIDE DEF r
<1>6. /\ Runs(Below, Placing) = Runs(Below, {"start"}) \cup Runs(Below, {"mark"})
      /\ Runs(stack, Placing) = Runs(stack, {"start"}) \cup Runs(stack, {"mark"})
      /\ Runs(stack', Placing) = Runs(stack', {"start"}) \cup Runs(stack', {"mark"})
  BY RunsPlacing
<1>7. /\ Runs(stack', {"mark"}) = Runs(Below, {"mark"})
      /\ Runs(stack', {"start"}) \subseteq Runs(stack, {"start"})
      /\ \A q \in Runs(stack, {"start"}) : q \in Late(stack)
      /\ Late(stack') \subseteq Late(stack)
      /\ Runs(stack', {"executor"}) \subseteq Runs(stack, {"executor"})
      /\ Runs(stack', ForRun) \subseteq Runs(stack, ForRun)
      /\ \A st : Returning(Below, st) => Returning(stack', st)
  <2>1. Late(Below) \subseteq Runs(Below, {"start"})
    BY <1>1, StartsWithin DEF Sound
  <2> QED BY <1>1, <1>3, <2>1 DEF Over
<1>8. Known /\ Placed /\ Owned /\ Prompt
  BY DEF Core
<1>9. r \notin active /\ r \notin ToSet(queue) /\ r \notin Runs(stack, {"start"})
  BY <1>3, <1>6, <1>8 DEF Placed
<1>10. /\ \A q \in RunIds : q # r => status'[q] = status[q]
       /\ status'[r] = "cancelled"
       /\ active \subseteq RunIds /\ ToSet(queue) \subseteq RunIds /\ tickets \subseteq RunIds
       /\ Runs(stack, ForRun) \subseteq RunIds
  BY <1>1, <1>4, <1>8 DEF StateOK, Queues, ToSet, Known
<1>11. /\ Runs(stack, {"start"}) \subseteq Runs(stack, ForRun)
       /\ Runs(stack, {"executor"}) \subseteq Runs(stack, ForRun)
       /\ Runs(stack', {"return"}) \subseteq Runs(stack', ForRun)
  BY RunsPlacing DEF ForRun, Callbacks
<1>12. stack' \in Stacks /\ Framed' /\ ~Starting(stack')
  BY <1>1 DEF Sound, Framed
<1>13. Known'
  BY <1>1, <1>2, <1>4, <1>7, <1>8, <1>10 DEF Known, StateOK
<1>14. Placed'
  <2>1. \A q \in active' : status'[q] = "running"
    BY <1>4, <1>8, <1>9, <1>10 DEF Placed
  <2>2. \A q \in ToSet(queue') : status'[q] = "queued"
    BY <1>4, <1>8, <1>9, <1>10 DEF Placed
  <2>3. \A q \in Runs(stack', {"mark"}) : q \notin active' /\ q \notin ToSet(queue')
    BY <1>3, <1>4, <1>7, <1>8 DEF Placed
  <2>4. \A q \in Runs(stack', {"start"}) : status'[q] = "queued" /\ q \notin ToSet(queue')
    BY <1>4, <1>7, <1>8, <1>9, <1>10, <1>11 DEF Placed
  <2>5. \A q \in Runs(stack', {"executor"}) : status'[q] \notin {"new", "queued"} /\ hook'[q] = "none"
    BY <1>4, <1>7, <1>8, <1>10, <1>11 DEF Placed
  <2> QED BY <2>1, <2>2, <2>3, <2>4, <2>5 DEF Placed
<1>15. Owned'
  <2>1. \A q \in RunIds : status'[q] = "running" => q \in active' \/ q \in Runs(stack', {"mark"})
    BY <1>3, <1>4, <1>7, <1>8, <1>10 DEF Owned
  <2>2. ASSUME NEW q \in RunIds, status'[q] = "queued", q \in tickets'
        PROVE  q \in ToSet(queue') \/ q \in Runs(stack', Placing)
    <3>1. q # r /\ status[q] = "queued" /\ q \in tickets
      BY <1>4, <1>10, <2>2
    <3>2. q \in ToSet(queue) \/ q \in Runs(stack, Placing)
      BY <1>8, <3>1 DEF Owned
    <3>3. q \notin Late(stack)
      BY <1>8, <3>1 DEF Prompt
    <3> QED BY <1>3, <1>4, <1>6, <1>7, <3>1, <3>2, <3>3
  <2>3. \A q \in RunIds : hook'[q] = "live" => q \in active'
    BY <1>4, <1>8 DEF Owned
  <2> QED BY <2>1, <2>2, <2>3 DEF Owned
<1>16. Prompt'
  <2>1. Returning(stack', status')
    <3>1. \A q \in Runs(stack', {"return"}) : status'[q] = "queued" => status[q] = "queued"
      BY <1>7, <1>10, <1>11
    <3>2. Returning(stack', status)
      BY <1>5, <1>7
    <3> QED BY <3>1, <3>2, ReturningThen
  <2> QED BY <1>4, <1>7, <1>8, <1>12, <2>1 DEF Prompt
<1> QED BY <1>12, <1>13, <1>14, <1>15, <1>16 DEF Core

-----------------------------------------------------------------------------
\* The steps that start a run.
LEMMA StartedReturning ==
  ASSUME NEW s \in Stacks, s # <<>>, Head(s).op = "start", NEW st, NEW then, Returning(s, st),
         then[Head(s).run] # "queued",
         \A r \in Runs(Tail(s), {"return"}) : then[r] = "queued" => st[r] = "queued"
  PROVE  Returning(Tail(s), then)
<1> DEFINE t == Tail(s)
           f == Head(s)
<1>1. Consed(s, f, t)
  BY PopIs
<1> HIDE DEF t, f
<1>2. /\ s[1] = f /\ DOMAIN s = 1 .. Len(s) /\ DOMAIN t = 1 .. Len(t)
      /\ Len(t) \in Nat /\ Len(s) = Len(t) + 1 /\ \A i \in DOMAIN t : s[i + 1] = t[i]
  BY <1>1 DEF Consed
<1> SUFFICES ASSUME NEW i \in DOMAIN t, t[i].op = "return", then[t[i].run] = "queued"
             PROVE  i > 1 /\ t[i - 1].op = "start" /\ t[i - 1].run = t[i].run
  BY DEF Returning, t
<1>3. st[t[i].run] = "queued"
  BY DEF Runs, t
<1>4. i + 1 \in DOMAIN s /\ s[i + 1] = t[i] /\ (i + 1) - 1 = i /\ i \in 1 .. Len(t)
  <2>1. i \in 1 .. Len(t) /\ Len(t) \in Nat /\ Len(s) = Len(t) + 1
    BY <1>2
  <2>2. i + 1 \in 1 .. Len(s) /\ (i + 1) - 1 = i
    BY <2>1
  <2> QED BY <1>2, <2>1, <2>2
<1>5. s[i].op = "start" /\ s[i].run = t[i].run
  BY <1>3, <1>4 DEF Returning
<1>6. i # 1
  BY <1>2, <1>5 DEF f
<1>7. i - 1 \in DOMAIN t /\ (i - 1) + 1 = i /\ i > 1
  BY <1>2, <1>4, <1>6
<1>8. s[i] = t[i - 1]
  BY <1>2, <1>7
<1> QED BY <1>5, <1>7, <1>8

\* The start on top, before it is taken.
LEMMA StartTop ==
  ASSUME Core, Start
  PROVE  /\ stack # <<>> /\ Top.op = "start" /\ Top.run \in RunIds
         /\ status[Top.run] = "queued" /\ Top.run \notin ToSet(queue)
         /\ Top.run \notin Runs(Below, Placing) /\ Top.run \notin Runs(Below, {"executor"})
         /\ Runs(stack, {"start"}) = Late(stack) \cup {Top.run}
         /\ Runs(Below, {"start"}) = Late(stack)
         /\ Runs(Below, {"mark"}) = Runs(stack, {"mark"})
         /\ Runs(Below, {"executor"}) = Runs(stack, {"executor"})
         /\ Runs(Below, ForRun) \subseteq Runs(stack, ForRun)
         /\ Pushed(stack, Top, Below) /\ Below \in Stacks /\ Starting(stack)
<1>1. stack # <<>> /\ Top.op = "start"
  BY DEF Start, In, Top
<1>2. Pushed(stack, Top, Below) /\ Below \in Stacks /\ Once(stack, Placing) /\ Top.run \in RunIds
  BY <1>1, OnTop DEF ForRun
<1>3. /\ Top.op \in {"start"} /\ Top.op \in Placing /\ Top.op \notin {"mark"}
      /\ Top.op \notin {"executor"}
  BY <1>1 DEF Placing
<1>4. /\ Runs(stack, {"start"}) = Runs(Below, {"start"}) \cup {Top.run}
      /\ Runs(Below, {"mark"}) = Runs(stack, {"mark"})
      /\ Runs(Below, {"executor"}) = Runs(stack, {"executor"})
      /\ Runs(Below, ForRun) \subseteq Runs(stack, ForRun)
  BY <1>2, <1>3, PushedRuns
<1>5. /\ Runs(Below, {"start"}) = Late(stack) /\ Top.run \notin Runs(Below, Placing)
      /\ Starting(stack)
  BY <1>1, <1>2, <1>3 DEF Pushed
<1>6. status[Top.run] = "queued" /\ Top.run \notin ToSet(queue)
  BY <1>4 DEF Core, Placed
<1>7. Top.run \notin Runs(Below, {"executor"})
  BY <1>4, <1>6 DEF Core, Placed
<1> QED BY <1>1, <1>2, <1>4, <1>5, <1>6, <1>7

LEMMA CoreStart ==
  ASSUME StateOK, Core, Start
  PROVE  Core'
<1> DEFINE r == Top.run
           f == Frame("executor", r)
<1>1. /\ stack # <<>> /\ Top.op = "start" /\ r \in RunIds
      /\ status[r] = "queued" /\ r \notin ToSet(queue)
      /\ r \notin Runs(Below, Placing) /\ r \notin Runs(Below, {"executor"})
      /\ Runs(stack, {"start"}) = Late(stack) \cup {r}
      /\ Runs(Below, {"start"}) = Late(stack)
      /\ Runs(Below, {"mark"}) = Runs(stack, {"mark"})
      /\ Runs(Below, {"executor"}) = Runs(stack, {"executor"})
      /\ Runs(Below, ForRun) \subseteq Runs(stack, ForRun)
      /\ Pushed(stack, Top, Below) /\ Below \in Stacks /\ Starting(stack)
  BY StartTop
<1>2. /\ UNCHANGED <<policy, nextRun, queue, tickets>>
      /\ status' = [status EXCEPT ![r] = "running"] /\ active' = active \cup {r}
      /\ hook' = [hook EXCEPT ![r] = "none"]
      /\ stack' = IF phase = "open" THEN <<f>> \o Below ELSE Panic(Below)
  BY DEF Start
<1>3. Linked(Below) /\ Once(Below, Placing) /\ Once(Below, {"executor"})
  BY <1>1, OnTop
<1>4. f \in FrameRecord /\ f.op = "executor" /\ f.run = r
  <2>1. "executor" \in AllOps /\ Top.run \in RunIds
    BY <1>1 DEF AllOps, Callbacks
  <2> QED BY <2>1, RunFrame
<1>5. Known /\ Placed /\ Owned /\ Prompt /\ stack \in Stacks
  BY DEF Core
<1>6. Returning(stack, status) /\ Below = Tail(stack) /\ Top = Head(stack)
  BY <1>5 DEF Prompt, Below, Top
<1> HIDE DEF f, r
<1>7. /\ stack' \in Stacks /\ Framed'
      /\ Runs(stack', {"mark"}) = Runs(stack, {"mark"})
      /\ Runs(stack', {"start"}) \subseteq Late(stack) /\ Late(stack') \subseteq Late(stack)
      /\ Runs(stack', {"executor"}) \subseteq Runs(stack, {"executor"}) \cup {r}
      /\ Runs(stack', ForRun) \subseteq Runs(stack, ForRun) \cup {r}
      /\ Starting(stack') => Late(stack) # {}
      /\ \A st : Returning(Below, st) => Returning(stack', st)
  <2>1. CASE phase = "open"
    <3> DEFINE t == <<f>> \o Below
    <3>1. Pushed(t, f, Below)
      BY <1>1, <1>4, Push
    <3>2. stack' = t
      BY <1>2, <2>1
    <3> HIDE DEF t
    <3>3. f.op \notin {"mark"} /\ f.op \notin {"start"} /\ f.op \notin Placing /\ f.op \notin Owing
      BY <1>4, OpSets DEF Placing, Callbacks
    <3>4. Linked(t) /\ Once(t, Placing) /\ Once(t, {"executor"}) /\ ~Starting(t) /\ t \in Stacks
      BY <1>1, <1>3, <1>4, <3>1, <3>3 DEF Pushed
    <3>5. /\ Runs(t, {"mark"}) = Runs(Below, {"mark"}) /\ Runs(t, {"start"}) = Runs(Below, {"start"})
          /\ Runs(t, {"executor"}) \subseteq Runs(Below, {"executor"}) \cup {r}
          /\ Runs(t, ForRun) \subseteq Runs(Below, ForRun) \cup {r}
          /\ Late(t) = Runs(Below, {"start"})
      <4>1. /\ Runs(t, {"mark"}) = Runs(Below, {"mark"})
            /\ Runs(t, {"start"}) = Runs(Below, {"start"})
        BY <3>1, <3>3, PushedRuns
      <4>2. /\ Runs(t, {"executor"}) \subseteq Runs(Below, {"executor"}) \cup {r}
            /\ Runs(t, ForRun) \subseteq Runs(Below, ForRun) \cup {r}
        BY <1>4, <3>1 DEF Pushed
      <4>3. Late(t) = Runs(Below, {"start"})
        BY <3>1 DEF Pushed
      <4> QED BY <4>1, <4>2, <4>3
    <3>6. \A st : Returning(Below, st) => Returning(t, st)
      BY <1>4, <3>1 DEF Pushed
    <3>7. Framed'
      BY <3>2, <3>4 DEF Framed
    <3> QED BY <1>1, <3>2, <3>4, <3>5, <3>6, <3>7
  <2>2. CASE phase # "open"
    <3> DEFINE t == Panic(Below)
    <3>1. Leaves(t, Below)
      BY <1>1, <1>3, PanicLeaves
    <3>2. stack' = t
      BY <1>2, <2>2
    <3> HIDE DEF t
    <3>3. {"mark"} \subseteq Owing
      BY DEF Owing
    <3>4. Linked(t) /\ Once(t, Placing) /\ Once(t, {"executor"}) /\ t \in Stacks
      BY <1>3, <3>1 DEF Leaves
    <3>5. /\ Runs(t, {"mark"}) = Runs(Below, {"mark"})
          /\ Runs(t, {"start"}) \subseteq Runs(Below, {"start"})
          /\ Runs(t, {"executor"}) \subseteq Runs(Below, {"executor"})
          /\ Runs(t, ForRun) \subseteq Runs(Below, ForRun)
          /\ Late(t) \subseteq Late(Below) /\ (Starting(t) => Starting(Below))
      BY <3>1, <3>3 DEF Leaves
    <3>6. Late(Below) \subseteq Runs(Below, {"start"}) /\ (Starting(Below) => Runs(Below, {"start"}) # {})
      BY <1>1, StartsWithin
    <3>7. \A st : Returning(Below, st) => Returning(t, st)
      BY <3>1 DEF Leaves
    <3>8. Framed'
      BY <3>2, <3>4 DEF Framed
    <3> QED BY <1>1, <3>2, <3>4, <3>5, <3>6, <3>7, <3>8
  <2> QED BY <2>1, <2>2
<1>8. /\ \A q \in RunIds : q # r => status'[q] = status[q] /\ hook'[q] = hook[q]
      /\ status'[r] = "running" /\ hook'[r] = "none"
      /\ active \subseteq RunIds /\ ToSet(queue) \subseteq RunIds /\ tickets \subseteq RunIds
      /\ Runs(stack, ForRun) \subseteq RunIds
  BY <1>1, <1>2, <1>5 DEF StateOK, Queues, ToSet, Known
<1>9. /\ Runs(stack, {"start"}) \subseteq Runs(stack, ForRun)
      /\ Runs(stack, {"mark"}) \subseteq Runs(stack, ForRun)
      /\ Runs(stack, {"executor"}) \subseteq Runs(stack, ForRun)
      /\ Runs(Below, {"return"}) \subseteq Runs(Below, ForRun)
  BY RunsPlacing DEF ForRun, Callbacks
<1>10. /\ Runs(Below, Placing) = Runs(Below, {"start"}) \cup Runs(Below, {"mark"})
       /\ Runs(stack, Placing) = Runs(stack, {"start"}) \cup Runs(stack, {"mark"})
       /\ Runs(stack', Placing) = Runs(stack', {"start"}) \cup Runs(stack', {"mark"})
  BY RunsPlacing
<1>11. Known'
  BY <1>1, <1>2, <1>5, <1>7, <1>8 DEF Known, StateOK
<1>12. Placed'
  <2>1. \A q \in active' : status'[q] = "running"
    BY <1>2, <1>5, <1>8 DEF Placed
  <2>2. \A q \in ToSet(queue') : status'[q] = "queued"
    BY <1>1, <1>2, <1>5, <1>8 DEF Placed
  <2>3. \A q \in Runs(stack', {"mark"}) : q \notin active' /\ q \notin ToSet(queue')
    BY <1>1, <1>2, <1>5, <1>7, <1>10 DEF Placed
  <2>4. \A q \in Runs(stack', {"start"}) : status'[q] = "queued" /\ q \notin ToSet(queue')
    BY <1>1, <1>2, <1>5, <1>7, <1>8, <1>9, <1>10 DEF Placed
  <2>5. \A q \in Runs(stack', {"executor"}) : status'[q] \notin {"new", "queued"} /\ hook'[q] = "none"
    BY <1>1, <1>5, <1>7, <1>8, <1>9 DEF Placed
  <2> QED BY <2>1, <2>2, <2>3, <2>4, <2>5 DEF Placed
<1>13. Owned'
  <2>1. \A q \in RunIds : status'[q] = "running" => q \in active' \/ q \in Runs(stack', {"mark"})
    BY <1>2, <1>5, <1>7, <1>8 DEF Owned
  <2>2. ASSUME NEW q \in RunIds, status'[q] = "queued", q \in tickets'
        PROVE  q \in ToSet(queue') \/ q \in Runs(stack', Placing)
    <3>1. q # r /\ status[q] = "queued" /\ q \in tickets
      BY <1>2, <1>8, <2>2
    <3>2. q \in ToSet(queue) \/ q \in Runs(stack, Placing)
      BY <1>5, <3>1 DEF Owned
    <3>3. q \notin Late(stack)
      BY <1>5, <3>1 DEF Prompt
    <3> QED BY <1>1, <1>2, <1>7, <1>10, <3>1, <3>2, <3>3
  <2>3. \A q \in RunIds : hook'[q] = "live" => q \in active'
    BY <1>2, <1>5, <1>8 DEF Owned
  <2> QED BY <2>1, <2>2, <2>3 DEF Owned
<1>14. Prompt'
  <2>1. Returning(Below, status')
    <3>1. \A q \in Runs(Below, {"return"}) : status'[q] = "queued" => status[q] = "queued"
      BY <1>1, <1>8, <1>9
    <3>2. Head(stack).op = "start" /\ status'[Head(stack).run] # "queued"
      BY <1>1, <1>6, <1>8 DEF r
    <3> QED BY <1>1, <1>5, <1>6, <3>1, <3>2, StartedReturning
  <2>2. Returning(stack', status')
    BY <1>7, <2>1
  <2>3. \A q \in Late(stack') : q \notin tickets'
    BY <1>2, <1>5, <1>7 DEF Prompt
  <2>4. policy' # "latest" => Late(stack') = {}
    BY <1>2, <1>5, <1>7 DEF Prompt
  <2>5. policy' = "ordered" => ~Starting(stack') /\ \A a, b \in active' : a = b
    <3>1. SUFFICES ASSUME policy = "ordered" PROVE ~Starting(stack') /\ active = {}
      BY <1>2
    <3>2. Late(stack) = {}
      BY <1>5, <3>1 DEF Prompt
    <3> QED BY <1>1, <1>5, <1>7, <3>1, <3>2 DEF Prompt
  <2>6. policy' # "ordered" => queue' = <<>>
    BY <1>2, <1>5 DEF Prompt
  <2> QED BY <2>2, <2>3, <2>4, <2>5, <2>6 DEF Prompt
<1> QED BY <1>7, <1>11, <1>12, <1>13, <1>14 DEF Core

\* A start on top of what follows it.
LEMMA StartOn ==
  ASSUME NEW s \in Stacks, Linked(s), Once(s, Placing), Once(s, {"executor"}),
         NEW n \in RunIds, n \notin Runs(s, Placing)
  PROVE  LET t == <<Frame("start", n)>> \o s
         IN /\ t \in Stacks /\ t # <<>> /\ Starting(t)
            /\ Linked(t) /\ Once(t, Placing) /\ Once(t, {"executor"})
            /\ Runs(t, {"mark"}) = Runs(s, {"mark"}) /\ Runs(t, {"executor"}) = Runs(s, {"executor"})
            /\ Runs(t, {"start"}) = Runs(s, {"start"}) \cup {n}
            /\ Runs(t, ForRun) = Runs(s, ForRun) \cup {n}
            /\ Late(t) = Runs(s, {"start"})
            /\ \A st : Returning(s, st) => Returning(t, st)
            /\ Ops(s) \subseteq Ops(t) /\ Batches(t) = Batches(s)
<1> DEFINE f == Frame("start", n)
           t == <<f>> \o s
<1>1. f \in FrameRecord /\ f.op = "start" /\ f.run = n
  <2>1. "start" \in AllOps
    BY DEF AllOps
  <2> QED BY <2>1, RunFrame
<1> HIDE DEF f
<1>2. Pushed(t, f, s)
  BY <1>1, Push
<1> HIDE DEF t
<1>3. /\ f.op \in {"start"} /\ f.op \notin {"mark"} /\ f.op \notin {"executor"} /\ f.op \in ForRun
      /\ f.op \notin Owing
  BY <1>1, OpSets DEF ForRun
<1>4. /\ t \in Stacks /\ t # <<>> /\ Starting(t)
      /\ Linked(t) /\ Once(t, Placing) /\ Once(t, {"executor"})
      /\ Late(t) = Runs(s, {"start"})
      /\ Ops(s) \subseteq Ops(t) /\ Batches(t) = Batches(s)
  BY <1>1, <1>2, <1>3 DEF Pushed
<1>5. /\ Runs(t, {"mark"}) = Runs(s, {"mark"}) /\ Runs(t, {"executor"}) = Runs(s, {"executor"})
      /\ Runs(t, {"start"}) = Runs(s, {"start"}) \cup {n}
      /\ Runs(t, ForRun) = Runs(s, ForRun) \cup {n}
  BY <1>1, <1>2, <1>3, PushedRuns
<1>6. \A st : Returning(s, st) => Returning(t, st)
  BY <1>1, <1>2 DEF Pushed
<1> QED BY <1>4, <1>5, <1>6 DEF t, f

\* run's start and the return of its ticket, on top of the caller.
LEMMA PairIs ==
  ASSUME NEW a \in FrameRecord, NEW b \in FrameRecord, NEW s \in Stacks
  PROVE  LET t == <<a, b>> \o s
         IN /\ t = <<a>> \o (<<b>> \o s) /\ Len(t) = Len(s) + 2 /\ Len(s) \in Nat
            /\ DOMAIN t = 1 .. Len(t) /\ DOMAIN s = 1 .. Len(s)
            /\ t[1] = a /\ t[2] = b /\ \A i \in DOMAIN s : t[i + 2] = s[i]
<1> DEFINE p == <<a, b>>
           q == <<a>> \o <<b>>
           t == p \o s
<1>1. p \in Stacks /\ Len(p) = 2 /\ p[1] = a /\ p[2] = b
  BY DEF Stacks
<1>2. q \in Stacks /\ Len(q) = 2 /\ q[1] = a /\ q[2] = b
  BY DEF Stacks
<1>3. (<<a>> \o <<b>>) \o s = <<a>> \o (<<b>> \o s)
  BY Flat2
<1> HIDE DEF p, q
<1>4. p = q
  <2>1. \A i \in 1 .. 2 : i = 1 \/ i = 2
    OBVIOUS
  <2>2. \A i \in 1 .. Len(p) : p[i] = q[i]
    BY <1>1, <1>2, <2>1
  <2>3. p \in Seq(FrameRecord) /\ q \in Seq(FrameRecord)
    BY <1>1, <1>2 DEF Stacks
  <2> QED BY <1>1, <1>2, <2>2, <2>3, SeqEqual
<1>5. t = <<a>> \o (<<b>> \o s)
  BY <1>3, <1>4 DEF q
<1>6. /\ t \in Seq(FrameRecord) /\ Len(t) = 2 + Len(s)
      /\ \A i \in 1 .. 2 + Len(s) : t[i] = IF i <= 2 THEN p[i] ELSE s[i - 2]
  <2>1. p \in Seq(FrameRecord) /\ s \in Seq(FrameRecord)
    BY <1>1 DEF Stacks
  <2>2. /\ t \in Seq(FrameRecord) /\ Len(t) = Len(p) + Len(s)
        /\ \A i \in 1 .. Len(p) + Len(s) : t[i] = IF i <= Len(p) THEN p[i] ELSE s[i - Len(p)]
    BY <2>1, ConcatProperties
  <2>3. Len(p) = 2
    BY <1>1
  <2> HIDE DEF t
  <2> QED BY <2>2, <2>3
<1>7. Len(s) \in Nat /\ DOMAIN s = 1 .. Len(s) /\ DOMAIN t = 1 .. Len(t)
  BY <1>6 DEF Stacks
<1> HIDE DEF t
<1>8. t[1] = a /\ t[2] = b
  BY <1>1, <1>6, <1>7
<1>9. \A i \in DOMAIN s : t[i + 2] = s[i]
  BY <1>6, <1>7
<1>10. Len(t) = Len(s) + 2
  BY <1>6, <1>7
<1> QED BY <1>5, <1>7, <1>8, <1>9, <1>10 DEF t, p

LEMMA PairReturning ==
  ASSUME NEW a \in FrameRecord, NEW b \in FrameRecord, NEW s \in Stacks, NEW st,
         a.op = "start", b.op = "return", a.run = b.run, Returning(s, st)
  PROVE  Returning(<<a, b>> \o s, st)
<1> DEFINE t == <<a, b>> \o s
<1>1. /\ Len(t) = Len(s) + 2 /\ Len(s) \in Nat
      /\ DOMAIN t = 1 .. Len(t) /\ DOMAIN s = 1 .. Len(s)
      /\ t[1] = a /\ t[2] = b /\ \A i \in DOMAIN s : t[i + 2] = s[i]
  BY PairIs
<1> HIDE DEF t
<1> SUFFICES ASSUME NEW i \in DOMAIN t, t[i].op = "return", st[t[i].run] = "queued"
             PROVE  i > 1 /\ t[i - 1].op = "start" /\ t[i - 1].run = t[i].run
  BY DEF Returning, t
<1>2. i \in 1 .. Len(t) /\ Len(t) \in Nat /\ Len(s) \in Nat /\ Len(t) = Len(s) + 2
  BY <1>1
<1>3. CASE i = 1
  BY <1>1, <1>3
<1>4. CASE i = 2
  BY <1>1, <1>4
<1>5. CASE i # 1 /\ i # 2
  <2>1. i - 2 \in 1 .. Len(s) /\ (i - 2) + 2 = i
    BY <1>2, <1>5
  <2>2. t[i] = s[i - 2]
    BY <1>1, <2>1
  <2>3. i - 2 > 1 /\ s[(i - 2) - 1].op = "start" /\ s[(i - 2) - 1].run = s[i - 2].run
    BY <1>1, <2>1, <2>2 DEF Returning
  <2>4. (i - 2) - 1 \in 1 .. Len(s) /\ ((i - 2) - 1) + 2 = i - 1 /\ i > 1
    BY <1>2, <2>3
  <2>5. t[i - 1] = s[(i - 2) - 1]
    BY <1>1, <2>4
  <2> QED BY <2>2, <2>3, <2>4, <2>5
<1> QED BY <1>3, <1>4, <1>5

LEMMA StartReturn ==
  ASSUME NEW s, Sound(s), NEW n \in RunIds, n \notin Runs(s, Placing)
  PROVE  LET t == <<Frame("start", n), Frame("return", n)>> \o s
         IN /\ t \in Stacks /\ t # <<>> /\ Starting(t)
            /\ Linked(t) /\ Once(t, Placing) /\ Once(t, {"executor"})
            /\ Runs(t, {"mark"}) = Runs(s, {"mark"}) /\ Runs(t, {"executor"}) = Runs(s, {"executor"})
            /\ Runs(t, {"start"}) = Runs(s, {"start"}) \cup {n}
            /\ Runs(t, ForRun) = Runs(s, ForRun) \cup {n}
            /\ Late(t) = Late(s) /\ Runs(s, {"start"}) = Late(s)
            /\ \A st : Returning(s, st) => Returning(t, st)
            /\ Ops(s) \subseteq Ops(t) /\ Batches(t) = Batches(s)
<1> DEFINE a == Frame("start", n)
           b == Frame("return", n)
           u == <<b>> \o s
           t == <<a, b>> \o s
<1>1. /\ a \in FrameRecord /\ a.op = "start" /\ a.run = n
      /\ b \in FrameRecord /\ b.op = "return" /\ b.run = n
  <2>1. "start" \in AllOps /\ "return" \in AllOps
    BY DEF AllOps
  <2> QED BY <2>1, RunFrame
<1>2. s \in Stacks /\ Linked(s) /\ Once(s, Placing) /\ Once(s, {"executor"}) /\ ~Starting(s)
  BY DEF Sound
<1> HIDE DEF b
<1>3. Pushed(u, b, s) /\ u \in Stacks
  BY <1>1, <1>2, Push
<1> HIDE DEF u
<1>4. /\ b.op \notin {"start"} /\ b.op \notin {"mark"} /\ b.op \notin {"executor"} /\ b.op \in ForRun
      /\ b.op \notin Owing /\ b.op \notin Placing
  BY <1>1, OpSets DEF ForRun, Placing
<1>5. /\ Linked(u) /\ Once(u, Placing) /\ Once(u, {"executor"})
      /\ Ops(s) \subseteq Ops(u) /\ Batches(u) = Batches(s)
  BY <1>1, <1>2, <1>3, <1>4 DEF Pushed
<1>6. /\ Runs(u, {"mark"}) = Runs(s, {"mark"}) /\ Runs(u, {"executor"}) = Runs(s, {"executor"})
      /\ Runs(u, {"start"}) = Runs(s, {"start"}) /\ Runs(u, Placing) = Runs(s, Placing)
      /\ Runs(u, ForRun) = Runs(s, ForRun) \cup {n}
  BY <1>1, <1>3, <1>4, PushedRuns
<1>7. Runs(s, {"start"}) = Late(s)
  BY <1>2, StartsWithin
<1>8. t = <<a>> \o u
  <2> HIDE DEF a
  <2> QED BY <1>1, <1>2, PairIs DEF u
<1>9. LET v == <<a>> \o u
      IN /\ v \in Stacks /\ v # <<>> /\ Starting(v)
         /\ Linked(v) /\ Once(v, Placing) /\ Once(v, {"executor"})
         /\ Runs(v, {"mark"}) = Runs(u, {"mark"}) /\ Runs(v, {"executor"}) = Runs(u, {"executor"})
         /\ Runs(v, {"start"}) = Runs(u, {"start"}) \cup {n}
         /\ Runs(v, ForRun) = Runs(u, ForRun) \cup {n}
         /\ Late(v) = Runs(u, {"start"})
         /\ Ops(u) \subseteq Ops(v) /\ Batches(v) = Batches(u)
  BY <1>3, <1>5, <1>6, StartOn
<1> HIDE DEF a
<1>10. \A st : Returning(s, st) => Returning(t, st)
  BY <1>1, <1>2, PairReturning
<1> HIDE DEF t
<1> QED BY <1>5, <1>6, <1>7, <1>8, <1>9, <1>10 DEF t, a, b

\* A caught look at the queue, on top of any stack.
LEMMA GuardOn ==
  ASSUME NEW s \in Stacks, Linked(s), Once(s, Placing), Once(s, {"executor"})
  PROVE  LET t == Step("cancelQueued") \o Step("end") \o s
         IN /\ Sound(t) /\ t # <<>> /\ t[1].op \in Waking
            /\ \A ops \in {{"mark"}, {"executor"}, {"start"}, ForRun} : Runs(t, ops) = Runs(s, ops)
            /\ Late(t) = Runs(s, {"start"})
            /\ \A st : Returning(s, st) => Returning(t, st)
            /\ Batches(t) = Batches(s) /\ "cancelQueued" \in Ops(t)
<1> DEFINE f == Frame("cancelQueued", 0)
           e == Frame("end", 0)
           u == <<e>> \o s
           t == <<f>> \o u
<1>1. /\ f \in FrameRecord /\ f.op = "cancelQueued" /\ Step("cancelQueued") = <<f>>
      /\ e \in FrameRecord /\ e.op = "end" /\ Step("end") = <<e>>
  BY StepIs, GuardOps
<1> HIDE DEF f, e
<1>2. Step("cancelQueued") \o Step("end") \o s = t
  <2>1. <<f>> \o <<e>> \o s = <<f>> \o (<<e>> \o s)
    BY Flat2
  <2> QED BY <1>1, <2>1
<1>3. Pushed(u, e, s) /\ u \in Stacks /\ u # <<>> /\ u[1] = e
  BY <1>1, Push
<1> HIDE DEF u
<1>4. Pushed(t, f, u) /\ t # <<>> /\ t[1] = f
  BY <1>1, <1>3, Push
<1> HIDE DEF t
<1>5. /\ e.op \in Ends /\ e.op \notin Owing /\ e.op \notin Placing /\ f.op \notin Placing
      /\ f.op \in Waking
  BY <1>1, OpSets, GuardOps DEF Placing
<1>6. /\ Linked(u) /\ Once(u, Placing) /\ Once(u, {"executor"}) /\ Batches(u) = Batches(s)
  BY <1>1, <1>3, <1>5 DEF Pushed
<1>7. Sound(t) /\ Batches(t) = Batches(s) /\ "cancelQueued" \in Ops(t) /\ Late(t) = Runs(u, {"start"})
  BY <1>1, <1>3, <1>4, <1>5, <1>6 DEF Pushed, Sound
<1>8. ASSUME NEW ops \in {{"mark"}, {"executor"}, {"start"}, ForRun}
      PROVE  Runs(t, ops) = Runs(s, ops) /\ Runs(u, ops) = Runs(s, ops)
  <2>1. e.op \notin ops /\ f.op \notin ops
    BY <1>1 DEF ForRun, Callbacks
  <2> QED BY <1>3, <1>4, <2>1, PushedRuns
<1>9. \A st : Returning(s, st) => Returning(t, st)
  BY <1>1, <1>3, <1>4 DEF Pushed
<1>10. {"start"} \in {{"mark"}, {"executor"}, {"start"}, ForRun}
  OBVIOUS
<1>11. Late(t) = Runs(s, {"start"})
  BY <1>7, <1>8, <1>10
<1> QED BY <1>2, <1>4, <1>5, <1>7, <1>8, <1>9, <1>11

LEMMA CoreStartNext ==
  ASSUME StateOK, Core, StartNext
  PROVE  Core'
<1>1. stack # <<>> /\ Top.op = "startNext" /\ Top.op \in Plain /\ Top.op \in Owing
  BY OpSets DEF StartNext, In, Top, Plain, AllOps, Owing
<1>2. Over(Below, stack, {}) /\ Sound(Below)
  BY <1>1, OverBelow, SoundBelow
<1>3. CASE ~CanStartNext
  <2>1. stack' = Below /\ UNCHANGED <<policy, nextRun, status, active, queue, hook, tickets>>
    BY <1>3 DEF StartNext
  <2> QED BY <1>2, <2>1, OverKeeps
<1>4. CASE CanStartNext
  <2> DEFINE r == Head(queue)
             t == <<Frame("start", r)>> \o Below
  <2>1. /\ policy = "ordered" /\ active = {} /\ queue # <<>> /\ queue \in Queues
        /\ queue' = Tail(queue) /\ stack' = t
        /\ UNCHANGED <<policy, nextRun, status, active, hook, tickets>>
    BY <1>4 DEF StartNext, CanStartNext, StateOK
  <2>2. ToSet(queue') = ToSet(queue) \ {r} /\ r \in ToSet(queue) /\ r \in RunIds
    BY <2>1, QueueTail
  <2> HIDE DEF r
  <2>3. Known /\ Placed /\ Owned /\ Prompt /\ stack \in Stacks
    BY DEF Core
  <2>4. status[r] = "queued" /\ r \notin Runs(Below, Placing)
    <3>1. r \in active \cup ToSet(queue)
      BY <2>2
    <3>2. r \notin Runs(Below, Placing)
      BY <1>2, <3>1, NotPlaced
    <3> QED BY <2>2, <2>3, <3>2 DEF Placed
  <2>5. /\ t \in Stacks /\ Starting(t)
        /\ Linked(t) /\ Once(t, Placing) /\ Once(t, {"executor"})
        /\ Runs(t, {"mark"}) = Runs(Below, {"mark"}) /\ Runs(t, {"executor"}) = Runs(Below, {"executor"})
        /\ Runs(t, {"start"}) = Runs(Below, {"start"}) \cup {r}
        /\ Runs(t, ForRun) = Runs(Below, ForRun) \cup {r}
        /\ Late(t) = Runs(Below, {"start"})
        /\ \A st : Returning(Below, st) => Returning(t, st)
    <3>1. r \in RunIds
      BY <2>2
    <3> QED BY <1>2, <2>4, <3>1, StartOn DEF Sound
  <2>6. /\ Runs(Below, {"mark"}) = Runs(stack, {"mark"})
        /\ Runs(Below, {"executor"}) \subseteq Runs(stack, {"executor"})
        /\ Runs(Below, ForRun) \subseteq Runs(stack, ForRun)
        /\ \A st : Returning(stack, st) => Returning(Below, st)
        /\ Late(stack) = {} /\ Runs(Below, {"start"}) = {} /\ Runs(stack, {"start"}) = {}
    <3>1. /\ Runs(Below, {"mark"}) = Runs(stack, {"mark"})
          /\ Runs(Below, {"executor"}) \subseteq Runs(stack, {"executor"})
          /\ Runs(Below, ForRun) \subseteq Runs(stack, ForRun) \cup {}
          /\ \A st : Returning(stack, st) => Returning(Below, st)
      BY <1>2 DEF Over
    <3>2. Late(stack) = {}
      BY <2>1, <2>3 DEF Prompt
    <3>3. Runs(Below, {"start"}) = {} /\ Runs(stack, {"start"}) = {}
      <4>1. Runs(Below, {"start"}) = Late(stack)
        BY <1>1, OverBelow
      <4>2. \A q \in Runs(stack, {"start"}) : q \in Runs(Below, {"start"}) \/ q \in Late(stack)
        BY <1>2 DEF Over
      <4> QED BY <3>2, <4>1, <4>2
    <3> QED BY <3>1, <3>2, <3>3
  <2> HIDE DEF t
  <2>7. Framed' /\ stack' \in Stacks
    BY <2>1, <2>5 DEF Framed
  <2>8. Known'
    <3>1. status[r] # "new"
      BY <2>4
    <3> QED BY <2>1, <2>2, <2>3, <2>5, <2>6, <3>1 DEF Known
  <2>9. Placed'
    <3>1. \A q \in Runs(stack', {"mark"}) : q \notin active' /\ q \notin ToSet(queue')
      BY <2>1, <2>2, <2>3, <2>5, <2>6 DEF Placed
    <3>2. \A q \in Runs(stack', {"start"}) : status'[q] = "queued" /\ q \notin ToSet(queue')
      BY <2>1, <2>2, <2>4, <2>5, <2>6
    <3>3. \A q \in Runs(stack', {"executor"}) : status'[q] \notin {"new", "queued"} /\ hook'[q] = "none"
      BY <2>1, <2>3, <2>5, <2>6 DEF Placed
    <3>4. \A q \in ToSet(queue') : status'[q] = "queued"
      BY <2>1, <2>2, <2>3 DEF Placed
    <3>5. \A q \in active' : status'[q] = "running"
      BY <2>1
    <3> QED BY <3>1, <3>2, <3>3, <3>4, <3>5 DEF Placed
  <2>10. Owned'
    <3>1. /\ Runs(stack', Placing) = Runs(stack', {"start"}) \cup Runs(stack', {"mark"})
          /\ Runs(stack, Placing) = Runs(stack, {"start"}) \cup Runs(stack, {"mark"})
      BY RunsPlacing
    <3> QED BY <2>1, <2>2, <2>3, <2>5, <2>6, <3>1 DEF Owned
  <2>11. Prompt'
    BY <2>1, <2>3, <2>5, <2>6 DEF Prompt
  <2> QED BY <2>7, <2>8, <2>9, <2>10, <2>11 DEF Core
<1> QED BY <1>3, <1>4

\* The stack a new run leaves: its start and the return of its ticket, for
\* LatestOnly under the cancellations of what is active.
Entered(t, s, n, ids) ==
  /\ t \in Stacks /\ Linked(t) /\ Once(t, Placing) /\ Once(t, {"executor"})
  /\ Runs(t, {"mark"}) = Runs(s, {"mark"}) /\ Runs(t, {"executor"}) = Runs(s, {"executor"})
  /\ Runs(t, {"start"}) = Late(s) \cup {n} /\ Runs(s, {"start"}) = Late(s)
  /\ Runs(t, ForRun) \subseteq Runs(s, ForRun) \cup {n} \cup ids
  /\ Late(t) \subseteq Late(s) \cup {n}
  /\ \A st : Returning(s, st) => Returning(t, st)
  /\ Ops(s) \subseteq Ops(t) /\ Batches(t) = Batches(s)

\* A new run is in no place yet.
LEMMA NewRun ==
  ASSUME StateOK, Core, nextRun \in RunIds
  PROVE  /\ status[nextRun] = "new" /\ nextRun \notin active /\ nextRun \notin ToSet(queue)
         /\ nextRun \notin tickets /\ \A ops \in SUBSET ForRun : nextRun \notin Runs(stack, ops)
         /\ nextRun \notin Runs(stack, Placing)
<1>1. nextRun >= nextRun
  BY DEF RunIds
<1>2. Known /\ Placed
  BY DEF Core
<1>3. status[nextRun] = "new"
  BY <1>1, <1>2 DEF Known
<1>4. nextRun \notin Runs(stack, ForRun) /\ nextRun \notin tickets
  BY <1>2, <1>3 DEF Known
<1>5. \A ops \in SUBSET ForRun : nextRun \notin Runs(stack, ops)
  BY <1>4, RunsPlacing
<1>6. Placing \in SUBSET ForRun
  BY DEF Placing, ForRun
<1> QED BY <1>2, <1>3, <1>4, <1>5, <1>6 DEF Placed

LEMMA RunEnters ==
  ASSUME StateOK, Core, Run, ~(policy = "ordered" /\ active # {})
  PROVE  /\ Entered(stack', stack, nextRun, active)
         /\ policy # "latest" => Late(stack') \subseteq Late(stack)
         /\ Starting(stack') \/ "cancelQueued" \in Ops(stack')
<1> DEFINE n == nextRun
           t == <<Frame("start", n), Frame("return", n)>> \o stack
<1>1. Sound(stack) /\ n \in RunIds /\ n \notin Runs(stack, Placing)
  BY Calling, SoundNow, NewRun DEF Run
<1> HIDE DEF n
<1>2. /\ t \in Stacks /\ Starting(t)
      /\ Linked(t) /\ Once(t, Placing) /\ Once(t, {"executor"})
      /\ Runs(t, {"mark"}) = Runs(stack, {"mark"}) /\ Runs(t, {"executor"}) = Runs(stack, {"executor"})
      /\ Runs(t, {"start"}) = Runs(stack, {"start"}) \cup {n}
      /\ Runs(t, ForRun) = Runs(stack, ForRun) \cup {n}
      /\ Late(t) = Late(stack) /\ Runs(stack, {"start"}) = Late(stack)
      /\ \A st : Returning(stack, st) => Returning(t, st)
      /\ Ops(stack) \subseteq Ops(t) /\ Batches(t) = Batches(stack)
  BY <1>1, StartReturn
<1>3. CASE policy # "latest"
  <2>1. stack' = t
    BY <1>3 DEF Run, n
  <2> HIDE DEF t
  <2>2. Entered(t, stack, n, active)
    BY <1>2 DEF Entered
  <2> QED BY <1>2, <2>1, <2>2 DEF n
<1>4. CASE policy = "latest"
  <2> DEFINE u == Step("cancelQueued") \o Step("end") \o t
  <2>1. stack' \in CancelFrames(active, u)
    <3>1. stack' \in CancelFrames(active, Step("cancelQueued") \o Step("end") \o t)
      BY <1>4 DEF Run, n
    <3> QED BY <3>1
  <2> HIDE DEF t
  <2>2. /\ Sound(u) /\ u # <<>> /\ u[1].op \in Waking
        /\ \A ops \in {{"mark"}, {"executor"}, {"start"}, ForRun} : Runs(u, ops) = Runs(t, ops)
        /\ Late(u) = Runs(t, {"start"})
        /\ \A st : Returning(t, st) => Returning(u, st)
        /\ Batches(u) = Batches(t) /\ "cancelQueued" \in Ops(u)
    BY <1>2, GuardOn
  <2>3. Ops(t) \subseteq Ops(u)
    <3> DEFINE f == Frame("cancelQueued", 0)
               e == Frame("end", 0)
    <3>1. /\ f \in FrameRecord /\ Step("cancelQueued") = <<f>>
          /\ e \in FrameRecord /\ Step("end") = <<e>>
      BY StepIs, GuardOps
    <3> HIDE DEF f, e
    <3>2. <<f>> \o <<e>> \o t = <<f>> \o (<<e>> \o t)
      BY <1>2, Flat2
    <3>3. Pushed(<<e>> \o t, e, t) /\ <<e>> \o t \in Stacks
      BY <1>2, <3>1, Push
    <3>4. Pushed(<<f>> \o (<<e>> \o t), f, <<e>> \o t)
      BY <3>1, <3>3, Push
    <3>5. Ops(t) \subseteq Ops(<<e>> \o t) /\ Ops(<<e>> \o t) \subseteq Ops(<<f>> \o (<<e>> \o t))
      BY <3>3, <3>4 DEF Pushed
    <3> QED BY <3>1, <3>2, <3>5
  <2> HIDE DEF u
  <2>4. Piles(stack', u, active)
    <3>1. active \in SUBSET RunIds /\ u \in Stacks
      BY <2>2 DEF StateOK, Sound
    <3> QED BY <2>1, <2>2, <3>1, CancelFramesAre
  <2>5. /\ "cancelActive" \notin Placing /\ "cancelActive" \notin {"executor"}
        /\ "cancelActive" \notin {"mark"} /\ "cancelActive" \notin {"start"}
    BY DEF Placing
  <2>6. /\ Linked(stack') /\ Once(stack', Placing) /\ Once(stack', {"executor"}) /\ stack' \in Stacks
        /\ Late(stack') = Late(u) /\ Batches(stack') = Batches(u) /\ Ops(u) \subseteq Ops(stack')
        /\ \A st : Returning(u, st) => Returning(stack', st)
    BY <2>2, <2>4, <2>5 DEF Piles, Sound
  <2>7. /\ Runs(stack', {"mark"}) = Runs(u, {"mark"}) /\ Runs(stack', {"executor"}) = Runs(u, {"executor"})
        /\ Runs(stack', {"start"}) = Runs(u, {"start"})
        /\ Runs(stack', ForRun) \subseteq Runs(u, ForRun) \cup active
    BY <2>4, <2>5 DEF Piles
  <2>8. /\ Runs(u, {"mark"}) = Runs(t, {"mark"}) /\ Runs(u, {"executor"}) = Runs(t, {"executor"})
        /\ Runs(u, {"start"}) = Runs(t, {"start"}) /\ Runs(u, ForRun) = Runs(t, ForRun)
    BY <2>2
  <2>9. Entered(stack', stack, n, active)
    BY <1>2, <2>2, <2>3, <2>6, <2>7, <2>8 DEF Entered
  <2>10. "cancelQueued" \in Ops(stack')
    BY <2>2, <2>6
  <2> QED BY <1>4, <2>9, <2>10 DEF n
<1> QED BY <1>3, <1>4

LEMMA CoreRun ==
  ASSUME StateOK, Core, Run
  PROVE  Core'
<1> DEFINE n == nextRun
<1>1. /\ n \in RunIds /\ n \notin active /\ n \notin ToSet(queue) /\ n \notin tickets
      /\ status[n] = "new" /\ n \notin Runs(stack, Placing)
      /\ \A ops \in SUBSET ForRun : n \notin Runs(stack, ops)
  BY NewRun DEF Run
<1>2. /\ nextRun' = n + 1 /\ status' = [status EXCEPT ![n] = "queued"]
      /\ UNCHANGED <<policy, active, hook>>
  BY DEF Run
<1>3. Known /\ Placed /\ Owned /\ Prompt /\ stack \in Stacks
  BY DEF Core
<1>4. Sound(stack)
  BY Calling, SoundNow DEF Run
<1>5. /\ \A q \in RunIds : q # n => status'[q] = status[q]
      /\ status'[n] = "queued"
      /\ active \subseteq RunIds /\ ToSet(queue) \subseteq RunIds /\ tickets \subseteq RunIds
      /\ Runs(stack, ForRun) \subseteq RunIds
  BY <1>1, <1>2, <1>3 DEF StateOK, Queues, ToSet, Known
<1>6. {"start"} \in SUBSET ForRun /\ {"mark"} \in SUBSET ForRun /\ {"executor"} \in SUBSET ForRun
      /\ {"return"} \in SUBSET ForRun /\ ForRun \in SUBSET ForRun
  BY DEF ForRun, Callbacks
<1>7. /\ n \notin Runs(stack, {"start"}) /\ n \notin Runs(stack, {"mark"})
      /\ n \notin Runs(stack, {"executor"}) /\ n \notin Runs(stack, {"return"})
      /\ n \notin Runs(stack, ForRun)
      /\ Runs(stack, {"start"}) \subseteq RunIds /\ Runs(stack, {"mark"}) \subseteq RunIds
      /\ Runs(stack, {"executor"}) \subseteq RunIds /\ Runs(stack, {"return"}) \subseteq RunIds
  BY <1>1, <1>5, <1>6, RunsPlacing
<1>8. Returning(stack, status')
  <2>1. \A q \in Runs(stack, {"return"}) : status'[q] = "queued" => status[q] = "queued"
    BY <1>5, <1>7
  <2> QED BY <1>3, <2>1, ReturningThen DEF Prompt
<1>9. \A q \in RunIds : q >= nextRun' => status'[q] = "new"
  <2>1. \A q \in RunIds : q >= n + 1 => q >= n /\ q # n
    BY <1>1 DEF RunIds
  <2> QED BY <1>2, <1>3, <1>5, <2>1 DEF Known
<1>10. CASE policy = "ordered" /\ active # {}
  <2>1. queue' = Append(queue, n) /\ tickets' = tickets \cup {n} /\ stack' = stack
    BY <1>10 DEF Run
  <2>2. ToSet(queue') = ToSet(queue) \cup {n}
    BY <1>1, <2>1, QueueAppend DEF StateOK
  <2> HIDE DEF n
  <2>3. Framed' /\ stack' \in Stacks
    BY <1>4, <2>1 DEF Framed, Sound
  <2>4. Known'
    BY <1>3, <1>5, <1>7, <1>9, <2>1 DEF Known
  <2>5. Placed'
    <3>1. \A q \in active' : status'[q] = "running"
      BY <1>1, <1>2, <1>3, <1>5 DEF Placed
    <3>2. \A q \in ToSet(queue') : status'[q] = "queued"
      BY <1>3, <1>5, <2>2 DEF Placed
    <3>3. \A q \in Runs(stack', {"mark"}) : q \notin active' /\ q \notin ToSet(queue')
      BY <1>2, <1>3, <1>7, <2>1, <2>2 DEF Placed
    <3>4. \A q \in Runs(stack', {"start"}) : status'[q] = "queued" /\ q \notin ToSet(queue')
      BY <1>3, <1>5, <1>7, <2>1, <2>2 DEF Placed
    <3>5. \A q \in Runs(stack', {"executor"}) : status'[q] \notin {"new", "queued"} /\ hook'[q] = "none"
      BY <1>2, <1>3, <1>5, <1>7, <2>1 DEF Placed
    <3> QED BY <3>1, <3>2, <3>3, <3>4, <3>5 DEF Placed
  <2>6. Owned'
    BY <1>2, <1>3, <1>5, <2>1, <2>2 DEF Owned
  <2>7. Prompt'
    <3>1. \A q \in Late(stack') : q \notin tickets'
      <4>1. Late(stack) \subseteq Runs(stack, {"start"})
        BY <1>3, StartsWithin
      <4> QED BY <1>3, <1>7, <2>1, <4>1 DEF Prompt
    <3>2. ~Starting(stack')
      BY <1>4, <2>1 DEF Sound
    <3> QED BY <1>2, <1>3, <1>8, <1>10, <2>1, <3>1, <3>2 DEF Prompt
  <2> QED BY <2>3, <2>4, <2>5, <2>6, <2>7 DEF Core
<1>11. CASE ~(policy = "ordered" /\ active # {})
  <2>1. /\ Entered(stack', stack, n, active)
        /\ policy # "latest" => Late(stack') \subseteq Late(stack)
    BY <1>11, RunEnters
  <2>2. UNCHANGED <<queue, tickets>>
    BY <1>11 DEF Run
  <2> HIDE DEF n
  <2>3. /\ stack' \in Stacks /\ Linked(stack') /\ Once(stack', Placing) /\ Once(stack', {"executor"})
        /\ Runs(stack', {"mark"}) = Runs(stack, {"mark"})
        /\ Runs(stack', {"executor"}) = Runs(stack, {"executor"})
        /\ Runs(stack', {"start"}) = Late(stack) \cup {n} /\ Runs(stack, {"start"}) = Late(stack)
        /\ Runs(stack', ForRun) \subseteq Runs(stack, ForRun) \cup {n} \cup active
        /\ Late(stack') \subseteq Late(stack) \cup {n}
        /\ \A st : Returning(stack, st) => Returning(stack', st)
    BY <2>1 DEF Entered
  <2>4. Framed'
    BY <2>3 DEF Framed
  <2>5. Known'
    <3>1. \A q \in active : q \in RunIds /\ status[q] # "new"
      BY ActiveKnown
    <3>2. \A q \in Runs(stack', ForRun) : q \in RunIds /\ status'[q] # "new"
      BY <1>1, <1>3, <1>5, <2>3, <3>1 DEF Known
    <3>3. \A q \in tickets' : status'[q] # "new"
      BY <1>1, <1>3, <1>5, <2>2 DEF Known
    <3> QED BY <1>9, <3>2, <3>3 DEF Known
  <2>6. Placed'
    <3>1. \A q \in active' : status'[q] = "running"
      BY <1>1, <1>2, <1>3, <1>5 DEF Placed
    <3>2. \A q \in ToSet(queue') : status'[q] = "queued"
      BY <1>3, <1>5, <2>2 DEF Placed
    <3>3. \A q \in Runs(stack', {"mark"}) : q \notin active' /\ q \notin ToSet(queue')
      BY <1>2, <1>3, <2>2, <2>3 DEF Placed
    <3>4. \A q \in Runs(stack', {"start"}) : status'[q] = "queued" /\ q \notin ToSet(queue')
      BY <1>1, <1>3, <1>5, <1>7, <2>2, <2>3 DEF Placed
    <3>5. \A q \in Runs(stack', {"executor"}) : status'[q] \notin {"new", "queued"} /\ hook'[q] = "none"
      BY <1>2, <1>3, <1>5, <1>7, <2>3 DEF Placed
    <3> QED BY <3>1, <3>2, <3>3, <3>4, <3>5 DEF Placed
  <2>7. Owned'
    <3>1. /\ Runs(stack', Placing) = Runs(stack', {"start"}) \cup Runs(stack', {"mark"})
          /\ Runs(stack, Placing) = Runs(stack, {"start"}) \cup Runs(stack, {"mark"})
      BY RunsPlacing
    <3> QED BY <1>2, <1>3, <1>5, <2>2, <2>3, <3>1 DEF Owned
  <2>8. Prompt'
    <3>1. \A q \in Late(stack') : q \notin tickets'
      BY <1>1, <1>3, <2>2, <2>3 DEF Prompt
    <3>2. policy' # "latest" => Late(stack') = {}
      BY <1>2, <1>3, <2>1 DEF Prompt
    <3>3. policy' = "ordered" => (Starting(stack') => active' = {}) /\ \A a, b \in active' : a = b
      BY <1>2, <1>3, <1>11 DEF Prompt
    <3>4. policy' # "ordered" => queue' = <<>>
      BY <1>2, <1>3, <2>2 DEF Prompt
    <3>5. Returning(stack', status')
      BY <1>8, <2>3
    <3> QED BY <3>1, <3>2, <3>3, <3>4, <3>5 DEF Prompt
  <2> QED BY <2>3, <2>4, <2>5, <2>6, <2>7, <2>8 DEF Core
<1> QED BY <1>10, <1>11

LEMMA CoreStep ==
  ASSUME TypeOK, Core, [Next]_vars
  PROVE  Core'
<1>1. StateOK
  BY TypeParts
<1>2. CASE UNCHANGED vars
  BY <1>2, SameKeeps DEF vars, runs
<1>3. ASSUME NEW r \in RunIds, CancelRunning(r) \/ CancelWaiting(r) \/ Observe(r) \/ CloseObserver(r)
      PROVE  Core'
  BY <1>1, <1>3, CoreCancels, CoreCancelWaiting, CoreQuiet, WeightsAre
<1>4. ASSUME NEW n \in 1 .. MaxPending, Pump(n) PROVE Core'
  BY <1>4, CorePump
<1>5. ASSUME NEW gives \in BOOLEAN, ExecutorReturns(gives) PROVE Core'
  BY <1>1, <1>5, CoreExecutorReturns
<1>6. ASSUME NEW r \in RunIds, NEW outcome \in Outcomes, Offer(r, outcome) PROVE Core'
  BY <1>1, <1>6, CoreQuiet
<1>7. 1 \in RunIds /\ "failed" \in Outcomes
  BY Constants_Assumption, WeightsAre DEF RunIds
<1>8. CASE \/ CancelAll \/ Dispose \/ Close \/ Tell \/ CallbackReturns \/ CallbackPanics \/ End
           \/ CallWake \/ SetWake
  BY <1>1, <1>7, <1>8, CoreCancels, CoreQuiet
<1>9. CASE \/ Run \/ Drop \/ ExecutorPanics \/ Return \/ Start \/ StartNext \/ CancelActive
           \/ MarkCancelled \/ CancelQueued \/ Deliver
  BY <1>1, <1>9, CoreRun, CoreDrop, CoreExecutorPanics, CoreReturn, CoreStart, CoreStartNext,
     CoreCancelActive, CoreMarkCancelled, CoreCancelQueued, CoreDeliver
<1> QED BY <1>2, <1>3, <1>4, <1>5, <1>6, <1>8, <1>9 DEF Next

LEMMA CoreInit == Init => Core
<1> SUFFICES ASSUME Init PROVE Core
  OBVIOUS
<1>1. /\ stack = <<>> /\ nextRun = 1 /\ status = [r \in RunIds |-> "new"]
      /\ hook = [r \in RunIds |-> "unstarted"] /\ active = {} /\ queue = <<>> /\ tickets = {}
  BY DEF Init
<1>2. ToSet(queue) = {}
  BY <1>1 DEF ToSet
<1> QED BY <1>1, <1>2, EmptyStack DEF Core, Known, Framed, Placed, Owned, Prompt

-----------------------------------------------------------------------------
\* What a step leaves of the steps in progress, and of what pumps have taken.
Kept(t, s, op) == Ops(s) \cap Waking \subseteq Ops(t) \cup {op} /\ Batches(s) \subseteq Batches(t)

LEMMA KeptUnder ==
  ASSUME NEW a \in Stacks, NEW s \in Stacks
  PROVE  Ops(s) \subseteq Ops(a \o s) /\ Batches(s) \subseteq Batches(a \o s)
<1> DEFINE t == a \o s
<1>1. /\ Len(t) = Len(a) + Len(s) /\ t \in Seq(FrameRecord)
      /\ \A i \in 1 .. Len(a) + Len(s) : t[i] = IF i <= Len(a) THEN a[i] ELSE s[i - Len(a)]
  BY ConcatProperties DEF Stacks
<1>2. Len(a) \in Nat /\ Len(s) \in Nat /\ DOMAIN s = 1 .. Len(s) /\ DOMAIN t = 1 .. Len(t)
  BY <1>1 DEF Stacks
<1> HIDE DEF t
<1>3. ASSUME NEW i \in DOMAIN s PROVE Len(a) + i \in DOMAIN t /\ t[Len(a) + i] = s[i]
  <2>1. i \in 1 .. Len(s) /\ Len(a) \in Nat /\ Len(s) \in Nat
    BY <1>2
  <2>2. Len(a) + i \in 1 .. Len(a) + Len(s) /\ ~(Len(a) + i <= Len(a)) /\ (Len(a) + i) - Len(a) = i
    BY <2>1
  <2> QED BY <1>1, <1>2, <2>2
<1>4. ASSUME NEW o \in Ops(s) PROVE o \in Ops(t)
  <2>1. PICK i \in DOMAIN s : o = s[i].op
    BY DEF Ops
  <2>2. Len(a) + i \in DOMAIN t /\ t[Len(a) + i] = s[i]
    BY <1>3
  <2> QED BY <2>1, <2>2 DEF Ops
<1>5. ASSUME NEW r \in Batches(s) PROVE r \in Batches(t)
  <2>1. PICK i \in DOMAIN s : s[i].op = "deliver" /\ r \in TakenIn(s[i])
    BY DEF Batches
  <2>2. Len(a) + i \in DOMAIN t /\ t[Len(a) + i] = s[i]
    BY <1>3
  <2> QED BY <2>1, <2>2 DEF Batches
<1> QED BY <1>4, <1>5 DEF t

LEMMA KeptOver ==
  ASSUME Core, NEW a \in Stacks, stack' = a \o stack, NEW op
  PROVE  Kept(stack', stack, op)
<1>1. stack \in Stacks
  BY DEF Core
<1> QED BY <1>1, KeptUnder DEF Kept

LEMMA KeptReplace ==
  ASSUME Core, stack # <<>>, Top.op # "deliver", NEW t,
         Ops(Below) \cap Owing \subseteq Ops(t), Batches(Below) \subseteq Batches(t)
  PROVE  Kept(t, stack, Top.op)
<1>1. Pushed(stack, Top, Below)
  BY OnTop
<1>2. Ops(stack) = Ops(Below) \cup {Top.op} /\ Batches(stack) = Batches(Below)
  BY <1>1 DEF Pushed
<1> QED BY <1>2, OpSets DEF Kept

LEMMA KeptBelow ==
  ASSUME Core, stack # <<>>, Top.op # "deliver", NEW a \in Stacks, stack' = a \o Below
  PROVE  Kept(stack', stack, Top.op)
<1>1. Below \in Stacks
  BY OnTop
<1> QED BY <1>1, KeptUnder, KeptReplace

LEMMA KeptPop ==
  ASSUME Core, stack # <<>>, Top.op # "deliver", stack' = Below
  PROVE  Kept(stack', stack, Top.op)
BY KeptReplace

LEMMA KeptPanic ==
  ASSUME Core, stack # <<>>, Top.op # "deliver", stack' = Panic(Below)
  PROVE  Kept(stack', stack, Top.op)
<1>1. Leaves(Panic(Below), Below)
  BY OnTop, PanicLeaves
<1>2. Ops(Below) \cap Owing \subseteq Ops(stack') /\ Batches(stack') = Batches(Below)
  BY <1>1 DEF Leaves
<1> QED BY <1>2, KeptReplace

LEMMA FrameStacks ==
  /\ \A op \in AllOps : Step(op) \in Stacks
  /\ \A op \in AllOps, r \in RunIds : <<Frame(op, r)>> \in Stacks
  /\ \A r \in RunIds : Settled(r) \in Stacks
  /\ AfterFailedStart \in Stacks
<1>1. ASSUME NEW op \in AllOps PROVE Step(op) \in Stacks
  BY StepIs, Single
<1>2. ASSUME NEW op \in AllOps, NEW r \in RunIds PROVE <<Frame(op, r)>> \in Stacks
  BY RunFrame
<1>3. ASSUME NEW r \in RunIds PROVE Settled(r) \in Stacks
  <2>1. "observer" \in AllOps
    BY DEF AllOps, Callbacks
  <2> QED BY <1>2, <2>1, EmptyStack DEF Settled
<1>4. AfterFailedStart \in Stacks
  <2>1. Frame("end", 0) \in FrameRecord
    BY StepIs, GuardOps
  <2>2. [Frame("end", 0) EXCEPT !.failed = TRUE] \in FrameRecord
    BY <2>1 DEF FrameRecord
  <2>3. <<[Frame("end", 0) EXCEPT !.failed = TRUE]>> \in Stacks /\ Step("startNext") \in Stacks
    BY <1>1, <2>2, Single, GuardOps
  <2> QED BY <2>3, Onto DEF AfterFailedStart
<1> QED BY <1>1, <1>2, <1>3, <1>4

LEMMA KeptByCalls ==
  ASSUME TypeOK, Core, NEW r \in RunIds, NEW n \in 1 .. MaxPending,
         \/ Run \/ CancelAll \/ Dispose \/ Drop \/ SetWake \/ CancelRunning(r) \/ CancelWaiting(r)
         \/ Observe(r) \/ CloseObserver(r) \/ Pump(n)
  PROVE  Kept(stack', stack, "none")
<1> USE FrameStacks, GuardOps
<1>0. StateOK
  BY TypeParts
<1>1. CASE stack' = stack
  BY <1>1 DEF Kept
<1>2. CASE Run
  <2>1. CASE policy = "ordered" /\ active # {}
    BY <1>1, <1>2, <2>1 DEF Run
  <2>2. CASE ~(policy = "ordered" /\ active # {})
    <3>1. Entered(stack', stack, nextRun, active)
      BY <1>0, <1>2, <2>2, RunEnters
    <3> QED BY <3>1 DEF Entered, Kept
  <2> QED BY <2>1, <2>2
<1>3. CASE CancelAll \/ (Dispose /\ ~Borrowed)
  <2>1. PICK guard \in {"end", "close"} :
          stack' \in CancelFrames(active, Step("cancelQueued") \o Step(guard) \o stack)
    BY <1>3 DEF CancelAll, Dispose
  <2> DEFINE u == Step("cancelQueued") \o Step(guard) \o stack
  <2>2. Sound(stack)
    BY <1>3, Calling, SoundNow DEF CancelAll, Dispose
  <2>3. Sound(u) /\ u # <<>> /\ u[1].op = "cancelQueued"
    <3> DEFINE f == Frame("cancelQueued", 0)
               g == Frame(guard, 0)
    <3>1. /\ Step("cancelQueued") = <<f>> /\ f \in FrameRecord /\ f.op = "cancelQueued"
          /\ Step(guard) = <<g>> /\ g \in FrameRecord /\ g.op \in Ends
      BY StepIs
    <3> HIDE DEF f, g
    <3>2. LET t == <<f>> \o <<g>> \o stack IN Sound(t) /\ t # <<>> /\ t[1] = f
      BY <2>2, <3>1, Guarded
    <3> QED BY <3>1, <3>2
  <2>4. Ops(stack) \subseteq Ops(u) /\ Batches(stack) \subseteq Batches(u)
    <3>1. Step("cancelQueued") \o Step(guard) \in Stacks /\ stack \in Stacks
      BY Onto DEF Core
    <3> QED BY <3>1, KeptUnder
  <2> HIDE DEF u
  <2>5. Piles(stack', u, active)
    <3>1. active \in SUBSET RunIds /\ u \in Stacks /\ stack' \in CancelFrames(active, u)
      BY <1>0, <2>1, <2>3 DEF StateOK, Sound, u
    <3> QED BY <2>3, <3>1, CancelFramesAre
  <2> QED BY <2>4, <2>5 DEF Piles, Kept
<1>4. CASE Dispose /\ Borrowed
  BY <1>4, KeptOver DEF Dispose
<1>5. CASE CancelRunning(r)
  <2>1. "cancelActive" \in AllOps
    BY DEF AllOps, Owing
  <2>2. <<Frame("cancelActive", r)>> \o Step("startNext") \o Step("end") \in Stacks
    BY <2>1, Onto
  <2> QED BY <1>5, <2>2, KeptOver DEF CancelRunning
<1>6. CASE CancelWaiting(r)
  <2>1. "mark" \in AllOps
    BY DEF AllOps, Owing
  <2>2. <<Frame("mark", r)>> \o Step("end") \in Stacks
    BY <2>1, Onto
  <2> QED BY <1>6, <2>2, KeptOver DEF CancelWaiting
<1>7. CASE Observe(r) /\ stack' # stack
  <2>1. "observer" \in AllOps
    BY DEF AllOps, Callbacks
  <2> QED BY <1>7, <2>1, KeptOver DEF Observe
<1>8. CASE Pump(n) /\ stack' # stack
  <2> DEFINE f == [Frame("deliver", 0) EXCEPT !.batch = SubSeq(items, 1, n)]
  <2>1. SubSeq(items, 1, n) \in Seq(Completion)
    <3>1. items \in Seq(Completion) /\ Len(items) \in Nat /\ n <= Len(items) /\ n \in Nat
      BY <1>8, TypeParts, Constants_Assumption DEF Pump, ItemsOK
    <3> QED BY <3>1
  <2>2. f \in FrameRecord
    <3>1. Frame("deliver", 0) \in FrameRecord
      BY StepIs
    <3> QED BY <2>1, <3>1 DEF FrameRecord
  <2>3. stack' = <<f>> \o Step("end") \o stack
    BY <1>8 DEF Pump
  <2> HIDE DEF f
  <2>4. <<f>> \o Step("end") \in Stacks
    BY <2>2, Single, Onto
  <2> QED BY <2>3, <2>4, KeptOver
<1>9. CASE Drop \/ SetWake \/ CloseObserver(r)
  BY <1>1, <1>9 DEF Drop, SetWake, CloseObserver
<1> QED BY <1>1, <1>2, <1>3, <1>4, <1>5, <1>6, <1>7, <1>8, <1>9

LEMMA KeptBySteps ==
  ASSUME TypeOK, Core, NEW gives \in BOOLEAN,
         \/ Return \/ Close \/ Start \/ StartNext \/ ExecutorReturns(gives) \/ ExecutorPanics
         \/ CancelActive \/ MarkCancelled \/ Tell \/ CancelQueued
         \/ CallbackReturns \/ CallbackPanics \/ End
  PROVE  stack # <<>> /\ Top.op # "deliver" /\ Kept(stack', stack, Top.op)
<1> USE FrameStacks
<1>0. StateOK /\ <<>> \in Stacks
  BY TypeParts, EmptyStack
<1>1. stack # <<>> /\ Top.op # "deliver"
  <2>1. CASE CallbackReturns \/ CallbackPanics
    BY <2>1 DEF CallbackReturns, CallbackPanics, Callbacks
  <2>2. CASE Return \/ Close \/ Start
    BY <2>2 DEF Return, Close, Start, In, Top
  <2>3. CASE StartNext \/ ExecutorReturns(gives) \/ ExecutorPanics \/ CancelActive
    BY <2>3 DEF StartNext, ExecutorReturns, ExecutorPanics, CancelActive, In, Top
  <2>4. CASE MarkCancelled \/ Tell \/ CancelQueued \/ End
    BY <2>4 DEF MarkCancelled, Tell, CancelQueued, End, In, Top
  <2> QED BY <2>1, <2>2, <2>3, <2>4
<1>2. {"start", "executor", "lateHook", "hook", "mark", "cancelled", "result", "tell"} \subseteq AllOps
  BY DEF AllOps, Callbacks, Owing
<1>3. CASE stack' = Below
  BY <1>1, <1>3, KeptPop
<1>4. CASE stack' = Panic(Below)
  BY <1>1, <1>4, KeptPanic
<1>5. CASE \E a \in Stacks : stack' = a \o Below
  BY <1>1, <1>5, KeptBelow
<1>6. CASE Return \/ Close \/ CallbackReturns \/ CallbackPanics \/ End
  BY <1>3, <1>4, <1>6 DEF Return, Close, CallbackReturns, CallbackPanics, End
<1>7. CASE Start
  <2>1. Top.run \in RunIds
    BY <1>7, StartTop
  <2>2. <<Frame("executor", Top.run)>> \in Stacks
    BY <1>2, <2>1
  <2> QED BY <1>4, <1>5, <1>7, <2>2 DEF Start
<1>8. CASE StartNext
  <2>1. CASE CanStartNext
    <3>1. queue \in Queues /\ queue # <<>>
      BY <1>0, <2>1 DEF StateOK, Queues, CanStartNext
    <3>2. Head(queue) \in RunIds
      BY <3>1, QueueTail
    <3>3. <<Frame("start", Head(queue))>> \in Stacks
      BY <1>2, <3>2
    <3> QED BY <1>5, <1>8, <2>1, <3>3 DEF StartNext
  <2> QED BY <1>3, <1>8, <2>1 DEF StartNext
<1>9. CASE ExecutorReturns(gives)
  <2>1. Top.run \in RunIds
    BY <1>9, ExecutorTop DEF ExecutorReturns
  <2>2. <<Frame("lateHook", Top.run)>> \in Stacks
    BY <1>2, <2>1
  <2> QED BY <1>0, <1>5, <1>9, <2>2 DEF ExecutorReturns
<1>10. CASE ExecutorPanics
  <2>1. Top.run \in RunIds
    BY <1>10, ExecutorTop DEF ExecutorPanics
  <2>2. Settled(Top.run) \o AfterFailedStart \in Stacks
    BY <2>1, Onto
  <2> QED BY <1>5, <1>10, <2>2 DEF ExecutorPanics
<1>11. CASE CancelActive
  <2>1. "cancelActive" \in ForRun /\ In("cancelActive")
    BY <1>11 DEF ForRun, CancelActive
  <2>2. Top.run \in RunIds
    BY <2>1, TopRun
  <2>3. <<Frame("hook", Top.run)>> \in Stacks /\ <<Frame("mark", Top.run)>> \in Stacks
    BY <1>2, <2>2
  <2>4. (IF hook[Top.run] = "live" THEN <<Frame("hook", Top.run)>> ELSE <<>>)
          \o <<Frame("mark", Top.run)>> \in Stacks
    BY <1>0, <2>3, Onto
  <2> QED BY <1>3, <1>5, <1>11, <2>4 DEF CancelActive
<1>12. CASE MarkCancelled
  <2>1. Top.run \in RunIds
    BY <1>12, Marking
  <2>2. Settled(Top.run) \in Stacks /\ <<Frame("tell", Top.run)>> \in Stacks
    BY <1>2, <2>1
  <2>3. Settled(Top.run) \o <<Frame("tell", Top.run)>> \in Stacks
    BY <2>2, Onto
  <2> QED BY <1>5, <1>12, <2>3 DEF MarkCancelled
<1>13. CASE Tell
  <2>1. "tell" \in ForRun /\ "report" \in ForRun /\ (In("tell") \/ In("report"))
    BY <1>13 DEF ForRun, Tell
  <2>2. Top.run \in RunIds
    BY <2>1, TopRun
  <2>3. /\ <<Frame("cancelled", Top.run)>> \in Stacks /\ <<Frame("result", Top.run)>> \in Stacks
    BY <1>2, <2>2
  <2> QED BY <1>0, <1>5, <1>13, <2>3 DEF Tell
<1>14. CASE CancelQueued
  <2>1. CASE queue # <<>>
    <3>1. queue \in Queues
      BY <1>0 DEF StateOK, Queues
    <3>2. Last(queue) \in RunIds
      BY <2>1, <3>1, QueueFront
    <3>3. <<Frame("mark", Last(queue))>> \in Stacks
      BY <1>2, <3>2
    <3>4. stack' = <<Frame("mark", Last(queue))>> \o stack
      BY <1>14, <2>1 DEF CancelQueued
    <3>5. Kept(stack', stack, Top.op)
      BY <3>3, <3>4, KeptOver
    <3> QED BY <1>1, <3>5
  <2> QED BY <1>3, <1>14, <2>1 DEF CancelQueued
<1> QED BY <1>6, <1>7, <1>8, <1>9, <1>10, <1>11, <1>12, <1>13, <1>14

-----------------------------------------------------------------------------
\* Observers are told of the runs that end.
LEMMA ToldNotified ==
  ASSUME StateOK, Told, NEW ids, Notified(ids),
         \A r \in RunIds : r \in ids \/ status'[r] = status[r] \/ status'[r] \notin Final
  PROVE  Told'
<1> SUFFICES ASSUME NEW r \in RunIds, status'[r] \in Final PROVE observer'[r] # "waiting"
  BY DEF Told
<1>1. observer'[r] = IF r \in ids /\ observer[r] = "waiting" THEN "told" ELSE observer[r]
  BY DEF Notified
<1>2. CASE r \in ids
  BY <1>1, <1>2
<1>3. CASE r \notin ids
  BY <1>1, <1>3 DEF Told
<1> QED BY <1>2, <1>3

LEMMA ToldKept ==
  ASSUME Told,
         \A r \in RunIds : /\ observer'[r] = "waiting" => observer[r] = "waiting"
                           /\ status'[r] = status[r] \/ status'[r] \notin Final
  PROVE  Told'
BY DEF Told

LEMMA ToldStep ==
  ASSUME TypeOK, Core, Told, [Next]_vars
  PROVE  Told'
<1>0. StateOK /\ {"queued", "running"} \cap Final = {}
  BY TypeParts, WeightsAre DEF Final
<1> USE <1>0
<1>1. ASSUME UNCHANGED <<status, observer>> PROVE Told'
  BY <1>1 DEF Told
<1>2. CASE Run
  <2>1. status' = [status EXCEPT ![nextRun] = "queued"] /\ observer' = observer
    BY <1>2 DEF Run
  <2> QED BY <2>1, ToldKept DEF StateOK
<1>3. CASE CancelAll \/ Dispose \/ SetWake
  BY <1>1, <1>3 DEF CancelAll, Dispose, SetWake, runs
<1>4. CASE Drop
  <2>1. /\ Notified(Dropped)
        /\ status' = [r \in RunIds |-> IF r \in Dropped THEN "cancelled" ELSE status[r]]
    BY <1>4 DEF Drop
  <2> QED BY <2>1, ToldNotified
<1>5. ASSUME NEW r \in RunIds, CancelRunning(r) \/ CancelWaiting(r) PROVE Told'
  BY <1>1, <1>5 DEF CancelRunning, CancelWaiting, runs
<1>6. ASSUME NEW r \in RunIds, Observe(r) PROVE Told'
  <2>1. status' = status /\ observer \in [RunIds -> {"none", "waiting", "told"}]
    BY <1>6 DEF Observe, StateOK
  <2>2. CASE status[r] \in Final
    <3>1. observer' = [observer EXCEPT ![r] = "told"]
      BY <1>6, <2>2 DEF Observe
    <3> QED BY <2>1, <3>1, ToldKept
  <2>3. CASE status[r] \notin Final
    <3>1. observer' = [observer EXCEPT ![r] = "waiting"]
      BY <1>6, <2>3 DEF Observe
    <3> QED BY <2>1, <2>3, <3>1 DEF Told
  <2> QED BY <2>2, <2>3
<1>7. ASSUME NEW r \in RunIds, CloseObserver(r) PROVE Told'
  <2>1. /\ status' = status /\ observer' = [observer EXCEPT ![r] = "none"]
        /\ observer \in [RunIds -> {"none", "waiting", "told"}]
    BY <1>7 DEF CloseObserver, StateOK
  <2> QED BY <2>1, ToldKept
<1>8. ASSUME NEW n \in 1 .. MaxPending, Pump(n) PROVE Told'
  BY <1>1, <1>8 DEF Pump, runs
<1>9. ASSUME NEW gives \in BOOLEAN, ExecutorReturns(gives) PROVE Told'
  BY <1>1, <1>9 DEF ExecutorReturns
<1>10. CASE ExecutorPanics \/ MarkCancelled
  <2>1. Top.run \in RunIds
    BY <1>10, ExecutorTop, Marking DEF ExecutorPanics
  <2>2. status' = [status EXCEPT ![Top.run] = "cancelled"] /\ Notified({Top.run})
    BY <1>10 DEF ExecutorPanics, MarkCancelled
  <2> QED BY <2>1, <2>2, ToldNotified DEF StateOK
<1>11. CASE CallbackReturns \/ CallbackPanics \/ Return \/ StartNext \/ Tell \/ CancelQueued \/ End
  BY <1>1, <1>11 DEF CallbackReturns, CallbackPanics, Return, StartNext, Tell, CancelQueued, End,
                     runs
<1>12. CASE Close
  <2>1. /\ observer' = [r \in RunIds |-> IF observer[r] = "waiting" THEN "none" ELSE observer[r]]
    BY <1>12 DEF Close
  <2> QED BY <2>1 DEF Told
<1>13. CASE Start
  <2>1. status' = [status EXCEPT ![Top.run] = "running"] /\ observer' = observer
    BY <1>13 DEF Start
  <2>2. Top.run \in RunIds
    BY <1>13, StartTop
  <2> QED BY <2>1, <2>2, ToldKept DEF StateOK
<1>14. CASE CancelActive
  BY <1>1, <1>14 DEF CancelActive
<1>15. CASE Deliver
  <2>1. CASE Top.batch = <<>>
    BY <1>1, <1>15, <2>1 DEF Deliver
  <2> DEFINE c == Head(Top.batch)
  <2>2. CASE Top.batch # <<>> /\ c.run \notin active
    <3>1. status' = status /\ observer' = observer
      BY <1>15, <2>2 DEF Deliver
    <3> QED BY <1>1, <3>1
  <2>3. CASE Top.batch # <<>> /\ c.run \in active
    <3>1. status' = [status EXCEPT ![c.run] = c.outcome] /\ Notified({c.run})
      BY <1>15, <2>3 DEF Deliver
    <3>2. c.run \in RunIds
      BY <1>15, <2>3, Delivered
    <3> HIDE DEF c
    <3> QED BY <3>1, <3>2, ToldNotified DEF StateOK
  <2> QED BY <2>1, <2>2, <2>3
<1>16. ASSUME NEW r \in RunIds, NEW outcome \in Outcomes, Offer(r, outcome) PROVE Told'
  BY <1>1, <1>16 DEF Offer, runs
<1>17. CASE CallWake
  BY <1>1, <1>17 DEF CallWake, runs
<1>18. CASE UNCHANGED vars
  BY <1>1, <1>18 DEF vars, runs
<1> QED BY <1>2, <1>3, <1>4, <1>5, <1>6, <1>7, <1>8, <1>9, <1>10, <1>11, <1>12, <1>13, <1>14, <1>15,
           <1>16, <1>17, <1>18 DEF Next

-----------------------------------------------------------------------------
\* What the end of a run, delivered or panicking, leaves in progress.
DeliverLeaves ==
  \/ /\ active' = active /\ answered' = answered /\ lost' = lost
     /\ Ops(stack) \cap Waking \subseteq Ops(stack')
     /\ \A r \in Batches(stack) : r \in Batches(stack') \/ r \notin active
  \/ \E r \in active : /\ active' = active \ {r} /\ answered' = answered \ {r}
                       /\ lost' = lost \ {r} /\ "startNext" \in Ops(stack')
                       /\ Batches(stack) \subseteq Batches(stack') \cup {r}

LEMMA DeliverKeeps ==
  ASSUME Core, Deliver
  PROVE  stack # <<>> /\ Top.op = "deliver" /\ DeliverLeaves
<1>1. stack # <<>> /\ Top.op = "deliver"
  BY DEF Deliver, In, Top
<1>2. Pushed(stack, Top, Below) /\ "deliver" \notin Waking
  BY <1>1, OnTop DEF Waking
<1>3. Ops(stack) \cap Waking \subseteq Ops(Below)
  BY <1>1, <1>2 DEF Pushed
<1>4. CASE Top.batch = <<>>
  <2>1. stack' = Below /\ active' = active /\ answered' = answered /\ lost' = lost
    BY <1>4 DEF Deliver
  <2>2. TakenIn(Top) = {}
    BY <1>4 DEF TakenIn
  <2>3. Batches(stack) = Batches(Below)
    BY <1>1, <1>2, <2>2 DEF Pushed
  <2> QED BY <1>1, <1>3, <2>1, <2>3 DEF DeliverLeaves
<1>5. CASE Top.batch # <<>>
  <2> DEFINE g == [Top EXCEPT !.batch = Tail(@)]
             c == Head(Top.batch)
             v == <<g>> \o Below
             u == <<Frame("startNext", 0)>> \o (<<Frame("report", c.run)>> \o v)
  <2>1. /\ Pushed(v, g, Below) /\ Batches(u) = Batches(v)
        /\ Batches(stack) \subseteq Batches(v) \cup {c.run}
        /\ Sound(u) /\ Over(u, stack, {c.run}) /\ "startNext" \in Ops(u)
        /\ AfterCompletion(c.run) \o v = Settled(c.run) \o u
        /\ c.run \in RunIds
    BY <1>5, Delivered
  <2>2. /\ c.run \notin active => /\ stack' = v /\ active' = active
                                  /\ answered' = answered /\ lost' = lost
        /\ c.run \in active => /\ active' = active \ {c.run} /\ answered' = answered \ {c.run}
                               /\ lost' = lost \ {c.run}
                               /\ stack' = AfterCompletion(c.run) \o v
    BY <1>5 DEF Deliver
  <2> HIDE DEF g, c, v, u
  <2>3. CASE c.run \notin active
    <3>1. Ops(Below) \subseteq Ops(v)
      BY <2>1 DEF Pushed
    <3> QED BY <1>1, <1>3, <2>1, <2>2, <2>3, <3>1 DEF DeliverLeaves
  <2>4. CASE c.run \in active
    <3>1. c.run \in {c.run}
      OBVIOUS
    <3>2. Ops(u) \subseteq Ops(Settled(c.run) \o u) /\ Batches(Settled(c.run) \o u) = Batches(u)
      BY <2>1, <3>1, SettledOn
    <3>3. stack' = Settled(c.run) \o u
      BY <2>1, <2>2, <2>4
    <3>4. "startNext" \in Ops(stack') /\ Batches(stack) \subseteq Batches(stack') \cup {c.run}
      BY <2>1, <3>2, <3>3
    <3> QED BY <1>1, <2>2, <2>4, <3>4 DEF DeliverLeaves
  <2> QED BY <2>3, <2>4
<1> QED BY <1>4, <1>5

LEMMA PanicKeeps ==
  ASSUME Core, ExecutorPanics
  PROVE  "startNext" \in Ops(stack') /\ Top.run \in RunIds
<1> DEFINE u == AfterFailedStart \o Below
<1>1. /\ Sound(u) /\ Over(u, stack, {Top.run}) /\ stack' = Settled(Top.run) \o u
      /\ "startNext" \in Ops(u)
  BY FailedStart
<1>2. Top.run \in RunIds
  BY ExecutorTop DEF ExecutorPanics
<1> HIDE DEF u
<1>3. Top.run \in {Top.run}
  OBVIOUS
<1>4. Ops(u) \subseteq Ops(Settled(Top.run) \o u)
  BY <1>1, <1>2, <1>3, SettledOn
<1> QED BY <1>1, <1>2, <1>4

\* A cancellation leaves the step below it, which will look at the queue.
LEMMA CancelKeeps ==
  ASSUME TypeOK, Core, CancelActive
  PROVE  Ops(stack') \cap Waking # {}
<1>1. stack # <<>> /\ Top.op = "cancelActive"
  BY DEF CancelActive, In, Top
<1>2. Linked(stack) /\ Pushed(stack, Top, Below) /\ Below \in Stacks
  BY <1>1, OnTop
<1>3. Below # <<>> /\ Below[1].op \in Waking
  <2>1. "cancelActive" \in Owing
    BY DEF Owing
  <2> QED BY <1>1, <1>2, <2>1 DEF Pushed
<1>4. Below[1].op \in Ops(Below)
  <2>1. 1 \in DOMAIN Below
    BY <1>2, <1>3 DEF Stacks
  <2> QED BY <2>1 DEF Ops
<1>5. \E a \in Stacks : stack' = a \o Below
  <2>1. "cancelActive" \in ForRun /\ In("cancelActive")
    BY DEF ForRun, CancelActive
  <2>2. Top.run \in RunIds /\ "hook" \in AllOps /\ "mark" \in AllOps
    BY <2>1, TopRun DEF AllOps, Callbacks, Owing
  <2>3. <<Frame("hook", Top.run)>> \in Stacks /\ <<Frame("mark", Top.run)>> \in Stacks
    BY <2>2, FrameStacks
  <2>4. (IF hook[Top.run] = "live" THEN <<Frame("hook", Top.run)>> ELSE <<>>)
          \o <<Frame("mark", Top.run)>> \in Stacks
    BY <2>3, EmptyStack, Onto
  <2>5. <<>> \in Stacks /\ Below = <<>> \o Below
    BY <1>2, EmptyStack, Onto
  <2> QED BY <2>4, <2>5 DEF CancelActive
<1>6. Ops(Below) \subseteq Ops(stack')
  BY <1>2, <1>5, KeptUnder
<1> QED BY <1>3, <1>4, <1>6

LEMMA AttendedKept ==
  ASSUME Attended, ~Starting(stack), Ops(stack) \cap Waking \subseteq Ops(stack'),
         queue' # <<>> => queue # <<>>, active # {} => active' # {}
  PROVE  Attended'
BY DEF Attended

LEMMA AttendedStep ==
  ASSUME TypeOK, Core, Attended, [Next]_vars
  PROVE  Attended'
<1>0. StateOK /\ "none" \notin Waking /\ 1 \in 1 .. MaxPending /\ 1 \in RunIds
  BY TypeParts, Constants_Assumption DEF Waking, RunIds
<1>1. ASSUME UNCHANGED <<active, queue, stack>> PROVE Attended'
  BY <1>1 DEF Attended
<1>2. ASSUME Kept(stack', stack, "none"), ~Starting(stack), active' = active,
             queue' # <<>> => queue # <<>>
      PROVE  Attended'
  BY <1>0, <1>2, AttendedKept DEF Kept
<1>3. ASSUME stack # <<>>, Kept(stack', stack, Top.op), Top.op \notin Waking \cup {"start"},
             UNCHANGED <<active, queue>>
      PROVE  Attended'
  <2>1. ~Starting(stack)
    BY <1>3, OnTop DEF Starting
  <2>2. Ops(stack) \cap Waking \subseteq Ops(stack')
    BY <1>3 DEF Kept
  <2> QED BY <1>3, <2>1, <2>2, AttendedKept
<1>4. CASE Run
  <2>1. CASE policy = "ordered" /\ active # {}
    <3>1. active' = active
      BY <1>4 DEF Run
    <3> QED BY <2>1, <3>1 DEF Attended
  <2>2. CASE ~(policy = "ordered" /\ active # {})
    <3>1. Starting(stack') \/ "cancelQueued" \in Ops(stack')
      BY <1>0, <1>4, <2>2, RunEnters
    <3> QED BY <3>1, GuardOps DEF Attended
  <2> QED BY <2>1, <2>2
<1>5. CASE CancelAll \/ Dispose
  <2>1. Kept(stack', stack, "none")
    BY <1>0, <1>5, KeptByCalls
  <2>2. ~Starting(stack) /\ UNCHANGED <<active, queue>>
    BY <1>5, Calling DEF CancelAll, Dispose, runs
  <2> QED BY <1>2, <2>1, <2>2
<1>6. CASE Drop
  BY <1>6 DEF Drop, Attended
<1>7. CASE SetWake \/ CallWake
  BY <1>1, <1>7 DEF SetWake, CallWake, runs
<1>8. ASSUME NEW r \in RunIds, CancelRunning(r) \/ Observe(r) PROVE Attended'
  <2>1. Kept(stack', stack, "none")
    BY <1>0, <1>8, KeptByCalls
  <2>2. ~Starting(stack) /\ UNCHANGED <<active, queue>>
    BY <1>8, Calling DEF CancelRunning, Observe, runs
  <2> QED BY <1>2, <2>1, <2>2
<1>9. ASSUME NEW r \in RunIds, CancelWaiting(r) PROVE Attended'
  <2>1. Kept(stack', stack, "none")
    BY <1>0, <1>9, KeptByCalls
  <2>2. ~Starting(stack) /\ active' = active /\ queue # <<>>
    BY <1>9, Calling DEF CancelWaiting
  <2> QED BY <1>2, <2>1, <2>2
<1>10. ASSUME NEW r \in RunIds, CloseObserver(r) PROVE Attended'
  BY <1>1, <1>10 DEF CloseObserver
<1>11. ASSUME NEW n \in 1 .. MaxPending, Pump(n) PROVE Attended'
  <2>1. Kept(stack', stack, "none")
    BY <1>0, <1>11, KeptByCalls
  <2>2. ~Starting(stack) /\ UNCHANGED <<active, queue>>
    BY <1>11, Calling DEF Pump, runs
  <2> QED BY <1>2, <2>1, <2>2
<1>12. ASSUME NEW gives \in BOOLEAN,
              \/ Return \/ Close \/ ExecutorReturns(gives) \/ MarkCancelled \/ Tell
              \/ CallbackReturns \/ CallbackPanics \/ End
       PROVE  Attended'
  <2>1. stack # <<>> /\ Kept(stack', stack, Top.op)
    BY <1>12, KeptBySteps
  <2>2. Top.op \notin Waking \cup {"start"} /\ UNCHANGED <<active, queue>>
    <3>1. CASE CallbackReturns \/ CallbackPanics
      BY <3>1 DEF CallbackReturns, CallbackPanics, Callbacks, Waking, runs
    <3>2. CASE Return \/ Close \/ ExecutorReturns(gives)
      BY <3>2 DEF Return, Close, ExecutorReturns, In, Top, Waking
    <3>3. CASE MarkCancelled \/ Tell \/ End
      BY <3>3 DEF MarkCancelled, Tell, End, In, Top, Waking, runs
    <3> QED BY <1>12, <3>1, <3>2, <3>3
  <2> QED BY <1>3, <2>1, <2>2
<1>13. CASE ExecutorPanics
  BY <1>13, PanicKeeps, GuardOps DEF Attended
<1>14. CASE Start
  BY <1>14 DEF Start, Attended
<1>15. CASE StartNext
  <2>1. CASE CanStartNext
    <3>1. queue \in Queues /\ queue # <<>>
      BY <1>0, <2>1 DEF StateOK, Queues, CanStartNext
    <3>2. Head(queue) \in RunIds /\ "start" \in AllOps /\ Below \in Stacks
      BY <1>15, <3>1, QueueTail, OnTop DEF AllOps, StartNext, In
    <3>3. Frame("start", Head(queue)) \in FrameRecord /\ Frame("start", Head(queue)).op = "start"
      BY <3>2, RunFrame
    <3>4. stack' = <<Frame("start", Head(queue))>> \o Below
      BY <1>15, <2>1 DEF StartNext
    <3>5. Starting(stack')
      BY <3>2, <3>3, <3>4, Push DEF Starting
    <3> QED BY <3>5 DEF Attended
  <2>2. CASE ~CanStartNext
    <3>1. UNCHANGED <<active, queue>>
      BY <1>15, <2>2 DEF StartNext
    <3>2. queue # <<>> => policy = "ordered"
      BY DEF Core, Prompt
    <3> QED BY <2>2, <3>1, <3>2 DEF Attended, CanStartNext
  <2> QED BY <2>1, <2>2
<1>16. CASE CancelActive
  BY <1>16, CancelKeeps DEF Attended
<1>17. CASE CancelQueued
  <2>1. CASE queue = <<>>
    BY <1>17, <2>1 DEF CancelQueued, Attended
  <2>2. CASE queue # <<>>
    <3>1. queue \in Queues /\ "mark" \in AllOps /\ stack \in Stacks
      BY <1>0 DEF StateOK, Queues, AllOps, Owing, Core
    <3>2. Last(queue) \in RunIds
      BY <2>2, <3>1, QueueFront
    <3>3. <<Frame("mark", Last(queue))>> \in Stacks
      BY <3>1, <3>2, FrameStacks
    <3>4. stack' = <<Frame("mark", Last(queue))>> \o stack
      BY <1>17, <2>2 DEF CancelQueued
    <3>5. Ops(stack) \subseteq Ops(stack')
      BY <3>1, <3>3, <3>4, KeptUnder
    <3>6. "cancelQueued" \in Ops(stack)
      <4>1. stack # <<>> /\ Top.op = "cancelQueued"
        BY <1>17 DEF CancelQueued, In, Top
      <4> QED BY <4>1, OnTop DEF Pushed
    <3> QED BY <3>5, <3>6, GuardOps DEF Attended
  <2> QED BY <2>1, <2>2
<1>18. CASE Deliver
  <2>1. stack # <<>> /\ Top.op = "deliver" /\ DeliverLeaves
    BY <1>18, DeliverKeeps
  <2>2. ~Starting(stack) /\ queue' = queue
    BY <1>18, <2>1, OnTop DEF Starting, Deliver
  <2>3. CASE "startNext" \in Ops(stack')
    BY <2>3, GuardOps DEF Attended
  <2>4. CASE "startNext" \notin Ops(stack')
    BY <2>1, <2>2, <2>4, AttendedKept DEF DeliverLeaves
  <2> QED BY <2>3, <2>4
<1>19. ASSUME NEW r \in RunIds, NEW outcome \in Outcomes, Offer(r, outcome) PROVE Attended'
  BY <1>1, <1>19 DEF Offer, runs
<1>20. CASE UNCHANGED vars
  BY <1>1, <1>20 DEF vars, runs
<1> QED BY <1>4, <1>5, <1>6, <1>7, <1>8, <1>9, <1>10, <1>11, <1>12, <1>13, <1>14, <1>15,
           <1>16, <1>17, <1>18, <1>19, <1>20 DEF Next

-----------------------------------------------------------------------------
\* Accepted completions of active runs are queued, taken by a pump, or lost.
LEMMA AnsweredKept ==
  ASSUME Answered, answered' \subseteq answered, items' = items,
         \A r \in answered' : /\ r \in active => r \in active'
                              /\ r \in lost => r \in lost'
                              /\ r \in Batches(stack) => r \in Batches(stack')
  PROVE  Answered'
<1> SUFFICES ASSUME NEW r \in answered'
             PROVE  r \in active' /\ (r \notin lost' => r \in Pending' \/ r \in Batches(stack'))
  BY DEF Answered
<1>1. /\ r \in active /\ (r \notin lost => r \in Pending \/ r \in Batches(stack))
      /\ Pending' = Pending
  BY DEF Answered, Pending
<1> QED BY <1>1

\* What a pump leaves in the queue, and what it takes.
LEMMA PumpTakes ==
  ASSUME TypeOK, NEW n \in 1 .. MaxPending, Pump(n), NEW i \in DOMAIN items
  PROVE  LET batch == SubSeq(items, 1, n)
         IN items[i].run \in Pending' \/ \E j \in DOMAIN batch : batch[j].run = items[i].run
<1> DEFINE batch == SubSeq(items, 1, n)
           rest  == SubSeq(items, n + 1, Len(items))
<1>1. /\ items \in Seq(Completion) /\ Len(items) \in Nat /\ n \in Nat /\ n <= Len(items)
      /\ i \in 1 .. Len(items) /\ items' = rest
  BY TypeParts, Constants_Assumption DEF Pump, ItemsOK
<1>2. CASE i <= n
  <2>1. i \in 1 .. n
    BY <1>1, <1>2
  <2>2. DOMAIN batch = 1 .. n /\ batch[i] = items[i]
    BY <1>1, <2>1
  <2> QED BY <2>1, <2>2
<1>3. CASE ~(i <= n)
  <2>1. n \in 0 .. Len(items) /\ i - n \in 1 .. Len(items) - n /\ (i - n) + n = i
    BY <1>1, <1>3
  <2>2. /\ rest \in Seq(Completion) /\ Len(rest) = Len(items) - n
        /\ \A k \in 1 .. Len(rest) : rest[k] = items[k + n]
    BY <1>1, <2>1, WeightSuffix
  <2> HIDE DEF rest
  <2>3. i - n \in DOMAIN rest /\ rest[i - n] = items[i]
    BY <2>1, <2>2
  <2> QED BY <1>1, <2>3 DEF Pending
<1> QED BY <1>2, <1>3

LEMMA AnsweredPump ==
  ASSUME TypeOK, Core, Answered, NEW n \in 1 .. MaxPending, Pump(n)
  PROVE  Answered'
<1> DEFINE batch == SubSeq(items, 1, n)
           f == [Frame("deliver", 0) EXCEPT !.batch = batch]
           t == Step("end") \o stack
<1>1. active' = active
  BY DEF Pump, runs
<1>2. CASE Borrowed
  <2>1. /\ lost' = lost \cup ({batch[i].run : i \in DOMAIN batch} \cap answered)
        /\ answered' = answered /\ stack' = stack
    BY <1>2 DEF Pump
  <2> SUFFICES ASSUME NEW r \in answered'
               PROVE  r \in active' /\ (r \notin lost' => r \in Pending' \/ r \in Batches(stack'))
    BY DEF Answered
  <2>2. /\ r \in active /\ (r \notin lost => r \in Pending \/ r \in Batches(stack))
        /\ (\E j \in DOMAIN batch : batch[j].run = r) => r \in lost'
        /\ lost \subseteq lost'
    BY <2>1 DEF Answered
  <2>3. CASE r \in Pending
    <3>1. PICK i \in DOMAIN items : items[i].run = r
      BY <2>3 DEF Pending
    <3>2. r \in Pending' \/ \E j \in DOMAIN batch : batch[j].run = r
      BY <3>1, PumpTakes
    <3> QED BY <1>1, <2>2, <3>2
  <2> QED BY <1>1, <2>1, <2>2, <2>3
<1>3. CASE ~Borrowed
  <2>1. answered' = answered /\ lost' = lost /\ stack' = <<f>> \o Step("end") \o stack
    BY <1>3 DEF Pump
  <2>2. batch \in Seq(Completion)
    <3>1. items \in Seq(Completion) /\ Len(items) \in Nat /\ n <= Len(items) /\ n \in Nat
      BY TypeParts, Constants_Assumption DEF Pump, ItemsOK
    <3> QED BY <3>1
  <2>3. f \in FrameRecord /\ f.op = "deliver" /\ f.batch = batch
    <3>1. Frame("deliver", 0) \in FrameRecord /\ Frame("deliver", 0).op = "deliver"
      BY StepIs, GuardOps
    <3> HIDE DEF batch
    <3> QED BY <2>2, <3>1 DEF FrameRecord
  <2>4. stack \in Stacks /\ Step("end") \in Stacks
    BY FrameStacks, GuardOps DEF Core
  <2>5. t \in Stacks /\ Batches(stack) \subseteq Batches(t)
    BY <2>4, Onto, KeptUnder
  <2> HIDE DEF f, batch
  <2>6. stack' = <<f>> \o t
    <3>1. <<f>> \in Stacks
      BY <2>3, Single
    <3>2. <<f>> \o Step("end") \o stack = <<f>> \o (Step("end") \o stack)
      BY <2>4, <3>1, Joined
    <3> QED BY <2>1, <3>2
  <2> HIDE DEF t
  <2>7. Batches(stack') = Batches(t) \cup TakenIn(f)
    BY <2>3, <2>5, <2>6, Push DEF Pushed
  <2> SUFFICES ASSUME NEW r \in answered'
               PROVE  r \in active' /\ (r \notin lost' => r \in Pending' \/ r \in Batches(stack'))
    BY DEF Answered
  <2>8. r \in active /\ (r \notin lost => r \in Pending \/ r \in Batches(stack))
    BY <2>1 DEF Answered
  <2>9. CASE r \in Pending
    <3>1. PICK i \in DOMAIN items : items[i].run = r
      BY <2>9 DEF Pending
    <3>2. r \in Pending' \/ \E j \in DOMAIN batch : batch[j].run = r
      BY <3>1, PumpTakes DEF batch
    <3>3. (\E j \in DOMAIN batch : batch[j].run = r) => r \in TakenIn(f)
      BY <2>3 DEF TakenIn
    <3> QED BY <1>1, <2>7, <2>8, <3>2, <3>3
  <2> QED BY <1>1, <2>1, <2>5, <2>7, <2>8, <2>9
<1> QED BY <1>2, <1>3

LEMMA AnsweredOffer ==
  ASSUME TypeOK, Answered, NEW r \in RunIds, NEW outcome \in Outcomes, Offer(r, outcome)
  PROVE  Answered'
<1> DEFINE e == [run |-> r, outcome |-> outcome]
<1>1. /\ items' = Append(items, e) /\ answered' = (answered \cup {r}) \cap active
      /\ lost' = lost \ {r} /\ active' = active /\ stack' = stack
  BY DEF Offer, runs
<1>2. items \in Seq(Completion) /\ e \in Completion /\ e.run = r
  BY TypeParts DEF ItemsOK, Completion
<1> HIDE DEF e
<1>3. /\ \A i \in DOMAIN items : i \in DOMAIN items' /\ items'[i] = items[i]
      /\ Len(items) + 1 \in DOMAIN items' /\ items'[Len(items) + 1] = e
  BY <1>1, <1>2
<1>4. Pending \cup {r} \subseteq Pending'
  BY <1>2, <1>3 DEF Pending
<1> QED BY <1>1, <1>4 DEF Answered

LEMMA AnsweredStep ==
  ASSUME TypeOK, Core, Answered, [Next]_vars
  PROVE  Answered'
<1>0. 1 \in 1 .. MaxPending /\ 1 \in RunIds
  BY Constants_Assumption DEF RunIds
<1>1. ASSUME UNCHANGED <<active, answered, lost, items, stack>> PROVE Answered'
  BY <1>1, AnsweredKept
<1>2. ASSUME Batches(stack) \subseteq Batches(stack'), active \subseteq active',
             UNCHANGED <<answered, lost, items>>
      PROVE  Answered'
  BY <1>2, AnsweredKept
<1>3. CASE Run \/ CancelAll \/ Dispose
  <2>1. Batches(stack) \subseteq Batches(stack')
    BY <1>0, <1>3, KeptByCalls DEF Kept
  <2> QED BY <1>2, <1>3, <2>1 DEF Run, CancelAll, Dispose, runs, completions
<1>4. CASE Drop \/ Close
  BY <1>4 DEF Drop, Close, CloseQueue, Answered
<1>5. CASE SetWake \/ CallWake
  BY <1>1, <1>5 DEF SetWake, CallWake, runs
<1>6. ASSUME NEW r \in RunIds,
             CancelRunning(r) \/ CancelWaiting(r) \/ Observe(r) \/ CloseObserver(r)
      PROVE  Answered'
  <2>1. Batches(stack) \subseteq Batches(stack')
    BY <1>0, <1>6, KeptByCalls DEF Kept
  <2> QED BY <1>2, <1>6, <2>1
          DEF CancelRunning, CancelWaiting, Observe, CloseObserver, runs, completions
<1>7. ASSUME NEW n \in 1 .. MaxPending, Pump(n) PROVE Answered'
  BY <1>7, AnsweredPump
<1>8. ASSUME NEW gives \in BOOLEAN,
             \/ Return \/ ExecutorReturns(gives) \/ MarkCancelled \/ Tell
             \/ CallbackReturns \/ CallbackPanics \/ End \/ Start \/ StartNext \/ CancelQueued
      PROVE  Answered'
  <2>1. Batches(stack) \subseteq Batches(stack')
    BY <1>8, KeptBySteps DEF Kept
  <2>2. active \subseteq active' /\ UNCHANGED <<answered, lost, items>>
    BY <1>8 DEF Return, ExecutorReturns, MarkCancelled, Tell, CallbackReturns, CallbackPanics,
                End, Start, StartNext, CancelQueued, runs, completions
  <2> QED BY <1>2, <2>1, <2>2
<1>9. CASE ExecutorPanics \/ CancelActive
  <2>1. Batches(stack) \subseteq Batches(stack')
    BY <1>9, KeptBySteps DEF Kept
  <2>2. /\ active \ {Top.run} \subseteq active' /\ answered' = answered \ {Top.run}
        /\ lost' = lost \ {Top.run} /\ items' = items
    BY <1>9 DEF ExecutorPanics, CancelActive
  <2> QED BY <2>1, <2>2, AnsweredKept
<1>10. CASE Deliver
  <2>1. DeliverLeaves /\ items' = items
    BY <1>10, DeliverKeeps DEF Deliver
  <2>2. \A r \in answered : r \in active
    BY DEF Answered
  <2> QED BY <2>1, <2>2, AnsweredKept DEF DeliverLeaves
<1>11. ASSUME NEW r \in RunIds, NEW outcome \in Outcomes, Offer(r, outcome) PROVE Answered'
  BY <1>11, AnsweredOffer
<1>12. CASE UNCHANGED vars
  BY <1>1, <1>12 DEF vars, runs, completions
<1> QED BY <1>3, <1>4, <1>5, <1>6, <1>7, <1>8, <1>9, <1>10, <1>11, <1>12 DEF Next

-----------------------------------------------------------------------------
LEMMA IInvInit == Init => IInv
<1> SUFFICES ASSUME Init PROVE IInv
  OBVIOUS
<1>1. TypeOK /\ Core
  BY TypeInit, CoreInit
<1>2. Told
  BY DEF Init, Told
<1>3. Attended /\ Answered
  BY DEF Init, Attended, Answered
<1> QED BY <1>1, <1>2, <1>3 DEF IInv

LEMMA IInvStep == IInv /\ [Next]_vars => IInv'
<1> SUFFICES ASSUME IInv, [Next]_vars PROVE IInv'
  OBVIOUS
<1>1. TypeOK /\ Core /\ Told /\ Attended /\ Answered
  BY DEF IInv
<1>2. TypeOK' /\ Core'
  BY <1>1, TypeStep, CoreStep
<1>3. Told' /\ Attended' /\ Answered'
  BY <1>1, ToldStep, AttendedStep, AnsweredStep
<1> QED BY <1>2, <1>3 DEF IInv

LEMMA Invariant == Spec => []IInv
BY IInvInit, IInvStep, PTL DEF Spec

\* With nothing in progress, no run is owed a step.
LEMMA RestTickets == IInv => TicketsAgree
<1> SUFFICES ASSUME IInv PROVE TicketsAgree
  OBVIOUS
<1>1. TypeOK /\ StateOK /\ Known /\ Placed /\ Owned /\ Prompt /\ Told
  BY TypeParts DEF IInv, Core
<1>2. policy = "ordered" => Cardinality(active) <= 1
  <2> SUFFICES ASSUME policy = "ordered" PROVE Cardinality(active) <= 1
    OBVIOUS
  <2>1. \A a, b \in active : a = b
    BY <1>1 DEF Prompt
  <2>2. CASE active = {}
    BY <2>2, FS_EmptySet
  <2>3. CASE active # {}
    <3>1. PICK a \in active : TRUE
      BY <2>3
    <3>2. active = {a}
      BY <2>1, <3>1
    <3>3. Cardinality(active) = 1
      BY <3>2, FS_Singleton
    <3> QED BY <3>3
  <2> QED BY <2>2, <2>3
<1>3. /\ \A r \in active : status[r] = "running"
      /\ \A r \in ToSet(queue) : status[r] = "queued"
  BY <1>1 DEF Placed
<1>4. ASSUME AtRest, NEW r \in RunIds
      PROVE  /\ status[r] = "running" => r \in active
             /\ status[r] = "queued" /\ r \in tickets => r \in ToSet(queue)
             /\ status[r] \in Final => observer[r] # "waiting"
  <2>1. Runs(stack, {"mark"}) = {} /\ Runs(stack, Placing) = {}
    BY <1>4, EmptyStack DEF AtRest
  <2> QED BY <1>1, <2>1 DEF Owned, Told
<1> QED BY <1>1, <1>2, <1>3, <1>4 DEF TicketsAgree

\* The variables have their types, tickets and observers say where runs are, and
\* an ordered Command has one active run, in every state of every Command.
THEOREM TicketsTellTheTruth == Spec => []TicketsAgree
BY Invariant, RestTickets, PTL

\* A queued run never waits with no active run once the calls have ended,
\* whatever panicked.
THEOREM QueuedRunsAreStarted == Spec => []NotWedged
<1>1. IInv => NotWedged
  BY EmptyStack DEF IInv, Attended, NotWedged, AtRest
<1> QED BY <1>1, Invariant, PTL

\* A completion accepted for a run still active stays in the queue or with the
\* pump that took it, so that it is in the queue once the calls have ended, unless
\* a pump called under a late hook lost it (the runs in lost; NothingIsLost says
\* how to avoid that); and the hook of a cancelled run has been called.
THEOREM AnswersAreCompleted == Spec => []AnswersKept
<1>1. ASSUME IInv, AtRest
      PROVE  /\ \A r \in answered \ lost : \E i \in DOMAIN items : items[i].run = r
             /\ \A r \in RunIds : status[r] = "cancelled" => hook[r] # "live"
  <2>1. Batches(stack) = {} /\ Answered /\ Placed /\ Owned
    BY <1>1, EmptyStack DEF AtRest, IInv, Core
  <2>2. \A r \in answered \ lost : \E i \in DOMAIN items : items[i].run = r
    BY <2>1 DEF Answered, Pending
  <2>3. \A r \in RunIds : status[r] = "cancelled" => hook[r] # "live"
    BY <2>1 DEF Owned, Placed
  <2> QED BY <2>2, <2>3
<1>2. IInv => AnswersKept
  BY <1>1 DEF AnswersKept
<1> QED BY <1>2, Invariant, PTL

PumpsAtRest == \A callback \in Callbacks : <<callback, "pump">> \notin Reentry

\* A pump called under a late hook is the only one that loses completions of runs
\* that stay active (command.rs:344-347, 748-757): where only the event loop pumps,
\* and no callback does, an accepted completion of a run still active is in the
\* queue whenever the calls have ended, without exception.
THEOREM NothingIsLost == Spec => [](AnswersKept /\ (PumpsAtRest => lost = {}))
<1> DEFINE Lossless == PumpsAtRest => lost = {}
<1>1. Init => Lossless
  BY DEF Init
<1>2. Lossless /\ [Next]_vars => Lossless'
  <2> SUFFICES ASSUME PumpsAtRest, lost = {}, [Next]_vars PROVE lost' = {}
    BY DEF PumpsAtRest
  <2>1. ASSUME NEW n \in 1 .. MaxPending, Pump(n) PROVE lost' = {}
    <3>1. stack = <<>>
      BY <2>1, Constants_Assumption DEF Pump, MayCall, PumpsAtRest
    <3>2. ~Borrowed
      BY <3>1 DEF Borrowed
    <3> QED BY <2>1, <3>2 DEF Pump
  <2>2. ASSUME NEW r \in RunIds, NEW outcome \in Outcomes, Offer(r, outcome) PROVE lost' = {}
    BY <2>2 DEF Offer
  <2>3. CASE Drop \/ Close
    BY <2>3 DEF Drop, Close, CloseQueue
  <2>4. CASE ExecutorPanics \/ CancelActive \/ Deliver
    BY <2>4 DEF ExecutorPanics, CancelActive, Deliver
  <2>5. CASE UNCHANGED lost
    BY <2>5
  <2> QED
    BY <2>1, <2>2, <2>3, <2>4, <2>5
       DEF Next, vars, completions, Run, CancelAll, Dispose, SetWake, CancelRunning,
           CancelWaiting, Observe, CloseObserver, ExecutorReturns, CallbackReturns,
           CallbackPanics, Return, Start, StartNext, MarkCancelled, Tell, CancelQueued,
           End, CallWake
<1>3. Spec => []Lossless
  BY <1>1, <1>2, PTL DEF Spec
<1> QED BY <1>3, AnswersAreCompleted, PTL

LEMMA WakeStep == TypeOK /\ WakeNotLost /\ [Next]_vars => WakeNotLost'
<1> SUFFICES ASSUME TypeOK, WakeNotLost, [Next]_vars PROVE WakeNotLost'
  OBVIOUS
<1>0. owed \in Nat
  BY DEF TypeOK
<1>1. ASSUME UNCHANGED completions PROVE WakeNotLost'
  BY <1>1 DEF completions, WakeNotLost
<1>2. CASE Run \/ CancelAll \/ Dispose
  BY <1>1, <1>2 DEF Run, CancelAll, Dispose
<1>3. CASE Drop \/ Close
  BY <1>3 DEF Drop, Close, CloseQueue, WakeNotLost
<1>4. CASE SetWake
  BY <1>4 DEF SetWake, WakeNotLost
<1>5. ASSUME NEW r \in RunIds,
             CancelRunning(r) \/ CancelWaiting(r) \/ Observe(r) \/ CloseObserver(r)
      PROVE  WakeNotLost'
  BY <1>1, <1>5 DEF CancelRunning, CancelWaiting, Observe, CloseObserver
<1>6. ASSUME NEW n \in 1 .. MaxPending, Pump(n) PROVE WakeNotLost'
  <2>1. known' = IF items' = <<>> THEN "none" ELSE "quiet"
    BY <1>6 DEF Pump
  <2> QED BY <2>1 DEF WakeNotLost
<1>7. ASSUME NEW gives \in BOOLEAN,
             \/ Return \/ ExecutorReturns(gives) \/ MarkCancelled \/ Tell
             \/ CallbackReturns \/ CallbackPanics \/ End \/ Start \/ StartNext \/ CancelQueued
      PROVE  WakeNotLost'
  BY <1>1, <1>7 DEF Return, ExecutorReturns, MarkCancelled, Tell, CallbackReturns, CallbackPanics,
                    End, Start, StartNext, CancelQueued
<1>8. CASE ExecutorPanics \/ CancelActive \/ Deliver
  BY <1>8 DEF ExecutorPanics, CancelActive, Deliver, WakeNotLost
<1>9. ASSUME NEW r \in RunIds, NEW outcome \in Outcomes, Offer(r, outcome) PROVE WakeNotLost'
  <2>1. /\ owed' = owed + (IF Wakes THEN 1 ELSE 0)
        /\ known' = IF items = <<>> /\ ~wake /\ known = "none" THEN "quiet" ELSE known
    BY <1>9 DEF Offer
  <2>2. wake \in BOOLEAN
    BY DEF TypeOK
  <2>3. CASE items # <<>>
    BY <1>0, <2>1, <2>3 DEF Wakes, WakeNotLost
  <2>4. CASE items = <<>> /\ wake
    BY <1>0, <2>1, <2>4 DEF Wakes, WakeNotLost
  <2>5. CASE items = <<>> /\ ~wake
    BY <2>1, <2>5 DEF WakeNotLost
  <2> QED BY <2>2, <2>3, <2>4, <2>5
<1>10. CASE CallWake
  BY <1>10 DEF CallWake, WakeNotLost
<1>11. CASE UNCHANGED vars
  BY <1>1, <1>11 DEF vars
<1> QED BY <1>2, <1>3, <1>4, <1>5, <1>6, <1>7, <1>8, <1>9, <1>10, <1>11 DEF Next

\* However sinks, pumps and calls of the wake interleave, queued completions have
\* a wake under way or made.
THEOREM WakesAreNotLost == Spec => []WakeNotLost
<1>1. Init => WakeNotLost
  BY DEF Init, WakeNotLost
<1>2. IInv => TypeOK
  BY DEF IInv
<1> QED BY <1>1, <1>2, Invariant, WakeStep, PTL DEF Spec

=============================================================================
