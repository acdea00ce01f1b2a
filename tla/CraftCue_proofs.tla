--------------------------- MODULE CraftCue_proofs ---------------------------
(***************************************************************************)
(* Proofs about CraftCue for every set of graphs, number of identifiers,   *)
(* time, nesting and choice of which callback makes which call.            *)
(*                                                                         *)
(* What the runtime still has to do is on the stack.  Linked says what a   *)
(* frame may stand on (an executor on the loop that starts branches, that  *)
(* loop on process, a held hook on the decision that calls it), Apart      *)
(* which frames are never in progress together.  On that rest the parts of *)
(* the invariant: Framed and Staged tie a frame to the stage it is about,  *)
(* Placed, Queued and Listed the tickets to the tables and to the sessions *)
(* that are ending, Hooked every installed hook to who will call or drop   *)
(* it, and Moving every session to the step that will look at it again.    *)
(*                                                                         *)
(* Over(t, s, f) collects what is known of a stack t that is f pushed on   *)
(* s, so that the proof about an action needs no case analysis on stacks.  *)
(***************************************************************************)
EXTENDS CraftCue, TLAPS, FiniteSetTheorems, SequenceTheorems,
        WellFoundedInduction

-----------------------------------------------------------------------------
\* Stacks.
AboutSession == {"executor", "launch", "due", "evaluate", "decided", "finish"}
Loops        == {"launch", "due"}
Steps        == {"none", "pick", "open", "dues", "evaluate", "compare", "fail", "advance"} \cup Final
FrameRecord  ==
  [op : AboutSession \cup UserFrames \cup {"begin", "cancel", "callProcess", "process"},
   id : 0 .. MaxSessions, stage : Nat, list : SUBSET Nat, graph : GraphIds \cup {"none"},
   then : Steps, flag : BOOLEAN]
Stacks == Seq(FrameRecord)

\* What a frame stands on: the frame below it or the event loop.
EventLoop == Frame("loop", 0)
Under(s)  == IF s = <<>> THEN EventLoop ELSE Head(s)
Bases     == UserFrames \cup {"loop"}

All(s)  == {s[i] : i \in DOMAIN s}
\* The frames a process stands below, and the others.
Within(s, i) == \E j \in DOMAIN s : j > i /\ s[j].op = "process"
Inner(s) == {s[i] : i \in {k \in DOMAIN s : Within(s, k)}}
Outer(s) == {s[i] : i \in {k \in DOMAIN s : ~Within(s, k)}}
Has(s, op) == \E f \in All(s) : f.op = op
IdsOf(s, op) == {f.id : f \in {x \in All(s) : x.op = op}}
Delayed(s) == \E i \in 1 .. Len(s) - 1 : s[i].op = "executor" /\ s[i + 1].op = "due"

\* The session a frame is about, once it is about one.
Concerns(f) == f.op \in AboutSession \/ (f.op = "process" /\ f.then # "pick")

OnProcess(f, g) == g.op = "process" /\ g.id = f.id /\ g.then \notin {"pick", "open"}
\* f may stand on g.
Link(f, g) ==
  /\ f.op = "executor" => g.op \in Loops /\ g.id = f.id /\ g.stage = f.stage
  /\ f.op \in Loops => OnProcess(f, g)
  /\ f.op = "launch" => g.flag
  /\ f.op \in {"evaluate", "decided"} /\ ~f.flag => OnProcess(f, g)
  /\ f.op = "evaluate" /\ f.flag => g.op \in Bases \/ (g.op \in Loops /\ g.id = f.id)
  /\ f.op = "decided" /\ f.flag => g.op \in Bases
  /\ f.op = "heldHook" <=> g.op = "decided"
  /\ f.op = "heldHook" => g.id = f.id
  /\ f.op = "hook" => g.op = "finish"
  /\ f.op = "finish" => g.op = "callProcess" \/ (g.op = "process" /\ g.then # "open")
  /\ f.op \in {"cancel", "callProcess", "process"} => g.op \in Bases \cup {"begin"}
  /\ f.op = "begin" => g.op \in Bases
Beneath(s, i) == IF i = Len(s) THEN EventLoop ELSE s[i + 1]
Linked(s) == \A i \in DOMAIN s : Link(s[i], Beneath(s, i))

\* Two frames that are never in progress together.
Clash(f, g) ==
  \/ f.op = "process" /\ g.op = "process"
  \/ f.op = "process" /\ f.then # "pick" /\ g.op = "decided" /\ g.id = f.id
  \/ f.op \in Loops /\ g.op \in Loops
  \/ f.op = g.op /\ f.op \in {"decided", "finish"} /\ f.id = g.id
  \/ f.op = g.op /\ f.op = "executor" /\ f.id = g.id /\ f.stage = g.stage /\ f.list = g.list
Apart(s) == \A i, j \in DOMAIN s : i < j => ~Clash(s[i], s[j])

-----------------------------------------------------------------------------
\* The inductive invariant.
Branch == [started : BOOLEAN, settled : BOOLEAN, ok : BOOLEAN]
Branches == Seq(Branch)
Session == [graph : GraphIds, stage : Nat, at : Nat, open : BOOLEAN, launching : BOOLEAN,
            branches : Branches]

SessionOK(s) ==
  /\ s.stage \in 1 .. Len(Stages(s)) + 1
  /\ s.open => s.stage <= Len(Stages(s)) /\ DOMAIN s.branches = DOMAIN Current(s).delays
  /\ s.launching => s.open

\* Every branch of a session is over.
Spent(s) == \A b \in DOMAIN s.branches : s.branches[b].settled

Typed ==
  /\ stack \in Stacks
  /\ sessions \in [Present -> Session]
  /\ \A id \in Present : SessionOK(sessions[id])
  /\ \A f \in All(stack) : f.op \in {"begin", "finish"} => f.graph \in GraphIds
  /\ \A f \in All(stack) : f.op = "begin" => f.list \subseteq Ids
  /\ \A f \in All(stack) : f.op = "process" => f.list \subseteq Ids
  /\ \A f \in All(stack) : f.op = "finish" => f.then \in Final

Shaped == Linked(stack) /\ Apart(stack)

\* A loop that starts branches starts those of the stage it was called for.
Loop(f) ==
  f.op \in Loops /\ f.id \in Present =>
    /\ sessions[f.id].stage = f.stage /\ sessions[f.id].open
    /\ f.list \subseteq DOMAIN sessions[f.id].branches

\* An executor runs for one branch, which is started and has no hook yet.
Executor(f) ==
  f.op = "executor" =>
    LET b == Min(f.list)
    IN /\ f.list = {b}
       /\ <<f.id, f.stage, b>> \notin live
       /\ f.id \in Present =>
            /\ f.stage <= sessions[f.id].stage
            /\ f.stage = sessions[f.id].stage =>
                 b \in DOMAIN sessions[f.id].branches /\ sessions[f.id].branches[b].started

\* process remembers a stage the session is at, or was.
Passed(f) ==
  f.op = "process" /\ f.then # "pick" /\ f.id \in Present => f.stage <= sessions[f.id].stage

\* The loops in progress keep their session launching; process opens no open stage.
Tops ==
  /\ stack # <<>> /\ Top.op = "launch" /\ Top.id \in Present => sessions[Top.id].launching
  /\ stack # <<>> =>
       \A f \in All(Below) : f.op \in Loops /\ f.id \in Present => sessions[f.id].launching
  /\ stack # <<>> /\ InProcess("open") =>
       Top.flag /\ Top.id \in Present /\ ~sessions[Top.id].open

Framed == Tops /\ \A f \in All(stack) : Loop(f) /\ Executor(f) /\ Passed(f)

\* The stage of a session: a decided one is over for all branches, and one that
\* is neither open nor decided has none.
Staged ==
  \A id \in Present :
    /\ id \in IdsOf(stack, "decided") =>
         /\ ~sessions[id].open /\ Spent(sessions[id])
         /\ sessions[id].stage <= Len(Stages(sessions[id]))
    /\ ~sessions[id].open /\ id \notin IdsOf(stack, "decided") => DOMAIN sessions[id].branches = {}
    /\ sessions[id].launching => \E f \in All(stack) : f.op \in Loops /\ f.id = id

\* A ticket runs while its session is in the table, or ends, or was broken off.
Ending == IdsOf(stack, "finish")
Placed ==
  /\ Present \cap Ending = {} /\ Present \cap broken = {} /\ Ending \cap broken = {}
  /\ \A id \in Present \cup Ending : status[id] = "running"
  /\ \A id \in Ids : status[id] = "running" => id \in Present \cup Ending \cup broken
  /\ \A id \in broken : status[id] # "new" /\ (Open => status[id] = "running")
  /\ \A id \in Ids : id >= nextId <=> status[id] = "new"
  /\ \A f \in All(stack) : Concerns(f) => f.id \in Ids /\ status[f.id] \notin {"new", "queued"}

\* A ticket that waits is in the queue of one graph, behind a session that runs.
Queued ==
  /\ \A g \in GraphIds : \A id \in queued[g] :
       /\ status[id] \in {"queued", "cancelled"} /\ id \notin broken
       /\ \A h \in GraphIds : id \in queued[h] => h = g
  /\ \A id \in Ids : status[id] = "queued" => id \in broken \/ \E g \in GraphIds : id \in queued[g]
  /\ \A g \in GraphIds : Waiting(g) # {} => byGraph[g] # {}

\* A graph lists its sessions until finish_session is done with them.
Listed ==
  /\ \A g \in GraphIds : \A id \in byGraph[g] :
       \/ id \in broken
       \/ id \in Present /\ sessions[id].graph = g
       \/ \E f \in All(stack) : f.op = "finish" /\ f.id = id /\ f.graph = g
  /\ \A id \in Present : id \in byGraph[sessions[id].graph]

\* An installed hook belongs to a branch that runs, or to one whose session or
\* stage is ending and will call it.
Owed(h) ==
  \/ /\ IsAt(h[1], h[2]) /\ h[3] \in DOMAIN sessions[h[1]].branches
     /\ sessions[h[1]].branches[h[3]].started /\ ~sessions[h[1]].branches[h[3]].settled
  \/ \E f \in All(stack) : f.op = "finish" /\ f.id = h[1] /\ f.stage = h[2] /\ h[3] \in f.list
  \/ \E f \in All(stack) : f.op = "decided" /\ f.id = h[1] /\ h[3] \in f.list
Hooked == \A h \in live : Owed(h)

\* process turns again.
Turns(q) == q.op = "process" /\ q.flag
WillChange(q) == q.op = "process" /\ q.then # "pick"
                   /\ (Changed(q.id, q.stage) \/ q.id \in IdsOf(stack, "decided"))
Again == \E q \in All(stack) : Turns(q) \/ WillChange(q)
Called == \E f \in Outer(stack) : f.op = "callProcess" \/ (f.op = "decided" /\ f.flag)

\* A session needs nothing, or somebody will look at it.
Calm(id) == sessions[id].open /\ ~sessions[id].launching
NoDue(id) == DueBranches(sessions[id]) = {}
Fine(id) == Calm(id) /\ NoDue(id) /\ Verdict(sessions[id]) = "none"
Deciding(id) == id \in IdsOf(stack, "decided")
Starts(id) == \E f \in All(stack) : f.op = "due" /\ f.id = id /\ DueBranches(sessions[id]) \subseteq f.list
Listing(id) == \E q \in All(stack) : q.op = "process" /\ id \in q.list
AtTop(id) ==
  /\ stack # <<>> /\ Top.id = id /\ Calm(id)
  /\ \/ Top.op = "evaluate" /\ NoDue(id)
     \/ InProcess("dues")
     \/ InProcess("evaluate") /\ NoDue(id)
Attended(id) == Called \/ Again \/ Deciding(id) \/ Starts(id) \/ Listing(id) \/ AtTop(id)

\* What a callback inside process does is seen by the next turn, except under
\* the executor of a delayed branch.
Excused ==
  (\E f \in Inner(stack) : f.op \notin Loops \cup {"evaluate"}) => Again \/ Delayed(stack)
Moving == Open => Excused /\ \A id \in Present \ late : Fine(id) \/ Attended(id)

IInv == /\ TypeOK /\ Typed /\ Shaped /\ Framed /\ Staged
        /\ Placed /\ Queued /\ Listed /\ Hooked /\ Moving

-----------------------------------------------------------------------------
\* Every nonempty set of numbers has a least one.
LEMMA NatMinimum ==
  ASSUME NEW S \in SUBSET Nat, S # {}
  PROVE  \E m \in S : \A k \in S : m <= k
<1> DEFINE R == OpToRel(<, Nat)
<1>1. IsWellFoundedOn(R, Nat)
  BY NatLessThanWellFounded
<1>2. \A j, k \in Nat : <<j, k>> \in R <=> j < k
  BY DEF OpToRel
<1> HIDE DEF R
<1>3. PICK m \in S : \A k \in S : <<k, m>> \notin R
  BY <1>1, WFMin
<1>4. \A k \in S : ~(k < m)
  BY <1>2, <1>3
<1>5. m \in Nat /\ S \subseteq Nat
  OBVIOUS
<1> QED
  BY <1>4, <1>5

LEMMA MinIs ==
  ASSUME NEW S \in SUBSET Nat, S # {}
  PROVE  Min(S) \in S /\ Min(S) \in Nat /\ \A k \in S : Min(S) <= k
<1>1. \E m \in S : \A k \in S : m <= k
  BY NatMinimum
<1>2. Min(S) \in S /\ \A k \in S : Min(S) <= k
  BY <1>1 DEF Min
<1> QED BY <1>2

LEMMA MinOne == ASSUME NEW b \in Nat PROVE Min({b}) = b
<1>1. Min({b}) \in {b}
  BY MinIs
<1> QED BY <1>1

-----------------------------------------------------------------------------
\* A frame pushed.
LEMMA Pushed ==
  ASSUME NEW s \in Stacks, NEW f \in FrameRecord
  PROVE  /\ <<f>> \o s \in Stacks /\ <<f>> \o s # <<>>
         /\ Len(s) \in Nat /\ Len(<<f>> \o s) = Len(s) + 1
         /\ Head(<<f>> \o s) = f /\ Tail(<<f>> \o s) = s
         /\ (<<f>> \o s)[1] = f /\ \A i \in 1 .. Len(s) : (<<f>> \o s)[i + 1] = s[i]
<1> DEFINE t == <<f>> \o s
<1>1. <<f>> \in Seq(FrameRecord) /\ s \in Seq(FrameRecord)
      /\ Len(<<f>>) = 1 /\ Len(s) \in Nat
  BY DEF Stacks
<1>2. t \in Seq(FrameRecord) /\ Len(t) = 1 + Len(s)
  BY <1>1, ConcatProperties
<1>3. t[1] = f /\ \A i \in 1 .. Len(s) : t[i + 1] = s[i]
  BY <1>1
<1>4. t # <<>> /\ Head(t) = t[1]
  BY <1>1, <1>2
<1>5. Tail(t) = s
  <2>1. Tail(t) \in Seq(FrameRecord) /\ Len(Tail(t)) = Len(s)
    BY <1>1, <1>2, <1>4
  <2>2. \A i \in 1 .. Len(s) : Tail(t)[i] = s[i]
    BY <1>1, <1>2, <1>3, <1>4
  <2> QED BY <1>1, <2>1, <2>2, SeqEqual
<1> QED BY <1>1, <1>2, <1>3, <1>4, <1>5 DEF Stacks

LEMMA TwoPushed ==
  ASSUME NEW s \in Stacks, NEW f \in FrameRecord, NEW g \in FrameRecord
  PROVE  <<f, g>> \o s = <<f>> \o (<<g>> \o s)
<1>1. s \in Seq(FrameRecord) /\ <<f>> \in Seq(FrameRecord) /\ <<g>> \in Seq(FrameRecord)
  BY DEF Stacks
<1>2. <<f>> \o (<<g>> \o s) = (<<f>> \o <<g>>) \o s
  BY <1>1, ConcatAssociative
<1>3. <<f>> \o <<g>> = <<f, g>>
  <2>1. <<f, g>> \in Seq(FrameRecord) /\ Len(<<f, g>>) = 2 /\ Len(<<f>>) = 1 /\ Len(<<g>>) = 1
    OBVIOUS
  <2>2. <<f>> \o <<g>> \in Seq(FrameRecord) /\ Len(<<f>> \o <<g>>) = 2
        /\ (<<f>> \o <<g>>)[1] = f /\ (<<f>> \o <<g>>)[2] = g
    BY <1>1, <2>1, ConcatProperties
  <2>3. \A i \in 1 .. 2 : (<<f>> \o <<g>>)[i] = <<f, g>>[i]
    BY <2>2
  <2> QED BY <2>1, <2>2, <2>3, SeqEqual
<1> QED BY <1>2, <1>3

LEMMA Popped ==
  ASSUME NEW s \in Stacks, s # <<>>
  PROVE  /\ Head(s) \in FrameRecord /\ Tail(s) \in Stacks
         /\ s = <<Head(s)>> \o Tail(s)
<1>1. s \in Seq(FrameRecord) /\ Len(s) \in Nat /\ Len(s) >= 1
  BY DEF Stacks
<1>2. Head(s) \in FrameRecord /\ Tail(s) \in Seq(FrameRecord)
  BY <1>1
<1>3. s = <<Head(s)>> \o Tail(s)
  <2> DEFINE t == <<Head(s)>> \o Tail(s)
  <2>1. t \in Seq(FrameRecord) /\ Len(t) = Len(Tail(s)) + 1 /\ t[1] = Head(s)
        /\ \A i \in 1 .. Len(Tail(s)) : t[i + 1] = Tail(s)[i]
    BY <1>2, Pushed DEF Stacks
  <2>2. Len(t) = Len(s)
    BY <1>1, <2>1
  <2>3. \A i \in 1 .. Len(s) : t[i] = s[i]
    <3> SUFFICES ASSUME NEW i \in 1 .. Len(s), i # 1 PROVE t[i] = s[i]
      BY <1>1, <2>1
    <3>1. i - 1 \in 1 .. Len(Tail(s)) /\ (i - 1) + 1 = i
      BY <1>1
    <3>2. Tail(s)[i - 1] = s[i]
      BY <1>1, <3>1
    <3> QED BY <2>1, <3>1, <3>2
  <2> HIDE DEF t
  <2>4. s = t
    BY <1>1, <2>1, <2>2, <2>3, SeqEqual
  <2> QED BY <2>4 DEF t
<1> QED BY <1>2, <1>3 DEF Stacks


\* What the views of a stack become.
LEMMA AllPushed ==
  ASSUME NEW s \in Stacks, NEW f \in FrameRecord
  PROVE  All(<<f>> \o s) = All(s) \cup {f}
<1> DEFINE t == <<f>> \o s
<1>1. /\ Len(s) \in Nat /\ Len(t) = Len(s) + 1
      /\ t[1] = f /\ \A i \in 1 .. Len(s) : t[i + 1] = s[i]
      /\ DOMAIN s = 1 .. Len(s) /\ DOMAIN t = 1 .. Len(t)
  BY Pushed DEF Stacks
<1> HIDE DEF t
<1>2. All(t) \subseteq All(s) \cup {f}
  <2> SUFFICES ASSUME NEW i \in DOMAIN t, i # 1 PROVE t[i] \in All(s)
    BY <1>1 DEF All
  <2>1. i - 1 \in 1 .. Len(s) /\ (i - 1) + 1 = i
    BY <1>1
  <2> QED BY <1>1, <2>1 DEF All
<1>3. All(s) \subseteq All(t)
  <2> SUFFICES ASSUME NEW i \in DOMAIN s PROVE s[i] \in All(t)
    BY DEF All
  <2>1. i + 1 \in DOMAIN t /\ t[i + 1] = s[i]
    BY <1>1
  <2> QED BY <2>1 DEF All
<1>4. f \in All(t)
  BY <1>1 DEF All
<1> QED BY <1>2, <1>3, <1>4 DEF t

\* Which frames a process stands below.
LEMMA WithinPushed ==
  ASSUME NEW s \in Stacks, NEW f \in FrameRecord
  PROVE  /\ Within(<<f>> \o s, 1) <=> Has(s, "process")
         /\ \A i \in 1 .. Len(s) : Within(<<f>> \o s, i + 1) <=> Within(s, i)
<1> DEFINE t == <<f>> \o s
<1>1. /\ Len(s) \in Nat /\ Len(t) = Len(s) + 1
      /\ t[1] = f /\ \A i \in 1 .. Len(s) : t[i + 1] = s[i]
      /\ DOMAIN s = 1 .. Len(s) /\ DOMAIN t = 1 .. Len(t)
  BY Pushed DEF Stacks
<1> HIDE DEF t
<1>2. ASSUME NEW i \in 0 .. Len(s)
      PROVE  Within(t, i + 1) <=> \E j \in 1 .. Len(s) : j > i /\ s[j].op = "process"
  <2>1. ASSUME Within(t, i + 1) PROVE \E j \in 1 .. Len(s) : j > i /\ s[j].op = "process"
    <3>1. PICK j \in DOMAIN t : j > i + 1 /\ t[j].op = "process"
      BY <2>1 DEF Within
    <3>2. j - 1 \in 1 .. Len(s) /\ j - 1 > i /\ (j - 1) + 1 = j
      BY <1>1, <3>1
    <3>3. s[j - 1].op = "process"
      BY <1>1, <3>1, <3>2
    <3> QED BY <3>2, <3>3
  <2>2. ASSUME NEW j \in 1 .. Len(s), j > i, s[j].op = "process" PROVE Within(t, i + 1)
    <3>1. j + 1 \in DOMAIN t /\ j + 1 > i + 1 /\ t[j + 1].op = "process"
      BY <1>1, <2>2
    <3> QED BY <3>1 DEF Within
  <2> QED BY <2>1, <2>2
<1>3. Within(t, 1) <=> Has(s, "process")
  <2>1. 0 \in 0 .. Len(s) /\ 0 + 1 = 1
    BY <1>1
  <2>2. Within(t, 1) <=> \E j \in 1 .. Len(s) : j > 0 /\ s[j].op = "process"
    BY <1>2, <2>1
  <2> QED BY <1>1, <2>2 DEF Has, All
<1>4. ASSUME NEW i \in 1 .. Len(s) PROVE Within(t, i + 1) <=> Within(s, i)
  <2>1. i \in 0 .. Len(s)
    BY <1>1
  <2> QED BY <1>1, <1>2, <2>1 DEF Within
<1> QED BY <1>3, <1>4 DEF t

LEMMA InnerPushed ==
  ASSUME NEW s \in Stacks, NEW f \in FrameRecord
  PROVE  /\ Has(s, "process") => Inner(<<f>> \o s) = Inner(s) \cup {f}
         /\ ~Has(s, "process") => Inner(<<f>> \o s) = {}
         /\ Has(s, "process") => Outer(<<f>> \o s) = Outer(s)
         /\ ~Has(s, "process") => Outer(<<f>> \o s) = Outer(s) \cup {f}
<1> DEFINE t == <<f>> \o s
<1>1. /\ Len(s) \in Nat /\ Len(t) = Len(s) + 1
      /\ t[1] = f /\ \A i \in 1 .. Len(s) : t[i + 1] = s[i]
      /\ DOMAIN s = 1 .. Len(s) /\ DOMAIN t = 1 .. Len(t)
  BY Pushed DEF Stacks
<1>2. Within(t, 1) <=> Has(s, "process")
  BY WithinPushed
<1>3. \A i \in 1 .. Len(s) : Within(t, i + 1) <=> Within(s, i)
  BY WithinPushed
<1> HIDE DEF t
<1>4. ASSUME NEW i \in DOMAIN t, i # 1
      PROVE  \E k \in DOMAIN s : s[k] = t[i] /\ (Within(s, k) <=> Within(t, i))
  <2>1. i - 1 \in 1 .. Len(s) /\ (i - 1) + 1 = i
    BY <1>1, <1>4
  <2> QED BY <1>1, <1>3, <2>1
<1>5. ASSUME NEW k \in DOMAIN s
      PROVE  \E i \in DOMAIN t : t[i] = s[k] /\ (Within(s, k) <=> Within(t, i))
  <2>1. k + 1 \in DOMAIN t
    BY <1>1
  <2> QED BY <1>1, <1>3, <2>1
<1>6. 1 \in DOMAIN t
  BY <1>1
<1>7. \A x : x \in Inner(t) <=> x \in Inner(s) \/ (x = f /\ Has(s, "process"))
  BY <1>1, <1>2, <1>4, <1>5, <1>6 DEF Inner
<1>8. \A x : x \in Outer(t) <=> x \in Outer(s) \/ (x = f /\ ~Has(s, "process"))
  BY <1>1, <1>2, <1>4, <1>5, <1>6 DEF Outer
<1>9. ~Has(s, "process") => Inner(s) = {}
  BY DEF Has, All, Inner, Within
<1> QED BY <1>7, <1>8, <1>9 DEF t

LEMMA DelayedPushed ==
  ASSUME NEW s \in Stacks, NEW f \in FrameRecord
  PROVE  Delayed(<<f>> \o s) <=> Delayed(s) \/ (f.op = "executor" /\ Under(s).op = "due")
<1> DEFINE t == <<f>> \o s
<1>1. /\ Len(s) \in Nat /\ Len(t) = Len(s) + 1
      /\ t[1] = f /\ \A i \in 1 .. Len(s) : t[i + 1] = s[i]
      /\ DOMAIN s = 1 .. Len(s) /\ DOMAIN t = 1 .. Len(t)
  BY Pushed DEF Stacks
<1>2. s = <<>> => Len(s) = 0 /\ Under(s).op = "loop"
  BY DEF Under, EventLoop, Frame
<1>3. s # <<>> => Len(s) >= 1 /\ Under(s) = s[1]
  BY <1>1 DEF Under, Stacks
<1> HIDE DEF t
<1>4. ASSUME Delayed(t) PROVE Delayed(s) \/ (f.op = "executor" /\ Under(s).op = "due")
  <2>1. PICK i \in 1 .. Len(t) - 1 : t[i].op = "executor" /\ t[i + 1].op = "due"
    BY <1>4 DEF Delayed
  <2>2. CASE i = 1
    <3>1. Len(s) >= 1 /\ t[2] = s[1]
      BY <1>1, <2>2
    <3> QED BY <1>1, <1>2, <1>3, <2>1, <2>2, <3>1
  <2>3. CASE i # 1
    <3>1. i - 1 \in 1 .. Len(s) - 1 /\ (i - 1) + 1 = i /\ i \in 1 .. Len(s)
      BY <1>1, <2>3
    <3>2. s[i - 1] = t[i] /\ s[(i - 1) + 1] = t[i + 1]
      BY <1>1, <3>1
    <3> QED BY <2>1, <3>1, <3>2 DEF Delayed
  <2> QED BY <2>2, <2>3
<1>5. ASSUME Delayed(s) PROVE Delayed(t)
  <2>1. PICK i \in 1 .. Len(s) - 1 : s[i].op = "executor" /\ s[i + 1].op = "due"
    BY <1>5 DEF Delayed
  <2>2. i + 1 \in 1 .. Len(t) - 1 /\ i \in 1 .. Len(s) /\ i + 1 \in 1 .. Len(s)
    BY <1>1
  <2>3. t[i + 1] = s[i] /\ t[(i + 1) + 1] = s[i + 1]
    BY <1>1, <2>2
  <2> QED BY <2>1, <2>2, <2>3 DEF Delayed
<1>6. ASSUME f.op = "executor", Under(s).op = "due" PROVE Delayed(t)
  <2>1. s # <<>> /\ 1 \in 1 .. Len(t) - 1 /\ t[1 + 1] = s[1]
    BY <1>1, <1>2, <1>3, <1>6
  <2> QED BY <1>1, <1>3, <1>6, <2>1 DEF Delayed
<1> QED BY <1>4, <1>5, <1>6 DEF t

LEMMA LinkedPushed ==
  ASSUME NEW s \in Stacks, NEW f \in FrameRecord
  PROVE  Linked(<<f>> \o s) <=> Linked(s) /\ Link(f, Under(s))
<1> DEFINE t == <<f>> \o s
<1>1. /\ Len(s) \in Nat /\ Len(t) = Len(s) + 1
      /\ t[1] = f /\ \A i \in 1 .. Len(s) : t[i + 1] = s[i]
      /\ DOMAIN s = 1 .. Len(s) /\ DOMAIN t = 1 .. Len(t)
  BY Pushed DEF Stacks
<1> HIDE DEF t
<1>2. Beneath(t, 1) = Under(s)
  <2>1. CASE s = <<>>
    BY <1>1, <2>1 DEF Under, Beneath
  <2>2. CASE s # <<>>
    <3>1. Len(s) >= 1 /\ Head(s) = s[1]
      BY <1>1, <2>2 DEF Stacks
    <3>2. t[1 + 1] = s[1]
      BY <1>1, <3>1
    <3> QED BY <1>1, <2>2, <3>1, <3>2 DEF Under, Beneath
  <2> QED BY <2>1, <2>2
<1>3. ASSUME NEW i \in 1 .. Len(s) PROVE Beneath(t, i + 1) = Beneath(s, i)
  <2>1. Len(s) \in Nat
    BY <1>1
  <2>2. Len(t) = Len(s) + 1
    BY <1>1
  <2>3. CASE i = Len(s)
    BY <2>2, <2>3 DEF Beneath
  <2>4. CASE i # Len(s)
    <3>1. i + 1 \in 1 .. Len(s) /\ i + 1 # Len(t)
      BY <2>1, <2>2, <2>4
    <3>2. t[(i + 1) + 1] = s[i + 1]
      BY <1>1, <3>1
    <3> QED BY <2>4, <3>1, <3>2 DEF Beneath
  <2> QED BY <2>3, <2>4
<1>4. ASSUME Linked(t) PROVE Linked(s) /\ Link(f, Under(s))
  <2>1. \A i \in DOMAIN t : Link(t[i], Beneath(t, i))
    BY <1>4 DEF Linked
  <2>2. ASSUME NEW i \in DOMAIN s PROVE Link(s[i], Beneath(s, i))
    <3>1. i + 1 \in DOMAIN t
      BY <1>1
    <3>2. Link(t[i + 1], Beneath(t, i + 1))
      BY <2>1, <3>1
    <3> QED BY <1>1, <1>3, <3>2
  <2>3. Link(t[1], Beneath(t, 1))
    <3>1. 1 \in DOMAIN t
      BY <1>1
    <3> QED BY <2>1, <3>1
  <2> QED BY <1>1, <1>2, <2>2, <2>3 DEF Linked
<1>5. ASSUME Linked(s), Link(f, Under(s)) PROVE Linked(t)
  <2> SUFFICES ASSUME NEW i \in DOMAIN t PROVE Link(t[i], Beneath(t, i))
    BY DEF Linked
  <2>1. CASE i = 1
    BY <1>1, <1>2, <1>5, <2>1
  <2>2. CASE i # 1
    <3>1. i - 1 \in 1 .. Len(s) /\ (i - 1) + 1 = i
      BY <1>1, <2>2
    <3>2. Link(s[i - 1], Beneath(s, i - 1))
      BY <1>1, <1>5, <3>1 DEF Linked
    <3>3. t[i] = s[i - 1] /\ Beneath(t, i) = Beneath(s, i - 1)
      BY <1>1, <1>3, <3>1
    <3> QED BY <3>2, <3>3
  <2> QED BY <2>1, <2>2
<1> QED BY <1>4, <1>5 DEF t

LEMMA ApartPushed ==
  ASSUME NEW s \in Stacks, NEW f \in FrameRecord
  PROVE  Apart(<<f>> \o s) <=> Apart(s) /\ \A g \in All(s) : ~Clash(f, g)
<1> DEFINE t == <<f>> \o s
<1>1. /\ Len(s) \in Nat /\ Len(t) = Len(s) + 1
      /\ t[1] = f /\ \A i \in 1 .. Len(s) : t[i + 1] = s[i]
      /\ DOMAIN s = 1 .. Len(s) /\ DOMAIN t = 1 .. Len(t)
  BY Pushed DEF Stacks
<1> HIDE DEF t
<1>2. ASSUME Apart(t) PROVE Apart(s) /\ \A g \in All(s) : ~Clash(f, g)
  <2>1. ASSUME NEW i \in DOMAIN s, NEW j \in DOMAIN s, i < j PROVE ~Clash(s[i], s[j])
    <3>1. i + 1 \in DOMAIN t /\ j + 1 \in DOMAIN t /\ i + 1 < j + 1
      BY <1>1, <2>1
    <3>2. ~Clash(t[i + 1], t[j + 1])
      BY <1>2, <3>1 DEF Apart
    <3> QED BY <1>1, <3>2
  <2>2. ASSUME NEW j \in DOMAIN s PROVE ~Clash(f, s[j])
    <3>1. 1 \in DOMAIN t /\ j + 1 \in DOMAIN t /\ 1 < j + 1
      BY <1>1
    <3>2. ~Clash(t[1], t[j + 1])
      BY <1>2, <3>1 DEF Apart
    <3> QED BY <1>1, <3>2
  <2> QED BY <2>1, <2>2 DEF Apart, All
<1>3. ASSUME Apart(s), \A g \in All(s) : ~Clash(f, g) PROVE Apart(t)
  <2> SUFFICES ASSUME NEW i \in DOMAIN t, NEW j \in DOMAIN t, i < j PROVE ~Clash(t[i], t[j])
    BY DEF Apart
  <2>1. j - 1 \in 1 .. Len(s) /\ (j - 1) + 1 = j
    BY <1>1
  <2>2. t[j] = s[j - 1]
    BY <1>1, <2>1
  <2>3. CASE i = 1
    BY <1>1, <1>3, <2>1, <2>2, <2>3 DEF All
  <2>4. CASE i # 1
    <3>1. i - 1 \in 1 .. Len(s) /\ (i - 1) + 1 = i /\ i - 1 < j - 1
      BY <1>1, <2>4
    <3>2. t[i] = s[i - 1]
      BY <1>1, <3>1
    <3> QED BY <1>1, <1>3, <2>1, <2>2, <3>1, <3>2 DEF Apart
  <2> QED BY <2>3, <2>4
<1> QED BY <1>2, <1>3 DEF t

LEMMA PushedStack ==
  ASSUME NEW s \in Stacks, NEW f \in FrameRecord
  PROVE  /\ <<f>> \o s \in Stacks /\ <<f>> \o s # <<>>
         /\ Head(<<f>> \o s) = f /\ Tail(<<f>> \o s) = s
         /\ Under(<<f>> \o s) = f
BY Pushed DEF Under

LEMMA EmptyStack ==
  /\ <<>> \in Stacks /\ All(<<>>) = {} /\ Inner(<<>>) = {} /\ Outer(<<>>) = {}
  /\ ~Delayed(<<>>) /\ Linked(<<>>) /\ Apart(<<>>) /\ Under(<<>>) = EventLoop
<1>1. <<>> \in Stacks /\ Len(<<>>) = 0 /\ DOMAIN <<>> = {} /\ 1 .. 0 - 1 = {}
  BY DEF Stacks
<1> QED BY <1>1 DEF All, Inner, Outer, Delayed, Linked, Apart, Under

LEMMA StackFrames ==
  ASSUME NEW s \in Stacks
  PROVE  /\ All(s) \subseteq FrameRecord
         /\ Inner(s) \cup Outer(s) = All(s)
         /\ s # <<>> => Under(s) \in All(s) /\ Under(s) = Head(s)
<1>1. \A i \in DOMAIN s : s[i] \in FrameRecord
  BY DEF Stacks
<1>2. s # <<>> => 1 \in DOMAIN s /\ Head(s) = s[1]
  BY DEF Stacks
<1>3. All(s) \subseteq FrameRecord
  BY <1>1 DEF All
<1>4. Inner(s) \cup Outer(s) = All(s)
  BY DEF Inner, Outer, All
<1> QED BY <1>2, <1>3, <1>4 DEF All, Under

\* What the model reads off its stack.
LEMMA StackReads ==
  ASSUME stack \in Stacks
  PROVE  /\ Held = IdsOf(stack, "heldHook")
         /\ Processing <=> Has(stack, "process")
         /\ DelayedRuns <=> Delayed(stack)
<1>1. Held = IdsOf(stack, "heldHook")
  BY DEF Held, IdsOf, All
<1>2. Processing <=> Has(stack, "process")
  BY DEF Processing, Has, All
<1> QED BY <1>1, <1>2 DEF DelayedRuns, Delayed

\* What the frame on top stands on.
LEMMA LinkedTop ==
  ASSUME NEW s \in Stacks, s # <<>>, Linked(s)
  PROVE  /\ Linked(Tail(s)) /\ Link(Head(s), Under(Tail(s)))
<1>1. Head(s) \in FrameRecord /\ Tail(s) \in Stacks /\ s = <<Head(s)>> \o Tail(s)
  BY Popped
<1> QED BY <1>1, LinkedPushed

LEMMA ApartTop ==
  ASSUME NEW s \in Stacks, s # <<>>, Apart(s)
  PROVE  /\ Apart(Tail(s)) /\ \A g \in All(Tail(s)) : ~Clash(Head(s), g)
<1>1. Head(s) \in FrameRecord /\ Tail(s) \in Stacks /\ s = <<Head(s)>> \o Tail(s)
  BY Popped
<1> QED BY <1>1, ApartPushed

LEMMA BeneathIn ==
  ASSUME NEW s \in Stacks, NEW i \in DOMAIN s
  PROVE  /\ Beneath(s, i) = EventLoop \/ Beneath(s, i) \in All(s)
         /\ Beneath(s, i).op = "process" => Within(s, i)
<1>1. Len(s) \in Nat /\ DOMAIN s = 1 .. Len(s) /\ i \in 1 .. Len(s)
  BY DEF Stacks
<1>2. i # Len(s) => i + 1 \in DOMAIN s /\ i + 1 > i
  BY <1>1
<1>3. EventLoop.op # "process"
  BY DEF EventLoop, Frame
<1> QED BY <1>2, <1>3 DEF Beneath, All, Within

LEMMA LinkedAll ==
  ASSUME NEW s \in Stacks, Linked(s), NEW f \in All(s)
  PROVE  \E g : (g = EventLoop \/ g \in All(s)) /\ Link(f, g)
<1>1. PICK i \in DOMAIN s : f = s[i]
  BY DEF All
<1>2. Link(f, Beneath(s, i))
  BY <1>1 DEF Linked
<1> QED BY <1>1, <1>2, BeneathIn

\* The loops that start branches belong to a process, executors to such a loop.
LEMMA LoopInProcess ==
  ASSUME NEW s \in Stacks, Linked(s), NEW f \in All(s), f.op \in Loops
  PROVE  \E q \in All(s) : /\ q.op = "process" /\ q.id = f.id /\ q.then # "pick"
                           /\ f.op = "launch" => q.flag
<1>1. PICK g : (g = EventLoop \/ g \in All(s)) /\ Link(f, g)
  BY LinkedAll
<1>2. g.op = "process" /\ g.id = f.id /\ g.then # "pick" /\ (f.op = "launch" => g.flag)
  BY <1>1 DEF Link, OnProcess
<1>3. g # EventLoop
  BY <1>2 DEF EventLoop, Frame
<1> QED BY <1>1, <1>2, <1>3

LEMMA ExecutorInLoop ==
  ASSUME NEW s \in Stacks, Linked(s), NEW f \in All(s), f.op = "executor"
  PROVE  \E g \in All(s) : g.op \in Loops /\ g.id = f.id /\ g.stage = f.stage
<1>1. PICK g : (g = EventLoop \/ g \in All(s)) /\ Link(f, g)
  BY LinkedAll
<1>2. g.op \in Loops /\ g.id = f.id /\ g.stage = f.stage
  BY <1>1 DEF Link
<1>3. g # EventLoop
  BY <1>2 DEF EventLoop, Frame, Loops
<1> QED BY <1>1, <1>2, <1>3

\* A decided stage calls its hooks one at a time, each while its session is
\* borrowed.
LEMMA HookOnDecided ==
  ASSUME NEW s \in Stacks, Linked(s), NEW f \in All(s), f.op = "heldHook"
  PROVE  f.id \in IdsOf(s, "decided")
<1>1. PICK g : (g = EventLoop \/ g \in All(s)) /\ Link(f, g)
  BY LinkedAll
<1>2. g.op = "decided" /\ g.id = f.id
  BY <1>1 DEF Link
<1>3. g # EventLoop
  BY <1>2 DEF EventLoop, Frame
<1> QED BY <1>1, <1>2, <1>3 DEF IdsOf

LEMMA DecidedBelow ==
  ASSUME NEW s \in Stacks, s # <<>>, Linked(s)
  PROVE  IdsOf(Tail(s), "decided") \subseteq IdsOf(s, "heldHook")
<1> SUFFICES ASSUME NEW f \in All(Tail(s)), f.op = "decided"
             PROVE  f.id \in IdsOf(s, "heldHook")
  BY DEF IdsOf
<1>1. Len(s) \in Nat /\ DOMAIN s = 1 .. Len(s) /\ Len(s) # 0 /\ DOMAIN Tail(s) = 1 .. Len(s) - 1
  BY DEF Stacks
<1>2. PICK i \in DOMAIN Tail(s) : f = Tail(s)[i]
  BY DEF All
<1>3. i \in 1 .. Len(s) /\ i # Len(s) /\ f = s[i + 1]
  BY <1>1, <1>2 DEF Stacks
<1>4. Link(s[i], f)
  BY <1>1, <1>3 DEF Linked, Beneath
<1>5. s[i].op = "heldHook" /\ f.id = s[i].id
  BY <1>4 DEF Link
<1> QED BY <1>1, <1>3, <1>5 DEF IdsOf, All

\* evaluate_stage outside process was called by settle.
LEMMA DecidedOutside ==
  ASSUME NEW s \in Stacks, Linked(s), NEW f \in Outer(s), f.op = "decided"
  PROVE  f.flag
<1> SUFFICES ASSUME ~f.flag PROVE FALSE
  OBVIOUS
<1>1. PICK i \in DOMAIN s : f = s[i] /\ ~Within(s, i)
  BY DEF Outer
<1>2. Link(f, Beneath(s, i))
  BY <1>1 DEF Linked
<1>3. Beneath(s, i).op = "process"
  BY <1>2 DEF Link, OnProcess
<1> QED BY <1>1, <1>3, BeneathIn

\* A panic that starts in cancel_by_id or in process ends that call and the
\* start it is part of.
LEMMA PanicIs ==
  ASSUME NEW s \in Stacks, Linked(s), Under(s).op \in Bases \cup {"begin"}
  PROVE  \/ Panic(s) = s /\ Under(s).op \in Bases
         \/ s # <<>> /\ Head(s).op = "begin" /\ Panic(s) = Tail(s)
<1> DEFINE C == Catches(s)
<1>0. Len(s) \in Nat /\ DOMAIN s = 1 .. Len(s) /\ s \in Seq(FrameRecord)
  BY DEF Stacks
<1>1. CASE s = <<>>
  <2>1. C = {}
    BY <1>1 DEF Catches
  <2> QED BY <1>1, <2>1 DEF Panic, Under, EventLoop, Frame, Bases
<1>2. CASE s # <<>> /\ Head(s).op \in UserFrames
  <2>1. 1 \in C /\ Len(s) >= 1 /\ Head(s) = s[1]
    BY <1>0, <1>2 DEF Catches
  <2>2. C \in SUBSET Nat /\ \A k \in C : 1 <= k
    BY <1>0 DEF Catches
  <2>3. Min(C) \in C /\ Min(C) \in Nat /\ \A k \in C : Min(C) <= k
    <3> HIDE DEF C
    <3> QED BY <2>1, <2>2, MinIs
  <2>4. Min(C) = 1
    <3> HIDE DEF C
    <3> QED BY <2>1, <2>2, <2>3
  <2>5. SubSeq(s, 1, Len(s)) = s
    <3>1. SubSeq(s, 1, Len(s)) \in Seq(FrameRecord) /\ Len(SubSeq(s, 1, Len(s))) = Len(s)
          /\ \A i \in 1 .. Len(s) : SubSeq(s, 1, Len(s))[i] = s[i]
      BY <1>0, <2>1
    <3> QED BY <1>0, <3>1, SeqEqual
  <2>6. Under(s) = Head(s)
    BY <1>2 DEF Under
  <2> QED BY <1>2, <2>1, <2>4, <2>5, <2>6 DEF Panic, Bases
<1>3. CASE s # <<>> /\ Head(s).op \notin UserFrames
  <2>1. Under(s) = Head(s) /\ Head(s) = s[1] /\ Len(s) >= 1 /\ Head(s) \in FrameRecord
    BY <1>0, <1>3 DEF Under
  <2>2. Head(s).op = "begin"
    BY <1>3, <2>1 DEF Bases, FrameRecord, AboutSession, UserFrames
  <2>3. Under(Tail(s)).op \in Bases /\ Tail(s) \in Stacks
    BY <1>3, <2>2, LinkedTop, Popped DEF Link
  <2>4. CASE Tail(s) = <<>>
    <3>1. Len(s) = 1
      <4>1. Len(Tail(s)) = Len(s) - 1
        BY <1>0, <2>1
      <4>2. Len(<<>>) = 0
        OBVIOUS
      <4>3. Len(Tail(s)) = 0
        BY <2>4, <4>2, Zenon
      <4> QED BY <1>0, <4>1, <4>3
    <3>2. C = {}
      BY <1>0, <1>3, <2>1, <3>1 DEF Catches
    <3> QED BY <1>3, <2>2, <2>4, <3>2 DEF Panic
  <2>5. CASE Tail(s) # <<>>
    <3>1. Len(s) >= 2 /\ Under(Tail(s)) = s[2]
      BY <1>0, <2>1, <2>5 DEF Under
    <3>2. s[2].op \in UserFrames
      <4>1. s[2] \in FrameRecord
        BY <1>0, <3>1
      <4> QED BY <2>3, <3>1, <4>1 DEF Bases, FrameRecord, AboutSession, UserFrames
    <3>3. 2 \in C /\ 1 \notin C
      BY <1>0, <1>3, <2>1, <3>1, <3>2 DEF Catches
    <3>4. C \in SUBSET Nat /\ \A k \in C : 2 <= k
      BY <1>0, <3>3 DEF Catches
    <3>5. Min(C) \in C /\ Min(C) \in Nat /\ \A k \in C : Min(C) <= k
      <4> HIDE DEF C
      <4> QED BY <3>3, <3>4, MinIs
    <3>6. Min(C) = 2
      <4> HIDE DEF C
      <4> QED BY <3>3, <3>4, <3>5
    <3>7. SubSeq(s, 2, Len(s)) = Tail(s)
      <4>1. SubSeq(s, 2, Len(s)) \in Seq(FrameRecord) /\ Len(SubSeq(s, 2, Len(s))) = Len(s) - 1
            /\ \A i \in 1 .. Len(s) - 1 : SubSeq(s, 2, Len(s))[i] = s[i + 1]
        BY <1>0, <3>1
      <4>2. Tail(s) \in Seq(FrameRecord) /\ Len(Tail(s)) = Len(s) - 1
            /\ \A i \in 1 .. Len(s) - 1 : Tail(s)[i] = s[i + 1]
        BY <1>0, <3>1
      <4> QED BY <4>1, <4>2, SeqEqual
    <3> QED BY <1>3, <2>2, <3>3, <3>6, <3>7 DEF Panic
  <2> QED BY <2>4, <2>5
<1> QED BY <1>1, <1>2, <1>3

-----------------------------------------------------------------------------
\* t is the stack s with the frame f pushed.
Over(t, s, f) ==
  /\ t \in Stacks /\ s \in Stacks /\ f \in FrameRecord
  /\ t # <<>> /\ Head(t) = f /\ Tail(t) = s /\ Under(t) = f
  /\ All(t) = All(s) \cup {f}
  /\ Has(s, "process") => Inner(t) = Inner(s) \cup {f} /\ Outer(t) = Outer(s)
  /\ ~Has(s, "process") => Inner(t) = {} /\ Outer(t) = Outer(s) \cup {f}
  /\ Delayed(t) <=> Delayed(s) \/ (f.op = "executor" /\ Under(s).op = "due")
  /\ Linked(t) <=> Linked(s) /\ Link(f, Under(s))
  /\ Apart(t) <=> Apart(s) /\ \A g \in All(s) : ~Clash(f, g)

LEMMA OverPush ==
  ASSUME NEW s \in Stacks, NEW f \in FrameRecord
  PROVE  Over(<<f>> \o s, s, f)
<1> DEFINE t == <<f>> \o s
<1>1. t \in Stacks /\ t # <<>> /\ Head(t) = f /\ Tail(t) = s /\ Under(t) = f
  BY PushedStack
<1>2. All(t) = All(s) \cup {f}
  BY AllPushed
<1>3. /\ Has(s, "process") => Inner(t) = Inner(s) \cup {f} /\ Outer(t) = Outer(s)
      /\ ~Has(s, "process") => Inner(t) = {} /\ Outer(t) = Outer(s) \cup {f}
  BY InnerPushed
<1>4. Delayed(t) <=> Delayed(s) \/ (f.op = "executor" /\ Under(s).op = "due")
  BY DelayedPushed
<1>5. Linked(t) <=> Linked(s) /\ Link(f, Under(s))
  BY LinkedPushed
<1>6. Apart(t) <=> Apart(s) /\ \A g \in All(s) : ~Clash(f, g)
  BY ApartPushed
<1> HIDE DEF t
<1>7. Over(t, s, f)
  BY <1>1, <1>2, <1>3, <1>4, <1>5, <1>6 DEF Over
<1> QED BY <1>7 DEF t

LEMMA OverTwo ==
  ASSUME NEW s \in Stacks, NEW f \in FrameRecord, NEW g \in FrameRecord
  PROVE  \E u : Over(u, s, g) /\ Over(<<f, g>> \o s, u, f)
<1>1. Over(<<g>> \o s, s, g)
  BY OverPush
<1>2. <<g>> \o s \in Stacks
  BY <1>1 DEF Over
<1>3. Over(<<f>> \o (<<g>> \o s), <<g>> \o s, f)
  BY <1>2, OverPush
<1> QED BY <1>1, <1>3, TwoPushed

LEMMA OverTop ==
  ASSUME stack \in Stacks, stack # <<>>
  PROVE  Over(stack, Below, Top)
<1>1. Head(stack) \in FrameRecord /\ Tail(stack) \in Stacks
      /\ stack = <<Head(stack)>> \o Tail(stack)
  BY Popped
<1> QED BY <1>1, OverPush DEF Top, Below

LEMMA FrameTyped ==
  ASSUME NEW id \in 0 .. MaxSessions
  PROVE  \A op \in AboutSession \cup UserFrames \cup {"begin", "cancel", "callProcess", "process"} :
           Frame(op, id) \in FrameRecord
BY DEF Frame, FrameRecord, Steps, Final

LEMMA IdsTyped == Ids \subseteq 0 .. MaxSessions /\ Ids \subseteq Nat /\ MaxSessions \in Nat /\ 0 \in 0 .. MaxSessions
BY Constants_Assumption DEF Ids

\* What is left of a list.
LEMMA RestTyped ==
  ASSUME NEW f \in FrameRecord
  PROVE  /\ Rest(f) \in FrameRecord
         /\ Rest(f) = [f EXCEPT !.list = f.list \ {Min(f.list)}]
         /\ Rest(f).op = f.op /\ Rest(f).id = f.id /\ Rest(f).stage = f.stage
         /\ Rest(f).graph = f.graph /\ Rest(f).then = f.then /\ Rest(f).flag = f.flag
         /\ Rest(f).list = f.list \ {Min(f.list)}
<1>1. f.list \in SUBSET Nat
  BY DEF FrameRecord
<1>2. Rest(f) = [f EXCEPT !.list = f.list \ {Min(f.list)}]
  BY DEF Rest
<1> QED BY <1>1, <1>2 DEF FrameRecord

LEMMA FirstOf ==
  ASSUME NEW f \in FrameRecord, f.list # {}
  PROVE  Min(f.list) \in f.list /\ Min(f.list) \in Nat
<1>1. f.list \in SUBSET Nat
  BY DEF FrameRecord
<1> QED BY <1>1, MinIs

-----------------------------------------------------------------------------
\* Sessions.
LEMMA GraphTyped ==
  ASSUME NEW g \in GraphIds
  PROVE  /\ Graphs[g] \in Seq([join : {"all", "any", "race"}, delays : Seq(Nat)])
         /\ Len(Graphs[g]) \in Nat
         /\ \A k \in 1 .. Len(Graphs[g]) :
              /\ Graphs[g][k].join \in {"all", "any", "race"}
              /\ Graphs[g][k].delays \in Seq(Nat)
<1>1. Graphs[g] \in Seq([join : {"all", "any", "race"}, delays : Seq(Nat)])
  BY Constants_Assumption DEF GraphIds
<1>2. \A k \in 1 .. Len(Graphs[g]) :
        Graphs[g][k] \in [join : {"all", "any", "race"}, delays : Seq(Nat)]
  BY <1>1, ElementOfSeq
<1>3. Len(Graphs[g]) \in Nat
  BY <1>1
<1> QED BY <1>1, <1>2, <1>3

LEMMA SessionTyped ==
  ASSUME Typed, NEW id \in Present
  PROVE  /\ sessions[id] \in Session /\ SessionOK(sessions[id])
         /\ sessions[id].graph \in GraphIds /\ sessions[id].stage \in Nat
         /\ DOMAIN sessions[id].branches \subseteq Nat
         /\ \A b \in DOMAIN sessions[id].branches : sessions[id].branches[b] \in Branch
<1>1. sessions[id] \in Session /\ SessionOK(sessions[id])
  BY DEF Typed
<1>2. sessions[id].branches \in Seq(Branch)
  BY <1>1 DEF Session, Branches
<1>3. \A b \in DOMAIN sessions[id].branches : b \in Nat /\ sessions[id].branches[b] \in Branch
  BY <1>2
<1> QED BY <1>1, <1>3 DEF Session

LEMMA NewSessionTyped ==
  ASSUME NEW g \in GraphIds
  PROVE  NewSession(g) \in Session /\ SessionOK(NewSession(g))
<1>1. <<>> \in Branches
  BY DEF Branches
<1>2. NewSession(g) \in Session
  BY <1>1 DEF NewSession, Session
<1>3. NewSession(g).graph = g /\ NewSession(g).stage = 1
      /\ NewSession(g).open = FALSE /\ NewSession(g).launching = FALSE
  BY DEF NewSession
<1>4. Len(Graphs[g]) \in Nat
  BY GraphTyped
<1> QED BY <1>2, <1>3, <1>4 DEF SessionOK, Stages

LEMMA WithIs ==
  ASSUME NEW id, NEW s
  PROVE  /\ DOMAIN With(id, s) = Present \cup {id}
         /\ With(id, s)[id] = s
         /\ \A x \in Present \ {id} : With(id, s)[x] = sessions[x]
BY DEF With

LEMMA WithoutIs ==
  ASSUME NEW id
  PROVE  /\ DOMAIN Without(id) = Present \ {id}
         /\ \A x \in Present \ {id} : Without(id)[x] = sessions[x]
BY DEF Without

-----------------------------------------------------------------------------
\* What the steps do to a session.
Kept(s, t) == /\ t.graph = s.graph /\ t.stage = s.stage /\ t.at = s.at
              /\ DOMAIN t.branches = DOMAIN s.branches

LEMMA SessionFields ==
  ASSUME NEW s \in Session
  PROVE  /\ s.branches \in Seq(Branch) /\ DOMAIN s.branches \subseteq Nat
         /\ \A b \in DOMAIN s.branches :
              /\ s.branches[b] \in Branch
              /\ s.branches[b].started \in BOOLEAN /\ s.branches[b].settled \in BOOLEAN
              /\ s.branches[b].ok \in BOOLEAN
         /\ s.graph \in GraphIds /\ s.stage \in Nat /\ s.at \in Nat
         /\ s.open \in BOOLEAN /\ s.launching \in BOOLEAN
<1>1. s.branches \in Seq(Branch)
  BY DEF Session, Branches
<1>2. \A b \in DOMAIN s.branches : b \in Nat /\ s.branches[b] \in Branch
  BY <1>1
<1>3. \A b \in DOMAIN s.branches :
        /\ s.branches[b].started \in BOOLEAN /\ s.branches[b].settled \in BOOLEAN
        /\ s.branches[b].ok \in BOOLEAN
  BY <1>2 DEF Branch
<1> QED BY <1>1, <1>2, <1>3 DEF Session

LEMMA BranchChanged ==
  ASSUME NEW s \in Session, SessionOK(s), NEW b \in DOMAIN s.branches, NEW r \in Branch,
         NEW t, t = [s EXCEPT !.branches = [s.branches EXCEPT ![b] = r]]
  PROVE  /\ t \in Session /\ SessionOK(t) /\ Kept(s, t)
         /\ t.open = s.open /\ t.launching = s.launching
         /\ t.branches[b] = r
         /\ \A c \in DOMAIN s.branches \ {b} : t.branches[c] = s.branches[c]
<1> DEFINE q == [s.branches EXCEPT ![b] = r]
<1>1. s.branches \in Seq(Branch)
  BY DEF Session, Branches
<1>2. q \in Seq(Branch) /\ DOMAIN q = DOMAIN s.branches
  BY <1>1, ExceptSeq
<1>3. q[b] = r /\ \A c \in DOMAIN s.branches \ {b} : q[c] = s.branches[c]
  BY <1>1
<1> HIDE DEF q
<1>4. t = [s EXCEPT !.branches = q]
  BY DEF q
<1>5. t \in Session
  BY <1>2, <1>4 DEF Session, Branches
<1>6. t.branches = q /\ t.graph = s.graph /\ t.stage = s.stage /\ t.at = s.at
      /\ t.open = s.open /\ t.launching = s.launching
  BY <1>4 DEF Session
<1>7. SessionOK(t)
  BY <1>2, <1>6 DEF SessionOK, Stages, Current
<1> QED BY <1>2, <1>3, <1>5, <1>6, <1>7 DEF Kept

\* A branch with one field or two changed.
LEMMA BranchIs ==
  ASSUME NEW r \in Branch, NEW ok \in BOOLEAN
  PROVE  /\ [r EXCEPT !.settled = TRUE, !.ok = ok] \in Branch
         /\ [r EXCEPT !.settled = TRUE, !.ok = ok].started = r.started
         /\ [r EXCEPT !.settled = TRUE, !.ok = ok].settled = TRUE
         /\ [r EXCEPT !.started = TRUE] \in Branch
         /\ [r EXCEPT !.started = TRUE].started = TRUE
         /\ [r EXCEPT !.started = TRUE].settled = r.settled
         /\ [r EXCEPT !.started = TRUE].ok = r.ok
BY DEF Branch

LEMMA SettlingIs ==
  ASSUME NEW s \in Session, SessionOK(s), NEW b \in DOMAIN s.branches, NEW ok \in BOOLEAN,
         NEW t, t = Settling(s, b, ok)
  PROVE  /\ t \in Session /\ SessionOK(t) /\ Kept(s, t)
         /\ t.open = s.open /\ t.launching = s.launching
         /\ t.branches[b].started = s.branches[b].started /\ t.branches[b].settled
         /\ \A c \in DOMAIN s.branches \ {b} : t.branches[c] = s.branches[c]
<1> DEFINE r == [s.branches[b] EXCEPT !.settled = TRUE, !.ok = ok]
<1>1. s.branches[b] \in Branch
  BY SessionFields
<1>2. r \in Branch
  BY <1>1, BranchIs
<1>3. r.started = s.branches[b].started /\ r.settled
  BY <1>1, BranchIs
<1>4. t = [s EXCEPT !.branches = [s.branches EXCEPT ![b] = r]]
  BY DEF Settling
<1> HIDE DEF r
<1>5. /\ t \in Session /\ SessionOK(t) /\ Kept(s, t)
      /\ t.open = s.open /\ t.launching = s.launching
      /\ t.branches[b] = r
      /\ \A c \in DOMAIN s.branches \ {b} : t.branches[c] = s.branches[c]
  BY <1>2, <1>4, BranchChanged
<1> QED BY <1>3, <1>5

LEMMA LaunchingIs ==
  ASSUME NEW s \in Session, SessionOK(s), NEW v \in BOOLEAN, v => s.open,
         NEW t, t = [s EXCEPT !.launching = v]
  PROVE  /\ t \in Session /\ SessionOK(t) /\ Kept(s, t)
         /\ t.open = s.open /\ t.launching = v /\ t.branches = s.branches
<1>1. t \in Session /\ t.branches = s.branches /\ t.graph = s.graph /\ t.stage = s.stage
      /\ t.at = s.at /\ t.open = s.open /\ t.launching = v
  BY DEF Session
<1> QED BY <1>1 DEF SessionOK, Stages, Current, Kept

LEMMA StartingIs ==
  ASSUME NEW s \in Session, SessionOK(s), s.open, NEW b \in DOMAIN s.branches,
         NEW t, t = Starting(s, b)
  PROVE  /\ t \in Session /\ SessionOK(t) /\ Kept(s, t)
         /\ t.open /\ t.launching
         /\ t.branches[b].started /\ t.branches[b].settled = s.branches[b].settled
         /\ t.branches[b].ok = s.branches[b].ok
         /\ \A c \in DOMAIN s.branches \ {b} : t.branches[c] = s.branches[c]
<1> DEFINE r == [s.branches[b] EXCEPT !.started = TRUE]
           u == [s EXCEPT !.launching = TRUE]
<1>1. s.branches[b] \in Branch
  BY SessionFields
<1>2. r \in Branch
  BY <1>1, BranchIs
<1>3. r.started /\ r.settled = s.branches[b].settled /\ r.ok = s.branches[b].ok
  BY <1>1, BranchIs
<1>4. u \in Session /\ SessionOK(u) /\ Kept(s, u) /\ u.open /\ u.launching
      /\ u.branches = s.branches
  BY LaunchingIs
<1>5. t = [u EXCEPT !.branches = [s.branches EXCEPT ![b] = r]]
  BY DEF Starting
<1> HIDE DEF r, u
<1>6. u \in Session
  BY <1>4
<1>7. b \in DOMAIN u.branches
  BY <1>4
<1>8. SessionOK(u)
  BY <1>4
<1>9. t = [u EXCEPT !.branches = [u.branches EXCEPT ![b] = r]]
  BY <1>4, <1>5
<1>10. /\ t \in Session /\ SessionOK(t) /\ Kept(u, t)
      /\ t.open = u.open /\ t.launching = u.launching
      /\ t.branches[b] = r
      /\ \A c \in DOMAIN u.branches \ {b} : t.branches[c] = u.branches[c]
  BY <1>2, <1>6, <1>7, <1>8, <1>9, BranchChanged
<1>11. Kept(s, t)
  BY <1>4, <1>10 DEF Kept
<1> QED BY <1>3, <1>4, <1>10, <1>11

LEMMA DecidedIs ==
  ASSUME NEW s \in Session, SessionOK(s), ~s.launching, NEW t, t = Decided(s)
  PROVE  /\ t \in Session /\ SessionOK(t) /\ Kept(s, t)
         /\ ~t.open /\ ~t.launching /\ Spent(t)
         /\ \A b \in DOMAIN s.branches : t.branches[b].started = s.branches[b].started
<1> DEFINE q == [b \in DOMAIN s.branches |-> [s.branches[b] EXCEPT !.settled = TRUE]]
<1>1. s.branches \in Seq(Branch) /\ \A b \in DOMAIN s.branches : s.branches[b] \in Branch
  BY SessionFields
<1>2. \A b \in DOMAIN s.branches :
        /\ q[b] \in Branch /\ q[b].settled /\ q[b].started = s.branches[b].started
  BY <1>1 DEF Branch
<1>3. q \in Seq(Branch) /\ DOMAIN q = DOMAIN s.branches
  <2>1. DOMAIN s.branches = 1 .. Len(s.branches) /\ Len(s.branches) \in Nat
    BY <1>1
  <2>2. q \in [1 .. Len(s.branches) -> Branch]
    BY <1>2, <2>1
  <2> QED BY <2>1, <2>2
<1> HIDE DEF q
<1>4. t = [s EXCEPT !.open = FALSE, !.branches = q]
  BY DEF Decided, Session, q
<1>5. t \in Session
  BY <1>3, <1>4 DEF Session, Branches
<1>6. t.branches = q /\ t.graph = s.graph /\ t.stage = s.stage /\ t.at = s.at
      /\ t.open = FALSE /\ t.launching = s.launching
  BY <1>4 DEF Session
<1>7. SessionOK(t) /\ Kept(s, t)
  BY <1>3, <1>6 DEF SessionOK, Stages, Current, Kept
<1>8. Spent(t)
  BY <1>2, <1>3, <1>6 DEF Spent
<1> QED BY <1>2, <1>3, <1>5, <1>6, <1>7, <1>8

LEMMA AdvancedIs ==
  ASSUME NEW s \in Session, SessionOK(s), ~s.open, ~s.launching, s.stage <= Len(Stages(s)),
         NEW t, t = Advanced(s)
  PROVE  /\ t \in Session /\ SessionOK(t) /\ t.graph = s.graph
         /\ t.stage = s.stage + 1 /\ s.stage \in Nat
         /\ ~t.open /\ ~t.launching /\ DOMAIN t.branches = {}
<1> DEFINE q == <<>>
<1>1. q \in Branches /\ DOMAIN q = {}
  BY DEF Branches
<1> HIDE DEF q
<1>2. t = [s EXCEPT !.stage = s.stage + 1, !.branches = q]
  BY DEF Advanced, q
<1>3. s.stage \in Nat /\ s.graph \in GraphIds
  BY SessionFields
<1>4. s.stage + 1 \in Nat
  BY <1>3
<1>5. t \in Session
  BY <1>1, <1>2, <1>4 DEF Session
<1>6. t.branches = q /\ t.graph = s.graph /\ t.stage = s.stage + 1
      /\ t.open = s.open /\ t.launching = s.launching
  BY <1>2 DEF Session
<1>7. Len(Graphs[s.graph]) \in Nat
  BY <1>3, GraphTyped
<1>8. SessionOK(t)
  BY <1>3, <1>6, <1>7 DEF SessionOK, Stages
<1> QED BY <1>1, <1>3, <1>5, <1>6, <1>8

LEMMA OpenedIs ==
  ASSUME NEW s \in Session, SessionOK(s), s.stage <= Len(Stages(s)), now \in Nat,
         NEW t, t = Opened(s)
  PROVE  /\ t \in Session /\ SessionOK(t)
         /\ t.graph = s.graph /\ t.stage = s.stage /\ t.at = now /\ t.open /\ t.launching
         /\ DOMAIN t.branches = DOMAIN Current(s).delays
         /\ DOMAIN t.branches \subseteq Nat
         /\ \A b \in DOMAIN t.branches : t.branches[b] = NewBranch
<1> DEFINE q == [b \in DOMAIN Current(s).delays |-> NewBranch]
<1>1. s.graph \in GraphIds /\ s.stage \in Nat
  BY DEF Session
<1>2. Current(s).delays \in Seq(Nat)
  <2>1. Len(Graphs[s.graph]) \in Nat
    BY <1>1, GraphTyped
  <2>2. s.stage \in 1 .. Len(Graphs[s.graph])
    BY <1>1, <2>1 DEF SessionOK, Stages
  <2> QED BY <1>1, <2>2, GraphTyped DEF Current, Stages
<1>3. NewBranch \in Branch
  BY DEF NewBranch, Branch
<1>4. q \in Seq(Branch) /\ DOMAIN q = DOMAIN Current(s).delays /\ DOMAIN q \subseteq Nat
  <2> DEFINE d == Current(s).delays
  <2> HIDE DEF d
  <2>0. d \in Seq(Nat)
    BY <1>2 DEF d
  <2>1. DOMAIN d = 1 .. Len(d) /\ Len(d) \in Nat
    BY <2>0
  <2>2. [b \in DOMAIN d |-> NewBranch] \in [1 .. Len(d) -> Branch]
    BY <1>3, <2>1
  <2>3. [b \in DOMAIN d |-> NewBranch] \in Seq(Branch)
    BY <2>1, <2>2
  <2> QED BY <2>1, <2>3 DEF d
<1>5. \A b \in DOMAIN q : q[b] = NewBranch
  OBVIOUS
<1> HIDE DEF q
<1>6. t = [s EXCEPT !.at = now, !.open = TRUE, !.launching = TRUE, !.branches = q]
  BY DEF Opened, q
<1>7. t \in Session
  BY <1>4, <1>6 DEF Session, Branches
<1>8. t.branches = q /\ t.graph = s.graph /\ t.stage = s.stage /\ t.at = now
      /\ t.open = TRUE /\ t.launching = TRUE
  BY <1>6 DEF Session
<1>9. SessionOK(t)
  BY <1>4, <1>8 DEF SessionOK, Stages, Current
<1> QED BY <1>4, <1>5, <1>7, <1>8, <1>9

-----------------------------------------------------------------------------
\* What the stack of a reachable state is made of.
LEMMA TopViews ==
  ASSUME Typed, Shaped, stack # <<>>
  PROVE  /\ Over(stack, Below, Top)
         /\ Top \in FrameRecord /\ Below \in Stacks
         /\ Linked(Below) /\ Link(Top, Under(Below)) /\ Apart(Below)
         /\ \A g \in All(Below) : ~Clash(Top, g)
         /\ All(stack) = All(Below) \cup {Top} /\ All(stack) \subseteq FrameRecord
         /\ Below # <<>> => Under(Below) \in All(Below)
<1>1. stack \in Stacks /\ Linked(stack) /\ Apart(stack)
  BY DEF Typed, Shaped
<1>2. Over(stack, Below, Top)
  BY <1>1, OverTop
<1>3. Below \in Stacks
  BY <1>2 DEF Over
<1> QED BY <1>1, <1>2, <1>3, StackFrames DEF Over

LEMMA OverIds ==
  ASSUME NEW t, NEW s, NEW f, Over(t, s, f), NEW op
  PROVE  /\ f.op = op => IdsOf(t, op) = IdsOf(s, op) \cup {f.id}
         /\ f.op # op => IdsOf(t, op) = IdsOf(s, op)
         /\ Has(t, op) <=> Has(s, op) \/ f.op = op
<1>1. All(t) = All(s) \cup {f}
  BY DEF Over
<1>2. f.op = op => IdsOf(t, op) = IdsOf(s, op) \cup {f.id}
  BY <1>1 DEF IdsOf
<1>3. f.op # op => IdsOf(t, op) = IdsOf(s, op)
  BY <1>1 DEF IdsOf
<1>4. Has(t, op) <=> Has(s, op) \/ f.op = op
  BY <1>1 DEF Has
<1> QED BY <1>2, <1>3, <1>4

LEMMA InIds ==
  ASSUME NEW s, NEW op, NEW id
  PROVE  id \in IdsOf(s, op) <=> \E f \in All(s) : f.op = op /\ f.id = id
BY DEF IdsOf

\* A step of the stack alone.
Quiet ==
  /\ UNCHANGED <<tables, broken>> /\ (Open' => Open)
  /\ \A f \in All(stack) : f.op \in {"decided", "finish"} => f \in All(stack')
  /\ \A f \in All(stack') : f.op \in {"decided", "finish"} => f \in All(stack)
  /\ \A f \in All(stack') : Concerns(f) => f.id \in Ids /\ status[f.id] \notin {"new", "queued"}
  /\ \A f \in All(stack) : f.op \in Loops /\ f.id \in Present =>
       \E g \in All(stack') : g.op \in Loops /\ g.id = f.id

LEMMA QuietStep ==
  ASSUME Staged, Placed, Queued, Listed, Hooked, Quiet
  PROVE  Staged' /\ Placed' /\ Queued' /\ Listed' /\ Hooked'
<1>1. /\ nextId' = nextId /\ status' = status /\ sessions' = sessions /\ byGraph' = byGraph
      /\ queued' = queued /\ live' = live /\ broken' = broken /\ (Open' => Open)
      /\ Present' = Present
  BY DEF Quiet, tables, Present
<1>2. \A op \in {"decided", "finish"} : IdsOf(stack', op) = IdsOf(stack, op)
  BY DEF Quiet, IdsOf
<1>3. Staged'
  <2>1. \A id \in Present : sessions[id].launching =>
          \E f \in All(stack') : f.op \in Loops /\ f.id = id
    BY DEF Quiet, Staged
  <2> QED BY <1>1, <1>2, <2>1 DEF Staged
<1>4. Placed'
  <2>1. Ending' = Ending
    BY <1>2 DEF Ending
  <2>2. \A f \in All(stack') : Concerns(f) => f.id \in Ids /\ status[f.id] \notin {"new", "queued"}
    BY DEF Quiet
  <2> QED BY <1>1, <2>1, <2>2 DEF Placed
<1>5. Queued'
  BY <1>1 DEF Queued, Waiting
<1>6. Listed'
  <2>1. \A f \in All(stack) : f.op = "finish" => f \in All(stack')
    BY DEF Quiet
  <2> QED BY <1>1, <2>1 DEF Listed
<1>7. Hooked'
  <2>1. \A f \in All(stack) : f.op \in {"decided", "finish"} => f \in All(stack')
    BY DEF Quiet
  <2> QED BY <1>1, <2>1 DEF Hooked, Owed, IsAt
<1> QED BY <1>3, <1>4, <1>5, <1>6, <1>7

\* The application calls from the event loop, an executor or a hook.
LEMMA CallerIs ==
  ASSUME Typed, NEW call, MayCall(call)
  PROVE  /\ Open /\ Under(stack).op \in Bases
         /\ stack # <<>> => Top.op \in UserFrames
<1>1. stack # <<>> => Top.op \in UserFrames
  BY Constants_Assumption DEF MayCall
<1>2. stack = <<>> => Under(stack).op = "loop"
  BY DEF Under, EventLoop, Frame
<1> QED BY <1>1, <1>2 DEF MayCall, Open, Under, Top, Bases

\* A frame stands within a process when one is below it.
LEMMA TopWithin ==
  ASSUME NEW t, NEW s, NEW f, Over(t, s, f)
  PROVE  /\ Has(s, "process") => f \in Inner(t) /\ Inner(s) \subseteq Inner(t) /\ Outer(t) = Outer(s)
         /\ ~Has(s, "process") => Inner(t) = {} /\ Outer(t) = Outer(s) \cup {f}
         /\ Outer(s) \subseteq Outer(t)
BY DEF Over

\* No process below: every frame is outside it.
LEMMA AllOuter ==
  ASSUME NEW s \in Stacks, ~Has(s, "process")
  PROVE  Inner(s) = {} /\ Outer(s) = All(s)
<1>1. Inner(s) = {}
  BY DEF Inner, Within, Has, All
<1> QED BY <1>1, StackFrames

LEMMA AgainKept ==
  ASSUME /\ \A f \in All(stack) : f.op = "process" => f \in All(stack')
         /\ IdsOf(stack, "decided") \subseteq IdsOf(stack', "decided")
         /\ \A q \in All(stack) : q.op = "process" /\ q.then # "pick" /\ ~IsAt(q.id, q.stage) =>
              ~IsAt(q.id, q.stage)',
         Again
  PROVE  Again'
<1>1. PICK q \in All(stack) : Turns(q) \/ WillChange(q)
  BY DEF Again
<1>2. q \in All(stack') /\ q.op = "process"
  BY <1>1 DEF Turns, WillChange
<1>3. Turns(q) \/ (q.then # "pick" /\ (~IsAt(q.id, q.stage)' \/ q.id \in IdsOf(stack', "decided")))
  BY <1>1, <1>2 DEF WillChange, Changed
<1> QED BY <1>2, <1>3 DEF Again, Turns, WillChange, Changed

LEMMA AttendedKept ==
  ASSUME /\ \A f \in All(stack) : f.op \in {"process", "due"} => f \in All(stack')
         /\ IdsOf(stack, "decided") \subseteq IdsOf(stack', "decided")
         /\ \A q \in All(stack) : q.op = "process" /\ q.then # "pick" /\ ~IsAt(q.id, q.stage) =>
              ~IsAt(q.id, q.stage)'
         /\ Called => Called',
         NEW x, DueBranches(sessions[x])' \subseteq DueBranches(sessions[x]),
         Attended(x), ~AtTop(x)
  PROVE  Attended(x)'
<1>1. Again => Again'
  BY AgainKept
<1>2. Deciding(x) => Deciding(x)'
  BY DEF Deciding
<1>3. Starts(x) => Starts(x)'
  BY DEF Starts
<1>4. Listing(x) => Listing(x)'
  BY DEF Listing
<1> QED BY <1>1, <1>2, <1>3, <1>4 DEF Attended

\* A step of the stack that keeps the frames that see to a session.
LEMMA MovingKept ==
  ASSUME /\ sessions' = sessions /\ now' = now /\ phase' = phase /\ late' = late
         /\ \A f \in All(stack) : f.op \in {"process", "due"} => f \in All(stack')
         /\ IdsOf(stack, "decided") \subseteq IdsOf(stack', "decided")
         /\ Called => Called',
         Moving,
         Open => \A x \in Present \ late : AtTop(x) => Fine(x) \/ Attended(x)',
         Open => Excused'
  PROVE  Moving'
<1> SUFFICES ASSUME Open' PROVE Excused' /\ \A x \in Present' \ late' : Fine(x)' \/ Attended(x)'
  BY DEF Moving
<1>1. Open /\ Present' = Present
  BY DEF Open, Present
<1>2. \A q : ~IsAt(q.id, q.stage) => ~IsAt(q.id, q.stage)'
  BY DEF IsAt, Present
<1>3. ASSUME NEW x \in Present, x \notin late PROVE Fine(x)' \/ Attended(x)'
  <2>1. DueBranches(sessions[x])' = DueBranches(sessions[x])
    BY DEF DueBranches, Current, Stages
  <2>2. Fine(x) => Fine(x)'
    BY <2>1 DEF Fine, Calm, NoDue, Verdict, Settled, Succeeded, Current, Stages
  <2>3. Fine(x) \/ Attended(x)
    BY <1>1, <1>3 DEF Moving
  <2>4. Attended(x) /\ ~AtTop(x) => Attended(x)'
    BY <1>2, <2>1, AttendedKept
  <2>5. AtTop(x) => Fine(x) \/ Attended(x)'
    BY <1>1, <1>3
  <2> QED BY <2>2, <2>3, <2>4, <2>5
<1> QED BY <1>1, <1>3

\* What every frame satisfies.
FrameOK(f) ==
  /\ f.op \in {"begin", "finish"} => f.graph \in GraphIds
  /\ f.op \in {"begin", "process"} => f.list \subseteq Ids
  /\ f.op = "finish" => f.then \in Final
  /\ Concerns(f) => f.id \in Ids /\ status[f.id] \notin {"new", "queued"}
  /\ Loop(f) /\ Executor(f) /\ Passed(f)

LEMMA FramesOK ==
  ASSUME IInv
  PROVE  \A f \in All(stack) : FrameOK(f)
<1>1. \A f \in All(stack) : /\ f.op \in {"begin", "finish"} => f.graph \in GraphIds
                            /\ f.op \in {"begin", "process"} => f.list \subseteq Ids
                            /\ f.op = "finish" => f.then \in Final
  BY DEF IInv, Typed
<1>2. \A f \in All(stack) : Concerns(f) => f.id \in Ids /\ status[f.id] \notin {"new", "queued"}
  BY DEF IInv, Placed
<1>3. \A f \in All(stack) : Loop(f) /\ Executor(f) /\ Passed(f)
  BY DEF IInv, Framed
<1> QED BY <1>1, <1>2, <1>3 DEF FrameOK

\* A step that changes the stack alone.
LEMMA StackOnly ==
  ASSUME IInv, UNCHANGED <<now, phase, tables, ghosts>>,
         stack' \in Stacks, Shaped', Tops', Moving',
         \A f \in All(stack') : f \in All(stack) \/ FrameOK(f),
         \A f \in All(stack) : f.op \in {"decided", "finish"} => f \in All(stack'),
         \A f \in All(stack') : f.op \in {"decided", "finish"} => f \in All(stack),
         \A f \in All(stack) : f.op \in Loops /\ f.id \in Present =>
           \E g \in All(stack') : g.op \in Loops /\ g.id = f.id
  PROVE  IInv'
<1>1. /\ nextId' = nextId /\ status' = status /\ sessions' = sessions /\ byGraph' = byGraph
      /\ queued' = queued /\ live' = live /\ broken' = broken /\ late' = late /\ now' = now
      /\ phase' = phase /\ Present' = Present
  BY DEF tables, ghosts, Present
<1>2. \A f \in All(stack') : FrameOK(f)
  BY FramesOK
<1>3. TypeOK'
  BY <1>1 DEF IInv, TypeOK, Stages
<1>4. Typed'
  <2>1. \A f \in All(stack') : /\ f.op \in {"begin", "finish"} => f.graph \in GraphIds
                               /\ f.op \in {"begin", "process"} => f.list \subseteq Ids
                               /\ f.op = "finish" => f.then \in Final
    BY <1>2 DEF FrameOK
  <2> QED BY <1>1, <2>1 DEF IInv, Typed, SessionOK, Stages, Current
<1>5. Framed'
  <2>1. \A f \in All(stack') : Loop(f) /\ Executor(f) /\ Passed(f)
    BY <1>2 DEF FrameOK
  <2>2. \A f \in All(stack') : Loop(f)' /\ Executor(f)' /\ Passed(f)'
    BY <1>1, <2>1 DEF Loop, Executor, Passed
  <2> QED BY <2>2 DEF Framed
<1>6. Staged' /\ Placed' /\ Queued' /\ Listed' /\ Hooked'
  <2>1. \A f \in All(stack') : Concerns(f) => f.id \in Ids /\ status[f.id] \notin {"new", "queued"}
    BY <1>2 DEF FrameOK
  <2>2. UNCHANGED <<tables, broken>> /\ (Open' => Open)
    BY <1>1 DEF tables, Open
  <2>3. Quiet
    BY <2>1, <2>2 DEF Quiet
  <2>4. Staged /\ Placed /\ Queued /\ Listed /\ Hooked
    BY DEF IInv
  <2> QED BY <2>3, <2>4, QuietStep
<1> QED BY <1>3, <1>4, <1>5, <1>6 DEF IInv

LEMMA BeginCancelKeeps ==
  ASSUME IInv, BeginCancel
  PROVE  IInv'
<1> DEFINE r == Rest(Top)
           f == Frame("cancel", Min(Top.list))
<1>a. Typed /\ Shaped /\ Tops /\ Moving
  BY DEF IInv, Framed
<1>b. /\ stack # <<>> /\ Top.op = "begin" /\ Top.list # {} /\ stack' = <<f, r>> \o Below
      /\ UNCHANGED <<now, phase, tables, ghosts>>
  BY DEF BeginCancel, In
<1>c. sessions' = sessions /\ late' = late /\ now' = now /\ phase' = phase
  BY <1>b DEF tables, ghosts
<1>d. /\ Over(stack, Below, Top)
      /\ Top \in FrameRecord /\ Below \in Stacks
      /\ Linked(Below) /\ Link(Top, Under(Below)) /\ Apart(Below)
      /\ All(stack) = All(Below) \cup {Top}
  BY <1>a, <1>b, TopViews
<1>e. Top.list \subseteq Ids /\ Top.graph \in GraphIds /\ Min(Top.list) \in Top.list
  BY <1>a, <1>b, <1>d, FirstOf DEF Typed
<1>f. r \in FrameRecord /\ f \in FrameRecord
  BY <1>d, <1>e, RestTyped, IdsTyped, FrameTyped
<1>g. /\ r.op = "begin" /\ r.id = Top.id /\ r.graph = Top.graph /\ r.list \subseteq Top.list
      /\ f.op = "cancel"
  BY <1>b, <1>d, RestTyped DEF Frame
<1> HIDE DEF r, f
<1>h. PICK u : Over(u, Below, r) /\ Over(stack', u, f)
  BY <1>b, <1>d, <1>f, OverTwo
<1>i. All(stack') = All(Below) \cup {r, f} /\ stack' \in Stacks
  BY <1>h DEF Over
<1>1. Shaped'
  <2>1. Link(r, Under(Below)) /\ Link(f, r)
    BY <1>b, <1>d, <1>g DEF Link, AboutSession, Loops, Bases, UserFrames
  <2>2. \A g : ~Clash(r, g) /\ ~Clash(f, g)
    BY <1>g DEF Clash, Loops
  <2> QED BY <1>d, <1>h, <2>1, <2>2 DEF Over, Shaped
<1>2. Tops'
  <2>1. Top' = f /\ Below' = u /\ All(u) = All(Below) \cup {r}
    BY <1>h DEF Over, Top, Below
  <2> QED BY <1>a, <1>b, <1>c, <1>g, <2>1 DEF Tops, InProcess, In, Loops, Present
<1>3. \A g \in {r, f} : FrameOK(g)
  BY <1>e, <1>g DEF FrameOK, Concerns, AboutSession, Loop, Executor, Passed, Loops
<1>4. Moving'
  <2>1. IdsOf(stack', "decided") = IdsOf(stack, "decided")
    BY <1>b, <1>d, <1>g, <1>i DEF IdsOf
  <2>2. Called => Called'
    BY <1>b, <1>d, <1>h, <1>g DEF Over, Called, Has
  <2>3. \A x : ~AtTop(x)
    BY <1>b DEF AtTop, InProcess, In
  <2>4. Again => Again'
    <3>1. \A q : ~IsAt(q.id, q.stage) => ~IsAt(q.id, q.stage)'
      BY <1>c DEF IsAt, Present
    <3> QED BY <1>b, <1>d, <1>i, <2>1, <3>1, AgainKept
  <2>5. Open => Excused'
    <3>1. Has(Below, "process") => Top \in Inner(stack)
      BY <1>d DEF Over
    <3>2. Open /\ Has(Below, "process") => Again \/ Delayed(stack)
      BY <1>a, <1>b, <3>1 DEF Moving, Excused, Loops
    <3>3. Delayed(stack) => Delayed(stack')
      BY <1>b, <1>d, <1>h DEF Over
    <3>4. ~Has(Below, "process") => Inner(stack') = {}
      BY <1>g, <1>h DEF Over, Has
    <3> QED BY <2>4, <3>2, <3>3, <3>4 DEF Excused
  <2> QED BY <1>a, <1>b, <1>c, <1>d, <1>i, <2>1, <2>2, <2>3, <2>5, MovingKept
<1> QED BY <1>b, <1>d, <1>i, <1>g, <1>1, <1>2, <1>3, <1>4, StackOnly DEF Loops

\* The frame below the top.
LEMMA BelowIs ==
  ASSUME Typed, Shaped, Tops, stack # <<>>, Below # <<>>
  PROVE  /\ Over(Below, Tail(Below), Head(Below)) /\ Under(Below) = Head(Below)
         /\ Head(Below) \in All(Below) /\ Tail(Below) \in Stacks
         /\ Linked(Tail(Below)) /\ Link(Head(Below), Under(Tail(Below))) /\ Apart(Tail(Below))
         /\ \A g \in All(Tail(Below)) : ~Clash(Head(Below), g)
         /\ All(Below) = All(Tail(Below)) \cup {Head(Below)}
         /\ Top.op # "process" => ~(Head(Below).op = "process" /\ Head(Below).then = "open")
         /\ \A f \in All(Below) : f.op \in Loops /\ f.id \in Present => sessions[f.id].launching
<1>1. /\ Below \in Stacks /\ Linked(Below) /\ Link(Top, Under(Below)) /\ Apart(Below)
      /\ Top \in FrameRecord /\ \A g \in All(Below) : ~Clash(Top, g)
  BY TopViews
<1>2. Head(Below) \in FrameRecord /\ Tail(Below) \in Stacks
      /\ Below = <<Head(Below)>> \o Tail(Below)
  BY <1>1, Popped
<1>3. Over(Below, Tail(Below), Head(Below))
  BY <1>2, OverPush
<1>4. Under(Below) = Head(Below)
  BY DEF Under
<1>5. Linked(Tail(Below)) /\ Link(Head(Below), Under(Tail(Below))) /\ Apart(Tail(Below))
      /\ (\A g \in All(Tail(Below)) : ~Clash(Head(Below), g))
      /\ All(Below) = All(Tail(Below)) \cup {Head(Below)}
  BY <1>1, <1>3 DEF Over
<1>6. Top.op # "process" => ~(Head(Below).op = "process" /\ Head(Below).then = "open")
  BY <1>1, <1>4 DEF Link, OnProcess, FrameRecord, AboutSession, Loops, UserFrames, Bases
<1>7. \A f \in All(Below) : f.op \in Loops /\ f.id \in Present => sessions[f.id].launching
  BY DEF Tops
<1> QED BY <1>2, <1>3, <1>4, <1>5, <1>6, <1>7

\* With the top gone the frames below satisfy what a top must.
LEMMA TopsPopped ==
  ASSUME Typed, Shaped, Tops, stack # <<>>, Top.op # "process", stack' = Below,
         \A id \in Present' : (\E f \in All(Below) : f.op \in Loops /\ f.id = id) =>
           id \in Present /\ sessions'[id].launching = sessions[id].launching
  PROVE  Tops'
<1>1. CASE Below = <<>>
  BY <1>1 DEF Tops, InProcess, In
<1>2. CASE Below # <<>>
  <2>1. /\ Head(Below) \in All(Below) /\ All(Below) = All(Tail(Below)) \cup {Head(Below)}
        /\ ~(Head(Below).op = "process" /\ Head(Below).then = "open")
        /\ \A f \in All(Below) : f.op \in Loops /\ f.id \in Present => sessions[f.id].launching
    BY <1>2, BelowIs
  <2>2. Top' = Head(Below) /\ Below' = Tail(Below)
    BY DEF Top, Below
  <2>3. \A f \in All(Below) : f.op \in Loops /\ f.id \in Present' => sessions'[f.id].launching
    BY <2>1
  <2>4. ~InProcess("open")'
    BY <2>1, <2>2 DEF InProcess, In
  <2> QED BY <2>1, <2>2, <2>3, <2>4 DEF Tops, Loops
<1> QED BY <1>1, <1>2

\* The frame on top is gone, and no session needs it.
LEMMA PopsMoving ==
  ASSUME IInv, stack # <<>>, stack' = Below, UNCHANGED <<now, phase, sessions, late>>,
         Top.op \notin {"process", "decided"},
         Top.op \in Loops => Top.id \notin Present,
         Top.op = "callProcess" => ~Open \/ Has(Below, "process"),
         \A x \in Present : AtTop(x) => Fine(x)
  PROVE  Shaped' /\ Tops' /\ Moving'
<1>a. Typed /\ Shaped /\ Tops /\ Moving
  BY DEF IInv, Framed
<1>b. sessions' = sessions /\ late' = late /\ now' = now /\ phase' = phase /\ Present' = Present
  BY DEF Present
<1>c. /\ Over(stack, Below, Top)
      /\ Top \in FrameRecord /\ Below \in Stacks
      /\ Linked(Below) /\ Link(Top, Under(Below)) /\ Apart(Below)
      /\ All(stack) = All(Below) \cup {Top}
  BY <1>a, TopViews
<1>1. Shaped'
  BY <1>c DEF Shaped
<1>2. Tops'
  BY <1>a, <1>b, TopsPopped
<1>3. Moving'
  <2>1. IdsOf(stack, "decided") = IdsOf(stack', "decided")
    BY <1>c DEF IdsOf
  <2>2. Open /\ Called => Called'
    BY <1>c DEF Over, Called
  <2>3. \A f \in All(stack) : f.op = "process" => f \in All(stack')
    BY <1>c
  <2>4. \A f \in All(stack) : f.op = "due" /\ f.id \in Present => f \in All(stack')
    BY <1>c DEF Loops
  <2>5. Again => Again'
    <3>1. \A q : ~IsAt(q.id, q.stage) => ~IsAt(q.id, q.stage)'
      BY <1>b DEF IsAt
    <3> QED BY <2>1, <2>3, <3>1, AgainKept
  <2>6. Open => Excused'
    <3>1. CASE Delayed(stack) /\ ~Delayed(Below)
      <4>1. Top.op = "executor" /\ Under(Below).op = "due"
        BY <1>c, <3>1 DEF Over
      <4>2. Below # <<>>
        BY <4>1 DEF Under, EventLoop, Frame
      <4> DEFINE B == Tail(Below)
      <4>3. /\ Over(Below, B, Head(Below)) /\ Link(Head(Below), Under(B)) /\ B \in Stacks
            /\ Linked(B) /\ Apart(B) /\ Head(Below).op = "due"
        BY <1>a, <4>1, <4>2, BelowIs
      <4>4. B # <<>> /\ Head(B).op = "process"
        BY <4>3 DEF Link, OnProcess, Loops, Under, EventLoop, Frame
      <4>5. Over(B, Tail(B), Head(B))
        <5>1. Head(B) \in FrameRecord /\ Tail(B) \in Stacks /\ B = <<Head(B)>> \o Tail(B)
          BY <4>3, <4>4, Popped
        <5> QED BY <5>1, OverPush
      <4>6. ~Has(Tail(B), "process")
        BY <4>3, <4>4, <4>5 DEF Over, Has, Clash
      <4>7. Inner(B) = {} /\ Inner(Below) \subseteq {Head(Below)}
        <5>1. Inner(B) = {}
          BY <4>5, <4>6 DEF Over
        <5> QED BY <4>3, <5>1 DEF Over
      <4> QED BY <4>3, <4>7 DEF Excused, Loops
    <3>2. CASE Delayed(stack) => Delayed(Below)
      <4>1. Inner(stack') \subseteq Inner(stack)
        BY <1>c, AllOuter DEF Over
      <4> QED BY <1>a, <2>5, <3>2, <4>1 DEF Moving, Excused
    <3> QED BY <3>1, <3>2
  <2>7. ASSUME Open, NEW x \in Present, x \notin late PROVE Fine(x)' \/ Attended(x)'
    <3>1. Fine(x) => Fine(x)'
      BY <1>b DEF Fine, Calm, NoDue, Verdict, Settled, Succeeded, Current, Stages, DueBranches
    <3>2. Called \/ Again => Attended(x)'
      BY <2>2, <2>5, <2>7 DEF Attended
    <3>3. Deciding(x) => Deciding(x)'
      BY <2>1 DEF Deciding
    <3>4. Starts(x) => Starts(x)'
      BY <1>b, <2>4 DEF Starts, DueBranches, Current, Stages
    <3>5. Listing(x) => Listing(x)'
      BY <2>3 DEF Listing
    <3>6. Fine(x) \/ Attended(x)
      BY <1>a, <2>7 DEF Moving
    <3> QED BY <3>1, <3>2, <3>3, <3>4, <3>5, <3>6 DEF Attended
  <2> QED BY <1>b, <2>6, <2>7 DEF Moving, Open
<1> QED BY <1>1, <1>2, <1>3

LEMMA Pops ==
  ASSUME IInv, stack # <<>>, stack' = Below, UNCHANGED <<now, phase, tables, ghosts>>,
         Top.op \notin {"process", "decided", "finish"},
         Top.op \in Loops => Top.id \notin Present,
         Top.op = "callProcess" => ~Open \/ Has(Below, "process"),
         \A x \in Present : AtTop(x) => Fine(x)
  PROVE  IInv'
<1>1. Shaped' /\ Tops' /\ Moving'
  <2>1. UNCHANGED <<now, phase, sessions, late>>
    BY DEF tables, ghosts
  <2> QED BY <2>1, PopsMoving
<1>2. All(stack) = All(Below) \cup {Top} /\ Below \in Stacks
  BY TopViews DEF IInv
<1>3. /\ \A f \in All(stack) : f.op \in {"decided", "finish"} => f \in All(stack')
      /\ \A f \in All(stack) : f.op \in Loops /\ f.id \in Present => f \in All(stack')
      /\ All(stack') \subseteq All(stack) /\ stack' \in Stacks
  BY <1>2
<1> QED BY <1>1, <1>3, StackOnly

LEMMA HookEndsKeeps ==
  ASSUME IInv, HookEnds
  PROVE  IInv'
<1>1. /\ stack # <<>> /\ Top.op \in {"hook", "heldHook"} /\ stack' = Below
      /\ UNCHANGED <<now, phase, tables, ghosts>>
  BY DEF HookEnds, In
<1>2. \A x \in Present : ~AtTop(x)
  BY <1>1 DEF AtTop, InProcess, In
<1> QED BY <1>1, <1>2, Pops DEF Loops

-----------------------------------------------------------------------------
\* process.

\* Without a process no stage starts its branches.
LEMMA NoLoops ==
  ASSUME NEW s \in Stacks, Linked(s), ~Has(s, "process")
  PROVE  \A f \in All(s) : f.op \notin Loops \cup {"executor"}
<1>1. \A f \in All(s) : f.op \notin Loops
  BY LoopInProcess DEF Has
<1>2. \A f \in All(s) : f.op # "executor"
  BY <1>1, ExecutorInLoop
<1> QED BY <1>1, <1>2

\* process runs alone: below it no stage starts its branches, and the stages
\* that are decided there were settled from outside.
LEMMA ProcessTop ==
  ASSUME IInv, stack # <<>>, Top.op \in {"process", "callProcess"},
         Top.op = "callProcess" => ~Has(Below, "process")
  PROVE  /\ ~Has(Below, "process") /\ Inner(Below) = {} /\ Outer(Below) = All(Below)
         /\ Under(Below).op \in Bases \cup {"begin"}
         /\ \A f \in All(stack) : f.op \notin Loops \cup {"executor"}
         /\ \A id \in Present : ~sessions[id].launching
         /\ \A id \in IdsOf(stack, "decided") : \E f \in Outer(Below) : f.op = "decided" /\ f.flag
         /\ Top.op = "process" /\ Top.then # "pick" => Top.id \notin IdsOf(stack, "decided")
         /\ IdsOf(stack, "decided") = IdsOf(Below, "decided")
<1>1. /\ Below \in Stacks /\ Linked(Below) /\ Link(Top, Under(Below))
      /\ All(stack) = All(Below) \cup {Top}
      /\ \A g \in All(Below) : ~Clash(Top, g)
  BY TopViews DEF IInv
<1>2. ~Has(Below, "process")
  BY <1>1 DEF Has, Clash
<1>3. Inner(Below) = {} /\ Outer(Below) = All(Below)
  BY <1>1, <1>2, AllOuter
<1>4. Under(Below).op \in Bases \cup {"begin"}
  BY <1>1 DEF Link
<1>5. \A f \in All(stack) : f.op \notin Loops \cup {"executor"}
  BY <1>1, <1>2, NoLoops DEF Loops
<1>6. \A id \in Present : ~sessions[id].launching
  BY <1>5 DEF IInv, Staged
<1>7. ASSUME NEW id \in IdsOf(stack, "decided")
      PROVE  \E f \in Outer(Below) : f.op = "decided" /\ f.flag
  <2>1. PICK f \in All(stack) : f.op = "decided"
    BY <1>7 DEF IdsOf
  <2>2. f \in Outer(Below)
    BY <1>1, <1>3, <2>1
  <2> QED BY <1>1, <2>1, <2>2, DecidedOutside
<1>8. IdsOf(stack, "decided") = IdsOf(Below, "decided")
  BY <1>1 DEF IdsOf
<1>9. Top.op = "process" /\ Top.then # "pick" => Top.id \notin IdsOf(Below, "decided")
  BY <1>1 DEF IdsOf, Clash
<1> QED BY <1>2, <1>3, <1>4, <1>5, <1>6, <1>7, <1>8, <1>9

\* The frame of process replaced.
LEMMA ProcessStep ==
  ASSUME IInv, stack # <<>>, Top.op \in {"process", "callProcess"}, ~Has(Below, "process"),
         UNCHANGED <<now, phase, tables, ghosts>>,
         NEW p \in FrameRecord, p.op = "process", FrameOK(p), stack' = <<p>> \o Below,
         p.then = "open" => p.flag /\ p.id \in Present /\ ~sessions[p.id].open,
         p.then # "pick" => p.id \notin IdsOf(Below, "decided"),
         Open => \A x \in Present \ late : Fine(x) \/ Attended(x)'
  PROVE  IInv'
<1>a. /\ Over(stack, Below, Top) /\ Below \in Stacks /\ Linked(Below) /\ Apart(Below)
      /\ Link(Top, Under(Below)) /\ All(stack) = All(Below) \cup {Top}
  BY TopViews DEF IInv
<1>b. Over(stack', Below, p)
  BY <1>a, OverPush
<1>c. sessions' = sessions /\ late' = late /\ now' = now /\ phase' = phase /\ Present' = Present
  BY DEF tables, ghosts, Present
<1>d. \A f \in All(stack) : f.op \notin Loops
  BY ProcessTop
<1>e. All(stack') = All(Below) \cup {p} /\ stack' \in Stacks
  BY <1>b DEF Over
<1>1. Shaped'
  <2>1. Link(p, Under(Below))
    BY <1>a DEF Link, AboutSession, Loops
  <2>2. \A g \in All(Below) : ~Clash(p, g)
    BY DEF Has, Clash, Loops, IdsOf
  <2> QED BY <1>a, <1>b, <2>1, <2>2 DEF Over, Shaped
<1>2. Tops'
  <2>1. Top' = p /\ Below' = Below
    BY <1>b DEF Over, Top, Below
  <2> QED BY <1>a, <1>c, <1>d, <2>1 DEF Tops, InProcess, In
<1>3. Moving'
  <2>1. Inner(stack') = {}
    BY <1>b DEF Over
  <2>2. \A x \in Present : Fine(x) => Fine(x)'
    BY <1>c DEF Fine, Calm, NoDue, Verdict, Settled, Succeeded, Current, Stages, DueBranches
  <2> QED BY <1>c, <2>1, <2>2 DEF Moving, Excused, Open
<1> QED BY <1>a, <1>d, <1>e, <1>1, <1>2, <1>3, StackOnly

LEMMA CallProcessKeeps ==
  ASSUME IInv, CallProcess
  PROVE  IInv'
<1>a. stack # <<>> /\ Top.op = "callProcess" /\ UNCHANGED <<now, phase, tables, ghosts>>
  BY DEF CallProcess, In
<1>b. /\ Below \in Stacks /\ All(stack) = All(Below) \cup {Top} /\ stack \in Stacks
  BY <1>a, TopViews DEF IInv, Typed
<1>c. Processing <=> Has(Below, "process")
  BY <1>a, <1>b, StackReads DEF Has
<1>1. CASE ~Open \/ Has(Below, "process")
  <2>1. stack' = Below
    BY <1>1, <1>c DEF CallProcess, Open
  <2>2. \A x \in Present : ~AtTop(x)
    BY <1>a DEF AtTop, InProcess, In
  <2> QED BY <1>1, <1>a, <2>1, <2>2, Pops DEF Loops
<1>2. CASE Open /\ ~Has(Below, "process")
  <2> DEFINE p == ProcessFrame(Present)
  <2>1. Present \subseteq Ids
    BY DEF IInv, TypeOK
  <2>2. Frame("process", 0) \in FrameRecord /\ Present \in SUBSET Nat
    BY <2>1, FrameTyped, IdsTyped
  <2>3. p \in FrameRecord
    BY <2>2 DEF ProcessFrame, FrameRecord, Steps
  <2>4. p.op = "process" /\ p.then = "pick" /\ p.list = Present
    BY DEF ProcessFrame, Frame
  <2>5. stack' = <<p>> \o Below
    BY <1>2, <1>c DEF CallProcess, Open
  <2> HIDE DEF p
  <2>6. FrameOK(p)
    BY <2>1, <2>4 DEF FrameOK, Concerns, AboutSession, Loop, Executor, Passed, Loops
  <2>7. p \in All(stack')
    BY <1>b, <2>3, <2>5, AllPushed
  <2>8. \A x \in Present : Attended(x)'
    BY <2>4, <2>7 DEF Attended, Listing
  <2> QED BY <1>2, <1>a, <2>3, <2>4, <2>5, <2>6, <2>8, ProcessStep
<1> QED BY <1>1, <1>2

\* What process sees to while it takes a step.
LEMMA StepViews ==
  ASSUME IInv, stack # <<>>, Top.op = "process", sessions' = sessions,
         All(Below) \subseteq All(stack'), Outer(Below) \subseteq Outer(stack')
  PROVE  /\ Called => Called'
         /\ \A x : Deciding(x) => Deciding(x)' /\ Called'
         /\ \A x : ~Starts(x)
         /\ \A x : Listing(x) => x \in Top.list
         /\ Again => Turns(Top) \/ WillChange(Top)
         /\ WillChange(Top) => Changed(Top.id, Top.stage) \/ Called'
<1>1. /\ Over(stack, Below, Top) /\ All(stack) = All(Below) \cup {Top}
  BY TopViews DEF IInv
<1>2. /\ ~Has(Below, "process") /\ Outer(Below) = All(Below)
      /\ \A f \in All(stack) : f.op \notin Loops \cup {"executor"}
      /\ \A id \in IdsOf(stack, "decided") : \E f \in Outer(Below) : f.op = "decided" /\ f.flag
  BY ProcessTop
<1>3. Called => Called'
  BY <1>1, <1>2 DEF Over, Called
<1>4. \A id \in IdsOf(stack, "decided") : Called'
  BY <1>2 DEF Called
<1>5. ASSUME NEW x, Deciding(x) PROVE Deciding(x)' /\ Called'
  <2>1. x \in IdsOf(stack, "decided")
    BY <1>5 DEF Deciding
  <2>2. x \in IdsOf(stack', "decided")
    BY <1>1, <2>1 DEF IdsOf
  <2> QED BY <1>4, <2>1, <2>2 DEF Deciding
<1>6. \A x : ~Starts(x)
  BY <1>2 DEF Starts, Loops
<1>7. \A q \in All(stack) : q.op = "process" => q = Top
  BY <1>1, <1>2 DEF Has
<1>8. \A x : Listing(x) => x \in Top.list
  BY <1>7 DEF Listing
<1>9. Again => Turns(Top) \/ WillChange(Top)
  BY <1>7 DEF Again, Turns, WillChange
<1>10. WillChange(Top) => Changed(Top.id, Top.stage) \/ Called'
  BY <1>4 DEF WillChange
<1> QED BY <1>3, <1>5, <1>6, <1>8, <1>9, <1>10

LEMMA CompareKeeps ==
  ASSUME IInv, Compare
  PROVE  IInv'
<1> DEFINE p == [Top EXCEPT !.then = "pick", !.flag = Top.flag \/ Changed(Top.id, Top.stage)]
<1>a. /\ stack # <<>> /\ Top.op = "process" /\ Top.then = "compare"
      /\ stack' = <<p>> \o Below /\ UNCHANGED <<now, phase, tables, ghosts>>
  BY DEF Compare, InProcess, In
<1>b. /\ Top \in FrameRecord /\ Below \in Stacks /\ Top \in All(stack)
      /\ ~Has(Below, "process") /\ sessions' = sessions
  BY <1>a, TopViews, ProcessTop DEF IInv, tables
<1>c. Changed(Top.id, Top.stage) \in BOOLEAN /\ Top.flag \in BOOLEAN
  BY <1>b DEF Changed, IsAt, FrameRecord
<1>d. p \in FrameRecord
  BY <1>b, <1>c DEF FrameRecord, Steps
<1>e. /\ p.op = "process" /\ p.then = "pick" /\ p.list = Top.list
      /\ p.flag <=> Top.flag \/ Changed(Top.id, Top.stage)
  BY <1>a, <1>b DEF FrameRecord
<1> HIDE DEF p
<1>f. Over(stack', Below, p)
  BY <1>a, <1>b, <1>d, OverPush
<1>g. p \in All(stack')
  BY <1>f DEF Over
<1>1. FrameOK(p)
  BY <1>a, <1>b, <1>e, FramesOK DEF FrameOK, Concerns, AboutSession, Loop, Executor, Passed, Loops
<1>2. ASSUME Open, NEW x \in Present, x \notin late PROVE Fine(x) \/ Attended(x)'
  <2>1. Fine(x) \/ Attended(x)
    BY <1>2 DEF IInv, Moving
  <2>2. ~AtTop(x)
    BY <1>a DEF AtTop, InProcess, In
  <2>3. /\ Called => Called'
        /\ Deciding(x) => Deciding(x)'
        /\ ~Starts(x)
        /\ Listing(x) => x \in Top.list
        /\ Again => Turns(Top) \/ WillChange(Top)
        /\ WillChange(Top) => Changed(Top.id, Top.stage) \/ Called'
    BY <1>a, <1>b, <1>f, StepViews, TopWithin DEF Over
  <2>4. Listing(x) => Listing(x)'
    BY <1>e, <1>g, <2>3 DEF Listing
  <2>5. Again => Again' \/ Called'
    BY <1>e, <1>g, <2>3 DEF Again, Turns
  <2> QED BY <2>1, <2>2, <2>3, <2>4, <2>5 DEF Attended
<1> QED BY <1>a, <1>b, <1>d, <1>e, <1>1, <1>2, ProcessStep

\* A frame pushed by a step of process.
LEMMA ProcessPush ==
  ASSUME IInv, stack # <<>>, Top.op = "process", UNCHANGED <<now, phase, tables, ghosts>>,
         NEW p \in FrameRecord, p.op = "process", FrameOK(p), p.then # "open",
         p.then # "pick" => p.id \notin IdsOf(Below, "decided"),
         NEW f \in FrameRecord, f.op \in {"due", "evaluate"}, FrameOK(f), Link(f, p),
         stack' = <<f, p>> \o Below,
         Open => \A x \in Present \ late : Fine(x) \/ Attended(x)'
  PROVE  IInv'
<1>a. /\ Over(stack, Below, Top) /\ Below \in Stacks /\ Linked(Below) /\ Apart(Below)
      /\ Link(Top, Under(Below)) /\ All(stack) = All(Below) \cup {Top}
      /\ \A g \in All(Below) : ~Clash(Top, g)
  BY TopViews DEF IInv
<1>b. PICK u : Over(u, Below, p) /\ Over(stack', u, f)
  BY <1>a, OverTwo
<1>c. sessions' = sessions /\ late' = late /\ now' = now /\ phase' = phase /\ Present' = Present
  BY DEF tables, ghosts, Present
<1>d. ~Has(Below, "process") /\ \A g \in All(stack) : g.op \notin Loops
  BY ProcessTop
<1>e. All(u) = All(Below) \cup {p} /\ All(stack') = All(u) \cup {f} /\ stack' \in Stacks
  BY <1>b DEF Over
<1>1. Shaped'
  <2>1. Link(p, Under(Below)) /\ Under(u) = p
    BY <1>a, <1>b DEF Link, AboutSession, Loops, Over
  <2>2. \A g \in All(Below) : ~Clash(p, g)
    BY <1>d DEF Has, Clash, Loops, IdsOf
  <2>3. \A g \in All(u) : ~Clash(f, g)
    BY <1>a, <1>d, <1>e DEF Clash, Loops
  <2> QED BY <1>a, <1>b, <2>1, <2>2, <2>3 DEF Over, Shaped
<1>2. Tops'
  <2>1. Top' = f /\ Below' = u
    BY <1>b DEF Over, Top, Below
  <2> QED BY <1>a, <1>d, <1>e, <2>1 DEF Tops, InProcess, In, Loops
<1>3. Moving'
  <2>1. Inner(u) = {} /\ Inner(stack') \subseteq {f}
    BY <1>b, <1>d, AllOuter DEF Over
  <2>2. \A x \in Present : Fine(x) => Fine(x)'
    BY <1>c DEF Fine, Calm, NoDue, Verdict, Settled, Succeeded, Current, Stages, DueBranches
  <2> QED BY <1>c, <2>1, <2>2 DEF Moving, Excused, Open, Loops
<1> QED BY <1>a, <1>d, <1>e, <1>1, <1>2, <1>3, StackOnly

LEMMA EvaluateAgainKeeps ==
  ASSUME IInv, EvaluateAgain
  PROVE  IInv'
<1> DEFINE p == [Top EXCEPT !.then = "compare"]
           f == Frame("evaluate", Top.id)
<1>a. /\ stack # <<>> /\ Top.op = "process" /\ Top.then = "evaluate"
      /\ stack' = <<f>> \o (<<p>> \o Below) /\ UNCHANGED <<now, phase, tables, ghosts>>
  BY DEF EvaluateAgain, InProcess, In, Continue
<1>b. /\ Top \in FrameRecord /\ Below \in Stacks /\ Top \in All(stack)
      /\ ~Has(Below, "process") /\ sessions' = sessions /\ now' = now
      /\ Top.id \notin IdsOf(Below, "decided") /\ Top.id \notin IdsOf(stack, "decided")
  BY <1>a, TopViews, ProcessTop DEF IInv, tables
<1>c. p \in FrameRecord /\ f \in FrameRecord
  <2>1. Top.id \in 0 .. MaxSessions
    BY <1>b DEF FrameRecord
  <2> QED BY <1>b, <2>1, FrameTyped DEF FrameRecord, Steps, AboutSession
<1>d. /\ p.op = "process" /\ p.then = "compare" /\ p.list = Top.list /\ p.id = Top.id
      /\ p.stage = Top.stage /\ p.flag = Top.flag
      /\ f.op = "evaluate" /\ f.id = Top.id /\ ~f.flag
  BY <1>a, <1>b DEF FrameRecord, Frame
<1> HIDE DEF p, f
<1>e. stack' = <<f, p>> \o Below
  BY <1>a, <1>b, <1>c, TwoPushed
<1>f. PICK u : Over(u, Below, p) /\ Over(stack', u, f)
  BY <1>b, <1>c, <1>e, OverTwo
<1>g. /\ All(stack') = All(Below) \cup {p, f} /\ Outer(Below) \subseteq Outer(stack')
      /\ Top' = f /\ stack' # <<>>
  BY <1>f, TopWithin DEF Over, Top
<1>1. FrameOK(p) /\ FrameOK(f)
  BY <1>a, <1>b, <1>d, FramesOK DEF FrameOK, Concerns, AboutSession, Loop, Executor, Passed, Loops
<1>2. Link(f, p)
  BY <1>d DEF Link, OnProcess, Loops
<1>3. ASSUME Open, NEW x \in Present, x \notin late PROVE Fine(x) \/ Attended(x)'
  <2>1. Fine(x) \/ Attended(x)
    BY <1>3 DEF IInv, Moving
  <2>2. AtTop(x) => AtTop(x)'
    <3> SUFFICES ASSUME AtTop(x) PROVE AtTop(x)'
      OBVIOUS
    <3>1. Top.id = x /\ Calm(x) /\ NoDue(x)
      BY <1>a DEF AtTop, InProcess, In
    <3>2. Calm(x)' /\ NoDue(x)'
      BY <1>b, <3>1 DEF Calm, NoDue, DueBranches, Current, Stages
    <3> QED BY <1>d, <1>g, <3>1, <3>2 DEF AtTop
  <2>3. /\ Called => Called'
        /\ Deciding(x) => Deciding(x)'
        /\ ~Starts(x)
        /\ Listing(x) => x \in Top.list
        /\ Again => Turns(Top) \/ WillChange(Top)
        /\ WillChange(Top) => Changed(Top.id, Top.stage) \/ Called'
    BY <1>a, <1>b, <1>g, StepViews
  <2>4. Listing(x) => Listing(x)'
    BY <1>d, <1>g, <2>3 DEF Listing
  <2>5. Again => Again' \/ Called'
    <3>1. Turns(p) \/ ~IsAt(p.id, p.stage) \/ Called' \/ ~Again
      BY <1>d, <2>3 DEF Turns, Changed
    <3>2. p \in All(stack') /\ p.then # "pick"
      BY <1>d, <1>g
    <3>3. Turns(p) => Again'
      BY <3>2 DEF Again, Turns
    <3>4. ASSUME ~IsAt(p.id, p.stage) PROVE Again'
      <4>1. \A q : ~IsAt(q.id, q.stage) => ~IsAt(q.id, q.stage)'
        BY <1>b DEF IsAt, Present
      <4>2. \A q \in All(stack') : q.op = "process" /\ q.then # "pick" /\ ~IsAt(q.id, q.stage) => Again'
        BY <4>1 DEF Again, WillChange, Changed
      <4> QED BY <1>d, <3>2, <3>4, <4>2
    <3> QED BY <3>1, <3>3, <3>4
  <2> QED BY <2>1, <2>2, <2>3, <2>4, <2>5 DEF Attended
<1> QED BY <1>a, <1>b, <1>c, <1>d, <1>e, <1>1, <1>2, <1>3, ProcessPush

LEMMA DuesKeeps ==
  ASSUME IInv, Dues
  PROVE  IInv'
<1> DEFINE id == Top.id
           due == IF id \in Present THEN DueBranches(sessions[id]) ELSE {}
           p == [Top EXCEPT !.then = "evaluate"]
<1>a. /\ stack # <<>> /\ Top.op = "process" /\ Top.then = "dues"
      /\ stack' = (IF due = {} THEN <<>>
                   ELSE <<[Frame("due", id) EXCEPT !.stage = sessions[id].stage, !.list = due]>>)
                  \o (<<p>> \o Below)
      /\ UNCHANGED <<now, phase, tables, ghosts>>
  BY DEF Dues, InProcess, In, Continue
<1>b. /\ Top \in FrameRecord /\ Below \in Stacks /\ Top \in All(stack)
      /\ ~Has(Below, "process") /\ sessions' = sessions /\ now' = now
      /\ Top.id \notin IdsOf(Below, "decided") /\ Top.id \notin IdsOf(stack, "decided")
  BY <1>a, TopViews, ProcessTop DEF IInv, tables
<1>c. p \in FrameRecord /\ id \in 0 .. MaxSessions
  BY <1>b DEF FrameRecord, Steps
<1>d. /\ p.op = "process" /\ p.then = "evaluate" /\ p.list = Top.list /\ p.id = Top.id
      /\ p.stage = Top.stage /\ p.flag = Top.flag
  BY <1>a, <1>b DEF FrameRecord
<1> HIDE DEF p
<1>1. FrameOK(p)
  BY <1>a, <1>b, <1>d, FramesOK DEF FrameOK, Concerns, AboutSession, Loop, Executor, Passed, Loops
<1>2. ASSUME All(Below) \subseteq All(stack'), Outer(Below) \subseteq Outer(stack'),
             p \in All(stack'), Open, NEW x \in Present, x \notin late, AtTop(x) => Attended(x)'
      PROVE  Fine(x) \/ Attended(x)'
  <2>1. Fine(x) \/ Attended(x)
    BY <1>2 DEF IInv, Moving
  <2>2. /\ Called => Called'
        /\ Deciding(x) => Deciding(x)'
        /\ ~Starts(x)
        /\ Listing(x) => x \in Top.list
        /\ Again => Turns(Top) \/ WillChange(Top)
        /\ WillChange(Top) => Changed(Top.id, Top.stage) \/ Called'
    BY <1>a, <1>b, <1>2, StepViews
  <2>3. Listing(x) => Listing(x)'
    BY <1>d, <1>2, <2>2 DEF Listing
  <2>4. Again => Again' \/ Called'
    <3>1. Turns(p) \/ ~IsAt(p.id, p.stage) \/ Called' \/ ~Again
      BY <1>d, <2>2 DEF Turns, Changed
    <3>2. p \in All(stack') /\ p.then # "pick"
      BY <1>d, <1>2
    <3>3. Turns(p) => Again'
      BY <3>2 DEF Again, Turns
    <3>4. ASSUME ~IsAt(p.id, p.stage) PROVE Again'
      <4>1. \A q : ~IsAt(q.id, q.stage) => ~IsAt(q.id, q.stage)'
        BY <1>b DEF IsAt, Present
      <4>2. \A q \in All(stack') : q.op = "process" /\ q.then # "pick" /\ ~IsAt(q.id, q.stage) => Again'
        BY <4>1 DEF Again, WillChange, Changed
      <4> QED BY <1>d, <3>2, <3>4, <4>2
    <3> QED BY <3>1, <3>3, <3>4
  <2> QED BY <1>2, <2>1, <2>2, <2>3, <2>4 DEF Attended
<1>3. ASSUME NEW x, AtTop(x)
      PROVE  x = id /\ Calm(x)' /\ DueBranches(sessions[x])' = DueBranches(sessions[x])
  <2>1. Top.id = x /\ Calm(x)
    BY <1>3 DEF AtTop
  <2> QED BY <1>b, <2>1 DEF Calm, DueBranches, Current, Stages
<1>4. CASE due = {}
  <2>1. stack' = <<p>> \o Below
    <3>1. <<>> \o (<<p>> \o Below) = <<p>> \o Below
      BY <1>b, <1>c, Pushed DEF Stacks
    <3> QED BY <1>a, <1>4, <3>1
  <2>2. Over(stack', Below, p)
    BY <1>b, <1>c, <2>1, OverPush
  <2>3. /\ All(stack') = All(Below) \cup {p} /\ Outer(Below) \subseteq Outer(stack')
        /\ Top' = p /\ stack' # <<>>
    BY <2>2, TopWithin DEF Over, Top
  <2>4. ASSUME NEW x \in Present, AtTop(x) PROVE Attended(x)'
    <3>1. NoDue(x)'
      BY <1>3, <1>4, <2>4 DEF NoDue
    <3>2. InProcess("evaluate")'
      BY <1>d, <2>3 DEF InProcess, In
    <3>3. AtTop(x)'
      BY <1>3, <1>d, <2>3, <2>4, <3>1, <3>2 DEF AtTop
    <3> QED BY <3>3 DEF Attended
  <2>5. Open => \A x \in Present \ late : Fine(x) \/ Attended(x)'
    BY <1>2, <2>3, <2>4
  <2> QED BY <1>a, <1>b, <1>c, <1>d, <1>1, <2>1, <2>5, ProcessStep
<1>5. CASE due # {}
  <2> DEFINE f == [Frame("due", id) EXCEPT !.stage = sessions[id].stage, !.list = due]
  <2>1. id \in Present /\ due = DueBranches(sessions[id])
    BY <1>5
  <2>2. /\ sessions[id].stage \in Nat /\ DOMAIN sessions[id].branches \subseteq Nat
        /\ SessionOK(sessions[id])
    BY <2>1, SessionTyped DEF IInv
  <2>3. due \subseteq DOMAIN sessions[id].branches
    BY <2>1 DEF DueBranches
  <2>4. due \in SUBSET Nat
    BY <2>2, <2>3
  <2>5. Frame("due", id) \in FrameRecord
    BY <1>c, FrameTyped DEF AboutSession
  <2> HIDE DEF due, id
  <2>6. f \in FrameRecord
    BY <2>2, <2>4, <2>5 DEF FrameRecord
  <2>7. f.op = "due" /\ f.id = id /\ f.stage = sessions[id].stage /\ f.list = due
    BY DEF Frame
  <2>8. stack' = <<f>> \o (<<p>> \o Below)
    BY <1>a, <1>5 DEF due, id
  <2> HIDE DEF f
  <2>9. stack' = <<f, p>> \o Below
    BY <1>b, <1>c, <2>6, <2>8, TwoPushed
  <2>10. PICK u : Over(u, Below, p) /\ Over(stack', u, f)
    BY <1>b, <1>c, <2>6, <2>9, OverTwo
  <2>11. All(stack') = All(Below) \cup {p, f} /\ Outer(Below) \subseteq Outer(stack')
    BY <2>10, TopWithin DEF Over
  <2>12. FrameOK(f)
    <3>1. id \in Ids /\ status[id] \notin {"new", "queued"} 
      BY <2>1 DEF IInv, TypeOK, Placed
    <3>2. sessions[id].open
      <4>1. DOMAIN sessions[id].branches # {}
        BY <1>5, <2>3
      <4>2. id \notin IdsOf(stack, "decided")
        BY <1>b DEF id
      <4> QED BY <2>1, <4>1, <4>2 DEF IInv, Staged
    <3> QED BY <2>1, <2>3, <2>7, <3>1, <3>2 DEF FrameOK, Concerns, AboutSession, Loop, Executor, Passed, Loops
  <2>13. Link(f, p)
    BY <1>d, <2>7 DEF Link, OnProcess, Loops, id
  <2>14. ASSUME NEW x \in Present, AtTop(x) PROVE Attended(x)'
    <3>1. DueBranches(sessions[x])' \subseteq f.list /\ f.id = x
      BY <1>3, <2>1, <2>7, <2>14 DEF id
    <3> QED BY <2>7, <2>11, <3>1 DEF Attended, Starts
  <2>15. Open => \A x \in Present \ late : Fine(x) \/ Attended(x)'
    BY <1>2, <2>11, <2>14
  <2> QED BY <1>a, <1>b, <1>c, <1>d, <1>1, <2>6, <2>7, <2>9, <2>12, <2>13, <2>15, ProcessPush
<1> QED BY <1>4, <1>5

\* Nothing is asked of the frames outside process.
LEMMA TopsOutside ==
  ASSUME NEW s \in Stacks, Linked(s), ~Has(s, "process"), stack' = s
  PROVE  Tops'
<1>1. \A f \in All(s) : f.op \notin Loops \cup {"executor", "process"}
  BY NoLoops DEF Has
<1>2. CASE s = <<>>
  BY <1>2 DEF Tops, InProcess, In
<1>3. CASE s # <<>>
  <2>1. Head(s) \in FrameRecord /\ Tail(s) \in Stacks /\ s = <<Head(s)>> \o Tail(s)
    BY <1>3, Popped
  <2>2. All(s) = All(Tail(s)) \cup {Head(s)}
    BY <2>1, AllPushed
  <2>3. Top' = Head(s) /\ Below' = Tail(s)
    BY DEF Top, Below
  <2> QED BY <1>1, <2>2, <2>3 DEF Tops, InProcess, In, Loops
<1> QED BY <1>2, <1>3

\* process ends, or a panic in it does.
LEMMA ProcessEnds ==
  ASSUME IInv, stack # <<>>, Top.op = "process", UNCHANGED <<now, phase, tables, ghosts>>,
         NEW s \in Stacks, stack' = s, Linked(s), Apart(s),
         All(s) \subseteq All(Below), \A f \in All(Below) : f.op # "begin" => f \in All(s),
         Open => \A x \in Present \ late : Fine(x) \/ Called'
  PROVE  IInv'
<1>a. /\ Below \in Stacks /\ All(stack) = All(Below) \cup {Top}
      /\ ~Has(Below, "process") /\ \A f \in All(stack) : f.op \notin Loops
  BY TopViews, ProcessTop DEF IInv
<1>b. ~Has(s, "process")
  BY <1>a DEF Has
<1>c. sessions' = sessions /\ late' = late /\ now' = now /\ phase' = phase /\ Present' = Present
  BY DEF tables, ghosts, Present
<1>1. Shaped'
  BY DEF Shaped
<1>2. Tops'
  BY <1>b, TopsOutside
<1>3. Moving'
  <2>1. Inner(stack') = {}
    BY <1>b, AllOuter
  <2>2. \A x \in Present : Fine(x) => Fine(x)'
    BY <1>c DEF Fine, Calm, NoDue, Verdict, Settled, Succeeded, Current, Stages, DueBranches
  <2> QED BY <1>c, <2>1, <2>2 DEF Moving, Excused, Open, Attended
<1>4. /\ \A f \in All(stack) : f.op \in {"decided", "finish"} => f \in All(stack')
      /\ \A f \in All(stack) : f.op \notin Loops
      /\ All(stack') \subseteq All(stack) /\ stack' \in Stacks
  BY <1>a
<1> QED BY <1>1, <1>2, <1>3, <1>4, StackOnly

LEMMA PickKeeps ==
  ASSUME IInv, Pick
  PROVE  IInv'
<1>a. /\ stack # <<>> /\ Top.op = "process" /\ Top.then = "pick"
      /\ UNCHANGED <<now, phase, tables, ghosts>>
  BY DEF Pick, InProcess, In
<1>b. /\ Top \in FrameRecord /\ Below \in Stacks /\ Top \in All(stack)
      /\ Linked(Below) /\ Apart(Below) /\ All(stack) = All(Below) \cup {Top}
      /\ ~Has(Below, "process") /\ Inner(Below) = {} /\ Outer(Below) = All(Below)
      /\ Under(Below).op \in Bases \cup {"begin"} /\ Over(stack, Below, Top)
      /\ \A id \in Present : ~sessions[id].launching
  BY <1>a, TopViews, ProcessTop DEF IInv
<1>c. sessions' = sessions /\ now' = now /\ late' = late /\ Present \subseteq Ids
  BY <1>a DEF tables, ghosts, IInv, TypeOK
<1>d. FrameOK(Top)
  BY <1>b, FramesOK
<1>e. \A x : ~AtTop(x)
  BY <1>a DEF AtTop, InProcess, In
<1>f. ASSUME All(Below) \subseteq All(stack'), Outer(Below) \subseteq Outer(stack'),
             Open, NEW x \in Present, x \notin late
      PROVE  \/ Fine(x) \/ Called' \/ Turns(Top) \/ x \in Top.list
  <2>1. Fine(x) \/ Attended(x)
    BY <1>f DEF IInv, Moving
  <2>2. /\ Called => Called'
        /\ Deciding(x) => Deciding(x)' /\ Called'
        /\ ~Starts(x)
        /\ Listing(x) => x \in Top.list
        /\ Again => Turns(Top) \/ WillChange(Top)
    BY <1>a, <1>b, <1>c, <1>f, StepViews
  <2> QED BY <1>a, <1>e, <2>1, <2>2 DEF Attended, WillChange
<1>1. CASE Top.list = {} /\ Top.flag
  <2> DEFINE p == ProcessFrame(Present)
  <2>1. Frame("process", 0) \in FrameRecord /\ Present \in SUBSET Nat
    BY <1>c, FrameTyped, IdsTyped
  <2>2. p \in FrameRecord
    BY <2>1 DEF ProcessFrame, FrameRecord, Steps
  <2>3. p.op = "process" /\ p.then = "pick" /\ p.list = Present
    BY DEF ProcessFrame, Frame
  <2>4. stack' = <<p>> \o Below
    BY <1>1 DEF Pick
  <2> HIDE DEF p
  <2>5. FrameOK(p)
    BY <1>c, <2>3 DEF FrameOK, Concerns, AboutSession, Loop, Executor, Passed, Loops
  <2>6. p \in All(stack')
    BY <1>b, <2>2, <2>4, AllPushed
  <2>7. \A x \in Present : Attended(x)'
    BY <2>3, <2>6 DEF Attended, Listing
  <2> QED BY <1>a, <1>b, <2>2, <2>3, <2>4, <2>5, <2>7, ProcessStep
<1>2. CASE Top.list = {} /\ ~Top.flag
  <2>1. stack' = Below
    BY <1>2 DEF Pick
  <2>2. Open => \A x \in Present \ late : Fine(x) \/ Called'
    BY <1>2, <1>f, <2>1 DEF Turns
  <2> QED BY <1>a, <1>b, <2>1, <2>2, ProcessEnds
<1>3. CASE Top.list # {}
  <2> DEFINE id == Min(Top.list)
             s == sessions[id]
             r == Rest(Top)
  <2>1. stack' = IF id \notin Present THEN <<r>> \o Below
                 ELSE IF id \in Held THEN Panic(Below)
                 ELSE <<[r EXCEPT !.id = id, !.stage = s.stage,
                           !.then = IF s.open THEN "dues" ELSE "open",
                           !.flag = @ \/ ~s.open]>> \o Below
    BY <1>3 DEF Pick
  <2>2. r \in FrameRecord /\ r.op = "process" /\ r.then = "pick" /\ r.flag = Top.flag
        /\ r.list = Top.list \ {id}
    BY <1>a, <1>b, RestTyped
  <2>3. id \in Top.list /\ Top.list \subseteq Ids
    BY <1>a, <1>b, <1>3, <1>d, FirstOf DEF FrameOK
  <2> HIDE DEF r, id
  <2>4. CASE id \notin Present
    <3>1. stack' = <<r>> \o Below
      BY <2>1, <2>4
    <3>2. FrameOK(r)
      BY <2>2, <2>3 DEF FrameOK, Concerns, AboutSession, Loop, Executor, Passed, Loops
    <3>3. Over(stack', Below, r)
      BY <1>b, <2>2, <3>1, OverPush
    <3>4. r \in All(stack') /\ All(Below) \subseteq All(stack') /\ Outer(Below) \subseteq Outer(stack')
      BY <3>3, TopWithin DEF Over
    <3>5. ASSUME Open, NEW x \in Present, x \notin late PROVE Fine(x) \/ Attended(x)'
      <4>1. Fine(x) \/ Called' \/ Turns(Top) \/ x \in Top.list
        BY <1>f, <3>4, <3>5
      <4>2. x \in Top.list => Listing(x)'
        BY <2>2, <2>4, <3>4 DEF Listing
      <4>3. Turns(Top) => Again'
        BY <2>2, <3>4 DEF Turns, Again
      <4> QED BY <4>1, <4>2, <4>3 DEF Attended
    <3> QED BY <1>a, <1>b, <2>2, <3>1, <3>2, <3>5, ProcessStep
  <2>5. CASE id \in Present /\ id \in Held
    <3>1. stack' = Panic(Below)
      BY <2>1, <2>5
    <3>2. id \in IdsOf(Below, "decided")
      <4>1. stack \in Stacks
        BY <1>b DEF Over
      <4>2. id \in IdsOf(stack, "heldHook")
        BY <2>5, <4>1, StackReads
      <4>3. PICK h \in All(stack) : h.op = "heldHook" /\ h.id = id
        BY <4>2 DEF IdsOf
      <4>4. h \in All(Below)
        BY <1>a, <1>b, <4>3
      <4> QED BY <1>b, <4>3, <4>4, HookOnDecided
    <3>3. PICK d \in All(Below) : d.op = "decided"
      BY <3>2 DEF IdsOf
    <3>4. d.flag
      BY <1>b, <3>3, DecidedOutside
    <3>5. ASSUME NEW t \in Stacks, stack' = t, All(t) \subseteq All(Below), d \in All(t)
          PROVE  Called'
      <4>1. Outer(t) = All(t)
        <5>1. ~Has(t, "process")
          BY <1>b, <3>5 DEF Has
        <5> QED BY <5>1, AllOuter
      <4> QED BY <3>3, <3>4, <3>5, <4>1 DEF Called
    <3>6. CASE Panic(Below) = Below
      BY <1>a, <1>b, <3>1, <3>3, <3>5, <3>6, ProcessEnds
    <3>7. CASE Below # <<>> /\ Head(Below).op = "begin" /\ Panic(Below) = Tail(Below)
      <4>1. /\ Over(Below, Tail(Below), Head(Below)) /\ Tail(Below) \in Stacks
            /\ Linked(Tail(Below)) /\ Apart(Tail(Below))
            /\ All(Below) = All(Tail(Below)) \cup {Head(Below)}
        BY <1>a, <3>7, BelowIs DEF IInv, Framed
      <4>2. d \in All(Tail(Below))
        BY <3>3, <3>7, <4>1
      <4>3. Called'
        BY <3>1, <3>5, <3>7, <4>1, <4>2
      <4>4. /\ All(Tail(Below)) \subseteq All(Below)
            /\ \A f \in All(Below) : f.op # "begin" => f \in All(Tail(Below))
        BY <3>7, <4>1
      <4> QED BY <1>a, <3>1, <3>7, <4>1, <4>3, <4>4, ProcessEnds
    <3> QED BY <1>b, <3>6, <3>7, PanicIs
  <2>6. CASE id \in Present /\ id \notin Held
    <3> DEFINE p == [r EXCEPT !.id = id, !.stage = s.stage,
                       !.then = IF s.open THEN "dues" ELSE "open", !.flag = r.flag \/ ~s.open]
    <3>1. stack' = <<p>> \o Below
      BY <2>1, <2>6
    <3>2. s \in Session /\ s.stage \in Nat /\ s.open \in BOOLEAN /\ SessionOK(s)
      BY <2>6, SessionTyped, SessionFields DEF IInv
    <3>3. id \in 0 .. MaxSessions /\ r.flag \in BOOLEAN
      BY <2>2, <2>3, IdsTyped DEF FrameRecord
    <3>4. p \in FrameRecord
      BY <2>2, <3>2, <3>3 DEF FrameRecord, Steps
    <3>5. /\ p.op = "process" /\ p.id = id /\ p.stage = s.stage /\ p.list = Top.list \ {id}
          /\ p.then = (IF s.open THEN "dues" ELSE "open") /\ (p.flag <=> Top.flag \/ ~s.open)
      BY <2>2 DEF FrameRecord
    <3> HIDE DEF p
    <3>6. FrameOK(p)
      <4>1. id \in Ids /\ status[id] \notin {"new", "queued"}
        BY <1>c, <2>6 DEF IInv, Placed
      <4> QED BY <2>3, <3>2, <3>5, <4>1 DEF FrameOK, Concerns, AboutSession, Loop, Executor, Passed, Loops
    <3>7. Over(stack', Below, p)
      BY <1>b, <3>1, <3>4, OverPush
    <3>8. /\ p \in All(stack') /\ All(Below) \subseteq All(stack') /\ Outer(Below) \subseteq Outer(stack')
          /\ Top' = p /\ stack' # <<>>
      BY <3>7, TopWithin DEF Over, Top
    <3>9. id \notin IdsOf(Below, "decided")
      <4>1. Linked(stack) /\ stack \in Stacks
        BY DEF IInv, Shaped, Typed
      <4>2. IdsOf(Below, "decided") \subseteq IdsOf(stack, "heldHook")
        BY <1>a, <4>1, DecidedBelow DEF Below
      <4> QED BY <2>6, <4>1, <4>2, StackReads
    <3>10. ASSUME Open, NEW x \in Present, x \notin late PROVE Fine(x) \/ Attended(x)'
      <4>1. Fine(x) \/ Called' \/ Turns(Top) \/ x \in Top.list
        BY <1>f, <3>8, <3>10
      <4>2. x \in Top.list /\ x # id => Listing(x)'
        BY <3>5, <3>8 DEF Listing
      <4>3. Turns(Top) \/ ~s.open => Again'
        BY <3>5, <3>8 DEF Turns, Again
      <4>4. ASSUME x = id, s.open PROVE AtTop(x)'
        <5>1. Calm(x) /\ p.then = "dues" /\ p.op = "process" /\ p.id = x
          BY <1>b, <2>6, <3>5, <4>4 DEF Calm
        <5>2. Calm(x)'
          BY <1>c, <5>1 DEF Calm
        <5>3. InProcess("dues")'
          BY <3>8, <5>1 DEF InProcess, In
        <5> QED BY <3>8, <5>1, <5>2, <5>3 DEF AtTop
      <4> QED BY <4>1, <4>2, <4>3, <4>4 DEF Attended
    <3>11. /\ p.then = "open" => p.flag /\ p.id \in Present /\ ~sessions[p.id].open
           /\ p.id \notin IdsOf(Below, "decided")
      BY <2>6, <3>5, <3>9
    <3> QED BY <1>a, <1>b, <3>1, <3>4, <3>5, <3>6, <3>10, <3>11, ProcessStep
  <2> QED BY <2>4, <2>5, <2>6
<1> QED BY <1>1, <1>2, <1>3

-----------------------------------------------------------------------------
\* Calls of the application.

\* A call leaves the sessions, their hooks and the frames alone.
LEMMA CallKeeps ==
  ASSUME IInv, UNCHANGED <<sessions, byGraph, live, broken>>, stack' \in Stacks, Tops',
         All(stack) \subseteq All(stack'),
         \A f \in All(stack') : f \in All(stack) \/
           (f.op \in {"begin", "cancel", "callProcess"}
              /\ (f.op = "begin" => f.graph \in GraphIds /\ f.list \subseteq Ids))
  PROVE  /\ Typed' /\ Framed' /\ Staged' /\ Listed' /\ Hooked'
         /\ Ending' = Ending /\ \A f \in All(stack') : Concerns(f) => f \in All(stack)
<1>a. /\ sessions' = sessions /\ byGraph' = byGraph /\ live' = live /\ broken' = broken
      /\ Present' = Present
  BY DEF Present
<1>b. \A f \in All(stack') : f.op \notin {"begin", "cancel", "callProcess"} => f \in All(stack)
  OBVIOUS
<1>c. \A op \in {"decided", "finish"} : IdsOf(stack', op) = IdsOf(stack, op)
  BY <1>b DEF IdsOf
<1>1. Typed'
  <2>1. \A f \in All(stack') : f.op \in {"begin", "finish"} => f.graph \in GraphIds
    BY DEF IInv, Typed
  <2>2. \A f \in All(stack') : f.op = "begin" => f.list \subseteq Ids
    BY DEF IInv, Typed
  <2>3. \A f \in All(stack') : f.op = "process" => f.list \subseteq Ids
    BY <1>b DEF IInv, Typed
  <2>4. \A f \in All(stack') : f.op = "finish" => f.then \in Final
    BY <1>b DEF IInv, Typed
  <2> QED BY <1>a, <2>1, <2>2, <2>3, <2>4 DEF IInv, Typed, SessionOK, Stages, Current
<1>2. Framed'
  <2>1. \A f \in All(stack') : Loop(f) /\ Executor(f) /\ Passed(f)
    BY DEF IInv, Framed, Loop, Executor, Passed, Loops
  <2>2. \A f \in All(stack') : Loop(f)' /\ Executor(f)' /\ Passed(f)'
    BY <1>a, <2>1 DEF Loop, Executor, Passed
  <2> QED BY <2>2 DEF Framed
<1>3. Staged'
  BY <1>a, <1>c DEF IInv, Staged
<1>4. Listed'
  BY <1>a DEF IInv, Listed
<1>5. Hooked'
  BY <1>a DEF IInv, Hooked, Owed, IsAt
<1>6. Ending' = Ending
  BY <1>c DEF Ending
<1> QED BY <1>1, <1>2, <1>3, <1>4, <1>5, <1>6, <1>b DEF Concerns, AboutSession

\* Sessions that wait are cancelled.
LEMMA TicketsCancelled ==
  ASSUME TypeOK, Placed, Queued, Ending' = Ending, phase' = phase, Open,
         \A f \in All(stack') : Concerns(f) => f \in All(stack),
         UNCHANGED <<nextId, sessions, byGraph, broken>>,
         NEW S, \A id \in S : id \in Ids => status[id] \in {"queued", "cancelled"},
         status' = [id \in Ids |-> IF id \in S THEN "cancelled" ELSE status[id]],
         queued' \in [GraphIds -> SUBSET Ids],
         \A g \in GraphIds : queued'[g] \subseteq queued[g] /\ queued[g] \subseteq queued'[g] \cup S
  PROVE  Placed' /\ Queued'
<1>a. /\ nextId' = nextId /\ Present' = Present /\ byGraph' = byGraph /\ broken' = broken
      /\ Open' /\ Present \subseteq Ids /\ broken \subseteq Ids /\ Ending \subseteq Ids
  <2>1. Ending \subseteq Ids
    BY DEF Placed, Ending, IdsOf, Concerns, AboutSession
  <2> QED BY <2>1 DEF Present, Open, TypeOK
<1>b. \A id \in Ids : status'[id] = IF id \in S THEN "cancelled" ELSE status[id]
  OBVIOUS
<1>1. Placed'
  <2>1. \A id \in Present \cup Ending : status'[id] = "running"
    BY <1>a, <1>b DEF Placed
  <2>2. \A id \in Ids : status'[id] = "running" => id \in Present \cup Ending \cup broken
    BY <1>b DEF Placed
  <2>3. \A id \in broken : status'[id] = "running"
    BY <1>a, <1>b DEF Placed
  <2>4. \A id \in Ids : id >= nextId <=> status'[id] = "new"
    BY <1>b DEF Placed
  <2>5. \A f \in All(stack') : Concerns(f) => f.id \in Ids /\ status'[f.id] \notin {"new", "queued"}
    BY <1>b DEF Placed
  <2> QED BY <1>a, <2>1, <2>2, <2>3, <2>4, <2>5 DEF Placed
<1>2. Queued'
  <2>1. \A g \in GraphIds : queued'[g] \subseteq Ids
    OBVIOUS
  <2>2. \A g \in GraphIds : \A id \in queued'[g] :
          /\ status'[id] \in {"queued", "cancelled"} /\ id \notin broken
          /\ \A h \in GraphIds : id \in queued'[h] => h = g
    BY <1>b, <2>1 DEF Queued
  <2>3. ASSUME NEW id \in Ids, status'[id] = "queued"
        PROVE  id \in broken \/ \E g \in GraphIds : id \in queued'[g]
    <3>1. id \notin S /\ status[id] = "queued"
      BY <1>b, <2>3
    <3> QED BY <3>1 DEF Queued
  <2>4. \A g \in GraphIds : Waiting(g)' # {} => byGraph[g] # {}
    <3>1. \A g \in GraphIds : Waiting(g)' \subseteq Waiting(g)
      BY <1>b, <2>1 DEF Waiting
    <3> QED BY <3>1 DEF Queued
  <2> QED BY <1>a, <2>2, <2>3, <2>4 DEF Queued
<1> QED BY <1>1, <1>2

\* The call itself, on top of the stack.
LEMMA CallPushed ==
  ASSUME IInv, Under(stack).op \in Bases, stack # <<>> => Top.op \in UserFrames,
         NEW f \in FrameRecord, f.op \in {"begin", "cancel", "callProcess", "evaluate"},
         f.op = "evaluate" => f.flag, stack' = <<f>> \o stack,
         \A id \in Present' : (\E g \in All(stack) : g.op \in Loops /\ g.id = id) =>
           id \in Present /\ sessions'[id].launching = sessions[id].launching
  PROVE  /\ Shaped' /\ Tops' /\ Over(stack', stack, f) /\ All(stack') = All(stack) \cup {f}
         /\ IdsOf(stack', "decided") = IdsOf(stack, "decided")
         /\ Called => Called'
         /\ \A x : ~AtTop(x)
<1>a. stack \in Stacks /\ Linked(stack) /\ Apart(stack)
  BY DEF IInv, Typed, Shaped
<1>b. Over(stack', stack, f)
  BY <1>a, OverPush
<1>1. Shaped'
  <2>1. Link(f, Under(stack))
    BY DEF Link, AboutSession, Loops, Bases, UserFrames
  <2>2. \A g : ~Clash(f, g)
    BY DEF Clash, Loops
  <2> QED BY <1>a, <1>b, <2>1, <2>2 DEF Over, Shaped
<1>2. Tops'
  <2>1. Top' = f /\ Below' = stack
    BY <1>b DEF Over, Top, Below
  <2>2. \A g \in All(stack) : g.op \in Loops /\ g.id \in Present' => sessions'[g.id].launching
    <3>1. CASE stack = <<>>
      BY <3>1, EmptyStack
    <3>2. CASE stack # <<>>
      <4>1. All(stack) = All(Below) \cup {Top} /\ Top.op \notin Loops
        BY <3>2, TopViews DEF IInv, Loops, UserFrames
      <4> QED BY <3>2, <4>1 DEF IInv, Framed, Tops
    <3> QED BY <3>1, <3>2
  <2> QED BY <2>1, <2>2 DEF Tops, InProcess, In, Loops
<1>3. All(stack') = All(stack) \cup {f}
  BY <1>b DEF Over
<1>4. IdsOf(stack', "decided") = IdsOf(stack, "decided")
  BY <1>3 DEF IdsOf
<1>5. Called => Called'
  BY <1>b, TopWithin DEF Called
<1>6. \A x : ~AtTop(x)
  BY DEF AtTop, InProcess, In, UserFrames
<1> QED BY <1>b, <1>1, <1>2, <1>3, <1>4, <1>5, <1>6

\* A call from within process is made while process turns again, or while the
\* executor of a delayed branch runs.
LEMMA CallerExcused ==
  ASSUME IInv, Open, stack # <<>> => Top.op \in UserFrames,
         NEW f, Over(stack', stack, f), f.op # "executor", Again => Again'
  PROVE  Excused'
<1>1. CASE Has(stack, "process")
  <2>1. stack # <<>>
    BY <1>1, EmptyStack DEF Has
  <2>2. Over(stack, Below, Top) /\ All(stack) = All(Below) \cup {Top} /\ Top.op # "process"
        /\ Top.op \notin Loops \cup {"evaluate"}
    BY <2>1, TopViews DEF IInv, UserFrames, Loops
  <2>3. Top \in Inner(stack)
    BY <1>1, <2>2 DEF Has, Over
  <2>4. Again \/ Delayed(stack)
    BY <2>2, <2>3 DEF IInv, Moving, Excused
  <2> QED BY <2>4 DEF Excused, Over
<1>2. CASE ~Has(stack, "process")
  BY <1>2 DEF Over, Excused
<1> QED BY <1>1, <1>2

\* A call that leaves the sessions as they are.
LEMMA CallMoves ==
  ASSUME IInv, UNCHANGED <<now, phase, sessions, late>>, Open, Under(stack).op \in Bases,
         stack # <<>> => Top.op \in UserFrames,
         NEW f \in FrameRecord, f.op \in {"begin", "cancel", "callProcess"},
         stack' = <<f>> \o stack
  PROVE  Shaped' /\ Tops' /\ All(stack') = All(stack) \cup {f} /\ stack' \in Stacks /\ Moving'
<1>1. /\ Shaped' /\ Tops' /\ Over(stack', stack, f) /\ All(stack') = All(stack) \cup {f}
      /\ IdsOf(stack', "decided") = IdsOf(stack, "decided")
      /\ Called => Called'
      /\ \A x : ~AtTop(x)
  <2>1. f.op = "evaluate" => f.flag
    OBVIOUS
  <2>2. \A id \in Present' : (\E g \in All(stack) : g.op \in Loops /\ g.id = id) =>
           id \in Present /\ sessions'[id].launching = sessions[id].launching
    BY DEF Present
  <2> QED BY <2>1, <2>2, CallPushed
<1>2. Again => Again'
  <2>1. \A q : ~IsAt(q.id, q.stage) => ~IsAt(q.id, q.stage)'
    BY DEF IsAt, Present
  <2> QED BY <1>1, <2>1, AgainKept
<1>3. Excused'
  BY <1>1, <1>2, CallerExcused
<1>4. Moving'
  BY <1>1, <1>3, MovingKept DEF IInv
<1> QED BY <1>1, <1>4 DEF Over

LEMMA StartKeeps ==
  ASSUME IInv, NEW g \in GraphIds, NEW policy \in Policies, Start(g, policy)
  PROVE  IInv'
<1>a. /\ Open /\ Under(stack).op \in Bases /\ (stack # <<>> => Top.op \in UserFrames)
      /\ UNCHANGED <<now, phase, sessions, byGraph, live, ghosts>>
  BY CallerIs DEF Start, IInv
<1>b. /\ sessions' = sessions /\ byGraph' = byGraph /\ live' = live /\ now' = now /\ phase' = phase
      /\ late' = late /\ broken' = broken /\ Present' = Present /\ Open'
  BY <1>a DEF ghosts, Present, Open
<1>c. TypeOK /\ nextId \in 1 .. MaxSessions + 1 /\ MaxSessions \in Nat /\ queued[g] \subseteq Ids
      /\ byGraph[g] \subseteq Ids /\ stack \in Stacks
  BY Constants_Assumption DEF IInv, TypeOK, Typed
<1>d. ASSUME NEW ids \in SUBSET Ids
      PROVE  /\ BeginFrame(g, ids) \in FrameRecord /\ BeginFrame(g, ids).op = "begin"
             /\ BeginFrame(g, ids).graph = g /\ BeginFrame(g, ids).list = ids
  <2>1. Frame("begin", 0) \in FrameRecord /\ ids \in SUBSET Nat
    BY FrameTyped, IdsTyped
  <2> QED BY <2>1 DEF BeginFrame, Frame, FrameRecord
<1>1. CASE policy = "queue" /\ byGraph[g] # {}
  <2>1. /\ nextId \in Ids /\ nextId' = nextId + 1 /\ status' = [status EXCEPT ![nextId] = "queued"]
        /\ queued' = [queued EXCEPT ![g] = queued[g] \cup {nextId}] /\ stack' = stack
    BY <1>1 DEF Start
  <2>2. status[nextId] = "new" /\ nextId \in Nat
    BY <2>1 DEF IInv, Placed, TypeOK
  <2>3. /\ status'[nextId] = "queued" /\ \A id \in Ids \ {nextId} : status'[id] = status[id]
        /\ status' \in [Ids -> Final \cup {"new", "queued", "running"}]
    BY <1>c, <2>1 DEF TypeOK
  <2>4. /\ queued'[g] = queued[g] \cup {nextId} /\ \A h \in GraphIds \ {g} : queued'[h] = queued[h]
        /\ queued' \in [GraphIds -> SUBSET Ids]
    BY <1>c, <2>1 DEF TypeOK
  <2>5. TypeOK'
    <3>1. nextId' \in 1 .. MaxSessions + 1
      BY <1>c, <2>1 DEF Ids
    <3> QED BY <1>b, <1>c, <2>3, <2>4, <3>1 DEF TypeOK, Stages
  <2>6. Shaped' /\ Tops' /\ Moving'
    <3>1. Shaped' /\ Tops'
      BY <1>b, <2>1 DEF IInv, Shaped, Framed, Tops, InProcess, In, Top, Below
    <3>2. Called => Called'
      BY <2>1 DEF Called
    <3>3. \A x \in Present : ~AtTop(x)
      BY <1>a DEF AtTop, InProcess, In, UserFrames
    <3>4. Again => Again'
      <4>1. \A q : ~IsAt(q.id, q.stage) => ~IsAt(q.id, q.stage)'
        BY <1>b DEF IsAt
      <4> QED BY <2>1, <4>1, AgainKept
    <3>5. Open => Excused'
      BY <2>1, <3>4 DEF IInv, Moving, Excused
    <3>6. Moving'
      BY <1>b, <2>1, <3>2, <3>3, <3>5, MovingKept DEF IInv
    <3> QED BY <3>1, <3>6
  <2>7. Typed' /\ Framed' /\ Staged' /\ Listed' /\ Hooked' /\ Ending' = Ending
    BY <1>b, <1>c, <2>1, <2>6, CallKeeps
  <2>8. Placed'
    <3>1. Present \cup Ending \subseteq Ids \ {nextId} /\ broken \subseteq Ids \ {nextId}
      BY <1>a, <2>2, <1>c DEF IInv, Placed, TypeOK, Ending, IdsOf, Concerns, AboutSession
    <3>2. \A id \in Present \cup Ending : status'[id] = "running"
      BY <2>3, <3>1 DEF IInv, Placed
    <3>3. \A id \in Ids : status'[id] = "running" => id \in Present \cup Ending \cup broken
      BY <2>3 DEF IInv, Placed
    <3>4. \A id \in broken : status'[id] = "running"
      BY <1>a, <2>3, <3>1 DEF IInv, Placed
    <3>5. \A id \in Ids : id >= nextId' <=> status'[id] = "new"
      <4>1. \A id \in Ids : id >= nextId <=> status[id] = "new"
        BY DEF IInv, Placed
      <4>2. \A id \in Ids : id >= nextId + 1 <=> id >= nextId /\ id # nextId
        BY <2>2 DEF Ids
      <4> QED BY <2>1, <2>3, <4>1, <4>2
    <3>6. \A f \in All(stack) : Concerns(f) => f.id \in Ids /\ status'[f.id] \notin {"new", "queued"}
      BY <2>2, <2>3 DEF IInv, Placed
    <3> QED BY <1>b, <2>1, <2>7, <3>2, <3>3, <3>4, <3>5, <3>6 DEF IInv, Placed
  <2>9. Queued'
    <3>1. \A h \in GraphIds : nextId \notin queued[h] /\ queued[h] \subseteq Ids
      BY <1>c, <2>2 DEF IInv, Queued, TypeOK
    <3>2. nextId \notin broken
      BY <1>a, <2>2 DEF IInv, Placed
    <3>3. \A h \in GraphIds : \A id \in queued'[h] :
            /\ status'[id] \in {"queued", "cancelled"} /\ id \notin broken
            /\ \A k \in GraphIds : id \in queued'[k] => k = h
      BY <2>3, <2>4, <3>1, <3>2 DEF IInv, Queued
    <3>4. \A id \in Ids : status'[id] = "queued" => id \in broken \/ \E h \in GraphIds : id \in queued'[h]
      BY <2>3, <2>4 DEF IInv, Queued
    <3>5. ASSUME NEW h \in GraphIds, Waiting(h)' # {} PROVE byGraph[h] # {}
      <4>1. h # g => Waiting(h)' \subseteq Waiting(h)
        BY <2>3, <2>4, <3>1 DEF Waiting
      <4> QED BY <1>1, <3>5, <4>1 DEF IInv, Queued
    <3> QED BY <1>b, <3>3, <3>4, <3>5 DEF Queued
  <2> QED BY <2>5, <2>6, <2>7, <2>8, <2>9 DEF IInv
<1>2. CASE ~(policy = "queue" /\ byGraph[g] # {}) /\ policy # "restart"
  <2> DEFINE f == BeginFrame(g, {})
  <2>1. stack' = <<f>> \o stack /\ UNCHANGED <<nextId, status, queued>>
    BY <1>2 DEF Start
  <2>2. f \in FrameRecord /\ f.op = "begin" /\ f.graph = g /\ f.list = {}
    BY <1>d
  <2> HIDE DEF f
  <2>3. Shaped' /\ Tops' /\ All(stack') = All(stack) \cup {f} /\ stack' \in Stacks /\ Moving'
    BY <1>a, <1>b, <2>1, <2>2, CallMoves
  <2>4. FrameOK(f)
    BY <2>2 DEF FrameOK, Concerns, AboutSession, Loop, Executor, Passed, Loops
  <2>5. UNCHANGED <<now, phase, tables, ghosts>>
    BY <1>a, <2>1 DEF tables
  <2> QED BY <2>2, <2>3, <2>4, <2>5, StackOnly
<1>3. CASE policy = "restart"
  <2> DEFINE f == BeginFrame(g, byGraph[g])
  <2>1. /\ stack' = <<f>> \o stack /\ nextId' = nextId
        /\ status' = [id \in Ids |-> IF id \in queued[g] THEN "cancelled" ELSE status[id]]
        /\ queued' = [queued EXCEPT ![g] = {}]
    BY <1>3 DEF Start
  <2>2. f \in FrameRecord /\ f.op = "begin" /\ f.graph = g /\ f.list = byGraph[g]
    BY <1>c, <1>d
  <2> HIDE DEF f
  <2>3. Shaped' /\ Tops' /\ All(stack') = All(stack) \cup {f} /\ stack' \in Stacks /\ Moving'
    BY <1>a, <1>b, <2>1, <2>2, CallMoves
  <2>4. /\ Typed' /\ Framed' /\ Staged' /\ Listed' /\ Hooked' /\ Ending' = Ending
        /\ \A x \in All(stack') : Concerns(x) => x \in All(stack)
    BY <1>b, <1>c, <2>2, <2>3, CallKeeps
  <2>5. queued' \in [GraphIds -> SUBSET Ids]
    BY <1>c, <2>1 DEF TypeOK
  <2>6. TypeOK'
    <3>1. status' \in [Ids -> Final \cup {"new", "queued", "running"}]
      BY <1>c, <2>1 DEF TypeOK, Final
    <3> QED BY <1>b, <1>c, <2>1, <2>5, <3>1 DEF TypeOK, Stages
  <2>7. Placed' /\ Queued'
    <3>1. \A id \in queued[g] : status[id] \in {"queued", "cancelled"}
      BY DEF IInv, Queued
    <3>2. \A h \in GraphIds : queued'[h] \subseteq queued[h] /\ queued[h] \subseteq queued'[h] \cup queued[g]
      BY <1>c, <2>1 DEF TypeOK
    <3> QED BY <1>a, <1>b, <1>c, <2>1, <2>4, <2>5, <3>1, <3>2, TicketsCancelled DEF IInv
  <2> QED BY <2>3, <2>4, <2>6, <2>7 DEF IInv
<1> QED BY <1>1, <1>2, <1>3

LEMMA CancelKeeps ==
  ASSUME IInv, NEW id \in Ids, Cancel(id)
  PROVE  IInv'
<1>a. /\ Open /\ Under(stack).op \in Bases /\ (stack # <<>> => Top.op \in UserFrames)
      /\ UNCHANGED <<now, phase, nextId, sessions, byGraph, queued, live, ghosts>>
  BY CallerIs DEF Cancel, IInv
<1>b. /\ sessions' = sessions /\ byGraph' = byGraph /\ live' = live /\ now' = now /\ phase' = phase
      /\ late' = late /\ broken' = broken /\ nextId' = nextId /\ queued' = queued
      /\ Present' = Present /\ Open'
  BY <1>a DEF ghosts, Present, Open
<1>c. TypeOK /\ stack \in Stacks
  BY DEF IInv, Typed
<1>1. CASE id \in Present
  <2> DEFINE f == Frame("cancel", id)
  <2>1. stack' = <<f>> \o stack /\ status' = status
    BY <1>1 DEF Cancel
  <2>2. f \in FrameRecord /\ f.op = "cancel"
    BY IdsTyped, FrameTyped DEF Frame
  <2> HIDE DEF f
  <2>3. Shaped' /\ Tops' /\ All(stack') = All(stack) \cup {f} /\ stack' \in Stacks /\ Moving'
    BY <1>a, <1>b, <2>1, <2>2, CallMoves
  <2>4. FrameOK(f)
    BY <2>2 DEF FrameOK, Concerns, AboutSession, Loop, Executor, Passed, Loops
  <2>5. UNCHANGED <<now, phase, tables, ghosts>>
    BY <1>a, <2>1 DEF tables
  <2> QED BY <2>2, <2>3, <2>4, <2>5, StackOnly
<1>2. CASE id \notin Present
  <2>1. status[id] = "queued" /\ status' = [status EXCEPT ![id] = "cancelled"] /\ stack' = stack
    BY <1>2 DEF Cancel
  <2>2. Shaped' /\ Tops' /\ Moving'
    <3>1. Shaped' /\ Tops'
      BY <1>b, <2>1 DEF IInv, Shaped, Framed, Tops, InProcess, In, Top, Below
    <3>2. Called => Called'
      BY <2>1 DEF Called
    <3>3. \A x \in Present : ~AtTop(x)
      BY <1>a DEF AtTop, InProcess, In, UserFrames
    <3>4. Again => Again'
      <4>1. \A q : ~IsAt(q.id, q.stage) => ~IsAt(q.id, q.stage)'
        BY <1>b DEF IsAt
      <4> QED BY <2>1, <4>1, AgainKept
    <3>5. Open => Excused'
      BY <2>1, <3>4 DEF IInv, Moving, Excused
    <3>6. Moving'
      BY <1>b, <2>1, <3>2, <3>3, <3>5, MovingKept DEF IInv
    <3> QED BY <3>1, <3>6
  <2>3. /\ Typed' /\ Framed' /\ Staged' /\ Listed' /\ Hooked' /\ Ending' = Ending
    BY <1>b, <1>c, <2>1, <2>2, CallKeeps
  <2>4. status' = [x \in Ids |-> IF x \in {id} THEN "cancelled" ELSE status[x]]
    BY <1>c, <2>1 DEF TypeOK
  <2>5. TypeOK'
    <3>1. status' \in [Ids -> Final \cup {"new", "queued", "running"}]
      BY <1>c, <2>4 DEF TypeOK, Final
    <3> QED BY <1>b, <1>c, <3>1 DEF TypeOK, Stages
  <2>6. Placed' /\ Queued'
    <3>1. queued' \in [GraphIds -> SUBSET Ids]
      BY <1>b, <1>c DEF TypeOK
    <3>2. \A x \in {id} : x \in Ids => status[x] \in {"queued", "cancelled"}
      BY <2>1
    <3>3. \A g \in GraphIds : queued'[g] \subseteq queued[g] /\ queued[g] \subseteq queued'[g] \cup {id}
      BY <1>b
    <3>4. \A f \in All(stack') : Concerns(f) => f \in All(stack)
      BY <2>1
    <3> QED BY <1>a, <1>b, <1>c, <2>3, <2>4, <3>1, <3>2, <3>3, <3>4, TicketsCancelled DEF IInv
  <2> QED BY <2>2, <2>3, <2>5, <2>6 DEF IInv
<1> QED BY <1>1, <1>2

LEMMA TickKeeps ==
  ASSUME IInv, NEW step \in 0 .. MaxNow, Tick(step)
  PROVE  IInv'
<1> DEFINE f == Frame("callProcess", 0)
<1>a. /\ Open /\ stack = <<>> /\ now + step <= MaxNow /\ now' = now + step /\ stack' = <<f>>
      /\ UNCHANGED <<phase, tables, ghosts>>
  BY DEF Tick, Open
<1>b. /\ sessions' = sessions /\ byGraph' = byGraph /\ live' = live /\ phase' = phase
      /\ late' = late /\ broken' = broken /\ nextId' = nextId /\ queued' = queued
      /\ status' = status /\ Present' = Present /\ Open'
  BY <1>a DEF ghosts, tables, Present, Open
<1>c. f \in FrameRecord /\ f.op = "callProcess"
  BY FrameTyped, IdsTyped DEF Frame
<1> HIDE DEF f
<1>d. stack' = <<f>> \o stack
  <2>1. <<f>> \o <<>> = <<f>>
    BY <1>c
  <2> QED BY <1>a, <2>1
<1>e. stack \in Stacks /\ Under(stack).op \in Bases /\ TypeOK
  BY <1>a, EmptyStack DEF IInv, EventLoop, Frame, Bases
<1>1. Shaped' /\ Tops' /\ Over(stack', stack, f) /\ All(stack') = All(stack) \cup {f}
  BY <1>a, <1>b, <1>c, <1>d, <1>e, CallPushed
<1>2. Moving'
  <2>1. ~Has(stack, "process")
    BY <1>a, EmptyStack DEF Has
  <2>2. Inner(stack') = {} /\ f \in Outer(stack')
    BY <1>1, <2>1 DEF Over
  <2>3. Called'
    BY <1>c, <2>2 DEF Called
  <2> QED BY <2>2, <2>3 DEF Moving, Excused, Attended
<1>3. /\ Typed' /\ Framed' /\ Staged' /\ Listed' /\ Hooked' /\ Ending' = Ending
      /\ \A x \in All(stack') : Concerns(x) => x \in All(stack)
  <2>1. stack' \in Stacks
    BY <1>1 DEF Over
  <2> QED BY <1>b, <1>c, <1>1, <2>1, CallKeeps
<1>4. TypeOK'
  <2>1. now' \in 0 .. MaxNow
    BY <1>a, <1>e, Constants_Assumption DEF TypeOK
  <2> QED BY <1>b, <1>e, <2>1 DEF TypeOK, Stages
<1>5. Placed' /\ Queued'
  <2>1. Placed /\ Queued
    BY DEF IInv
  <2>2. Placed'
    <3>1. Open
      BY <1>a
    <3> QED BY <1>b, <1>3, <2>1, <3>1 DEF Placed
  <2>3. Queued'
    BY <1>b, <2>1 DEF Queued, Waiting
  <2> QED BY <2>2, <2>3
<1> QED BY <1>1, <1>2, <1>3, <1>4, <1>5 DEF IInv

-----------------------------------------------------------------------------
\* Settlements.

\* What a step that writes one session leaves.
LEMMA SessionsNext ==
  ASSUME NEW id, NEW t, sessions' = With(id, t)
  PROVE  /\ Present' = Present \cup {id} /\ sessions'[id] = t
         /\ \A x \in Present \ {id} : sessions'[x] = sessions[x]
         /\ id \in Present => Present' = Present
<1>1. DOMAIN sessions' = Present \cup {id}
  BY DEF With
<1>2. sessions'[id] = t /\ \A x \in Present \ {id} : sessions'[x] = sessions[x]
  BY DEF With
<1>3. Present' = Present \cup {id}
  BY <1>1 DEF Present
<1>4. id \in Present => Present \cup {id} = Present
  OBVIOUS
<1> QED BY <1>2, <1>3, <1>4

LEMMA HookIs ==
  ASSUME TypeOK, NEW h \in live
  PROVE  h = <<h[1], h[2], h[3]>> /\ h[1] \in Ids /\ h[2] \in Nat /\ h[3] \in Nat
<1>1. h \in Ids \X Nat \X Nat
  BY DEF TypeOK
<1> QED BY <1>1

\* A session whose stage goes on: what was started stays so.
LEMMA SessionKept ==
  ASSUME TypeOK, Typed, NEW id \in Present, NEW t \in Session, SessionOK(t),
         Kept(sessions[id], t), t.open = sessions[id].open,
         \A b \in DOMAIN t.branches : sessions[id].branches[b].started => t.branches[b].started,
         sessions' = With(id, t), live' \subseteq live
  PROVE  /\ Present' = Present /\ sessions'[id] = t
         /\ \A x \in Present \ {id} : sessions'[x] = sessions[x]
         /\ sessions' \in [Present -> Session]
         /\ \A x \in Present : SessionOK(sessions'[x])
         /\ \A x \in Present : sessions'[x].graph = sessions[x].graph
         /\ \A x \in Present : sessions'[x].stage = sessions[x].stage
         /\ \A x \in Present : sessions'[x].open = sessions[x].open
         /\ \A x \in Present : DOMAIN sessions'[x].branches = DOMAIN sessions[x].branches
         /\ \A f : Loop(f) => Loop(f)'
         /\ \A f : Executor(f) => Executor(f)'
         /\ \A f : Passed(f) => Passed(f)'
         /\ \A q : ~IsAt(q.id, q.stage) => ~IsAt(q.id, q.stage)'
         /\ (\A x \in Present : /\ sessions[x].graph \in GraphIds
                                /\ sessions[x].stage \in 1 .. Len(Stages(sessions[x])) + 1)'
<1>1. /\ sessions'[id] = t
      /\ \A x \in Present \ {id} : sessions'[x] = sessions[x]
  BY SessionsNext
<1>2. Present' = Present
  BY SessionsNext
<1>3. /\ t.graph = sessions[id].graph /\ t.stage = sessions[id].stage
      /\ DOMAIN t.branches = DOMAIN sessions[id].branches
  BY DEF Kept
<1>4. /\ \A x \in Present : sessions'[x].graph = sessions[x].graph
      /\ \A x \in Present : sessions'[x].stage = sessions[x].stage
      /\ \A x \in Present : sessions'[x].open = sessions[x].open
      /\ \A x \in Present : DOMAIN sessions'[x].branches = DOMAIN sessions[x].branches
  BY <1>1, <1>3
<1>5. sessions' \in [Present -> Session]
  <2>1. \A x \in Present : sessions'[x] \in Session
    BY <1>1 DEF Typed
  <2>2. sessions' = [x \in Present |-> sessions'[x]]
    <3>1. Present \cup {id} = Present
      OBVIOUS
    <3> QED BY <3>1 DEF With
  <2> QED BY <2>1, <2>2
<1>6. \A x \in Present : SessionOK(sessions'[x])
  BY <1>1 DEF Typed
<1>7. \A f : Loop(f) => Loop(f)'
  BY <1>2, <1>4 DEF Loop
<1>8. \A x \in Present : \A b \in DOMAIN sessions[x].branches :
        sessions[x].branches[b].started => sessions'[x].branches[b].started
  BY <1>1, <1>3
<1>9. \A f : Executor(f) => Executor(f)'
  BY <1>2, <1>4, <1>8 DEF Executor
<1>10. \A f : Passed(f) => Passed(f)'
  BY <1>2, <1>4 DEF Passed
<1>11. \A q : ~IsAt(q.id, q.stage) => ~IsAt(q.id, q.stage)'
  BY <1>2, <1>4 DEF IsAt
<1>12. (\A x \in Present : /\ sessions[x].graph \in GraphIds
                           /\ sessions[x].stage \in 1 .. Len(Stages(sessions[x])) + 1)'
  BY <1>2, <1>4 DEF TypeOK, Stages
<1> QED BY <1>1, <1>2, <1>4, <1>5, <1>6, <1>7, <1>9, <1>10, <1>11, <1>12

\* A branch settled, and its stage about to be decided.
LEMMA SettledKeeps ==
  ASSUME IInv, Open, NEW id \in Present, NEW b \in DOMAIN sessions[id].branches, NEW ok \in BOOLEAN,
         sessions' = With(id, Settling(sessions[id], b, ok)),
         live' = live \ {<<id, sessions[id].stage, b>>},
         UNCHANGED <<now, phase, nextId, status, byGraph, queued, ghosts>>,
         NEW f \in FrameRecord, f.op = "evaluate", f.id = id, stack' # <<>>, Top' = f,
         stack' \in Stacks, All(stack') \subseteq All(stack) \cup {f}, Shaped', Tops',
         \A g \in All(stack) : g.op # "executor" => g \in All(stack'),
         Called => Called', Excused', \A x : ~AtTop(x)
  PROVE  IInv'
<1> DEFINE s == sessions[id]
           t == Settling(s, b, ok)
<1>a. TypeOK /\ Typed /\ Framed /\ Staged /\ Placed /\ Queued /\ Listed /\ Hooked /\ Moving
  BY DEF IInv
<1>b. /\ now' = now /\ phase' = phase /\ nextId' = nextId /\ status' = status /\ byGraph' = byGraph
      /\ queued' = queued /\ late' = late /\ broken' = broken /\ Open'
  BY DEF ghosts, Open
<1>c. s \in Session /\ SessionOK(s)
  BY <1>a, SessionTyped
<1> HIDE DEF t
<1>d. /\ t \in Session /\ SessionOK(t) /\ Kept(s, t)
      /\ t.open = s.open /\ t.launching = s.launching
      /\ t.branches[b].started = s.branches[b].started /\ t.branches[b].settled
      /\ \A c \in DOMAIN s.branches \ {b} : t.branches[c] = s.branches[c]
  BY <1>c, SettlingIs DEF t
<1>e. /\ sessions' = With(id, t) /\ live' \subseteq live
      /\ DOMAIN t.branches = DOMAIN s.branches
      /\ \A c \in DOMAIN t.branches : t.branches[c].started = s.branches[c].started
      /\ \A c \in DOMAIN t.branches : s.branches[c].settled => t.branches[c].settled
  BY <1>d DEF t, Kept
<1>f. /\ Present' = Present /\ sessions'[id] = t
      /\ \A x \in Present \ {id} : sessions'[x] = sessions[x]
      /\ sessions' \in [Present -> Session]
      /\ \A x \in Present : SessionOK(sessions'[x])
      /\ \A x \in Present : sessions'[x].graph = sessions[x].graph
      /\ \A x \in Present : sessions'[x].stage = sessions[x].stage
      /\ \A x \in Present : sessions'[x].open = sessions[x].open
      /\ \A x \in Present : DOMAIN sessions'[x].branches = DOMAIN sessions[x].branches
      /\ \A g : Loop(g) => Loop(g)'
      /\ \A g : Executor(g) => Executor(g)'
      /\ \A g : Passed(g) => Passed(g)'
      /\ \A q : ~IsAt(q.id, q.stage) => ~IsAt(q.id, q.stage)'
      /\ (\A x \in Present : /\ sessions[x].graph \in GraphIds
                             /\ sessions[x].stage \in 1 .. Len(Stages(sessions[x])) + 1)'
  <2>1. \A c \in DOMAIN t.branches : s.branches[c].started => t.branches[c].started
    BY <1>e
  <2>2. t \in Session
    BY <1>d
  <2> QED BY <1>a, <1>d, <1>e, <2>1, <2>2, SessionKept
<1>g. \A op : op \notin {"executor", "evaluate"} => IdsOf(stack', op) = IdsOf(stack, op)
  BY DEF IdsOf
<1>1. TypeOK'
  BY <1>a, <1>b, <1>e, <1>f DEF TypeOK
<1>2. Typed'
  <2>1. \A g \in All(stack') : /\ g.op \in {"begin", "finish"} => g.graph \in GraphIds
                               /\ g.op = "begin" => g.list \subseteq Ids
                               /\ g.op = "process" => g.list \subseteq Ids
                               /\ g.op = "finish" => g.then \in Final
    BY <1>a DEF Typed
  <2> QED BY <1>f, <2>1 DEF Typed
<1>3. Framed'
  <2>1. \A g \in All(stack') : Loop(g) /\ Executor(g) /\ Passed(g)
    BY <1>a DEF Framed, Loop, Executor, Passed, Loops
  <2> QED BY <1>f, <2>1 DEF Framed
<1>4. Staged'
  <2>1. \A x \in Present : sessions'[x].launching = sessions[x].launching
    BY <1>d, <1>f
  <2>2. \A x \in Present : Spent(sessions[x]) => Spent(sessions'[x])
    BY <1>e, <1>f DEF Spent
  <2>3. \A x \in Present : Len(Stages(sessions'[x])) = Len(Stages(sessions[x]))
    BY <1>f DEF Stages
  <2>4. \A x \in Present : sessions[x].launching => \E g \in All(stack') : g.op \in Loops /\ g.id = x
    BY <1>a DEF Staged, Loops
  <2>5. IdsOf(stack', "decided") = IdsOf(stack, "decided")
    BY <1>g
  <2>6. \A x \in Present : x \in IdsOf(stack, "decided") =>
          /\ ~sessions'[x].open /\ Spent(sessions'[x])
          /\ sessions'[x].stage <= Len(Stages(sessions'[x]))
    <3>1. \A x \in Present : x \in IdsOf(stack, "decided") =>
            /\ ~sessions[x].open /\ Spent(sessions[x])
            /\ sessions[x].stage <= Len(Stages(sessions[x]))
      BY <1>a DEF Staged
    <3> QED BY <1>f, <2>2, <2>3, <3>1
  <2>7. \A x \in Present : ~sessions'[x].open /\ x \notin IdsOf(stack, "decided") =>
          DOMAIN sessions'[x].branches = {}
    BY <1>a, <1>f DEF Staged
  <2> QED BY <1>f, <2>1, <2>4, <2>5, <2>6, <2>7 DEF Staged
<1>5. Placed'
  <2>1. id \in Ids /\ status[id] = "running"
    BY <1>a DEF TypeOK, Placed
  <2>2. \A g \in All(stack') : Concerns(g) => g.id \in Ids /\ status[g.id] \notin {"new", "queued"}
    BY <1>a, <2>1 DEF Placed
  <2>3. Ending' = Ending
    BY <1>g DEF Ending
  <2> QED BY <1>a, <1>b, <1>f, <2>2, <2>3 DEF Placed
<1>6. Queued'
  BY <1>a, <1>b DEF Queued, Waiting
<1>7. Listed'
  BY <1>a, <1>b, <1>f DEF Listed
<1>8. Hooked'
  <2> SUFFICES ASSUME NEW h \in live' PROVE Owed(h)'
    BY DEF Hooked
  <2>1. h \in live /\ h # <<id, s.stage, b>> /\ h = <<h[1], h[2], h[3]>>
    BY <1>a, HookIs
  <2>2. Owed(h)
    BY <1>a, <2>1 DEF Hooked
  <2>3. CASE /\ IsAt(h[1], h[2]) /\ h[3] \in DOMAIN sessions[h[1]].branches
             /\ sessions[h[1]].branches[h[3]].started /\ ~sessions[h[1]].branches[h[3]].settled
    <3>1. CASE h[1] = id
      <4>1. h[2] = s.stage /\ h[3] # b /\ h[3] \in DOMAIN s.branches
        BY <2>1, <2>3, <3>1 DEF IsAt
      <4>2. sessions'[id].branches[h[3]] = s.branches[h[3]]
        BY <1>d, <1>f, <4>1
      <4> QED BY <1>f, <2>3, <3>1, <4>1, <4>2 DEF Owed, IsAt
    <3>2. CASE h[1] # id
      <4>1. h[1] \in Present /\ sessions'[h[1]] = sessions[h[1]]
        BY <1>f, <2>3, <3>2 DEF IsAt
      <4> QED BY <1>f, <2>3, <4>1 DEF Owed, IsAt
    <3> QED BY <3>1, <3>2
  <2>4. CASE \/ \E g \in All(stack) : g.op = "finish" /\ g.id = h[1] /\ g.stage = h[2] /\ h[3] \in g.list
             \/ \E g \in All(stack) : g.op = "decided" /\ g.id = h[1] /\ h[3] \in g.list
    BY <2>4 DEF Owed
  <2> QED BY <2>2, <2>3, <2>4 DEF Owed
<1>9. Moving'
  <2>1. ASSUME NEW x \in Present, x \notin late PROVE Fine(x)' \/ Attended(x)'
    <3>1. DueBranches(sessions[x])' = DueBranches(sessions[x])
      <4>1. sessions'[x].at = sessions[x].at
        BY <1>d, <1>f DEF Kept
      <4>2. \A c \in DOMAIN sessions[x].branches :
              sessions'[x].branches[c].started = sessions[x].branches[c].started
        BY <1>e, <1>f
      <4> QED BY <1>b, <1>f, <4>1, <4>2 DEF DueBranches, Current, Stages
    <3>2. Fine(x) \/ Attended(x)
      BY <1>a, <2>1 DEF Moving
    <3>3. Attended(x) => Attended(x)'
      <4>1. \A g \in All(stack) : g.op \in {"process", "due"} => g \in All(stack')
        OBVIOUS
      <4> QED BY <1>f, <1>g, <3>1, <4>1, AttendedKept
    <3>4. ASSUME Fine(x), x = id PROVE Attended(x)'
      <4>1. Calm(x)' /\ NoDue(x)'
        BY <1>d, <1>f, <3>1, <3>4 DEF Fine, Calm, NoDue
      <4> QED BY <3>4, <4>1 DEF Attended, AtTop
    <3>5. ASSUME Fine(x), x # id PROVE Fine(x)'
      <4>1. sessions'[x] = sessions[x]
        BY <1>f, <3>5
      <4> QED BY <3>1, <3>5, <4>1 DEF Fine, Calm, NoDue, Verdict, Settled, Succeeded, Current, Stages
    <3> QED BY <3>2, <3>3, <3>4, <3>5
  <2> QED BY <1>b, <1>f, <2>1 DEF Moving
<1> QED BY <1>1, <1>2, <1>3, <1>4, <1>5, <1>6, <1>7, <1>8, <1>9 DEF IInv

LEMMA SettleKeeps ==
  ASSUME IInv, NEW id \in Present, NEW ok \in BOOLEAN, NEW b \in DOMAIN sessions[id].branches,
         Settle(id, b, ok)
  PROVE  IInv'
<1> DEFINE f == [Frame("evaluate", id) EXCEPT !.flag = TRUE]
<1>a. /\ Open /\ Under(stack).op \in Bases /\ (stack # <<>> => Top.op \in UserFrames)
      /\ sessions' = With(id, Settling(sessions[id], b, ok))
      /\ live' = live \ {<<id, sessions[id].stage, b>>}
      /\ UNCHANGED <<now, phase, nextId, status, byGraph, queued, ghosts>>
      /\ stack' = <<f>> \o stack
  BY CallerIs DEF Settle, IInv
<1>b. f \in FrameRecord /\ f.op = "evaluate" /\ f.id = id /\ f.flag
  <2>1. id \in 0 .. MaxSessions
    BY IdsTyped DEF IInv, TypeOK
  <2>2. Frame("evaluate", id) \in FrameRecord
    BY <2>1, FrameTyped DEF AboutSession
  <2> QED BY <2>2 DEF FrameRecord, Frame
<1> HIDE DEF f
<1>c. \A x \in Present' : x \in Present /\ sessions'[x].launching = sessions[x].launching
  <2>1. sessions[id] \in Session /\ SessionOK(sessions[id])
    BY SessionTyped DEF IInv
  <2> DEFINE t == Settling(sessions[id], b, ok)
  <2> HIDE DEF t
  <2>2. t.launching = sessions[id].launching
    BY <2>1, SettlingIs DEF t
  <2>3. sessions' = With(id, t)
    BY <1>a DEF t
  <2>4. /\ Present' = Present /\ sessions'[id] = t
        /\ \A x \in Present \ {id} : sessions'[x] = sessions[x]
    BY <2>3, SessionsNext
  <2> QED BY <2>2, <2>4
<1>1. /\ Shaped' /\ Tops' /\ Over(stack', stack, f) /\ All(stack') = All(stack) \cup {f}
      /\ IdsOf(stack', "decided") = IdsOf(stack, "decided")
      /\ Called => Called'
      /\ \A x : ~AtTop(x)
  BY <1>a, <1>b, <1>c, CallPushed
<1>2. Again => Again'
  <2>1. \A q : ~IsAt(q.id, q.stage) => ~IsAt(q.id, q.stage)'
    <3>1. sessions[id] \in Session /\ SessionOK(sessions[id])
      BY SessionTyped DEF IInv
    <3> DEFINE t == Settling(sessions[id], b, ok)
    <3> HIDE DEF t
    <3>2. t.stage = sessions[id].stage
      BY <3>1, SettlingIs DEF t, Kept
    <3>3. sessions' = With(id, t)
      BY <1>a DEF t
    <3>4. /\ Present' = Present /\ sessions'[id] = t
          /\ \A x \in Present \ {id} : sessions'[x] = sessions[x]
      BY <3>3, SessionsNext
    <3> QED BY <3>2, <3>4 DEF IsAt
  <2> QED BY <1>1, <2>1, AgainKept
<1>3. Excused'
  BY <1>a, <1>b, <1>1, <1>2, CallerExcused
<1>4. stack' # <<>> /\ Top' = f /\ stack' \in Stacks
  BY <1>1 DEF Over, Top
<1> QED BY <1>a, <1>b, <1>1, <1>3, <1>4, SettledKeeps

-----------------------------------------------------------------------------
\* The executors end.

\* An executor was called by the loop of a stage, and that loop by process.
LEMMA ExecutorTop ==
  ASSUME IInv, stack # <<>>, Top.op = "executor"
  PROVE  /\ Below # <<>> /\ Under(Below).op \in Loops /\ Under(Below).id = Top.id
         /\ Under(Below) \in All(Below) /\ Has(Below, "process")
         /\ Inner(Below) \subseteq {Under(Below)}
<1>a. /\ Over(stack, Below, Top) /\ Below \in Stacks /\ Linked(Below) /\ Apart(Below)
      /\ Link(Top, Under(Below))
      /\ Below # <<>> => Under(Below) \in All(Below)
  BY TopViews DEF IInv
<1>1. Under(Below).op \in Loops /\ Under(Below).id = Top.id /\ Below # <<>>
  BY <1>a DEF Link, Under, EventLoop, Frame, Loops
<1> DEFINE B == Tail(Below)
<1>2. /\ Over(Below, B, Head(Below)) /\ Link(Head(Below), Under(B)) /\ B \in Stacks
      /\ Linked(B) /\ Apart(B) /\ Head(Below) = Under(Below)
  BY <1>1, BelowIs DEF IInv, Framed
<1>3. B # <<>> /\ Head(B).op = "process"
  BY <1>1, <1>2 DEF Link, OnProcess, Loops, Under, EventLoop, Frame
<1>4. Over(B, Tail(B), Head(B))
  <2>1. Head(B) \in FrameRecord /\ Tail(B) \in Stacks /\ B = <<Head(B)>> \o Tail(B)
    BY <1>2, <1>3, Popped
  <2> QED BY <2>1, OverPush
<1>5. ~Has(Tail(B), "process") /\ Has(B, "process")
  BY <1>2, <1>3, <1>4 DEF Over, Has, Clash
<1>6. Inner(B) = {}
  BY <1>4, <1>5 DEF Over
<1>7. Inner(Below) \subseteq {Under(Below)} /\ Has(Below, "process")
  BY <1>2, <1>5, <1>6 DEF Over, Has
<1> QED BY <1>a, <1>1, <1>7

LEMMA ExecutorReturnsKeeps ==
  ASSUME IInv, NEW gives \in BOOLEAN, ExecutorReturns(gives)
  PROVE  IInv'
<1> DEFINE b == Min(Top.list)
           h == <<Top.id, Top.stage, b>>
           counts == IsAt(Top.id, Top.stage) /\ ~sessions[Top.id].branches[b].settled
<1>a. /\ stack # <<>> /\ Top.op = "executor" /\ stack' = Below
      /\ live' = IF gives /\ counts THEN live \cup {h} ELSE live
      /\ UNCHANGED <<now, phase, nextId, status, sessions, byGraph, queued, ghosts>>
  BY DEF ExecutorReturns, In
<1>b. /\ now' = now /\ phase' = phase /\ nextId' = nextId /\ status' = status /\ byGraph' = byGraph
      /\ queued' = queued /\ late' = late /\ broken' = broken /\ sessions' = sessions
      /\ Present' = Present /\ (Open' <=> Open)
  BY <1>a DEF ghosts, Open, Present
<1>c. \A x \in Present : ~AtTop(x)
  BY <1>a DEF AtTop, InProcess, In
<1>d. /\ All(stack) = All(Below) \cup {Top} /\ Below \in Stacks
      /\ \A g \in All(Below) : ~Clash(Top, g)
  BY <1>a, TopViews DEF IInv
<1>1. CASE ~(gives /\ counts)
  <2>1. UNCHANGED <<now, phase, tables, ghosts>>
    BY <1>1, <1>a DEF tables
  <2> QED BY <1>a, <1>c, <2>1, Pops DEF Loops
<1>2. CASE gives /\ counts
  <2>1. Shaped' /\ Tops' /\ Moving'
    <3>1. UNCHANGED <<now, phase, sessions, late>>
      BY <1>b
    <3> QED BY <1>a, <1>c, <3>1, PopsMoving DEF Loops
  <2>2. /\ Top.list = {b} /\ h \notin live /\ Top.id \in Present
        /\ b \in DOMAIN sessions[Top.id].branches /\ sessions[Top.id].branches[b].started
        /\ Top.id \in Ids /\ Top.stage \in Nat /\ b \in Nat
    <3>1. Executor(Top)
      BY <1>d DEF IInv, Framed
    <3>2. Top.id \in Present /\ sessions[Top.id].stage = Top.stage
      BY <1>2 DEF IsAt
    <3>3. DOMAIN sessions[Top.id].branches \subseteq Nat /\ sessions[Top.id].stage \in Nat
      BY <3>2, SessionTyped DEF IInv
    <3> QED BY <1>a, <3>1, <3>2, <3>3 DEF Executor, IInv, TypeOK
  <2>3. live' = live \cup {h}
    BY <1>2, <1>a
  <2>4. All(stack') = All(Below) /\ \A f \in All(stack) : f # Top => f \in All(stack')
    BY <1>a, <1>d
  <2>5. \A op : op # "executor" => IdsOf(stack', op) = IdsOf(stack, op)
    BY <1>a, <1>d DEF IdsOf
  <2>6. TypeOK'
    <3>1. h \in Ids \X Nat \X Nat
      BY <2>2
    <3>2. TypeOK
      BY DEF IInv
    <3> QED BY <1>b, <2>3, <3>1, <3>2 DEF TypeOK, Stages
  <2>7. Typed'
    <3>1. Typed
      BY DEF IInv
    <3> QED BY <1>a, <1>b, <1>d, <2>4, <3>1 DEF Typed, SessionOK, Stages, Current
  <2>8. Framed'
    <3>1. \A g \in All(Below) : Loop(g) /\ Executor(g) /\ Passed(g)
      BY <1>d DEF IInv, Framed
    <3>2. \A g \in All(Below) : Loop(g)' /\ Passed(g)'
      BY <1>b, <3>1 DEF Loop, Passed
    <3>3. ASSUME NEW g \in All(Below), g.op = "executor" PROVE Executor(g)'
      <4>1. Executor(g) /\ ~Clash(Top, g)
        BY <1>d, <3>1, <3>3
      <4>2. g.list = {Min(g.list)} /\ <<g.id, g.stage, Min(g.list)>> \notin live
        BY <3>3, <4>1 DEF Executor
      <4>3. <<g.id, g.stage, Min(g.list)>> # h
        BY <1>a, <2>2, <3>3, <4>1, <4>2 DEF Clash
      <4> QED BY <1>b, <2>3, <4>1, <4>2, <4>3 DEF Executor
    <3>4. \A g \in All(Below) : g.op # "executor" => Executor(g)'
      BY DEF Executor
    <3> QED BY <2>1, <2>4, <3>2, <3>3, <3>4 DEF Framed
  <2>9. Staged'
    <3>1. \A f \in All(stack) : f.op \in Loops => f \in All(stack')
      BY <1>a, <2>4 DEF Loops
    <3>2. \A x \in Present : sessions[x].launching => \E g \in All(stack') : g.op \in Loops /\ g.id = x
      BY <3>1 DEF IInv, Staged
    <3>3. Staged
      BY DEF IInv
    <3> QED BY <1>b, <2>5, <3>2, <3>3 DEF Staged
  <2>10. Placed' /\ Queued'
    <3>1. Placed /\ Queued
      BY DEF IInv
    <3>2. Placed'
      BY <1>b, <1>d, <2>4, <2>5, <3>1 DEF Placed, Ending
    <3>3. Queued'
      BY <1>b, <3>1 DEF Queued, Waiting
    <3> QED BY <3>2, <3>3
  <2>11. Listed'
    <3>1. \A f \in All(stack) : f.op = "finish" => f \in All(stack')
      BY <1>a, <2>4
    <3> QED BY <1>b, <3>1 DEF IInv, Listed
  <2>12. Hooked'
    <3>1. \A f \in All(stack) : f.op \in {"finish", "decided"} => f \in All(stack')
      BY <1>a, <2>4
    <3>2. \A x \in live : Owed(x)'
      BY <1>b, <3>1 DEF IInv, Hooked, Owed, IsAt
    <3>3. ASSUME NEW x, x = h PROVE Owed(x)'
      <4>1. x[1] = Top.id /\ x[2] = Top.stage /\ x[3] = b
        BY <3>3
      <4>2. /\ x[1] \in Present /\ sessions[x[1]].stage = x[2]
            /\ x[3] \in DOMAIN sessions[x[1]].branches
            /\ sessions[x[1]].branches[x[3]].started /\ ~sessions[x[1]].branches[x[3]].settled
        BY <1>2, <2>2, <4>1 DEF IsAt
      <4> QED BY <1>b, <4>2 DEF Owed, IsAt
    <3>4. \A x \in live' : x \in live \/ x = h
      BY <2>3
    <3> QED BY <3>2, <3>3, <3>4 DEF Hooked
  <2> QED BY <2>1, <2>6, <2>7, <2>8, <2>9, <2>10, <2>11, <2>12 DEF IInv
<1> QED BY <1>1, <1>2

LEMMA ExecutorPanicsKeeps ==
  ASSUME IInv, ExecutorPanics
  PROVE  IInv'
<1> DEFINE b == Min(Top.list)
           id == Top.id
           counts == IsAt(Top.id, Top.stage) /\ ~sessions[Top.id].branches[b].settled
           f == [Frame("evaluate", id) EXCEPT !.flag = TRUE]
<1>a. /\ stack # <<>> /\ Top.op = "executor"
      /\ IF phase = "open" /\ counts
         THEN /\ sessions' = With(id, Settling(sessions[id], b, FALSE))
              /\ stack' = <<f>> \o Below
         ELSE stack' = Below /\ UNCHANGED sessions
      /\ UNCHANGED <<now, phase, nextId, status, byGraph, queued, live, ghosts>>
  BY DEF ExecutorPanics, In
<1>c. \A x : ~AtTop(x)
  BY <1>a DEF AtTop, InProcess, In
<1>1. CASE ~(phase = "open" /\ counts)
  <2>1. UNCHANGED <<now, phase, tables, ghosts>> /\ stack' = Below
    BY <1>1, <1>a DEF tables
  <2> QED BY <1>a, <1>c, <2>1, Pops DEF Loops
<1>2. CASE phase = "open" /\ counts
  <2>a. /\ Over(stack, Below, Top) /\ Below \in Stacks /\ Linked(Below) /\ Apart(Below)
        /\ All(stack) = All(Below) \cup {Top} /\ Top \in FrameRecord
    BY <1>a, TopViews DEF IInv
  <2>b. /\ Under(Below).op \in Loops /\ Under(Below).id = id /\ Has(Below, "process")
        /\ Inner(Below) \subseteq {Under(Below)}
    BY <1>a, ExecutorTop
  <2>1. /\ sessions' = With(id, Settling(sessions[id], b, FALSE)) /\ stack' = <<f>> \o Below
        /\ Open
    BY <1>2, <1>a DEF Open
  <2>2. id \in Present /\ sessions[id].stage = Top.stage
    BY <1>2 DEF IsAt
  <2>3. b \in DOMAIN sessions[id].branches /\ <<id, sessions[id].stage, b>> \notin live
    <3>1. Executor(Top)
      BY <2>a DEF IInv, Framed
    <3> QED BY <1>a, <2>2, <3>1 DEF Executor
  <2>4. f \in FrameRecord /\ f.op = "evaluate" /\ f.id = id /\ f.flag
    <3>1. id \in 0 .. MaxSessions
      BY <2>a DEF FrameRecord
    <3>2. Frame("evaluate", id) \in FrameRecord
      BY <3>1, FrameTyped DEF AboutSession
    <3> QED BY <3>2 DEF FrameRecord, Frame
  <2> HIDE DEF f
  <2>5. Over(stack', Below, f)
    BY <2>1, <2>4, <2>a, OverPush
  <2>6. stack' # <<>> /\ Top' = f /\ Below' = Below /\ stack' \in Stacks
        /\ All(stack') = All(Below) \cup {f}
    BY <2>5 DEF Over, Top, Below
  <2>7. Shaped'
    <3>1. Link(f, Under(Below))
      BY <2>b, <2>4 DEF Link, AboutSession, Loops, Bases, UserFrames
    <3>2. \A g : ~Clash(f, g)
      BY <2>4 DEF Clash, Loops
    <3> QED BY <2>a, <2>5, <3>1, <3>2 DEF Over, Shaped
  <2>8. \A x \in Present' : x \in Present /\ sessions'[x].launching = sessions[x].launching
    <3>1. sessions[id] \in Session /\ SessionOK(sessions[id])
      BY <2>2, SessionTyped DEF IInv
    <3>2. PICK ok \in BOOLEAN : ok = FALSE
      OBVIOUS
    <3> DEFINE t == Settling(sessions[id], b, ok)
    <3> HIDE DEF t, b
    <3>5. t.launching = sessions[id].launching
      BY <2>3, <3>1, SettlingIs DEF t
    <3>3. sessions' = With(id, t)
      BY <2>1, <3>2 DEF t
    <3>4. /\ Present' = Present /\ sessions'[id] = t
          /\ \A x \in Present \ {id} : sessions'[x] = sessions[x]
      BY <2>2, <3>3, SessionsNext
    <3> QED BY <3>4, <3>5
  <2>9. Tops'
    <3>1. \A g \in All(Below) : g.op \in Loops /\ g.id \in Present => sessions[g.id].launching
      BY <1>a DEF IInv, Framed, Tops
    <3> QED BY <2>4, <2>6, <2>8, <3>1 DEF Tops, InProcess, In
  <2>10. Called => Called'
    BY <1>a, <2>a, <2>b, <2>5 DEF Called, Over
  <2>11. Excused'
    <3>1. Inner(stack') \subseteq {Under(Below), f}
      BY <2>b, <2>5 DEF Over
    <3> QED BY <2>b, <2>4, <3>1 DEF Excused
  <2>12. live' = live \ {<<id, sessions[id].stage, b>>}
    BY <1>a, <2>3
  <2>13. All(stack') \subseteq All(stack) \cup {f} /\ \A g \in All(stack) : g.op # "executor" => g \in All(stack')
    BY <1>a, <2>a, <2>6
  <2> HIDE DEF b, id
  <2> QED BY <1>a, <1>c, <2>1, <2>2, <2>3, <2>4, <2>6, <2>7, <2>9, <2>10, <2>11, <2>12, <2>13, SettledKeeps
<1> QED BY <1>1, <1>2

-----------------------------------------------------------------------------
\* The runtime is disposed or dropped.

LEMMA Closes ==
  ASSUME IInv, stack' = stack, stack # <<>> => Top.op \in UserFrames,
         phase' \in {"disposed", "dropped"}, UNCHANGED <<now, nextId>>, late' \subseteq Ids,
         sessions' = <<>>,
         byGraph' = [g \in GraphIds |-> {}], queued' = [g \in GraphIds |-> {}],
         live' \subseteq live, \A h \in live' : h[1] \in Present => h[1] \in IdsOf(stack, "decided"),
         NEW waiting, waiting = UNION {queued[g] : g \in GraphIds},
         NEW ended, ended \subseteq Present \cup waiting,
         status' = [id \in Ids |-> IF id \in ended THEN "cancelled" ELSE status[id]],
         broken' = broken \cup ((Present \cup waiting) \ ended)
  PROVE  IInv'
<1>a. TypeOK /\ Typed /\ Shaped /\ Framed /\ Staged /\ Placed /\ Queued /\ Listed /\ Hooked
  BY DEF IInv
<1>b. Present' = {} /\ ~Open'
  <2>1. DOMAIN <<>> = {}
    OBVIOUS
  <2> QED BY <2>1 DEF Present, Open
<1>c. /\ \A id \in waiting : \E g \in GraphIds : id \in queued[g]
      /\ \A g \in GraphIds : queued[g] \subseteq waiting
  OBVIOUS
<1>d. waiting \subseteq Ids /\ \A id \in waiting : status[id] \in {"queued", "cancelled"}
  BY <1>a, <1>c DEF TypeOK, Queued
<1>e. \A id \in Ids : status'[id] = IF id \in ended THEN "cancelled" ELSE status[id]
  OBVIOUS
<1>f. Ending \subseteq Ids /\ Present \subseteq Ids /\ broken \subseteq Ids /\ broken' \subseteq Ids
      /\ Ending' = Ending
  <2>1. Ending \subseteq Ids /\ Present \subseteq Ids /\ broken \subseteq Ids
    BY <1>a DEF Placed, Ending, IdsOf, Concerns, AboutSession, TypeOK
  <2>2. broken' \subseteq Ids
    BY <2>1, <1>d
  <2> QED BY <2>1, <2>2 DEF Ending
<1>1. TypeOK'
  <2>1. status' \in [Ids -> Final \cup {"new", "queued", "running"}]
    BY <1>a DEF TypeOK, Final
  <2>2. byGraph' \in [GraphIds -> SUBSET Ids] /\ queued' \in [GraphIds -> SUBSET Ids]
    OBVIOUS
  <2>3. live' \subseteq Ids \X Nat \X Nat /\ now' \in 0 .. MaxNow /\ nextId' \in 1 .. MaxSessions + 1
    BY <1>a DEF TypeOK
  <2> QED BY <1>b, <1>f, <2>1, <2>2, <2>3 DEF TypeOK
<1>2. Typed'
  <2>1. sessions' \in [Present' -> Session]
    BY <1>b DEF Present
  <2> QED BY <1>a, <1>b, <2>1 DEF Typed
<1>3. Shaped'
  BY <1>a DEF Shaped
<1>4. Framed'
  <2>1. Tops'
    BY <1>b DEF Tops, InProcess, In, Top, Below, UserFrames
  <2>2. \A f \in All(stack) : Loop(f)' /\ Passed(f)'
    BY <1>b DEF Loop, Passed
  <2>3. \A f \in All(stack) : Executor(f)'
    BY <1>a, <1>b DEF Framed, Executor
  <2> QED BY <2>1, <2>2, <2>3 DEF Framed
<1>5. Staged'
  BY <1>b DEF Staged
<1>6. Placed'
  <2>1. Ending \cap broken' = {}
    BY <1>a, <1>d, <1>f DEF Placed
  <2>2. \A id \in Ending : status'[id] = "running"
    BY <1>a, <1>d, <1>e, <1>f DEF Placed
  <2>3. \A id \in Ids : status'[id] = "running" => id \in Ending \cup broken'
    BY <1>a, <1>e DEF Placed
  <2>4. \A id \in Ids : id >= nextId' <=> status'[id] = "new"
    <3>1. \A id \in ended : status[id] # "new"
      BY <1>a, <1>d DEF Placed
    <3> QED BY <1>a, <1>e, <3>1 DEF Placed
  <2>5. \A f \in All(stack) : Concerns(f) => f.id \in Ids /\ status'[f.id] \notin {"new", "queued"}
    BY <1>a, <1>e DEF Placed
  <2>6. \A id \in broken' : status'[id] # "new"
    BY <1>a, <1>d, <1>e, <1>f DEF Placed
  <2> QED BY <1>b, <1>f, <2>1, <2>2, <2>3, <2>4, <2>5, <2>6 DEF Placed
<1>7. Queued'
  <2>1. \A id \in Ids : status'[id] = "queued" => id \in broken'
    BY <1>a, <1>c, <1>e DEF Queued
  <2> QED BY <2>1 DEF Queued, Waiting
<1>8. Listed'
  BY <1>b DEF Listed
<1>9. Hooked'
  <2> SUFFICES ASSUME NEW h \in live' PROVE Owed(h)'
    BY DEF Hooked
  <2>1. Owed(h)
    BY <1>a DEF Hooked
  <2>2. ~(/\ IsAt(h[1], h[2]) /\ h[3] \in DOMAIN sessions[h[1]].branches
          /\ sessions[h[1]].branches[h[3]].started /\ ~sessions[h[1]].branches[h[3]].settled)
    BY <1>a DEF Staged, Spent, IsAt
  <2> QED BY <2>1, <2>2 DEF Owed
<1>10. Moving'
  BY <1>b DEF Moving
<1> QED BY <1>1, <1>2, <1>3, <1>4, <1>5, <1>6, <1>7, <1>8, <1>9, <1>10 DEF IInv

LEMMA DisposeKeeps ==
  ASSUME IInv, Dispose
  PROVE  IInv'
<1> DEFINE waiting == UNION {queued[g] : g \in GraphIds}
           held == Held \cap Present
<1>a. /\ stack' = stack /\ phase' = "disposed" /\ UNCHANGED <<now, nextId>> /\ late' = late
      /\ sessions' = <<>>
      /\ byGraph' = [g \in GraphIds |-> {}] /\ queued' = [g \in GraphIds |-> {}]
      /\ live' = {h \in live : h[1] \notin Present \ Held}
      /\ stack # <<>> => Top.op \in UserFrames
  BY CallerIs DEF Dispose, IInv
<1>b. PICK reached \in (IF held = {} THEN {Present} ELSE SUBSET (Present \ held)) :
        LET ended == reached \cup (IF held = {} THEN waiting ELSE {})
        IN /\ status' = [id \in Ids |-> IF id \in ended THEN "cancelled" ELSE status[id]]
           /\ broken' = broken \cup ((Present \cup waiting) \ ended)
  BY DEF Dispose
<1> DEFINE ended == reached \cup (IF held = {} THEN waiting ELSE {})
<1>c. /\ status' = [id \in Ids |-> IF id \in ended THEN "cancelled" ELSE status[id]]
      /\ broken' = broken \cup ((Present \cup waiting) \ ended)
  BY <1>b
<1>d. ended \subseteq Present \cup waiting
  BY <1>b
<1>e. \A h \in live' : h[1] \in Present => h[1] \in IdsOf(stack, "decided")
  <2> SUFFICES ASSUME NEW h \in live', h[1] \in Present PROVE h[1] \in IdsOf(stack, "decided")
    OBVIOUS
  <2>1. h[1] \in Held
    BY <1>a
  <2>2. stack \in Stacks /\ Linked(stack)
    BY DEF IInv, Typed, Shaped
  <2>3. PICK f \in All(stack) : f.op = "heldHook" /\ f.id = h[1]
    BY <2>1, <2>2, StackReads DEF IdsOf
  <2> QED BY <2>2, <2>3, HookOnDecided
<1>f. late' \subseteq Ids /\ live' \subseteq live /\ phase' \in {"disposed", "dropped"}
  BY <1>a DEF IInv, TypeOK
<1>g. waiting = UNION {queued[g] : g \in GraphIds}
  OBVIOUS
<1> HIDE DEF ended, waiting
<1> QED BY <1>a, <1>c, <1>d, <1>e, <1>f, <1>g, Closes

LEMMA DropKeeps ==
  ASSUME IInv, Drop
  PROVE  IInv'
<1> DEFINE waiting == UNION {queued[g] : g \in GraphIds}
           ended == Present \cup waiting
<1>a. /\ stack = <<>> /\ stack' = stack /\ phase' = "dropped" /\ UNCHANGED <<now, nextId>>
      /\ late' = late /\ broken' = broken /\ sessions' = <<>>
      /\ byGraph' = [g \in GraphIds |-> {}] /\ queued' = [g \in GraphIds |-> {}]
      /\ live' = {h \in live : h[1] \notin Present}
      /\ status' = [id \in Ids |-> IF id \in ended THEN "cancelled" ELSE status[id]]
  BY DEF Drop, ghosts
<1>b. /\ late' \subseteq Ids /\ live' \subseteq live /\ phase' \in {"disposed", "dropped"}
      /\ \A h \in live' : h[1] \in Present => h[1] \in IdsOf(stack, "decided")
      /\ stack # <<>> => Top.op \in UserFrames
  BY <1>a DEF IInv, TypeOK
<1>c. waiting = UNION {queued[g] : g \in GraphIds} /\ ended \subseteq Present \cup waiting
      /\ broken' = broken \cup ((Present \cup waiting) \ ended)
  BY <1>a
<1> HIDE DEF ended, waiting
<1> QED BY <1>a, <1>b, <1>c, Closes


-----------------------------------------------------------------------------
\* A session begins: one that is started or one that waited.

LEMMA BegunIs ==
  ASSUME IInv, NEW id \in Ids, status[id] \in {"new", "queued"}, NEW g \in GraphIds,
         sessions' = With(id, NewSession(g)), live' = live
  PROVE  /\ id \notin Present /\ Present' = Present \cup {id} /\ Present' \subseteq Ids
         /\ sessions'[id].graph = g /\ sessions'[id].stage = 1
         /\ ~sessions'[id].open /\ ~sessions'[id].launching
         /\ DOMAIN sessions'[id].branches = {}
         /\ \A x \in Present : x # id /\ sessions'[x] = sessions[x]
         /\ sessions' \in [Present' -> Session]
         /\ \A x \in Present' : SessionOK(sessions'[x])
         /\ \A f \in All(stack) : Concerns(f) => f.id # id
         /\ \A f \in All(stack) : Loop(f)' /\ Executor(f)' /\ Passed(f)'
         /\ \A q \in All(stack) : q.op = "process" /\ q.then # "pick" /\ ~IsAt(q.id, q.stage) =>
              ~IsAt(q.id, q.stage)'
<1> DEFINE t == NewSession(g)
<1>1. t \in Session /\ SessionOK(t)
  BY NewSessionTyped
<1>2. /\ t.graph = g /\ t.stage = 1 /\ t.open = FALSE /\ t.launching = FALSE
      /\ DOMAIN t.branches = {}
  BY DEF NewSession
<1> HIDE DEF t
<1>3. sessions' = With(id, t)
  BY DEF t
<1>4. id \notin Present /\ Present \subseteq Ids
  BY DEF IInv, Placed, TypeOK
<1>5. /\ Present' = Present \cup {id} /\ sessions'[id] = t
      /\ \A x \in Present : x # id /\ sessions'[x] = sessions[x]
  BY <1>3, <1>4, SessionsNext
<1>6. sessions' \in [Present' -> Session]
  <2>1. sessions \in [Present -> Session]
    BY DEF IInv, Typed
  <2>2. \A x \in Present' : sessions'[x] \in Session
    BY <1>1, <1>5, <2>1
  <2>3. sessions' = [x \in Present' |-> sessions'[x]]
    BY <1>3, <1>5 DEF With
  <2> QED BY <2>2, <2>3
<1>7. \A x \in Present' : SessionOK(sessions'[x])
  BY <1>1, <1>5 DEF IInv, Typed
<1>8. \A f \in All(stack) : Concerns(f) => f.id # id
  BY DEF IInv, Placed
<1>9. \A f \in All(stack) : Loop(f)' /\ Executor(f)' /\ Passed(f)'
  <2>1. \A f \in All(stack) : Loop(f) /\ Executor(f) /\ Passed(f)
    BY DEF IInv, Framed
  <2>2. \A f \in All(stack) : Loop(f)'
    BY <1>5, <1>8, <2>1 DEF Loop, Concerns, AboutSession, Loops
  <2>3. \A f \in All(stack) : Executor(f)'
    BY <1>5, <1>8, <2>1 DEF Executor, Concerns, AboutSession
  <2>4. \A f \in All(stack) : Passed(f)'
    BY <1>5, <1>8, <2>1 DEF Passed, Concerns
  <2> QED BY <2>2, <2>3, <2>4
<1>10. \A q \in All(stack) : q.op = "process" /\ q.then # "pick" /\ ~IsAt(q.id, q.stage) =>
         ~IsAt(q.id, q.stage)'
  BY <1>5, <1>8 DEF IsAt, Concerns
<1> QED BY <1>2, <1>4, <1>5, <1>6, <1>7, <1>8, <1>9, <1>10

LEMMA BegunKeeps ==
  ASSUME IInv, NEW id \in Ids, status[id] \in {"new", "queued"}, NEW g \in GraphIds,
         sessions' = With(id, NewSession(g)), live' = live,
         stack' \in Stacks, Tops',
         \A f \in All(stack') : f \in All(stack) \/ f.op = "callProcess",
         \A f \in All(stack) : f.op \in Loops \cup {"decided"} => f \in All(stack')
  PROVE  Typed' /\ Framed' /\ Staged'
<1>a. /\ Present' = Present \cup {id}
      /\ ~sessions'[id].open /\ ~sessions'[id].launching /\ DOMAIN sessions'[id].branches = {}
      /\ \A x \in Present : x # id /\ sessions'[x] = sessions[x]
      /\ sessions' \in [Present' -> Session]
      /\ \A x \in Present' : SessionOK(sessions'[x])
      /\ \A f \in All(stack) : Concerns(f) => f.id # id
      /\ \A f \in All(stack) : Loop(f)' /\ Executor(f)' /\ Passed(f)'
  BY BegunIs
<1>b. Typed /\ Staged
  BY DEF IInv
<1>1. Typed'
  <2>1. \A f \in All(stack') : /\ f.op \in {"begin", "finish"} => f.graph \in GraphIds
                               /\ f.op = "begin" => f.list \subseteq Ids
                               /\ f.op = "process" => f.list \subseteq Ids
                               /\ f.op = "finish" => f.then \in Final
    BY <1>b DEF Typed
  <2>2. (\A x \in Present : SessionOK(sessions[x]))'
    BY <1>a
  <2> QED BY <1>a, <2>1, <2>2 DEF Typed
<1>2. Framed'
  <2>1. \A f \in All(stack') : Loop(f)' /\ Executor(f)' /\ Passed(f)'
    BY <1>a DEF Loop, Executor, Passed, Loops
  <2> QED BY <2>1 DEF Framed
<1>3. Staged'
  <2>1. IdsOf(stack', "decided") = IdsOf(stack, "decided")
    BY DEF IdsOf
  <2>2. id \notin IdsOf(stack, "decided")
    BY <1>a DEF IdsOf, Concerns, AboutSession
  <2>3. \A x \in Present : sessions[x].launching => \E f \in All(stack') : f.op \in Loops /\ f.id = x
    BY <1>b DEF Staged
  <2>4. \A x \in Present : Spent(sessions[x]) => Spent(sessions'[x])
    BY <1>a
  <2>5. \A x \in Present : /\ sessions[x].stage = sessions'[x].stage
                           /\ Stages(sessions[x]) = Stages(sessions'[x])
                           /\ sessions[x].open = sessions'[x].open
                           /\ sessions[x].launching = sessions'[x].launching
                           /\ DOMAIN sessions[x].branches = DOMAIN sessions'[x].branches
    BY <1>a
  <2>6. ASSUME NEW x \in Present'
        PROVE  /\ x \in IdsOf(stack, "decided") =>
                    /\ ~sessions'[x].open /\ Spent(sessions'[x])
                    /\ sessions'[x].stage <= Len(Stages(sessions'[x]))
               /\ ~sessions'[x].open /\ x \notin IdsOf(stack, "decided") =>
                    DOMAIN sessions'[x].branches = {}
               /\ sessions'[x].launching => \E f \in All(stack') : f.op \in Loops /\ f.id = x
    <3>1. CASE x = id
      BY <1>a, <2>2, <3>1
    <3>2. CASE x # id
      BY <1>a, <1>b, <2>3, <2>4, <2>5, <3>2 DEF Staged
    <3> QED BY <3>1, <3>2
  <2> QED BY <2>1, <2>6 DEF Staged
<1> QED BY <1>1, <1>2, <1>3

LEMMA BegunMoves ==
  ASSUME IInv, NEW id \in Ids, status[id] \in {"new", "queued"}, NEW g \in GraphIds,
         sessions' = With(id, NewSession(g)), live' = live, UNCHANGED <<now, phase>>,
         late' = IF DelayedRuns THEN late \cup {id} ELSE late,
         stack # <<>>, Top.op \in {"begin", "finish"},
         All(Below) \subseteq All(stack'), IdsOf(stack', "decided") = IdsOf(stack, "decided"),
         Called => Called', Delayed(Below) => Delayed(stack'),
         ~Has(Below, "process") => Inner(stack') = {} /\ Called'
  PROVE  Moving'
<1> SUFFICES ASSUME Open' PROVE Excused' /\ \A x \in Present' \ late' : Fine(x)' \/ Attended(x)'
  BY DEF Moving
<1>a. /\ Present' = Present \cup {id}
      /\ \A x \in Present : x # id /\ sessions'[x] = sessions[x]
      /\ \A q \in All(stack) : q.op = "process" /\ q.then # "pick" /\ ~IsAt(q.id, q.stage) =>
           ~IsAt(q.id, q.stage)'
  BY BegunIs
<1>b. Over(stack, Below, Top) /\ stack \in Stacks /\ All(stack) = All(Below) \cup {Top}
  BY TopViews DEF IInv, Typed
<1>c. Moving /\ Open
  BY DEF IInv, Open
<1>d. \A f \in All(stack) : f.op \in {"process", "due"} => f \in All(stack')
  BY <1>b
<1>1. Again => Again'
  BY <1>a, <1>d, AgainKept
<1>2. Has(Below, "process") => Again \/ Delayed(stack)
  <2>1. Has(Below, "process") => Top \in Inner(stack)
    BY <1>b DEF Over
  <2> QED BY <1>c, <2>1 DEF Moving, Excused, Loops
<1>3. Delayed(stack) => Delayed(stack') /\ DelayedRuns
  BY <1>b, StackReads DEF Over
<1>4. Excused'
  BY <1>1, <1>2, <1>3 DEF Excused
<1>5. ASSUME NEW x \in Present, x \notin late PROVE Fine(x)' \/ Attended(x)'
  <2>1. DueBranches(sessions[x])' = DueBranches(sessions[x])
    BY <1>a DEF DueBranches, Current, Stages
  <2>2. Fine(x) => Fine(x)'
    BY <1>a, <2>1 DEF Fine, Calm, NoDue, Verdict, Settled, Succeeded, Current, Stages
  <2>3. Fine(x) \/ Attended(x)
    BY <1>c, <1>5 DEF Moving
  <2>4. ~AtTop(x)
    BY DEF AtTop, InProcess, In
  <2>5. Attended(x) => Attended(x)'
    BY <1>a, <1>d, <2>1, <2>4, AttendedKept
  <2> QED BY <2>2, <2>3, <2>5
<1>6. id \notin late' => Attended(id)'
  BY <1>1, <1>2, <1>3 DEF Attended
<1> QED BY <1>4, <1>5, <1>6, <1>a

LEMMA BeginKeeps ==
  ASSUME IInv, Begin
  PROVE  IInv'
<1>a. /\ stack # <<>> /\ Top.op = "begin" /\ Top.list = {}
      /\ UNCHANGED <<now, phase, queued, live, broken>>
  BY DEF Begin, In
<1>1. CASE nextId \notin Ids
  <2>1. stack' = Below /\ UNCHANGED <<now, phase, tables, ghosts>>
    BY <1>1 DEF Begin, tables, ghosts
  <2>2. \A x : ~AtTop(x)
    BY <1>a DEF AtTop, InProcess, In
  <2> QED BY <1>a, <2>1, <2>2, Pops DEF Loops
<1>2. CASE nextId \in Ids
  <2> DEFINE f == Frame("callProcess", 0)
             g == Top.graph
  <2>a. /\ nextId' = nextId + 1 /\ status' = [status EXCEPT ![nextId] = "running"]
        /\ sessions' = With(nextId, NewSession(g))
        /\ byGraph' = [byGraph EXCEPT ![g] = @ \cup {nextId}]
        /\ stack' = <<f>> \o Below
        /\ late' = IF DelayedRuns THEN late \cup {nextId} ELSE late
    BY <1>2 DEF Begin, MarkLate
  <2>b. f \in FrameRecord /\ f.op = "callProcess"
    BY FrameTyped, IdsTyped DEF Frame
  <2> HIDE DEF f
  <2>c. /\ Over(stack, Below, Top) /\ Below \in Stacks /\ Linked(Below) /\ Apart(Below)
        /\ Link(Top, Under(Below)) /\ All(stack) = All(Below) \cup {Top}
    BY <1>a, TopViews DEF IInv
  <2>d. Over(stack', Below, f)
    BY <2>a, <2>b, <2>c, OverPush
  <2>e. All(stack') = All(Below) \cup {f} /\ stack' \in Stacks /\ stack' # <<>>
        /\ Top' = f /\ Below' = Below
    BY <2>d DEF Over, Top, Below
  <2>f. g \in GraphIds /\ status[nextId] = "new" /\ nextId \in Nat /\ live' = live
    BY <1>a, <1>2, <2>c DEF IInv, Typed, Placed, TypeOK
  <2> HIDE DEF g
  <2>g. /\ nextId \notin Present /\ Present' = Present \cup {nextId} /\ Present' \subseteq Ids
        /\ sessions'[nextId].graph = g /\ sessions'[nextId].stage = 1
        /\ \A x \in Present : x # nextId /\ sessions'[x] = sessions[x]
        /\ \A x \in Present' : SessionOK(sessions'[x])
        /\ \A h \in All(stack) : Concerns(h) => h.id # nextId
    BY <1>2, <2>a, <2>f, BegunIs
  <2>h. /\ byGraph'[g] = byGraph[g] \cup {nextId}
        /\ \A h \in GraphIds \ {g} : byGraph'[h] = byGraph[h]
        /\ byGraph' \in [GraphIds -> SUBSET Ids]
    BY <1>2, <2>a, <2>f DEF IInv, TypeOK
  <2>i. /\ status'[nextId] = "running" /\ \A x \in Ids \ {nextId} : status'[x] = status[x]
        /\ status' \in [Ids -> Final \cup {"new", "queued", "running"}]
    BY <1>2, <2>a DEF IInv, TypeOK
  <2>j. \A op \in {"decided", "finish"} : IdsOf(stack', op) = IdsOf(stack, op)
    BY <1>a, <2>b, <2>c, <2>e DEF IdsOf
  <2>k. /\ queued' = queued /\ broken' = broken /\ now' = now /\ phase' = phase /\ (Open' <=> Open)
    BY <1>a DEF Open
  <2>1. TypeOK'
    <3>1. nextId' \in 1 .. MaxSessions + 1
      BY <1>2, <2>a, IdsTyped DEF Ids
    <3>2. late' \subseteq Ids
      BY <1>2, <2>a DEF IInv, TypeOK
    <3>3. \A x \in Present' : /\ sessions'[x].graph \in GraphIds
                              /\ sessions'[x].stage \in 1 .. Len(Stages(sessions'[x])) + 1
      BY <2>f, <2>g DEF IInv, TypeOK, SessionOK
    <3> QED BY <2>f, <2>g, <2>h, <2>i, <2>k, <3>1, <3>2, <3>3 DEF IInv, TypeOK, Stages
  <2>2. Shaped'
    <3>1. Link(f, Under(Below))
      BY <1>a, <2>b, <2>c DEF Link, AboutSession, Loops
    <3>2. \A h : ~Clash(f, h)
      BY <2>b DEF Clash, Loops
    <3> QED BY <2>c, <2>d, <3>1, <3>2 DEF Over, Shaped
  <2>3. Tops'
    <3>1. \A h \in All(Below) : h.op \in Loops /\ h.id \in Present' => sessions'[h.id].launching
      <4>1. \A h \in All(Below) : h.op \in Loops /\ h.id \in Present => sessions[h.id].launching
        BY <1>a DEF IInv, Framed, Tops
      <4>2. \A h \in All(Below) : h.op \in Loops => h.id # nextId
        BY <2>c, <2>g DEF Concerns, AboutSession, Loops
      <4> QED BY <2>g, <4>1, <4>2
    <3> QED BY <2>b, <2>e, <3>1 DEF Tops, InProcess, In
  <2>4. Typed' /\ Framed' /\ Staged'
    <3>1. \A h \in All(stack) : h.op \in Loops \cup {"decided"} => h \in All(stack')
      BY <1>a, <2>c, <2>e DEF Loops
    <3>2. \A h \in All(stack') : h \in All(stack) \/ h.op = "callProcess"
      BY <2>b, <2>c, <2>e
    <3> QED BY <1>2, <2>3, <2>a, <2>e, <2>f, <3>1, <3>2, BegunKeeps
  <2>5. Placed'
    <3>0. Placed
      BY DEF IInv
    <3>1. Ending' = Ending /\ nextId \notin Ending /\ nextId \notin broken /\ Ending \subseteq Ids
          /\ broken \subseteq Ids /\ Present \subseteq Ids
      BY <2>f, <2>j, <3>0 DEF IInv, TypeOK, Placed, Ending, IdsOf, Concerns, AboutSession
    <3>2. \A x \in Present' \cup Ending : status'[x] = "running"
      BY <2>g, <2>i, <3>0, <3>1 DEF Placed
    <3>3. \A x \in Ids : status'[x] = "running" => x \in Present' \cup Ending \cup broken
      BY <2>g, <2>i, <3>0 DEF Placed
    <3>4. \A x \in broken : status'[x] # "new" /\ (Open => status'[x] = "running")
      BY <2>i, <3>0, <3>1 DEF Placed
    <3>5. \A x \in Ids : x >= nextId' <=> status'[x] = "new"
      <4>1. \A x \in Ids : x >= nextId <=> status[x] = "new"
        BY <3>0 DEF Placed
      <4>2. \A x \in Ids : x >= nextId + 1 <=> x >= nextId /\ x # nextId
        BY <2>f DEF Ids
      <4> QED BY <2>a, <2>i, <4>1, <4>2
    <3>6. \A h \in All(stack') : Concerns(h) => h.id \in Ids /\ status'[h.id] \notin {"new", "queued"}
      BY <2>b, <2>c, <2>e, <2>i, <3>0 DEF Placed, Concerns, AboutSession
    <3>7. Present' \cap Ending = {} /\ Present' \cap broken = {} /\ Ending \cap broken = {}
      BY <2>g, <3>0, <3>1 DEF Placed
    <3> QED BY <2>k, <3>1, <3>2, <3>3, <3>4, <3>5, <3>6, <3>7 DEF Placed
  <2>6. Queued'
    <3>0. Queued
      BY DEF IInv
    <3>1. \A h \in GraphIds : nextId \notin queued[h] /\ queued[h] \subseteq Ids
      BY <2>f, <3>0 DEF Queued, IInv, TypeOK
    <3>2. \A h \in GraphIds : Waiting(h)' = Waiting(h)
      BY <2>i, <2>k, <3>1 DEF Waiting
    <3>3. \A h \in GraphIds : \A x \in queued[h] : status'[x] = status[x]
      BY <2>i, <3>1
    <3>4. \A x \in Ids : status'[x] = "queued" => status[x] = "queued"
      BY <2>i
    <3>5. \A h \in GraphIds : byGraph[h] \subseteq byGraph'[h]
      BY <2>h
    <3> QED BY <2>k, <3>0, <3>2, <3>3, <3>4, <3>5 DEF Queued
  <2>7. Listed'
    <3>0. Listed
      BY DEF IInv
    <3>1. \A h \in All(stack) : h.op = "finish" => h \in All(stack')
      BY <1>a, <2>c, <2>e
    <3>2. \A h \in GraphIds : \A x \in byGraph'[h] : x \in byGraph[h] \/ (x = nextId /\ h = g)
      BY <2>h
    <3>3. ASSUME NEW h \in GraphIds, NEW x \in byGraph'[h]
          PROVE  \/ x \in broken
                 \/ x \in Present' /\ sessions'[x].graph = h
                 \/ \E q \in All(stack') : q.op = "finish" /\ q.id = x /\ q.graph = h
      BY <2>g, <3>0, <3>1, <3>2 DEF Listed
    <3>4. \A x \in Present : sessions[x].graph \in GraphIds /\ x \in byGraph[sessions[x].graph]
      BY <3>0 DEF Listed, IInv, TypeOK
    <3>5. \A x \in Present' : x \in byGraph'[sessions'[x].graph]
      BY <2>g, <2>h, <3>4
    <3> QED BY <2>k, <3>3, <3>5 DEF Listed
  <2>8. Hooked'
    <3>1. \A h \in All(stack) : h.op \in {"finish", "decided"} => h \in All(stack')
      BY <1>a, <2>c, <2>e
    <3>2. \A h \in live : Owed(h)'
      BY <2>g, <3>1 DEF IInv, Hooked, Owed, IsAt
    <3> QED BY <2>f, <3>2 DEF Hooked
  <2>9. Moving'
    <3>1. Called => Called'
      BY <1>a, <2>c, <2>d DEF Called, Over
    <3>2. Delayed(Below) => Delayed(stack')
      BY <2>d DEF Over
    <3>3. ~Has(Below, "process") => Inner(stack') = {} /\ f \in Outer(stack')
      BY <2>d DEF Over
    <3>4. ~Has(Below, "process") => Inner(stack') = {} /\ Called'
      BY <2>b, <3>3 DEF Called
    <3>5. All(Below) \subseteq All(stack') /\ IdsOf(stack', "decided") = IdsOf(stack, "decided")
      BY <2>e, <2>j
    <3>6. UNCHANGED <<now, phase>>
      BY <2>k
    <3> QED BY <1>2, <1>a, <2>a, <2>f, <3>1, <3>2, <3>4, <3>5, <3>6, BegunMoves
  <2> QED BY <2>1, <2>2, <2>3, <2>4, <2>5, <2>6, <2>7, <2>8, <2>9 DEF IInv
<1> QED BY <1>1, <1>2

-----------------------------------------------------------------------------
\* A session ends.

\* What a session that is ending stands for.
LEMMA FinishTop ==
  ASSUME IInv, stack # <<>>, Top.op = "finish"
  PROVE  /\ Top.id \in Ids /\ Top.graph \in GraphIds /\ Top.then \in Final /\ Top.stage \in Nat
         /\ status[Top.id] = "running" /\ Top.id \notin Present /\ Top.id \notin broken
         /\ Top.id \in Ending /\ IdsOf(Below, "finish") = Ending \ {Top.id}
         /\ \A f \in All(Below) : f.op = "finish" => f.id # Top.id
         /\ Under(Below) \in All(Below)
         /\ \/ Under(Below).op = "callProcess"
            \/ Under(Below).op = "process" /\ Under(Below).then # "open"
<1>a. /\ Over(stack, Below, Top) /\ All(stack) = All(Below) \cup {Top} /\ Top \in FrameRecord
      /\ Link(Top, Under(Below)) /\ \A g \in All(Below) : ~Clash(Top, g)
      /\ Below # <<>> => Under(Below) \in All(Below)
  BY TopViews DEF IInv
<1>1. FrameOK(Top)
  BY <1>a, FramesOK
<1>2. Top.id \in Ids /\ Top.graph \in GraphIds /\ Top.then \in Final /\ Top.stage \in Nat
  BY <1>1, <1>a DEF FrameOK, Concerns, AboutSession, FrameRecord
<1>3. Top.id \in Ending
  BY <1>a DEF Ending, IdsOf
<1>4. \A f \in All(Below) : f.op = "finish" => f.id # Top.id
  BY <1>a DEF Clash
<1>5. IdsOf(Below, "finish") = Ending \ {Top.id}
  BY <1>a, <1>4 DEF Ending, IdsOf
<1>6. status[Top.id] = "running" /\ Top.id \notin Present /\ Top.id \notin broken
  BY <1>3 DEF IInv, Placed
<1>7. \/ Under(Below).op = "callProcess"
      \/ Under(Below).op = "process" /\ Under(Below).then # "open"
  BY <1>a DEF Link
<1>8. Below # <<>>
  BY <1>7 DEF Under, EventLoop, Frame
<1> QED BY <1>a, <1>2, <1>3, <1>4, <1>5, <1>6, <1>7, <1>8

LEMMA FinishEndKeeps ==
  ASSUME IInv, FinishEnd
  PROVE  IInv'
<1> DEFINE id == Top.id
           g == Top.graph
           others == byGraph[g] \ {id}
           next == Min(Waiting(g))
<1>a. /\ stack # <<>> /\ Top.op = "finish" /\ Top.list = {} /\ stack' = Below
      /\ UNCHANGED <<now, phase, nextId, live, broken>>
      /\ IF others = {} /\ Waiting(g) # {}
         THEN /\ status' = [[status EXCEPT ![id] = Top.then] EXCEPT ![next] = "running"]
              /\ sessions' = With(next, NewSession(g))
              /\ byGraph' = [byGraph EXCEPT ![g] = {next}]
              /\ queued' = [queued EXCEPT ![g] = {x \in @ : x > next}]
              /\ late' = IF DelayedRuns THEN late \cup {next} ELSE late
         ELSE /\ status' = [status EXCEPT ![id] = Top.then]
              /\ byGraph' = [byGraph EXCEPT ![g] = others]
              /\ queued' = IF others = {} THEN [queued EXCEPT ![g] = Waiting(g)] ELSE queued
              /\ UNCHANGED <<sessions, late>>
  BY DEF FinishEnd, In, Activates, MarkLate
<1>b. /\ id \in Ids /\ g \in GraphIds /\ Top.then \in Final
      /\ status[id] = "running" /\ id \notin Present /\ id \notin broken
      /\ IdsOf(Below, "finish") = Ending \ {id}
      /\ Under(Below) \in All(Below)
      /\ \/ Under(Below).op = "callProcess"
         \/ Under(Below).op = "process" /\ Under(Below).then # "open"
  BY <1>a, FinishTop
<1>c. /\ Over(stack, Below, Top) /\ Below \in Stacks /\ Linked(Below) /\ Apart(Below)
      /\ All(stack) = All(Below) \cup {Top}
  BY <1>a, TopViews DEF IInv
<1>d. /\ All(stack') = All(Below) /\ stack' \in Stacks
      /\ \A f \in All(stack) : f # Top => f \in All(stack')
      /\ Ending' = Ending \ {id}
      /\ IdsOf(stack', "decided") = IdsOf(stack, "decided")
  <2>1. IdsOf(Below, "decided") = IdsOf(stack, "decided")
    BY <1>a, <1>c DEF IdsOf
  <2> QED BY <1>a, <1>b, <1>c, <2>1 DEF Ending
<1>e. /\ now' = now /\ phase' = phase /\ nextId' = nextId /\ live' = live /\ broken' = broken
      /\ (Open' <=> Open)
  BY <1>a DEF Open
<1>f. \A x : ~AtTop(x)
  BY <1>a DEF AtTop, InProcess, In
<1>g. /\ TypeOK /\ Placed /\ Queued /\ Listed /\ Hooked /\ Ending \subseteq Ids
      /\ broken \subseteq Ids /\ Present \subseteq Ids
  BY DEF IInv, TypeOK, Placed, Ending, IdsOf, Concerns, AboutSession
<1>h. \A h \in GraphIds : queued[h] \subseteq Ids /\ byGraph[h] \subseteq Ids /\ id \notin queued[h]
  BY <1>b, <1>g DEF TypeOK, Queued
<1> HIDE DEF next, others
<1>1. CASE ~(others = {} /\ Waiting(g) # {})
  <2>a. /\ status' = [status EXCEPT ![id] = Top.then]
        /\ byGraph' = [byGraph EXCEPT ![g] = others]
        /\ queued' = IF others = {} THEN [queued EXCEPT ![g] = Waiting(g)] ELSE queued
        /\ sessions' = sessions /\ late' = late /\ Present' = Present
    BY <1>1, <1>a DEF Present
  <2>b. /\ status'[id] = Top.then /\ \A x \in Ids \ {id} : status'[x] = status[x]
        /\ status' \in [Ids -> Final \cup {"new", "queued", "running"}]
    BY <1>b, <1>g, <2>a DEF TypeOK
  <2>c. /\ byGraph'[g] = others /\ \A h \in GraphIds \ {g} : byGraph'[h] = byGraph[h]
        /\ byGraph' \in [GraphIds -> SUBSET Ids]
    BY <1>b, <1>g, <1>h, <2>a DEF TypeOK, others
  <2>d. /\ queued'[g] = (IF others = {} THEN Waiting(g) ELSE queued[g])
        /\ \A h \in GraphIds \ {g} : queued'[h] = queued[h]
        /\ queued' \in [GraphIds -> SUBSET Ids]
    BY <1>b, <1>g, <1>h, <2>a DEF TypeOK, Waiting
  <2>1. TypeOK'
    <3>1. (\A x \in Present : /\ sessions[x].graph \in GraphIds
                              /\ sessions[x].stage \in 1 .. Len(Stages(sessions[x])) + 1)'
      BY <1>g, <2>a DEF TypeOK, Stages
    <3> QED BY <1>e, <1>g, <2>a, <2>b, <2>c, <2>d, <3>1 DEF TypeOK
  <2>2. Shaped' /\ Tops' /\ Moving'
    BY <1>a, <1>e, <1>f, <2>a, PopsMoving DEF Loops
  <2>3. Typed'
    <3>1. \A f \in All(stack') : /\ f.op \in {"begin", "finish"} => f.graph \in GraphIds
                                 /\ f.op = "begin" => f.list \subseteq Ids
                                 /\ f.op = "process" => f.list \subseteq Ids
                                 /\ f.op = "finish" => f.then \in Final
      BY <1>c, <1>d DEF IInv, Typed
    <3>2. (\A x \in Present : SessionOK(sessions[x]))'
      BY <2>a DEF IInv, Typed, SessionOK, Stages, Current
    <3>3. sessions' \in [Present' -> Session]
      BY <2>a DEF IInv, Typed
    <3> QED BY <1>d, <3>1, <3>2, <3>3 DEF Typed
  <2>4. Framed'
    <3>1. \A f \in All(stack') : Loop(f) /\ Executor(f) /\ Passed(f)
      BY <1>c, <1>d DEF IInv, Framed
    <3>2. \A f \in All(stack') : Loop(f)' /\ Executor(f)' /\ Passed(f)'
      BY <1>e, <2>a, <3>1 DEF Loop, Executor, Passed
    <3> QED BY <2>2, <3>2 DEF Framed
  <2>5. Staged'
    <3>1. \A x \in Present : sessions[x].launching => \E f \in All(stack') : f.op \in Loops /\ f.id = x
      BY <1>a, <1>d DEF IInv, Staged, Loops
    <3>2. Staged
      BY DEF IInv
    <3> QED BY <1>d, <2>a, <3>1, <3>2 DEF Staged
  <2>6. Placed'
    <3>1. \A x \in Present \cup Ending' : status'[x] = "running"
      BY <1>b, <1>d, <1>g, <2>b DEF Placed
    <3>2. \A x \in Ids : status'[x] = "running" => x \in Present \cup Ending' \cup broken
      BY <1>b, <1>d, <1>g, <2>b DEF Placed, Final
    <3>3. \A x \in broken : status'[x] # "new" /\ (Open => status'[x] = "running")
      BY <1>b, <1>g, <2>b DEF Placed
    <3>4. \A x \in Ids : x >= nextId <=> status'[x] = "new"
      BY <1>b, <1>g, <2>b DEF Placed, Final
    <3>5. \A f \in All(stack') : Concerns(f) => f.id \in Ids /\ status'[f.id] \notin {"new", "queued"}
      BY <1>b, <1>c, <1>d, <1>g, <2>b DEF Placed, Final
    <3>6. Present \cap Ending' = {} /\ Present \cap broken = {} /\ Ending' \cap broken = {}
      BY <1>d, <1>g DEF Placed
    <3> QED BY <1>e, <2>a, <3>1, <3>2, <3>3, <3>4, <3>5, <3>6 DEF Placed
  <2>7. Queued'
    <3>1. \A h \in GraphIds : queued'[h] \subseteq queued[h]
      BY <1>b, <2>d DEF Waiting
    <3>2. \A h \in GraphIds : \A x \in queued'[h] : x # id /\ x \in Ids /\ status'[x] = status[x]
      BY <1>h, <2>b, <3>1
    <3>3. \A h \in GraphIds : \A x \in queued'[h] :
            /\ status'[x] \in {"queued", "cancelled"} /\ x \notin broken
            /\ \A k \in GraphIds : x \in queued'[k] => k = h
      BY <1>g, <3>1, <3>2 DEF Queued
    <3>4. ASSUME NEW x \in Ids, status'[x] = "queued"
          PROVE  x \in broken \/ \E h \in GraphIds : x \in queued'[h]
      <4>1. x # id /\ status[x] = "queued"
        BY <1>b, <2>b, <3>4 DEF Final
      <4>2. \A h \in GraphIds : x \in queued[h] => x \in queued'[h]
        BY <4>1, <2>d DEF Waiting
      <4> QED BY <1>g, <4>1, <4>2 DEF Queued
    <3>5. ASSUME NEW h \in GraphIds, Waiting(h)' # {} PROVE byGraph'[h] # {}
      <4>1. Waiting(h)' \subseteq Waiting(h)
        BY <3>1, <3>2 DEF Waiting
      <4>2. CASE h = g
        <5>1. others = {} => Waiting(g) = {}
          BY <1>1
        <5> QED BY <2>c, <3>5, <4>1, <4>2, <5>1
      <4>3. CASE h # g
        BY <1>g, <2>c, <3>5, <4>1, <4>3 DEF Queued
      <4> QED BY <4>2, <4>3
    <3> QED BY <1>e, <3>3, <3>4, <3>5 DEF Queued
  <2>8. Listed'
    <3>1. ASSUME NEW h \in GraphIds, NEW x \in byGraph'[h]
          PROVE  \/ x \in broken
                 \/ x \in Present /\ sessions[x].graph = h
                 \/ \E q \in All(stack') : q.op = "finish" /\ q.id = x /\ q.graph = h
      <4>1. x \in byGraph[h] /\ (h = g => x # id)
        BY <2>c, <3>1 DEF others
      <4>2. \A q \in All(stack) : q.id = x /\ q.graph = h => q \in All(stack')
        BY <1>d, <4>1
      <4> QED BY <1>g, <4>1, <4>2 DEF Listed
    <3>2. \A x \in Present : x # id /\ x \in byGraph[sessions[x].graph] /\ sessions[x].graph \in GraphIds
      BY <1>b, <1>g DEF Listed, TypeOK
    <3>3. \A x \in Present : x \in byGraph'[sessions[x].graph]
      BY <2>c, <3>2 DEF others
    <3> QED BY <1>e, <2>a, <3>1, <3>3 DEF Listed
  <2>9. Hooked'
    <3>1. \A f \in All(stack) : f.op = "decided" => f \in All(stack')
      BY <1>a, <1>d
    <3>2. \A f \in All(stack) : f.op = "finish" /\ f.list # {} => f \in All(stack')
      BY <1>a, <1>d
    <3>3. \A h \in live : Owed(h)'
      BY <1>g, <2>a, <3>1, <3>2 DEF Hooked, Owed, IsAt
    <3> QED BY <1>e, <3>3 DEF Hooked
  <2> QED BY <2>1, <2>2, <2>3, <2>4, <2>5, <2>6, <2>7, <2>8, <2>9 DEF IInv
<1>2. CASE others = {} /\ Waiting(g) # {}
  <2>0. next \in Waiting(g) /\ \A x \in Waiting(g) : next <= x
    <3>1. Waiting(g) \in SUBSET Nat
      BY <1>b, <1>h, IdsTyped DEF Waiting
    <3> QED BY <1>2, <3>1, MinIs DEF next
  <2>n. next \in Ids /\ next \in Nat /\ status[next] = "queued" /\ next \in queued[g] /\ next # id
    BY <1>b, <1>h, <2>0, IdsTyped DEF Waiting
  <2>a. /\ status' = [[status EXCEPT ![id] = Top.then] EXCEPT ![next] = "running"]
        /\ sessions' = With(next, NewSession(g))
        /\ byGraph' = [byGraph EXCEPT ![g] = {next}]
        /\ queued' = [queued EXCEPT ![g] = {x \in queued[g] : x > next}]
        /\ late' = IF DelayedRuns THEN late \cup {next} ELSE late
    BY <1>2, <1>a
  <2>b. /\ status'[id] = Top.then /\ status'[next] = "running"
        /\ \A x \in Ids \ {id, next} : status'[x] = status[x]
        /\ status' \in [Ids -> Final \cup {"new", "queued", "running"}]
    <3>1. status \in [Ids -> Final \cup {"new", "queued", "running"}]
      BY <1>g DEF TypeOK
    <3> QED BY <1>b, <2>n, <2>a, <3>1
  <2>c. /\ byGraph'[g] = {next} /\ \A h \in GraphIds \ {g} : byGraph'[h] = byGraph[h]
        /\ byGraph' \in [GraphIds -> SUBSET Ids]
    BY <1>b, <1>g, <2>n, <2>a DEF TypeOK
  <2>d. /\ queued'[g] = {x \in queued[g] : x > next}
        /\ \A h \in GraphIds \ {g} : queued'[h] = queued[h]
        /\ queued' \in [GraphIds -> SUBSET Ids]
    BY <1>b, <1>g, <1>h, <2>a DEF TypeOK
  <2>e. status[next] \in {"new", "queued"}
    BY <2>n
  <2>g. /\ next \notin Present /\ Present' = Present \cup {next} /\ Present' \subseteq Ids
        /\ sessions'[next].graph = g
        /\ \A x \in Present : x # next /\ sessions'[x] = sessions[x]
        /\ \A x \in Present' : SessionOK(sessions'[x])
        /\ \A h \in All(stack) : Concerns(h) => h.id # next
    BY <1>b, <1>e, <2>n, <2>a, <2>e, BegunIs
  <2>1. TypeOK'
    <3>2. late' \subseteq Ids
      BY <1>g, <2>n, <2>a DEF TypeOK
    <3>3. \A x \in Present' : /\ sessions'[x].graph \in GraphIds
                              /\ sessions'[x].stage \in 1 .. Len(Stages(sessions'[x])) + 1
      BY <1>b, <1>g, <2>g DEF TypeOK, SessionOK
    <3> QED BY <1>e, <1>g, <2>g, <2>b, <2>c, <2>d, <3>2, <3>3 DEF TypeOK, Stages
  <2>2. Shaped'
    BY <1>a, <1>c DEF Shaped
  <2>3. Tops'
    <3>1. \A f \in All(Below) : f.op \in Loops => f.id # next
      BY <1>c, <2>g DEF Concerns, AboutSession, Loops
    <3>2. \A x \in Present' : (\E f \in All(Below) : f.op \in Loops /\ f.id = x) =>
            x \in Present /\ sessions'[x].launching = sessions[x].launching
      BY <2>g, <3>1
    <3> QED BY <1>a, <3>2, TopsPopped DEF IInv, Framed
  <2>4. Typed' /\ Framed' /\ Staged'
    <3>1. \A h \in All(stack) : h.op \in Loops \cup {"decided"} => h \in All(stack')
      BY <1>a, <1>d DEF Loops
    <3>2. \A h \in All(stack') : h \in All(stack) \/ h.op = "callProcess"
      BY <1>c, <1>d
    <3> QED BY <1>b, <1>d, <1>e, <2>3, <2>a, <2>e, <2>n, <3>1, <3>2, BegunKeeps
  <2>5. Placed'
    <3>1. next \notin Ending /\ next \notin broken
      BY <1>b, <1>g, <2>n DEF Placed, Queued
    <3>2. \A x \in Present' \cup Ending' : status'[x] = "running"
      BY <1>b, <1>d, <1>g, <2>b, <2>g, <3>1 DEF Placed
    <3>3. \A x \in Ids : status'[x] = "running" => x \in Present' \cup Ending' \cup broken
      BY <1>b, <1>d, <1>g, <2>b, <2>g DEF Placed, Final
    <3>4. \A x \in broken : status'[x] # "new" /\ (Open => status'[x] = "running")
      BY <1>b, <1>g, <2>b, <3>1 DEF Placed
    <3>5. \A x \in Ids : x >= nextId <=> status'[x] = "new"
      BY <1>b, <1>g, <2>b, <2>n DEF Placed, Final
    <3>6. \A f \in All(stack') : Concerns(f) => f.id \in Ids /\ status'[f.id] \notin {"new", "queued"}
      BY <1>b, <1>c, <1>d, <1>g, <2>b DEF Placed, Final
    <3>7. Present' \cap Ending' = {} /\ Present' \cap broken = {} /\ Ending' \cap broken = {}
      BY <1>d, <1>g, <2>g, <3>1 DEF Placed
    <3> QED BY <1>e, <3>2, <3>3, <3>4, <3>5, <3>6, <3>7 DEF Placed
  <2>6. Queued'
    <3>1. \A h \in GraphIds : queued'[h] \subseteq queued[h] /\ next \notin queued'[h]
      <4>1. \A h \in GraphIds : next \in queued[h] => h = g
        BY <1>b, <1>g, <2>n DEF Queued
      <4>2. ~(next > next)
        BY <2>n
      <4> QED BY <1>b, <2>d, <4>1, <4>2
    <3>2. \A h \in GraphIds : \A x \in queued'[h] :
            x # id /\ x # next /\ x \in Ids /\ status'[x] = status[x]
      BY <1>h, <2>b, <3>1
    <3>3. \A h \in GraphIds : \A x \in queued'[h] :
            /\ status'[x] \in {"queued", "cancelled"} /\ x \notin broken
            /\ \A k \in GraphIds : x \in queued'[k] => k = h
      BY <1>g, <3>1, <3>2 DEF Queued
    <3>4. ASSUME NEW x \in Ids, status'[x] = "queued"
          PROVE  x \in broken \/ \E h \in GraphIds : x \in queued'[h]
      <4>1. x # id /\ x # next /\ status[x] = "queued" /\ x \in Nat
        BY <1>b, <2>b, <3>4, IdsTyped DEF Final
      <4>2. x \in queued[g] => x > next
        BY <2>0, <2>n, <4>1 DEF Waiting
      <4>3. \A h \in GraphIds : x \in queued[h] => x \in queued'[h]
        BY <2>d, <4>2
      <4> QED BY <1>g, <4>1, <4>3 DEF Queued
    <3>5. ASSUME NEW h \in GraphIds, Waiting(h)' # {} PROVE byGraph'[h] # {}
      <4>1. Waiting(h)' \subseteq Waiting(h)
        BY <3>1, <3>2 DEF Waiting
      <4> QED BY <1>g, <2>c, <3>5, <4>1 DEF Queued
    <3> QED BY <1>e, <3>3, <3>4, <3>5 DEF Queued
  <2>7. Listed'
    <3>1. ASSUME NEW h \in GraphIds, NEW x \in byGraph'[h], h # g
          PROVE  \/ x \in broken
                 \/ x \in Present' /\ sessions'[x].graph = h
                 \/ \E q \in All(stack') : q.op = "finish" /\ q.id = x /\ q.graph = h
      <4>1. x \in byGraph[h]
        BY <2>c, <3>1
      <4>2. \A q \in All(stack) : q.graph = h => q \in All(stack')
        BY <1>d, <3>1
      <4> QED BY <1>g, <2>g, <4>1, <4>2 DEF Listed
    <3>2. \A x \in byGraph'[g] : x \in Present' /\ sessions'[x].graph = g
      BY <2>c, <2>g
    <3>3. \A x \in Present : x # id /\ x \in byGraph[sessions[x].graph] /\ sessions[x].graph \in GraphIds
      BY <1>b, <1>g DEF Listed, TypeOK
    <3>4. \A x \in Present : sessions[x].graph # g
      BY <1>2, <3>3 DEF others
    <3>5. \A x \in Present' : x \in byGraph'[sessions'[x].graph]
      BY <2>c, <2>g, <3>3, <3>4
    <3> QED BY <1>e, <3>1, <3>2, <3>5 DEF Listed
  <2>8. Hooked'
    <3>1. \A f \in All(stack) : f.op = "decided" => f \in All(stack')
      BY <1>a, <1>d
    <3>2. \A f \in All(stack) : f.op = "finish" /\ f.list # {} => f \in All(stack')
      BY <1>a, <1>d
    <3>3. \A h \in live : Owed(h)'
      BY <1>g, <2>g, <3>1, <3>2 DEF Hooked, Owed, IsAt
    <3> QED BY <1>e, <3>3 DEF Hooked
  <2>9. Moving'
    <3>1. Called => Called'
      BY <1>a, <1>c DEF Called, Over
    <3>2. Delayed(Below) => Delayed(stack')
      BY <1>a
    <3>3. ~Has(Below, "process") => Inner(stack') = {} /\ Outer(stack') = All(Below)
      BY <1>a, <1>c, AllOuter
    <3>4. ~Has(Below, "process") => Inner(stack') = {} /\ Called'
      BY <1>b, <3>3 DEF Called, Has
    <3>5. All(Below) \subseteq All(stack') /\ IdsOf(stack', "decided") = IdsOf(stack, "decided")
      BY <1>d
    <3> QED BY <1>a, <1>b, <1>e, <2>a, <2>e, <2>n, <3>1, <3>2, <3>4, <3>5, BegunMoves
  <2> QED BY <2>1, <2>2, <2>3, <2>4, <2>5, <2>6, <2>7, <2>8, <2>9 DEF IInv
<1> QED BY <1>1, <1>2

-----------------------------------------------------------------------------
\* Hooks are called, one by one.

LEMMA HookCalled ==
  ASSUME IInv, stack # <<>>, Top.op \in {"finish", "decided"}, Top.list # {},
         NEW f \in FrameRecord, f.id = Top.id,
         f.op = IF Top.op = "finish" THEN "hook" ELSE "heldHook",
         stack' = <<f, Rest(Top)>> \o Below, live' \subseteq live,
         \A h \in live' : h[1] = Top.id /\ h[3] = Min(Top.list) => Top.op = "finish" /\ h[2] # Top.stage,
         UNCHANGED <<now, phase, nextId, status, sessions, byGraph, queued, ghosts>>
  PROVE  IInv'
<1> DEFINE r == Rest(Top)
<1>a. /\ Over(stack, Below, Top) /\ Top \in FrameRecord /\ Below \in Stacks
      /\ Linked(Below) /\ Link(Top, Under(Below)) /\ Apart(Below)
      /\ \A g \in All(Below) : ~Clash(Top, g)
      /\ All(stack) = All(Below) \cup {Top}
  BY TopViews DEF IInv
<1>b. /\ r \in FrameRecord /\ r.op = Top.op /\ r.id = Top.id /\ r.stage = Top.stage
      /\ r.graph = Top.graph /\ r.then = Top.then /\ r.flag = Top.flag
      /\ r.list = Top.list \ {Min(Top.list)}
  BY <1>a, RestTyped
<1> HIDE DEF r
<1>c. PICK u : Over(u, Below, r) /\ Over(stack', u, f)
  BY <1>a, <1>b, OverTwo DEF r
<1>d. /\ All(u) = All(Below) \cup {r} /\ All(stack') = All(Below) \cup {r, f}
      /\ stack' \in Stacks /\ stack' # <<>> /\ Top' = f /\ Below' = u
  BY <1>c DEF Over, Top, Below
<1>e. /\ now' = now /\ phase' = phase /\ nextId' = nextId /\ status' = status
      /\ sessions' = sessions /\ byGraph' = byGraph /\ queued' = queued
      /\ late' = late /\ broken' = broken /\ Present' = Present /\ (Open' <=> Open)
  BY DEF ghosts, Present, Open
<1>f. \A op \in {"finish", "decided"} : IdsOf(stack', op) = IdsOf(stack, op)
  <2> SUFFICES ASSUME NEW op \in {"finish", "decided"} PROVE IdsOf(stack', op) = IdsOf(stack, op)
    OBVIOUS
  <2>1. IdsOf(stack', op) = IdsOf(u, op)
    BY <1>c, OverIds
  <2>2. /\ r.op = op => IdsOf(u, op) = IdsOf(Below, op) \cup {r.id}
        /\ r.op # op => IdsOf(u, op) = IdsOf(Below, op)
    BY <1>c, OverIds
  <2>3. /\ Top.op = op => IdsOf(stack, op) = IdsOf(Below, op) \cup {Top.id}
        /\ Top.op # op => IdsOf(stack, op) = IdsOf(Below, op)
    BY <1>a DEF IdsOf
  <2> QED BY <1>b, <2>1, <2>2, <2>3
<1>g. FrameOK(r) /\ FrameOK(f)
  <2>1. FrameOK(Top)
    BY <1>a, FramesOK
  <2> QED BY <1>b, <2>1 DEF FrameOK, Concerns, AboutSession, Loop, Executor, Passed, Loops
<1>h. \A g \in All(stack') : FrameOK(g)
  BY <1>a, <1>d, <1>g, FramesOK
<1>1. TypeOK'
  BY <1>e DEF IInv, TypeOK, Stages
<1>2. Typed'
  <2>1. \A g \in All(stack') : /\ g.op \in {"begin", "finish"} => g.graph \in GraphIds
                               /\ g.op = "begin" => g.list \subseteq Ids
                               /\ g.op = "process" => g.list \subseteq Ids
                               /\ g.op = "finish" => g.then \in Final
    BY <1>h DEF FrameOK
  <2>2. (\A x \in Present : SessionOK(sessions[x]))'
    BY <1>e DEF IInv, Typed, SessionOK, Stages, Current
  <2>3. sessions' \in [Present' -> Session]
    BY <1>e DEF IInv, Typed
  <2> QED BY <1>d, <2>1, <2>2, <2>3 DEF Typed
<1>3. Shaped'
  <2>1. Link(r, Under(Below)) /\ Link(f, r) /\ Under(u) = r
    <3>1. Link(r, Under(Below))
      BY <1>a, <1>b DEF Link, Loops, OnProcess
    <3>2. Link(f, r)
      BY <1>b DEF Link, AboutSession, Loops
    <3> QED BY <1>c, <3>1, <3>2 DEF Over
  <2>2. \A g \in All(Below) : ~Clash(r, g)
    BY <1>a, <1>b DEF Clash, Loops
  <2>3. \A g : ~Clash(f, g)
    BY DEF Clash, Loops
  <2> QED BY <1>a, <1>c, <2>1, <2>2, <2>3 DEF Over, Shaped
<1>4. Tops'
  <2>1. \A g \in All(Below) : g.op \in Loops /\ g.id \in Present => sessions[g.id].launching
    BY DEF IInv, Framed, Tops
  <2> QED BY <1>b, <1>d, <1>e, <2>1 DEF Tops, InProcess, In, Loops
<1>5. Framed'
  <2>1. \A g \in All(stack') : Loop(g) /\ Executor(g) /\ Passed(g)
    BY <1>h DEF FrameOK
  <2>2. \A g \in All(stack') : Loop(g)' /\ Executor(g)' /\ Passed(g)'
    BY <1>e, <2>1 DEF Loop, Executor, Passed
  <2> QED BY <1>4, <2>2 DEF Framed
<1>6. Staged'
  <2>1. \A x \in Present : sessions[x].launching => \E g \in All(stack') : g.op \in Loops /\ g.id = x
    BY <1>a, <1>d DEF IInv, Staged, Loops
  <2> QED BY <1>e, <1>f, <2>1 DEF IInv, Staged
<1>7. Placed'
  <2>1. \A g \in All(stack') : Concerns(g) => g.id \in Ids /\ status[g.id] \notin {"new", "queued"}
    BY <1>h DEF FrameOK
  <2>2. Ending' = Ending
    BY <1>f DEF Ending
  <2> QED BY <1>e, <2>1, <2>2 DEF IInv, Placed
<1>8. Queued'
  BY <1>e DEF IInv, Queued, Waiting
<1>9. Listed'
  <2>1. ASSUME NEW q \in All(stack), q.op = "finish"
        PROVE  \E p \in All(stack') : p.op = "finish" /\ p.id = q.id /\ p.graph = q.graph
    BY <1>a, <1>b, <1>d, <2>1
  <2>2. \A h \in GraphIds : \A x \in byGraph[h] :
          \/ x \in broken
          \/ x \in Present /\ sessions[x].graph = h
          \/ \E q \in All(stack') : q.op = "finish" /\ q.id = x /\ q.graph = h
    <3>1. Listed
      BY DEF IInv
    <3> QED BY <2>1, <3>1 DEF Listed
  <2>3. \A x \in Present : x \in byGraph[sessions[x].graph]
    BY DEF IInv, Listed
  <2> QED BY <1>e, <2>2, <2>3 DEF Listed
<1>10. Hooked'
  <2> SUFFICES ASSUME NEW h \in live' PROVE Owed(h)'
    BY DEF Hooked
  <2>1. Owed(h)
    BY DEF IInv, Hooked
  <2>2. CASE \E g \in All(Below) : g.op = "finish" /\ g.id = h[1] /\ g.stage = h[2] /\ h[3] \in g.list
    BY <1>d, <2>2 DEF Owed
  <2>3. CASE \E g \in All(Below) : g.op = "decided" /\ g.id = h[1] /\ h[3] \in g.list
    BY <1>d, <2>3 DEF Owed
  <2>4. CASE Top.op = "finish" /\ Top.id = h[1] /\ Top.stage = h[2] /\ h[3] \in Top.list
    <3>1. h[3] \in r.list
      BY <1>b, <2>4
    <3> QED BY <1>b, <1>d, <2>4, <3>1 DEF Owed
  <2>5. CASE Top.op = "decided" /\ Top.id = h[1] /\ h[3] \in Top.list
    <3>1. h[3] \in r.list
      BY <1>b, <2>5
    <3> QED BY <1>b, <1>d, <2>5, <3>1 DEF Owed
  <2>6. CASE /\ IsAt(h[1], h[2]) /\ h[3] \in DOMAIN sessions[h[1]].branches
             /\ sessions[h[1]].branches[h[3]].started /\ ~sessions[h[1]].branches[h[3]].settled
    BY <1>e, <2>6 DEF Owed, IsAt
  <2> QED BY <1>a, <2>1, <2>2, <2>3, <2>4, <2>5, <2>6 DEF Owed
<1>11. Moving'
  <2>1. IdsOf(stack', "decided") = IdsOf(stack, "decided")
    BY <1>f
  <2>2. Called => Called'
    <3>1. ~Has(Below, "process") => ~Has(u, "process")
      BY <1>b, <1>d DEF Has
    <3>2. Has(Below, "process") => Outer(stack') = Outer(stack)
      BY <1>a, <1>c, <1>d DEF Over, Has
    <3>3. ~Has(Below, "process") => Outer(stack) = Outer(Below) \cup {Top}
                                    /\ Outer(stack') = Outer(Below) \cup {r, f}
      BY <1>a, <1>c, <3>1 DEF Over
    <3> QED BY <1>b, <3>2, <3>3 DEF Called
  <2>3. \A x : ~AtTop(x)
    BY DEF AtTop, InProcess, In
  <2>4. Again => Again'
    <3>1. \A q : ~IsAt(q.id, q.stage) => ~IsAt(q.id, q.stage)'
      BY <1>e DEF IsAt
    <3>2. \A g \in All(stack) : g.op = "process" => g \in All(stack')
      BY <1>a, <1>d
    <3> QED BY <2>1, <3>1, <3>2, AgainKept
  <2>5. Open => Excused'
    <3>1. Has(Below, "process") => Top \in Inner(stack)
      BY <1>a DEF Over
    <3>2. Open /\ Has(Below, "process") => Again \/ Delayed(stack)
      BY <3>1 DEF IInv, Moving, Excused, Loops
    <3>3. Delayed(stack) => Delayed(stack')
      BY <1>a, <1>c DEF Over
    <3>4. ~Has(Below, "process") => Inner(stack') = {}
      BY <1>b, <1>c DEF Over, Has
    <3> QED BY <2>4, <3>2, <3>3, <3>4 DEF Excused
  <2>6. \A g \in All(stack) : g.op \in {"process", "due"} => g \in All(stack')
    BY <1>a, <1>d
  <2>7. Moving
    BY DEF IInv
  <2> QED BY <1>e, <2>1, <2>2, <2>3, <2>5, <2>6, <2>7, MovingKept
<1> QED BY <1>1, <1>2, <1>3, <1>4, <1>5, <1>6, <1>7, <1>8, <1>9, <1>10, <1>11 DEF IInv

LEMMA FinishHookKeeps ==
  ASSUME IInv, FinishHook
  PROVE  IInv'
<1> DEFINE f == Frame("hook", Top.id)
<1>1. /\ stack # <<>> /\ Top.op = "finish" /\ Top.list # {}
      /\ live' = live \ {<<Top.id, Top.stage, Min(Top.list)>>}
      /\ stack' = <<f, Rest(Top)>> \o Below
      /\ UNCHANGED <<now, phase, nextId, status, sessions, byGraph, queued, ghosts>>
  BY DEF FinishHook, In
<1>2. f \in FrameRecord /\ f.op = "hook" /\ f.id = Top.id
  <2>1. Top.id \in 0 .. MaxSessions
    BY <1>1, TopViews DEF IInv, FrameRecord
  <2> QED BY <2>1, FrameTyped DEF Frame, UserFrames
<1>3. \A h \in live' : h[1] = Top.id /\ h[3] = Min(Top.list) => h[2] # Top.stage
  <2> SUFFICES ASSUME NEW h \in live' PROVE ~(h[1] = Top.id /\ h[3] = Min(Top.list) /\ h[2] = Top.stage)
    OBVIOUS
  <2>1. h \in live /\ h # <<Top.id, Top.stage, Min(Top.list)>>
    BY <1>1
  <2>2. h = <<h[1], h[2], h[3]>>
    BY <2>1, HookIs DEF IInv
  <2> QED BY <2>1, <2>2
<1> HIDE DEF f
<1>4. live' \subseteq live
  BY <1>1
<1> QED BY <1>1, <1>2, <1>3, <1>4, HookCalled

LEMMA DecidedHookKeeps ==
  ASSUME IInv, DecidedHook
  PROVE  IInv'
<1> DEFINE f == Frame("heldHook", Top.id)
<1>1. /\ stack # <<>> /\ Top.op = "decided" /\ Top.list # {}
      /\ live' = {h \in live : ~(h[1] = Top.id /\ h[3] = Min(Top.list))}
      /\ stack' = <<f, Rest(Top)>> \o Below
      /\ UNCHANGED <<now, phase, nextId, status, sessions, byGraph, queued, ghosts>>
  BY DEF DecidedHook, In
<1>2. f \in FrameRecord /\ f.op = "heldHook" /\ f.id = Top.id
  <2>1. Top.id \in 0 .. MaxSessions
    BY <1>1, TopViews DEF IInv, FrameRecord
  <2> QED BY <2>1, FrameTyped DEF Frame, UserFrames
<1>3. \A h \in live' : ~(h[1] = Top.id /\ h[3] = Min(Top.list))
  BY <1>1
<1> HIDE DEF f
<1>4. live' \subseteq live
  BY <1>1
<1> QED BY <1>1, <1>2, <1>3, <1>4, HookCalled

-----------------------------------------------------------------------------
\* A session leaves the table.

LEMMA GoneIs ==
  ASSUME IInv, NEW id \in Present, sessions' = Without(id), live' = live
  PROVE  /\ Present' = Present \ {id} /\ \A x \in Present \ {id} : sessions'[x] = sessions[x]
         /\ sessions' \in [Present' -> Session]
         /\ \A x \in Present' : SessionOK(sessions'[x])
         /\ \A f : Loop(f) => Loop(f)'
         /\ \A f : Executor(f) => Executor(f)'
         /\ \A f : Passed(f) => Passed(f)'
         /\ \A q : ~IsAt(q.id, q.stage) => ~IsAt(q.id, q.stage)'
<1>1. Present' = Present \ {id} /\ \A x \in Present \ {id} : sessions'[x] = sessions[x]
  BY WithoutIs DEF Present
<1>2. sessions' \in [Present' -> Session]
  <2>1. sessions \in [Present -> Session]
    BY DEF IInv, Typed
  <2>2. \A x \in Present' : sessions'[x] \in Session
    BY <1>1, <2>1
  <2>3. sessions' = [x \in Present' |-> sessions'[x]]
    BY <1>1 DEF Without
  <2> QED BY <2>2, <2>3
<1>3. \A x \in Present' : SessionOK(sessions'[x])
  BY <1>1 DEF IInv, Typed
<1>4. \A f : Loop(f) => Loop(f)'
  BY <1>1 DEF Loop
<1>5. \A f : Executor(f) => Executor(f)'
  BY <1>1 DEF Executor
<1>6. \A f : Passed(f) => Passed(f)'
  BY <1>1 DEF Passed
<1>7. \A q : ~IsAt(q.id, q.stage) => ~IsAt(q.id, q.stage)'
  BY <1>1 DEF IsAt
<1> QED BY <1>1, <1>2, <1>3, <1>4, <1>5, <1>6, <1>7

LEMMA GoneKeeps ==
  ASSUME IInv, NEW id \in Present, sessions' = Without(id), live' = live,
         UNCHANGED <<now, phase, nextId, status, byGraph, queued>>,
         late' \subseteq Ids, broken' \subseteq Ids,
         stack' \in Stacks, Tops', \A f \in All(stack') : FrameOK(f),
         \A f \in All(stack) : f.op \in Loops /\ f.id # id => f \in All(stack'),
         \A x \in Present \ {id} : x \in IdsOf(stack', "decided") <=> x \in IdsOf(stack, "decided")
  PROVE  TypeOK' /\ Typed' /\ Framed' /\ Staged'
<1>a. /\ Present' = Present \ {id} /\ \A x \in Present \ {id} : sessions'[x] = sessions[x]
      /\ sessions' \in [Present' -> Session]
      /\ \A x \in Present' : SessionOK(sessions'[x])
      /\ \A f : Loop(f) => Loop(f)'
      /\ \A f : Executor(f) => Executor(f)'
      /\ \A f : Passed(f) => Passed(f)'
  BY GoneIs
<1>1. TypeOK'
  <2>1. (\A x \in Present : /\ sessions[x].graph \in GraphIds
                            /\ sessions[x].stage \in 1 .. Len(Stages(sessions[x])) + 1)'
    BY <1>a DEF IInv, TypeOK, Stages
  <2> QED BY <1>a, <2>1 DEF IInv, TypeOK
<1>2. Typed'
  <2>1. \A f \in All(stack') : /\ f.op \in {"begin", "finish"} => f.graph \in GraphIds
                               /\ f.op = "begin" => f.list \subseteq Ids
                               /\ f.op = "process" => f.list \subseteq Ids
                               /\ f.op = "finish" => f.then \in Final
    BY DEF FrameOK
  <2>2. (\A x \in Present : SessionOK(sessions[x]))'
    BY <1>a
  <2> QED BY <1>a, <2>1, <2>2 DEF Typed
<1>3. Framed'
  <2>1. \A f \in All(stack') : Loop(f)' /\ Executor(f)' /\ Passed(f)'
    BY <1>a DEF FrameOK
  <2> QED BY <2>1 DEF Framed
<1>4. Staged'
  <2>1. \A x \in Present' : sessions[x].launching => \E f \in All(stack') : f.op \in Loops /\ f.id = x
    BY <1>a DEF IInv, Staged
  <2>2. \A x \in Present' : Spent(sessions[x]) => Spent(sessions'[x])
    BY <1>a
  <2>3. \A x \in Present' : /\ sessions[x].stage = sessions'[x].stage
                            /\ Stages(sessions[x]) = Stages(sessions'[x])
                            /\ sessions[x].open = sessions'[x].open
                            /\ sessions[x].launching = sessions'[x].launching
                            /\ DOMAIN sessions[x].branches = DOMAIN sessions'[x].branches
    BY <1>a
  <2>4. ASSUME NEW x \in Present'
        PROVE  /\ x \in IdsOf(stack', "decided") =>
                    /\ ~sessions'[x].open /\ Spent(sessions'[x])
                    /\ sessions'[x].stage <= Len(Stages(sessions'[x]))
               /\ ~sessions'[x].open /\ x \notin IdsOf(stack', "decided") =>
                    DOMAIN sessions'[x].branches = {}
               /\ sessions'[x].launching => \E f \in All(stack') : f.op \in Loops /\ f.id = x
    BY <1>a, <2>1, <2>2, <2>3 DEF IInv, Staged
  <2> QED BY <2>4 DEF Staged
<1> QED BY <1>1, <1>2, <1>3, <1>4

LEMMA FinishFrameIs ==
  ASSUME IInv, NEW id \in Present, NEW o \in Final, NEW f, f = FinishFrame(id, sessions[id], o)
  PROVE  /\ f \in FrameRecord /\ FrameOK(f)
         /\ f.op = "finish" /\ f.id = id /\ f.stage = sessions[id].stage
         /\ f.graph = sessions[id].graph /\ f.then = o
         /\ f.list = {b \in DOMAIN sessions[id].branches :
                        ~sessions[id].branches[b].settled /\ <<id, sessions[id].stage, b>> \in live}
<1> DEFINE l == {b \in DOMAIN sessions[id].branches :
                   ~sessions[id].branches[b].settled /\ <<id, sessions[id].stage, b>> \in live}
           e == Frame("finish", id)
<1>1. /\ sessions[id].graph \in GraphIds /\ sessions[id].stage \in Nat
      /\ DOMAIN sessions[id].branches \subseteq Nat
  BY SessionTyped DEF IInv
<1>2. l \in SUBSET Nat
  BY <1>1
<1>3. id \in Ids /\ id \in 0 .. MaxSessions /\ status[id] = "running"
  BY IdsTyped DEF IInv, TypeOK, Placed
<1>4. e \in FrameRecord /\ e.op = "finish" /\ e.id = id
  BY <1>3, FrameTyped DEF Frame, AboutSession
<1> HIDE DEF l, e
<1>5. f = [e EXCEPT !.stage = sessions[id].stage, !.graph = sessions[id].graph, !.then = o, !.list = l]
  BY DEF FinishFrame, l, e
<1>6. f \in FrameRecord
  BY <1>1, <1>2, <1>4, <1>5 DEF FrameRecord, Steps
<1>7. f.op = "finish" /\ f.id = id /\ f.stage = sessions[id].stage
      /\ f.graph = sessions[id].graph /\ f.then = o /\ f.list = l
  BY <1>4, <1>5 DEF FrameRecord
<1>8. FrameOK(f)
  BY <1>1, <1>3, <1>7 DEF FrameOK, Concerns, AboutSession, Loop, Executor, Passed, Loops
<1> QED BY <1>6, <1>7, <1>8 DEF l

\* Its hooks are called next.
LEMMA EndsKeeps ==
  ASSUME IInv, NEW id \in Present, NEW o \in Final, sessions' = Without(id),
         UNCHANGED <<now, phase, nextId, status, byGraph, queued, live, broken>>, late' \subseteq Ids,
         stack' \in Stacks, Tops', \A f \in All(stack') : FrameOK(f),
         \A f \in All(stack) : f.op \in Loops => f \in All(stack'),
         \A f \in All(stack) : f.op = "decided" => f \in All(stack') \/ (f.id = id /\ f.list = {}),
         \A f \in All(stack') : f.op = "decided" => f \in All(stack),
         \A f \in All(stack) : f.op = "finish" => f \in All(stack'),
         NEW e, e = FinishFrame(id, sessions[id], o), e \in All(stack'),
         \A f \in All(stack') : f.op = "finish" => f = e \/ f \in All(stack)
  PROVE  /\ TypeOK' /\ Typed' /\ Framed' /\ Staged' /\ Placed' /\ Queued' /\ Listed' /\ Hooked'
<1>a. /\ Present' = Present \ {id} /\ \A x \in Present \ {id} : sessions'[x] = sessions[x]
  BY GoneIs
<1>b. /\ now' = now /\ phase' = phase /\ nextId' = nextId /\ status' = status /\ byGraph' = byGraph
      /\ queued' = queued /\ live' = live /\ broken' = broken /\ (Open' <=> Open)
  BY DEF Open
<1>c. /\ e.op = "finish" /\ e.id = id /\ e.stage = sessions[id].stage
      /\ e.graph = sessions[id].graph
      /\ e.list = {b \in DOMAIN sessions[id].branches :
                     ~sessions[id].branches[b].settled /\ <<id, sessions[id].stage, b>> \in live}
  BY FinishFrameIs
<1>d. TypeOK /\ Placed /\ Queued /\ Listed /\ Hooked
  BY DEF IInv
<1>1. TypeOK' /\ Typed' /\ Framed' /\ Staged'
  <2>1. \A x \in Present \ {id} : x \in IdsOf(stack', "decided") <=> x \in IdsOf(stack, "decided")
    BY DEF IdsOf
  <2>2. broken' \subseteq Ids
    BY <1>b, <1>d DEF TypeOK
  <2> QED BY <1>b, <2>1, <2>2, GoneKeeps
<1>2. Placed'
  <2>1. Ending' = Ending \cup {id}
    BY <1>c DEF Ending, IdsOf
  <2>2. \A g \in All(stack') : Concerns(g) => g.id \in Ids /\ status[g.id] \notin {"new", "queued"}
    BY DEF FrameOK
  <2> QED BY <1>a, <1>b, <1>d, <2>1, <2>2 DEF Placed
<1>3. Queued'
  BY <1>b, <1>d DEF Queued, Waiting
<1>4. Listed'
  <2>1. \A h \in GraphIds : \A x \in byGraph[h] :
          \/ x \in broken
          \/ x \in Present' /\ sessions'[x].graph = h
          \/ \E q \in All(stack') : q.op = "finish" /\ q.id = x /\ q.graph = h
    BY <1>a, <1>c, <1>d DEF Listed
  <2>2. \A x \in Present' : x \in byGraph[sessions'[x].graph]
    BY <1>a, <1>d DEF Listed
  <2> QED BY <1>b, <2>1, <2>2 DEF Listed
<1>5. Hooked'
  <2> SUFFICES ASSUME NEW h \in live PROVE Owed(h)'
    BY <1>b DEF Hooked
  <2>1. Owed(h) /\ h = <<h[1], h[2], h[3]>>
    BY <1>d, HookIs DEF Hooked
  <2>2. CASE /\ IsAt(h[1], h[2]) /\ h[3] \in DOMAIN sessions[h[1]].branches
             /\ sessions[h[1]].branches[h[3]].started /\ ~sessions[h[1]].branches[h[3]].settled
    <3>1. CASE h[1] = id
      <4>1. h[2] = sessions[id].stage /\ h[3] \in e.list
        BY <1>c, <2>1, <2>2, <3>1 DEF IsAt
      <4> QED BY <1>c, <3>1, <4>1 DEF Owed
    <3>2. CASE h[1] # id
      BY <1>a, <2>2, <3>2 DEF Owed, IsAt
    <3> QED BY <3>1, <3>2
  <2>3. CASE \E f \in All(stack) : f.op = "finish" /\ f.id = h[1] /\ f.stage = h[2] /\ h[3] \in f.list
    BY <2>3 DEF Owed
  <2>4. CASE \E f \in All(stack) : f.op = "decided" /\ f.id = h[1] /\ h[3] \in f.list
    BY <2>4 DEF Owed
  <2> QED BY <2>1, <2>2, <2>3, <2>4 DEF Owed
<1> QED BY <1>1, <1>2, <1>3, <1>4, <1>5

\* What stands on the application's code or on the event loop is asked nothing.
LEMMA TopsBased ==
  ASSUME NEW s \in Stacks, Under(s).op \in Bases \cup {"begin", "callProcess"}, stack' = s,
         \A f \in All(s) : f.op \in Loops /\ f.id \in Present' => sessions'[f.id].launching
  PROVE  Tops'
<1>1. CASE s = <<>>
  BY <1>1 DEF Tops, InProcess, In
<1>2. CASE s # <<>>
  <2>1. Head(s) \in FrameRecord /\ Tail(s) \in Stacks /\ s = <<Head(s)>> \o Tail(s)
    BY <1>2, Popped
  <2>2. All(s) = All(Tail(s)) \cup {Head(s)}
    BY <2>1, AllPushed
  <2>3. Top' = Head(s) /\ Below' = Tail(s) /\ Under(s) = Head(s)
    BY <1>2 DEF Top, Below, Under
  <2>4. Top'.op \notin Loops \cup {"process"}
    BY <2>3 DEF Bases, UserFrames, Loops
  <2> QED BY <2>2, <2>3, <2>4 DEF Tops, InProcess, In, Loops
<1> QED BY <1>1, <1>2

\* The sessions that stay are seen to as before.
LEMMA OthersMove ==
  ASSUME IInv, NEW id \in Present, sessions' = Without(id), live' = live,
         UNCHANGED <<now, phase, late>>,
         \A f \in All(stack) : f.op \in {"process", "due"} => f \in All(stack'),
         IdsOf(stack, "decided") \subseteq IdsOf(stack', "decided"),
         Called => Called', \A x : ~AtTop(x),
         Open => Excused'
  PROVE  Moving'
<1> SUFFICES ASSUME Open' PROVE Excused' /\ \A x \in Present' \ late' : Fine(x)' \/ Attended(x)'
  BY DEF Moving
<1>a. /\ Present' = Present \ {id} /\ \A x \in Present \ {id} : sessions'[x] = sessions[x]
      /\ \A q : ~IsAt(q.id, q.stage) => ~IsAt(q.id, q.stage)'
  BY GoneIs
<1>b. Open /\ Moving
  BY DEF IInv, Open
<1>1. ASSUME NEW x \in Present', x \notin late PROVE Fine(x)' \/ Attended(x)'
  <2>1. x \in Present /\ sessions'[x] = sessions[x]
    BY <1>a
  <2>2. DueBranches(sessions[x])' = DueBranches(sessions[x])
    BY <2>1 DEF DueBranches, Current, Stages
  <2>3. Fine(x) => Fine(x)'
    BY <2>1, <2>2 DEF Fine, Calm, NoDue, Verdict, Settled, Succeeded, Current, Stages
  <2>4. Fine(x) \/ Attended(x)
    BY <1>1, <1>b, <2>1 DEF Moving
  <2>5. Attended(x) => Attended(x)'
    BY <1>a, <2>2, AttendedKept
  <2> QED BY <2>3, <2>4, <2>5
<1> QED BY <1>1, <1>b

LEMMA CancelByIdKeeps ==
  ASSUME IInv, CancelById
  PROVE  IInv'
<1> DEFINE id == Top.id
<1>a. /\ stack # <<>> /\ Top.op = "cancel"
      /\ UNCHANGED <<now, phase, nextId, status, byGraph, queued, live, late>>
  BY DEF CancelById, In
<1>b. /\ Over(stack, Below, Top) /\ Top \in FrameRecord /\ Below \in Stacks
      /\ Linked(Below) /\ Link(Top, Under(Below)) /\ Apart(Below)
      /\ All(stack) = All(Below) \cup {Top}
  BY <1>a, TopViews DEF IInv
<1>c. \A x : ~AtTop(x)
  BY <1>a DEF AtTop, InProcess, In
<1>d. Under(Below).op \in Bases \cup {"begin"}
  BY <1>a, <1>b DEF Link
<1>e. /\ now' = now /\ phase' = phase /\ nextId' = nextId /\ status' = status /\ byGraph' = byGraph
      /\ queued' = queued /\ live' = live /\ late' = late /\ (Open' <=> Open)
  BY <1>a DEF Open
<1>f. TypeOK /\ late' \subseteq Ids
  BY <1>e DEF IInv, TypeOK
<1>1. CASE id \notin Present
  <2>1. stack' = Below /\ UNCHANGED <<now, phase, tables, ghosts>>
    BY <1>1 DEF CancelById, tables, ghosts
  <2> QED BY <1>a, <1>c, <2>1, Pops DEF Loops
<1>2. CASE id \in Present /\ id \in Held
  <2>a. /\ sessions' = Without(id) /\ stack' = Panic(Below) /\ broken' = broken \cup {id}
    BY <1>2 DEF CancelById
  <2>b. id \in IdsOf(Below, "decided")
    <3>1. stack \in Stacks
      BY <1>b DEF Over
    <3>2. id \in IdsOf(stack, "heldHook")
      BY <1>2, <3>1, StackReads
    <3>3. PICK h \in All(stack) : h.op = "heldHook" /\ h.id = id
      BY <3>2 DEF IdsOf
    <3>4. h \in All(Below)
      BY <1>a, <1>b, <3>3
    <3> QED BY <1>b, <3>3, <3>4, HookOnDecided
  <2>c. /\ Present' = Present \ {id} /\ \A x \in Present \ {id} : sessions'[x] = sessions[x]
        /\ \A q : ~IsAt(q.id, q.stage) => ~IsAt(q.id, q.stage)'
    BY <1>2, <1>e, <2>a, GoneIs
  \* The stack the panic leaves.
  <2>1. ASSUME NEW s \in Stacks, stack' = s, Linked(s), Apart(s), Under(s).op \in Bases,
               All(s) \subseteq All(Below), \A f \in All(Below) : f.op # "begin" => f \in All(s),
               Outer(s) \subseteq Outer(Below), \A f \in Outer(Below) : f.op # "begin" => f \in Outer(s),
               Delayed(Below) => Delayed(s)
        PROVE  IInv'
    <3>1. Shaped'
      BY <2>1 DEF Shaped
    <3>2. Tops'
      <4>1. \A f \in All(Below) : f.op \in Loops /\ f.id \in Present => sessions[f.id].launching
        BY <1>a DEF IInv, Framed, Tops
      <4>2. \A f \in All(s) : f.op \in Loops /\ f.id \in Present' => sessions'[f.id].launching
        BY <2>1, <2>c, <4>1
      <4> QED BY <2>1, <4>2, TopsBased
    <3>3. \A op : op \notin {"begin", "cancel"} => IdsOf(stack', op) = IdsOf(stack, op)
      BY <1>a, <1>b, <2>1 DEF IdsOf
    <3>4. \A f \in All(stack) : f.op \notin {"begin", "cancel"} => f \in All(stack')
      BY <1>a, <1>b, <2>1
    <3>5. \A f \in All(stack') : FrameOK(f)
      BY <1>b, <2>1, FramesOK
    <3>6. id \in Ids /\ status[id] = "running" /\ broken' \subseteq Ids
      BY <1>2, <1>f, <2>a DEF IInv, Placed, TypeOK
    <3>7. TypeOK' /\ Typed' /\ Framed' /\ Staged'
      <4>1. \A x \in Present \ {id} : x \in IdsOf(stack', "decided") <=> x \in IdsOf(stack, "decided")
        BY <3>3
      <4>2. \A f \in All(stack) : f.op \in Loops /\ f.id # id => f \in All(stack')
        BY <3>4 DEF Loops
      <4> QED BY <1>2, <1>e, <1>f, <2>1, <2>a, <3>2, <3>5, <3>6, <4>1, <4>2, GoneKeeps
    <3>8. Placed'
      <4>1. Ending' = Ending
        BY <3>3 DEF Ending
      <4>2. \A g \in All(stack') : Concerns(g) => g.id \in Ids /\ status[g.id] \notin {"new", "queued"}
        BY <3>5 DEF FrameOK
      <4> QED BY <1>2, <1>e, <2>a, <2>c, <3>6, <4>1, <4>2 DEF IInv, Placed
    <3>9. Queued'
      <4>1. \A g \in GraphIds : id \notin queued[g]
        BY <3>6 DEF IInv, Queued
      <4> QED BY <1>e, <2>a, <4>1 DEF IInv, Queued, Waiting
    <3>10. Listed'
      <4>1. Listed
        BY DEF IInv
      <4>2. \A f \in All(stack) : f.op = "finish" => f \in All(stack')
        BY <3>4
      <4>3. \A h \in GraphIds : \A x \in byGraph[h] :
              \/ x \in broken'
              \/ x \in Present' /\ sessions'[x].graph = h
              \/ \E q \in All(stack') : q.op = "finish" /\ q.id = x /\ q.graph = h
        BY <2>a, <2>c, <4>1, <4>2 DEF Listed
      <4>4. \A x \in Present' : x \in byGraph[sessions'[x].graph]
        BY <2>c, <4>1 DEF Listed
      <4> QED BY <1>e, <4>3, <4>4 DEF Listed
    <3>11. Hooked'
      <4> SUFFICES ASSUME NEW h \in live PROVE Owed(h)'
        BY <1>e DEF Hooked
      <4>1. Owed(h)
        BY DEF IInv, Hooked
      <4>2. \A f \in All(stack) : f.op \in {"finish", "decided"} => f \in All(stack')
        BY <3>4
      <4>3. ASSUME /\ IsAt(h[1], h[2]) /\ h[3] \in DOMAIN sessions[h[1]].branches
                   /\ sessions[h[1]].branches[h[3]].started /\ ~sessions[h[1]].branches[h[3]].settled
            PROVE  Owed(h)'
        <5>1. id \in IdsOf(stack, "decided")
          BY <1>b, <2>b DEF IdsOf
        <5>2. h[1] # id
          BY <4>3, <5>1 DEF IInv, Staged, Spent, IsAt
        <5> QED BY <2>c, <4>3, <5>2 DEF Owed, IsAt
      <4> QED BY <4>1, <4>2, <4>3 DEF Owed
    <3>12. Moving'
      <4>1. \A f \in All(stack) : f.op \in {"process", "due"} => f \in All(stack')
        BY <3>4
      <4>2. IdsOf(stack, "decided") \subseteq IdsOf(stack', "decided")
        BY <3>3
      <4>3. Called => Called'
        BY <1>a, <1>b, <2>1 DEF Called, Over
      <4>4. Again => Again'
        BY <2>c, <4>1, <4>2, AgainKept
      <4>5. Open => Excused'
        <5>1. Has(Below, "process") => Top \in Inner(stack)
          BY <1>b DEF Over
        <5>2. Open /\ Has(Below, "process") => Again \/ Delayed(stack)
          BY <1>a, <5>1 DEF IInv, Moving, Excused, Loops
        <5>3. Delayed(stack) => Delayed(stack')
          BY <1>a, <1>b, <2>1 DEF Over
        <5>4. ~Has(Below, "process") => Inner(stack') = {}
          BY <2>1, AllOuter DEF Has
        <5> QED BY <4>4, <5>2, <5>3, <5>4 DEF Excused
      <4> QED BY <1>2, <1>c, <1>e, <2>a, <4>1, <4>2, <4>3, <4>5, OthersMove
    <3> QED BY <3>1, <3>7, <3>8, <3>9, <3>10, <3>11, <3>12 DEF IInv
  <2>2. CASE Panic(Below) = Below /\ Under(Below).op \in Bases
    BY <1>b, <2>1, <2>2, <2>a
  <2>3. CASE Below # <<>> /\ Head(Below).op = "begin" /\ Panic(Below) = Tail(Below)
    <3>1. /\ Over(Below, Tail(Below), Head(Below)) /\ Tail(Below) \in Stacks
          /\ Linked(Tail(Below)) /\ Link(Head(Below), Under(Tail(Below))) /\ Apart(Tail(Below))
          /\ All(Below) = All(Tail(Below)) \cup {Head(Below)}
      BY <1>a, <2>3, BelowIs DEF IInv, Framed
    <3>2. Under(Tail(Below)).op \in Bases
      BY <2>3, <3>1 DEF Link
    <3>3. \A f \in All(Below) : f.op # "begin" => f \in All(Tail(Below))
      BY <2>3, <3>1
    <3>4. /\ Outer(Tail(Below)) \subseteq Outer(Below)
          /\ \A f \in Outer(Below) : f.op # "begin" => f \in Outer(Tail(Below))
      BY <2>3, <3>1 DEF Over
    <3>5. Delayed(Below) => Delayed(Tail(Below))
      BY <2>3, <3>1 DEF Over
    <3>6. All(Tail(Below)) \subseteq All(Below) /\ stack' = Tail(Below)
      BY <2>3, <2>a, <3>1
    <3> QED BY <2>1, <3>1, <3>2, <3>3, <3>4, <3>5, <3>6
  <2> QED BY <1>b, <1>d, <2>2, <2>3, PanicIs
<1>3. CASE id \in Present /\ id \notin Held
  <2> DEFINE f == FinishFrame(id, sessions[id], "cancelled")
             c == Frame("callProcess", 0)
  <2>a. /\ sessions' = Without(id) /\ stack' = <<f, c>> \o Below /\ broken' = broken
    BY <1>3 DEF CancelById
  <2>b. "cancelled" \in Final
    BY DEF Final
  <2>c. c \in FrameRecord /\ c.op = "callProcess"
    BY FrameTyped, IdsTyped DEF Frame
  <2>d. f \in FrameRecord /\ FrameOK(f) /\ f.op = "finish" /\ f.id = id
    BY <1>3, <2>b, FinishFrameIs
  <2>e. f = FinishFrame(id, sessions[id], "cancelled")
    OBVIOUS
  <2> HIDE DEF f, c
  <2>f. PICK u : Over(u, Below, c) /\ Over(stack', u, f)
    BY <1>b, <2>a, <2>c, <2>d, OverTwo
  <2>g. /\ All(u) = All(Below) \cup {c} /\ All(stack') = All(Below) \cup {c, f}
        /\ stack' \in Stacks /\ stack' # <<>> /\ Top' = f /\ Below' = u
    BY <2>f DEF Over, Top, Below
  <2>h. /\ Present' = Present \ {id} /\ \A x \in Present \ {id} : sessions'[x] = sessions[x]
        /\ \A q : ~IsAt(q.id, q.stage) => ~IsAt(q.id, q.stage)'
    BY <1>3, <1>e, <2>a, GoneIs
  <2>1. Shaped'
    <3>1. Link(c, Under(Below)) /\ Link(f, c) /\ Under(u) = c
      <4>1. Link(c, Under(Below))
        BY <1>a, <1>b, <2>c DEF Link, AboutSession, Loops
      <4>2. Link(f, c)
        BY <2>c, <2>d DEF Link, AboutSession, Loops
      <4> QED BY <2>f, <4>1, <4>2 DEF Over
    <3>2. \A g \in All(Below) : ~(g.op = "finish" /\ g.id = id)
      BY <1>3, <1>b DEF IInv, Placed, Ending, IdsOf
    <3>3. \A g \in All(u) : ~Clash(f, g)
      BY <2>c, <2>d, <2>g, <3>2 DEF Clash, Loops
    <3>4. \A g : ~Clash(c, g)
      BY <2>c DEF Clash, Loops
    <3> QED BY <1>b, <2>f, <3>1, <3>3, <3>4 DEF Over, Shaped
  <2>2. Tops'
    <3>1. \A g \in All(Below) : g.op \in Loops /\ g.id \in Present => sessions[g.id].launching
      BY <1>a DEF IInv, Framed, Tops
    <3>2. \A g \in All(u) : g.op \in Loops /\ g.id \in Present' => sessions'[g.id].launching
      BY <2>c, <2>g, <2>h, <3>1 DEF Loops
    <3> QED BY <2>d, <2>g, <3>2 DEF Tops, InProcess, In
  <2>3. \A g \in All(stack') : FrameOK(g)
    <3>1. FrameOK(c)
      BY <2>c DEF FrameOK, Concerns, AboutSession, Loop, Executor, Passed, Loops
    <3> QED BY <1>b, <2>d, <2>g, <3>1, FramesOK
  <2>4. \A g \in All(stack) : g.op # "cancel" => g \in All(stack')
    BY <1>a, <1>b, <2>g
  <2>5. \A g \in All(stack') : g \in All(stack) \/ g = f \/ g.op = "callProcess"
    BY <1>b, <2>c, <2>g
  <2>6. TypeOK' /\ Typed' /\ Framed' /\ Staged' /\ Placed' /\ Queued' /\ Listed' /\ Hooked'
    <3>1. \A g \in All(stack) : g.op \in Loops => g \in All(stack')
      BY <2>4 DEF Loops
    <3>2. \A g \in All(stack) : g.op = "decided" => g \in All(stack') \/ (g.id = id /\ g.list = {})
      BY <2>4
    <3>3. \A g \in All(stack') : g.op = "decided" => g \in All(stack)
      BY <2>5, <2>d
    <3>4. \A g \in All(stack) : g.op = "finish" => g \in All(stack')
      BY <2>4
    <3>5. \A g \in All(stack') : g.op = "finish" => g = f \/ g \in All(stack)
      BY <2>5
    <3>6. f \in All(stack') /\ UNCHANGED <<now, phase, nextId, status, byGraph, queued, live, broken>>
      BY <1>e, <2>a, <2>g
    <3> QED BY <1>3, <1>f, <2>2, <2>3, <2>a, <2>b, <2>e, <2>g, <3>1, <3>2, <3>3, <3>4, <3>5, <3>6, EndsKeeps
  <2>7. Moving'
    <3>1. \A g \in All(stack) : g.op \in {"process", "due"} => g \in All(stack')
      BY <2>4
    <3>2. IdsOf(stack, "decided") \subseteq IdsOf(stack', "decided")
      BY <2>4 DEF IdsOf
    <3>3. Called => Called'
      <4>1. Outer(Below) \subseteq Outer(stack')
        BY <2>f, TopWithin DEF Over
      <4> QED BY <1>a, <1>b, <4>1 DEF Called, Over
    <3>4. Again => Again'
      BY <2>h, <3>1, <3>2, AgainKept
    <3>5. Open => Excused'
      <4>1. Has(Below, "process") => Top \in Inner(stack)
        BY <1>b DEF Over
      <4>2. Open /\ Has(Below, "process") => Again \/ Delayed(stack)
        BY <1>a, <4>1 DEF IInv, Moving, Excused, Loops
      <4>3. Delayed(stack) => Delayed(stack')
        BY <1>a, <1>b, <2>f DEF Over
      <4>4. ~Has(Below, "process") => Inner(stack') = {}
        BY <2>c, <2>d, <2>f DEF Over, Has
      <4> QED BY <3>4, <4>2, <4>3, <4>4 DEF Excused
    <3> QED BY <1>3, <1>c, <1>e, <2>a, <3>1, <3>2, <3>3, <3>5, OthersMove
  <2> QED BY <2>1, <2>6, <2>7 DEF IInv
<1> QED BY <1>1, <1>2, <1>3

-----------------------------------------------------------------------------
\* process opens a stage.

LEMMA OpenStageKeeps ==
  ASSUME IInv, OpenStage
  PROVE  IInv'
<1> DEFINE id == Top.id
           s  == sessions[id]
           p  == [Top EXCEPT !.then = "dues"]
<1>a. /\ stack # <<>> /\ Top.op = "process" /\ Top.then = "open" /\ late' = late \ {id}
      /\ UNCHANGED <<now, phase, nextId, status, byGraph, queued, live, broken>>
  BY DEF OpenStage, InProcess, In
<1>b. /\ Over(stack, Below, Top) /\ Top \in FrameRecord /\ Below \in Stacks
      /\ Linked(Below) /\ Link(Top, Under(Below)) /\ Apart(Below)
      /\ \A g \in All(Below) : ~Clash(Top, g)
      /\ All(stack) = All(Below) \cup {Top}
  BY <1>a, TopViews DEF IInv
<1>c. /\ ~Has(Below, "process") /\ Inner(Below) = {}
      /\ \A f \in All(stack) : f.op \notin Loops \cup {"executor"}
      /\ \A x \in Present : ~sessions[x].launching
      /\ id \notin IdsOf(stack, "decided") /\ IdsOf(stack, "decided") = IdsOf(Below, "decided")
  BY <1>a, ProcessTop
<1>d. id \in Present /\ ~s.open /\ Top.flag
  BY <1>a DEF IInv, Framed, Tops, InProcess, In
<1>e. /\ p \in FrameRecord /\ p.op = "process" /\ p.id = id /\ p.stage = Top.stage
      /\ p.list = Top.list /\ p.then = "dues" /\ p.flag
  BY <1>a, <1>b, <1>d DEF FrameRecord, Steps
<1>f. s \in Session /\ SessionOK(s) /\ s.stage \in Nat /\ id \in Ids /\ id \notin Ending
  BY <1>d, SessionTyped DEF IInv, TypeOK, Placed
<1> HIDE DEF p
<1>g. FrameOK(p)
  <2>1. FrameOK(Top)
    BY <1>b, FramesOK
  <2> QED BY <1>a, <1>e, <2>1 DEF FrameOK, Concerns, AboutSession, Loop, Executor, Passed, Loops
<1>h. /\ now' = now /\ phase' = phase /\ nextId' = nextId /\ status' = status /\ byGraph' = byGraph
      /\ queued' = queued /\ live' = live /\ broken' = broken /\ (Open' <=> Open)
      /\ late' \subseteq Ids
  BY <1>a DEF Open, IInv, TypeOK
<1>i. ASSUME NEW f \in FrameRecord, f.op \in {"finish", "launch"}, f.id = id,
             stack' = <<f, p>> \o Below
      PROVE  /\ stack' \in Stacks /\ stack' # <<>> /\ Top' = f /\ p \in All(Below')
             /\ All(stack') = All(Below) \cup {p, f} /\ All(Below') = All(Below) \cup {p}
             /\ Shaped' /\ Moving'
  <2>1. PICK u : Over(u, Below, p) /\ Over(stack', u, f)
    BY <1>b, <1>e, <1>i, OverTwo
  <2>2. /\ All(u) = All(Below) \cup {p} /\ All(stack') = All(Below) \cup {p, f}
        /\ stack' \in Stacks /\ stack' # <<>> /\ Top' = f /\ Below' = u
    BY <2>1 DEF Over, Top, Below
  <2>3. Shaped'
    <3>1. Link(p, Under(Below))
      BY <1>a, <1>b, <1>e DEF Link, AboutSession, Loops
    <3>2. Link(f, p)
      BY <1>e, <1>i DEF Link, AboutSession, Loops, OnProcess
    <3>3. Under(u) = p
      BY <2>1 DEF Over
    <3>4. \A g \in All(Below) : ~Clash(p, g)
      BY <1>c, <1>e DEF Clash, Has, IdsOf, Loops
    <3>5. \A g \in All(u) : ~Clash(f, g)
      <4>1. \A g \in All(Below) : ~(g.op = "finish" /\ g.id = id)
        BY <1>b, <1>f DEF Ending, IdsOf
      <4> QED BY <1>b, <1>c, <1>e, <1>i, <2>2, <4>1 DEF Clash, Loops
    <3> QED BY <1>b, <2>1, <3>1, <3>2, <3>3, <3>4, <3>5 DEF Over, Shaped
  <2>4. Again'
    BY <1>e, <2>2 DEF Again, Turns
  <2> QED BY <2>2, <2>3, <2>4 DEF Moving, Excused, Attended
<1>1. CASE s.stage > Len(Stages(s))
  <2> DEFINE f == FinishFrame(id, s, "succeeded")
  <2>a. sessions' = Without(id) /\ stack' = <<f>> \o (<<p>> \o Below)
    BY <1>1 DEF OpenStage, Continue, p
  <2>b. "succeeded" \in Final
    BY DEF Final
  <2>c. f \in FrameRecord /\ FrameOK(f) /\ f.op = "finish" /\ f.id = id
    BY <1>d, <2>b, FinishFrameIs
  <2>d. f = FinishFrame(id, sessions[id], "succeeded")
    OBVIOUS
  <2> HIDE DEF f
  <2>e. stack' = <<f, p>> \o Below
    BY <1>b, <1>e, <2>a, <2>c, TwoPushed
  <2>f. /\ stack' \in Stacks /\ stack' # <<>> /\ Top' = f
        /\ All(stack') = All(Below) \cup {p, f} /\ All(Below') = All(Below) \cup {p}
        /\ Shaped' /\ Moving'
    BY <1>i, <2>c, <2>e
  <2>1. Tops'
    <3>1. \A g \in All(Below') : g.op \notin Loops
      BY <1>b, <1>c, <1>e, <2>f DEF Loops
    <3> QED BY <2>c, <2>f, <3>1 DEF Tops, InProcess, In
  <2>2. \A g \in All(stack') : FrameOK(g)
    BY <1>b, <1>g, <2>c, <2>f, FramesOK
  <2>3. TypeOK' /\ Typed' /\ Framed' /\ Staged' /\ Placed' /\ Queued' /\ Listed' /\ Hooked'
    <3>1. \A g \in All(stack) : g.op # "process" => g \in All(stack')
      BY <1>a, <1>b, <2>f
    <3>2. \A g \in All(stack') : g.op # "process" => g = f \/ g \in All(stack)
      BY <1>b, <1>e, <2>f
    <3>3. \A g \in All(stack) : g.op \in Loops => g \in All(stack')
      BY <3>1 DEF Loops
    <3>4. \A g \in All(stack) : g.op = "decided" => g \in All(stack') \/ (g.id = id /\ g.list = {})
      BY <3>1
    <3>5. \A g \in All(stack') : g.op = "decided" => g \in All(stack)
      BY <2>c, <3>2
    <3>6. \A g \in All(stack) : g.op = "finish" => g \in All(stack')
      BY <3>1
    <3>7. \A g \in All(stack') : g.op = "finish" => g = f \/ g \in All(stack)
      BY <3>2
    <3>8. f \in All(stack') /\ UNCHANGED <<now, phase, nextId, status, byGraph, queued, live, broken>>
      BY <1>a, <2>f
    <3>9. id \in Present /\ sessions' = Without(id) /\ stack' \in Stacks /\ late' \subseteq Ids
      BY <1>d, <1>h, <2>a, <2>f
    <3> QED BY <2>1, <2>2, <2>b, <2>d, <3>9, <3>3, <3>4, <3>5, <3>6, <3>7, <3>8, EndsKeeps
  <2> QED BY <2>3, <2>f DEF IInv
<1>2. CASE ~(s.stage > Len(Stages(s)))
  <2> DEFINE t == Opened(s)
             L == {b \in DOMAIN Current(s).delays : Current(s).delays[b] = 0}
             f == [Frame("launch", id) EXCEPT !.stage = s.stage, !.list = L]
  <2>a. sessions' = With(id, t) /\ stack' = <<f>> \o (<<p>> \o Below)
    BY <1>2 DEF OpenStage, Continue, p
  <2>b. s.stage <= Len(Stages(s))
    BY <1>2, <1>f DEF SessionOK, Session
  <2>c. /\ t \in Session /\ SessionOK(t)
        /\ t.graph = s.graph /\ t.stage = s.stage /\ t.open /\ t.launching
        /\ DOMAIN t.branches = DOMAIN Current(s).delays /\ DOMAIN t.branches \subseteq Nat
    <3>1. now \in Nat
      BY Constants_Assumption DEF IInv, TypeOK
    <3> QED BY <1>f, <2>b, <3>1, OpenedIs
  <2>d. L \subseteq DOMAIN t.branches /\ L \in SUBSET Nat
    BY <2>c
  <2> HIDE DEF t, L
  <2>e. f \in FrameRecord /\ f.op = "launch" /\ f.id = id /\ f.stage = s.stage /\ f.list = L
    <3>1. Frame("launch", id) \in FrameRecord /\ Frame("launch", id).op = "launch"
            /\ Frame("launch", id).id = id
      BY <1>f, FrameTyped, IdsTyped DEF Frame, AboutSession
    <3> QED BY <1>f, <2>d, <3>1 DEF FrameRecord
  <2> HIDE DEF f
  <2>f. stack' = <<f, p>> \o Below
    BY <1>b, <1>e, <2>a, <2>e, TwoPushed
  <2>g. /\ stack' \in Stacks /\ stack' # <<>> /\ Top' = f
        /\ All(stack') = All(Below) \cup {p, f} /\ All(Below') = All(Below) \cup {p}
        /\ Shaped' /\ Moving'
    BY <1>i, <2>e, <2>f
  <2>h. /\ Present' = Present /\ sessions'[id] = t
        /\ \A x \in Present \ {id} : sessions'[x] = sessions[x]
    BY <1>d, <2>a, SessionsNext
  <2>i. /\ \A x \in Present : sessions'[x].stage = sessions[x].stage
        /\ \A x \in Present : sessions'[x].graph = sessions[x].graph
        /\ \A x \in Present : sessions'[x] \in Session /\ SessionOK(sessions'[x])
    BY <2>c, <2>h DEF IInv, Typed
  <2>j. \A op \in {"finish", "decided"} : IdsOf(stack', op) = IdsOf(stack, op)
    BY <1>a, <1>b, <1>e, <2>e, <2>g DEF IdsOf
  <2>1. TypeOK'
    <3>1. \A x \in Present : /\ sessions'[x].graph \in GraphIds
                             /\ sessions'[x].stage \in 1 .. Len(Stages(sessions'[x])) + 1
      BY <2>h, <2>i DEF IInv, TypeOK, Stages
    <3> QED BY <1>h, <2>h, <3>1 DEF IInv, TypeOK
  <2>2. Typed'
    <3>2. \A g \in All(stack') : /\ g.op \in {"begin", "finish"} => g.graph \in GraphIds
                                 /\ g.op = "begin" => g.list \subseteq Ids
                                 /\ g.op = "process" => g.list \subseteq Ids
                                 /\ g.op = "finish" => g.then \in Final
      BY <1>b, <1>g, <2>e, <2>g, FramesOK DEF FrameOK
    <3>3. sessions' \in [Present' -> Session]
      <4>1. \A x \in Present : sessions'[x] \in Session
        BY <2>i
      <4>2. sessions' = [x \in Present' |-> sessions'[x]]
        BY <1>d, <2>a, <2>h DEF With
      <4> QED BY <2>h, <4>1, <4>2
    <3> QED BY <2>g, <2>h, <2>i, <3>2, <3>3 DEF Typed
  <2>3. Framed'
    <3>1. Tops'
      <4>1. \A g \in All(Below') : g.op \notin Loops
        BY <1>b, <1>c, <1>e, <2>g DEF Loops
      <4> QED BY <2>c, <2>e, <2>g, <2>h, <4>1 DEF Tops, InProcess, In
    <3>2. ASSUME NEW g \in All(Below) \cup {p} PROVE Loop(g)' /\ Executor(g)' /\ Passed(g)'
      <4>1. g.op \notin Loops \cup {"executor"}
        BY <1>b, <1>c, <1>e DEF Loops
      <4>2. Passed(g)
        BY <1>b, <1>g, FramesOK DEF FrameOK
      <4> QED BY <2>h, <2>i, <4>1, <4>2 DEF Loop, Executor, Passed
    <3>3. ASSUME NEW g, g = f PROVE Loop(g)' /\ Executor(g)' /\ Passed(g)'
      BY <2>c, <2>d, <2>e, <2>h, <3>3 DEF Loop, Executor, Passed
    <3>4. (\A g \in All(stack) : Loop(g) /\ Executor(g) /\ Passed(g))'
      BY <2>g, <3>2, <3>3
    <3> QED BY <3>1, <3>4 DEF Framed
  <2>4. Staged'
    <3>1. Staged
      BY DEF IInv
    <3>2. ASSUME NEW x \in Present, x # id
          PROVE /\ sessions'[x] = sessions[x] /\ ~sessions'[x].launching
                /\ x \in IdsOf(stack', "decided") <=> x \in IdsOf(stack, "decided")
      BY <1>c, <2>h, <2>j, <3>2
    <3>3. f \in All(stack') /\ f.op \in Loops /\ id \notin IdsOf(stack', "decided")
      BY <1>c, <2>e, <2>g, <2>j DEF Loops
    <3> SUFFICES ASSUME NEW x \in Present
                 PROVE ( /\ x \in IdsOf(stack, "decided") =>
                              /\ ~sessions[x].open /\ Spent(sessions[x])
                              /\ sessions[x].stage <= Len(Stages(sessions[x]))
                         /\ ~sessions[x].open /\ x \notin IdsOf(stack, "decided") =>
                              DOMAIN sessions[x].branches = {}
                         /\ sessions[x].launching => \E g \in All(stack) : g.op \in Loops /\ g.id = x )'
      BY <2>h DEF Staged
    <3>4. CASE x # id
      BY <3>1, <3>2, <3>4 DEF Staged, Spent, Stages
    <3>5. CASE x = id
      BY <2>c, <2>e, <2>h, <3>3, <3>5
    <3> QED BY <3>4, <3>5
  <2>5. Placed'
    <3>1. Ending' = Ending
      BY <2>j DEF Ending
    <3>2. \A g \in All(stack') : Concerns(g) => g.id \in Ids /\ status[g.id] \notin {"new", "queued"}
      <4>1. status[id] = "running"
        BY <1>d DEF IInv, Placed
      <4> QED BY <1>b, <1>f, <1>g, <2>e, <2>g, <4>1, FramesOK DEF FrameOK
    <3>3. Placed
      BY DEF IInv
    <3> QED BY <1>h, <2>h, <3>1, <3>2, <3>3 DEF Placed
  <2>6. Queued'
    BY <1>h DEF IInv, Queued, Waiting
  <2>7. Listed'
    <3>1. Listed
      BY DEF IInv
    <3>2. \A g \in All(stack) : g.op = "finish" => g \in All(stack')
      BY <1>a, <1>b, <2>g
    <3> QED BY <1>h, <2>h, <2>i, <3>1, <3>2 DEF Listed
  <2>8. Hooked'
    <3> SUFFICES ASSUME NEW h \in live PROVE Owed(h)'
      BY <1>h DEF Hooked
    <3>1. Owed(h)
      BY DEF IInv, Hooked
    <3>2. \A g \in All(stack) : g.op \in {"finish", "decided"} => g \in All(stack')
      BY <1>a, <1>b, <2>g
    <3>3. ASSUME /\ IsAt(h[1], h[2]) /\ h[3] \in DOMAIN sessions[h[1]].branches
                 /\ sessions[h[1]].branches[h[3]].started /\ ~sessions[h[1]].branches[h[3]].settled
          PROVE  Owed(h)'
      <4>1. DOMAIN s.branches = {}
        BY <1>c, <1>d DEF IInv, Staged
      <4>2. h[1] # id
        BY <3>3, <4>1
      <4> QED BY <2>h, <3>3, <4>2 DEF Owed, IsAt
    <3> QED BY <3>1, <3>2, <3>3 DEF Owed
  <2> QED BY <2>1, <2>2, <2>3, <2>4, <2>5, <2>6, <2>7, <2>8, <2>g DEF IInv
<1> QED BY <1>1, <1>2

-----------------------------------------------------------------------------
\* A stage is decided.

LEMMA EvaluateKeeps ==
  ASSUME IInv, Evaluate
  PROVE  IInv'
<1> PICK id : id = Top.id
  OBVIOUS
<1>a. /\ stack # <<>> /\ Top.op = "evaluate"
      /\ UNCHANGED <<now, phase, nextId, status, byGraph, queued, live, ghosts>>
  BY DEF Evaluate, In
<1>b. /\ Over(stack, Below, Top) /\ Top \in FrameRecord /\ Below \in Stacks
      /\ Linked(Below) /\ Link(Top, Under(Below)) /\ Apart(Below)
      /\ All(stack) = All(Below) \cup {Top} /\ (Below # <<>> => Under(Below) \in All(Below))
  BY <1>a, TopViews DEF IInv
<1>1. CASE ~Decides(id)
  <2>1. stack' = Below /\ UNCHANGED <<now, phase, tables, ghosts>>
    BY <1>1 DEF Evaluate, tables, ghosts
  <2>2. \A x \in Present : AtTop(x) => Fine(x)
    BY <1>1, <1>a DEF AtTop, Decides, Fine, Calm, InProcess, In
  <2> QED BY <1>a, <2>1, <2>2, Pops DEF Loops
<1>2. CASE Decides(id)
  <2> PICK s : s = sessions[id]
    OBVIOUS
  <2> PICK t : t = Decided(s)
    OBVIOUS
  <2> PICK d : d = [Top EXCEPT !.op = "decided", !.list = Losers(id), !.then = Verdict(s)]
    OBVIOUS
  <2>a. /\ id \in Present /\ s.open /\ ~s.launching /\ s \in Session /\ SessionOK(s)
        /\ DOMAIN s.branches \subseteq Nat
    <3>1. id \in Present
      BY <1>2 DEF Decides
    <3>2. s \in Session /\ SessionOK(s)
      BY <3>1, SessionTyped DEF IInv
    <3> QED BY <1>2, <3>1, <3>2, SessionFields DEF Decides
  <2>b. sessions' = With(id, t) /\ stack' = <<d>> \o Below
    BY <1>2 DEF Evaluate
  <2>c. /\ t \in Session /\ SessionOK(t) /\ Kept(s, t)
        /\ ~t.open /\ ~t.launching /\ Spent(t)
        /\ \A b \in DOMAIN s.branches : t.branches[b].started = s.branches[b].started
    BY <2>a, DecidedIs
  <2>d. /\ d \in FrameRecord /\ d.op = "decided" /\ d.id = id /\ d.flag = Top.flag
        /\ d.list = {b \in DOMAIN s.branches :
                       ~s.branches[b].settled /\ <<id, s.stage, b>> \in live}
    <3>1. Losers(id) = {b \in DOMAIN s.branches :
                          ~s.branches[b].settled /\ <<id, s.stage, b>> \in live}
      BY DEF Losers
    <3>2. Losers(id) \in SUBSET Nat
      BY <2>a, <3>1
    <3>3. Verdict(s) \in {"fail", "advance", "none"}
      BY DEF Verdict
    <3> QED BY <1>a, <1>b, <3>1, <3>2, <3>3 DEF FrameRecord, Steps, AboutSession
  <2>e. Over(stack', Below, d)
    BY <1>b, <2>b, <2>d, OverPush
  <2>f. /\ All(stack') = All(Below) \cup {d} /\ stack' \in Stacks /\ stack' # <<>>
        /\ Top' = d /\ Below' = Below
    BY <2>e DEF Over, Top, Below
  <2>g. /\ Present' = Present /\ sessions'[id] = t
        /\ \A x \in Present \ {id} : sessions'[x] = sessions[x]
    BY <2>a, <2>b, SessionsNext
  <2>h. /\ \A x \in Present : sessions'[x].graph = sessions[x].graph
        /\ \A x \in Present : sessions'[x].stage = sessions[x].stage
        /\ \A x \in Present : DOMAIN sessions'[x].branches = DOMAIN sessions[x].branches
        /\ \A x \in Present : sessions'[x] \in Session /\ SessionOK(sessions'[x])
        /\ \A x \in Present : \A b \in DOMAIN sessions[x].branches :
             sessions'[x].branches[b].started = sessions[x].branches[b].started
    BY <2>c, <2>g DEF Kept, IInv, Typed
  <2>i. /\ now' = now /\ phase' = phase /\ nextId' = nextId /\ status' = status
        /\ byGraph' = byGraph /\ queued' = queued /\ live' = live
        /\ late' = late /\ broken' = broken /\ (Open' <=> Open)
    BY <1>a DEF ghosts, Open
  <2>j. \A g \in All(Below) : g.op \in Loops /\ g.id \in Present =>
          g.id # id /\ sessions[g.id].launching
    BY <1>a, <2>a DEF IInv, Framed, Tops
  <2>k. id \notin IdsOf(stack, "decided")
    BY <2>a DEF IInv, Staged
  <2>l. \/ ~Top.flag /\ OnProcess(d, Under(Below))
        \/ Top.flag /\ Under(Below).op \in Bases
    <3>1. Top.flag \in BOOLEAN
      BY <1>b DEF FrameRecord
    <3>2. CASE ~Top.flag
      BY <1>a, <1>b, <2>d, <3>2 DEF Link, OnProcess
    <3>3. CASE Top.flag
      <4>1. Under(Below).op \in Bases \/ (Under(Below).op \in Loops /\ Under(Below).id = id)
        BY <1>a, <1>b, <3>3 DEF Link
      <4>2. Under(Below).op \in Loops => Below # <<>>
        BY DEF Under, EventLoop, Frame, Loops
      <4> QED BY <1>b, <2>a, <2>j, <3>3, <4>1, <4>2
    <3> QED BY <3>1, <3>2, <3>3
  <2>m. /\ IdsOf(stack', "decided") = IdsOf(stack, "decided") \cup {id}
        /\ IdsOf(stack', "finish") = IdsOf(stack, "finish")
    <3>1. \A op \in {"decided", "finish"} : IdsOf(stack, op) = IdsOf(Below, op)
      BY <1>a, <1>b DEF IdsOf
    <3>2. IdsOf(stack', "decided") = IdsOf(Below, "decided") \cup {d.id}
      BY <2>d, <2>f DEF IdsOf
    <3>3. IdsOf(stack', "finish") = IdsOf(Below, "finish")
      BY <2>d, <2>f DEF IdsOf
    <3> QED BY <2>d, <3>1, <3>2, <3>3
  <2>n. /\ \A g \in All(stack) : g.op # "evaluate" => g \in All(stack')
        /\ \A g \in All(stack') : g = d \/ g \in All(stack)
    BY <1>a, <1>b, <2>f
  <2>1. TypeOK'
    <3>1. \A x \in Present : /\ sessions'[x].graph \in GraphIds
                             /\ sessions'[x].stage \in 1 .. Len(Stages(sessions'[x])) + 1
      BY <2>h DEF IInv, TypeOK, Stages
    <3> QED BY <2>g, <2>i, <3>1 DEF IInv, TypeOK
  <2>2. Typed'
    <3>1. \A g \in All(stack') : /\ g.op \in {"begin", "finish"} => g.graph \in GraphIds
                                 /\ g.op = "begin" => g.list \subseteq Ids
                                 /\ g.op = "process" => g.list \subseteq Ids
                                 /\ g.op = "finish" => g.then \in Final
      BY <1>b, <2>d, <2>f DEF IInv, Typed
    <3>2. sessions' \in [Present' -> Session]
      <4>1. \A x \in Present : sessions'[x] \in Session
        BY <2>h
      <4>2. sessions' = [x \in Present' |-> sessions'[x]]
        BY <2>a, <2>b, <2>g DEF With
      <4> QED BY <2>g, <4>1, <4>2
    <3> QED BY <2>f, <2>g, <2>h, <3>1, <3>2 DEF Typed
  <2>3. Shaped'
    <3>1. Link(d, Under(Below))
      <4>1. Under(Below).op # "decided"
        BY <1>a, <1>b DEF Link
      <4> QED BY <2>d, <2>l, <4>1 DEF Link, AboutSession, Loops, Bases, UserFrames
    <3>2. \A g \in All(Below) : ~Clash(d, g)
      BY <1>b, <2>d, <2>k DEF Clash, IdsOf, Loops
    <3> QED BY <1>b, <2>e, <3>1, <3>2 DEF Over, Shaped
  <2>4. Tops'
    BY <2>d, <2>f, <2>g, <2>j DEF Tops, InProcess, In
  <2>5. Framed'
    <3>1. ASSUME NEW g \in All(Below) PROVE Loop(g)' /\ Executor(g)' /\ Passed(g)'
      <4>1. Loop(g) /\ Executor(g) /\ Passed(g)
        BY <1>b, <3>1 DEF IInv, Framed
      <4>2. Loop(g)'
        BY <2>g, <2>j, <3>1, <4>1 DEF Loop
      <4>3. Executor(g)'
        BY <2>g, <2>h, <2>i, <4>1 DEF Executor
      <4>4. Passed(g)'
        BY <2>g, <2>h, <4>1 DEF Passed
      <4> QED BY <4>2, <4>3, <4>4
    <3>2. Loop(d)' /\ Executor(d)' /\ Passed(d)'
      BY <2>d DEF Loop, Executor, Passed, Loops
    <3> QED BY <2>4, <2>f, <3>1, <3>2 DEF Framed
  <2>6. Staged'
    <3>1. Staged
      BY DEF IInv
    <3> SUFFICES ASSUME NEW x \in Present
                 PROVE ( /\ x \in IdsOf(stack, "decided") =>
                              /\ ~sessions[x].open /\ Spent(sessions[x])
                              /\ sessions[x].stage <= Len(Stages(sessions[x]))
                         /\ ~sessions[x].open /\ x \notin IdsOf(stack, "decided") =>
                              DOMAIN sessions[x].branches = {}
                         /\ sessions[x].launching => \E g \in All(stack) : g.op \in Loops /\ g.id = x )'
      BY <2>g DEF Staged
    <3>2. CASE x # id
      <4>1. sessions'[x] = sessions[x] /\ (x \in IdsOf(stack', "decided") <=> x \in IdsOf(stack, "decided"))
        BY <2>g, <2>m, <3>2
      <4>2. \A g \in All(stack) : g.op \in Loops => g \in All(stack')
        BY <2>n DEF Loops
      <4> QED BY <3>1, <4>1, <4>2 DEF Staged, Spent, Stages
    <3>3. CASE x = id
      <4>1. t.stage <= Len(Stages(t))
        BY <2>a, <2>c DEF SessionOK, Kept, Stages
      <4> QED BY <2>c, <2>g, <2>m, <3>3, <4>1 DEF Spent, Stages
    <3> QED BY <3>2, <3>3
  <2>7. Placed'
    <3>1. Ending' = Ending
      BY <2>m DEF Ending
    <3>2. \A g \in All(stack') : Concerns(g) => g.id \in Ids /\ status[g.id] \notin {"new", "queued"}
      <4>1. Concerns(Top)
        BY <1>a DEF Concerns, AboutSession
      <4>2. id \in Ids /\ status[id] \notin {"new", "queued"}
        BY <1>b, <4>1 DEF IInv, Placed
      <4> QED BY <1>b, <2>d, <2>f, <4>2 DEF IInv, Placed
    <3>3. Placed
      BY DEF IInv
    <3> QED BY <2>g, <2>i, <3>1, <3>2, <3>3 DEF Placed
  <2>8. Queued'
    BY <2>i DEF IInv, Queued, Waiting
  <2>9. Listed'
    <3>1. Listed
      BY DEF IInv
    <3>2. \A g \in All(stack) : g.op = "finish" => g \in All(stack')
      BY <2>n
    <3> QED BY <2>g, <2>h, <2>i, <3>1, <3>2 DEF Listed
  <2>10. Hooked'
    <3> SUFFICES ASSUME NEW h \in live PROVE Owed(h)'
      BY <2>i DEF Hooked
    <3>1. Owed(h) /\ h = <<h[1], h[2], h[3]>>
      BY HookIs DEF IInv, Hooked
    <3>2. \A g \in All(stack) : g.op \in {"finish", "decided"} => g \in All(stack')
      BY <2>n
    <3>3. ASSUME /\ IsAt(h[1], h[2]) /\ h[3] \in DOMAIN sessions[h[1]].branches
                 /\ sessions[h[1]].branches[h[3]].started /\ ~sessions[h[1]].branches[h[3]].settled
          PROVE  Owed(h)'
      <4>1. CASE h[1] = id
        <5>1. h[3] \in d.list
          BY <2>d, <3>1, <3>3, <4>1 DEF IsAt
        <5> QED BY <2>d, <2>f, <4>1, <5>1 DEF Owed
      <4>2. CASE h[1] # id
        BY <2>g, <3>3, <4>2 DEF Owed, IsAt
      <4> QED BY <4>1, <4>2
    <3> QED BY <3>1, <3>2, <3>3 DEF Owed
  <2>11. Moving'
    <3>1. \A g \in All(stack) : g.op \in {"process", "due"} => g \in All(stack')
      BY <2>n
    <3>2. IdsOf(stack, "decided") \subseteq IdsOf(stack', "decided")
      BY <2>m
    <3>3. \A q : ~IsAt(q.id, q.stage) => ~IsAt(q.id, q.stage)'
      BY <2>g, <2>h DEF IsAt
    <3>4. Called => Called'
      <4>1. Outer(Below) \subseteq Outer(stack')
        BY <2>e, TopWithin
      <4> QED BY <1>a, <1>b, <4>1 DEF Called, Over
    <3>5. Again => Again'
      BY <3>1, <3>2, <3>3, AgainKept
    <3>6. Open => Excused'
      <4> SUFFICES ASSUME Open, Has(Below, "process") PROVE Again' \/ Delayed(stack)'
        BY <2>e DEF Excused, Over
      <4>1. CASE ~Top.flag
        <5>1. OnProcess(d, Under(Below)) /\ Below # <<>>
          BY <2>l, <4>1 DEF OnProcess, Under, EventLoop, Frame
        <5>2. PICK q : q = Under(Below)
          OBVIOUS
        <5>3. q \in All(stack') /\ q.op = "process" /\ q.id = id /\ q.then # "pick"
          BY <1>b, <2>d, <2>f, <5>1, <5>2 DEF OnProcess
        <5>4. WillChange(q)'
          BY <2>m, <5>3 DEF WillChange
        <5> QED BY <5>3, <5>4 DEF Again
      <4>2. CASE Top.flag
        <5>1. Below # <<>>
          BY DEF Has, All
        <5>2. Over(Below, Tail(Below), Head(Below)) /\ Under(Below) = Head(Below)
                /\ Head(Below) \in All(Below) /\ All(Below) = All(Tail(Below)) \cup {Head(Below)}
          BY <1>a, <5>1, BelowIs DEF IInv, Framed
        <5>3. Head(Below).op \in Bases \ {"loop"}
          <6>1. Head(Below).op # "loop"
            BY <1>b, <5>2 DEF Over, FrameRecord, AboutSession, UserFrames
          <6> QED BY <2>l, <4>2, <5>2, <6>1
        <5>4. Has(Tail(Below), "process")
          BY <5>2, <5>3 DEF Has, Bases, UserFrames
        <5>5. Head(Below) \in Inner(stack)
          BY <1>b, <5>2, <5>4 DEF Over
        <5>6. Again \/ Delayed(stack)
          BY <5>3, <5>5 DEF IInv, Moving, Excused, Loops, Bases, UserFrames
        <5>7. Delayed(stack) => Delayed(stack')
          BY <1>a, <1>b, <2>e DEF Over
        <5> QED BY <3>5, <5>6, <5>7
      <4>3. Top.flag \in BOOLEAN
        BY <1>b DEF FrameRecord
      <4> QED BY <4>1, <4>2, <4>3
    <3>7. ASSUME Open, NEW x \in Present, x \notin late PROVE Fine(x)' \/ Attended(x)'
      <4>1. CASE x = id
        BY <2>m, <4>1 DEF Attended, Deciding
      <4>2. CASE x # id
        <5>1. Fine(x) \/ Attended(x)
          BY <3>7 DEF IInv, Moving
        <5>2. sessions'[x] = sessions[x] /\ ~AtTop(x)
          BY <2>g, <4>2 DEF AtTop
        <5>3. Fine(x) => Fine(x)'
          BY <2>i, <5>2 DEF Fine, Calm, NoDue, Verdict, Settled, Succeeded, Current, Stages, DueBranches
        <5>4. DueBranches(sessions[x])' \subseteq DueBranches(sessions[x])
          BY <2>i, <5>2 DEF DueBranches, Current, Stages
        <5>5. Attended(x) => Attended(x)'
          BY <3>1, <3>2, <3>3, <3>4, <5>2, <5>4, AttendedKept
        <5> QED BY <5>1, <5>3, <5>5
      <4> QED BY <4>1, <4>2
    <3> QED BY <2>g, <2>i, <3>6, <3>7 DEF Moving
  <2> QED BY <2>1, <2>2, <2>3, <2>5, <2>6, <2>7, <2>8, <2>9, <2>10, <2>11 DEF IInv
<1> QED BY <1>1, <1>2

\* What a decided stage returns to.
LEMMA DecidedRest ==
  ASSUME IInv, stack # <<>>, Top.op = "decided",
         NEW R, R = (IF Top.flag THEN <<Frame("callProcess", 0)>> ELSE <<>>) \o Below
  PROVE  /\ R \in Stacks /\ R # <<>> /\ Linked(R) /\ Apart(R)
         /\ All(Below) \subseteq All(R)
         /\ \A f \in All(R) : f \in All(Below) \/ f.op = "callProcess"
         /\ \/ Under(R).op = "callProcess"
            \/ Under(R).op = "process" /\ Under(R).then \notin {"pick", "open"}
         /\ Outer(Below) \subseteq Outer(R) /\ (Delayed(R) <=> Delayed(Below))
         /\ Has(R, "process") <=> Has(Below, "process")
         /\ ~Has(Below, "process") => \E f \in Outer(R) : f.op = "callProcess"
         /\ Top.id \notin IdsOf(Below, "decided")
<1>a. /\ Over(stack, Below, Top) /\ Top \in FrameRecord /\ Below \in Stacks
      /\ Linked(Below) /\ Link(Top, Under(Below)) /\ Apart(Below)
      /\ \A g \in All(Below) : ~Clash(Top, g)
      /\ (Below # <<>> => Under(Below) \in All(Below))
  BY TopViews DEF IInv
<1>b. Top.id \notin IdsOf(Below, "decided")
  BY <1>a DEF Clash, IdsOf
<1>1. CASE ~Top.flag
  <2>1. R = Below
    BY <1>1, <1>a DEF Stacks
  <2>2. OnProcess(Top, Under(Below))
    BY <1>1, <1>a DEF Link
  <2>3. Below # <<>>
    BY <2>2 DEF OnProcess, Under, EventLoop, Frame
  <2>4. Has(Below, "process")
    BY <1>a, <2>2, <2>3 DEF OnProcess, Has
  <2> QED BY <1>a, <1>b, <2>1, <2>2, <2>3, <2>4 DEF OnProcess
<1>2. CASE Top.flag
  <2> PICK c : c = Frame("callProcess", 0)
    OBVIOUS
  <2>1. R = <<c>> \o Below
    BY <1>2
  <2>2. c \in FrameRecord /\ c.op = "callProcess"
    BY FrameTyped, IdsTyped DEF Frame
  <2>3. Over(R, Below, c)
    BY <1>a, <2>1, <2>2, OverPush
  <2>4. Link(c, Under(Below))
    BY <1>2, <1>a, <2>2 DEF Link, AboutSession, Loops
  <2>5. \A g : ~Clash(c, g)
    BY <2>2 DEF Clash, Loops
  <2>6. Has(R, "process") <=> Has(Below, "process")
    BY <2>2, <2>3 DEF Over, Has
  <2>7. ~Has(Below, "process") => c \in Outer(R)
    BY <2>3 DEF Over
  <2> QED BY <1>a, <1>b, <2>2, <2>3, <2>4, <2>5, <2>6, <2>7, TopWithin DEF Over
<1>3. Top.flag \in BOOLEAN
  BY <1>a DEF FrameRecord
<1> QED BY <1>1, <1>2, <1>3

LEMMA DecidedMoves ==
  ASSUME IInv, stack # <<>>, Top.op = "decided", UNCHANGED <<now, phase>>,
         NEW id, id = Top.id,
         Present' \subseteq Present, \A x \in Present' : x # id => sessions'[x] = sessions[x],
         \A q \in All(stack) :
           q.op = "process" /\ q.then # "pick" /\ (~IsAt(q.id, q.stage) \/ q.id = id) =>
             ~IsAt(q.id, q.stage)',
         late \subseteq late', id \in Present' /\ DelayedRuns => id \in late',
         All(Below) \subseteq All(stack'), Outer(Below) \subseteq Outer(stack'),
         Delayed(Below) => Delayed(stack'),
         ~Has(Below, "process") => Inner(stack') = {} /\ Called'
  PROVE  Moving'
<1>a. /\ Over(stack, Below, Top) /\ All(stack) = All(Below) \cup {Top} /\ stack \in Stacks
  BY TopViews DEF IInv, Over
<1> SUFFICES ASSUME Open PROVE Excused' /\ \A x \in Present' \ late' : Fine(x)' \/ Attended(x)'
  BY DEF Moving, Open
<1>1. CASE ~Has(Below, "process")
  BY <1>1 DEF Excused, Attended
<1>2. CASE Has(Below, "process")
  <2>1. Again \/ Delayed(stack)
    <3>1. Top \in Inner(stack)
      BY <1>2, <1>a DEF Over
    <3> QED BY <3>1 DEF IInv, Moving, Excused, Loops
  <2>2. Delayed(stack) => Delayed(stack') /\ DelayedRuns
    BY <1>a, StackReads DEF Over
  <2>3. \A f \in All(stack) : f.op # "decided" => f \in All(stack')
    BY <1>a
  <2>4. ASSUME Again PROVE Again'
    <3>1. PICK q \in All(stack) : Turns(q) \/ WillChange(q)
      BY <2>4 DEF Again
    <3>2. q \in All(stack') /\ q.op = "process"
      BY <2>3, <3>1 DEF Turns, WillChange
    <3>3. CASE Turns(q)
      BY <3>2, <3>3 DEF Again, Turns
    <3>4. CASE WillChange(q) /\ (~IsAt(q.id, q.stage) \/ q.id = id)
      <4>1. ~IsAt(q.id, q.stage)'
        BY <3>1, <3>4 DEF WillChange
      <4> QED BY <3>2, <3>4, <4>1 DEF Again, WillChange, Changed
    <3>5. CASE WillChange(q) /\ IsAt(q.id, q.stage) /\ q.id # id
      <4>1. q.id \in IdsOf(stack, "decided")
        BY <3>5 DEF WillChange, Changed
      <4>2. q.id \in IdsOf(stack', "decided")
        BY <1>a, <3>5, <4>1 DEF IdsOf
      <4> QED BY <3>2, <3>5, <4>2 DEF Again, WillChange
    <3> QED BY <3>1, <3>3, <3>4, <3>5
  <2>5. CASE Again
    BY <2>4, <2>5 DEF Excused, Attended
  <2>6. CASE ~Again
    <3>1. Delayed(stack') /\ DelayedRuns
      BY <2>1, <2>2, <2>6
    <3>2. ASSUME NEW x \in Present', x \notin late' PROVE Fine(x)' \/ Attended(x)'
      <4>1. x # id /\ x \in Present /\ x \notin late /\ sessions'[x] = sessions[x]
        BY <3>1, <3>2
      <4>2. Fine(x) \/ Attended(x)
        BY <4>1 DEF IInv, Moving
      <4>3. Fine(x) => Fine(x)'
        BY <4>1 DEF Fine, Calm, NoDue, Verdict, Settled, Succeeded, Current, Stages, DueBranches
      <4>4. Called => Called'
        BY <1>2, <1>a DEF Called, Over
      <4>5. Deciding(x) => Deciding(x)'
        BY <1>a, <4>1 DEF Deciding, IdsOf
      <4>6. Starts(x) => Starts(x)'
        BY <2>3, <4>1 DEF Starts, DueBranches, Current, Stages
      <4>7. Listing(x) => Listing(x)'
        BY <2>3 DEF Listing
      <4>8. ~AtTop(x)
        BY DEF AtTop, InProcess, In
      <4> QED BY <2>6, <4>2, <4>3, <4>4, <4>5, <4>6, <4>7, <4>8 DEF Attended
    <3> QED BY <3>1, <3>2 DEF Excused
  <2> QED BY <2>5, <2>6
<1> QED BY <1>1, <1>2

LEMMA DecidedEndKeeps ==
  ASSUME IInv, DecidedEnd
  PROVE  IInv'
<1> PICK id : id = Top.id
  OBVIOUS
<1> PICK R : R = (IF Top.flag THEN <<Frame("callProcess", 0)>> ELSE <<>>) \o Below
  OBVIOUS
<1>a. /\ stack # <<>> /\ Top.op = "decided" /\ Top.list = {}
      /\ UNCHANGED <<now, phase, nextId, status, byGraph, queued, live, broken>>
  BY DEF DecidedEnd, In
<1>b. /\ Over(stack, Below, Top) /\ Below \in Stacks /\ Linked(Below) /\ Apart(Below)
      /\ All(stack) = All(Below) \cup {Top} /\ stack \in Stacks
  BY <1>a, TopViews DEF IInv, Over
<1>c. /\ R \in Stacks /\ R # <<>> /\ Linked(R) /\ Apart(R)
      /\ All(Below) \subseteq All(R)
      /\ \A f \in All(R) : f \in All(Below) \/ f.op = "callProcess"
      /\ \/ Under(R).op = "callProcess"
         \/ Under(R).op = "process" /\ Under(R).then \notin {"pick", "open"}
      /\ Outer(Below) \subseteq Outer(R) /\ (Delayed(R) <=> Delayed(Below))
      /\ (Has(R, "process") <=> Has(Below, "process"))
      /\ (~Has(Below, "process") => \E f \in Outer(R) : f.op = "callProcess")
      /\ id \notin IdsOf(Below, "decided")
  BY <1>a, DecidedRest
<1>d. /\ now' = now /\ phase' = phase /\ nextId' = nextId /\ status' = status /\ byGraph' = byGraph
      /\ queued' = queued /\ live' = live /\ broken' = broken /\ (Open' <=> Open)
  BY <1>a DEF Open
<1>e. /\ id \in IdsOf(stack, "decided")
      /\ \A x : x # id => (x \in IdsOf(R, "decided") <=> x \in IdsOf(stack, "decided"))
      /\ id \notin IdsOf(R, "decided") /\ IdsOf(R, "finish") = IdsOf(stack, "finish")
  <2>1. IdsOf(R, "decided") = IdsOf(Below, "decided")
    BY <1>c DEF IdsOf
  <2>2. IdsOf(R, "finish") = IdsOf(stack, "finish")
    BY <1>a, <1>b, <1>c DEF IdsOf
  <2>3. IdsOf(stack, "decided") = IdsOf(Below, "decided") \cup {id}
    BY <1>a, <1>b DEF IdsOf
  <2> QED BY <1>c, <2>1, <2>2, <2>3
<1>f. id \in Present => /\ sessions[id] \in Session /\ SessionOK(sessions[id])
                        /\ ~sessions[id].open /\ ~sessions[id].launching /\ Spent(sessions[id])
                        /\ sessions[id].stage <= Len(Stages(sessions[id]))
                        /\ sessions[id].stage \in Nat
  <2> SUFFICES ASSUME id \in Present
               PROVE /\ sessions[id] \in Session /\ SessionOK(sessions[id])
                     /\ ~sessions[id].open /\ ~sessions[id].launching /\ Spent(sessions[id])
                     /\ sessions[id].stage <= Len(Stages(sessions[id]))
                     /\ sessions[id].stage \in Nat
    OBVIOUS
  <2>1. sessions[id] \in Session /\ SessionOK(sessions[id]) /\ sessions[id].stage \in Nat
    BY SessionTyped DEF IInv
  <2>2. /\ ~sessions[id].open /\ Spent(sessions[id])
        /\ sessions[id].stage <= Len(Stages(sessions[id]))
    BY <1>e DEF IInv, Staged
  <2> QED BY <2>1, <2>2 DEF SessionOK
<1>g. \A f \in All(Below) : f.op \in Loops /\ f.id \in Present =>
        f.id # id /\ sessions[f.id].launching
  BY <1>a, <1>f DEF IInv, Framed, Tops
<1>h. \A f \in All(R) : FrameOK(f)
  <2>1. \A f : f.op = "callProcess" => FrameOK(f)
    BY DEF FrameOK, Concerns, AboutSession, Loop, Executor, Passed, Loops
  <2> QED BY <1>b, <1>c, <2>1, FramesOK
\* The session stays or moves on.
<1>1. ASSUME stack' = R, Present' = Present, sessions' \in [Present -> Session],
             \A x \in Present : x # id => sessions'[x] = sessions[x],
             id \in Present =>
               /\ SessionOK(sessions'[id]) /\ sessions'[id].graph = sessions[id].graph
               /\ sessions'[id].stage = sessions[id].stage + 1
               /\ ~sessions'[id].open /\ ~sessions'[id].launching
               /\ DOMAIN sessions'[id].branches = {},
             late \subseteq late', late' \subseteq Ids, id \in Present /\ DelayedRuns => id \in late'
      PROVE  IInv'
  <2>a. /\ \A x \in Present : sessions'[x].graph = sessions[x].graph
        /\ \A x \in Present : SessionOK(sessions'[x])
    BY <1>1 DEF IInv, Typed
  <2>1. TypeOK'
    <3>1. \A x \in Present : /\ sessions'[x].graph \in GraphIds
                             /\ sessions'[x].stage \in 1 .. Len(Stages(sessions'[x])) + 1
      BY <2>a DEF IInv, TypeOK, SessionOK
    <3> QED BY <1>1, <1>d, <3>1 DEF IInv, TypeOK, Stages
  <2>2. Typed'
    <3>1. \A g \in All(stack') : /\ g.op \in {"begin", "finish"} => g.graph \in GraphIds
                                 /\ g.op = "begin" => g.list \subseteq Ids
                                 /\ g.op = "process" => g.list \subseteq Ids
                                 /\ g.op = "finish" => g.then \in Final
      BY <1>1, <1>h DEF FrameOK
    <3> QED BY <1>1, <1>c, <2>a, <3>1 DEF Typed
  <2>3. Shaped'
    BY <1>1, <1>c DEF Shaped
  <2>4. Tops'
    <3>1. Top' = Under(R) /\ All(Below') \subseteq All(R)
      <4>1. Head(R) \in FrameRecord /\ Tail(R) \in Stacks /\ R = <<Head(R)>> \o Tail(R)
        BY <1>c, Popped
      <4>2. All(R) = All(Tail(R)) \cup {Head(R)}
        BY <4>1, AllPushed
      <4> QED BY <1>1, <1>c, <4>2 DEF Top, Below, Under
    <3>2. \A g \in All(Below') : g.op \in Loops /\ g.id \in Present' => sessions'[g.id].launching
      <4>1. \A g \in All(R) : g.op \in Loops => g \in All(Below)
        BY <1>c DEF Loops
      <4> QED BY <1>1, <1>g, <3>1, <4>1
    <3> QED BY <1>1, <1>c, <3>1, <3>2 DEF Tops, InProcess, In
  <2>5. Framed'
    <3>1. ASSUME NEW g \in All(R) PROVE Loop(g)' /\ Executor(g)' /\ Passed(g)'
      <4>1. Loop(g) /\ Executor(g) /\ Passed(g) /\ g \in FrameRecord
        BY <1>c, <1>h, StackFrames DEF FrameOK
      <4>2. Loop(g)'
        <5>1. g.op \in Loops => g \in All(Below)
          BY <1>c DEF Loops
        <5> QED BY <1>1, <1>g, <4>1, <5>1 DEF Loop
      <4>3. Executor(g)'
        <5>1. CASE g.id # id
          BY <1>1, <1>d, <4>1, <5>1 DEF Executor
        <5>2. CASE g.id = id
          <6>1. g.stage \in Nat
            BY <4>1 DEF FrameRecord
          <6> QED BY <1>1, <1>d, <1>f, <4>1, <5>2, <6>1 DEF Executor
        <5> QED BY <5>1, <5>2
      <4>4. Passed(g)'
        <5>1. g.stage \in Nat
          BY <4>1 DEF FrameRecord
        <5> QED BY <1>1, <1>f, <4>1, <5>1 DEF Passed
      <4> QED BY <4>2, <4>3, <4>4
    <3> QED BY <1>1, <2>4, <3>1 DEF Framed
  <2>6. Staged'
    <3>1. Staged
      BY DEF IInv
    <3> SUFFICES ASSUME NEW x \in Present
                 PROVE ( /\ x \in IdsOf(stack, "decided") =>
                              /\ ~sessions[x].open /\ Spent(sessions[x])
                              /\ sessions[x].stage <= Len(Stages(sessions[x]))
                         /\ ~sessions[x].open /\ x \notin IdsOf(stack, "decided") =>
                              DOMAIN sessions[x].branches = {}
                         /\ sessions[x].launching => \E g \in All(stack) : g.op \in Loops /\ g.id = x )'
      BY <1>1 DEF Staged
    <3>2. CASE x # id
      <4>1. sessions'[x] = sessions[x] /\ (x \in IdsOf(stack', "decided") <=> x \in IdsOf(stack, "decided"))
        BY <1>1, <1>e, <3>2
      <4>2. \A g \in All(stack) : g.op \in Loops => g \in All(stack')
        BY <1>1, <1>a, <1>b, <1>c DEF Loops
      <4> QED BY <3>1, <4>1, <4>2 DEF Staged, Spent, Stages
    <3>3. CASE x = id
      BY <1>1, <1>e, <3>3
    <3> QED BY <3>2, <3>3
  <2>7. Placed'
    <3>1. Ending' = Ending
      BY <1>1, <1>e DEF Ending
    <3>2. \A g \in All(stack') : Concerns(g) => g.id \in Ids /\ status[g.id] \notin {"new", "queued"}
      BY <1>1, <1>h DEF FrameOK
    <3>3. Placed
      BY DEF IInv
    <3> QED BY <1>1, <1>d, <3>1, <3>2, <3>3 DEF Placed
  <2>8. Queued'
    BY <1>d DEF IInv, Queued, Waiting
  <2>9. Listed'
    <3>1. Listed
      BY DEF IInv
    <3>2. \A g \in All(stack) : g.op = "finish" => g \in All(stack')
      BY <1>1, <1>a, <1>b, <1>c
    <3>3. \A h \in GraphIds : \A x \in byGraph[h] :
            \/ x \in broken
            \/ x \in Present /\ sessions'[x].graph = h
            \/ \E q \in All(stack') : q.op = "finish" /\ q.id = x /\ q.graph = h
      BY <2>a, <3>1, <3>2 DEF Listed
    <3>4. \A x \in Present : x \in byGraph[sessions'[x].graph]
      BY <2>a, <3>1 DEF Listed
    <3>5. Present' = Present
      BY <1>1
    <3> QED BY <1>d, <3>3, <3>4, <3>5 DEF Listed
  <2>10. Hooked'
    <3> SUFFICES ASSUME NEW h \in live PROVE Owed(h)'
      BY <1>d DEF Hooked
    <3>1. Owed(h)
      BY DEF IInv, Hooked
    <3>2. \A g \in All(stack) : g.op \in {"finish", "decided"} /\ g.list # {} => g \in All(stack')
      BY <1>1, <1>a, <1>b, <1>c
    <3>3. ASSUME /\ IsAt(h[1], h[2]) /\ h[3] \in DOMAIN sessions[h[1]].branches
                 /\ sessions[h[1]].branches[h[3]].started /\ ~sessions[h[1]].branches[h[3]].settled
          PROVE  Owed(h)'
      <4>1. h[1] # id
        BY <1>f, <3>3 DEF IsAt, Spent
      <4> QED BY <1>1, <3>3, <4>1 DEF Owed, IsAt
    <3> QED BY <3>1, <3>2, <3>3 DEF Owed
  <2>11. Moving'
    <3>1. ASSUME NEW q \in All(stack), q.op = "process" /\ q.then # "pick",
                 ~IsAt(q.id, q.stage) \/ q.id = id
          PROVE  ~IsAt(q.id, q.stage)'
      <4>1. CASE q.id # id
        BY <1>1, <3>1, <4>1 DEF IsAt
      <4>2. CASE q.id = id
        <5>1. q.stage \in Nat /\ Passed(q)
          BY <1>b, <3>1, FramesOK, StackFrames DEF FrameOK, FrameRecord
        <5> QED BY <1>1, <1>f, <3>1, <4>2, <5>1 DEF IsAt, Passed
      <4> QED BY <4>1, <4>2
    <3>2. ~Has(Below, "process") => Inner(stack') = {} /\ Called'
      BY <1>1, <1>c, AllOuter DEF Called
    <3>3. UNCHANGED <<now, phase>> /\ Present' \subseteq Present
      BY <1>1, <1>d
    <3>4. /\ All(Below) \subseteq All(stack') /\ Outer(Below) \subseteq Outer(stack')
          /\ (Delayed(Below) => Delayed(stack'))
      BY <1>1, <1>c
    <3> QED BY <1>1, <1>a, <3>1, <3>2, <3>3, <3>4, DecidedMoves
  <2> QED BY <2>1, <2>2, <2>3, <2>5, <2>6, <2>7, <2>8, <2>9, <2>10, <2>11 DEF IInv
<1>2. CASE id \notin Present
  <2>1. stack' = R /\ sessions' = sessions /\ late' = late
    BY <1>2 DEF DecidedEnd
  <2>2. Present' = Present /\ late \subseteq late' /\ late' \subseteq Ids /\ sessions' \in [Present -> Session]
    BY <2>1 DEF Present, IInv, TypeOK, Typed
  <2> QED BY <1>1, <1>2, <2>1, <2>2
<1>3. CASE id \in Present /\ Top.then = "fail"
  <2> PICK f : f = FinishFrame(id, sessions[id], "failed")
    OBVIOUS
  <2>a. sessions' = Without(id) /\ stack' = <<f>> \o R /\ late' = late
    BY <1>3 DEF DecidedEnd
  <2>b. "failed" \in Final
    BY DEF Final
  <2>c. f \in FrameRecord /\ FrameOK(f) /\ f.op = "finish" /\ f.id = id
    BY <1>3, <2>b, FinishFrameIs
  <2>d. Over(stack', R, f)
    BY <1>c, <2>a, <2>c, OverPush
  <2>e. /\ All(stack') = All(R) \cup {f} /\ stack' \in Stacks /\ stack' # <<>>
        /\ Top' = f /\ Below' = R
    BY <2>d DEF Over, Top, Below
  <2>f. /\ Present' = Present \ {id} /\ \A x \in Present \ {id} : sessions'[x] = sessions[x]
        /\ \A q : ~IsAt(q.id, q.stage) => ~IsAt(q.id, q.stage)'
    BY <1>3, <1>d, <2>a, GoneIs
  <2>1. Shaped'
    <3>1. Link(f, Under(R))
      BY <1>c, <2>c DEF Link, AboutSession, Loops
    <3>2. \A g \in All(R) : ~(g.op = "finish" /\ g.id = id)
      <4>1. id \notin IdsOf(R, "finish")
        BY <1>3, <1>e DEF IInv, Placed, Ending
      <4> QED BY <4>1 DEF IdsOf
    <3>3. \A g \in All(R) : ~Clash(f, g)
      BY <2>c, <3>2 DEF Clash, Loops
    <3> QED BY <1>c, <2>d, <3>1, <3>3 DEF Over, Shaped
  <2>2. Tops'
    <3>1. \A g \in All(R) : g.op \in Loops => g \in All(Below)
      BY <1>c DEF Loops
    <3> QED BY <1>g, <2>c, <2>e, <2>f, <3>1 DEF Tops, InProcess, In
  <2>3. \A g \in All(stack') : FrameOK(g)
    BY <1>h, <2>c, <2>e
  <2>4. TypeOK' /\ Typed' /\ Framed' /\ Staged' /\ Placed' /\ Queued' /\ Listed' /\ Hooked'
    <3>1. \A g \in All(stack) : g.op \in Loops => g \in All(stack')
      BY <1>a, <1>b, <1>c, <2>e DEF Loops
    <3>2. \A g \in All(stack) : g.op = "decided" => g \in All(stack') \/ (g.id = id /\ g.list = {})
      BY <1>a, <1>b, <1>c, <2>e
    <3>3. \A g \in All(stack') : g.op = "decided" => g \in All(stack)
      BY <1>b, <1>c, <2>c, <2>e
    <3>4. \A g \in All(stack) : g.op = "finish" => g \in All(stack')
      BY <1>a, <1>b, <1>c, <2>e
    <3>5. \A g \in All(stack') : g.op = "finish" => g = f \/ g \in All(stack)
      BY <1>b, <1>c, <2>e
    <3>6. f \in All(stack') /\ UNCHANGED <<now, phase, nextId, status, byGraph, queued, live, broken>>
      BY <1>a, <2>e
    <3>7. id \in Present /\ sessions' = Without(id) /\ stack' \in Stacks /\ late' \subseteq Ids
      BY <1>3, <2>a, <2>e DEF IInv, TypeOK
    <3>8. f = FinishFrame(id, sessions[id], "failed")
      OBVIOUS
    <3> QED BY <2>2, <2>3, <2>b, <3>1, <3>2, <3>3, <3>4, <3>5, <3>6, <3>7, <3>8, EndsKeeps
  <2>5. Moving'
    <3>1. \A q \in All(stack) : q.op = "process" /\ q.then # "pick" /\ (~IsAt(q.id, q.stage) \/ q.id = id) =>
            ~IsAt(q.id, q.stage)'
      BY <2>f DEF IsAt
    <3>2. Outer(R) \subseteq Outer(stack')
      BY <2>d, TopWithin
    <3>3. ~Has(Below, "process") => Inner(stack') = {} /\ Called'
      BY <1>c, <2>d, <3>2 DEF Called, Over
    <3>4. /\ All(Below) \subseteq All(stack') /\ Outer(Below) \subseteq Outer(stack')
          /\ (Delayed(Below) => Delayed(stack'))
      BY <1>c, <2>c, <2>d, <2>e, <3>2 DEF Over
    <3>5. /\ Present' \subseteq Present /\ id \notin Present' /\ late \subseteq late'
          /\ \A x \in Present' : x # id => sessions'[x] = sessions[x]
      BY <2>a, <2>f
    <3> QED BY <1>a, <1>d, <3>1, <3>3, <3>4, <3>5, DecidedMoves
  <2> QED BY <2>1, <2>4, <2>5 DEF IInv
<1>4. CASE id \in Present /\ Top.then # "fail"
  <2> PICK s : s = sessions[id]
    OBVIOUS
  <2> PICK t : t = Advanced(s)
    OBVIOUS
  <2>1. stack' = R /\ sessions' = With(id, t) /\ late' = (IF DelayedRuns THEN late \cup {id} ELSE late)
    BY <1>4 DEF DecidedEnd, MarkLate
  <2>2. /\ t \in Session /\ SessionOK(t) /\ t.graph = s.graph /\ t.stage = s.stage + 1
        /\ ~t.open /\ ~t.launching /\ DOMAIN t.branches = {}
    BY <1>4, <1>f, AdvancedIs
  <2>3. /\ Present' = Present /\ sessions'[id] = t
        /\ \A x \in Present \ {id} : sessions'[x] = sessions[x]
    BY <1>4, <2>1, SessionsNext
  <2>4. sessions' \in [Present -> Session]
    <3>1. \A x \in Present : sessions'[x] \in Session
      BY <2>2, <2>3 DEF IInv, Typed
    <3>2. sessions' = [x \in Present' |-> sessions'[x]]
      BY <1>4, <2>1, <2>3 DEF With
    <3> QED BY <2>3, <3>1, <3>2
  <2>5. late \subseteq late' /\ late' \subseteq Ids /\ (DelayedRuns => id \in late')
    BY <1>4, <2>1 DEF IInv, TypeOK
  <2> QED BY <1>1, <2>1, <2>2, <2>3, <2>4, <2>5
<1> QED BY <1>2, <1>3, <1>4

-----------------------------------------------------------------------------
\* The loops that start branches.

LEMMA LoopTop ==
  ASSUME IInv, stack # <<>>, Top.op \in Loops
  PROVE  /\ Below # <<>> /\ Under(Below) \in All(Below) /\ OnProcess(Top, Under(Below))
         /\ Top.op = "launch" => Under(Below).flag
         /\ Has(Below, "process") /\ Inner(Below) = {}
         /\ \A f \in All(Below) : f.op \notin Loops \cup {"executor"}
<1>a. /\ Over(stack, Below, Top) /\ Below \in Stacks /\ Linked(Below)
      /\ Link(Top, Under(Below)) /\ \A g \in All(Below) : ~Clash(Top, g)
      /\ (Below # <<>> => Under(Below) \in All(Below))
  BY TopViews DEF IInv
<1>b. OnProcess(Top, Under(Below)) /\ (Top.op = "launch" => Under(Below).flag)
  BY <1>a DEF Link
<1>c. Below # <<>>
  BY <1>b DEF OnProcess, Under, EventLoop, Frame
<1>d. \A f \in All(Below) : f.op \notin Loops
  BY <1>a DEF Clash
<1>e. \A f \in All(Below) : f.op # "executor"
  BY <1>a, <1>d, ExecutorInLoop
<1>f. Inner(Below) = {}
  <2>1. /\ Over(Below, Tail(Below), Head(Below)) /\ Under(Below) = Head(Below)
        /\ \A g \in All(Tail(Below)) : ~Clash(Head(Below), g)
    BY <1>c, BelowIs DEF IInv, Framed
  <2>2. ~Has(Tail(Below), "process")
    BY <1>b, <2>1 DEF OnProcess, Has, Clash
  <2> QED BY <2>1, <2>2 DEF Over
<1> QED BY <1>a, <1>b, <1>c, <1>d, <1>e, <1>f DEF OnProcess, Has

LEMMA LaunchStep ==
  ASSUME IInv, stack # <<>>, Top.op \in Loops, NEW id \in Present, id = Top.id,
         NEW t \in Session, SessionOK(t), Kept(sessions[id], t), t.open = sessions[id].open,
         \A b \in DOMAIN t.branches :
           /\ sessions[id].branches[b].started => t.branches[b].started
           /\ t.branches[b].settled = sessions[id].branches[b].settled,
         sessions' = With(id, t),
         UNCHANGED <<now, phase, nextId, status, byGraph, queued, live, ghosts>>,
         stack' \in Stacks, Shaped', Tops', All(Below) \subseteq All(stack'),
         \A f \in All(stack') : f \in All(Below) \/
           (f.op \in Loops \cup {"executor", "evaluate"} /\ f.id = id /\ Loop(f)' /\ Executor(f)'),
         t.launching => \E g \in All(stack') : g.op \in Loops /\ g.id = id,
         Outer(Below) \subseteq Outer(stack'),
         Open => Excused',
         Open /\ (Fine(id) \/ Starts(id)) => Fine(id)' \/ Attended(id)'
  PROVE  IInv'
<1>a. /\ Over(stack, Below, Top) /\ All(stack) = All(Below) \cup {Top}
      /\ Has(Below, "process") /\ \A f \in All(Below) : f.op \notin Loops
  BY TopViews, LoopTop DEF IInv
<1>b. /\ now' = now /\ phase' = phase /\ nextId' = nextId /\ status' = status
      /\ byGraph' = byGraph /\ queued' = queued /\ live' = live
      /\ late' = late /\ broken' = broken /\ (Open' <=> Open)
  BY DEF ghosts, Open
<1>c. /\ Present' = Present /\ sessions'[id] = t
      /\ \A x \in Present \ {id} : sessions'[x] = sessions[x]
      /\ sessions' \in [Present -> Session]
      /\ \A x \in Present : SessionOK(sessions'[x])
      /\ \A x \in Present : sessions'[x].graph = sessions[x].graph
      /\ \A f : Loop(f) => Loop(f)'
      /\ \A f : Executor(f) => Executor(f)'
      /\ \A f : Passed(f) => Passed(f)'
      /\ \A q : ~IsAt(q.id, q.stage) => ~IsAt(q.id, q.stage)'
      /\ (\A x \in Present : /\ sessions[x].graph \in GraphIds
                             /\ sessions[x].stage \in 1 .. Len(Stages(sessions[x])) + 1)'
  BY <1>b, SessionKept DEF IInv
<1>d. \A op \in {"finish", "decided"} : IdsOf(stack', op) = IdsOf(stack, op)
  <2> SUFFICES ASSUME NEW op \in {"finish", "decided"} PROVE IdsOf(stack', op) = IdsOf(stack, op)
    OBVIOUS
  <2>1. IdsOf(stack, op) = IdsOf(Below, op)
    BY <1>a DEF IdsOf, Loops
  <2>2. IdsOf(stack', op) = IdsOf(Below, op)
    BY DEF IdsOf, Loops
  <2> QED BY <2>1, <2>2
<1>e. \A f \in All(stack) : f.op \notin Loops => f \in All(stack')
  BY <1>a
<1>f. FrameOK(Top) /\ sessions[id].open /\ id \notin IdsOf(stack, "decided")
  <2>1. FrameOK(Top)
    BY <1>a, FramesOK
  <2>2. sessions[id].open
    BY <2>1 DEF FrameOK, Loop
  <2> QED BY <2>1, <2>2 DEF IInv, Staged
<1>1. TypeOK'
  BY <1>b, <1>c DEF IInv, TypeOK
<1>2. Typed'
  <2>1. \A g \in All(stack') : /\ g.op \in {"begin", "finish"} => g.graph \in GraphIds
                               /\ g.op = "begin" => g.list \subseteq Ids
                               /\ g.op = "process" => g.list \subseteq Ids
                               /\ g.op = "finish" => g.then \in Final
    BY <1>a DEF IInv, Typed, Loops
  <2> QED BY <1>c, <2>1 DEF Typed
<1>3. Framed'
  <2>1. ASSUME NEW g \in All(stack') PROVE Loop(g)' /\ Executor(g)' /\ Passed(g)'
    <3>1. CASE g \in All(Below)
      BY <1>a, <1>c, <3>1 DEF IInv, Framed
    <3>2. CASE g.op \in Loops \cup {"executor", "evaluate"} /\ Loop(g)' /\ Executor(g)'
      BY <3>2 DEF Passed, Loops
    <3> QED BY <3>1, <3>2
  <2> QED BY <2>1 DEF Framed
<1>4. Staged'
  <2>1. Staged
    BY DEF IInv
  <2> SUFFICES ASSUME NEW x \in Present
               PROVE ( /\ x \in IdsOf(stack, "decided") =>
                            /\ ~sessions[x].open /\ Spent(sessions[x])
                            /\ sessions[x].stage <= Len(Stages(sessions[x]))
                       /\ ~sessions[x].open /\ x \notin IdsOf(stack, "decided") =>
                            DOMAIN sessions[x].branches = {}
                       /\ sessions[x].launching => \E g \in All(stack) : g.op \in Loops /\ g.id = x )'
    BY <1>c DEF Staged
  <2>2. CASE x # id
    <3>1. sessions'[x] = sessions[x] /\ (x \in IdsOf(stack', "decided") <=> x \in IdsOf(stack, "decided"))
      BY <1>c, <1>d, <2>2
    <3>2. ~sessions[x].launching
      BY <1>a, <2>1, <2>2 DEF Staged
    <3> QED BY <2>1, <3>1, <3>2 DEF Staged, Spent, Stages
  <2>3. CASE x = id
    BY <1>c, <1>d, <1>f, <2>3
  <2> QED BY <2>2, <2>3
<1>5. Placed'
  <2>1. Ending' = Ending
    BY <1>d DEF Ending
  <2>2. \A g \in All(stack') : Concerns(g) => g.id \in Ids /\ status[g.id] \notin {"new", "queued"}
    <3>1. id \in Ids /\ status[id] \notin {"new", "queued"}
      BY DEF IInv, Placed, TypeOK
    <3> QED BY <1>a, <3>1 DEF IInv, Placed
  <2>3. Placed
    BY DEF IInv
  <2> QED BY <1>b, <1>c, <2>1, <2>2, <2>3 DEF Placed
<1>6. Queued'
  BY <1>b DEF IInv, Queued, Waiting
<1>7. Listed'
  <2>1. Listed
    BY DEF IInv
  <2>2. \A g \in All(stack) : g.op = "finish" => g \in All(stack')
    BY <1>e DEF Loops
  <2>3. \A h \in GraphIds : \A x \in byGraph[h] :
          \/ x \in broken
          \/ x \in Present /\ sessions'[x].graph = h
          \/ \E q \in All(stack') : q.op = "finish" /\ q.id = x /\ q.graph = h
    BY <1>c, <2>1, <2>2 DEF Listed
  <2>4. \A x \in Present : x \in byGraph[sessions'[x].graph]
    BY <1>c, <2>1 DEF Listed
  <2> QED BY <1>b, <1>c, <2>3, <2>4 DEF Listed
<1>8. Hooked'
  <2> SUFFICES ASSUME NEW h \in live PROVE Owed(h)'
    BY <1>b DEF Hooked
  <2>1. Owed(h)
    BY DEF IInv, Hooked
  <2>2. \A g \in All(stack) : g.op \in {"finish", "decided"} => g \in All(stack')
    BY <1>e DEF Loops
  <2>3. ASSUME /\ IsAt(h[1], h[2]) /\ h[3] \in DOMAIN sessions[h[1]].branches
               /\ sessions[h[1]].branches[h[3]].started /\ ~sessions[h[1]].branches[h[3]].settled
        PROVE  Owed(h)'
    <3>1. CASE h[1] = id
      BY <1>c, <2>3, <3>1 DEF Owed, IsAt, Kept
    <3>2. CASE h[1] # id
      BY <1>c, <2>3, <3>2 DEF Owed, IsAt
    <3> QED BY <3>1, <3>2
  <2> QED BY <2>1, <2>2, <2>3 DEF Owed
<1>9. Moving'
  <2>1. \A f \in All(stack) : f.op = "process" => f \in All(stack')
    BY <1>e DEF Loops
  <2>2. IdsOf(stack, "decided") \subseteq IdsOf(stack', "decided")
    BY <1>d
  <2>3. Again => Again'
    BY <1>c, <2>1, <2>2, AgainKept
  <2>4. Called => Called'
    BY <1>a DEF Called, Over
  <2>5. \A x : Listing(x) => Listing(x)'
    BY <2>1 DEF Listing
  <2>6. \A x : Deciding(x) => Deciding(x)'
    BY <2>2 DEF Deciding
  <2>7. \A x : ~AtTop(x) /\ (Starts(x) => x = id)
    BY <1>a DEF AtTop, InProcess, In, Loops, Starts
  <2>8. ASSUME Open, NEW x \in Present, x \notin late PROVE Fine(x)' \/ Attended(x)'
    <3>1. Fine(x) \/ Attended(x)
      BY <2>8 DEF IInv, Moving
    <3>2. ASSUME x # id, Fine(x) PROVE Fine(x)'
      <4>1. sessions'[x] = sessions[x] /\ now' = now
        BY <1>b, <1>c, <3>2
      <4> QED BY <3>2, <4>1 DEF Fine, Calm, NoDue, Verdict, Settled, Succeeded, Current, Stages, DueBranches
    <3>3. Fine(x) \/ Starts(x) => Fine(x)' \/ Attended(x)'
      BY <2>7, <2>8, <3>2
    <3> QED BY <2>3, <2>4, <2>5, <2>6, <2>7, <3>1, <3>3 DEF Attended
  <2> QED BY <1>b, <1>c, <2>8 DEF Moving
<1> QED BY <1>1, <1>2, <1>3, <1>4, <1>5, <1>6, <1>7, <1>8, <1>9 DEF IInv

LEMMA LaunchKeeps ==
  ASSUME IInv, Launch
  PROVE  IInv'
<1> PICK id : id = Top.id
  OBVIOUS
<1> PICK s : s = sessions[id]
  OBVIOUS
<1>a. /\ stack # <<>> /\ Top.op \in Loops
      /\ UNCHANGED <<now, phase, nextId, status, byGraph, queued, live, ghosts>>
  BY DEF Launch, In, Loops
<1>b. /\ Over(stack, Below, Top) /\ Top \in FrameRecord /\ Below \in Stacks
      /\ Linked(Below) /\ Link(Top, Under(Below)) /\ Apart(Below)
      /\ \A g \in All(Below) : ~Clash(Top, g)
      /\ All(stack) = All(Below) \cup {Top}
  BY <1>a, TopViews DEF IInv
<1>c. /\ Below # <<>> /\ Under(Below) \in All(Below) /\ OnProcess(Top, Under(Below))
      /\ (Top.op = "launch" => Under(Below).flag)
      /\ Has(Below, "process") /\ Inner(Below) = {}
      /\ \A f \in All(Below) : f.op \notin Loops \cup {"executor"}
  BY <1>a, LoopTop
<1>d. FrameOK(Top) /\ Loop(Top) /\ (Open' <=> Open) /\ now' = now /\ live' = live
  BY <1>a, <1>b, FramesOK DEF FrameOK, Open
\* A launch makes process turn again.
<1>e. ASSUME Top.op = "launch", All(Below) \subseteq All(stack') PROVE Again'
  <2>1. Turns(Under(Below)) /\ Under(Below) \in All(stack')
    BY <1>c, <1>e DEF Turns, OnProcess
  <2> PICK q : q = Under(Below)
    OBVIOUS
  <2> QED BY <2>1 DEF Again, Turns
<1>1. CASE ~IsAt(id, Top.stage)
  <2>1. stack' = Below /\ UNCHANGED <<now, phase, tables, ghosts>>
    BY <1>1, <1>a DEF Launch, tables, ghosts
  <2>2. id \notin Present
    BY <1>1, <1>a, <1>d DEF Loop, IsAt
  <2>3. \A x : ~AtTop(x)
    BY <1>a DEF AtTop, InProcess, In, Loops
  <2> QED BY <1>a, <2>1, <2>2, <2>3, Pops DEF Loops
<1>2. CASE IsAt(id, Top.stage)
  <2>a. /\ id \in Present /\ s.stage = Top.stage /\ s.open
        /\ Top.list \subseteq DOMAIN s.branches
        /\ s \in Session /\ SessionOK(s) /\ DOMAIN s.branches \subseteq Nat
    <3>1. id \in Present /\ s.stage = Top.stage
      BY <1>2 DEF IsAt
    <3>2. s.open /\ Top.list \subseteq DOMAIN s.branches
      BY <1>a, <1>d, <3>1 DEF Loop
    <3>3. s \in Session /\ SessionOK(s)
      BY <3>1, SessionTyped DEF IInv
    <3> QED BY <3>1, <3>2, <3>3, SessionFields
  <2>b. id \in Ids /\ id \in 0 .. MaxSessions
    BY <2>a, IdsTyped DEF IInv, TypeOK
  <2>c. id \notin IdsOf(stack, "decided") /\ id \notin IdsOf(stack, "finish")
    BY <2>a DEF IInv, Staged, Placed, Ending
  <2>d. ASSUME NEW v \in BOOLEAN,
               (v = FALSE /\ Top.list = {}) \/
               (v = TRUE /\ Top.list # {} /\ s.branches[Min(Top.list)].started)
        PROVE  \E t \in Session : /\ SessionOK(t) /\ Kept(s, t) /\ sessions' = With(id, t)
                                  /\ t.open = s.open /\ t.launching = v /\ t.branches = s.branches
    <3> PICK t : t = [s EXCEPT !.launching = v]
      OBVIOUS
    <3>1. sessions' = With(id, t)
      BY <1>2, <2>d DEF Launch
    <3>2. /\ t \in Session /\ SessionOK(t) /\ Kept(s, t)
          /\ t.open = s.open /\ t.launching = v /\ t.branches = s.branches
      <4>1. s \in Session
        BY <2>a
      <4>2. SessionOK(s) /\ (v => s.open)
        BY <2>a
      <4> QED BY <4>1, <4>2, LaunchingIs
    <3> QED BY <3>1, <3>2
  <2>1. CASE Top.list = {}
    <3> PICK e : e = Frame("evaluate", id)
      OBVIOUS
    <3>b. PICK t \in Session : /\ SessionOK(t) /\ Kept(s, t) /\ sessions' = With(id, t)
                              /\ t.open = s.open /\ ~t.launching /\ t.branches = s.branches
      BY <2>d, <2>1
    <3>a. stack' = <<e>> \o Below
      BY <1>2, <2>1 DEF Launch
    <3>c. e \in FrameRecord /\ e.op = "evaluate" /\ e.id = id /\ ~e.flag
      BY <2>b, FrameTyped DEF Frame, AboutSession
    <3>d. Over(stack', Below, e)
      BY <1>b, <3>a, <3>c, OverPush
    <3>e. /\ All(stack') = All(Below) \cup {e} /\ stack' \in Stacks /\ stack' # <<>>
          /\ Top' = e /\ Below' = Below
      BY <3>d DEF Over, Top, Below
    <3>1. Shaped'
      <4>1. Link(e, Under(Below))
        BY <1>c, <3>c DEF Link, AboutSession, Loops, OnProcess
      <4>2. \A g : ~Clash(e, g)
        BY <3>c DEF Clash, Loops
      <4> QED BY <1>b, <3>d, <4>1, <4>2 DEF Over, Shaped
    <3>2. Tops'
      BY <1>c, <3>c, <3>e DEF Tops, InProcess, In
    <3>3. Open => Excused'
      BY <1>c, <3>c, <3>d DEF Over, Excused
    <3>4. sessions'[id] = t
      BY <2>a, <3>b, SessionsNext
    <3>5. ASSUME Fine(id) PROVE Fine(id)'
      <4>1. Calm(id)'
        BY <2>a, <3>4, <3>b DEF Calm
      <4>2. NoDue(id)'
        BY <1>d, <3>4, <3>b, <3>5 DEF Fine, NoDue, DueBranches, Current, Stages, Kept
      <4>3. Verdict(t) = Verdict(s)
        BY <3>b DEF Verdict, Settled, Succeeded, Current, Stages, Kept
      <4>4. (Verdict(sessions[id]) = "none")'
        BY <3>4, <3>5, <4>3 DEF Fine, Verdict, Settled, Succeeded, Current, Stages
      <4> QED BY <4>1, <4>2, <4>4 DEF Fine
    <3>6. ASSUME Starts(id) PROVE AtTop(id)'
      <4>1. DueBranches(sessions[id]) = {}
        BY <1>b, <1>c, <2>1, <3>6 DEF Starts, Loops
      <4>2. NoDue(id)'
        BY <1>d, <3>4, <3>b, <4>1 DEF NoDue, DueBranches, Current, Stages, Kept
      <4>3. Calm(id)'
        BY <2>a, <3>4, <3>b DEF Calm
      <4> QED BY <3>c, <3>e, <4>2, <4>3 DEF AtTop
    <3>7. \A f \in All(stack') : f \in All(Below) \/
            (f.op \in Loops \cup {"executor", "evaluate"} /\ f.id = id /\ Loop(f)' /\ Executor(f)')
      BY <3>c, <3>e DEF Loop, Executor, Loops
    <3>8. Outer(Below) \subseteq Outer(stack') /\ All(Below) \subseteq All(stack')
      BY <3>d, <3>e, TopWithin
    <3>9. \A b \in DOMAIN t.branches :
            /\ s.branches[b].started => t.branches[b].started
            /\ t.branches[b].settled = s.branches[b].settled
      BY <3>b
    <3>10. Open /\ (Fine(id) \/ Starts(id)) => Fine(id)' \/ Attended(id)'
      BY <3>5, <3>6 DEF Attended
    <3>11. /\ id \in Present /\ Kept(sessions[id], t) /\ t.open = sessions[id].open
           /\ SessionOK(t) /\ sessions' = With(id, t) /\ stack' \in Stacks /\ ~t.launching
      BY <2>a, <3>b, <3>e
    <3>12. \A b \in DOMAIN t.branches :
            /\ sessions[id].branches[b].started => t.branches[b].started
            /\ t.branches[b].settled = sessions[id].branches[b].settled
      BY <3>9
    <3> QED BY <1>a, <3>1, <3>2, <3>3, <3>7, <3>8, <3>10, <3>11, <3>12, LaunchStep
  <2>2. CASE Top.list # {}
    <3> PICK b : b = Min(Top.list)
      OBVIOUS
    <3> PICK r : r = Rest(Top)
      OBVIOUS
    <3>a. b \in Top.list /\ b \in Nat /\ b \in DOMAIN s.branches
      BY <1>b, <2>2, <2>a, FirstOf
    <3>b. /\ r \in FrameRecord /\ r.op = Top.op /\ r.id = id /\ r.stage = Top.stage
          /\ r.graph = Top.graph /\ r.then = Top.then /\ r.flag = Top.flag
          /\ r.list = Top.list \ {b}
      BY <1>b, RestTyped
    <3>c. Link(r, Under(Below)) /\ \A g \in All(Below) : ~Clash(r, g)
      <4>1. Link(r, Under(Below))
        BY <1>a, <1>b, <3>b DEF Link, AboutSession, Loops, OnProcess
      <4>2. \A g \in All(Below) : ~Clash(r, g)
        BY <1>a, <1>c, <3>b DEF Clash, Loops
      <4> QED BY <4>1, <4>2
    \* What is due stays on the list.
    <3>d. ASSUME NEW t, t = sessions'[id], Kept(s, t), r \in All(stack'), All(Below) \subseteq All(stack'),
                 \A c \in DOMAIN s.branches :
                   /\ s.branches[c].started => t.branches[c].started
                   /\ c = b => t.branches[c].started,
                 Fine(id) \/ Starts(id)
          PROVE  Attended(id)'
      <4>1. CASE Top.op = "launch"
        BY <1>e, <3>d, <4>1 DEF Attended
      <4>2. CASE Top.op = "due"
        <5>1. DueBranches(s) \subseteq Top.list
          BY <1>b, <1>c, <3>d DEF Starts, Loops, Fine, NoDue
        <5>2. DueBranches(t)' \subseteq DueBranches(s) \ {b}
          BY <1>d, <3>d DEF DueBranches, Current, Stages, Kept
        <5>3. DueBranches(sessions[id])' \subseteq r.list
          BY <3>b, <3>d, <5>1, <5>2
        <5> QED BY <3>b, <3>d, <4>2, <5>3 DEF Attended, Starts
      <4> QED BY <1>a, <4>1, <4>2 DEF Loops
    <3>1. CASE s.open /\ ~s.branches[b].started
      <4> PICK t : t = Starting(s, b)
        OBVIOUS
      <4> PICK x : x = [Frame("executor", id) EXCEPT !.stage = Top.stage, !.list = {b}]
        OBVIOUS
      <4>a. sessions' = With(id, t) /\ stack' = <<x>> \o (<<r>> \o Below)
        BY <1>2, <2>2, <3>1 DEF Launch
      <4>b. /\ t \in Session /\ SessionOK(t) /\ Kept(s, t)
            /\ t.open /\ t.launching
            /\ t.branches[b].started /\ t.branches[b].settled = s.branches[b].settled
            /\ \A c \in DOMAIN s.branches \ {b} : t.branches[c] = s.branches[c]
        BY <2>a, <3>a, StartingIs
      <4>c. x \in FrameRecord /\ x.op = "executor" /\ x.id = id /\ x.stage = Top.stage /\ x.list = {b}
        <5>1. Frame("executor", id) \in FrameRecord /\ Frame("executor", id).op = "executor"
                /\ Frame("executor", id).id = id
          BY <2>b, FrameTyped DEF Frame, UserFrames
        <5>2. Top.stage \in Nat /\ {b} \in SUBSET Nat
          BY <1>b, <3>a DEF FrameRecord
        <5> QED BY <5>1, <5>2 DEF FrameRecord
      <4>d. stack' = <<x, r>> \o Below
        BY <1>b, <3>b, <4>a, <4>c, TwoPushed
      <4>e. PICK u : Over(u, Below, r) /\ Over(stack', u, x)
        BY <1>b, <3>b, <4>c, <4>d, OverTwo
      <4>f. /\ All(u) = All(Below) \cup {r} /\ All(stack') = All(Below) \cup {r, x}
            /\ stack' \in Stacks /\ stack' # <<>> /\ Top' = x /\ Below' = u /\ Under(u) = r
        BY <4>e DEF Over, Top, Below
      <4>g. sessions'[id] = t /\ Present' = Present
        BY <2>a, <4>a, SessionsNext
      <4>1. Shaped'
        <5>1. Link(x, r)
          BY <1>a, <3>b, <4>c DEF Link, AboutSession, Loops, UserFrames
        <5>2. \A g \in All(u) : ~Clash(x, g)
          BY <1>a, <1>c, <3>b, <4>c, <4>f DEF Clash, Loops
        <5> QED BY <1>b, <3>c, <4>e, <4>f, <5>1, <5>2 DEF Over, Shaped
      <4>2. Tops'
        BY <1>c, <3>b, <4>b, <4>c, <4>f, <4>g DEF Tops, InProcess, In, Loops
      <4>3. Open => Excused'
        <5>1. Inner(stack') = {r, x}
          <6>1. Inner(u) = {r} /\ Has(u, "process")
            BY <1>c, <4>e DEF Over, Has
          <6> QED BY <4>e, <6>1 DEF Over
        <5>2. Top.op = "launch" => Again'
          BY <1>e, <4>f
        <5>3. Top.op = "due" => Delayed(stack')
          BY <3>b, <4>c, <4>e, <4>f DEF Over
        <5> QED BY <1>a, <3>b, <5>1, <5>2, <5>3 DEF Excused, Loops
      <4>4. <<id, Top.stage, b>> \notin live
        <5> SUFFICES ASSUME <<id, Top.stage, b>> \in live PROVE FALSE
          OBVIOUS
        <5> PICK h : h = <<id, Top.stage, b>>
          OBVIOUS
        <5>1. Owed(h) /\ h[1] = id /\ h[3] = b
          BY DEF IInv, Hooked
        <5>2. \A f \in All(stack) : f.op \in {"finish", "decided"} => f.id # id
          BY <2>c DEF IdsOf
        <5> QED BY <3>1, <5>1, <5>2 DEF Owed
      <4>5. Executor(x)'
        <5>1. Min({b}) = b
          BY <3>a, MinOne
        <5>2. b \in DOMAIN t.branches /\ t.stage = Top.stage /\ Top.stage \in Nat
          BY <1>b, <2>a, <3>a, <4>b DEF Kept, FrameRecord
        <5> QED BY <1>d, <4>4, <4>b, <4>c, <4>g, <5>1, <5>2 DEF Executor
      <4>6. Loop(r)'
        BY <2>a, <3>b, <4>b, <4>g DEF Loop, Kept
      <4>7. \A f \in All(stack') : f \in All(Below) \/
              (f.op \in Loops \cup {"executor", "evaluate"} /\ f.id = id /\ Loop(f)' /\ Executor(f)')
        <5>1. Executor(r)' /\ Loop(x)'
          BY <1>a, <3>b, <4>c DEF Executor, Loop, Loops
        <5> QED BY <1>a, <3>b, <4>c, <4>f, <4>5, <4>6, <5>1
      <4>8. Outer(Below) \subseteq Outer(stack') /\ All(Below) \subseteq All(stack')
        <5>1. Outer(Below) \subseteq Outer(u) /\ Outer(u) \subseteq Outer(stack')
          BY <4>e, TopWithin
        <5> QED BY <4>f, <5>1
      <4>9. \A c \in DOMAIN t.branches :
              /\ s.branches[c].started => t.branches[c].started
              /\ t.branches[c].settled = s.branches[c].settled
        BY <4>b DEF Kept
      <4>10. Open /\ (Fine(id) \/ Starts(id)) => Fine(id)' \/ Attended(id)'
        <5>1. r \in All(stack') /\ All(Below) \subseteq All(stack')
          BY <4>f
        <5>2. \A c \in DOMAIN s.branches : /\ s.branches[c].started => t.branches[c].started
                                           /\ c = b => t.branches[c].started
          BY <4>b
        <5> QED BY <3>d, <4>b, <4>g, <5>1, <5>2
      <4>11. \E g \in All(stack') : g.op \in Loops /\ g.id = id
        BY <1>a, <3>b, <4>f
      <4>12. t.open = s.open
        BY <2>a, <4>b, SessionFields
      <4>13. /\ id \in Present /\ Kept(sessions[id], t) /\ t.open = sessions[id].open
             /\ t \in Session /\ SessionOK(t) /\ sessions' = With(id, t) /\ stack' \in Stacks
        BY <2>a, <4>a, <4>b, <4>f, <4>12
      <4>14. \A c \in DOMAIN t.branches :
              /\ sessions[id].branches[c].started => t.branches[c].started
              /\ t.branches[c].settled = sessions[id].branches[c].settled
        BY <4>9
      <4> QED BY <1>a, <4>1, <4>2, <4>3, <4>7, <4>8, <4>10, <4>11, <4>13, <4>14, LaunchStep
    <3>2. CASE ~(s.open /\ ~s.branches[b].started)
      <4>b. PICK t \in Session : /\ SessionOK(t) /\ Kept(s, t) /\ sessions' = With(id, t)
                                /\ t.open = s.open /\ t.launching /\ t.branches = s.branches
        BY <2>a, <2>d, <2>2, <3>2
      <4>a. stack' = <<r>> \o Below
        BY <1>2, <2>2, <3>2 DEF Launch
      <4>e. Over(stack', Below, r)
        BY <1>b, <3>b, <4>a, OverPush
      <4>f. /\ All(stack') = All(Below) \cup {r}
            /\ stack' \in Stacks /\ stack' # <<>> /\ Top' = r /\ Below' = Below
        BY <4>e DEF Over, Top, Below
      <4>g. sessions'[id] = t /\ Present' = Present
        BY <2>a, <4>b, SessionsNext
      <4>1. Shaped'
        BY <1>b, <3>c, <4>e DEF Over, Shaped
      <4>2. Tops'
        BY <1>a, <1>c, <3>b, <4>b, <4>f, <4>g DEF Tops, InProcess, In, Loops
      <4>3. Open => Excused'
        <5>1. Inner(stack') = {r}
          BY <1>c, <4>e DEF Over
        <5> QED BY <1>a, <3>b, <5>1 DEF Excused
      <4>6. Loop(r)'
        BY <2>a, <3>b, <4>b, <4>g DEF Loop, Kept
      <4>7. \A f \in All(stack') : f \in All(Below) \/
              (f.op \in Loops \cup {"executor", "evaluate"} /\ f.id = id /\ Loop(f)' /\ Executor(f)')
        <5>1. Executor(r)'
          BY <1>a, <3>b DEF Executor, Loops
        <5> QED BY <1>a, <3>b, <4>f, <4>6, <5>1
      <4>8. Outer(Below) \subseteq Outer(stack') /\ All(Below) \subseteq All(stack')
        BY <4>e, <4>f, TopWithin
      <4>9. \A c \in DOMAIN t.branches :
              /\ s.branches[c].started => t.branches[c].started
              /\ t.branches[c].settled = s.branches[c].settled
        BY <4>b
      <4>10. Open /\ (Fine(id) \/ Starts(id)) => Fine(id)' \/ Attended(id)'
        <5>1. r \in All(stack') /\ All(Below) \subseteq All(stack')
          BY <4>f
        <5>2. s.branches[b].started
          BY <2>a, <3>2
        <5>3. \A c \in DOMAIN s.branches : /\ s.branches[c].started => t.branches[c].started
                                           /\ c = b => t.branches[c].started
          BY <4>b, <5>2
        <5> QED BY <3>d, <4>b, <4>g, <5>1, <5>3
      <4>11. \E g \in All(stack') : g.op \in Loops /\ g.id = id
        BY <1>a, <3>b, <4>f
      <4>13. /\ id \in Present /\ Kept(sessions[id], t) /\ t.open = sessions[id].open
             /\ t \in Session /\ SessionOK(t) /\ sessions' = With(id, t) /\ stack' \in Stacks
        BY <2>a, <4>b, <4>f
      <4>14. \A c \in DOMAIN t.branches :
              /\ sessions[id].branches[c].started => t.branches[c].started
              /\ t.branches[c].settled = sessions[id].branches[c].settled
        BY <4>9
      <4> QED BY <1>a, <4>1, <4>2, <4>3, <4>7, <4>8, <4>10, <4>11, <4>13, <4>14, LaunchStep
    <3> QED BY <3>1, <3>2
  <2> QED BY <2>1, <2>2
<1> QED BY <1>1, <1>2

-----------------------------------------------------------------------------
\* The invariant.

LEMMA InitKeeps ==
  ASSUME Init
  PROVE  IInv
<1>1. /\ Present = {} /\ DOMAIN sessions = {} /\ All(stack) = {} /\ Inner(stack) = {}
      /\ stack \in Stacks /\ Linked(stack) /\ Apart(stack) /\ ~Delayed(stack)
  BY EmptyStack DEF Init, Present
<1>2. /\ \A op : IdsOf(stack, op) = {}
      /\ MaxSessions \in Nat \ {0} /\ MaxNow \in Nat
  BY <1>1, Constants_Assumption DEF IdsOf
<1>3. TypeOK
  BY <1>1, <1>2 DEF Init, TypeOK, Ids
<1>4. Typed
  <2>1. sessions \in [Present -> Session]
    BY <1>1 DEF Init, Present
  <2> QED BY <1>1, <2>1 DEF Typed
<1>5. Shaped
  BY <1>1 DEF Shaped
<1>6. Framed
  BY <1>1 DEF Init, Framed, Tops, InProcess, In
<1>7. Staged
  BY <1>1 DEF Staged
<1>8. Placed
  BY <1>1, <1>2 DEF Init, Placed, Ending, Ids
<1>9. Queued
  BY DEF Init, Queued, Waiting
<1>10. Listed
  BY <1>1 DEF Init, Listed
<1>11. Hooked
  BY DEF Init, Hooked
<1>12. Moving
  BY <1>1 DEF Moving, Excused
<1> QED BY <1>3, <1>4, <1>5, <1>6, <1>7, <1>8, <1>9, <1>10, <1>11, <1>12 DEF IInv

LEMMA CallsKeep ==
  ASSUME IInv,
         \/ \E g \in GraphIds, policy \in Policies : Start(g, policy)
         \/ \E id \in Ids : Cancel(id)
         \/ \E id \in Present, ok \in BOOLEAN :
              \E b \in DOMAIN sessions[id].branches : Settle(id, b, ok)
         \/ \E step \in 0 .. MaxNow : Tick(step)
         \/ Dispose \/ Drop
         \/ \E gives \in BOOLEAN : ExecutorReturns(gives)
         \/ ExecutorPanics \/ HookEnds
  PROVE  IInv'
<1>1. ASSUME NEW g \in GraphIds, NEW policy \in Policies, Start(g, policy) PROVE IInv'
  BY <1>1, StartKeeps
<1>2. ASSUME NEW id \in Ids, Cancel(id) PROVE IInv'
  BY <1>2, CancelKeeps
<1>3. ASSUME NEW id \in Present, NEW ok \in BOOLEAN, NEW b \in DOMAIN sessions[id].branches,
             Settle(id, b, ok)
      PROVE  IInv'
  BY <1>3, SettleKeeps
<1>4. ASSUME NEW step \in 0 .. MaxNow, Tick(step) PROVE IInv'
  BY <1>4, TickKeeps
<1>5. CASE Dispose
  BY <1>5, DisposeKeeps
<1>6. CASE Drop
  BY <1>6, DropKeeps
<1>7. ASSUME NEW gives \in BOOLEAN, ExecutorReturns(gives) PROVE IInv'
  BY <1>7, ExecutorReturnsKeeps
<1>8. CASE ExecutorPanics
  BY <1>8, ExecutorPanicsKeeps
<1>9. CASE HookEnds
  BY <1>9, HookEndsKeeps
<1> QED BY <1>1, <1>2, <1>3, <1>4, <1>5, <1>6, <1>7, <1>8, <1>9

LEMMA StagesKeep ==
  ASSUME IInv,
         \/ BeginCancel \/ Begin \/ CancelById \/ FinishHook \/ FinishEnd
         \/ Evaluate \/ DecidedHook \/ DecidedEnd
  PROVE  IInv'
<1>1. CASE BeginCancel
  BY <1>1, BeginCancelKeeps
<1>2. CASE Begin
  BY <1>2, BeginKeeps
<1>3. CASE CancelById
  BY <1>3, CancelByIdKeeps
<1>4. CASE FinishHook
  BY <1>4, FinishHookKeeps
<1>5. CASE FinishEnd
  BY <1>5, FinishEndKeeps
<1>6. CASE Evaluate
  BY <1>6, EvaluateKeeps
<1>7. CASE DecidedHook
  BY <1>7, DecidedHookKeeps
<1>8. CASE DecidedEnd
  BY <1>8, DecidedEndKeeps
<1> QED BY <1>1, <1>2, <1>3, <1>4, <1>5, <1>6, <1>7, <1>8

LEMMA ProcessKeeps ==
  ASSUME IInv, CallProcess \/ Pick \/ OpenStage \/ Dues \/ EvaluateAgain \/ Compare \/ Launch
  PROVE  IInv'
<1>1. CASE CallProcess
  BY <1>1, CallProcessKeeps
<1>2. CASE Pick
  BY <1>2, PickKeeps
<1>3. CASE OpenStage
  BY <1>3, OpenStageKeeps
<1>4. CASE Dues
  BY <1>4, DuesKeeps
<1>5. CASE EvaluateAgain
  BY <1>5, EvaluateAgainKeeps
<1>6. CASE Compare
  BY <1>6, CompareKeeps
<1>7. CASE Launch
  BY <1>7, LaunchKeeps
<1> QED BY <1>1, <1>2, <1>3, <1>4, <1>5, <1>6, <1>7

\* A step that changes nothing keeps the invariant.
LEMMA StutterKeeps ==
  ASSUME IInv, UNCHANGED vars
  PROVE  IInv'
<1>a. /\ now' = now /\ phase' = phase /\ nextId' = nextId /\ status' = status
      /\ sessions' = sessions /\ byGraph' = byGraph /\ queued' = queued /\ live' = live
      /\ stack' = stack /\ late' = late /\ broken' = broken
  BY DEF vars, tables, ghosts
<1>1. stack' \in Stacks /\ Shaped' /\ Tops'
  BY <1>a DEF IInv, Typed, Shaped, Framed, Tops, Top, Below, InProcess, In, Present
<1>2. Moving'
  <2>1. Called' <=> Called
    BY <1>a DEF Called
  <2>2. Again' <=> Again
    BY <1>a DEF Again, Turns, WillChange, Changed, IsAt, Present
  <2>3. Excused' <=> Excused
    BY <1>a, <2>2 DEF Excused
  <2>4. ASSUME NEW x PROVE (Fine(x)' <=> Fine(x)) /\ (Attended(x)' <=> Attended(x))
    <3>1. (Calm(x)' <=> Calm(x)) /\ (NoDue(x)' <=> NoDue(x))
      BY <1>a DEF Calm, NoDue, DueBranches, Current, Stages
    <3>2. Fine(x)' <=> Fine(x)
      BY <1>a, <3>1 DEF Fine, Verdict, Settled, Succeeded, Current, Stages
    <3>3. (Deciding(x)' <=> Deciding(x)) /\ (Listing(x)' <=> Listing(x))
      BY <1>a DEF Deciding, Listing
    <3>4. Starts(x)' <=> Starts(x)
      BY <1>a DEF Starts, DueBranches, Current, Stages
    <3>5. AtTop(x)' <=> AtTop(x)
      BY <1>a, <3>1 DEF AtTop, Top, InProcess, In
    <3> QED BY <2>1, <2>2, <3>2, <3>3, <3>4, <3>5 DEF Attended
  <2> QED BY <1>a, <2>3, <2>4 DEF IInv, Moving, Open, Present
<1>3. UNCHANGED <<now, phase, tables, ghosts>>
  BY DEF vars
<1> QED BY <1>a, <1>1, <1>2, <1>3, StackOnly

\* The invariant holds in every state.
LEMMA InvariantHolds == Spec => []IInv
<1>1. Init => IInv
  BY InitKeeps
<1>2. ASSUME IInv, [Next]_vars PROVE IInv'
  <2>1. CASE UNCHANGED vars
    BY <1>2, <2>1, StutterKeeps
  <2>2. CASE Next
    BY <1>2, <2>2, CallsKeep, StagesKeep, ProcessKeeps DEF Next
  <2> QED BY <1>2, <2>1, <2>2
<1> QED BY <1>1, <1>2, PTL DEF Spec

-----------------------------------------------------------------------------
\* What the invariant says of the properties.

\* Every variable of the runtime keeps its type, whatever the application calls.
THEOREM TypesHold == Spec => []TypeOK
<1>1. IInv => TypeOK
  BY DEF IInv
<1> QED BY <1>1, InvariantHolds, PTL

LEMMA NothingInProgress ==
  ASSUME IInv, AtRest
  PROVE  All(stack) = {} /\ Outer(stack) = {} /\ \A op : IdsOf(stack, op) = {}
<1>1. All(stack) = {} /\ Outer(stack) = {}
  BY EmptyStack DEF AtRest
<1> QED BY <1>1 DEF IdsOf

\* start, cancel, finish_session and activate_queued leave the tables and the
\* tickets telling one story, for any graphs, identifiers and reentrant calls.
THEOREM SessionsAgreeHolds == Spec => []SessionsAgree
<1>1. ASSUME IInv PROVE SessionsAgree
  <2>1. TypeOK /\ Placed /\ Queued /\ Listed
    BY <1>1 DEF IInv
  <2>2. ASSUME AtRest, Open
        PROVE  /\ \A id \in Ids : status[id] = "running" <=> id \in Present \cup broken
               /\ \A g \in GraphIds :
                    /\ \A id \in byGraph[g] \ broken : id \in Present /\ sessions[id].graph = g
                    /\ Waiting(g) # {} => byGraph[g] # {}
               /\ \A id \in Present : id \in byGraph[sessions[id].graph]
               /\ \A id \in Ids : status[id] = "queued" => \E g \in GraphIds : id \in queued[g]
    <3>1. All(stack) = {} /\ Ending = {}
      BY <1>1, <2>2, NothingInProgress DEF Ending
    <3>2. \A id \in Ids : status[id] = "running" <=> id \in Present \cup broken
      BY <2>1, <2>2, <3>1 DEF Placed
    <3>3. \A g \in GraphIds : \A id \in byGraph[g] \ broken : id \in Present /\ sessions[id].graph = g
      BY <2>1, <3>1 DEF Listed
    <3>4. \A g \in GraphIds : Waiting(g) # {} => byGraph[g] # {}
      BY <2>1 DEF Queued
    <3>5. \A id \in Present : id \in byGraph[sessions[id].graph]
      BY <2>1 DEF Listed
    <3>6. \A id \in Ids : status[id] = "queued" => \E g \in GraphIds : id \in queued[g]
      BY <2>1, <3>2 DEF Queued
    <3> QED BY <3>2, <3>3, <3>4, <3>5, <3>6
  <2> QED BY <2>1, <2>2 DEF SessionsAgree
<1> QED BY <1>1, InvariantHolds, PTL

\* Once the calls have ended no session waits for a step nobody will take: its
\* stage is open, nothing in it is due and nothing it settled is undecided.
THEOREM NothingStallsHolds == Spec => []NothingStalls
<1>1. ASSUME IInv PROVE NothingStalls
  <2> SUFFICES ASSUME AtRest, Open, NEW id \in Present \ late PROVE Fine(id)
    BY DEF NothingStalls, Fine, Calm, NoDue
  <2>1. All(stack) = {} /\ Outer(stack) = {} /\ id \notin IdsOf(stack, "decided")
    BY <1>1, NothingInProgress
  <2>2. ~Called /\ ~Again /\ ~Deciding(id) /\ ~Starts(id) /\ ~Listing(id)
    BY <2>1 DEF Called, Again, Deciding, Starts, Listing
  <2>3. ~AtTop(id)
    BY DEF AtTop, AtRest
  <2> QED BY <1>1, <2>2, <2>3 DEF IInv, Moving, Attended
<1> QED BY <1>1, InvariantHolds, PTL

\* Every cancel hook still installed at rest belongs to a branch that may still
\* need it: the others were called or released, whatever the hooks did meanwhile.
THEOREM HooksReleasedHolds == Spec => []HooksReleased
<1>1. ASSUME IInv PROVE HooksReleased
  <2> SUFFICES ASSUME AtRest, NEW h \in live
               PROVE IsAt(h[1], h[2]) /\ ~sessions[h[1]].branches[h[3]].settled
    BY DEF HooksReleased
  <2>1. All(stack) = {}
    BY <1>1, NothingInProgress
  <2>2. Owed(h)
    BY <1>1 DEF IInv, Hooked
  <2> QED BY <2>1, <2>2 DEF Owed
<1> QED BY <1>1, InvariantHolds, PTL

-----------------------------------------------------------------------------
\* The status of a ticket.

Settles == \A id \in Ids : status[id] \in Final => status'[id] = status[id]

LEMMA CallsSettle ==
  ASSUME IInv,
         \/ \E g \in GraphIds, policy \in Policies : Start(g, policy)
         \/ \E id \in Ids : Cancel(id)
         \/ Dispose \/ Drop
  PROVE  Settles
<1>a. /\ TypeOK /\ Placed /\ Queued /\ status \in [Ids -> Final \cup {"new", "queued", "running"}]
      /\ \A g \in GraphIds : queued[g] \subseteq Ids
  BY DEF IInv, TypeOK
<1>b. \A id \in Ids : status[id] \in Final => status[id] \notin {"new", "queued", "running"}
  BY DEF Final
\* A step that cancels sessions running or waiting.
<1>c. ASSUME NEW S, \A id \in S : id \in Present \/ \E g \in GraphIds : id \in queued[g],
             status' = [id \in Ids |-> IF id \in S THEN "cancelled" ELSE status[id]]
      PROVE  Settles
  <2> SUFFICES ASSUME NEW id \in Ids, status[id] \in Final PROVE status'[id] = status[id]
    BY DEF Settles
  <2>1. id \in S => status[id] = "cancelled"
    <3>1. id \in Present => status[id] = "running"
      BY <1>a DEF Placed
    <3>2. \A g \in GraphIds : id \in queued[g] => status[id] \in {"queued", "cancelled"}
      BY <1>a DEF Queued
    <3> QED BY <1>b, <1>c, <3>1, <3>2
  <2> QED BY <1>c, <2>1
<1>1. ASSUME NEW g \in GraphIds, NEW policy \in Policies, Start(g, policy) PROVE Settles
  <2>1. CASE policy = "queue" /\ byGraph[g] # {}
    <3>1. nextId \in Ids /\ status' = [status EXCEPT ![nextId] = "queued"]
      BY <1>1, <2>1 DEF Start
    <3>2. status[nextId] = "new"
      BY <1>a, <3>1 DEF Placed, Ids
    <3> QED BY <1>a, <1>b, <3>1, <3>2 DEF Settles
  <2>2. CASE ~(policy = "queue" /\ byGraph[g] # {}) /\ policy = "restart"
    <3>1. status' = [id \in Ids |-> IF id \in queued[g] THEN "cancelled" ELSE status[id]]
      BY <1>1, <2>2 DEF Start
    <3> QED BY <1>c, <3>1
  <2>3. CASE ~(policy = "queue" /\ byGraph[g] # {}) /\ policy # "restart"
    <3>1. status' = status
      BY <1>1, <2>3 DEF Start
    <3> QED BY <3>1 DEF Settles
  <2> QED BY <2>1, <2>2, <2>3
<1>2. ASSUME NEW id \in Ids, Cancel(id) PROVE Settles
  <2>1. CASE id \in Present
    <3>1. status' = status
      BY <1>2, <2>1 DEF Cancel
    <3> QED BY <3>1 DEF Settles
  <2>2. CASE id \notin Present
    <3>1. status[id] = "queued" /\ status' = [status EXCEPT ![id] = "cancelled"]
      BY <1>2, <2>2 DEF Cancel
    <3> QED BY <1>a, <1>b, <3>1 DEF Settles
  <2> QED BY <2>1, <2>2
<1>3. CASE Dispose
  <2>1. PICK reached \in (IF Held \cap Present = {} THEN {Present}
                          ELSE SUBSET (Present \ (Held \cap Present))) :
          status' = [id \in Ids |->
            IF id \in reached \cup (IF Held \cap Present = {}
                                    THEN UNION {queued[g] : g \in GraphIds} ELSE {})
            THEN "cancelled" ELSE status[id]]
    BY <1>3 DEF Dispose
  <2> PICK S : S = reached \cup (IF Held \cap Present = {}
                                 THEN UNION {queued[g] : g \in GraphIds} ELSE {})
    OBVIOUS
  <2>2. reached \subseteq Present
    OBVIOUS
  <2>3. \A id \in S : id \in Present \/ \E g \in GraphIds : id \in queued[g]
    BY <2>2
  <2>4. status' = [id \in Ids |-> IF id \in S THEN "cancelled" ELSE status[id]]
    BY <2>1
  <2> QED BY <1>c, <2>3, <2>4
<1>4. CASE Drop
  <2> PICK S : S = Present \cup UNION {queued[g] : g \in GraphIds}
    OBVIOUS
  <2>1. \A id \in S : id \in Present \/ \E g \in GraphIds : id \in queued[g]
    OBVIOUS
  <2>2. status' = [id \in Ids |-> IF id \in S THEN "cancelled" ELSE status[id]]
    BY <1>4 DEF Drop
  <2> QED BY <1>c, <2>1, <2>2
<1> QED BY <1>1, <1>2, <1>3, <1>4

LEMMA BeginSettles ==
  ASSUME IInv, Begin
  PROVE  Settles
<1>1. CASE nextId \notin Ids
  BY <1>1 DEF Begin, Settles
<1>2. CASE nextId \in Ids
  <2>1. status' = [status EXCEPT ![nextId] = "running"]
    BY <1>2 DEF Begin
  <2>2. status[nextId] = "new" /\ status \in [Ids -> Final \cup {"new", "queued", "running"}]
    BY <1>2 DEF IInv, TypeOK, Placed, Ids
  <2> QED BY <1>2, <2>1, <2>2 DEF Settles, Final
<1> QED BY <1>1, <1>2

LEMMA FinishEndSettles ==
  ASSUME IInv, FinishEnd
  PROVE  Settles
<1> PICK id : id = Top.id
  OBVIOUS
<1> PICK ended : ended = [status EXCEPT ![id] = Top.then]
  OBVIOUS
<1>1. stack # <<>> /\ Top.op = "finish"
  BY DEF FinishEnd, In
<1>2. /\ id \in Ids /\ status[id] = "running" /\ Top.graph \in GraphIds
      /\ status \in [Ids -> Final \cup {"new", "queued", "running"}]
  BY <1>1, FinishTop DEF IInv, TypeOK
<1>3. \A x \in Ids : status[x] \in Final => ended[x] = status[x]
  BY <1>2 DEF Final
<1>4. CASE byGraph[Top.graph] \ {id} = {} /\ Waiting(Top.graph) # {}
  <2> PICK next : next = Min(Waiting(Top.graph))
    OBVIOUS
  <2>1. status' = [ended EXCEPT ![next] = "running"]
    BY <1>4 DEF FinishEnd, Activates
  <2>2. next \in Waiting(Top.graph)
    <3>1. Waiting(Top.graph) \in SUBSET Nat
      BY <1>2, IdsTyped DEF Waiting, IInv, TypeOK
    <3> QED BY <1>4, <3>1, MinIs
  <2>3. next \in Ids /\ status[next] = "queued"
    BY <1>2, <2>2 DEF Waiting, IInv, TypeOK
  <2>4. ended \in [Ids -> Final \cup {"new", "queued", "running"} \cup {Top.then}]
    BY <1>2
  <2> QED BY <1>3, <2>1, <2>3, <2>4 DEF Settles, Final
<1>5. CASE ~(byGraph[Top.graph] \ {id} = {} /\ Waiting(Top.graph) # {})
  <2>1. status' = ended
    BY <1>5 DEF FinishEnd, Activates
  <2> QED BY <1>3, <2>1 DEF Settles
<1> QED BY <1>4, <1>5

LEMMA OthersSettle ==
  ASSUME \/ \E id \in Present, ok \in BOOLEAN :
              \E b \in DOMAIN sessions[id].branches : Settle(id, b, ok)
         \/ \E step \in 0 .. MaxNow : Tick(step)
         \/ \E gives \in BOOLEAN : ExecutorReturns(gives)
         \/ ExecutorPanics \/ HookEnds
         \/ BeginCancel \/ CancelById \/ FinishHook
         \/ Evaluate \/ DecidedHook \/ DecidedEnd
         \/ CallProcess \/ Pick \/ OpenStage \/ Dues \/ EvaluateAgain \/ Compare \/ Launch
         \/ UNCHANGED vars
  PROVE  Settles
<1>1. status' = status
  BY DEF Settle, Tick, ExecutorReturns, ExecutorPanics, HookEnds, BeginCancel, CancelById,
         FinishHook, Evaluate, DecidedHook, DecidedEnd, CallProcess, Pick, OpenStage, Dues,
         EvaluateAgain, Compare, Launch, vars, tables
<1> QED BY <1>1 DEF Settles

\* No step of the runtime or of a callback changes the status of a ticket whose
\* session has ended.
THEOREM StatusIsFinalHolds == Spec => StatusIsFinal
<1>1. ASSUME IInv, [Next]_vars PROVE Settles
  <2>1. CASE UNCHANGED vars
    BY <2>1, OthersSettle
  <2>2. CASE Next
    BY <1>1, <2>2, CallsSettle, BeginSettles, FinishEndSettles, OthersSettle DEF Next
  <2> QED BY <1>1, <2>1, <2>2
<1>2. ASSUME IInv, [Next]_vars
      PROVE  [\A id \in Ids : status[id] \in Final => status'[id] = status[id]]_status
  BY <1>1, <1>2 DEF Settles
<1> QED BY <1>2, InvariantHolds, PTL DEF Spec, StatusIsFinal
=============================================================================
