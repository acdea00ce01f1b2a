--------------------------- MODULE Command_proofs ---------------------------
(***************************************************************************)
(* Proofs about Command for every policy, every number of runs, every      *)
(* nesting of callbacks and every application (Reentry, MayRaise).         *)
(*                                                                         *)
(*   TypeOK   is inductive by itself                                       *)
(*   Begun    a run whose executor is in progress was started, and has     *)
(*            neither a hook nor, unless a callback pumps, an outcome      *)
(*   Placed   a running run is either active or about to be marked as      *)
(*            cancelled, a queued one is either in the queue or about to   *)
(*            be started; a run is in one of these places only, once       *)
(*   Prompt   unless the policy is latest-only, a run about to be started  *)
(*            is started by the very next step on the UI thread            *)
(*   Chained  what is under a call in progress, hence which exceptions     *)
(*            drop which calls, and who starts a waiting run               *)
(*   InOrder  the runs of an ordered Command wait in the order of their    *)
(*            ids, behind the one about to be started                      *)
(*   Told, Stopped, Due   what an ended run has left behind                *)
(*                                                                         *)
(* The handler of an executor that raises does not test whether the run    *)
(* has ended meanwhile.  Placed, Told and Stopped hold all the same; that  *)
(* an ended run stays as it is needs RaiseIsSafe.                          *)
(***************************************************************************)
EXTENDS Command, TLAPS, FiniteSetTheorems, SequenceTheorems

\* The runs with a call op in progress in the stack s.
Runs(s, op) == {s[i].run : i \in {j \in DOMAIN s : s[j].op = op}}

\* No run has two calls op in progress.
Once(s, op) == \A i, j \in DOMAIN s :
                 s[i].op = op /\ s[j].op = op /\ s[i].run = s[j].run => i = j

\* The tickets say where the runs are: active or about to be marked, waiting or
\* about to be started, or not made yet.
Where(tickets_, active_, marked, waiting, starting, next) ==
  /\ \A id \in RunIds : /\ tickets_[id] = "running" <=> id \in active_ \cup marked
                        /\ tickets_[id] = "queued" <=> id \in waiting \cup starting
                        /\ id >= next => tickets_[id] = "new"
  /\ active_ \cap marked = {}
  /\ waiting \cap starting = {}

Placed ==
  /\ Where(status, active, Runs(todo, "markCancelled"), ToSet(queue), Runs(todo, "start"),
           nextRunId)
  /\ IsInjective(queue)
  /\ Once(todo, "markCancelled") /\ Once(todo, "start")

Prompt ==
  Policy # "latest" =>
    /\ todo # <<>> => Runs(Tail(todo), "start") = {}
    /\ In("start") => ~disposed /\ (Policy = "ordered" => active = {})

Pumps == {"deliver", "deliverThenRaise"}

\* What a run that starts may find under it, besides the end of run().
Starters == Callbacks \cup {"loop", "report", "raise"}

\* No callback pumps completions: that is left to the event loop.
NoPumpInside == Reentry \cap (Callbacks \X {"pump"}) = {}

\* No executor raises after a callback pumped a completion of its run.
RaiseIsSafe == "executor" \notin MayRaise \/ NoPumpInside

\* A run whose executor is in progress has not returned its hook: cancelActive marks it
\* at once, and only a completion pumped by a callback can give it an outcome.
Begun ==
  /\ Once(todo, "executor")
  /\ \A id \in Runs(todo, "executor") :
       /\ status[id] \notin {"new", "queued"}
       /\ work[id] = "none"
       /\ id \in Runs(todo, "markCancelled") => In("markCancelled") /\ Current = id
       /\ NoPumpInside => status[id] \notin Outcome

\* What may be under a call op: another call, or the event loop.
Link(op, below) ==
  /\ op \in {"report", "result"} => below \in Pumps
  /\ op \in Pumps \cup {"return"} => below \in Callbacks \cup {"loop"}
  /\ NoPumpInside /\ op \in Pumps => below = "loop"
  /\ op = "startNext" => below \in Starters
  /\ op \in {"start", "executor"} => below \in Starters \cup {"return"}
  /\ op = "raise" => below \in Starters \cup Pumps \cup {"return"}
  /\ op = "cancelActive" /\ Policy = "ordered" => below \in {"startNext", "cancelAllActive"}
  /\ op = "cancelAllActive" => below = "cancelAllQueued"

Top(s)    == IF s = <<>> THEN "loop" ELSE Head(s).op
Linked(s) == \A i \in DOMAIN s : Link(s[i].op, IF i = Len(s) THEN "loop" ELSE s[i + 1].op)

\* The calls that see to the queue, and the callbacks that may start runs of their own.
Seers   == {"startNext", "cancelAllQueued", "start"}
Runners == {"executor", "report", "result"}

\* A call that will see to the queue before an executor or a result handler goes on.
Attended(s) == \E i \in DOMAIN s : /\ s[i].op \in Seers
                                   /\ \A j \in DOMAIN s : j <= i => s[j].op \notin Runners

\* The runs whose onSuccess or onFailure is called or about to be, and those that may be.
Reports(s) == Runs(s, "report") \cup Runs(s, "result")
Ended == {id \in RunIds : status[id] \in Outcome}

Chained ==
  /\ Linked(todo)
  /\ Policy # "ordered" => queue = <<>>
  /\ queue # <<>> /\ active = {} => Attended(todo)

-----------------------------------------------------------------------------
(* The stack: what putting a call on it and taking one off it changes.     *)

LEMMA OneFrame ==
  ASSUME NEW f \in Frames
  PROVE  <<f>> \in Seq(Frames) /\ Len(<<f>>) = 1 /\ <<f>>[1] = f
OBVIOUS

LEMMA Pushed ==
  ASSUME NEW f \in Frames, NEW s \in Seq(Frames)
  PROVE  LET t == <<f>> \o s IN
           /\ t \in Seq(Frames) /\ t # <<>>
           /\ Len(t) = Len(s) + 1 /\ Len(s) \in Nat
           /\ DOMAIN t = 1 .. Len(s) + 1 /\ DOMAIN s = 1 .. Len(s)
           /\ t[1] = f /\ Head(t) = f /\ Tail(t) = s
           /\ \A i \in DOMAIN s : t[i + 1] = s[i]
<1> DEFINE t == <<f>> \o s
<1> HIDE DEF t
<1>1. t \in Seq(Frames) /\ Len(t) = Len(s) + 1 /\ Len(s) \in Nat /\ Len(t) \in Nat
  BY OneFrame, ConcatProperties, LenProperties DEF t
<1>2. DOMAIN t = 1 .. Len(s) + 1 /\ DOMAIN s = 1 .. Len(s)
  BY <1>1, LenProperties
<1>3. t[1] = f /\ \A i \in DOMAIN s : t[i + 1] = s[i]
  <2>1. \A i \in 1 .. 1 + Len(s) : t[i] = IF i <= 1 THEN <<f>>[i] ELSE s[i - 1]
    BY OneFrame, ConcatProperties DEF t
  <2> QED BY <1>1, <1>2, <2>1
<1>4. t # <<>> /\ Head(t) = f
  BY <1>1, <1>2, <1>3, EmptySeq
<1>5. Tail(t) = s
  <2>1. Tail(t) \in Seq(Frames) /\ Len(Tail(t)) = Len(s)
    BY <1>1, <1>4, HeadTailProperties
  <2>2. \A i \in 1 .. Len(s) : Tail(t)[i] = s[i]
    BY <1>1, <1>2, <1>3, <1>4, <2>1, HeadTailProperties
  <2> QED BY <2>1, <2>2, SeqEqual
<1> QED BY <1>1, <1>2, <1>3, <1>4, <1>5 DEF t

LEMMA RunsPushed ==
  ASSUME NEW f \in Frames, NEW s \in Seq(Frames), NEW op
  PROVE  /\ Runs(<<f>> \o s, op) = Runs(s, op) \cup (IF f.op = op THEN {f.run} ELSE {})
         /\ Once(s, op) /\ (f.op = op => f.run \notin Runs(s, op)) => Once(<<f>> \o s, op)
<1> DEFINE t == <<f>> \o s
<1> HIDE DEF t
<1>1. /\ Len(s) \in Nat /\ DOMAIN t = 1 .. Len(s) + 1 /\ DOMAIN s = 1 .. Len(s)
      /\ t[1] = f /\ \A i \in DOMAIN s : t[i + 1] = s[i]
  BY Pushed DEF t
<1>2. \A i \in DOMAIN t : i = 1 \/ (i - 1 \in DOMAIN s /\ t[i] = s[i - 1])
  BY <1>1
<1>3. \A i \in DOMAIN s : i + 1 \in DOMAIN t
  BY <1>1
<1>4. Runs(t, op) \subseteq Runs(s, op) \cup (IF f.op = op THEN {f.run} ELSE {})
  BY <1>1, <1>2 DEF Runs
<1>5. Runs(s, op) \cup (IF f.op = op THEN {f.run} ELSE {}) \subseteq Runs(t, op)
  BY <1>1, <1>3 DEF Runs
<1>6. ASSUME Once(s, op), f.op = op => f.run \notin Runs(s, op) PROVE Once(t, op)
  <2> SUFFICES ASSUME NEW i \in DOMAIN t, NEW j \in DOMAIN t,
                      t[i].op = op, t[j].op = op, t[i].run = t[j].run
               PROVE  i = j
    BY DEF Once
  <2>1. CASE i = 1 /\ j # 1
    BY <1>1, <1>2, <1>6, <2>1 DEF Runs
  <2>2. CASE i # 1 /\ j = 1
    BY <1>1, <1>2, <1>6, <2>2 DEF Runs
  <2>3. CASE i # 1 /\ j # 1
    <3>1. i - 1 = j - 1
      BY <1>2, <1>6, <2>3 DEF Once
    <3> QED BY <1>1, <3>1
  <2> QED BY <2>1, <2>2, <2>3
<1> QED BY <1>4, <1>5, <1>6 DEF t

LEMMA Popped ==
  ASSUME NEW s \in Seq(Frames), s # <<>>
  PROVE  /\ Head(s) \in Frames /\ Tail(s) \in Seq(Frames)
         /\ s = <<Head(s)>> \o Tail(s)
         /\ \A op : /\ Runs(s, op) = Runs(Tail(s), op)
                                    \cup (IF Head(s).op = op THEN {Head(s).run} ELSE {})
                    /\ Once(s, op) => /\ Once(Tail(s), op)
                                      /\ Head(s).op = op => Head(s).run \notin Runs(Tail(s), op)
<1>1. /\ Head(s) \in Frames /\ Tail(s) \in Seq(Frames) /\ Len(Tail(s)) = Len(s) - 1
      /\ \A i \in 1 .. Len(Tail(s)) : Tail(s)[i] = s[i + 1]
      /\ Len(s) \in Nat /\ Len(s) # 0 /\ Head(s) = s[1] /\ DOMAIN s = 1 .. Len(s)
      /\ DOMAIN Tail(s) = 1 .. Len(s) - 1
  BY HeadTailProperties, LenProperties, EmptySeq
<1>2. s = <<Head(s)>> \o Tail(s)
  <2> DEFINE t == <<Head(s)>> \o Tail(s)
  <2> HIDE DEF t
  <2>1. /\ t \in Seq(Frames) /\ Len(t) = Len(Tail(s)) + 1 /\ t[1] = Head(s)
        /\ DOMAIN Tail(s) = 1 .. Len(Tail(s))
        /\ \A i \in DOMAIN Tail(s) : t[i + 1] = Tail(s)[i]
    BY <1>1, Pushed DEF t
  <2>2. ASSUME NEW i \in 1 .. Len(s) PROVE t[i] = s[i]
    <3>1. CASE i = 1
      BY <1>1, <2>1, <3>1
    <3>2. CASE i # 1
      <4>1. i - 1 \in 1 .. Len(Tail(s)) /\ (i - 1) + 1 = i
        BY <1>1, <3>2
      <4>2. t[(i - 1) + 1] = Tail(s)[i - 1] /\ Tail(s)[i - 1] = s[(i - 1) + 1]
        BY <1>1, <2>1, <4>1
      <4> QED BY <4>1, <4>2
    <3> QED BY <3>1, <3>2
  <2>3. \A i \in 1 .. Len(s) : t[i] = s[i]
    BY <2>2
  <2>4. Len(t) = Len(s)
    BY <1>1, <2>1
  <2> QED BY <2>1, <2>3, <2>4, SeqEqual DEF t
<1>3. ASSUME NEW op
      PROVE  /\ Runs(s, op) = Runs(Tail(s), op)
                                 \cup (IF Head(s).op = op THEN {Head(s).run} ELSE {})
             /\ Once(s, op) => /\ Once(Tail(s), op)
                               /\ Head(s).op = op => Head(s).run \notin Runs(Tail(s), op)
  <2>1. Runs(s, op) = Runs(Tail(s), op) \cup (IF Head(s).op = op THEN {Head(s).run} ELSE {})
    <3> DEFINE h == Head(s)
               r == Tail(s)
    <3>1. Runs(<<h>> \o r, op) = Runs(r, op) \cup (IF h.op = op THEN {h.run} ELSE {})
      <4> HIDE DEF h, r
      <4>1. h \in Frames /\ r \in Seq(Frames)
        BY <1>1 DEF h, r
      <4> QED BY <4>1, RunsPushed
    <3>2. Runs(s, op) = Runs(<<h>> \o r, op)
      BY <1>2, Zenon
    <3> QED BY <3>1, <3>2, Zenon
  <2>2. \A i \in DOMAIN Tail(s) : i + 1 \in DOMAIN s /\ Tail(s)[i] = s[i + 1] /\ i + 1 # 1
    BY <1>1
  <2>3. 1 \in DOMAIN s
    BY <1>1
  <2>4. Once(s, op) => Once(Tail(s), op)
    BY <1>1, <2>2 DEF Once
  <2>5. Once(s, op) /\ Head(s).op = op => Head(s).run \notin Runs(Tail(s), op)
    BY <1>1, <2>2, <2>3 DEF Once, Runs
  <2> QED BY <2>1, <2>4, <2>5
<1> QED BY <1>1, <1>2, <1>3

LEMMA LinkedPushed ==
  ASSUME NEW f \in Frames, NEW s \in Seq(Frames), Linked(s), Link(f.op, Top(s))
  PROVE  Linked(<<f>> \o s)
<1> DEFINE t == <<f>> \o s
<1> HIDE DEF t
<1>1. /\ Len(s) \in Nat /\ DOMAIN t = 1 .. Len(s) + 1 /\ DOMAIN s = 1 .. Len(s)
      /\ Len(t) = Len(s) + 1
      /\ t[1] = f /\ \A i \in DOMAIN s : t[i + 1] = s[i]
  BY Pushed DEF t
<1>2. SUFFICES ASSUME NEW i \in DOMAIN t
               PROVE  Link(t[i].op, IF i = Len(t) THEN "loop" ELSE t[i + 1].op)
  BY DEF Linked, t
<1>3. CASE i = 1
  <2>1. CASE s = <<>>
    BY <1>1, <1>3, <2>1, EmptySeq DEF Top
  <2>2. CASE s # <<>>
    <3>1. Len(s) # 0 /\ Head(s) = s[1] /\ 1 \in DOMAIN s
      BY <1>1, <2>2, EmptySeq, HeadTailProperties
    <3> QED BY <1>1, <1>3, <2>2, <3>1 DEF Top
  <2> QED BY <2>1, <2>2
<1>4. CASE i # 1
  <2>1. i - 1 \in DOMAIN s /\ t[i] = s[i - 1] /\ (i = Len(t) <=> i - 1 = Len(s))
    BY <1>1, <1>4
  <2>2. i # Len(t) => i \in DOMAIN s /\ t[i + 1] = s[(i - 1) + 1]
    BY <1>1, <1>4
  <2> QED BY <2>1, <2>2 DEF Linked
<1> QED BY <1>3, <1>4

LEMMA LinkedPopped ==
  ASSUME NEW s \in Seq(Frames), s # <<>>, Linked(s)
  PROVE  Linked(Tail(s)) /\ Link(Head(s).op, Top(Tail(s)))
<1>1. /\ Tail(s) \in Seq(Frames) /\ Len(Tail(s)) = Len(s) - 1
      /\ \A i \in 1 .. Len(Tail(s)) : Tail(s)[i] = s[i + 1]
      /\ Len(s) \in Nat /\ Len(s) # 0 /\ Head(s) = s[1] /\ DOMAIN s = 1 .. Len(s)
      /\ DOMAIN Tail(s) = 1 .. Len(s) - 1
  BY HeadTailProperties, LenProperties, EmptySeq
<1>2. ASSUME NEW i \in DOMAIN Tail(s)
      PROVE  Link(Tail(s)[i].op, IF i = Len(Tail(s)) THEN "loop" ELSE Tail(s)[i + 1].op)
  <2>1. i + 1 \in DOMAIN s /\ Tail(s)[i] = s[i + 1] /\ (i = Len(Tail(s)) <=> i + 1 = Len(s))
    BY <1>1
  <2>2. i # Len(Tail(s)) => Tail(s)[i + 1] = s[(i + 1) + 1]
    BY <1>1
  <2> QED BY <2>1, <2>2 DEF Linked
<1>3. Link(Head(s).op, Top(Tail(s)))
  <2>1. Link(s[1].op, IF 1 = Len(s) THEN "loop" ELSE s[1 + 1].op)
    BY <1>1 DEF Linked
  <2>2. CASE Len(s) = 1
    BY <1>1, <2>1, <2>2, EmptySeq DEF Top
  <2>3. CASE Len(s) # 1
    <3> DEFINE r == Tail(s)
    <3>1. r \in Seq(Frames) /\ Len(r) # 0 /\ Len(r) \in Nat /\ r[1] = s[1 + 1]
      BY <1>1, <2>3
    <3> HIDE DEF r
    <3>2. r # <<>> /\ Head(r) = r[1]
      BY <3>1, EmptySeq
    <3> QED BY <1>1, <2>1, <2>3, <3>1, <3>2 DEF Top, r
  <2> QED BY <2>2, <2>3
<1> QED BY <1>2, <1>3 DEF Linked

LEMMA AttendedPushed ==
  ASSUME NEW f \in Frames, NEW s \in Seq(Frames)
  PROVE  Attended(<<f>> \o s) <=> f.op \notin Runners /\ (f.op \in Seers \/ Attended(s))
<1> DEFINE t == <<f>> \o s
<1> HIDE DEF t
<1>1. /\ Len(s) \in Nat /\ DOMAIN t = 1 .. Len(s) + 1 /\ DOMAIN s = 1 .. Len(s)
      /\ t[1] = f /\ \A i \in DOMAIN s : t[i + 1] = s[i]
  BY Pushed DEF t
<1>2. \A i \in DOMAIN t : i = 1 \/ (i - 1 \in DOMAIN s /\ t[i] = s[i - 1])
  BY <1>1
<1>3. 1 \in DOMAIN t /\ \A i \in DOMAIN s : i + 1 \in DOMAIN t
  BY <1>1
<1>4. ASSUME NEW i \in DOMAIN t, t[i].op \in Seers,
             \A j \in DOMAIN t : j <= i => t[j].op \notin Runners
      PROVE  f.op \notin Runners /\ (f.op \in Seers \/ Attended(s))
  <2>1. 1 <= i
    BY <1>1
  <2>2. f.op \notin Runners
    BY <1>1, <1>3, <1>4, <2>1
  <2>3. CASE i = 1
    BY <1>1, <1>4, <2>2, <2>3
  <2>4. CASE i # 1
    <3>1. i - 1 \in DOMAIN s /\ s[i - 1].op \in Seers
      BY <1>2, <1>4, <2>4
    <3>2. ASSUME NEW j \in DOMAIN s, j <= i - 1 PROVE s[j].op \notin Runners
      <4>1. j + 1 \in DOMAIN t /\ j + 1 <= i /\ t[j + 1] = s[j]
        BY <1>1, <3>2
      <4> QED BY <1>4, <4>1
    <3> QED BY <2>2, <3>1, <3>2 DEF Attended
  <2> QED BY <2>3, <2>4
<1>5. ASSUME f.op \notin Runners, f.op \in Seers PROVE Attended(t)
  <2>1. \A j \in DOMAIN t : j <= 1 => j = 1
    BY <1>1
  <2> QED BY <1>1, <1>3, <1>5, <2>1 DEF Attended
<1>6. ASSUME f.op \notin Runners, Attended(s) PROVE Attended(t)
  <2>1. PICK i \in DOMAIN s : /\ s[i].op \in Seers
                              /\ \A j \in DOMAIN s : j <= i => s[j].op \notin Runners
    BY <1>6 DEF Attended
  <2>2. i + 1 \in DOMAIN t /\ t[i + 1].op \in Seers
    BY <1>1, <1>3, <2>1
  <2>3. ASSUME NEW j \in DOMAIN t, j <= i + 1 PROVE t[j].op \notin Runners
    <3>1. CASE j = 1
      BY <1>1, <1>6, <3>1
    <3>2. CASE j # 1
      <4>1. j - 1 \in DOMAIN s /\ j - 1 <= i /\ t[j] = s[j - 1]
        BY <1>1, <1>2, <2>3, <3>2
      <4> QED BY <2>1, <4>1
    <3> QED BY <3>1, <3>2
  <2> QED BY <2>2, <2>3 DEF Attended
<1>7. Attended(t) => f.op \notin Runners /\ (f.op \in Seers \/ Attended(s))
  BY <1>4 DEF Attended
<1> QED BY <1>5, <1>6, <1>7 DEF t

LEMMA ReportsPushed ==
  ASSUME NEW f \in Frames, NEW s \in Seq(Frames)
  PROVE  Reports(<<f>> \o s)
           = Reports(s) \cup (IF f.op \in {"report", "result"} THEN {f.run} ELSE {})
<1>1. \A op : Runs(<<f>> \o s, op) = Runs(s, op) \cup (IF f.op = op THEN {f.run} ELSE {})
  BY RunsPushed
<1> DEFINE t == <<f>> \o s
<1> HIDE DEF t
<1>2. /\ Runs(t, "report") = Runs(s, "report") \cup (IF f.op = "report" THEN {f.run} ELSE {})
      /\ Runs(t, "result") = Runs(s, "result") \cup (IF f.op = "result" THEN {f.run} ELSE {})
  BY <1>1 DEF t
<1> QED BY <1>2 DEF Reports, t

LEMMA TwoPushed ==
  ASSUME NEW f \in Frames, NEW g \in Frames, NEW s \in Seq(Frames)
  PROVE  /\ <<f, g>> \in Seq(Frames)
         /\ <<f, g>> \o s = <<f>> \o (<<g>> \o s)
<1>1. <<f>> \in Seq(Frames) /\ <<g>> \in Seq(Frames) /\ <<f, g>> \in Seq(Frames)
  OBVIOUS
<1>2. <<f, g>> = <<f>> \o <<g>>
  <2>1. Len(<<g>>) = 1 /\ <<g>>[1] = g
    OBVIOUS
  <2> DEFINE u == <<f>> \o <<g>>
  <2>2. u \in Seq(Frames) /\ Len(u) = 2 /\ u[1] = f /\ u[2] = g
    <3>1. /\ u \in Seq(Frames) /\ Len(u) = Len(<<g>>) + 1 /\ u[1] = f
          /\ DOMAIN <<g>> = 1 .. Len(<<g>>)
          /\ \A i \in DOMAIN <<g>> : u[i + 1] = <<g>>[i]
      BY <1>1, Pushed
    <3> HIDE DEF u
    <3>2. u[1 + 1] = g
      BY <2>1, <3>1
    <3> QED BY <2>1, <3>1, <3>2
  <2> HIDE DEF u
  <2>3. Len(<<f, g>>) = 2 /\ <<f, g>>[1] = f /\ <<f, g>>[2] = g
    OBVIOUS
  <2>4. \A i \in 1 .. Len(<<f, g>>) : <<f, g>>[i] = u[i]
    BY <2>2, <2>3
  <2> QED BY <1>1, <2>2, <2>3, <2>4, SeqEqual DEF u
<1>3. (<<f>> \o <<g>>) \o s = <<f>> \o (<<g>> \o s)
  BY <1>1, ConcatAssociative
<1> QED BY <1>1, <1>2, <1>3, Zenon

\* Calls of the two kinds that Placed is about.
Marks == {"start", "markCancelled"}

\* t has the same marked calls as s.
Covers(t, s) ==
  \A op \in Marks : Runs(t, op) = Runs(s, op) /\ (Once(s, op) => Once(t, op))

\* t has no executor that s has not.
NoneBegun(t, s) ==
  Runs(t, "executor") \subseteq Runs(s, "executor") /\ (Once(s, "executor") => Once(t, "executor"))

\* t has more calls than s, of which none is marked or an executor, breaks a link, or
\* reports another run than those of s and those that have ended.
Kept(t, s) ==
  /\ t \in Seq(Frames)
  /\ Covers(t, s) /\ NoneBegun(t, s)
  /\ Linked(s) => Linked(t)
  /\ Reports(t) \subseteq Reports(s) \cup Ended'

Over(t, s) == Kept(t, s) /\ (Attended(s) => Attended(t))

\* Calls that may be on top of any other.
Free == {"settled", "hook", "cancelled", "tell", "cancelAllQueued", "crashed"}

LEMMA KeptPushed ==
  ASSUME NEW f \in Frames, NEW s \in Seq(Frames), NEW t \in Seq(Frames),
         f.op \notin Marks \cup {"executor"}, Kept(t, s), Linked(s) => Link(f.op, Top(t)),
         f.op \in {"report", "result"} => f.run \in Reports(s) \cup Ended'
  PROVE  Kept(<<f>> \o t, s)
<1>1. <<f>> \o t \in Seq(Frames)
  BY Pushed
<1>2. Covers(<<f>> \o t, s)
  <2> SUFFICES ASSUME NEW op \in Marks
               PROVE  /\ Runs(<<f>> \o t, op) = Runs(s, op)
                      /\ Once(s, op) => Once(<<f>> \o t, op)
    BY DEF Covers
  <2>1. f.op # op /\ Runs(t, op) = Runs(s, op) /\ (Once(s, op) => Once(t, op))
    BY DEF Kept, Covers
  <2>2. Runs(<<f>> \o t, op) = Runs(t, op) \cup {} /\ (Once(t, op) => Once(<<f>> \o t, op))
    BY <2>1, RunsPushed
  <2> QED BY <2>1, <2>2
<1>5. NoneBegun(<<f>> \o t, s)
  <2>1. /\ Runs(<<f>> \o t, "executor") = Runs(t, "executor") \cup {}
        /\ Once(t, "executor") => Once(<<f>> \o t, "executor")
    BY RunsPushed
  <2> QED BY <2>1 DEF Kept, NoneBegun
<1>3. Linked(s) => Linked(<<f>> \o t)
  BY LinkedPushed DEF Kept
<1>4. Reports(<<f>> \o t) \subseteq Reports(s) \cup Ended'
  <2>1. Reports(<<f>> \o t)
          = Reports(t) \cup (IF f.op \in {"report", "result"} THEN {f.run} ELSE {})
    BY ReportsPushed
  <2>2. Reports(t) \subseteq Reports(s) \cup Ended'
    BY DEF Kept
  <2> QED BY <2>1, <2>2
<1> QED BY <1>1, <1>2, <1>3, <1>4, <1>5 DEF Kept

LEMMA OverPushed ==
  ASSUME NEW f \in Frames, NEW s \in Seq(Frames), NEW t \in Seq(Frames),
         f.op \notin Marks \cup Runners, Over(t, s), Linked(s) => Link(f.op, Top(t))
  PROVE  Over(<<f>> \o t, s)
<1>1. Kept(<<f>> \o t, s)
  BY KeptPushed DEF Over, Runners
<1>2. Attended(t) => Attended(<<f>> \o t)
  BY AttendedPushed
<1> QED BY <1>1, <1>2 DEF Over

LEMMA OverFree ==
  ASSUME NEW f \in Frames, NEW s \in Seq(Frames), NEW t \in Seq(Frames),
         f.op \in Free, Over(t, s)
  PROVE  Over(<<f>> \o t, s)
<1>1. f.op \notin Marks \cup Runners /\ Link(f.op, Top(t))
  BY DEF Free, Marks, Runners, Link, Pumps
<1> QED BY <1>1, OverPushed

LEMMA OverItself ==
  ASSUME NEW s \in Seq(Frames)
  PROVE  Over(s, s)
BY DEF Over, Kept, Covers, NoneBegun

LEMMA OverTrans ==
  ASSUME NEW t, NEW u, NEW s, Over(t, u), Over(u, s)
  PROVE  Over(t, s)
BY DEF Over, Kept, Covers, NoneBegun

LEMMA KeptPopped ==
  ASSUME NEW s \in Seq(Frames), s # <<>>, Head(s).op \notin Marks
  PROVE  Kept(Tail(s), s)
<1>1. Tail(s) \in Seq(Frames)
  BY Popped
<1>2. ASSUME NEW op
      PROVE  /\ Runs(s, op) = Runs(Tail(s), op)
                                \cup (IF Head(s).op = op THEN {Head(s).run} ELSE {})
             /\ Once(s, op) => Once(Tail(s), op)
  BY Popped, Zenon
<1> DEFINE h == Head(s)
           r == Tail(s)
<1> HIDE DEF h, r
<1>3. \A op : /\ Runs(s, op) = Runs(r, op) \cup (IF h.op = op THEN {h.run} ELSE {})
              /\ Once(s, op) => Once(r, op)
  BY <1>2 DEF h, r
<1>4. h.op \notin Marks
  BY DEF h
<1>5. Covers(r, s)
  BY <1>3, <1>4 DEF Covers
<1>6. Runs(r, "report") \subseteq Runs(s, "report") /\ Runs(r, "result") \subseteq Runs(s, "result")
  BY <1>3
<1>7. Linked(s) => Linked(r)
  BY LinkedPopped DEF r
<1>8. NoneBegun(r, s)
  BY <1>3 DEF NoneBegun
<1> QED BY <1>1, <1>5, <1>6, <1>7, <1>8 DEF Kept, Reports, r

LEMMA OverPopped ==
  ASSUME NEW s \in Seq(Frames), s # <<>>, Head(s).op \notin Marks \cup Seers
  PROVE  Over(Tail(s), s)
<1>1. Kept(Tail(s), s)
  BY KeptPopped
<1>2. Attended(s) => Attended(Tail(s))
  <2> DEFINE h == Head(s)
             r == Tail(s)
  <2>1. h \in Frames /\ r \in Seq(Frames) /\ s = <<h>> \o r
    BY Popped, Zenon
  <2>2. h.op \notin Seers
    OBVIOUS
  <2> HIDE DEF h, r
  <2>3. Attended(<<h>> \o r) => Attended(r)
    BY <2>1, <2>2, AttendedPushed
  <2> QED BY <2>1, <2>3 DEF h, r
<1> QED BY <1>1, <1>2 DEF Over

LEMMA FrameTyped ==
  /\ \A op \in AboutRun, id \in RunIds : Frame(op, id) \in Frames
  /\ \A op \in AboutAll : Frame(op, 0) \in Frames
  /\ \A op \in AboutAll, batch \in Seq(Completions) : Delivering(op, batch) \in Frames
  /\ \A f \in Frames : /\ f.op \in AboutRun \cup AboutAll
                       /\ f.op \in AboutRun => f.run \in RunIds
                       /\ f.op \in AboutAll => f.batch \in Seq(Completions)
<1>1. <<>> \in Seq(Completions)
  BY EmptySeq
<1>2. AboutRun \cap AboutAll = {}
  BY DEF AboutRun, AboutAll, Callbacks, NoThrow
<1>3. \A op \in AboutRun, id \in RunIds : Frame(op, id) \in Frames
  BY DEF Frame, Frames
<1>4. \A op \in AboutAll : Frame(op, 0) \in Frames
  BY <1>1 DEF Frame, Frames
<1>5. \A op \in AboutAll, batch \in Seq(Completions) : Delivering(op, batch) \in Frames
  BY DEF Delivering, Frames
<1>6. ASSUME NEW f \in Frames
      PROVE  /\ f.op \in AboutRun \cup AboutAll
             /\ f.op \in AboutRun => f.run \in RunIds
             /\ f.op \in AboutAll => f.batch \in Seq(Completions)
  BY <1>2 DEF Frames
<1> QED BY <1>3, <1>4, <1>5, <1>6

LEMMA OverSettled ==
  ASSUME NEW id \in RunIds, NEW s \in Seq(Frames), NEW t \in Seq(Frames), Over(t, s)
  PROVE  Settled(id) \in Seq(Frames) /\ Over(Settled(id) \o t, s)
<1>1. CASE observer[id] = "waiting"
  <2>1. Frame("settled", id) \in Frames /\ Frame("settled", id).op \in Free
    BY FrameTyped DEF AboutRun, Callbacks, NoThrow, Free, Frame
  <2>2. Settled(id) = <<Frame("settled", id)>>
    BY <1>1 DEF Settled
  <2> QED BY <2>1, <2>2, OverFree, OneFrame
<1>2. CASE observer[id] # "waiting"
  <2>1. Settled(id) = <<>>
    BY <1>2 DEF Settled
  <2> QED BY <2>1, ConcatEmptySeq, EmptySeq
<1> QED BY <1>1, <1>2

-----------------------------------------------------------------------------
(* What each step does to the stack.                                       *)

\* The call on top, when it is one of ops.
LEMMA OnTop ==
  ASSUME TypeOK, NEW op, In(op)
  PROVE  /\ todo \in Seq(Frames) /\ todo # <<>> /\ Head(todo).op = op
         /\ Head(todo) \in Frames /\ Rest \in Seq(Frames)
         /\ op \in AboutRun => Current \in RunIds
         /\ op \in AboutAll => Head(todo).batch \in Seq(Completions)
<1>1. todo \in Seq(Frames) /\ todo # <<>> /\ Head(todo).op = op
  BY DEF TypeOK, In
<1>2. Head(todo) \in Frames /\ Tail(todo) \in Seq(Frames)
  BY <1>1, Popped
<1> QED BY <1>1, <1>2, FrameTyped DEF Rest, Current

LEMMA RestIsUnder ==
  ASSUME TypeOK, NEW op, In(op), op \notin Marks \cup Seers
  PROVE  Over(Rest, todo)
BY OnTop, OverPopped DEF Rest

LEMMA TopOfRest ==
  ASSUME TypeOK, NEW op, In(op), Linked(todo)
  PROVE  Linked(Rest) /\ Link(op, Top(Rest))
BY OnTop, LinkedPopped DEF Rest

\* A call of the application: under it is a callback or the event loop.
LEMMA CalledFrom ==
  ASSUME TypeOK, NEW call, MayCall(call)
  PROVE  Top(todo) \in Callbacks \cup {"loop"}
BY Constants_Assumption DEF MayCall, Top

\* The steps that leave the marked calls alone.
Plain ==
  \/ Return \/ CancelAll \/ Dispose
  \/ \E id \in RunIds : Cancel(id) \/ Observe(id) \/ Unsubscribe(id)
  \/ \E n \in 1 .. MaxPending : Pump(n)
  \/ \E hook \in BOOLEAN : ExecutorReturns(hook)
  \/ TellCancelled \/ CancelAllActive \/ (CancelAllQueued /\ queue # <<>>)
  \/ DeliverNone \/ DeliverOne \/ Report \/ CallbackReturns \/ ResultEnds
  \/ \E c \in Completions : Offer(c)

LEMMA CallsOver ==
  ASSUME TypeOK,
         \/ CancelAll \/ Dispose
         \/ \E id \in RunIds : Cancel(id) \/ Observe(id) \/ Unsubscribe(id)
         \/ \E n \in 1 .. MaxPending : Pump(n)
         \/ \E c \in Completions : Offer(c)
  PROVE  Over(todo', todo)
<1>1. todo \in Seq(Frames) /\ Over(todo, todo)
  BY OverItself DEF TypeOK
<1>2. CASE CancelAll
  <2> DEFINE f == Frame("cancelAllActive", 0)
             g == Frame("cancelAllQueued", 0)
             t == <<g>> \o todo
  <2>1. f \in Frames /\ g \in Frames
    BY FrameTyped DEF AboutAll
  <2>2. f.op = "cancelAllActive" /\ g.op = "cancelAllQueued"
    BY DEF Frame
  <2>3. todo' = <<f, g>> \o todo
    BY <1>2 DEF CancelAll
  <2> HIDE DEF f, g
  <2>4. Over(t, todo) /\ t \in Seq(Frames) /\ Top(t) = "cancelAllQueued"
    BY <1>1, <2>1, <2>2, OverFree, Pushed DEF Free, Top
  <2>5. todo' = <<f>> \o t
    BY <1>1, <2>1, <2>3, TwoPushed
  <2> HIDE DEF t
  <2>6. f.op \notin Marks \cup Runners /\ Link(f.op, Top(t))
    BY <2>2, <2>4 DEF Marks, Runners, Link, Pumps
  <2> QED BY <1>1, <2>1, <2>4, <2>5, <2>6, OverPushed
<1>3. CASE Dispose
  BY <1>1, <1>3 DEF Dispose
<1>4. ASSUME NEW id \in RunIds, Cancel(id) PROVE Over(todo', todo)
  <2>1. CASE CancelRunning(id)
    <3> DEFINE f == Frame("cancelActive", id)
               g == Frame("startNext", 0)
               t == <<g>> \o todo
    <3>1. f \in Frames /\ g \in Frames
      BY FrameTyped DEF AboutAll, AboutRun
    <3>2. f.op = "cancelActive" /\ g.op = "startNext"
      BY DEF Frame
    <3>3. todo' = <<f, g>> \o todo
      BY <2>1 DEF CancelRunning
    <3> HIDE DEF f, g
    <3>4. Over(t, todo) /\ t \in Seq(Frames) /\ Top(t) = "startNext"
      <4>1. Top(todo) \in Callbacks \cup {"loop"}
        BY <1>4, CalledFrom DEF Cancel
      <4>2. g.op \notin Marks \cup Runners /\ Link(g.op, Top(todo))
        BY <3>2, <4>1 DEF Marks, Runners, Link, Pumps, Starters
      <4> QED BY <1>1, <3>1, <3>2, <4>2, OverPushed, Pushed DEF Top
    <3>5. todo' = <<f>> \o t
      BY <1>1, <3>1, <3>3, TwoPushed
    <3> HIDE DEF t
    <3>6. f.op \notin Marks \cup Runners /\ Link(f.op, Top(t))
      BY <3>2, <3>4 DEF Marks, Runners, Link, Pumps
    <3> QED BY <1>1, <3>1, <3>4, <3>5, <3>6, OverPushed
  <2>2. CASE CancelQueued(id)
    <3> DEFINE f == Frame("tell", id)
    <3>1. f \in Frames /\ f.op \in Free
      BY FrameTyped DEF AboutRun, Frame, Free
    <3>2. todo' = (Settled(id) \o <<f>>) \o todo
      BY <2>2 DEF CancelQueued
    <3> HIDE DEF f
    <3>3. Over(<<f>> \o todo, todo) /\ <<f>> \o todo \in Seq(Frames) /\ <<f>> \in Seq(Frames)
      BY <1>1, <3>1, OverFree, Pushed, OneFrame
    <3>4. Settled(id) \in Seq(Frames) /\ Over(Settled(id) \o (<<f>> \o todo), todo)
      BY <1>1, <3>3, OverSettled
    <3>5. todo' = Settled(id) \o (<<f>> \o todo)
      BY <1>1, <3>2, <3>3, <3>4, ConcatAssociative
    <3> QED BY <3>4, <3>5
  <2> QED BY <1>4, <2>1, <2>2 DEF Cancel
<1>5. ASSUME NEW id \in RunIds, Observe(id) PROVE Over(todo', todo)
  <2>1. Frame("settled", id) \in Frames /\ Frame("settled", id).op \in Free
    BY FrameTyped DEF AboutRun, Callbacks, NoThrow, Frame, Free
  <2>2. Over(<<Frame("settled", id)>> \o todo, todo)
    BY <1>1, <2>1, OverFree
  <2> QED BY <1>1, <1>5, <2>2 DEF Observe
<1>6. ASSUME NEW id \in RunIds, Unsubscribe(id) PROVE Over(todo', todo)
  BY <1>1, <1>6 DEF Unsubscribe
<1>7. ASSUME NEW n \in 1 .. MaxPending, Pump(n) PROVE Over(todo', todo)
  <2> DEFINE f == Delivering("deliver", SubSeq(mailbox, 1, n))
  <2>1. SubSeq(mailbox, 1, n) \in Seq(Completions)
    <3>1. \A i \in 1 .. n : mailbox[i] \in Completions
      BY <1>7, LenProperties DEF TypeOK, Pump
    <3> QED BY <3>1, SubSeqProperties
  <2>2. f \in Frames /\ f.op = "deliver"
    BY <2>1, FrameTyped DEF AboutAll, Delivering
  <2>3. todo' = <<f>> \o todo /\ Top(todo) \in Callbacks \cup {"loop"}
    BY <1>7, CalledFrom DEF Pump
  <2>4. NoPumpInside => Top(todo) = "loop"
    BY <1>7, Constants_Assumption DEF NoPumpInside, Pump, MayCall, Top
  <2>5. f.op \notin Marks \cup Runners /\ Link(f.op, Top(todo))
    BY <2>2, <2>3, <2>4 DEF Marks, Runners, Link, Pumps
  <2> QED BY <1>1, <2>2, <2>3, <2>5, OverPushed
<1>8. ASSUME NEW c \in Completions, Offer(c) PROVE Over(todo', todo)
  BY <1>1, <1>8 DEF Offer
<1> QED BY <1>2, <1>3, <1>4, <1>5, <1>6, <1>7, <1>8

LEMMA FreeOnRest ==
  ASSUME TypeOK, NEW op, In(op), op \notin Marks \cup Seers,
         NEW f \in Frames, f.op \in Free
  PROVE  Over(Rest, todo) /\ Over(<<f>> \o Rest, todo)
BY OnTop, RestIsUnder, OverFree

LEMMA DeliveryOver ==
  ASSUME TypeOK, DeliverOne
  PROVE  Over(todo', todo) /\ Attended(todo')
<1> DEFINE batch == Head(todo).batch
           id == batch[1].run
           d == Delivering(Head(todo).op, Tail(batch))
           f == Frame("startNext", 0)
           g == Frame("report", id)
           t == <<d>> \o Rest
           u == <<g>> \o t
<1>1. PICK op \in Pumps : In(op)
  BY DEF DeliverOne, InPump, Pumps
<1>2. op \in AboutAll /\ op \notin Marks \cup Seers \cup Runners
  BY DEF Pumps, AboutAll, Marks, Seers, Runners
<1>3. batch \in Seq(Completions) /\ batch # <<>>
  BY <1>1, <1>2, OnTop DEF DeliverOne
<1>4. id \in RunIds /\ Tail(batch) \in Seq(Completions) /\ id \in Ended'
  <2> DEFINE c == batch[1]
  <2>1. c \in Completions /\ Tail(batch) \in Seq(Completions)
    BY <1>3, HeadTailProperties, EmptySeq, ElementOfSeq, LenProperties
  <2>2. Complete(c) /\ id = c.run
    BY DEF DeliverOne
  <2> HIDE DEF c, id
  <2>3. id \in RunIds /\ c.outcome \in Outcome
    BY <2>1, <2>2 DEF Completions
  <2>4. status'[id] \in Outcome
    BY <2>2, <2>3 DEF Complete, TypeOK
  <2> QED BY <2>1, <2>3, <2>4 DEF Ended
<1>5. /\ todo \in Seq(Frames) /\ Head(todo).op = op /\ Rest \in Seq(Frames)
      /\ Over(Rest, todo)
  BY <1>1, <1>2, OnTop, RestIsUnder
<1>6. /\ d \in Frames /\ d.op = op
      /\ f \in Frames /\ f.op = "startNext"
      /\ g \in Frames /\ g.op = "report"
  BY <1>2, <1>4, <1>5, FrameTyped DEF AboutAll, AboutRun, Frame, Delivering
<1>7. todo' = ((Settled(id) \o <<f, g>>) \o <<d>>) \o Rest
  BY DEF DeliverOne, AfterCompletion
<1> HIDE DEF id, d, f, g, batch
<1>8. Over(t, todo) /\ t \in Seq(Frames) /\ Top(t) = op
  <2>1. d.op \notin Marks \cup Runners /\ (Linked(todo) => Link(d.op, Top(Rest)))
    BY <1>1, <1>2, <1>6, TopOfRest
  <2>2. Over(t, todo)
    BY <1>5, <1>6, <2>1, OverPushed
  <2> QED BY <1>5, <1>6, <2>2, Pushed DEF Top
<1> HIDE DEF t
<1>9. Kept(u, todo) /\ u \in Seq(Frames) /\ Top(u) = "report"
  <2>1. g.op \notin Marks /\ Link(g.op, Top(t)) /\ g.run = id
    BY <1>6, <1>8 DEF Marks, Link, Pumps, Frame, g
  <2>2. Kept(u, todo)
    BY <1>4, <1>5, <1>6, <1>8, <2>1, KeptPushed DEF Over
  <2> QED BY <1>5, <1>6, <1>8, <2>2, Pushed DEF Top
<1>10. todo' = Settled(id) \o (<<f>> \o u)
  <2>1. /\ Settled(id) \in Seq(Frames) /\ <<f, g>> \in Seq(Frames) /\ <<d>> \in Seq(Frames)
        /\ <<f, g>> \o t = <<f>> \o u
    <3>1. Settled(id) \in Seq(Frames)
      BY <1>4, <1>5, OverItself, OverSettled
    <3>2. <<f, g>> \in Seq(Frames) /\ <<f, g>> \o t = <<f>> \o (<<g>> \o t)
      BY <1>6, <1>8, TwoPushed
    <3>3. <<d>> \in Seq(Frames)
      BY <1>6, OneFrame
    <3> QED BY <3>1, <3>2, <3>3
  <2>2. Settled(id) \o <<f, g>> \in Seq(Frames)
    BY <2>1, ConcatProperties
  <2>3. todo' = (Settled(id) \o <<f, g>>) \o t
    BY <1>5, <1>7, <2>1, <2>2, ConcatAssociative DEF t
  <2>4. (Settled(id) \o <<f, g>>) \o t = Settled(id) \o (<<f, g>> \o t)
    BY <1>8, <2>1, ConcatAssociative
  <2> QED BY <2>1, <2>3, <2>4
<1> HIDE DEF u
<1>11. Kept(<<f>> \o u, todo) /\ <<f>> \o u \in Seq(Frames)
  <2>1. f.op \notin Marks /\ Link(f.op, Top(u)) /\ f.op \notin {"report", "result"}
    BY <1>6, <1>9 DEF Marks, Link, Pumps, Starters
  <2> QED BY <1>5, <1>6, <1>9, <2>1, KeptPushed, Pushed
<1>12. Attended(<<f>> \o u)
  BY <1>6, <1>9, AttendedPushed DEF Seers, Runners
<1> DEFINE v == <<f>> \o u
<1>13. Over(Settled(id) \o v, v)
  <2> HIDE DEF v
  <2>1. v \in Seq(Frames)
    BY <1>11 DEF v
  <2> QED BY <1>4, <2>1, OverItself, OverSettled
<1>14. Attended(todo')
  BY <1>10, <1>12, <1>13 DEF Over
<1>15. Over(v, todo)
  BY <1>11, <1>12 DEF Over
<1> HIDE DEF v
<1>16. v \in Seq(Frames) /\ todo' = Settled(id) \o v
  BY <1>10, <1>11 DEF v
<1> QED BY <1>4, <1>5, <1>14, <1>15, <1>16, OverSettled

LEMMA StepsOver ==
  ASSUME TypeOK,
         \/ Return \/ \E hook \in BOOLEAN : ExecutorReturns(hook)
         \/ TellCancelled \/ CancelAllActive \/ (CancelAllQueued /\ queue # <<>>)
         \/ DeliverNone \/ Report \/ CallbackReturns \/ ResultEnds
  PROVE  Over(todo', todo)
<1>1. CASE Return
  BY <1>1, RestIsUnder DEF Return, Marks, Seers
<1>2. ASSUME NEW hook \in BOOLEAN, ExecutorReturns(hook) PROVE Over(todo', todo)
  <2>1. In("executor") /\ Current \in RunIds
    BY <1>2, OnTop DEF ExecutorReturns, AboutRun, Callbacks
  <2>2. Frame("hook", Current) \in Frames /\ Frame("hook", Current).op \in Free
    BY <2>1, FrameTyped DEF AboutRun, Callbacks, NoThrow, Frame, Free
  <2>3. Over(Rest, todo) /\ Over(<<Frame("hook", Current)>> \o Rest, todo)
    BY <2>1, <2>2, FreeOnRest DEF Marks, Seers
  <2>4. Rest \in Seq(Frames)
    BY <2>1, OnTop
  <2>5. todo' = Rest \/ todo' = <<Frame("hook", Current)>> \o Rest \/ todo' = <<>> \o Rest
    BY <1>2 DEF ExecutorReturns
  <2> QED BY <2>3, <2>4, <2>5, ConcatEmptySeq
<1>3. CASE TellCancelled
  <2>1. In("tell") /\ Current \in RunIds
    BY <1>3, OnTop DEF TellCancelled, AboutRun
  <2>2. Frame("cancelled", Current) \in Frames /\ Frame("cancelled", Current).op \in Free
    BY <2>1, FrameTyped DEF AboutRun, Callbacks, NoThrow, Frame, Free
  <2>3. Over(Rest, todo) /\ Over(<<Frame("cancelled", Current)>> \o Rest, todo)
    BY <2>1, <2>2, FreeOnRest DEF Marks, Seers
  <2>4. Rest \in Seq(Frames)
    BY <2>1, OnTop
  <2>5. todo' = <<Frame("cancelled", Current)>> \o Rest \/ todo' = <<>> \o Rest
    BY <1>3 DEF TellCancelled
  <2> QED BY <2>3, <2>4, <2>5, ConcatEmptySeq
<1>4. CASE CancelAllActive
  <2>1. In("cancelAllActive") /\ todo \in Seq(Frames) /\ Top(todo) = "cancelAllActive"
    BY <1>4, OnTop DEF CancelAllActive, Top
  <2>2. CASE todo' = Rest
    BY <2>1, <2>2, RestIsUnder DEF Marks, Seers
  <2>3. ASSUME NEW id \in active, todo' = <<Frame("cancelActive", id)>> \o todo
        PROVE  Over(todo', todo)
    <3> DEFINE f == Frame("cancelActive", id)
    <3>1. f \in Frames /\ f.op = "cancelActive"
      BY FrameTyped DEF AboutRun, TypeOK, Frame
    <3> HIDE DEF f
    <3>2. f.op \notin Marks \cup Runners /\ Link(f.op, Top(todo))
      BY <2>1, <3>1 DEF Marks, Runners, Link, Pumps
    <3>3. Over(<<f>> \o todo, todo)
      BY <2>1, <3>1, <3>2, OverItself, OverPushed
    <3> QED BY <2>3, <3>3 DEF f
  <2> QED BY <1>4, <2>2, <2>3 DEF CancelAllActive
<1>5. CASE CancelAllQueued /\ queue # <<>>
  <2> DEFINE id == Last(queue)
             f == Frame("tell", id)
  <2>1. todo \in Seq(Frames) /\ id \in RunIds
    BY <1>5, LenProperties, EmptySeq, ElementOfSeq DEF TypeOK, Last
  <2>2. f \in Frames /\ f.op \in Free
    BY <2>1, FrameTyped DEF AboutRun, Frame, Free
  <2>3. todo' = (Settled(id) \o <<f>>) \o todo
    BY <1>5 DEF CancelAllQueued
  <2> HIDE DEF f, id
  <2>4. Over(<<f>> \o todo, todo) /\ <<f>> \o todo \in Seq(Frames) /\ <<f>> \in Seq(Frames)
    BY <2>1, <2>2, OverItself, OverFree, Pushed, OneFrame
  <2>5. Settled(id) \in Seq(Frames) /\ Over(Settled(id) \o (<<f>> \o todo), todo)
    BY <2>1, <2>4, OverSettled
  <2>6. todo' = Settled(id) \o (<<f>> \o todo)
    BY <2>1, <2>3, <2>4, <2>5, ConcatAssociative
  <2> QED BY <2>5, <2>6
<1>6. CASE DeliverNone
  <2> DEFINE batch == Head(todo).batch
             d == Delivering(Head(todo).op, Tail(batch))
             r == Frame("raise", 0)
  <2>1. PICK op \in Pumps : In(op)
    BY <1>6 DEF DeliverNone, InPump, Pumps
  <2>2. op \in AboutAll /\ op \notin Marks \cup Seers \cup Runners
    BY DEF Pumps, AboutAll, Marks, Seers, Runners
  <2>3. /\ todo \in Seq(Frames) /\ Head(todo).op = op /\ Rest \in Seq(Frames)
        /\ Over(Rest, todo) /\ batch \in Seq(Completions)
    BY <2>1, <2>2, OnTop, RestIsUnder
  <2>4. Linked(todo) => Link(op, Top(Rest)) /\ Top(Rest) \in Callbacks \cup {"loop"}
    BY <2>1, TopOfRest DEF Link
  <2>5. r \in Frames /\ r.op = "raise"
    BY FrameTyped DEF AboutAll, Frame
  <2>6. Over(<<r>> \o Rest, todo)
    <3>1. r.op \notin Marks \cup Runners /\ (Linked(todo) => Link(r.op, Top(Rest)))
      BY <2>4, <2>5 DEF Marks, Runners, Link, Pumps, Starters
    <3> HIDE DEF r
    <3> QED BY <2>3, <2>5, <3>1, OverPushed
  <2>7. CASE batch = <<>>
    <3>1. todo' = <<>> \o Rest \/ todo' = <<r>> \o Rest
      BY <1>6, <2>7 DEF DeliverNone
    <3> QED BY <2>3, <2>6, <3>1, ConcatEmptySeq
  <2>8. CASE batch # <<>>
    <3>1. todo' = <<d>> \o Rest
      BY <1>6, <2>8 DEF DeliverNone
    <3>2. Tail(batch) \in Seq(Completions)
      BY <2>3, <2>8, HeadTailProperties
    <3>3. d \in Frames /\ d.op = op
      BY <2>2, <2>3, <3>2, FrameTyped DEF Delivering
    <3> HIDE DEF d
    <3>4. d.op \notin Marks \cup Runners /\ (Linked(todo) => Link(d.op, Top(Rest)))
      BY <2>2, <2>4, <3>3
    <3> QED BY <2>3, <3>1, <3>3, <3>4, OverPushed
  <2> QED BY <2>7, <2>8
<1>7. CASE Report
  <2> DEFINE f == Frame("result", Current)
  <2>1. /\ In("report") /\ Current \in RunIds /\ todo \in Seq(Frames)
        /\ Rest \in Seq(Frames) /\ Over(Rest, todo)
    BY <1>7, OnTop, RestIsUnder DEF Report, AboutRun, Marks, Seers
  <2>2. f \in Frames /\ f.op = "result"
    BY <2>1, FrameTyped DEF AboutRun, Callbacks, Frame
  <2>3. todo' = <<f>> \o Rest
    BY <1>7 DEF Report
  <2>4. f.run = Current
    BY DEF Frame
  <2> HIDE DEF f
  <2>5. f.op \notin Marks /\ (Linked(todo) => Link(f.op, Top(Rest)))
    BY <2>1, <2>2, TopOfRest DEF Marks, Link, Pumps
  <2>6. Current \in Reports(todo) /\ ~Attended(todo)
    <3> DEFINE h == Head(todo)
               r == Tail(todo)
    <3>1. h \in Frames /\ r \in Seq(Frames) /\ todo = <<h>> \o r
      BY <2>1, OnTop, Popped, Zenon
    <3>2. h.op = "report" /\ h.run = Current
      BY <2>1, OnTop DEF Current
    <3> HIDE DEF h, r
    <3>3. /\ Reports(<<h>> \o r) = Reports(r) \cup {Current}
          /\ ~Attended(<<h>> \o r)
      BY <3>1, <3>2, ReportsPushed, AttendedPushed DEF Runners
    <3> QED BY <3>1, <3>3
  <2>7. Kept(todo', todo)
    BY <2>1, <2>2, <2>3, <2>4, <2>5, <2>6, KeptPushed DEF Over
  <2> QED BY <2>6, <2>7 DEF Over
<1>8. CASE CallbackReturns
  <2>1. PICK op \in NoThrow : In(op)
    BY <1>8 DEF CallbackReturns
  <2> QED BY <1>8, <2>1, RestIsUnder DEF CallbackReturns, NoThrow, Marks, Seers
<1>9. CASE ResultEnds
  <2> DEFINE r == Frame("raise", 0)
  <2>1. /\ In("result") /\ todo \in Seq(Frames)
        /\ Rest \in Seq(Frames) /\ Over(Rest, todo)
    BY <1>9, OnTop, RestIsUnder DEF ResultEnds, Marks, Seers
  <2>2. r \in Frames /\ r.op = "raise"
    BY FrameTyped DEF AboutAll, Frame
  <2>3. todo' = Rest \/ todo' = <<r>> \o Rest
    BY <1>9 DEF ResultEnds
  <2> HIDE DEF r
  <2>4. r.op \notin Marks \cup Runners /\ (Linked(todo) => Link(r.op, Top(Rest)))
    BY <2>1, <2>2, TopOfRest DEF Marks, Runners, Link, Pumps
  <2> QED BY <2>1, <2>2, <2>3, <2>4, OverPushed
<1> QED BY <1>1, <1>2, <1>3, <1>4, <1>5, <1>6, <1>7, <1>8, <1>9

LEMMA PlainOver ==
  ASSUME TypeOK, Plain
  PROVE  Over(todo', todo)
BY CallsOver, StepsOver, DeliveryOver DEF Plain

LEMMA RestKept ==
  ASSUME TypeOK, NEW op, In(op)
  PROVE  /\ Rest \in Seq(Frames) /\ todo \in Seq(Frames)
         /\ Linked(todo) => Linked(Rest)
         /\ Reports(Rest) \subseteq Reports(todo)
         /\ op \notin Marks => Covers(Rest, todo)
         /\ NoneBegun(Rest, todo)
<1>1. todo \in Seq(Frames) /\ todo # <<>> /\ Head(todo).op = op /\ Rest \in Seq(Frames)
  BY OnTop
<1> DEFINE h == Head(todo)
           r == Tail(todo)
<1>2. \A m : /\ Runs(todo, m) = Runs(r, m) \cup (IF h.op = m THEN {h.run} ELSE {})
             /\ Once(todo, m) => Once(r, m)
  BY <1>1, Popped, Zenon
<1> HIDE DEF h, r
<1>5. NoneBegun(r, todo)
  BY <1>2 DEF NoneBegun
<1>3. Runs(r, "report") \subseteq Runs(todo, "report") /\ Runs(r, "result") \subseteq Runs(todo, "result")
  BY <1>2
<1>4. op \notin Marks => Covers(Rest, todo)
  BY <1>1, KeptPopped DEF Kept, Rest
<1> QED BY <1>1, <1>3, <1>4, <1>5, TopOfRest DEF Reports, r, Rest

LEMMA StartStack ==
  ASSUME TypeOK, Start
  PROVE  /\ todo' \in Seq(Frames) /\ Covers(todo', Rest)
         /\ Linked(todo) => Linked(todo')
         /\ Reports(todo') \subseteq Reports(todo)
         /\ Runs(todo', "executor") \subseteq Runs(Rest, "executor") \cup {Current}
         /\ Once(Rest, "executor") /\ Current \notin Runs(Rest, "executor")
              => Once(todo', "executor")
<1>1. /\ In("start") /\ Current \in RunIds /\ Rest \in Seq(Frames)
      /\ Reports(Rest) \subseteq Reports(todo)
  BY OnTop, RestKept DEF Start, AboutRun
<1>2. PICK op \in {"crashed", "executor"} : todo' = <<Frame(op, Current)>> \o Rest
  BY DEF Start
<1> DEFINE f == Frame(op, Current)
<1>3. /\ f \in Frames /\ f.op = op /\ f.run = Current
      /\ op \notin Marks /\ op \notin {"report", "result"}
  BY <1>1, FrameTyped DEF AboutRun, Callbacks, Frame, Marks
<1> HIDE DEF f
<1>4. todo' = <<f>> \o Rest
  BY <1>2 DEF f
<1>5. Covers(todo', Rest)
  <2>1. ASSUME NEW m \in Marks
        PROVE  Runs(todo', m) = Runs(Rest, m) /\ (Once(Rest, m) => Once(todo', m))
    <3>1. f.op # m
      BY <1>3
    <3>2. Runs(<<f>> \o Rest, m) = Runs(Rest, m) \cup (IF f.op = m THEN {f.run} ELSE {})
      BY <1>1, <1>3, RunsPushed
    <3>3. Once(Rest, m) => Once(<<f>> \o Rest, m)
      BY <1>1, <1>3, <3>1, RunsPushed
    <3> QED BY <1>4, <3>1, <3>2, <3>3
  <2> QED BY <2>1 DEF Covers
<1>6. Linked(todo) => Linked(todo')
  <2>1. Linked(todo) => Linked(Rest) /\ Link("start", Top(Rest))
    BY <1>1, TopOfRest
  <2>2. Link("start", Top(Rest)) => Link(op, Top(Rest))
    BY DEF Link, Pumps
  <2> QED BY <1>1, <1>3, <1>4, <2>1, <2>2, LinkedPushed
<1>7. Reports(todo') = Reports(Rest) \cup {}
  BY <1>1, <1>3, <1>4, ReportsPushed
<1>8. todo' \in Seq(Frames)
  BY <1>1, <1>3, <1>4, Pushed
<1>9. /\ Runs(todo', "executor") \subseteq Runs(Rest, "executor") \cup {Current}
      /\ Once(Rest, "executor") /\ Current \notin Runs(Rest, "executor")
           => Once(todo', "executor")
  BY <1>1, <1>3, <1>4, RunsPushed
<1> QED BY <1>1, <1>5, <1>6, <1>7, <1>8, <1>9

LEMMA MarkCancelledStack ==
  ASSUME TypeOK, MarkCancelled
  PROVE  Over(todo', Rest) /\ Rest \in Seq(Frames)
<1> DEFINE f == Frame("tell", Current)
<1>1. In("markCancelled") /\ Current \in RunIds /\ Rest \in Seq(Frames)
  BY OnTop DEF MarkCancelled, AboutRun
<1>2. f \in Frames /\ f.op \in Free
  BY <1>1, FrameTyped DEF AboutRun, Frame, Free
<1>3. todo' = (Settled(Current) \o <<f>>) \o Rest
  BY DEF MarkCancelled
<1> HIDE DEF f
<1>4. Over(<<f>> \o Rest, Rest) /\ <<f>> \o Rest \in Seq(Frames) /\ <<f>> \in Seq(Frames)
  BY <1>1, <1>2, OverItself, OverFree, Pushed, OneFrame
<1>5. Settled(Current) \in Seq(Frames) /\ Over(Settled(Current) \o (<<f>> \o Rest), Rest)
  BY <1>1, <1>4, OverSettled
<1>6. todo' = Settled(Current) \o (<<f>> \o Rest)
  BY <1>1, <1>3, <1>4, <1>5, ConcatAssociative
<1> QED BY <1>1, <1>5, <1>6

LEMMA ExecutorRaisesStack ==
  ASSUME TypeOK, ExecutorRaises
  PROVE  Over(todo', todo) /\ Attended(todo')
<1> DEFINE f == Frame("startNext", 0)
           g == Frame("raise", 0)
           t == <<g>> \o Rest
           u == <<f>> \o t
<1>1. /\ In("executor") /\ Current \in RunIds /\ Rest \in Seq(Frames)
      /\ todo \in Seq(Frames) /\ Over(Rest, todo)
  BY OnTop, RestIsUnder DEF ExecutorRaises, AboutRun, Callbacks, Marks, Seers
<1>2. f \in Frames /\ g \in Frames /\ f.op = "startNext" /\ g.op = "raise"
  BY FrameTyped DEF AboutAll, Frame
<1>3. todo' = (Settled(Current) \o <<f, g>>) \o Rest
  BY DEF ExecutorRaises, AfterFailedStart
<1> HIDE DEF f, g
<1>4. t \in Seq(Frames) /\ u \in Seq(Frames) /\ Top(t) = "raise"
  BY <1>1, <1>2, Pushed DEF Top
<1>5. Over(t, todo)
  <2>1. g.op \notin Marks \cup Runners /\ (Linked(todo) => Link(g.op, Top(Rest)))
    BY <1>1, <1>2, TopOfRest DEF Marks, Runners, Link, Pumps
  <2> QED BY <1>1, <1>2, <2>1, OverPushed
<1> HIDE DEF t
<1>6. Over(u, todo) /\ Attended(u)
  <2>1. f.op \notin Marks \cup Runners /\ Link(f.op, Top(t)) /\ f.op \in Seers
    BY <1>2, <1>4 DEF Marks, Runners, Seers, Link, Pumps, Starters
  <2> QED BY <1>1, <1>2, <1>4, <1>5, <2>1, OverPushed, AttendedPushed
<1> HIDE DEF u
<1>7. Over(u, u)
  BY <1>4, OverItself
<1>8. todo' = Settled(Current) \o u /\ Over(Settled(Current) \o u, u)
  <2>1. Settled(Current) \in Seq(Frames) /\ Over(Settled(Current) \o u, u)
    BY <1>1, <1>4, <1>7, OverSettled
  <2>2. <<f, g>> \in Seq(Frames) /\ <<f, g>> \o Rest = u
    BY <1>1, <1>2, TwoPushed DEF t, u
  <2>3. todo' = Settled(Current) \o (<<f, g>> \o Rest)
    BY <1>1, <1>3, <2>1, <2>2, ConcatAssociative
  <2> QED BY <2>1, <2>2, <2>3
<1>9. Over(todo', u)
  BY <1>8
<1> QED BY <1>6, <1>9, OverTrans DEF Over

LEMMA CancelActiveStack ==
  ASSUME TypeOK, CancelActive, Current \in active
  PROVE  LET f == Frame("markCancelled", Current) IN
           /\ Current \in RunIds /\ f \in Frames /\ Rest \in Seq(Frames)
           /\ f.op = "markCancelled" /\ f.run = Current
           /\ Over(todo', <<f>> \o Rest)
<1> DEFINE f == Frame("markCancelled", Current)
           g == Frame("hook", Current)
           t == <<f>> \o Rest
<1>1. In("cancelActive") /\ Current \in RunIds /\ Rest \in Seq(Frames)
  BY OnTop DEF CancelActive, AboutRun
<1>2. /\ f \in Frames /\ f.op = "markCancelled" /\ f.run = Current
      /\ g \in Frames /\ g.op \in Free
  BY <1>1, FrameTyped DEF AboutRun, Callbacks, NoThrow, Frame, Free
<1>3. todo' = (<<g>> \o <<f>>) \o Rest \/ todo' = (<<>> \o <<f>>) \o Rest
  BY DEF CancelActive
<1> HIDE DEF f, g
<1>4. <<f>> \in Seq(Frames) /\ <<g>> \in Seq(Frames) /\ t \in Seq(Frames) /\ Over(t, t)
  BY <1>1, <1>2, Pushed, OneFrame, OverItself
<1>5. todo' = <<g>> \o t \/ todo' = t
  <2>1. (<<g>> \o <<f>>) \o Rest = <<g>> \o t
    BY <1>1, <1>4, ConcatAssociative
  <2>2. <<>> \o <<f>> = <<f>>
    BY <1>4, ConcatEmptySeq
  <2> QED BY <1>3, <2>1, <2>2
<1>6. Over(<<g>> \o t, t)
  BY <1>2, <1>4, OverFree
<1> QED BY <1>1, <1>2, <1>4, <1>5, <1>6 DEF f

LEMMA UnwindStack ==
  ASSUME TypeOK, Unwind
  PROVE  /\ todo' \in Seq(Frames)
         /\ Linked(todo) => Over(todo', todo)
         /\ Runs(todo', "start") \subseteq Runs(todo, "start")
<1>1. /\ In("raise") /\ Rest \in Seq(Frames) /\ todo \in Seq(Frames) /\ todo # <<>>
      /\ Head(todo) \in Frames /\ Head(todo).op = "raise" /\ Over(Rest, todo)
  BY OnTop, RestIsUnder DEF Unwind, Marks, Seers
<1>2. "start" \in Marks
  BY DEF Marks
<1>3. CASE todo' = Rest
  BY <1>1, <1>2, <1>3 DEF Over, Kept, Covers
<1>4. ASSUME Rest # <<>>, todo' # Rest
      PROVE  /\ Rest[1] = Head(Rest) /\ Tail(Rest) \in Seq(Frames) /\ Head(Rest) \in Frames
             /\ Runs(Tail(Rest), "start") \subseteq Runs(todo, "start")
  <2>1. Rest[1] = Head(Rest) /\ Tail(Rest) \in Seq(Frames) /\ Head(Rest) \in Frames
    BY <1>1, <1>4, Popped
  <2>2. Runs(Tail(Rest), "start") \subseteq Runs(Rest, "start")
    <3>1. Runs(Rest, "start") = Runs(Tail(Rest), "start")
            \cup (IF Head(Rest).op = "start" THEN {Head(Rest).run} ELSE {})
      BY <1>1, <1>4, Popped, Zenon
    <3> QED BY <3>1, Zenon
  <2> QED BY <1>1, <1>2, <2>1, <2>2 DEF Over, Kept, Covers
<1>5. CASE Rest # <<>> /\ Rest[1].op = "deliver"
  <2> DEFINE d == Delivering("deliverThenRaise", Rest[1].batch)
  <2>1. todo' = <<d>> \o Tail(Rest)
    BY <1>1, <1>5 DEF Unwind, Callbacks, NoThrow
  <2>2. CASE todo' # Rest
    <3>1. d \in Frames /\ d.op = "deliverThenRaise"
      BY <1>4, <1>5, <2>2, FrameTyped DEF AboutAll, Delivering
    <3>2. Over(Tail(Rest), Rest) /\ (Linked(Rest) => Link("deliver", Top(Tail(Rest))))
      BY <1>1, <1>4, <1>5, <2>2, OverPopped, LinkedPopped DEF Marks, Seers
    <3> HIDE DEF d
    <3>3. d.op \notin Marks \cup Runners /\ (Linked(Rest) => Link(d.op, Top(Tail(Rest))))
      BY <3>1, <3>2 DEF Marks, Runners, Link, Pumps
    <3>4. Over(<<d>> \o Tail(Rest), Rest)
      BY <1>1, <1>4, <1>5, <2>2, <3>1, <3>2, <3>3, OverPushed
    <3>5. Over(todo', todo)
      BY <1>1, <2>1, <3>4, OverTrans
    <3> QED BY <1>2, <3>5 DEF Over, Kept, Covers
  <2> QED BY <1>3, <2>2
<1>6. CASE Rest # <<>> /\ Rest[1].op \notin Callbacks \cup Pumps
  <2>1. todo' = <<Head(todo)>> \o Tail(Rest)
    BY <1>6 DEF Unwind, Pumps
  <2>2. CASE todo' # Rest
    <3> DEFINE h == Head(todo)
               r == Tail(Rest)
    <3>2. h \in Frames /\ h.op = "raise" /\ r \in Seq(Frames)
      BY <1>1, <1>4, <1>6, <2>2
    <3> HIDE DEF h, r
    <3>3. <<h>> \o r \in Seq(Frames) /\ Runs(<<h>> \o r, "start") = Runs(r, "start") \cup {}
      BY <3>2, Pushed, RunsPushed
    <3>4. todo' = <<h>> \o r
      BY <2>1 DEF h, r
    <3>5. ASSUME Linked(todo) PROVE Over(todo', todo)
      <4>1. Linked(Rest) /\ Link("raise", Top(Rest)) /\ Rest # <<>>
        BY <1>1, <1>6, <3>5, TopOfRest
      <4>2. Top(Rest) = Head(Rest).op /\ Head(Rest) \in Frames
        BY <1>4, <2>2, <4>1 DEF Top
      <4>3. Head(Rest).op \in {"report", "raise", "return"}
        <5>1. Head(Rest).op # "loop"
          BY <4>2, FrameTyped DEF AboutRun, AboutAll, Callbacks, NoThrow
        <5> QED BY <1>4, <1>6, <2>2, <4>1, <4>2, <5>1 DEF Link, Starters
      <4>4. Over(r, Rest) /\ Link(Head(Rest).op, Top(r))
        <5>1. Head(Rest).op \notin Marks \cup Seers
          BY <4>3 DEF Marks, Seers
        <5> QED BY <1>1, <4>1, <5>1, OverPopped, LinkedPopped DEF r
      <4>5. h.op \notin Marks \cup Runners /\ Link(h.op, Top(r))
        BY <3>2, <4>3, <4>4 DEF Marks, Runners, Link, Pumps, Starters
      <4>6. Over(<<h>> \o r, Rest)
        BY <1>1, <3>2, <4>4, <4>5, OverPushed
      <4> QED BY <1>1, <3>4, <4>6, OverTrans
    <3>6. Runs(r, "start") \subseteq Runs(todo, "start")
      BY <1>4, <1>6, <2>2 DEF r
    <3> QED BY <3>3, <3>4, <3>5, <3>6
  <2> QED BY <1>3, <2>2
<1>7. CASE Rest = <<>> \/ Rest[1].op \in Callbacks \cup {"deliverThenRaise"}
  BY <1>3, <1>7 DEF Unwind
<1> QED BY <1>3, <1>5, <1>6, <1>7 DEF Pumps

\* The runs a new run replaces are cancelled before anything else.
LEMMA OverCancelled ==
  ASSUME NEW front \in Seq(Frames), \A i \in DOMAIN front : front[i].op = "cancelActive",
         NEW s \in Seq(Frames), Policy # "ordered" \/ front = <<>>
  PROVE  Over(front \o s, s)
<1> DEFINE t == front \o s
           n == Len(front)
           m == Len(s)
<1>1. /\ t \in Seq(Frames) /\ n \in Nat /\ m \in Nat /\ Len(t) = n + m
      /\ DOMAIN t = 1 .. n + m /\ DOMAIN front = 1 .. n /\ DOMAIN s = 1 .. m
      /\ \A i \in 1 .. n + m : t[i] = IF i <= n THEN front[i] ELSE s[i - n]
  BY ConcatProperties, LenProperties
<1> HIDE DEF t, n, m
<1>2. \A i \in DOMAIN t : \/ i \in 1 .. n /\ t[i] = front[i] /\ t[i].op = "cancelActive"
                          \/ i > n /\ i - n \in DOMAIN s /\ t[i] = s[i - n]
  <2> TAKE i \in DOMAIN t
  <2>1. i \in 1 .. n + m /\ t[i] = IF i <= n THEN front[i] ELSE s[i - n]
    BY <1>1
  <2>2. CASE i <= n
    <3>1. i \in 1 .. n
      BY <1>1, <2>1, <2>2
    <3>2. front[i].op = "cancelActive"
      <4>1. i \in DOMAIN front
        BY <1>1, <3>1
      <4> QED BY <4>1
    <3>3. t[i] = front[i]
      BY <2>1, <2>2
    <3> QED BY <3>1, <3>2, <3>3
  <2>3. CASE ~(i <= n)
    <3>1. i > n /\ i - n \in 1 .. m
      BY <1>1, <2>1, <2>3
    <3> QED BY <1>1, <2>1, <2>3, <3>1
  <2> QED BY <2>2, <2>3
<1>3. \A i \in DOMAIN s : n + i \in DOMAIN t /\ t[n + i] = s[i]
  <2> TAKE i \in DOMAIN s
  <2>1. n + i \in 1 .. n + m /\ ~(n + i <= n) /\ (n + i) - n = i
    BY <1>1
  <2> QED BY <1>1, <2>1
<1>4. ASSUME NEW op \in Marks \cup {"executor"}
      PROVE  Runs(t, op) = Runs(s, op) /\ (Once(s, op) => Once(t, op))
  <2>1. op # "cancelActive"
    BY DEF Marks
  <2>2. Runs(t, op) \subseteq Runs(s, op)
    BY <1>2, <2>1 DEF Runs
  <2>3. Runs(s, op) \subseteq Runs(t, op)
    BY <1>3 DEF Runs
  <2>4. ASSUME Once(s, op), NEW i \in DOMAIN t, NEW j \in DOMAIN t,
               t[i].op = op, t[j].op = op, t[i].run = t[j].run
        PROVE  i = j
    <3>1. /\ i - n \in DOMAIN s /\ t[i] = s[i - n]
          /\ j - n \in DOMAIN s /\ t[j] = s[j - n]
      BY <1>2, <2>1, <2>4
    <3>2. i - n = j - n
      BY <2>4, <3>1 DEF Once
    <3> QED BY <1>1, <3>2
  <2> QED BY <2>2, <2>3, <2>4 DEF Once
<1>5. ASSUME Attended(s) PROVE Attended(t)
  <2>1. PICK k \in DOMAIN s : /\ s[k].op \in Seers
                              /\ \A j \in DOMAIN s : j <= k => s[j].op \notin Runners
    BY <1>5 DEF Attended
  <2>2. n + k \in DOMAIN t /\ t[n + k].op \in Seers
    BY <1>3, <2>1
  <2>3. ASSUME NEW j \in DOMAIN t, j <= n + k PROVE t[j].op \notin Runners
    <3>1. CASE t[j].op = "cancelActive"
      BY <3>1 DEF Runners
    <3>2. CASE j > n /\ j - n \in DOMAIN s /\ t[j] = s[j - n]
      <4>1. j - n <= k
        <5>1. j \in 1 .. n + m /\ k \in 1 .. m
          BY <1>1
        <5> QED BY <1>1, <2>3, <5>1
      <4> QED BY <2>1, <3>2, <4>1
    <3> QED BY <1>2, <3>1, <3>2
  <2> QED BY <2>2, <2>3 DEF Attended
<1>7. Reports(t) \subseteq Reports(s)
  <2>1. ASSUME NEW op \in {"report", "result"} PROVE Runs(t, op) \subseteq Runs(s, op)
    <3>1. op # "cancelActive"
      OBVIOUS
    <3> QED BY <1>2, <3>1 DEF Runs
  <2> QED BY <2>1 DEF Reports
<1>6. ASSUME Linked(s) PROVE Linked(t)
  <2>1. CASE front = <<>>
    BY <1>6, <2>1, ConcatEmptySeq DEF t
  <2>2. ASSUME Policy # "ordered", NEW i \in DOMAIN t
        PROVE  Link(t[i].op, IF i = Len(t) THEN "loop" ELSE t[i + 1].op)
    <3>1. CASE i \in 1 .. n
      <4>1. ~(i > n)
        BY <1>1, <3>1
      <4>2. t[i].op = "cancelActive"
        BY <1>2, <4>1
      <4> QED BY <2>2, <4>2 DEF Link, Pumps
    <3>2. CASE i > n
      <4>1. /\ i - n \in DOMAIN s /\ t[i] = s[i - n]
            /\ i = Len(t) <=> i - n = Len(s)
        <5>1. i - n \in DOMAIN s /\ t[i] = s[i - n]
          <6>1. ~(i \in 1 .. n)
            BY <1>1, <3>2
          <6> QED BY <1>2, <6>1
        <5>2. i \in Nat /\ n \in Nat /\ m \in Nat /\ Len(t) = n + m
          BY <1>1
        <5>3. i = n + m <=> i - n = m
          BY <5>2
        <5> QED BY <5>1, <5>2, <5>3 DEF m
      <4>2. ASSUME i # Len(t) PROVE t[i + 1] = s[(i - n) + 1]
        <5>1. i + 1 \in 1 .. n + m /\ ~(i + 1 <= n) /\ (i + 1) - n = (i - n) + 1
          <6>1. /\ i \in 1 .. n + m /\ i # n + m /\ n \in Nat /\ m \in Nat
            BY <1>1, <2>2, <4>2
          <6> QED BY <3>2, <6>1
        <5> QED BY <1>1, <5>1
      <4> QED BY <1>6, <4>1, <4>2 DEF Linked
    <3> QED BY <1>1, <1>2, <3>1, <3>2
  <2> QED BY <2>1, <2>2 DEF Linked
<1>8. Covers(t, s) /\ NoneBegun(t, s)
  BY <1>4 DEF Covers, NoneBegun
<1> QED BY <1>1, <1>5, <1>6, <1>7, <1>8 DEF Over, Kept, t

LEMMA RunStack ==
  ASSUME TypeOK, Run, ~(Policy = "ordered" /\ active # {})
  PROVE  LET f == Frame("start", nextRunId)
             t == <<Frame("return", nextRunId)>> \o todo
         IN  /\ f \in Frames /\ t \in Seq(Frames) /\ todo \in Seq(Frames)
             /\ f.op = "start" /\ f.run = nextRunId
             /\ Over(t, todo) /\ Top(t) = "return"
             /\ Over(todo', <<f>> \o t)
             /\ Policy # "latest" => todo' = <<f>> \o t
<1> DEFINE f == Frame("start", nextRunId)
           g == Frame("return", nextRunId)
           t == <<f>> \o (<<g>> \o todo)
<1>1. /\ nextRunId \in RunIds /\ todo \in Seq(Frames) /\ active \subseteq RunIds
      /\ queue \in Seq(RunIds)
  BY DEF Run, TypeOK
<1>2. /\ f \in Frames /\ f.op = "start" /\ f.run = nextRunId
      /\ g \in Frames /\ g.op = "return"
  BY <1>1, FrameTyped DEF AboutRun, Frame
<1>3. PICK order \in SetToSeqs(Replaced) :
        todo' = ([i \in DOMAIN order |-> Frame("cancelActive", order[i])] \o <<f, g>>) \o todo
  BY Zenon DEF Run
<1> DEFINE front == [i \in DOMAIN order |-> Frame("cancelActive", order[i])]
<1>4. Replaced \subseteq RunIds /\ (Policy # "latest" => Replaced = {})
  BY <1>1 DEF Replaced
<1>5. Cardinality(Replaced) \in Nat /\ (Replaced = {} => Cardinality(Replaced) = 0)
  <2>1. IsFiniteSet(RunIds)
    BY Constants_Assumption, FS_Interval DEF RunIds
  <2> QED BY <1>4, <2>1, FS_Subset, FS_CardinalityType, FS_EmptySet
<1>6. order \in [1 .. Cardinality(Replaced) -> Replaced]
  BY DEF SetToSeqs
<1>7. /\ front \in Seq(Frames) /\ \A i \in DOMAIN front : front[i].op = "cancelActive"
      /\ Replaced = {} => front = <<>>
  <2>1. DOMAIN order = 1 .. Cardinality(Replaced)
    BY <1>6
  <2>2. \A i \in DOMAIN order : /\ Frame("cancelActive", order[i]) \in Frames
                                /\ Frame("cancelActive", order[i]).op = "cancelActive"
    BY <1>4, <1>6, FrameTyped DEF AboutRun, Frame
  <2>3. front \in [1 .. Cardinality(Replaced) -> Frames]
    BY <2>1, <2>2
  <2>4. front \in Seq(Frames) /\ Len(front) = Cardinality(Replaced)
    BY <1>5, <2>3
  <2> QED BY <1>5, <2>1, <2>2, <2>4, EmptySeq
<1> HIDE DEF f, g, front
<1>8. <<f, g>> \in Seq(Frames) /\ <<f, g>> \o todo = t /\ t \in Seq(Frames)
  BY <1>1, <1>2, TwoPushed, Pushed
<1>9. todo' = front \o t
  <2>1. todo' = (front \o <<f, g>>) \o todo
    BY <1>3 DEF front
  <2>2. (front \o <<f, g>>) \o todo = front \o (<<f, g>> \o todo)
    BY <1>1, <1>7, <1>8, ConcatAssociative
  <2> QED BY <1>8, <2>1, <2>2
<1>10. Over(todo', t)
  <2>1. Policy # "ordered" \/ front = <<>>
    BY <1>4, <1>7
  <2> HIDE DEF t
  <2> QED BY <1>7, <1>8, <1>9, <2>1, OverCancelled
<1>11. Policy # "latest" => todo' = t
  <2> HIDE DEF t
  <2> QED BY <1>4, <1>7, <1>8, <1>9, ConcatEmptySeq
<1>12. /\ <<g>> \o todo \in Seq(Frames) /\ Over(<<g>> \o todo, todo)
       /\ Top(<<g>> \o todo) = "return"
  <2>1. g.op \notin Marks \cup Runners /\ Link(g.op, Top(todo))
    <3>1. Top(todo) \in Callbacks \cup {"loop"}
      BY CalledFrom DEF Run
    <3> QED BY <1>2, <3>1 DEF Marks, Runners, Link, Pumps
  <2> QED BY <1>1, <1>2, <2>1, OverItself, OverPushed, Pushed DEF Top
<1> QED BY <1>1, <1>2, <1>10, <1>11, <1>12 DEF f, g

LEMMA StartNextStack ==
  ASSUME TypeOK, StartNext
  PROVE  /\ Covers(Rest, todo) /\ Rest \in Seq(Frames)
         /\ Linked(todo) => Linked(todo')
         /\ Reports(todo') \subseteq Reports(todo)
         /\ NoneBegun(todo', todo)
         /\ \/ /\ CanStartNext /\ Head(queue) \in RunIds
               /\ Frame("start", Head(queue)) \in Frames
               /\ todo' = <<Frame("start", Head(queue))>> \o Rest /\ queue' = Tail(queue)
            \/ ~CanStartNext /\ todo' = Rest /\ queue' = queue
<1>1. In("startNext")
  BY DEF StartNext
<1>2. /\ Covers(Rest, todo) /\ Rest \in Seq(Frames)
      /\ Reports(Rest) \subseteq Reports(todo)
      /\ Linked(todo) => Linked(Rest) /\ Link("startNext", Top(Rest))
      /\ NoneBegun(Rest, todo)
  BY <1>1, RestKept, TopOfRest DEF Marks
<1>3. CASE CanStartNext
  <2> DEFINE f == Frame("start", Head(queue))
  <2>1. Head(queue) \in RunIds
    BY <1>3, HeadTailProperties DEF CanStartNext, TypeOK
  <2>2. f \in Frames /\ f.op = "start"
    BY <2>1, FrameTyped DEF AboutRun, Frame
  <2>3. todo' = <<f>> \o Rest /\ queue' = Tail(queue)
    BY <1>3 DEF StartNext
  <2> HIDE DEF f
  <2>4. Linked(todo) => Linked(<<f>> \o Rest)
    <3>1. Link("startNext", Top(Rest)) => Link(f.op, Top(Rest))
      BY <2>2 DEF Link, Pumps
    <3> QED BY <1>2, <2>2, <3>1, LinkedPushed
  <2>5. Reports(<<f>> \o Rest) = Reports(Rest) \cup {}
    BY <1>2, <2>2, ReportsPushed
  <2>6. NoneBegun(<<f>> \o Rest, todo)
    <3>1. /\ Runs(<<f>> \o Rest, "executor") = Runs(Rest, "executor") \cup {}
          /\ Once(Rest, "executor") => Once(<<f>> \o Rest, "executor")
      BY <1>2, <2>2, RunsPushed
    <3> QED BY <1>2, <3>1 DEF NoneBegun
  <2> QED BY <1>2, <1>3, <2>1, <2>2, <2>3, <2>4, <2>5, <2>6 DEF f
<1>4. CASE ~CanStartNext
  BY <1>2, <1>4 DEF StartNext
<1> QED BY <1>3, <1>4

\* The cases of a step, so that each proof below names them all.
LEMMA StepCases ==
  ASSUME [Next]_vars
  PROVE  \/ Plain \/ Run \/ Start \/ StartNext \/ ExecutorRaises \/ CancelActive
         \/ MarkCancelled \/ (CancelAllQueued /\ queue = <<>>) \/ Unwind
         \/ UNCHANGED vars
BY DEF Next, Application, Library, Plain

LEMMA TodoTyped ==
  ASSUME TypeOK, [Next]_vars
  PROVE  todo' \in Seq(Frames)
<1>1. CASE Plain
  BY <1>1, PlainOver DEF Over, Kept
<1>2. CASE Run
  <2>1. CASE Policy = "ordered" /\ active # {}
    BY <1>2, <2>1 DEF Run, TypeOK
  <2>2. CASE ~(Policy = "ordered" /\ active # {})
    BY <1>2, <2>2, RunStack DEF Over, Kept
  <2> QED BY <2>1, <2>2
<1>3. CASE Start
  BY <1>3, StartStack
<1>4. CASE StartNext
  BY <1>4, StartNextStack, Pushed
<1>5. CASE ExecutorRaises
  BY <1>5, ExecutorRaisesStack DEF Over, Kept
<1>6. CASE CancelActive
  <2>1. CASE Current \in active
    BY <1>6, <2>1, CancelActiveStack DEF Over, Kept
  <2>2. CASE Current \notin active
    BY <1>6, <2>2, OnTop DEF CancelActive
  <2> QED BY <2>1, <2>2
<1>7. CASE MarkCancelled
  BY <1>7, MarkCancelledStack DEF Over, Kept
<1>8. CASE CancelAllQueued /\ queue = <<>>
  BY <1>8, OnTop DEF CancelAllQueued
<1>9. CASE Unwind
  BY <1>9, UnwindStack
<1>10. CASE UNCHANGED vars
  BY <1>10 DEF vars, TypeOK
<1> QED BY <1>1, <1>2, <1>3, <1>4, <1>5, <1>6, <1>7, <1>8, <1>9, <1>10, StepCases

-----------------------------------------------------------------------------
(* Types.                                                                  *)

\* TypeOK without the stack.
DataTyped ==
  /\ nextRunId \in 1 .. MaxRuns + 1
  /\ status \in [RunIds -> Final \cup {"new", "queued", "running"}]
  /\ active \subseteq RunIds
  /\ work \in [RunIds -> {"unstarted", "none", "live", "called"}]
  /\ queue \in Seq(RunIds)
  /\ observer \in [RunIds -> {"none", "waiting", "told"}]
  /\ tickets \subseteq RunIds
  /\ delivered \subseteq RunIds
  /\ mailbox \in Seq(Completions) /\ Len(mailbox) <= MaxPending
  /\ disposed \in BOOLEAN

LEMMA WithoutTyped ==
  ASSUME NEW q \in Seq(RunIds), NEW i \in DOMAIN q
  PROVE  /\ Without(q, i) \in Seq(RunIds)
         /\ Len(Without(q, i)) = Len(q) - 1
         /\ \A j \in 1 .. Len(q) - 1 : Without(q, i)[j] = IF j < i THEN q[j] ELSE q[j + 1]
<1> DEFINE a == SubSeq(q, 1, i - 1)
           b == SubSeq(q, i + 1, Len(q))
<1>1. Len(q) \in Nat /\ DOMAIN q = 1 .. Len(q) /\ \A j \in 1 .. Len(q) : q[j] \in RunIds
  BY LenProperties, ElementOfSeq
<1>2. /\ a \in Seq(RunIds) /\ Len(a) = i - 1
      /\ \A j \in 1 .. i - 1 : a[j] = q[j]
  <2>1. \A j \in 1 .. i - 1 : q[j] \in RunIds
    BY <1>1
  <2>2. /\ a \in Seq(RunIds) /\ Len(a) = IF 1 <= i - 1 THEN (i - 1) - 1 + 1 ELSE 0
        /\ \A j \in 1 .. (i - 1) - 1 + 1 : a[j] = q[1 + j - 1]
    BY <1>1, <2>1, SubSeqProperties
  <2> HIDE DEF a
  <2> QED BY <1>1, <2>2
<1>3. /\ b \in Seq(RunIds) /\ Len(b) = Len(q) - i
      /\ \A j \in 1 .. Len(q) - i : b[j] = q[i + j]
  <2>1. \A j \in i + 1 .. Len(q) : q[j] \in RunIds
    BY <1>1
  <2>2. /\ b \in Seq(RunIds) /\ Len(b) = IF i + 1 <= Len(q) THEN Len(q) - (i + 1) + 1 ELSE 0
        /\ \A j \in 1 .. Len(q) - (i + 1) + 1 : b[j] = q[(i + 1) + j - 1]
    BY <1>1, <2>1, SubSeqProperties
  <2> HIDE DEF b
  <2>3. Len(q) - (i + 1) + 1 = Len(q) - i /\ (Len(q) - i = 0 \/ i + 1 <= Len(q))
    BY <1>1
  <2>4. ASSUME NEW j \in 1 .. Len(q) - i PROVE b[j] = q[i + j]
    <3>1. (i + 1) + j - 1 = i + j
      BY <1>1
    <3> QED BY <2>2, <2>3, <3>1
  <2>5. Len(b) = Len(q) - i
    BY <1>1, <2>2, <2>3
  <2> QED BY <2>2, <2>4, <2>5
<1>4. Without(q, i) = a \o b
  BY DEF Without, RemoveAt
<1> HIDE DEF a, b
<1>5. /\ a \o b \in Seq(RunIds) /\ Len(a \o b) = Len(a) + Len(b)
      /\ \A j \in 1 .. Len(a) + Len(b) : (a \o b)[j] = IF j <= Len(a) THEN a[j]
                                                        ELSE b[j - Len(a)]
  BY <1>2, <1>3, ConcatProperties
<1>6. Len(a) + Len(b) = Len(q) - 1
  BY <1>1, <1>2, <1>3
<1>7. ASSUME NEW j \in 1 .. Len(q) - 1
      PROVE  (a \o b)[j] = IF j < i THEN q[j] ELSE q[j + 1]
  <2>1. CASE j < i
    <3>1. j <= Len(a) /\ j \in 1 .. i - 1 /\ j \in 1 .. Len(a) + Len(b)
      BY <1>1, <1>2, <1>6, <2>1
    <3> QED BY <1>2, <1>5, <2>1, <3>1
  <2>2. CASE ~(j < i)
    <3>1. /\ ~(j <= Len(a)) /\ j - Len(a) \in 1 .. Len(q) - i /\ i + (j - Len(a)) = j + 1
          /\ j \in 1 .. Len(a) + Len(b)
      BY <1>1, <1>2, <1>6, <2>2
    <3> QED BY <1>3, <1>5, <2>2, <3>1
  <2> QED BY <2>1, <2>2
<1> QED BY <1>4, <1>5, <1>6, <1>7

LEMMA FrontTyped ==
  ASSUME NEW q \in Seq(RunIds), q # <<>>
  PROVE  /\ Front(q) \in Seq(RunIds) /\ Last(q) \in RunIds /\ Last(q) = q[Len(q)]
         /\ Len(q) \in Nat \ {0} /\ DOMAIN q = 1 .. Len(q)
         /\ Len(Front(q)) = Len(q) - 1
         /\ \A j \in 1 .. Len(q) - 1 : Front(q)[j] = q[j]
<1>1. /\ Len(q) \in Nat \ {0} /\ DOMAIN q = 1 .. Len(q)
      /\ \A j \in 1 .. Len(q) : q[j] \in RunIds
  BY LenProperties, ElementOfSeq, EmptySeq
<1> DEFINE a == SubSeq(q, 1, Len(q) - 1)
<1>2. /\ a \in Seq(RunIds) /\ Len(a) = IF 1 <= Len(q) - 1 THEN (Len(q) - 1) - 1 + 1 ELSE 0
      /\ \A j \in 1 .. (Len(q) - 1) - 1 + 1 : a[j] = q[1 + j - 1]
  <2>1. \A j \in 1 .. Len(q) - 1 : q[j] \in RunIds
    BY <1>1
  <2> QED BY <1>1, <2>1, SubSeqProperties
<1>3. Front(q) = a /\ Last(q) = q[Len(q)]
  BY DEF Front, Last
<1> HIDE DEF a
<1>4. (Len(q) - 1) - 1 + 1 = Len(q) - 1 /\ (Len(q) - 1 = 0 \/ 1 <= Len(q) - 1)
  BY <1>1
<1>5. Len(a) = Len(q) - 1
  BY <1>1, <1>2, <1>4
<1>6. ASSUME NEW j \in 1 .. Len(q) - 1 PROVE a[j] = q[j]
  <2>1. 1 + j - 1 = j
    BY <1>1
  <2> QED BY <1>2, <1>4, <2>1
<1>7. Last(q) \in RunIds
  <2>1. Len(q) \in 1 .. Len(q)
    BY <1>1
  <2> QED BY <1>1, <1>3, <2>1
<1> QED BY <1>1, <1>2, <1>3, <1>5, <1>6, <1>7

LEMMA RemainderTyped ==
  ASSUME NEW n \in Nat, NEW seq \in Seq(Completions), n <= Len(seq)
  PROVE  /\ SubSeq(seq, n + 1, Len(seq)) \in Seq(Completions)
         /\ Len(SubSeq(seq, n + 1, Len(seq))) <= Len(seq)
<1>1. Len(seq) \in Nat /\ \A i \in n + 1 .. Len(seq) : seq[i] \in Completions
  BY LenProperties, ElementOfSeq
<1>2. /\ SubSeq(seq, n + 1, Len(seq)) \in Seq(Completions)
      /\ Len(SubSeq(seq, n + 1, Len(seq))) = IF n + 1 <= Len(seq)
                                               THEN Len(seq) - (n + 1) + 1 ELSE 0
  BY <1>1, SubSeqProperties
<1> QED BY <1>1, <1>2

LEMMA DataTypedNext ==
  ASSUME TypeOK, [Next]_vars
  PROVE  DataTyped'
<1> USE DEF DataTyped, TypeOK, known, places, shared, runs
<1>1. CASE Run
  <2>1. nextRunId \in RunIds /\ nextRunId + 1 \in 1 .. MaxRuns + 1
    BY <1>1, Constants_Assumption DEF Run, RunIds
  <2>2. queue' \in Seq(RunIds) /\ tickets' \subseteq RunIds
    <3>1. Append(queue, nextRunId) \in Seq(RunIds)
      BY <2>1, AppendProperties
    <3>2. \/ queue' = Append(queue, nextRunId) /\ tickets' = tickets \cup {nextRunId}
          \/ UNCHANGED <<queue, tickets>>
      BY <1>1 DEF Run, Enqueued
    <3> QED BY <2>1, <3>1, <3>2
  <2> QED BY <1>1, <2>1, <2>2 DEF Run
<1>2. CASE Return
  <2>1. Current \in RunIds
    BY <1>2, OnTop DEF Return, AboutRun
  <2> QED BY <1>2, <2>1 DEF Return
<1>3. ASSUME NEW id \in RunIds, Cancel(id) PROVE DataTyped'
  <2>1. CASE CancelRunning(id)
    BY <2>1 DEF CancelRunning
  <2>2. CASE CancelQueued(id)
    <3>1. queue' \in Seq(RunIds)
      BY <2>2, WithoutTyped DEF CancelQueued
    <3> QED BY <2>2, <3>1 DEF CancelQueued, Notified, Final
  <2> QED BY <1>3, <2>1, <2>2 DEF Cancel
<1>4. CASE CancelAll
  BY <1>4 DEF CancelAll
<1>5. ASSUME NEW n \in 1 .. MaxPending, Pump(n) PROVE DataTyped'
  <2>1. n \in Nat /\ n <= Len(mailbox) /\ Len(mailbox) \in Nat /\ MaxPending \in Nat
    BY <1>5, LenProperties, Constants_Assumption DEF Pump
  <2>2. /\ mailbox' \in Seq(Completions) /\ Len(mailbox') <= Len(mailbox)
        /\ Len(mailbox') \in Nat
    BY <1>5, <2>1, RemainderTyped, LenProperties DEF Pump
  <2>3. Len(mailbox') <= MaxPending
    BY <2>1, <2>2
  <2> QED BY <1>5, <2>2, <2>3 DEF Pump
<1>6. CASE Dispose
  <2>1. <<>> \in Seq(RunIds) /\ <<>> \in Seq(Completions) /\ Len(<<>>) <= MaxPending
    BY EmptySeq, Constants_Assumption
  <2>2. /\ status' \in [RunIds -> Final \cup {"new", "queued", "running"}]
        /\ observer' \in [RunIds -> {"none", "waiting", "told"}]
        /\ work' \in [RunIds -> {"unstarted", "none", "live", "called"}]
    BY <1>6 DEF Dispose, Final
  <2> QED BY <1>6, <2>1, <2>2 DEF Dispose
<1>7. ASSUME NEW id \in RunIds, Observe(id) PROVE DataTyped'
  BY <1>7 DEF Observe
<1>8. ASSUME NEW id \in RunIds, Unsubscribe(id) PROVE DataTyped'
  BY <1>8 DEF Unsubscribe
<1>9. CASE Start
  <2>1. Current \in RunIds
    BY <1>9, OnTop DEF Start, AboutRun
  <2> QED BY <1>9, <2>1 DEF Start
<1>10. CASE StartNext
  <2>1. queue' \in Seq(RunIds)
    <3>1. queue # <<>> => Tail(queue) \in Seq(RunIds)
      BY HeadTailProperties
    <3> QED BY <1>10, <3>1 DEF StartNext, CanStartNext
  <2> QED BY <1>10, <2>1 DEF StartNext
<1>11. ASSUME NEW hook \in BOOLEAN, ExecutorReturns(hook) PROVE DataTyped'
  <2>1. Current \in RunIds
    BY <1>11, OnTop DEF ExecutorReturns, AboutRun, Callbacks
  <2> QED BY <1>11, <2>1 DEF ExecutorReturns
<1>12. CASE ExecutorRaises
  <2>1. Current \in RunIds
    BY <1>12, OnTop DEF ExecutorRaises, AboutRun, Callbacks
  <2> QED BY <1>12, <2>1 DEF ExecutorRaises, Notified, Final
<1>13. CASE CancelActive
  <2>1. Current \in RunIds
    BY <1>13, OnTop DEF CancelActive, AboutRun
  <2>2. active' \subseteq RunIds /\ work' \in [RunIds -> {"unstarted", "none", "live", "called"}]
    BY <1>13, <2>1 DEF CancelActive
  <2> QED BY <1>13, <2>1, <2>2 DEF CancelActive
<1>14. CASE MarkCancelled
  <2>1. Current \in RunIds
    BY <1>14, OnTop DEF MarkCancelled, AboutRun
  <2> QED BY <1>14, <2>1 DEF MarkCancelled, Notified, Final
<1>15. CASE TellCancelled
  BY <1>15 DEF TellCancelled
<1>16. CASE CancelAllActive
  BY <1>16 DEF CancelAllActive
<1>17. CASE CancelAllQueued
  <2>1. CASE queue = <<>>
    BY <1>17, <2>1 DEF CancelAllQueued
  <2>2. CASE queue # <<>>
    <3>1. Front(queue) \in Seq(RunIds) /\ Last(queue) \in RunIds
      BY <2>2, FrontTyped
    <3> QED BY <1>17, <2>2, <3>1 DEF CancelAllQueued, Notified, Final
  <2> QED BY <2>1, <2>2
<1>18. ASSUME NEW c \in Completions, Offer(c) PROVE DataTyped'
  <2>1. mailbox' \in Seq(Completions) /\ Len(mailbox') = Len(mailbox) + 1
    BY <1>18, AppendProperties DEF Offer
  <2>2. Len(mailbox') <= MaxPending
    BY <1>18, <2>1, LenProperties, Constants_Assumption DEF Offer, Accepts
  <2> QED BY <1>18, <2>1, <2>2 DEF Offer
<1>19. CASE DeliverNone
  BY <1>19 DEF DeliverNone
<1>20. CASE DeliverOne
  <2> DEFINE c == Head(todo).batch[1]
  <2>1. c \in Completions
    <3>1. Head(todo).batch \in Seq(Completions) /\ Head(todo).batch # <<>>
      BY <1>20, OnTop DEF DeliverOne, InPump, AboutAll
    <3> QED BY <3>1, EmptySeq, ElementOfSeq, LenProperties
  <2>2. Complete(c) /\ UNCHANGED <<known, queue, delivered, shared>>
    BY <1>20 DEF DeliverOne
  <2> HIDE DEF c
  <2>3. c.run \in RunIds /\ c.outcome \in Final
    BY <2>1 DEF Completions, Final
  <2> QED BY <2>2, <2>3 DEF Complete, Notified
<1>21. CASE Report
  BY <1>21 DEF Report
<1>22. CASE CallbackReturns
  BY <1>22 DEF CallbackReturns
<1>23. CASE ResultEnds
  <2>1. Current \in RunIds
    BY <1>23, OnTop DEF ResultEnds, AboutRun, Callbacks
  <2> QED BY <1>23, <2>1 DEF ResultEnds
<1>24. CASE Unwind
  BY <1>24 DEF Unwind
<1>25. CASE UNCHANGED vars
  BY <1>25 DEF vars
<1> QED BY <1>1, <1>2, <1>3, <1>4, <1>5, <1>6, <1>7, <1>8, <1>9, <1>10, <1>11, <1>12, <1>13,
           <1>14, <1>15, <1>16, <1>17, <1>18, <1>19, <1>20, <1>21, <1>22, <1>23, <1>24, <1>25
        DEF Next, Application, Library

\* A Command keeps its types in every call and every callback, and its mailbox
\* its bound, whatever the application and the workers do (all of command.nim).
THEOREM Typed == Spec => []TypeOK
<1>1. Init => TypeOK
  <2> SUFFICES ASSUME Init PROVE TypeOK
    OBVIOUS
  <2>1. /\ <<>> \in Seq(RunIds) /\ <<>> \in Seq(Completions) /\ <<>> \in Seq(Frames)
        /\ Len(<<>>) <= MaxPending
    BY EmptySeq, Constants_Assumption
  <2>2. 1 \in 1 .. MaxRuns + 1
    BY Constants_Assumption
  <2> QED BY <2>1, <2>2 DEF Init, TypeOK
<1>2. TypeOK /\ [Next]_vars => TypeOK'
  BY TodoTyped, DataTypedNext DEF DataTyped, TypeOK
<1> QED BY <1>1, <1>2, PTL DEF Spec

-----------------------------------------------------------------------------
(* One run at a time, and nothing after disposal: the policies that do not *)
(* replace runs.                                                           *)

LEMMA Quiet ==
  ASSUME NEW t \in Seq(Frames), Runs(t, "start") = {}
  PROVE  t # <<>> => Runs(Tail(t), "start") = {} /\ Head(t).op # "start"
<1> SUFFICES ASSUME t # <<>> PROVE Runs(Tail(t), "start") = {} /\ Head(t).op # "start"
  OBVIOUS
<1>1. Runs(t, "start") = Runs(Tail(t), "start")
                           \cup (IF Head(t).op = "start" THEN {Head(t).run} ELSE {})
  BY Popped, Zenon
<1> QED BY <1>1

LEMMA QuietUnlessStarting ==
  ASSUME TypeOK, Prompt, Policy # "latest", ~In("start")
  PROVE  Runs(todo, "start") = {}
<1>1. CASE todo = <<>>
  BY <1>1 DEF Runs
<1>2. CASE todo # <<>>
  <2>1. Runs(todo, "start") = Runs(Tail(todo), "start")
                                \cup (IF Head(todo).op = "start" THEN {Head(todo).run} ELSE {})
    BY <1>2, Popped, Zenon DEF TypeOK
  <2>2. Head(todo).op # "start" /\ Runs(Tail(todo), "start") = {}
    BY <1>2 DEF In, Prompt
  <2> QED BY <2>1, <2>2
<1> QED BY <1>1, <1>2

\* While a run is about to be started, only workers act.
LEMMA OnlyStarts ==
  ASSUME TypeOK, In("start"), [Next]_vars
  PROVE  Start \/ (\E c \in Completions : Offer(c)) \/ UNCHANGED vars
<1>1. ASSUME NEW call, MayCall(call) PROVE FALSE
  BY <1>1, Constants_Assumption DEF MayCall, In, Callbacks, NoThrow
<1>2. \A op : In(op) => op = "start"
  BY DEF In
<1>3. ~Run /\ ~CancelAll /\ ~Dispose /\ \A n : ~Pump(n)
  BY <1>1 DEF Run, CancelAll, Dispose, Pump
<1>4. \A id : ~Cancel(id) /\ ~Observe(id)
  BY <1>1 DEF Cancel, Observe
<1>5. \A id : ~Unsubscribe(id)
  BY <1>1 DEF Unsubscribe
<1>6. /\ ~StartNext /\ ~Return /\ ~CancelActive /\ ~MarkCancelled /\ ~TellCancelled
      /\ ~CancelAllActive /\ ~CancelAllQueued /\ ~Report /\ ~Unwind /\ ~ResultEnds
      /\ ~ExecutorRaises /\ ~(\E hook \in BOOLEAN : ExecutorReturns(hook))
  BY <1>2 DEF StartNext, Return, CancelActive, MarkCancelled, TellCancelled, CancelAllActive,
              CancelAllQueued, Report, Unwind, ResultEnds, ExecutorRaises, ExecutorReturns
<1>7. ~DeliverNone /\ ~DeliverOne /\ ~CallbackReturns
  BY <1>2 DEF DeliverNone, DeliverOne, CallbackReturns, InPump, NoThrow
<1> QED BY <1>3, <1>4, <1>5, <1>6, <1>7 DEF Next, Application, Library

\* A run is about to be started only after Run and StartNext.
LEMMA NoOtherStart ==
  ASSUME TypeOK, Runs(todo, "start") = {}, ~Run, ~(StartNext /\ CanStartNext), [Next]_vars
  PROVE  Runs(todo', "start") = {}
<1>1. todo \in Seq(Frames)
  BY DEF TypeOK
<1>2. CASE Plain
  BY <1>2, PlainOver DEF Over, Kept, Covers, Marks
<1>3. CASE Start
  <2>1. todo # <<>> /\ Head(todo).op = "start"
    BY <1>3 DEF Start, In
  <2> QED BY <1>1, <2>1, Quiet
<1>4. CASE StartNext
  BY <1>4, StartNextStack DEF Covers, Marks
<1>5. CASE ExecutorRaises
  BY <1>5, ExecutorRaisesStack DEF Over, Kept, Covers, Marks
<1>6. CASE CancelActive
  <2>1. In("cancelActive")
    BY <1>6 DEF CancelActive
  <2>2. Runs(Rest, "start") = {}
    BY <2>1, RestKept DEF Covers, Marks
  <2>3. CASE Current \notin active
    BY <1>6, <2>2, <2>3 DEF CancelActive
  <2>4. CASE Current \in active
    <3> DEFINE f == Frame("markCancelled", Current)
    <3>1. /\ f \in Frames /\ f.op = "markCancelled" /\ Rest \in Seq(Frames)
          /\ Over(todo', <<f>> \o Rest)
      BY <1>6, <2>4, CancelActiveStack
    <3> HIDE DEF f
    <3>2. Runs(<<f>> \o Rest, "start") = Runs(Rest, "start") \cup {}
      BY <3>1, RunsPushed
    <3> QED BY <2>2, <3>1, <3>2 DEF Over, Kept, Covers, Marks
  <2> QED BY <2>3, <2>4
<1>7. CASE MarkCancelled
  <2>1. todo # <<>>
    BY <1>7 DEF MarkCancelled, In
  <2>2. Runs(Rest, "start") = {}
    BY <1>1, <2>1, Quiet DEF Rest
  <2> QED BY <1>7, <2>2, MarkCancelledStack DEF Over, Kept, Covers, Marks
<1>8. CASE CancelAllQueued /\ queue = <<>>
  <2>1. todo # <<>> /\ todo' = Rest
    BY <1>8 DEF CancelAllQueued, In
  <2> QED BY <1>1, <2>1, Quiet DEF Rest
<1>9. CASE Unwind
  BY <1>9, UnwindStack
<1>10. CASE UNCHANGED vars
  BY <1>10 DEF vars
<1> QED BY <1>2, <1>3, <1>4, <1>5, <1>6, <1>7, <1>8, <1>9, <1>10, StepCases

LEMMA PromptNext ==
  ASSUME TypeOK, Prompt, DisposedIsInert, Policy # "latest", [Next]_vars
  PROVE  Prompt'
<1>1. ASSUME Runs(todo', "start") = {} PROVE Prompt'
  <2>1. todo' # <<>> => Runs(Tail(todo'), "start") = {} /\ Head(todo').op # "start"
    BY <1>1, TodoTyped, Quiet
  <2> QED BY <2>1 DEF Prompt, In
<1>2. CASE In("start")
  <2>1. CASE Start
    <3>1. Covers(todo', Rest) /\ Runs(Rest, "start") = {}
      BY <1>2, <2>1, StartStack DEF Prompt, In, Rest
    <3> QED BY <1>1, <3>1 DEF Covers, Marks
  <2>2. CASE (\E c \in Completions : Offer(c)) \/ UNCHANGED vars
    <3>1. UNCHANGED <<todo, disposed, active>>
      BY <2>2 DEF Offer, places, vars, runs, shared
    <3> QED BY <3>1 DEF Prompt, In
  <2> QED BY <1>2, <2>1, <2>2, OnlyStarts
<1>3. CASE ~In("start")
  <2>1. Runs(todo, "start") = {} /\ todo \in Seq(Frames)
    BY <1>3, QuietUnlessStarting DEF TypeOK
  <2>2. CASE Run
    <3>1. CASE Policy = "ordered" /\ active # {}
      BY <1>1, <2>1, <2>2, <3>1 DEF Run
    <3>2. CASE ~(Policy = "ordered" /\ active # {})
      <4> DEFINE f == Frame("start", nextRunId)
                 t == <<Frame("return", nextRunId)>> \o todo
      <4>1. f \in Frames /\ t \in Seq(Frames) /\ Over(t, todo) /\ todo' = <<f>> \o t
        BY <2>2, <3>2, RunStack
      <4>2. UNCHANGED <<disposed, active>> /\ ~disposed
        BY <2>2 DEF Run, shared
      <4> HIDE DEF f, t
      <4>3. Tail(todo') = t
        BY <4>1, Pushed
      <4>4. Runs(t, "start") = {}
        BY <2>1, <4>1 DEF Over, Kept, Covers, Marks
      <4> QED BY <3>2, <4>2, <4>3, <4>4 DEF Prompt
    <3> QED BY <3>1, <3>2
  <2>3. CASE StartNext /\ CanStartNext
    <3>1. Runs(Rest, "start") = {} /\ Rest \in Seq(Frames)
      BY <2>1, <2>3, StartNextStack DEF Covers, Marks
    <3> DEFINE f == Frame("start", Head(queue))
    <3>2. f \in Frames /\ todo' = <<f>> \o Rest
      BY <2>3, StartNextStack
    <3> HIDE DEF f
    <3>3. Tail(todo') = Rest
      BY <3>1, <3>2, Pushed
    <3>4. UNCHANGED <<disposed, active>> /\ ~disposed /\ active = {}
      BY <2>3 DEF StartNext, CanStartNext, DisposedIsInert, shared
    <3> QED BY <3>1, <3>3, <3>4 DEF Prompt
  <2> QED BY <1>1, <2>1, <2>2, <2>3, NoOtherStart
<1> QED BY <1>2, <1>3

\* The steps that give a Command an active run, a queued run or a completion.
LEMMA Growth ==
  ASSUME TypeOK, [Next]_vars, ~Start
  PROVE  /\ active' \subseteq active
         /\ disposed => disposed'
         /\ disposed /\ queue = <<>> => queue' = <<>>
         /\ disposed /\ mailbox = <<>> => mailbox' = <<>>
         /\ ~disposed /\ disposed' => active' = {} /\ queue' = <<>> /\ mailbox' = <<>>
<1> USE DEF runs, known, places, shared
<1>1. CASE Plain
  <2>1. CASE Return \/ CancelAll \/ TellCancelled \/ CancelAllActive \/ DeliverNone \/ Report
             \/ CallbackReturns \/ ResultEnds
    BY <2>1 DEF Return, CancelAll, TellCancelled, CancelAllActive, DeliverNone, Report,
                CallbackReturns, ResultEnds
  <2>2. CASE Dispose
    BY <2>2 DEF Dispose
  <2>3. ASSUME NEW id \in RunIds, Cancel(id) \/ Observe(id) \/ Unsubscribe(id)
        PROVE  UNCHANGED <<active, disposed, mailbox>> /\ (queue' = queue \/ ~disposed)
    BY <2>3 DEF Cancel, CancelRunning, CancelQueued, Observe, Unsubscribe
  <2>4. ASSUME NEW n \in 1 .. MaxPending, Pump(n)
        PROVE  UNCHANGED <<active, disposed, queue>> /\ ~disposed
    BY <2>4 DEF Pump
  <2>5. ASSUME NEW hook \in BOOLEAN, ExecutorReturns(hook)
        PROVE  UNCHANGED <<active, disposed, queue, mailbox>>
    BY <2>5 DEF ExecutorReturns
  <2>6. CASE CancelAllQueued /\ queue # <<>>
    BY <2>6 DEF CancelAllQueued
  <2>7. CASE DeliverOne
    BY <2>7 DEF DeliverOne, Complete
  <2>8. ASSUME NEW c \in Completions, Offer(c)
        PROVE  UNCHANGED <<active, disposed, queue>> /\ ~disposed
    BY <2>8 DEF Offer, Accepts
  <2> QED BY <1>1, <2>1, <2>2, <2>3, <2>4, <2>5, <2>6, <2>7, <2>8 DEF Plain
<1>2. CASE Run
  <2>1. UNCHANGED <<active, disposed, mailbox>> /\ ~disposed
    BY <1>2 DEF Run
  <2> QED BY <2>1
<1>3. CASE StartNext
  BY <1>3 DEF StartNext, CanStartNext
<1>4. CASE ExecutorRaises
  BY <1>4 DEF ExecutorRaises
<1>5. CASE CancelActive
  BY <1>5 DEF CancelActive
<1>6. CASE MarkCancelled
  BY <1>6 DEF MarkCancelled
<1>7. CASE CancelAllQueued /\ queue = <<>>
  BY <1>7 DEF CancelAllQueued
<1>8. CASE Unwind
  BY <1>8 DEF Unwind
<1>9. CASE UNCHANGED vars
  BY <1>9 DEF vars
<1> QED BY <1>1, <1>2, <1>3, <1>4, <1>5, <1>6, <1>7, <1>8, <1>9, StepCases

\* The two properties, with one of them in the form its proof needs.
Serial == Policy = "ordered" => \E id \in RunIds : active \subseteq {id}

LEMMA SerialNext ==
  ASSUME TypeOK, Prompt, DisposedIsInert, Serial, Policy # "latest", [Next]_vars
  PROVE  DisposedIsInert' /\ Serial'
<1>1. CASE Start
  <2>1. Current \in RunIds /\ In("start")
    BY <1>1, OnTop DEF Start, AboutRun
  <2>2. UNCHANGED <<queue, mailbox, disposed>> /\ active' = active \cup {Current}
    BY <1>1 DEF Start, shared
  <2>3. ~disposed /\ (Policy = "ordered" => active = {})
    BY <2>1 DEF Prompt
  <2> QED BY <2>1, <2>2, <2>3 DEF DisposedIsInert, Serial
<1>2. CASE ~Start
  BY <1>2, Growth DEF DisposedIsInert, Serial
<1> QED BY <1>1, <1>2

LEMMA SerialInit == Init => Prompt /\ DisposedIsInert /\ Serial
<1> SUFFICES ASSUME Init PROVE Prompt /\ DisposedIsInert /\ Serial
  OBVIOUS
<1>1. 1 \in RunIds
  BY Constants_Assumption DEF RunIds
<1> QED BY <1>1 DEF Init, Prompt, DisposedIsInert, Serial, In

\* Once disposed, a Command whose runs do not replace each other has nothing
\* active, queued or pending, and its nil executor is never called
\* (releaseCommand, run, startNextOrdered).
THEOREM InertAfterDisposal ==
  ASSUME Policy # "latest"
  PROVE  Spec => []DisposedIsInert
<1>1. Init => Prompt /\ DisposedIsInert /\ Serial
  BY SerialInit
<1>2. /\ TypeOK /\ Prompt /\ DisposedIsInert /\ Serial /\ [Next]_vars
      => (Prompt /\ DisposedIsInert /\ Serial)'
  BY PromptNext, SerialNext
<1> QED BY <1>1, <1>2, Typed, PTL DEF Spec

\* "cpOrdered starts one operation at a time" (docs/frontend-runtime.md:383),
\* whatever its callbacks call and whichever of them raises (run,
\* startNextOrdered, startQueued).
THEOREM RunsOneAtATime ==
  ASSUME Policy # "latest"
  PROVE  Spec => []OneAtATime
<1>1. Init => Prompt /\ DisposedIsInert /\ Serial
  BY SerialInit
<1>2. /\ TypeOK /\ Prompt /\ DisposedIsInert /\ Serial /\ [Next]_vars
      => (Prompt /\ DisposedIsInert /\ Serial)'
  BY PromptNext, SerialNext
<1>3. Serial => OneAtATime
  <2> SUFFICES ASSUME Policy = "ordered", NEW id \in RunIds, active \subseteq {id}
               PROVE  Cardinality(active) <= 1
    BY Constants_Assumption DEF Serial, OneAtATime
  <2>1. IsFiniteSet({id}) /\ Cardinality({id}) = 1
    BY FS_Singleton
  <2> QED BY <2>1, FS_Subset
<1> QED BY <1>1, <1>2, <1>3, Typed, PTL DEF Spec

-----------------------------------------------------------------------------
(* The queue as a set.                                                     *)

LEMMA WithoutSet ==
  ASSUME NEW q \in Seq(RunIds), NEW i \in DOMAIN q, IsInjective(q)
  PROVE  ToSet(Without(q, i)) = ToSet(q) \ {q[i]} /\ IsInjective(Without(q, i))
<1> DEFINE w == Without(q, i)
<1>1. /\ Len(q) \in Nat /\ DOMAIN q = 1 .. Len(q) /\ i \in 1 .. Len(q)
      /\ DOMAIN w = 1 .. Len(q) - 1
      /\ \A j \in 1 .. Len(q) - 1 : w[j] = IF j < i THEN q[j] ELSE q[j + 1]
  BY WithoutTyped, LenProperties
<1> HIDE DEF w
<1>2. \A j \in DOMAIN w : \/ j < i /\ j \in DOMAIN q /\ w[j] = q[j]
                          \/ j >= i /\ j + 1 \in DOMAIN q /\ w[j] = q[j + 1]
  BY <1>1
<1>3. \A j \in DOMAIN q : \/ j < i /\ j \in DOMAIN w /\ w[j] = q[j]
                          \/ j = i
                          \/ j > i /\ j - 1 \in DOMAIN w /\ w[j - 1] = q[j]
  <2> TAKE j \in DOMAIN q
  <2>1. CASE j < i
    BY <1>1, <2>1
  <2>2. CASE j > i
    <3>1. j - 1 \in 1 .. Len(q) - 1 /\ ~(j - 1 < i) /\ (j - 1) + 1 = j
      BY <1>1, <2>2
    <3> QED BY <1>1, <2>2, <3>1
  <2> QED BY <1>1, <2>1, <2>2
<1>4. ToSet(w) \subseteq ToSet(q) \ {q[i]}
  <2> SUFFICES ASSUME NEW j \in DOMAIN w PROVE w[j] \in ToSet(q) \ {q[i]}
    BY DEF ToSet
  <2>1. \E k \in DOMAIN q : k # i /\ w[j] = q[k]
    BY <1>1, <1>2
  <2> QED BY <2>1 DEF ToSet, IsInjective
<1>5. ToSet(q) \ {q[i]} \subseteq ToSet(w)
  <2> SUFFICES ASSUME NEW j \in DOMAIN q, j # i PROVE q[j] \in ToSet(w)
    BY DEF ToSet
  <2> QED BY <1>3 DEF ToSet
<1>6. IsInjective(w)
  <2> SUFFICES ASSUME NEW j \in DOMAIN w, NEW k \in DOMAIN w, w[j] = w[k]
               PROVE  j = k
    BY DEF IsInjective
  <2> DEFINE At(n) == IF n < i THEN n ELSE n + 1
  <2>1. /\ At(j) \in DOMAIN q /\ w[j] = q[At(j)]
        /\ At(k) \in DOMAIN q /\ w[k] = q[At(k)]
    BY <1>1, <1>2
  <2>2. At(j) = At(k)
    <3> HIDE DEF At
    <3> QED BY <2>1 DEF IsInjective
  <2> QED BY <1>1, <2>2
<1> QED BY <1>4, <1>5, <1>6 DEF w

LEMMA FrontIsWithout ==
  ASSUME NEW q \in Seq(RunIds), q # <<>>
  PROVE  Len(q) \in DOMAIN q /\ Front(q) = Without(q, Len(q)) /\ Last(q) = q[Len(q)]
<1>1. /\ Front(q) \in Seq(RunIds) /\ Last(q) = q[Len(q)]
      /\ Len(q) \in Nat \ {0} /\ DOMAIN q = 1 .. Len(q) /\ Len(Front(q)) = Len(q) - 1
      /\ \A j \in 1 .. Len(q) - 1 : Front(q)[j] = q[j]
  BY FrontTyped
<1>2. Len(q) \in DOMAIN q
  BY <1>1
<1> DEFINE w == Without(q, Len(q))
<1>3. /\ w \in Seq(RunIds) /\ Len(w) = Len(q) - 1
      /\ \A j \in 1 .. Len(q) - 1 : w[j] = IF j < Len(q) THEN q[j] ELSE q[j + 1]
  BY <1>2, WithoutTyped
<1> HIDE DEF w
<1>4. \A j \in 1 .. Len(q) - 1 : j < Len(q)
  BY <1>1
<1>5. \A j \in 1 .. Len(Front(q)) : Front(q)[j] = w[j]
  BY <1>1, <1>3, <1>4
<1>6. Front(q) = w
  BY <1>1, <1>3, <1>5, SeqEqual
<1> QED BY <1>1, <1>2, <1>6 DEF w

LEMMA TailIsWithout ==
  ASSUME NEW q \in Seq(RunIds), q # <<>>
  PROVE  1 \in DOMAIN q /\ Tail(q) = Without(q, 1) /\ Head(q) = q[1]
<1> DEFINE w == Without(q, 1)
           t == Tail(q)
<1>1. /\ Len(q) \in Nat \ {0} /\ DOMAIN q = 1 .. Len(q) /\ Head(q) = q[1]
      /\ t \in Seq(RunIds) /\ Len(t) = Len(q) - 1
      /\ \A j \in 1 .. Len(q) - 1 : t[j] = q[j + 1]
  BY LenProperties, EmptySeq, HeadTailProperties
<1>2. 1 \in DOMAIN q
  BY <1>1
<1>3. /\ w \in Seq(RunIds) /\ Len(w) = Len(q) - 1
      /\ \A j \in 1 .. Len(q) - 1 : w[j] = IF j < 1 THEN q[j] ELSE q[j + 1]
  BY <1>2, WithoutTyped
<1> HIDE DEF w, t
<1>4. \A j \in 1 .. Len(t) : t[j] = w[j]
  BY <1>1, <1>3
<1>5. t = w
  BY <1>1, <1>3, <1>4, SeqEqual
<1> QED BY <1>1, <1>2, <1>5 DEF w, t

LEMMA AppendSet ==
  ASSUME NEW q \in Seq(RunIds), IsInjective(q), NEW e \in RunIds, e \notin ToSet(q)
  PROVE  ToSet(Append(q, e)) = ToSet(q) \cup {e} /\ IsInjective(Append(q, e))
<1> DEFINE a == Append(q, e)
<1>1. /\ Len(q) \in Nat /\ DOMAIN q = 1 .. Len(q) /\ DOMAIN a = 1 .. Len(q) + 1
      /\ \A j \in 1 .. Len(q) : a[j] = q[j]
      /\ a[Len(q) + 1] = e
  <2>1. Len(q) \in Nat /\ DOMAIN q = 1 .. Len(q)
    BY LenProperties
  <2>2. /\ a \in Seq(RunIds) /\ Len(a) = Len(q) + 1 /\ a[Len(q) + 1] = e
        /\ \A j \in 1 .. Len(q) : a[j] = q[j]
    BY AppendProperties
  <2>3. DOMAIN a = 1 .. Len(q) + 1
    BY <2>2, LenProperties
  <2> QED BY <2>1, <2>2, <2>3
<1> HIDE DEF a
<1>2. \A j \in DOMAIN a : (j \in DOMAIN q /\ a[j] = q[j]) \/ (j = Len(q) + 1 /\ a[j] = e)
  BY <1>1
<1>3. Len(q) + 1 \in DOMAIN a /\ \A j \in DOMAIN q : j \in DOMAIN a
  BY <1>1
<1>4. ToSet(a) = ToSet(q) \cup {e}
  BY <1>1, <1>2, <1>3 DEF ToSet
<1>5. IsInjective(a)
  <2> SUFFICES ASSUME NEW j \in DOMAIN a, NEW k \in DOMAIN a, a[j] = a[k]
               PROVE  j = k
    BY DEF IsInjective
  <2>1. \A n \in DOMAIN q : q[n] # e
    BY DEF ToSet
  <2>2. CASE j \in DOMAIN q /\ a[j] = q[j]
    <3>1. k \in DOMAIN q /\ a[k] = q[k]
      BY <1>2, <2>1, <2>2
    <3> QED BY <2>2, <3>1 DEF IsInjective
  <2>3. CASE j = Len(q) + 1 /\ a[j] = e
    <3>1. k = Len(q) + 1
      BY <1>2, <2>1, <2>3
    <3> QED BY <2>3, <3>1
  <2> QED BY <1>2, <2>2, <2>3
<1> QED BY <1>4, <1>5 DEF a
-----------------------------------------------------------------------------
(* Where the runs are.                                                     *)

LEMMA PlacedKept ==
  ASSUME Placed, Covers(todo', todo), UNCHANGED <<status, active, queue, nextRunId>>
  PROVE  Placed'
<1>1. /\ Runs(todo', "start") = Runs(todo, "start")
      /\ Runs(todo', "markCancelled") = Runs(todo, "markCancelled")
      /\ Once(todo, "start") => Once(todo', "start")
      /\ Once(todo, "markCancelled") => Once(todo', "markCancelled")
  BY DEF Covers, Marks
<1> QED BY <1>1 DEF Placed

\* A queued run is cancelled: it leaves the queue.
LEMMA PlacedUnqueued ==
  ASSUME TypeOK, Placed, NEW i \in DOMAIN queue, queue' = Without(queue, i),
         status' = [status EXCEPT ![queue[i]] = "cancelled"],
         Covers(todo', todo), UNCHANGED <<active, nextRunId>>
  PROVE  Placed' /\ status[queue[i]] = "queued"
<1> DEFINE id == queue[i]
           q == ToSet(queue)
           s == Runs(todo, "start")
           m == Runs(todo, "markCancelled")
<1>1. /\ Runs(todo', "start") = s /\ Runs(todo', "markCancelled") = m
      /\ Once(todo', "start") /\ Once(todo', "markCancelled")
  BY DEF Covers, Marks, Placed
<1>2. ToSet(queue') = q \ {id} /\ IsInjective(queue')
  BY WithoutSet DEF TypeOK, Placed
<1>3. id \in q /\ id \in RunIds /\ status' = [status EXCEPT ![id] = "cancelled"]
  <2>1. id \in RunIds
    BY ElementOfSeq, LenProperties DEF TypeOK
  <2> QED BY <2>1 DEF ToSet
<1>4. Where(status, active, m, q, s, nextRunId)
  BY DEF Placed
<1> HIDE DEF id, q, s, m
<1>5. Where(status', active, m, q \ {id}, s, nextRunId) /\ status[id] = "queued"
  BY <1>3, <1>4 DEF Where, TypeOK
<1> QED BY <1>1, <1>2, <1>5 DEF Placed, id

\* The marked call on top is the only one about its run.
LEMMA MarkTaken ==
  ASSUME TypeOK, Placed, NEW op \in Marks, In(op)
  PROVE  /\ Runs(todo, op) = Runs(Rest, op) \cup {Current}
         /\ Current \notin Runs(Rest, op)
         /\ \A m \in Marks \ {op} : Runs(todo, m) = Runs(Rest, m)
         /\ \A m \in Marks : Once(Rest, m)
<1>1. todo \in Seq(Frames) /\ todo # <<>> /\ Head(todo).op = op
  BY OnTop
<1> DEFINE h == Head(todo)
           r == Tail(todo)
<1>2. \A m : /\ Runs(todo, m) = Runs(r, m) \cup (IF h.op = m THEN {h.run} ELSE {})
             /\ Once(todo, m) => Once(r, m) /\ (h.op = m => h.run \notin Runs(r, m))
  BY <1>1, Popped, Zenon
<1>3. \A m \in Marks : Once(todo, m)
  BY DEF Placed, Marks
<1>4. h.op = op /\ h.run = Current /\ r = Rest
  BY <1>1 DEF Current, Rest
<1> HIDE DEF h, r
<1> QED BY <1>2, <1>3, <1>4

LEMMA PlacedStart ==
  ASSUME TypeOK, Placed, Start
  PROVE  Placed' /\ status[Current] = "queued"
<1> DEFINE id == Current
           q == ToSet(queue)
           s == Runs(Rest, "start")
           m == Runs(Rest, "markCancelled")
<1>1. In("start") /\ id \in RunIds
  BY OnTop DEF Start, AboutRun
<1>2. /\ Runs(todo, "start") = s \cup {id} /\ Runs(todo, "markCancelled") = m
      /\ id \notin s /\ Once(Rest, "start") /\ Once(Rest, "markCancelled")
  BY <1>1, MarkTaken DEF Marks
<1>3. /\ Runs(todo', "start") = s /\ Runs(todo', "markCancelled") = m
      /\ Once(todo', "start") /\ Once(todo', "markCancelled")
  BY <1>2, StartStack DEF Covers, Marks
<1>4. /\ status' = [status EXCEPT ![id] = "running"] /\ active' = active \cup {id}
      /\ UNCHANGED <<queue, nextRunId>>
  BY DEF Start, known
<1>5. Where(status, active, m, q, s \cup {id}, nextRunId)
  BY <1>2 DEF Placed
<1> HIDE DEF id, q, s, m
<1>6. Where(status', active', m, q, s, nextRunId) /\ status[id] = "queued"
  BY <1>1, <1>2, <1>4, <1>5 DEF Where, TypeOK
<1> QED BY <1>3, <1>4, <1>6 DEF Placed, id, q

LEMMA PlacedMarked ==
  ASSUME TypeOK, Placed, MarkCancelled
  PROVE  Placed' /\ status[Current] = "running"
<1> DEFINE id == Current
           q == ToSet(queue)
           s == Runs(Rest, "start")
           m == Runs(Rest, "markCancelled")
<1>1. In("markCancelled") /\ id \in RunIds
  BY OnTop DEF MarkCancelled, AboutRun
<1>2. /\ Runs(todo, "markCancelled") = m \cup {id} /\ Runs(todo, "start") = s
      /\ id \notin m /\ Once(Rest, "start") /\ Once(Rest, "markCancelled")
  BY <1>1, MarkTaken DEF Marks
<1>3. /\ Runs(todo', "start") = s /\ Runs(todo', "markCancelled") = m
      /\ Once(todo', "start") /\ Once(todo', "markCancelled")
  BY <1>2, MarkCancelledStack DEF Over, Kept, Covers, Marks
<1>4. /\ status' = [status EXCEPT ![id] = "cancelled"]
      /\ UNCHANGED <<active, queue, nextRunId>>
  BY DEF MarkCancelled, known
<1>5. Where(status, active, m \cup {id}, q, s, nextRunId)
  BY <1>2 DEF Placed
<1> HIDE DEF id, q, s, m
<1>6. Where(status', active, m, q, s, nextRunId) /\ status[id] = "running"
  BY <1>1, <1>2, <1>4, <1>5 DEF Where, TypeOK
<1> QED BY <1>3, <1>4, <1>6 DEF Placed, id, q

LEMMA PlacedCancelled ==
  ASSUME TypeOK, Placed, CancelActive
  PROVE  Placed' /\ status' = status
<1>1. In("cancelActive") /\ UNCHANGED <<status, queue, nextRunId>>
  BY DEF CancelActive, known
<1>2. Covers(Rest, todo) /\ Rest \in Seq(Frames)
  BY <1>1, RestKept DEF Marks
<1>3. CASE Current \notin active
  <2>1. todo' = Rest /\ UNCHANGED active
    BY <1>3 DEF CancelActive
  <2> QED BY <1>1, <1>2, <2>1, PlacedKept
<1>4. CASE Current \in active
  <2> DEFINE f == Frame("markCancelled", Current)
             id == Current
             q == ToSet(queue)
             s == Runs(todo, "start")
             m == Runs(todo, "markCancelled")
  <2>1. /\ f \in Frames /\ f.op = "markCancelled" /\ f.run = id
        /\ Over(todo', <<f>> \o Rest)
    BY <1>4, CancelActiveStack
  <2>2. /\ Runs(Rest, "start") = s /\ Runs(Rest, "markCancelled") = m
        /\ Once(Rest, "start") /\ Once(Rest, "markCancelled")
    BY <1>2 DEF Covers, Marks, Placed
  <2>3. Where(status, active, m, q, s, nextRunId) /\ active' = active \ {id}
    BY <1>4 DEF Placed, CancelActive
  <2> HIDE DEF f, id, q, s, m
  <2>4. id \in active /\ id \notin m
    BY <1>4, <2>3 DEF Where, id
  <2>5. /\ Runs(<<f>> \o Rest, "start") = s \cup {}
        /\ Runs(<<f>> \o Rest, "markCancelled") = m \cup {id}
        /\ Once(<<f>> \o Rest, "start") /\ Once(<<f>> \o Rest, "markCancelled")
    BY <1>2, <2>1, <2>2, <2>4, RunsPushed
  <2>6. /\ Runs(todo', "start") = s /\ Runs(todo', "markCancelled") = m \cup {id}
        /\ Once(todo', "start") /\ Once(todo', "markCancelled")
    BY <2>1, <2>5 DEF Over, Kept, Covers, Marks
  <2>7. Where(status, active', m \cup {id}, q, s, nextRunId)
    BY <2>3, <2>4 DEF Where
  <2> QED BY <1>1, <2>6, <2>7 DEF Placed, q
<1> QED BY <1>1, <1>3, <1>4
LEMMA PlacedRun ==
  ASSUME TypeOK, Placed, Run
  PROVE  Placed' /\ status[nextRunId] = "new"
<1> DEFINE id == nextRunId
           q == ToSet(queue)
           s == Runs(todo, "start")
           m == Runs(todo, "markCancelled")
<1>1. /\ id \in RunIds /\ nextRunId' = id + 1 /\ status' = [status EXCEPT ![id] = "queued"]
      /\ active' = active
  BY DEF Run
<1>2. RunIds \subseteq Nat
  BY Constants_Assumption DEF RunIds
<1>3. Where(status, active, m, q, s, id) /\ Once(todo, "start") /\ Once(todo, "markCancelled")
  BY DEF Placed
<1>4. q \subseteq RunIds
  BY ElementOfSeq, LenProperties DEF TypeOK, ToSet
<1>5. CASE Policy = "ordered" /\ active # {}
  <2>1. queue' = Append(queue, id) /\ todo' = todo
    BY <1>5 DEF Run, Enqueued
  <2> HIDE DEF id, s, m
  <2>2. Where(status', active', m, q \cup {id}, s, id + 1) /\ status[id] = "new" /\ id \notin q
    <3> HIDE DEF q
    <3>1. id >= id
      BY <1>1, <1>2
    <3>2. \A r \in RunIds : r >= id + 1 => r >= id /\ r # id
      BY <1>1, <1>2
    <3> QED BY <1>1, <1>3, <1>4, <3>1, <3>2 DEF Where, TypeOK
  <2>3. ToSet(queue') = q \cup {id} /\ IsInjective(queue')
    BY <1>1, <2>1, <2>2, AppendSet DEF TypeOK, Placed
  <2> QED BY <1>1, <1>3, <2>1, <2>2, <2>3 DEF Placed, s, m, id
<1>6. CASE ~(Policy = "ordered" /\ active # {})
  <2> DEFINE f == Frame("start", nextRunId)
             t == <<Frame("return", nextRunId)>> \o todo
  <2>1. /\ f \in Frames /\ t \in Seq(Frames) /\ f.op = "start" /\ f.run = id
        /\ Over(t, todo) /\ Over(todo', <<f>> \o t)
    BY <1>6, RunStack
  <2>2. queue' = queue
    BY <1>6 DEF Run
  <2> HIDE DEF f
  <2>4. /\ Runs(t, "start") = s /\ Runs(t, "markCancelled") = m
        /\ Once(t, "start") /\ Once(t, "markCancelled")
    BY <1>3, <2>1 DEF Over, Kept, Covers, Marks
  <2> HIDE DEF t, id, q, s, m
  <2>5. /\ Where(status', active', m, q, s \cup {id}, id + 1) /\ status[id] = "new"
        /\ id \notin s
    <3>1. id >= id
      BY <1>1, <1>2
    <3>2. \A r \in RunIds : r >= id + 1 => r >= id /\ r # id
      BY <1>1, <1>2
    <3> QED BY <1>1, <1>3, <1>4, <3>1, <3>2 DEF Where, TypeOK
  <2>6. /\ Runs(<<f>> \o t, "start") = s \cup {id} /\ Runs(<<f>> \o t, "markCancelled") = m \cup {}
        /\ Once(<<f>> \o t, "start") /\ Once(<<f>> \o t, "markCancelled")
    BY <2>1, <2>4, <2>5, RunsPushed
  <2>7. /\ Runs(todo', "start") = s \cup {id} /\ Runs(todo', "markCancelled") = m
        /\ Once(todo', "start") /\ Once(todo', "markCancelled")
    BY <2>1, <2>6 DEF Over, Kept, Covers, Marks
  <2> QED BY <1>1, <2>2, <2>5, <2>7 DEF Placed, q, id
<1> QED BY <1>5, <1>6

LEMMA PlacedStartNext ==
  ASSUME TypeOK, Placed, StartNext
  PROVE  Placed' /\ status' = status
<1>1. Covers(Rest, todo) /\ Rest \in Seq(Frames) /\ UNCHANGED <<status, active, nextRunId>>
  BY StartNextStack DEF StartNext, known
<1>2. CASE ~CanStartNext
  BY <1>1, <1>2, PlacedKept, StartNextStack
<1>3. CASE CanStartNext
  <2> DEFINE id == queue[1]
             f == Frame("start", id)
             q == ToSet(queue)
             s == Runs(todo, "start")
             m == Runs(todo, "markCancelled")
  <2>1. /\ 1 \in DOMAIN queue /\ queue' = Without(queue, 1) /\ id = Head(queue)
        /\ f \in Frames /\ todo' = <<f>> \o Rest
    BY <1>3, TailIsWithout, StartNextStack DEF CanStartNext, TypeOK
  <2>2. ToSet(queue') = q \ {id} /\ IsInjective(queue') /\ id \in q
    <3>1. queue \in Seq(RunIds) /\ IsInjective(queue)
      BY DEF TypeOK, Placed
    <3>2. ToSet(Without(queue, 1)) = q \ {id} /\ IsInjective(Without(queue, 1))
      BY <2>1, <3>1, WithoutSet
    <3>3. id \in q
      BY <2>1 DEF ToSet
    <3> QED BY <2>1, <3>2, <3>3, Zenon
  <2>3. /\ Runs(Rest, "start") = s /\ Runs(Rest, "markCancelled") = m
        /\ Once(Rest, "start") /\ Once(Rest, "markCancelled")
    BY <1>1 DEF Covers, Marks, Placed
  <2>4. Where(status, active, m, q, s, nextRunId)
    BY DEF Placed
  <2>5. f.op = "start" /\ f.run = id
    BY DEF Frame
  <2> HIDE DEF id, f, q, s, m
  <2>6. Where(status, active, m, q \ {id}, s \cup {id}, nextRunId) /\ id \notin s
    BY <2>2, <2>4 DEF Where
  <2>7. /\ Runs(<<f>> \o Rest, "start") = s \cup {id}
        /\ Runs(<<f>> \o Rest, "markCancelled") = m \cup {}
        /\ Once(<<f>> \o Rest, "start") /\ Once(<<f>> \o Rest, "markCancelled")
    <3>1. f \in Frames /\ Rest \in Seq(Frames)
      BY <1>1, <2>1
    <3>2. f.run \notin Runs(Rest, "start")
      BY <2>3, <2>5, <2>6
    <3>3. /\ Runs(<<f>> \o Rest, "start") = s \cup {id}
          /\ Once(<<f>> \o Rest, "start")
      BY <2>3, <2>5, <3>1, <3>2, RunsPushed
    <3>4. /\ Runs(<<f>> \o Rest, "markCancelled") = m \cup {}
          /\ Once(<<f>> \o Rest, "markCancelled")
      BY <2>3, <2>5, <3>1, RunsPushed
    <3> QED BY <3>3, <3>4
  <2>8. /\ Runs(todo', "start") = s \cup {id} /\ Runs(todo', "markCancelled") = m
        /\ Once(todo', "start") /\ Once(todo', "markCancelled")
    BY <2>1, <2>7
  <2> QED BY <1>1, <2>2, <2>6, <2>8 DEF Placed
<1> QED BY <1>1, <1>2, <1>3

LEMMA PlacedDisposed ==
  ASSUME TypeOK, Placed, Dispose
  PROVE  /\ Placed'
         /\ \A id \in RunIds : status[id] \in Final => status'[id] = status[id]
<1> DEFINE q == ToSet(queue)
           s == Runs(todo, "start")
           m == Runs(todo, "markCancelled")
<1>1. /\ status' = [id \in RunIds |-> IF id \in active \cup q THEN "cancelled" ELSE status[id]]
      /\ active' = {} /\ queue' = <<>> /\ UNCHANGED <<todo, nextRunId>>
  BY DEF Dispose, known
<1>2. Where(status, active, m, q, s, nextRunId) /\ Once(todo, "start") /\ Once(todo, "markCancelled")
  BY DEF Placed
<1>3. ToSet(queue') = {} /\ IsInjective(queue')
  BY <1>1 DEF ToSet, IsInjective
<1> HIDE DEF q, s, m
<1>4. /\ Where(status', {}, m, {}, s, nextRunId)
      /\ \A id \in RunIds : status[id] \in Final => status'[id] = status[id]
  BY <1>1, <1>2 DEF Where, Final, Outcome
<1> QED BY <1>1, <1>2, <1>3, <1>4 DEF Placed, s, m

LEMMA PlacedDelivered ==
  ASSUME TypeOK, Placed, DeliverOne
  PROVE  /\ Placed'
         /\ \A id \in RunIds : status[id] \in Final => status'[id] = status[id]
<1> DEFINE c == Head(todo).batch[1]
           q == ToSet(queue)
           s == Runs(todo, "start")
           m == Runs(todo, "markCancelled")
<1>1. c \in Completions
  <2>1. Head(todo).batch \in Seq(Completions) /\ Head(todo).batch # <<>>
    BY OnTop DEF DeliverOne, InPump, AboutAll
  <2> QED BY <2>1, EmptySeq, ElementOfSeq, LenProperties
<1>2. Complete(c) /\ IsCurrent(c) /\ UNCHANGED <<queue, nextRunId>>
  BY DEF DeliverOne, known
<1>3. /\ Runs(todo', "start") = s /\ Runs(todo', "markCancelled") = m
      /\ Once(todo', "start") /\ Once(todo', "markCancelled")
  BY DeliveryOver DEF Over, Kept, Covers, Marks, Placed
<1>4. Where(status, active, m, q, s, nextRunId)
  BY DEF Placed
<1> HIDE DEF c, s, m
<1>5. c.run \in active /\ c.run \in RunIds /\ c.outcome \in Outcome
  BY <1>1, <1>2 DEF Completions, IsCurrent
<1>6. /\ Where(status', active', m, q, s, nextRunId)
      /\ \A id \in RunIds : status[id] \in Final => status'[id] = status[id]
  <2> HIDE DEF q
  <2> QED BY <1>2, <1>4, <1>5 DEF Where, Complete, Final, Outcome, TypeOK
<1> QED BY <1>2, <1>3, <1>6 DEF Placed
LEMMA ExecutorsTyped == TypeOK => Runs(todo, "executor") \subseteq RunIds
<1> SUFFICES ASSUME TypeOK PROVE Runs(todo, "executor") \subseteq RunIds
  OBVIOUS
<1>1. \A i \in DOMAIN todo : todo[i].op = "executor" => todo[i].run \in RunIds
  BY FrameTyped, ElementOfSeq, LenProperties DEF TypeOK, AboutRun, Callbacks
<1> QED BY <1>1 DEF Runs

\* The executor on top is the only one about its run.
LEMMA ExecutorTaken ==
  ASSUME TypeOK, Begun, In("executor")
  PROVE  /\ Current \in RunIds /\ Current \in Runs(todo, "executor")
         /\ Current \notin Runs(Rest, "executor") /\ Current \notin Runs(todo, "markCancelled")
         /\ Rest \in Seq(Frames)
<1>1. /\ todo \in Seq(Frames) /\ todo # <<>> /\ Head(todo).op = "executor"
      /\ Current \in RunIds /\ Rest \in Seq(Frames)
  BY OnTop DEF AboutRun, Callbacks
<1> DEFINE h == Head(todo)
           r == Tail(todo)
<1>2. /\ Runs(todo, "executor") = Runs(r, "executor")
                                     \cup (IF h.op = "executor" THEN {h.run} ELSE {})
      /\ Once(todo, "executor") /\ h.op = "executor" => h.run \notin Runs(r, "executor")
  BY <1>1, Popped, Zenon
<1>3. h.op = "executor" /\ h.run = Current /\ r = Rest
  BY <1>1 DEF Current, Rest
<1> HIDE DEF h, r
<1>4. Current \in Runs(todo, "executor") /\ Current \notin Runs(Rest, "executor")
  BY <1>2, <1>3 DEF Begun
<1>5. ~In("markCancelled")
  BY DEF In
<1> QED BY <1>1, <1>4, <1>5 DEF Begun

\* A step that begins no executor and marks none of those in progress.
LEMMA BegunKept ==
  ASSUME Begun, NoneBegun(todo', todo), ~In("markCancelled"),
         Runs(todo', "markCancelled") \subseteq Runs(todo, "markCancelled"),
         \A id \in Runs(todo', "executor") :
           /\ work'[id] = "none"
           /\ \/ status'[id] \in {status[id], "cancelled"}
              \/ ~NoPumpInside /\ status'[id] \in Outcome
  PROVE  Begun'
<1>1. Once(todo', "executor") /\ Runs(todo', "executor") \subseteq Runs(todo, "executor")
  BY DEF Begun, NoneBegun
<1>2. ASSUME NEW id \in Runs(todo', "executor")
      PROVE  /\ status'[id] \notin {"new", "queued"} /\ work'[id] = "none"
             /\ id \notin Runs(todo', "markCancelled")
             /\ NoPumpInside => status'[id] \notin Outcome
  BY <1>1, <1>2 DEF Begun, Outcome
<1> QED BY <1>1, <1>2 DEF Begun

\* When no callback pumps, a pump is never over an executor.
LEMMA PumpIsOutermost ==
  ASSUME TypeOK, Linked(todo), NoPumpInside, InPump
  PROVE  Runs(todo, "executor") = {}
<1>1. PICK op \in Pumps : In(op)
  BY DEF InPump, Pumps
<1>2. todo \in Seq(Frames) /\ todo # <<>> /\ Head(todo).op = op /\ Rest \in Seq(Frames)
  BY <1>1, OnTop
<1>3. Top(Rest) = "loop"
  BY <1>1, TopOfRest DEF Link
<1>4. Rest = <<>>
  <2>1. Rest # <<>> => Head(Rest) \in Frames
    BY <1>2, Popped
  <2> QED BY <1>3, <2>1, FrameTyped DEF Top, AboutRun, AboutAll, Callbacks, NoThrow
<1> DEFINE h == Head(todo)
           r == Tail(todo)
<1>5. Runs(todo, "executor") = Runs(r, "executor")
                                 \cup (IF h.op = "executor" THEN {h.run} ELSE {})
  BY <1>2, Popped, Zenon
<1>6. h.op # "executor" /\ r = <<>>
  BY <1>2, <1>4 DEF Rest, Pumps
<1> HIDE DEF h, r
<1>7. Runs(r, "executor") = {}
  BY <1>6 DEF Runs
<1> QED BY <1>5, <1>6, <1>7

LEMMA NotMarking ==
  ASSUME In("markCancelled")
  PROVE  /\ \A op : In(op) => op = "markCancelled"
         /\ \A call : ~MayCall(call)
BY Constants_Assumption DEF In, MayCall, Callbacks, NoThrow

LEMMA PlainBegun ==
  ASSUME TypeOK, Begun, Linked(todo), Plain
  PROVE  Begun'
<1> USE DEF runs, known, places, shared
<1>1. /\ NoneBegun(todo', todo)
      /\ Runs(todo', "markCancelled") \subseteq Runs(todo, "markCancelled")
  BY PlainOver DEF Over, Kept, Covers, Marks
<1>2. Runs(todo', "executor") \subseteq Runs(todo, "executor") \cap RunIds
  BY <1>1, ExecutorsTyped DEF NoneBegun
<1>3. ASSUME UNCHANGED <<status, work>>, ~In("markCancelled") PROVE Begun'
  BY <1>1, <1>2, <1>3, BegunKept DEF Begun
<1>4. CASE Return \/ CancelAll \/ TellCancelled \/ CancelAllActive \/ DeliverNone \/ Report
             \/ CallbackReturns \/ ResultEnds
  <2>1. UNCHANGED <<status, work>>
    BY <1>4 DEF Return, CancelAll, TellCancelled, CancelAllActive, DeliverNone, Report,
                CallbackReturns, ResultEnds
  <2>2. ~In("markCancelled")
    <3> SUFFICES ASSUME In("markCancelled") PROVE FALSE
      OBVIOUS
    <3> QED BY <1>4, NotMarking DEF Return, CancelAll, TellCancelled, CancelAllActive,
                 DeliverNone, InPump, Report, CallbackReturns, ResultEnds, NoThrow
  <2> QED BY <1>3, <2>1, <2>2
<1>5. CASE Dispose
  <2>1. ~In("markCancelled")
    BY <1>5, NotMarking DEF Dispose
  <2>2. /\ status' = [id \in RunIds |-> IF id \in active \cup ToSet(queue) THEN "cancelled"
                                       ELSE status[id]]
        /\ work' = [id \in RunIds |-> IF id \in active /\ work[id] = "live"
                                     THEN "called" ELSE work[id]]
    BY <1>5 DEF Dispose
  <2>4. \A id \in Runs(todo', "executor") : /\ work'[id] = "none"
                                            /\ status'[id] \in {status[id], "cancelled"}
    BY <1>2, <2>2 DEF Begun
  <2> QED BY <1>1, <2>1, <2>4, BegunKept
<1>6. ASSUME NEW id \in RunIds, Cancel(id) PROVE Begun'
  <2>1. ~In("markCancelled")
    BY <1>6, NotMarking DEF Cancel
  <2>2. CASE CancelRunning(id)
    BY <1>3, <2>1, <2>2 DEF CancelRunning
  <2>3. CASE CancelQueued(id)
    <3>1. status' = [status EXCEPT ![id] = "cancelled"] /\ work' = work
      BY <2>3 DEF CancelQueued
    <3>2. \A r \in Runs(todo', "executor") : /\ work'[r] = "none"
                                             /\ status'[r] \in {status[r], "cancelled"}
      BY <1>2, <3>1 DEF Begun, TypeOK
    <3> QED BY <1>1, <2>1, <3>2, BegunKept
  <2> QED BY <1>6, <2>2, <2>3 DEF Cancel
<1>7. ASSUME NEW id \in RunIds, Observe(id) \/ Unsubscribe(id) PROVE Begun'
  <2>1. ~In("markCancelled") /\ UNCHANGED <<status, work>>
    BY <1>7, NotMarking DEF Observe, Unsubscribe
  <2> QED BY <1>3, <2>1
<1>8. ASSUME NEW n \in 1 .. MaxPending, Pump(n) PROVE Begun'
  <2>1. ~In("markCancelled") /\ UNCHANGED <<status, work>>
    BY <1>8, NotMarking DEF Pump
  <2> QED BY <1>3, <2>1
<1>9. ASSUME NEW hook \in BOOLEAN, ExecutorReturns(hook) PROVE Begun'
  <2>1. In("executor") /\ status' = status /\ ~In("markCancelled")
    BY <1>9, NotMarking DEF ExecutorReturns
  <2>2. /\ Current \in RunIds /\ Current \notin Runs(Rest, "executor") /\ Rest \in Seq(Frames)
    BY <2>1, ExecutorTaken
  <2>3. Runs(todo', "executor") = Runs(Rest, "executor")
    <3> DEFINE f == Frame("hook", Current)
    <3>1. f \in Frames /\ f.op = "hook"
      BY <2>2, FrameTyped DEF AboutRun, Callbacks, NoThrow, Frame
    <3>2. todo' = Rest \/ todo' = <<f>> \o Rest \/ todo' = <<>> \o Rest
      BY <1>9 DEF ExecutorReturns
    <3> HIDE DEF f
    <3>3. Runs(<<f>> \o Rest, "executor") = Runs(Rest, "executor") \cup {}
      BY <2>2, <3>1, RunsPushed
    <3> QED BY <2>2, <3>2, <3>3, ConcatEmptySeq
  <2>4. \A id \in RunIds : id # Current => work'[id] = work[id]
    BY <1>9 DEF ExecutorReturns, TypeOK
  <2>5. \A id \in Runs(todo', "executor") : work'[id] = "none"
    BY <1>2, <2>2, <2>3, <2>4 DEF Begun
  <2> QED BY <1>1, <2>1, <2>5, BegunKept
<1>10. CASE CancelAllQueued /\ queue # <<>>
  <2>1. ~In("markCancelled")
    BY <1>10, NotMarking DEF CancelAllQueued
  <2>2. status' = [status EXCEPT ![Last(queue)] = "cancelled"] /\ work' = work
    BY <1>10 DEF CancelAllQueued
  <2>3. \A r \in Runs(todo', "executor") : /\ work'[r] = "none"
                                           /\ status'[r] \in {status[r], "cancelled"}
    BY <1>2, <2>2 DEF Begun, TypeOK
  <2> QED BY <1>1, <2>1, <2>3, BegunKept
<1>11. CASE DeliverOne
  <2> DEFINE c == Head(todo).batch[1]
  <2>1. Complete(c) /\ InPump
    BY <1>11 DEF DeliverOne
  <2>2. ~In("markCancelled")
    BY <2>1, NotMarking DEF InPump
  <2>3. c \in Completions
    <3>1. Head(todo).batch \in Seq(Completions) /\ Head(todo).batch # <<>>
      BY <1>11, OnTop DEF DeliverOne, InPump, AboutAll
    <3> QED BY <3>1, EmptySeq, ElementOfSeq, LenProperties
  <2> HIDE DEF c
  <2>4. NoPumpInside => Runs(todo', "executor") = {}
    BY <1>2, <2>1, PumpIsOutermost
  <2>5. c.outcome \in Outcome
    BY <2>3 DEF Completions
  <2>6. /\ status' = [status EXCEPT ![c.run] = c.outcome]
        /\ work' = [work EXCEPT ![c.run] = IF work[c.run] = "live" THEN "none" ELSE work[c.run]]
    BY <2>1 DEF Complete
  <2>7. \A id \in Runs(todo', "executor") :
          /\ work'[id] = "none"
          /\ status'[id] = status[id] \/ status'[id] \in Outcome
    BY <1>2, <2>5, <2>6 DEF Begun, TypeOK
  <2> QED BY <1>1, <2>2, <2>4, <2>7, BegunKept
<1>12. ASSUME NEW c \in Completions, Offer(c) PROVE Begun'
  <2>1. UNCHANGED <<status, work, todo>>
    BY <1>12 DEF Offer
  <2> QED BY <2>1 DEF Begun, In, Current
<1> QED BY <1>4, <1>5, <1>6, <1>7, <1>8, <1>9, <1>10, <1>11, <1>12 DEF Plain

LEMMA StartBegun ==
  ASSUME TypeOK, Placed, Begun, Start
  PROVE  Begun'
<1>1. In("start") /\ Current \in RunIds /\ Rest \in Seq(Frames)
  BY OnTop DEF Start, AboutRun
<1>2. /\ Runs(Rest, "executor") \subseteq Runs(todo, "executor")
      /\ Once(Rest, "executor")
  BY <1>1, RestKept DEF NoneBegun, Begun
<1>3. /\ status[Current] = "queued" /\ Current \notin Runs(todo, "executor")
      /\ Current \notin Runs(todo, "markCancelled")
  <2>1. status[Current] = "queued"
    BY PlacedStart
  <2>2. Where(status, active, Runs(todo, "markCancelled"), ToSet(queue), Runs(todo, "start"),
              nextRunId)
    BY DEF Placed
  <2>3. Current \notin Runs(todo, "markCancelled")
    BY <1>1, <2>1, <2>2 DEF Where
  <2> QED BY <2>1, <2>3 DEF Begun
<1>4. /\ Runs(todo', "executor") \subseteq Runs(Rest, "executor") \cup {Current}
      /\ Once(todo', "executor") /\ Runs(todo', "markCancelled") = Runs(todo, "markCancelled")
  <2>1. Runs(Rest, "markCancelled") = Runs(todo, "markCancelled")
    BY <1>1, MarkTaken DEF Marks
  <2> QED BY <1>2, <1>3, <2>1, StartStack DEF Covers, Marks
<1>5. /\ status' = [status EXCEPT ![Current] = "running"]
      /\ work' = [work EXCEPT ![Current] = "none"]
  BY DEF Start
<1>6. ~In("markCancelled")
  BY <1>1 DEF In
<1>7. ASSUME NEW id \in Runs(todo', "executor")
      PROVE  /\ status'[id] \notin {"new", "queued"} /\ work'[id] = "none"
             /\ id \notin Runs(todo', "markCancelled")
             /\ NoPumpInside => status'[id] \notin Outcome
  <2>1. CASE id = Current
    BY <1>1, <1>3, <1>4, <1>5, <2>1 DEF TypeOK, Outcome
  <2>2. CASE id # Current
    <3>1. id \in Runs(todo, "executor")
      BY <1>2, <1>4, <1>7, <2>2
    <3>2. status'[id] = status[id] /\ work'[id] = work[id]
      BY <1>5, <2>2, <3>1, ExecutorsTyped DEF TypeOK
    <3> QED BY <1>4, <1>6, <3>1, <3>2 DEF Begun
  <2> QED BY <2>1, <2>2
<1> QED BY <1>4, <1>7 DEF Begun

\* A run whose executor is in progress has no hook to wait for: its mark is on top.
LEMMA CancelBegun ==
  ASSUME TypeOK, Begun, CancelActive
  PROVE  Begun'
<1>1. /\ In("cancelActive") /\ Current \in RunIds /\ Rest \in Seq(Frames) /\ status' = status
      /\ ~In("markCancelled")
  BY OnTop DEF CancelActive, AboutRun, In
<1>2. /\ NoneBegun(Rest, todo)
      /\ Runs(Rest, "markCancelled") = Runs(todo, "markCancelled")
  BY <1>1, RestKept DEF Covers, Marks
<1>3. CASE Current \notin active
  <2>1. todo' = Rest /\ work' = work
    BY <1>3 DEF CancelActive
  <2>2. \A id \in Runs(todo', "executor") : work'[id] = "none"
    BY <1>2, <2>1 DEF NoneBegun, Begun
  <2> QED BY <1>1, <1>2, <2>1, <2>2, BegunKept
<1>4. CASE Current \in active
  <2> DEFINE f == Frame("markCancelled", Current)
  <2>1. /\ f \in Frames /\ f.op = "markCancelled" /\ f.run = Current
        /\ Over(todo', <<f>> \o Rest)
    BY <1>4, CancelActiveStack
  <2>2. work' = [work EXCEPT ![Current] = IF @ = "live" THEN "called" ELSE @]
    BY <1>4 DEF CancelActive
  <2>3. work[Current] # "live" => todo' = <<f>> \o Rest
    <3>1. work[Current] # "live" => todo' = (<<>> \o <<f>>) \o Rest
      BY <1>4 DEF CancelActive
    <3>2. <<>> \o <<f>> = <<f>>
      BY <2>1, OneFrame, ConcatEmptySeq
    <3> QED BY <3>1, <3>2
  <2> HIDE DEF f
  <2>4. /\ Runs(<<f>> \o Rest, "executor") = Runs(Rest, "executor") \cup {}
        /\ Once(Rest, "executor") => Once(<<f>> \o Rest, "executor")
        /\ Runs(<<f>> \o Rest, "markCancelled") = Runs(Rest, "markCancelled") \cup {Current}
    BY <1>1, <2>1, RunsPushed
  <2>5. /\ NoneBegun(todo', todo)
        /\ Runs(todo', "markCancelled") = Runs(todo, "markCancelled") \cup {Current}
    BY <1>2, <2>1, <2>4 DEF Over, Kept, Covers, Marks, NoneBegun
  <2>6. ASSUME NEW id \in Runs(todo', "executor")
        PROVE  /\ status'[id] \notin {"new", "queued"} /\ work'[id] = "none"
               /\ id \in Runs(todo', "markCancelled") => In("markCancelled")' /\ Current' = id
               /\ NoPumpInside => status'[id] \notin Outcome
    <3>1. /\ id \in Runs(todo, "executor") /\ id \in RunIds /\ work[id] = "none"
          /\ id \notin Runs(todo, "markCancelled")
      BY <1>1, <2>5, <2>6, ExecutorsTyped DEF NoneBegun, Begun
    <3>2. work'[id] = "none"
      BY <2>2, <3>1 DEF TypeOK
    <3>3. ASSUME id \in Runs(todo', "markCancelled") PROVE In("markCancelled")' /\ Current' = id
      <4>1. id = Current
        BY <2>5, <3>1, <3>3
      <4>2. todo' = <<f>> \o Rest
        BY <2>3, <3>1, <4>1
      <4>3. todo' # <<>> /\ Head(todo') = f
        BY <1>1, <2>1, <4>2, Pushed
      <4> QED BY <2>1, <4>1, <4>3 DEF In, Current
    <3> QED BY <1>1, <3>1, <3>2, <3>3 DEF Begun
  <2>7. Once(todo', "executor")
    BY <2>5 DEF NoneBegun, Begun
  <2> QED BY <2>6, <2>7 DEF Begun
<1> QED BY <1>3, <1>4

LEMMA MarkedBegun ==
  ASSUME TypeOK, Placed, Begun, MarkCancelled
  PROVE  Begun'
<1>1. In("markCancelled") /\ Current \in RunIds
  BY OnTop DEF MarkCancelled, AboutRun
<1>2. /\ Runs(todo, "markCancelled") = Runs(Rest, "markCancelled") \cup {Current}
      /\ Current \notin Runs(Rest, "markCancelled") /\ NoneBegun(Rest, todo)
  BY <1>1, MarkTaken, RestKept DEF Marks
<1>3. NoneBegun(todo', todo) /\ Runs(todo', "markCancelled") = Runs(Rest, "markCancelled")
  BY <1>2, MarkCancelledStack DEF Over, Kept, Covers, Marks, NoneBegun
<1>4. status' = [status EXCEPT ![Current] = "cancelled"] /\ work' = work
  BY DEF MarkCancelled
<1>5. ASSUME NEW id \in Runs(todo', "executor")
      PROVE  /\ status'[id] \notin {"new", "queued"} /\ work'[id] = "none"
             /\ id \notin Runs(todo', "markCancelled")
             /\ NoPumpInside => status'[id] \notin Outcome
  <2>1. id \in Runs(todo, "executor") /\ id \in RunIds
    BY <1>3, <1>5, ExecutorsTyped DEF NoneBegun
  <2>2. id \notin Runs(Rest, "markCancelled")
    BY <1>2, <2>1 DEF Begun
  <2> QED BY <1>3, <1>4, <2>1, <2>2 DEF Begun, TypeOK, Outcome
<1>6. Once(todo', "executor")
  BY <1>3 DEF NoneBegun, Begun
<1> QED BY <1>5, <1>6 DEF Begun

LEMMA RaisedBegun ==
  ASSUME TypeOK, Begun, ExecutorRaises
  PROVE  Begun'
<1>1. In("executor") /\ ~In("markCancelled")
  BY DEF ExecutorRaises, In
<1>2. /\ NoneBegun(todo', todo)
      /\ Runs(todo', "markCancelled") \subseteq Runs(todo, "markCancelled")
  BY ExecutorRaisesStack DEF Over, Kept, Covers, Marks
<1>3. status' = [status EXCEPT ![Current] = "cancelled"] /\ work' = work
  BY DEF ExecutorRaises
<1>4. \A id \in Runs(todo', "executor") : /\ work'[id] = "none"
                                          /\ status'[id] \in {status[id], "cancelled"}
  BY <1>2, <1>3, ExecutorsTyped DEF NoneBegun, Begun, TypeOK
<1> QED BY <1>1, <1>2, <1>4, BegunKept

LEMMA BegunNext ==
  ASSUME TypeOK, Placed, Begun, Linked(todo), [Next]_vars
  PROVE  Begun'
<1> USE DEF runs, known, places, shared
<1>1. ASSUME ~In("markCancelled"), UNCHANGED <<status, work>>, NoneBegun(todo', todo),
             Runs(todo', "markCancelled") \subseteq Runs(todo, "markCancelled")
      PROVE  Begun'
  BY <1>1, BegunKept DEF NoneBegun, Begun
<1>2. CASE Run
  <2>1. ~In("markCancelled")
    BY <1>2, NotMarking DEF Run
  <2>2. /\ status[nextRunId] = "new" /\ nextRunId \in RunIds
        /\ status' = [status EXCEPT ![nextRunId] = "queued"] /\ work' = work
    BY <1>2, PlacedRun DEF Run
  <2>3. /\ NoneBegun(todo', todo)
        /\ Runs(todo', "markCancelled") \subseteq Runs(todo, "markCancelled")
    <3>1. CASE Policy = "ordered" /\ active # {}
      BY <1>2, <3>1 DEF Run, NoneBegun
    <3>2. CASE ~(Policy = "ordered" /\ active # {})
      <4> DEFINE f == Frame("start", nextRunId)
                 t == <<Frame("return", nextRunId)>> \o todo
      <4>1. /\ f \in Frames /\ t \in Seq(Frames) /\ f.op = "start"
            /\ Over(t, todo) /\ Over(todo', <<f>> \o t)
        BY <1>2, <3>2, RunStack
      <4> HIDE DEF f, t
      <4>2. /\ Runs(<<f>> \o t, "executor") = Runs(t, "executor") \cup {}
            /\ Once(t, "executor") => Once(<<f>> \o t, "executor")
            /\ Runs(<<f>> \o t, "markCancelled") = Runs(t, "markCancelled") \cup {}
        BY <4>1, RunsPushed
      <4> QED BY <4>1, <4>2 DEF Over, Kept, Covers, Marks, NoneBegun
    <3> QED BY <3>1, <3>2
  <2>4. \A id \in Runs(todo', "executor") : work'[id] = "none" /\ status'[id] = status[id]
    BY <2>2, <2>3, ExecutorsTyped DEF NoneBegun, Begun, TypeOK
  <2> QED BY <2>1, <2>3, <2>4, BegunKept
<1>3. CASE StartNext
  <2>1. In("startNext") /\ UNCHANGED <<status, work>> /\ ~In("markCancelled")
    BY <1>3 DEF StartNext, In
  <2>2. NoneBegun(todo', todo) /\ Rest \in Seq(Frames)
        /\ Runs(Rest, "markCancelled") = Runs(todo, "markCancelled")
    BY <1>3, StartNextStack DEF Covers, Marks
  <2>3. Runs(todo', "markCancelled") = Runs(Rest, "markCancelled")
    <3>1. CASE todo' = Rest
      BY <3>1
    <3>2. CASE CanStartNext
      <4> DEFINE f == Frame("start", Head(queue))
      <4>1. f \in Frames /\ todo' = <<f>> \o Rest /\ f.op = "start"
        BY <1>3, <3>2, StartNextStack DEF Frame
      <4> HIDE DEF f
      <4>2. Runs(<<f>> \o Rest, "markCancelled") = Runs(Rest, "markCancelled") \cup {}
        BY <2>2, <4>1, RunsPushed
      <4> QED BY <4>1, <4>2
    <3> QED BY <1>3, <3>1, <3>2, StartNextStack
  <2> QED BY <1>1, <2>1, <2>2, <2>3
<1>4. CASE CancelAllQueued /\ queue = <<>>
  <2>1. In("cancelAllQueued") /\ todo' = Rest /\ UNCHANGED <<status, work>> /\ ~In("markCancelled")
    BY <1>4 DEF CancelAllQueued, In
  <2>2. NoneBegun(Rest, todo) /\ Runs(Rest, "markCancelled") = Runs(todo, "markCancelled")
    BY <2>1, RestKept DEF Covers, Marks
  <2> QED BY <1>1, <2>1, <2>2
<1>5. CASE Unwind
  <2>1. In("raise") /\ UNCHANGED <<status, work>> /\ ~In("markCancelled")
    BY <1>5 DEF Unwind, In
  <2>2. NoneBegun(todo', todo) /\ Runs(todo', "markCancelled") = Runs(todo, "markCancelled")
    BY <1>5, UnwindStack DEF Over, Kept, Covers, Marks
  <2> QED BY <1>1, <2>1, <2>2
<1>6. CASE UNCHANGED vars
  <2>1. UNCHANGED <<status, work, todo>>
    BY <1>6 DEF vars
  <2> QED BY <2>1 DEF Begun, In, Current
<1> QED BY <1>2, <1>3, <1>4, <1>5, <1>6, PlainBegun, StartBegun, CancelBegun, MarkedBegun,
           RaisedBegun, StepCases

\* The handler of startQueued, which does not look at the status of the run.
LEMMA PlacedRaised ==
  ASSUME TypeOK, Placed, Begun, ExecutorRaises
  PROVE  /\ Placed'
         /\ status[Current] \notin {"new", "queued"}
         /\ NoPumpInside => status[Current] \notin Outcome
         /\ \A id \in RunIds \ {Current} : status'[id] = status[id]
         /\ status'[Current] = "cancelled"
<1> DEFINE id == Current
           q == ToSet(queue)
           s == Runs(todo, "start")
           m == Runs(todo, "markCancelled")
<1>1. In("executor")
  BY DEF ExecutorRaises
<1>2. id \in RunIds /\ id \notin m /\ id \in Runs(todo, "executor")
  BY <1>1, ExecutorTaken
<1>3. status[id] \notin {"new", "queued"} /\ (NoPumpInside => status[id] \notin Outcome)
  BY <1>2 DEF Begun
<1>4. /\ Runs(todo', "start") = s /\ Runs(todo', "markCancelled") = m
      /\ Once(todo', "start") /\ Once(todo', "markCancelled")
  BY ExecutorRaisesStack DEF Over, Kept, Covers, Marks, Placed
<1>5. /\ active' = active \ {id} /\ status' = [status EXCEPT ![id] = "cancelled"]
      /\ UNCHANGED <<queue, nextRunId>>
  BY DEF ExecutorRaises, known
<1>6. Where(status, active, m, q, s, nextRunId)
  BY DEF Placed
<1> HIDE DEF id, q, s, m
<1>7. Where(status', active', m, q, s, nextRunId)
  BY <1>2, <1>3, <1>5, <1>6 DEF Where, TypeOK
<1>8. /\ \A r \in RunIds \ {id} : status'[r] = status[r]
      /\ status'[id] = "cancelled"
  BY <1>2, <1>5 DEF TypeOK
<1> QED BY <1>3, <1>4, <1>5, <1>7, <1>8 DEF Placed, q, id

LEMMA PlacedNext ==
  ASSUME TypeOK, Placed, Begun, Linked(todo), [Next]_vars
  PROVE  /\ Placed'
         /\ RaiseIsSafe => \A id \in RunIds : status[id] \in Final => status'[id] = status[id]
<1> USE DEF runs, known, places, shared
<1> DEFINE Ends(id) == /\ status[id] \in {"new", "queued", "running"}
                       /\ \E new : status' = [status EXCEPT ![id] = new]
           Stays == \A id \in RunIds : status[id] \in Final => status'[id] = status[id]
<1>1. ASSUME NEW id, Ends(id) PROVE Stays
  <2>1. status[id] \notin Final
    BY <1>1 DEF Final, Outcome
  <2> QED BY <1>1, <2>1 DEF TypeOK
<1>2. ASSUME UNCHANGED <<status, active, queue, nextRunId>>, Over(todo', todo)
      PROVE  Placed' /\ Stays
  BY <1>2, PlacedKept DEF Over, Kept
<1>3. ASSUME Plain PROVE Over(todo', todo)
  BY <1>3, PlainOver
<1> HIDE DEF Ends
<1>4. CASE Return \/ CancelAll \/ TellCancelled \/ CancelAllActive \/ DeliverNone \/ Report
             \/ CallbackReturns \/ ResultEnds
  <2>1. UNCHANGED <<status, active, queue, nextRunId>> /\ Plain
    BY <1>4 DEF Return, CancelAll, TellCancelled, CancelAllActive, DeliverNone, Report,
                CallbackReturns, ResultEnds, Plain
  <2> QED BY <1>2, <1>3, <2>1
<1>5. CASE Dispose
  BY <1>5, PlacedDisposed
<1>6. ASSUME NEW id \in RunIds, Cancel(id) PROVE Placed' /\ Stays
  <2>1. Over(todo', todo)
    BY <1>3, <1>6 DEF Plain
  <2>2. CASE CancelRunning(id)
    BY <1>2, <2>1, <2>2 DEF CancelRunning
  <2>3. CASE CancelQueued(id)
    <3>1. PICK i \in DOMAIN queue : queue[i] = id /\ queue' = Without(queue, i)
      BY <2>3 DEF CancelQueued
    <3>2. status' = [status EXCEPT ![id] = "cancelled"] /\ UNCHANGED <<active, nextRunId>>
      BY <2>3 DEF CancelQueued
    <3>3. Placed' /\ status[id] = "queued"
      BY <2>1, <3>1, <3>2, PlacedUnqueued DEF Over, Kept
    <3>4. Ends(id)
      BY <3>2, <3>3 DEF Ends
    <3> QED BY <1>1, <3>3, <3>4
  <2> QED BY <1>6, <2>2, <2>3 DEF Cancel
<1>7. ASSUME NEW id \in RunIds, Observe(id) \/ Unsubscribe(id) PROVE Placed' /\ Stays
  <2>1. UNCHANGED <<status, active, queue, nextRunId>> /\ Plain
    BY <1>7 DEF Observe, Unsubscribe, Plain
  <2> QED BY <1>2, <1>3, <2>1
<1>8. ASSUME NEW n \in 1 .. MaxPending, Pump(n) PROVE Placed' /\ Stays
  <2>1. UNCHANGED <<status, active, queue, nextRunId>> /\ Plain
    BY <1>8 DEF Pump, Plain
  <2> QED BY <1>2, <1>3, <2>1
<1>9. ASSUME NEW hook \in BOOLEAN, ExecutorReturns(hook) PROVE Placed' /\ Stays
  <2>1. UNCHANGED <<status, active, queue, nextRunId>> /\ Plain
    BY <1>9 DEF ExecutorReturns, Plain
  <2> QED BY <1>2, <1>3, <2>1
<1>10. CASE CancelAllQueued /\ queue # <<>>
  <2> DEFINE i == Len(queue)
  <2>1. i \in DOMAIN queue /\ queue' = Without(queue, i) /\ Last(queue) = queue[i]
    BY <1>10, FrontIsWithout DEF CancelAllQueued, TypeOK
  <2>2. status' = [status EXCEPT ![Last(queue)] = "cancelled"] /\ UNCHANGED <<active, nextRunId>>
    BY <1>10 DEF CancelAllQueued
  <2>3. Covers(todo', todo)
    BY <1>3, <1>10 DEF Plain, Over, Kept
  <2> HIDE DEF i
  <2>4. Placed' /\ status[queue[i]] = "queued"
    BY <2>1, <2>2, <2>3, PlacedUnqueued
  <2>5. Ends(queue[i])
    BY <2>1, <2>2, <2>4 DEF Ends
  <2> QED BY <1>1, <2>4, <2>5
<1>11. CASE DeliverOne
  BY <1>11, PlacedDelivered
<1>12. ASSUME NEW c \in Completions, Offer(c) PROVE Placed' /\ Stays
  <2>1. UNCHANGED <<status, active, queue, nextRunId>> /\ Plain
    BY <1>12 DEF Offer, Plain
  <2> QED BY <1>2, <1>3, <2>1
<1>13. CASE Plain
  BY <1>4, <1>5, <1>6, <1>7, <1>8, <1>9, <1>10, <1>11, <1>12, <1>13 DEF Plain
<1>14. CASE Run
  <2>1. Placed' /\ status[nextRunId] = "new"
    BY <1>14, PlacedRun
  <2>2. Ends(nextRunId)
    BY <1>14, <2>1 DEF Run, Ends
  <2> QED BY <1>1, <2>1, <2>2
<1>15. CASE Start
  <2>1. Placed' /\ status[Current] = "queued"
    BY <1>15, PlacedStart
  <2>2. Ends(Current)
    BY <1>15, <2>1 DEF Start, Ends
  <2> QED BY <1>1, <2>1, <2>2
<1>16. CASE StartNext
  BY <1>16, PlacedStartNext
<1>17. CASE CancelActive
  BY <1>17, PlacedCancelled
<1>18. CASE MarkCancelled
  <2>1. Placed' /\ status[Current] = "running"
    BY <1>18, PlacedMarked
  <2>2. Ends(Current)
    BY <1>18, <2>1 DEF MarkCancelled, Ends
  <2> QED BY <1>1, <2>1, <2>2
<1>19. CASE CancelAllQueued /\ queue = <<>>
  <2>1. In("cancelAllQueued") /\ UNCHANGED <<status, active, queue, nextRunId>> /\ todo' = Rest
    BY <1>19 DEF CancelAllQueued
  <2>2. Covers(Rest, todo)
    BY <2>1, RestKept DEF Marks
  <2> QED BY <2>1, <2>2, PlacedKept
<1>20. CASE Unwind
  <2>1. UNCHANGED <<status, active, queue, nextRunId>> /\ Over(todo', todo)
    BY <1>20, UnwindStack DEF Unwind
  <2> QED BY <1>2, <2>1
<1>21. CASE UNCHANGED vars
  <2>1. UNCHANGED <<status, active, queue, nextRunId, todo>>
    BY <1>21 DEF vars
  <2> QED BY <2>1 DEF Placed
<1>22. CASE ExecutorRaises
  <2>1. RaiseIsSafe => NoPumpInside
    BY <1>22 DEF ExecutorRaises, RaiseIsSafe
  <2>2. /\ Placed' /\ status'[Current] = "cancelled"
        /\ status[Current] \notin {"new", "queued"} /\ (RaiseIsSafe => status[Current] \notin Outcome)
        /\ \A id \in RunIds \ {Current} : status'[id] = status[id]
    BY <1>22, <2>1, PlacedRaised
  <2> QED BY <2>2 DEF Final
<1> QED BY <1>13, <1>14, <1>15, <1>16, <1>17, <1>18, <1>19, <1>20, <1>21, <1>22, StepCases
-----------------------------------------------------------------------------
(* What is under a call, and who sees to the queue.                        *)

LEMMA LinkedNext ==
  ASSUME TypeOK, Linked(todo), [Next]_vars
  PROVE  Linked(todo')
<1>1. CASE Plain
  BY <1>1, PlainOver DEF Over, Kept
<1>2. CASE Run
  <2>1. CASE Policy = "ordered" /\ active # {}
    BY <1>2, <2>1 DEF Run
  <2>2. CASE ~(Policy = "ordered" /\ active # {})
    <3> DEFINE f == Frame("start", nextRunId)
               t == <<Frame("return", nextRunId)>> \o todo
    <3>1. /\ f \in Frames /\ t \in Seq(Frames) /\ f.op = "start"
          /\ Over(t, todo) /\ Top(t) = "return" /\ Over(todo', <<f>> \o t)
      BY <1>2, <2>2, RunStack
    <3> HIDE DEF f, t
    <3>2. Link(f.op, Top(t))
      BY <3>1 DEF Link, Pumps
    <3>3. Linked(<<f>> \o t)
      BY <3>1, <3>2, LinkedPushed DEF Over, Kept
    <3> QED BY <3>1, <3>3 DEF Over, Kept
  <2> QED BY <2>1, <2>2
<1>3. CASE Start
  BY <1>3, StartStack
<1>4. CASE StartNext
  BY <1>4, StartNextStack
<1>5. CASE CancelActive
  <2>1. Linked(Rest)
    BY <1>5, TopOfRest DEF CancelActive
  <2>2. CASE Current \notin active
    BY <1>5, <2>1, <2>2 DEF CancelActive
  <2>3. CASE Current \in active
    <3> DEFINE f == Frame("markCancelled", Current)
    <3>1. /\ f \in Frames /\ Rest \in Seq(Frames) /\ f.op = "markCancelled"
          /\ Over(todo', <<f>> \o Rest)
      BY <1>5, <2>3, CancelActiveStack
    <3> HIDE DEF f
    <3>2. Link(f.op, Top(Rest))
      BY <3>1 DEF Link, Pumps
    <3> QED BY <2>1, <3>1, <3>2, LinkedPushed DEF Over, Kept
  <2> QED BY <2>2, <2>3
<1>6. CASE MarkCancelled
  <2>1. Linked(Rest)
    BY <1>6, TopOfRest DEF MarkCancelled
  <2> QED BY <1>6, <2>1, MarkCancelledStack DEF Over, Kept
<1>7. CASE CancelAllQueued /\ queue = <<>>
  BY <1>7, TopOfRest DEF CancelAllQueued
<1>8. CASE Unwind
  BY <1>8, UnwindStack DEF Over, Kept
<1>9. CASE ExecutorRaises
  BY <1>9, ExecutorRaisesStack DEF Over, Kept
<1>10. CASE UNCHANGED vars
  BY <1>10 DEF vars
<1> QED BY <1>1, <1>2, <1>3, <1>4, <1>5, <1>6, <1>7, <1>8, <1>9, <1>10, StepCases

\* A call that does not see to the queue is not missed when it ends.
LEMMA AttendedRest ==
  ASSUME TypeOK, NEW op, In(op)
  PROVE  Attended(todo) <=> op \notin Runners /\ (op \in Seers \/ Attended(Rest))
<1> DEFINE h == Head(todo)
           r == Tail(todo)
<1>1. /\ h \in Frames /\ r \in Seq(Frames) /\ todo = <<h>> \o r
      /\ h.op = op /\ r = Rest
  BY OnTop, Popped, Zenon DEF Rest
<1> HIDE DEF h, r
<1>2. Attended(<<h>> \o r) <=> h.op \notin Runners /\ (h.op \in Seers \/ Attended(r))
  BY <1>1, AttendedPushed
<1> QED BY <1>1, <1>2

\* cancelActive is called where startNextOrdered or cancelAll's second loop
\* follows.
LEMMA AttendedCancel ==
  ASSUME TypeOK, Linked(todo), In("cancelActive"), Policy = "ordered"
  PROVE  Attended(Rest)
<1>1. Rest \in Seq(Frames) /\ Linked(Rest) /\ Top(Rest) \in {"startNext", "cancelAllActive"}
  BY OnTop, TopOfRest DEF Link
<1> DEFINE h == Head(Rest)
           r == Tail(Rest)
<1>2. Rest # <<>>
  BY <1>1 DEF Top
<1>3. /\ h \in Frames /\ r \in Seq(Frames) /\ Rest = <<h>> \o r /\ h.op = Top(Rest)
      /\ Link(h.op, Top(r)) /\ Linked(r)
  BY <1>1, <1>2, Popped, LinkedPopped, Zenon DEF Top
<1> HIDE DEF h, r
<1>4. CASE h.op = "startNext"
  BY <1>3, <1>4, AttendedPushed DEF Seers, Runners
<1>5. CASE h.op = "cancelAllActive"
  <2>1. Top(r) = "cancelAllQueued"
    BY <1>3, <1>5 DEF Link
  <2> DEFINE k == Head(r)
             t == Tail(r)
  <2>2. r # <<>>
    BY <2>1 DEF Top
  <2>3. k \in Frames /\ t \in Seq(Frames) /\ r = <<k>> \o t /\ k.op = "cancelAllQueued"
    BY <1>3, <2>1, <2>2, Popped, Zenon DEF Top
  <2> HIDE DEF k, t
  <2>4. Attended(r)
    BY <2>3, AttendedPushed DEF Seers, Runners
  <2> QED BY <1>3, <1>5, <2>4, AttendedPushed DEF Runners
<1> QED BY <1>1, <1>3, <1>4, <1>5
\* The part of Chained about who starts a waiting run.
Seen == /\ Policy # "ordered" => queue = <<>>
        /\ queue # <<>> /\ active = {} => Attended(todo)

\* The plain steps that leave the last active run, or make a run wait.
LEMMA PlainQueue ==
  ASSUME TypeOK, Seen, Plain
  PROVE  Seen'
<1> USE DEF runs, known, places, shared
<1>1. Over(todo', todo)
  BY PlainOver
<1>2. ASSUME UNCHANGED <<queue, active>> PROVE Seen'
  BY <1>1, <1>2 DEF Seen, Over
<1>3. CASE Return \/ CancelAll \/ TellCancelled \/ CancelAllActive \/ DeliverNone \/ Report
             \/ CallbackReturns \/ ResultEnds
  BY <1>2, <1>3 DEF Return, CancelAll, TellCancelled, CancelAllActive, DeliverNone, Report,
                    CallbackReturns, ResultEnds
<1>4. CASE Dispose
  BY <1>4 DEF Dispose, Seen
<1>5. ASSUME NEW id \in RunIds, Cancel(id) PROVE Seen'
  <2>1. CASE CancelRunning(id)
    BY <1>2, <2>1 DEF CancelRunning
  <2>2. CASE CancelQueued(id)
    <3>1. queue # <<>> /\ active' = active
      BY <2>2 DEF CancelQueued
    <3> QED BY <1>1, <3>1 DEF Seen, Over
  <2> QED BY <1>5, <2>1, <2>2 DEF Cancel
<1>6. ASSUME NEW id \in RunIds, Observe(id) \/ Unsubscribe(id) PROVE Seen'
  BY <1>2, <1>6 DEF Observe, Unsubscribe
<1>7. ASSUME NEW n \in 1 .. MaxPending, Pump(n) PROVE Seen'
  BY <1>2, <1>7 DEF Pump
<1>8. ASSUME NEW hook \in BOOLEAN, ExecutorReturns(hook) PROVE Seen'
  BY <1>2, <1>8 DEF ExecutorReturns
<1>9. CASE CancelAllQueued /\ queue # <<>>
  <2>1. active' = active
    BY <1>9 DEF CancelAllQueued
  <2> QED BY <1>1, <1>9, <2>1 DEF Seen, Over
<1>10. CASE DeliverOne
  <2>1. Attended(todo') /\ queue' = queue
    BY <1>10, DeliveryOver DEF DeliverOne
  <2> QED BY <2>1 DEF Seen
<1>11. ASSUME NEW c \in Completions, Offer(c) PROVE Seen'
  BY <1>2, <1>11 DEF Offer
<1> QED BY <1>3, <1>4, <1>5, <1>6, <1>7, <1>8, <1>9, <1>10, <1>11 DEF Plain

LEMMA SeenNext ==
  ASSUME TypeOK, Linked(todo), Seen, [Next]_vars
  PROVE  Seen'
<1>1. CASE Plain
  BY <1>1, PlainQueue
<1>2. CASE Run
  <2>1. CASE Policy = "ordered" /\ active # {}
    BY <1>2, <2>1 DEF Run, Seen
  <2>2. CASE ~(Policy = "ordered" /\ active # {})
    <3> DEFINE f == Frame("start", nextRunId)
               t == <<Frame("return", nextRunId)>> \o todo
    <3>1. /\ f \in Frames /\ f.op = "start" /\ t \in Seq(Frames)
          /\ Over(todo', <<f>> \o t) /\ queue' = queue
      BY <1>2, <2>2, RunStack DEF Run
    <3> HIDE DEF f, t
    <3>2. Attended(todo')
      BY <3>1, AttendedPushed DEF Over, Seers, Runners
    <3> QED BY <3>1, <3>2 DEF Seen
  <2> QED BY <2>1, <2>2
<1>3. CASE Start
  BY <1>3 DEF Start, Seen
<1>4. CASE StartNext
  <2>1. active' = active
    BY <1>4 DEF StartNext
  <2>2. CASE CanStartNext
    <3> DEFINE f == Frame("start", Head(queue))
    <3>1. f \in Frames /\ todo' = <<f>> \o Rest /\ Rest \in Seq(Frames) /\ Policy = "ordered"
      BY <1>4, <2>2, StartNextStack DEF CanStartNext
    <3>2. f.op = "start"
      BY DEF Frame
    <3> HIDE DEF f
    <3>3. Attended(<<f>> \o Rest)
      BY <3>1, <3>2, AttendedPushed DEF Seers, Runners
    <3> QED BY <3>1, <3>3 DEF Seen
  <2>3. CASE ~CanStartNext
    <3>1. queue' = queue
      BY <1>4, <2>3 DEF StartNext
    <3> QED BY <2>1, <2>3, <3>1 DEF Seen, CanStartNext
  <2> QED BY <2>2, <2>3
<1>5. CASE CancelActive
  <2>1. In("cancelActive") /\ queue' = queue
    BY <1>5 DEF CancelActive
  <2>2. Policy = "ordered" => Attended(Rest)
    BY <2>1, AttendedCancel
  <2>3. CASE Current \notin active
    <3>1. todo' = Rest /\ active' = active
      BY <1>5, <2>3 DEF CancelActive
    <3> QED BY <2>1, <2>2, <3>1 DEF Seen
  <2>4. CASE Current \in active
    <3> DEFINE f == Frame("markCancelled", Current)
    <3>1. /\ f \in Frames /\ Rest \in Seq(Frames) /\ f.op = "markCancelled"
          /\ Over(todo', <<f>> \o Rest)
      BY <1>5, <2>4, CancelActiveStack
    <3> HIDE DEF f
    <3>2. Attended(Rest) => Attended(todo')
      BY <3>1, AttendedPushed DEF Over, Runners
    <3> QED BY <2>1, <2>2, <3>2 DEF Seen
  <2> QED BY <2>3, <2>4
<1>6. CASE MarkCancelled
  <2>1. In("markCancelled") /\ UNCHANGED <<queue, active>>
    BY <1>6 DEF MarkCancelled
  <2>2. Attended(todo) => Attended(todo')
    BY <1>6, <2>1, AttendedRest, MarkCancelledStack DEF Over, Seers
  <2> QED BY <2>1, <2>2 DEF Seen
<1>7. CASE CancelAllQueued /\ queue = <<>>
  BY <1>7 DEF CancelAllQueued, Seen
<1>8. CASE Unwind
  <2>1. Over(todo', todo) /\ UNCHANGED <<queue, active>>
    BY <1>8, UnwindStack DEF Unwind, runs, places
  <2> QED BY <2>1 DEF Seen, Over
<1>9. CASE UNCHANGED vars
  BY <1>9 DEF vars, runs, places, Seen
<1>10. CASE ExecutorRaises
  BY <1>10, ExecutorRaisesStack DEF ExecutorRaises, Seen, places
<1> QED BY <1>1, <1>2, <1>3, <1>4, <1>5, <1>6, <1>7, <1>8, <1>9, <1>10, StepCases

LEMMA ChainedInit == Init => Chained
<1> SUFFICES ASSUME Init PROVE Chained
  OBVIOUS
<1>1. todo = <<>> /\ queue = <<>>
  BY DEF Init
<1> QED BY <1>1 DEF Chained, Linked

LEMMA ChainedNext ==
  ASSUME TypeOK, Chained, [Next]_vars
  PROVE  Chained'
BY LinkedNext, SeenNext DEF Chained, Seen

\* A Command with a waiting run and no call in progress has an active one, whose
\* end will start it, whatever raised or was cancelled: startNextOrdered is
\* reached from wherever a run ends.
THEOREM NoRunIsStuck == Spec => []NotWedged
<1>1. Chained => NotWedged
  BY DEF Chained, NotWedged, AtRest, Attended
<1> QED BY <1>1, ChainedInit, ChainedNext, Typed, PTL DEF Spec

-----------------------------------------------------------------------------
(* The order of the queue, when no-throw callbacks do not start runs.      *)

Sorted(q) == \A i, j \in DOMAIN q : i < j => q[i] < q[j]

\* The runs wait in the order they were made, and one about to start comes first.
InOrder ==
  /\ Sorted(queue)
  /\ \A i \in DOMAIN queue : queue[i] < nextRunId
  /\ In("start") => \A i \in DOMAIN queue : Current < queue[i]

\* The application's no-throw callbacks do not start runs.
NotifiedRunNone == Reentry \cap (NoThrow \X {"run"}) = {}

LEMMA WithoutSorted ==
  ASSUME NEW q \in Seq(RunIds), NEW i \in DOMAIN q, Sorted(q)
  PROVE  /\ Sorted(Without(q, i))
         /\ \A j \in DOMAIN Without(q, i) : \E k \in DOMAIN q : k >= j /\ Without(q, i)[j] = q[k]
<1> DEFINE w == Without(q, i)
           At(n) == IF n < i THEN n ELSE n + 1
<1>1. /\ Len(q) \in Nat /\ DOMAIN q = 1 .. Len(q) /\ i \in 1 .. Len(q)
      /\ DOMAIN w = 1 .. Len(q) - 1
      /\ \A j \in 1 .. Len(q) - 1 : w[j] = IF j < i THEN q[j] ELSE q[j + 1]
  BY WithoutTyped, LenProperties
<1> HIDE DEF w
<1>2. \A j \in DOMAIN w : At(j) \in DOMAIN q /\ At(j) >= j /\ w[j] = q[At(j)]
  BY <1>1
<1>3. \A j, k \in DOMAIN w : j < k => At(j) < At(k)
  BY <1>1
<1> HIDE DEF At
<1>4. Sorted(w)
  BY <1>2, <1>3 DEF Sorted
<1> QED BY <1>2, <1>4 DEF w

LEMMA AppendSorted ==
  ASSUME NEW q \in Seq(RunIds), Sorted(q), NEW e \in RunIds, \A i \in DOMAIN q : q[i] < e
  PROVE  /\ Sorted(Append(q, e))
         /\ \A i \in DOMAIN Append(q, e) : Append(q, e)[i] < e + 1
<1> DEFINE a == Append(q, e)
<1>1. /\ a \in Seq(RunIds) /\ Len(q) \in Nat /\ DOMAIN q = 1 .. Len(q) /\ DOMAIN a = 1 .. Len(q) + 1
      /\ \A j \in 1 .. Len(q) : a[j] = q[j]
      /\ a[Len(q) + 1] = e
  BY AppendProperties, LenProperties
<1> HIDE DEF a
<1>2. e \in Nat /\ \A j \in DOMAIN q : q[j] \in Nat
  BY Constants_Assumption, ElementOfSeq, LenProperties DEF RunIds
<1>3. \A j \in DOMAIN a : (j \in DOMAIN q /\ a[j] = q[j]) \/ (j = Len(q) + 1 /\ a[j] = e)
  BY <1>1
<1>4. ASSUME NEW j \in DOMAIN a, NEW k \in DOMAIN a, j < k PROVE a[j] < a[k]
  <2>1. j \in DOMAIN q /\ a[j] = q[j]
    BY <1>1, <1>4
  <2>2. CASE k \in DOMAIN q /\ a[k] = q[k]
    BY <1>4, <2>1, <2>2 DEF Sorted
  <2>3. CASE k = Len(q) + 1 /\ a[k] = e
    BY <2>1, <2>3
  <2> QED BY <1>3, <2>2, <2>3
<1>5. ASSUME NEW j \in DOMAIN a PROVE a[j] < e + 1
  BY <1>2, <1>3
<1> QED BY <1>4, <1>5 DEF Sorted, a

\* What other steps do to the queue.
LEMMA QueueSteps ==
  ASSUME TypeOK, [Next]_vars, ~Run, ~(StartNext /\ CanStartNext)
  PROVE  /\ nextRunId' = nextRunId
         /\ \/ queue' = queue
            \/ queue' = <<>>
            \/ \E i \in DOMAIN queue : queue' = Without(queue, i)
<1> USE DEF runs, known, places, shared
<1>1. CASE Plain
  <2>1. CASE Return \/ CancelAll \/ TellCancelled \/ CancelAllActive \/ DeliverNone \/ Report
             \/ CallbackReturns \/ ResultEnds
    BY <2>1 DEF Return, CancelAll, TellCancelled, CancelAllActive, DeliverNone, Report,
                CallbackReturns, ResultEnds
  <2>2. CASE Dispose
    BY <2>2 DEF Dispose
  <2>3. ASSUME NEW id \in RunIds, Cancel(id)
        PROVE  /\ nextRunId' = nextRunId
               /\ queue' = queue \/ \E i \in DOMAIN queue : queue' = Without(queue, i)
    BY <2>3 DEF Cancel, CancelRunning, CancelQueued
  <2>4. ASSUME NEW id \in RunIds, Observe(id) \/ Unsubscribe(id)
        PROVE  UNCHANGED <<nextRunId, queue>>
    BY <2>4 DEF Observe, Unsubscribe
  <2>5. ASSUME NEW n \in 1 .. MaxPending, Pump(n)
        PROVE  UNCHANGED <<nextRunId, queue>>
    BY <2>5 DEF Pump
  <2>6. ASSUME NEW hook \in BOOLEAN, ExecutorReturns(hook)
        PROVE  UNCHANGED <<nextRunId, queue>>
    BY <2>6 DEF ExecutorReturns
  <2>7. CASE CancelAllQueued /\ queue # <<>>
    BY <2>7, FrontIsWithout DEF CancelAllQueued, TypeOK
  <2>8. CASE DeliverOne
    BY <2>8 DEF DeliverOne
  <2>9. ASSUME NEW c \in Completions, Offer(c)
        PROVE  UNCHANGED <<nextRunId, queue>>
    BY <2>9 DEF Offer
  <2> QED BY <1>1, <2>1, <2>2, <2>3, <2>4, <2>5, <2>6, <2>7, <2>8, <2>9 DEF Plain
<1>2. CASE Start \/ StartNext \/ ExecutorRaises
  BY <1>2 DEF Start, StartNext, ExecutorRaises
<1>3. CASE CancelActive \/ MarkCancelled \/ Unwind
  BY <1>3 DEF CancelActive, MarkCancelled, Unwind
<1>4. CASE CancelAllQueued /\ queue = <<>>
  BY <1>4 DEF CancelAllQueued
<1>5. CASE UNCHANGED vars
  BY <1>5 DEF vars
<1> QED BY <1>1, <1>2, <1>3, <1>4, <1>5, StepCases

\* A new run is started at once only when none is waiting.
LEMMA RunOvertakesNone ==
  ASSUME TypeOK, Seen, NotifiedRunNone, MayCall("run"), active = {}
  PROVE  queue = <<>>
<1> SUFFICES ~Attended(todo)
  BY DEF Seen
<1>1. CASE todo = <<>>
  BY <1>1 DEF Attended
<1>2. CASE todo # <<>>
  <2>1. Head(todo).op \in Runners
    BY <1>2, Constants_Assumption DEF MayCall, NotifiedRunNone, Callbacks, Runners
  <2>2. In(Head(todo).op)
    BY <1>2 DEF In
  <2> QED BY <2>1, <2>2, AttendedRest
<1> QED BY <1>1, <1>2

LEMMA InOrderNext ==
  ASSUME TypeOK, Prompt, Seen, InOrder, Policy = "ordered", NotifiedRunNone, [Next]_vars
  PROVE  InOrder'
<1>1. /\ queue \in Seq(RunIds) /\ todo \in Seq(Frames) /\ todo' \in Seq(Frames)
      /\ Policy # "latest"
  BY TodoTyped DEF TypeOK
<1>2. Runs(todo', "start") = {} => ~In("start")'
  BY <1>1, Quiet DEF In
<1>3. ASSUME NEW i \in DOMAIN queue, queue' = Without(queue, i), nextRunId' = nextRunId
      PROVE  Sorted(queue') /\ \A j \in DOMAIN queue' : queue'[j] < nextRunId'
  BY <1>1, <1>3, WithoutSorted DEF InOrder
<1>4. CASE In("start")
  <2>1. CASE Start
    <3>1. Covers(todo', Rest) /\ Runs(Rest, "start") = {}
      BY <1>1, <1>4, <2>1, StartStack DEF Prompt, In, Rest
    <3>2. ~In("start")'
      BY <1>2, <3>1 DEF Covers, Marks
    <3>3. UNCHANGED <<queue, nextRunId>>
      BY <2>1 DEF Start, known
    <3> QED BY <3>2, <3>3 DEF InOrder
  <2>2. CASE (\E c \in Completions : Offer(c)) \/ UNCHANGED vars
    <3>1. UNCHANGED <<queue, nextRunId, todo>>
      BY <2>2 DEF Offer, known, places, vars, runs, shared
    <3> QED BY <3>1 DEF InOrder, In, Current
  <2> QED BY <1>4, <2>1, <2>2, OnlyStarts
<1>5. CASE ~In("start")
  <2>1. Runs(todo, "start") = {}
    BY <1>1, <1>5, QuietUnlessStarting
  <2>2. CASE Run
    <3>1. nextRunId \in RunIds /\ nextRunId' = nextRunId + 1 /\ MayCall("run")
      BY <2>2 DEF Run
    <3>2. CASE active # {}
      <4>1. queue' = Append(queue, nextRunId) /\ todo' = todo
        BY <2>2, <3>2 DEF Run, Enqueued
      <4>2. Sorted(queue') /\ \A i \in DOMAIN queue' : queue'[i] < nextRunId'
        BY <1>1, <3>1, <4>1, AppendSorted DEF InOrder
      <4> QED BY <1>2, <2>1, <4>1, <4>2 DEF InOrder
    <3>3. CASE active = {}
      <4>1. queue = <<>>
        BY <3>1, <3>3, RunOvertakesNone
      <4>2. queue' = <<>>
        BY <2>2, <3>3, <4>1 DEF Run
      <4> QED BY <4>2 DEF InOrder, Sorted
    <3> QED BY <3>2, <3>3
  <2>3. CASE StartNext /\ CanStartNext
    <3> DEFINE f == Frame("start", Head(queue))
    <3>1. f \in Frames /\ Rest \in Seq(Frames) /\ todo' = <<f>> \o Rest /\ queue' = Tail(queue)
      BY <2>3, StartNextStack
    <3>2. f.run = Head(queue)
      BY DEF Frame
    <3> HIDE DEF f
    <3>3. Current' = Head(queue)
      BY <3>1, <3>2, Pushed DEF Current
    <3>4. queue # <<>> /\ nextRunId' = nextRunId
      BY <2>3 DEF StartNext, CanStartNext, known
    <3>5. 1 \in DOMAIN queue /\ queue' = Without(queue, 1) /\ Head(queue) = queue[1]
      BY <1>1, <3>1, <3>4, TailIsWithout
    <3>6. \A j \in DOMAIN queue' : queue[1] < queue'[j]
      <4>1. Len(queue) \in Nat \ {0} /\ DOMAIN queue = 1 .. Len(queue)
        BY <1>1, <3>4, LenProperties, EmptySeq
      <4>2. /\ queue' \in Seq(RunIds) /\ Len(queue') = Len(queue) - 1
            /\ \A j \in 1 .. Len(queue) - 1 :
                 queue'[j] = IF j < 1 THEN queue[j] ELSE queue[j + 1]
        BY <1>1, <3>5, WithoutTyped
      <4>3. DOMAIN queue' = 1 .. Len(queue) - 1
        BY <4>2, LenProperties
      <4>4. ASSUME NEW j \in DOMAIN queue' PROVE queue[1] < queue'[j]
        <5>1. j + 1 \in DOMAIN queue /\ 1 < j + 1 /\ queue'[j] = queue[j + 1]
          BY <4>1, <4>2, <4>3
        <5>2. \A k \in DOMAIN queue : 1 < k => queue[1] < queue[k]
          BY <3>5 DEF InOrder, Sorted
        <5> QED BY <5>1, <5>2
      <4> QED BY <4>4
    <3>7. Sorted(queue') /\ \A j \in DOMAIN queue' : queue'[j] < nextRunId'
      BY <1>3, <3>4, <3>5
    <3> QED BY <3>3, <3>5, <3>6, <3>7 DEF InOrder
  <2>4. CASE ~Run /\ ~(StartNext /\ CanStartNext)
    <3>1. ~In("start")'
      BY <1>2, <2>1, <2>4, NoOtherStart
    <3>2. /\ nextRunId' = nextRunId
          /\ \/ queue' = queue
             \/ queue' = <<>>
             \/ \E i \in DOMAIN queue : queue' = Without(queue, i)
      BY <2>4, QueueSteps
    <3>3. Sorted(queue') /\ \A j \in DOMAIN queue' : queue'[j] < nextRunId'
      BY <1>3, <3>2 DEF InOrder, Sorted
    <3> QED BY <3>1, <3>3 DEF InOrder
  <2> QED BY <2>2, <2>3, <2>4
<1> QED BY <1>4, <1>5

\* Only startQueued makes a run running.
LEMMA OnlyStartRuns ==
  ASSUME TypeOK, [Next]_vars, ~Start, NEW id \in RunIds, status'[id] = "running"
  PROVE  status[id] = "running"
<1> USE DEF runs, known, places, shared, TypeOK
<1>1. CASE Plain
  <2>1. CASE Return \/ CancelAll \/ TellCancelled \/ CancelAllActive \/ DeliverNone \/ Report
             \/ CallbackReturns \/ ResultEnds
    BY <2>1 DEF Return, CancelAll, TellCancelled, CancelAllActive, DeliverNone, Report,
                CallbackReturns, ResultEnds
  <2>2. CASE Dispose
    BY <2>2 DEF Dispose
  <2>3. ASSUME NEW other \in RunIds, Cancel(other) \/ Observe(other) \/ Unsubscribe(other)
        PROVE  status[id] = "running"
    BY <2>3 DEF Cancel, CancelRunning, CancelQueued, Observe, Unsubscribe
  <2>4. ASSUME NEW n \in 1 .. MaxPending, Pump(n) PROVE status[id] = "running"
    BY <2>4 DEF Pump
  <2>5. ASSUME NEW hook \in BOOLEAN, ExecutorReturns(hook) PROVE status[id] = "running"
    BY <2>5 DEF ExecutorReturns
  <2>6. CASE CancelAllQueued /\ queue # <<>>
    BY <2>6 DEF CancelAllQueued
  <2>7. CASE DeliverOne
    <3> DEFINE c == Head(todo).batch[1]
    <3>1. c \in Completions
      <4>1. Head(todo).batch \in Seq(Completions) /\ Head(todo).batch # <<>>
        BY <2>7, OnTop DEF DeliverOne, InPump, AboutAll
      <4> QED BY <4>1, EmptySeq, ElementOfSeq, LenProperties
    <3>2. status' = [status EXCEPT ![c.run] = c.outcome]
      BY <2>7 DEF DeliverOne, Complete
    <3> HIDE DEF c
    <3>3. c.outcome # "running"
      BY <3>1 DEF Completions, Outcome
    <3> QED BY <3>2, <3>3
  <2>8. ASSUME NEW c \in Completions, Offer(c) PROVE status[id] = "running"
    BY <2>8 DEF Offer
  <2> QED BY <1>1, <2>1, <2>2, <2>3, <2>4, <2>5, <2>6, <2>7, <2>8 DEF Plain
<1>2. CASE Run
  BY <1>2 DEF Run
<1>3. CASE StartNext \/ ExecutorRaises
  BY <1>3 DEF StartNext, ExecutorRaises
<1>4. CASE CancelActive \/ MarkCancelled \/ Unwind
  BY <1>4 DEF CancelActive, MarkCancelled, Unwind
<1>5. CASE CancelAllQueued /\ queue = <<>>
  BY <1>5 DEF CancelAllQueued
<1>6. CASE UNCHANGED vars
  BY <1>6 DEF vars
<1> QED BY <1>1, <1>2, <1>3, <1>4, <1>5, <1>6, StepCases

\* The queue is first in, first out, whichever calls the executors and the result
\* handlers make and whichever raise, as long as the other callbacks start no runs
\* (run, startNextOrdered, startQueued).
THEOREM FirstInFirstOut ==
  ASSUME NotifiedRunNone
  PROVE  Spec => StartsInOrder
<1> DEFINE Order == Policy = "ordered" => Prompt /\ DisposedIsInert /\ Serial /\ InOrder
           Fifo  == \A id \in RunIds : status[id] = "queued" /\ status'[id] = "running"
                      => \A other \in ToSet(queue) : id < other
<1>1. Init => Order
  <2> SUFFICES ASSUME Init PROVE Prompt /\ DisposedIsInert /\ Serial /\ InOrder
    OBVIOUS
  <2>1. todo = <<>> /\ queue = <<>>
    BY DEF Init
  <2> QED BY <2>1, SerialInit DEF InOrder, Sorted, In
<1>2. TypeOK /\ Chained /\ Order /\ [Next]_vars => Order'
  BY PromptNext, SerialNext, InOrderNext DEF Chained, Seen
<1>3. TypeOK /\ Chained /\ Order /\ [Next]_vars => [Fifo]_status
  <2> SUFFICES ASSUME TypeOK, Chained, Order, [Next]_vars,
                      NEW id \in RunIds, status[id] = "queued", status'[id] = "running",
                      NEW other \in ToSet(queue)
               PROVE  id < other
    OBVIOUS
  <2>1. Start
    BY OnlyStartRuns
  <2>2. In("start") /\ id = Current
    <3>1. In("start") /\ status' = [status EXCEPT ![Current] = "running"]
      BY <2>1 DEF Start
    <3> QED BY <3>1 DEF TypeOK
  <2>3. Policy = "ordered"
    BY DEF Chained, ToSet
  <2>4. PICK i \in DOMAIN queue : queue[i] = other
    BY DEF ToSet
  <2> QED BY <2>2, <2>3, <2>4 DEF InOrder
<1> QED BY <1>1, <1>2, <1>3, ChainedInit, ChainedNext, Typed, PTL DEF Spec, StartsInOrder

-----------------------------------------------------------------------------
(* The tickets.                                                            *)

LEMMA PlacesInit == Init => Placed /\ Begun /\ Chained
<1> SUFFICES ASSUME Init PROVE Placed /\ Begun
  BY ChainedInit
<1>1. todo = <<>> /\ queue = <<>> /\ active = {}
  BY DEF Init
<1>2. /\ Runs(todo, "start") = {} /\ Runs(todo, "markCancelled") = {}
      /\ Once(todo, "start") /\ Once(todo, "markCancelled")
  BY <1>1 DEF Runs, Once
<1>3. ToSet(queue) = {} /\ IsInjective(queue)
  BY <1>1 DEF ToSet, IsInjective
<1>4. Where(status, {}, {}, {}, {}, nextRunId)
  BY DEF Where, Init
<1>5. Begun
  BY <1>1 DEF Begun, Runs, Once
<1> QED BY <1>1, <1>2, <1>3, <1>4, <1>5 DEF Placed

LEMMA PlacesNext ==
  ASSUME TypeOK, Placed, Begun, Chained, [Next]_vars
  PROVE  Placed' /\ Begun' /\ Chained'
BY PlacedNext, BegunNext, ChainedNext DEF Chained

\* The tickets say where the runs are, in every callback and whatever it calls and
\* whatever is raised (run, startQueued, startNextOrdered, cancelActive,
\* completeRun, cancel, cancelAll, releaseCommand).
THEOREM TicketsTellTheTruth == Spec => []TicketsAgree
<1>1. TypeOK /\ Placed => TicketsAgree
  <2> SUFFICES ASSUME TypeOK, Placed PROVE TicketsAgree
    OBVIOUS
  <2>1. /\ Where(status, active, Runs(todo, "markCancelled"), ToSet(queue),
                 Runs(todo, "start"), nextRunId)
        /\ IsInjective(queue)
    BY DEF Placed
  <2>2. AtRest => Runs(todo, "markCancelled") = {} /\ Runs(todo, "start") = {}
    BY DEF AtRest, Runs
  <2>3. active \subseteq RunIds /\ ToSet(queue) \subseteq RunIds
    BY ElementOfSeq, LenProperties DEF TypeOK, ToSet
  <2> QED BY <2>1, <2>2, <2>3 DEF Where, TicketsAgree
<1> QED BY <1>1, PlacesInit, PlacesNext, Typed, PTL DEF Spec

\* "a CommandTicket whose status is stable after completion or cancellation"
\* (docs/frontend-runtime.md:385), when executors do not raise or callbacks do not
\* pump: no procedure sets the status of a run that has ended.
THEOREM EndedStaysEnded ==
  ASSUME RaiseIsSafe
  PROVE  Spec => StatusIsFinal
<1>1. TypeOK /\ Placed /\ Begun /\ Chained /\ [Next]_vars
      => [\A id \in tickets : status[id] \in Final => status'[id] = status[id]]_status
  <2> SUFFICES ASSUME TypeOK, Placed, Begun, Chained, [Next]_vars
               PROVE  \A id \in tickets : status[id] \in Final => status'[id] = status[id]
    OBVIOUS
  <2>1. tickets \subseteq RunIds
    BY DEF TypeOK
  <2> QED BY <2>1, PlacedNext DEF Chained
<1> QED BY <1>1, PlacesInit, PlacesNext, Typed, PTL DEF Spec, StatusIsFinal

-----------------------------------------------------------------------------
(* What is left of the runs.                                               *)

\* No observer waits for a run that has ended, only active runs have work to stop,
\* and what is reported has ended with an outcome.
Told    == \A id \in RunIds : status[id] \in Final => observer[id] # "waiting"
Stopped == \A id \in RunIds : work[id] = "live" => id \in active
Due     == Reports(todo) \cup delivered \subseteq Ended

\* Whoever ends a run takes its observer.
LEMMA ToldWhenEnded ==
  ASSUME TypeOK, Told, NEW id \in RunIds, NEW new, status' = [status EXCEPT ![id] = new],
         Notified({id}) \/ (new \notin Final /\ observer' = observer)
  PROVE  Told'
BY DEF Told, TypeOK, Notified

\* No other run becomes live, and a run leaves the table with its work.
LEMMA StoppedWhenEnded ==
  ASSUME TypeOK, Stopped, NEW id \in RunIds, NEW new, new # "live",
         active' = active \ {id},
         work' = [work EXCEPT ![id] = IF work[id] = "live" THEN new ELSE work[id]]
  PROVE  Stopped'
BY DEF Stopped, TypeOK

LEMMA LeftNext ==
  ASSUME TypeOK, Begun, Told, Stopped, [Next]_vars
  PROVE  Told' /\ Stopped'
<1> USE DEF runs, known, places, shared
<1>1. ASSUME UNCHANGED <<status, active, work, observer>> PROVE Told' /\ Stopped'
  BY <1>1 DEF Told, Stopped
<1>2. ASSUME UNCHANGED <<active, work>> PROVE Stopped'
  BY <1>2 DEF Stopped
<1>3. CASE Plain
  <2>1. CASE Return \/ CancelAll \/ TellCancelled \/ CancelAllActive \/ DeliverNone \/ Report
             \/ CallbackReturns \/ ResultEnds
    BY <1>1, <2>1 DEF Return, CancelAll, TellCancelled, CancelAllActive, DeliverNone, Report,
                CallbackReturns, ResultEnds
  <2>2. CASE Dispose
    <3>1. Told'
      BY <2>2 DEF Dispose, Told, TypeOK
    <3>2. Stopped'
      BY <2>2 DEF Dispose, Stopped, TypeOK
    <3> QED BY <3>1, <3>2
  <2>3. ASSUME NEW id \in RunIds, Cancel(id) PROVE Told' /\ Stopped'
    <3>1. CASE CancelRunning(id)
      BY <1>1, <3>1 DEF CancelRunning
    <3>2. CASE CancelQueued(id)
      <4>1. Told'
        BY <3>2, ToldWhenEnded DEF CancelQueued
      <4> QED BY <1>2, <3>2, <4>1 DEF CancelQueued
    <3> QED BY <2>3, <3>1, <3>2 DEF Cancel
  <2>4. ASSUME NEW id \in RunIds, Observe(id) PROVE Told' /\ Stopped'
    <3>1. Told'
      BY <2>4 DEF Observe, Told, TypeOK
    <3> QED BY <1>2, <2>4, <3>1 DEF Observe
  <2>5. ASSUME NEW id \in RunIds, Unsubscribe(id) PROVE Told' /\ Stopped'
    <3>1. Told'
      BY <2>5 DEF Unsubscribe, Told, TypeOK
    <3> QED BY <1>2, <2>5, <3>1 DEF Unsubscribe
  <2>6. ASSUME NEW n \in 1 .. MaxPending, Pump(n) PROVE Told' /\ Stopped'
    BY <1>1, <2>6 DEF Pump
  <2>7. ASSUME NEW hook \in BOOLEAN, ExecutorReturns(hook) PROVE Told' /\ Stopped'
    <3>1. Current \in RunIds
      BY <2>7, OnTop DEF ExecutorReturns, AboutRun, Callbacks
    <3>2. Told'
      BY <2>7 DEF ExecutorReturns, Told
    <3>3. Stopped'
      BY <2>7, <3>1 DEF ExecutorReturns, EndedMeanwhile, Stopped, TypeOK
    <3> QED BY <3>2, <3>3
  <2>8. CASE CancelAllQueued /\ queue # <<>>
    <3>1. Last(queue) \in RunIds
      BY <2>8, FrontTyped DEF TypeOK
    <3>2. Told'
      BY <2>8, <3>1, ToldWhenEnded DEF CancelAllQueued
    <3> QED BY <1>2, <2>8, <3>2 DEF CancelAllQueued
  <2>9. CASE DeliverOne
    <3> DEFINE c == Head(todo).batch[1]
    <3>1. c \in Completions
      <4>1. Head(todo).batch \in Seq(Completions) /\ Head(todo).batch # <<>>
        BY <2>9, OnTop DEF DeliverOne, InPump, AboutAll
      <4> QED BY <4>1, EmptySeq, ElementOfSeq, LenProperties
    <3>2. Complete(c)
      BY <2>9 DEF DeliverOne
    <3> HIDE DEF c
    <3>3. c.run \in RunIds
      BY <3>1 DEF Completions
    <3>4. Told'
      BY <3>2, <3>3, ToldWhenEnded DEF Complete
    <3>5. Stopped'
      <4>1. /\ active' = active \ {c.run} /\ "none" # "live"
            /\ work' = [work EXCEPT ![c.run] = IF work[c.run] = "live" THEN "none"
                                              ELSE work[c.run]]
        BY <3>2 DEF Complete
      <4> QED BY <3>3, <4>1, StoppedWhenEnded
    <3> QED BY <3>4, <3>5
  <2>10. ASSUME NEW c \in Completions, Offer(c) PROVE Told' /\ Stopped'
    BY <1>1, <2>10 DEF Offer
  <2> QED BY <1>3, <2>1, <2>2, <2>3, <2>4, <2>5, <2>6, <2>7, <2>8, <2>9, <2>10 DEF Plain
<1>4. CASE Run
  <2>1. nextRunId \in RunIds /\ "queued" \notin Final
    BY <1>4 DEF Run, Final, Outcome
  <2>2. Told'
    BY <1>4, <2>1, ToldWhenEnded DEF Run
  <2> QED BY <1>2, <1>4, <2>2 DEF Run
<1>5. CASE Start
  <2>1. Current \in RunIds /\ "running" \notin Final
    BY <1>5, OnTop DEF Start, AboutRun, Final, Outcome
  <2>2. Told'
    BY <1>5, <2>1, ToldWhenEnded DEF Start
  <2>3. Stopped'
    BY <1>5, <2>1 DEF Start, Stopped, TypeOK
  <2> QED BY <2>2, <2>3
<1>6. CASE StartNext
  BY <1>1, <1>6 DEF StartNext
<1>7. CASE ExecutorRaises
  <2>1. Current \in RunIds /\ work[Current] = "none"
    BY <1>7, ExecutorTaken DEF ExecutorRaises, Begun
  <2>2. Told'
    BY <1>7, <2>1, ToldWhenEnded DEF ExecutorRaises
  <2>3. Stopped'
    BY <1>7, <2>1 DEF ExecutorRaises, Stopped
  <2> QED BY <2>2, <2>3
<1>8. CASE CancelActive
  <2>1. Current \in RunIds
    BY <1>8, OnTop DEF CancelActive, AboutRun
  <2>2. Told'
    BY <1>8 DEF CancelActive, Told
  <2>3. Stopped'
    <3>1. CASE Current \notin active
      BY <1>2, <1>8, <3>1 DEF CancelActive
    <3>2. CASE Current \in active
      <4>1. /\ active' = active \ {Current} /\ "called" # "live"
            /\ work' = [work EXCEPT ![Current] = IF work[Current] = "live" THEN "called"
                                                ELSE work[Current]]
        BY <1>8, <3>2 DEF CancelActive
      <4> QED BY <2>1, <4>1, StoppedWhenEnded
    <3> QED BY <3>1, <3>2
  <2> QED BY <2>2, <2>3
<1>9. CASE MarkCancelled
  <2>1. Current \in RunIds
    BY <1>9, OnTop DEF MarkCancelled, AboutRun
  <2>2. Told'
    BY <1>9, <2>1, ToldWhenEnded DEF MarkCancelled
  <2> QED BY <1>2, <1>9, <2>2 DEF MarkCancelled
<1>10. CASE CancelAllQueued /\ queue = <<>>
  BY <1>1, <1>10 DEF CancelAllQueued
<1>11. CASE Unwind
  BY <1>1, <1>11 DEF Unwind
<1>12. CASE UNCHANGED vars
  BY <1>1, <1>12 DEF vars
<1> QED BY <1>3, <1>4, <1>5, <1>6, <1>7, <1>8, <1>9, <1>10, <1>11, <1>12, StepCases

\* Every step reports what was to be reported, or has ended now.
LEMMA ReportsNext ==
  ASSUME TypeOK, Linked(todo), [Next]_vars
  PROVE  Reports(todo') \subseteq Reports(todo) \cup Ended'
<1>1. CASE Plain
  BY <1>1, PlainOver DEF Over, Kept
<1>2. CASE Run
  <2>1. CASE Policy = "ordered" /\ active # {}
    BY <1>2, <2>1 DEF Run
  <2>2. CASE ~(Policy = "ordered" /\ active # {})
    <3> DEFINE f == Frame("start", nextRunId)
               t == <<Frame("return", nextRunId)>> \o todo
    <3>1. /\ f \in Frames /\ t \in Seq(Frames) /\ f.op = "start"
          /\ Over(t, todo) /\ Over(todo', <<f>> \o t)
      BY <1>2, <2>2, RunStack
    <3> HIDE DEF f, t
    <3>2. Reports(<<f>> \o t) = Reports(t) \cup {}
      BY <3>1, ReportsPushed
    <3> QED BY <3>1, <3>2 DEF Over, Kept
  <2> QED BY <2>1, <2>2
<1>3. CASE Start \/ StartNext
  BY <1>3, StartStack, StartNextStack
<1>4. CASE ExecutorRaises
  BY <1>4, ExecutorRaisesStack DEF Over, Kept
<1>5. CASE CancelActive
  <2>1. Reports(Rest) \subseteq Reports(todo)
    BY <1>5, RestKept DEF CancelActive
  <2>2. CASE Current \notin active
    BY <1>5, <2>1, <2>2 DEF CancelActive
  <2>3. CASE Current \in active
    <3> DEFINE f == Frame("markCancelled", Current)
    <3>1. /\ f \in Frames /\ Rest \in Seq(Frames) /\ f.op = "markCancelled"
          /\ Over(todo', <<f>> \o Rest)
      BY <1>5, <2>3, CancelActiveStack
    <3> HIDE DEF f
    <3>2. Reports(<<f>> \o Rest) = Reports(Rest) \cup {}
      BY <3>1, ReportsPushed
    <3> QED BY <2>1, <3>1, <3>2 DEF Over, Kept
  <2> QED BY <2>2, <2>3
<1>6. CASE MarkCancelled
  <2>1. Reports(Rest) \subseteq Reports(todo)
    BY <1>6, RestKept DEF MarkCancelled
  <2> QED BY <1>6, <2>1, MarkCancelledStack DEF Over, Kept
<1>7. CASE CancelAllQueued /\ queue = <<>>
  BY <1>7, RestKept DEF CancelAllQueued
<1>8. CASE Unwind
  BY <1>8, UnwindStack DEF Over, Kept
<1>9. CASE UNCHANGED vars
  BY <1>9 DEF vars
<1> QED BY <1>1, <1>2, <1>3, <1>4, <1>5, <1>6, <1>7, <1>8, <1>9, StepCases

\* Only a result handler that was called is counted as delivered.
LEMMA DeliveredNext ==
  ASSUME TypeOK, [Next]_vars
  PROVE  delivered' \subseteq delivered \cup Reports(todo)
<1>1. CASE ResultEnds
  <2>1. In("result") /\ delivered' = delivered \cup {Current}
    BY <1>1 DEF ResultEnds
  <2> DEFINE h == Head(todo)
             r == Tail(todo)
  <2>2. h \in Frames /\ r \in Seq(Frames) /\ todo = <<h>> \o r /\ h.op = "result" /\ h.run = Current
    BY <2>1, OnTop, Popped, Zenon DEF Current
  <2> HIDE DEF h, r
  <2>3. Reports(<<h>> \o r) = Reports(r) \cup {Current}
    BY <2>2, ReportsPushed
  <2> QED BY <2>1, <2>2, <2>3
<1>2. CASE ~ResultEnds
  <2> SUFFICES delivered' = delivered
    OBVIOUS
  <2> USE DEF runs, known, places, shared
  <2>1. CASE Run \/ Return \/ CancelAll \/ Dispose
    BY <2>1 DEF Run, Return, CancelAll, Dispose
  <2>2. ASSUME NEW id \in RunIds, Cancel(id) \/ Observe(id) \/ Unsubscribe(id)
        PROVE  delivered' = delivered
    BY <2>2 DEF Cancel, CancelRunning, CancelQueued, Observe, Unsubscribe
  <2>3. ASSUME NEW n \in 1 .. MaxPending, Pump(n) PROVE delivered' = delivered
    BY <2>3 DEF Pump
  <2>4. ASSUME NEW hook \in BOOLEAN, ExecutorReturns(hook) PROVE delivered' = delivered
    BY <2>4 DEF ExecutorReturns
  <2>5. CASE Start \/ StartNext \/ ExecutorRaises \/ CancelActive
    BY <2>5 DEF Start, StartNext, ExecutorRaises, CancelActive
  <2>6. CASE MarkCancelled \/ TellCancelled \/ CancelAllActive \/ CancelAllQueued
    BY <2>6 DEF MarkCancelled, TellCancelled, CancelAllActive, CancelAllQueued
  <2>7. CASE DeliverNone \/ DeliverOne \/ Report
    BY <2>7 DEF DeliverNone, DeliverOne, Report
  <2>8. CASE CallbackReturns \/ Unwind \/ \E c \in Completions : Offer(c)
    BY <2>8 DEF CallbackReturns, Unwind, Offer
  <2>9. CASE UNCHANGED vars
    BY <2>9 DEF vars
  <2> QED BY <1>2, <2>1, <2>2, <2>3, <2>4, <2>5, <2>6, <2>7, <2>8, <2>9
          DEF Next, Application, Library
<1> QED BY <1>1, <1>2

\* In every callback, whatever it calls and whatever is raised: no observer waits for
\* a run that has ended, and work that is still going on is that of an active, running
\* run (notifyRunSettled, startQueued, cancelActive, completeRun, releaseCommand).
THEOREM EndedIsTold ==
  Spec => [](Told /\ \A id \in RunIds : work[id] = "live" => id \in active /\ status[id] = "running")
<1>1. Init => Told /\ Stopped
  BY DEF Init, Told, Stopped
<1>2. TypeOK /\ Begun /\ Told /\ Stopped /\ [Next]_vars => Told' /\ Stopped'
  BY LeftNext
<1>3. Placed /\ Told /\ Stopped
      => Told /\ \A id \in RunIds : work[id] = "live" => id \in active /\ status[id] = "running"
  BY DEF Placed, Where, Stopped
<1> QED BY <1>1, <1>2, <1>3, PlacesInit, PlacesNext, Typed, PTL DEF Spec

\* When no call is in progress, every observer of an ended run was called, every
\* cancelled run was told to stop, and only runs that succeeded or failed were
\* delivered, when executors do not raise or callbacks do not pump (notifyRunSettled,
\* startQueued, cancelActive, completeRun, releaseCommand).
THEOREM NothingIsOwed ==
  ASSUME RaiseIsSafe
  PROVE  Spec => []RunsAreSettled
<1>1. Init => Told /\ Stopped /\ Due
  <2> SUFFICES ASSUME Init PROVE Told /\ Stopped /\ Due
    OBVIOUS
  <2>1. Reports(todo) = {}
    BY DEF Init, Reports, Runs
  <2> QED BY <2>1 DEF Init, Told, Stopped, Due
<1>2. TypeOK /\ Placed /\ Begun /\ Chained /\ Told /\ Stopped /\ Due /\ [Next]_vars
      => Told' /\ Stopped' /\ Due'
  <2> SUFFICES ASSUME TypeOK, Placed, Begun, Chained, Told, Stopped, Due, [Next]_vars
               PROVE  Told' /\ Stopped' /\ Due'
    OBVIOUS
  <2>1. Told' /\ Stopped'
    BY LeftNext
  <2>2. Ended \subseteq Ended'
    BY PlacedNext DEF Chained, Ended, Final
  <2>3. Reports(todo') \subseteq Reports(todo) \cup Ended' /\ delivered' \subseteq delivered \cup Reports(todo)
    BY ReportsNext, DeliveredNext DEF Chained
  <2> QED BY <2>1, <2>2, <2>3 DEF Due
<1>3. TypeOK /\ Placed /\ Told /\ Stopped /\ Due => RunsAreSettled
  <2> SUFFICES ASSUME TypeOK, Placed, Told, Stopped, Due PROVE RunsAreSettled
    OBVIOUS
  <2>1. \A id \in RunIds : status[id] = "cancelled" => work[id] # "live"
    BY DEF Placed, Where, Stopped
  <2> QED BY <2>1 DEF RunsAreSettled, Told, Due, Ended
<1> QED BY <1>1, <1>2, <1>3, PlacesInit, PlacesNext, Typed, PTL DEF Spec
=============================================================================
