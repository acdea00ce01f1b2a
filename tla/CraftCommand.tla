----------------------------- MODULE CraftCommand -----------------------------
(***************************************************************************)
(* drivers/rust/src/command.rs: one Command, its runs, the callbacks it    *)
(* makes into the application, and the completions other threads offer.    *)
(*                                                                         *)
(* The UI thread's calls in progress are a stack, innermost first: a frame *)
(* is a callback the application is executing, a step of this file still   *)
(* to take, or the point ("end", "close") that catches what panics above   *)
(* it.  Every step above an "end" is caught on its own in the code, so a   *)
(* panic marks the nearest end and the steps left still run; the end then  *)
(* resumes it.  Values are left out, and a completion weighs by its        *)
(* outcome.  One observer per run at a time; all callbacks are installed.  *)
(* D_Fault is D with a plausible fault, and no action uses it.             *)
(***************************************************************************)
EXTENDS Naturals, FiniteSets, Sequences, SequencesExt

CONSTANTS MaxRuns,     \* bound: runs in a behaviour
          MaxPending,  \* max_pending_completions
          MaxWeight,   \* max_pending_weight
          MaxDepth,    \* bound: callbacks in one another
          Reentry      \* the <<callback, call>> pairs the application makes

Callbacks == {"executor", "hook", "lateHook", "observer", "cancelled", "result"}
Calls == {"run", "cancel", "cancelAll", "pump", "dispose", "observe", "close"}
ASSUME Constants_Assumption ==
  /\ MaxRuns \in Nat \ {0} /\ MaxPending \in Nat \ {0} /\ MaxWeight \in Nat \ {0}
  /\ MaxDepth \in Nat /\ Reentry \subseteq Callbacks \X Calls

Policies == {"latest", "ordered", "concurrent"}
RunIds   == 1 .. MaxRuns
Weight   == [succeeded |-> 1, failed |-> 2]
Outcomes == DOMAIN Weight
Final    == Outcomes \cup {"cancelled"}

VARIABLES
  policy, nextRun,
  status,     \* TicketState of each run
  active,     \* the keys of active
  hook,       \* run -> its CommandCancel: unstarted, none, live, called
  queue,      \* queued
  observer,   \* run -> none, waiting or told
  tickets,    \* runs whose ticket run() returned
  phase,      \* of the Command: open, disposed, dropped
  items, closed, wake,   \* CompletionState, and whether it has a wake callback
  owed,       \* wake callbacks cloned under the lock and not yet called
  known,      \* history: what the application knows of the items queued: none,
              \* told (the wake was called), quiet (no wake was set, or a pump
              \* left some)
  answered,   \* history: active runs with an accepted completion
  lost,       \* history: those of them whose completion a pump called under a late
              \* hook took and could not deliver
  stack

completions == <<items, closed, wake, owed, known, answered, lost>>
runs == <<nextRun, status, active, hook, queue, observer, tickets>>
vars == <<policy, runs, phase, completions, stack>>

Frame(op, run) == [op |-> op, run |-> run, batch |-> <<>>, failed |-> FALSE]
Step(op)   == <<Frame(op, 0)>>
In(op)     == stack # <<>> /\ Head(stack).op = op
Top        == Head(stack)
Below      == Tail(stack)
Depth      == Cardinality({i \in DOMAIN stack : stack[i].op \in Callbacks})
MayCall(call) == stack # <<>> => <<Top.op, call>> \in Reentry /\ Depth <= MaxDepth

\* start calls a hook that comes too late with the table of active runs still
\* borrowed (the else of an if let): any use of the table panics meanwhile.
Borrowed == \E i \in DOMAIN stack : stack[i].op = "lateHook"

\* A panic arriving at rest.  It unwinds to a callback, where the application
\* catches it (or panics in turn), or to an end, which it marks; what stands
\* above an end is caught step by step and still runs.
Catches(rest) == {i \in DOMAIN rest : rest[i].op \in Callbacks \cup {"end", "close"}}
Nearest(rest) == CHOOSE i \in Catches(rest) : \A j \in Catches(rest) : i <= j

Panic_SkipsSteps(rest) ==
  IF Catches(rest) = {} THEN <<>>
  ELSE LET i == Nearest(rest)
       IN IF rest[i].op \in Callbacks THEN SubSeq(rest, i, Len(rest))
          ELSE SubSeq([rest EXCEPT ![i].failed = TRUE], i, Len(rest))
Panic(rest) ==
  IF Catches(rest) = {} THEN <<>>
  ELSE LET i == Nearest(rest)
       IN IF rest[i].op \in Callbacks THEN SubSeq(rest, i, Len(rest))
          ELSE [rest EXCEPT ![i].failed = TRUE]

\* notify_settled takes the observer out, then calls it.
Notified(ids) == observer' = [r \in RunIds |-> IF r \in ids /\ observer[r] = "waiting"
                                               THEN "told" ELSE observer[r]]
Settled(r) == IF observer[r] = "waiting" THEN <<Frame("observer", r)>> ELSE <<>>

Init ==
  /\ policy \in Policies /\ nextRun = 1
  /\ status = [r \in RunIds |-> "new"] /\ hook = [r \in RunIds |-> "unstarted"]
  /\ observer = [r \in RunIds |-> "none"]
  /\ active = {} /\ queue = <<>> /\ tickets = {}
  /\ phase = "open" /\ items = <<>> /\ closed = FALSE /\ wake \in BOOLEAN
  /\ owed = 0 /\ known = "none" /\ answered = {} /\ lost = {}
  /\ stack = <<>>

-----------------------------------------------------------------------------
\* Calls of the application.

CancelFrames(ids, then) ==
  LET orders == {order \in [1 .. Cardinality(ids) -> ids] : IsInjective(order)}
  IN {[i \in DOMAIN order |-> Frame("cancelActive", order[i])] \o then : order \in orders}

\* run: for LatestOnly, what is active or queued is cancelled first, and a panic
\* there abandons the new run.
Run ==
  /\ MayCall("run") /\ phase = "open" /\ ~Borrowed /\ nextRun \in RunIds
  /\ nextRun' = nextRun + 1
  /\ status' = [status EXCEPT ![nextRun] = "queued"]
  /\ LET starting == <<Frame("start", nextRun), Frame("return", nextRun)>> \o stack
     IN IF policy = "latest"
        THEN /\ stack' \in CancelFrames(active, Step("cancelQueued") \o Step("end") \o starting)
             /\ UNCHANGED <<queue, tickets>>
        ELSE IF policy = "ordered" /\ active # {}
        THEN /\ queue' = Append(queue, nextRun)
             /\ tickets' = tickets \cup {nextRun}
             /\ UNCHANGED stack
        ELSE stack' = starting /\ UNCHANGED <<queue, tickets>>
  /\ UNCHANGED <<policy, active, hook, observer, phase, completions>>

Return ==
  /\ In("return")
  /\ tickets' = tickets \cup {Top.run}
  /\ stack' = Below
  /\ UNCHANGED <<policy, nextRun, status, active, hook, queue, observer, phase, completions>>

CancelRunning(r) ==
  /\ MayCall("cancel") /\ phase = "open" /\ ~Borrowed
  /\ r \in active \cap tickets
  /\ stack' = <<Frame("cancelActive", r)>> \o Step("startNext") \o Step("end") \o stack
  /\ UNCHANGED <<policy, runs, phase, completions>>

CancelWaiting(r) ==
  /\ MayCall("cancel") /\ phase = "open" /\ ~Borrowed
  /\ \E i \in DOMAIN queue : queue[i] = r /\ queue' = RemoveAt(queue, i)
  /\ stack' = <<Frame("mark", r)>> \o Step("end") \o stack
  /\ UNCHANGED <<policy, nextRun, status, active, hook, observer, tickets, phase, completions>>

CancelAll ==
  /\ MayCall("cancelAll") /\ phase = "open" /\ ~Borrowed
  /\ stack' \in CancelFrames(active, Step("cancelQueued") \o Step("end") \o stack)
  /\ UNCHANGED <<policy, runs, phase, completions>>

\* pump: what it takes is lost when it is called under a late hook, since
\* completing a run needs the table; the runs stay active.
Pump(n) ==
  /\ MayCall("pump") /\ phase = "open"
  /\ n <= Len(items)
  /\ items' = SubSeq(items, n + 1, Len(items))
  /\ known' = (IF items' = <<>> THEN "none" ELSE "quiet")
  /\ LET batch == SubSeq(items, 1, n)
     IN IF Borrowed
        THEN /\ lost' = lost \cup ({batch[i].run : i \in DOMAIN batch} \cap answered)
             /\ UNCHANGED stack
        ELSE /\ stack' = <<[Frame("deliver", 0) EXCEPT !.batch = batch]>> \o Step("end") \o stack
             /\ UNCHANGED lost
  /\ UNCHANGED <<policy, runs, phase, closed, wake, owed, answered>>

\* observe_run calls the observer of a settled run at once.
Observe(r) ==
  /\ MayCall("observe") /\ phase = "open"
  /\ r \in tickets /\ observer[r] = "none"
  /\ IF status[r] \in Final
     THEN observer' = [observer EXCEPT ![r] = "told"] /\ stack' = <<Frame("observer", r)>> \o stack
     ELSE observer' = [observer EXCEPT ![r] = "waiting"] /\ UNCHANGED stack
  /\ UNCHANGED <<policy, nextRun, status, active, hook, queue, tickets, phase, completions>>

\* CommandRunSubscription: close, or its drop.
CloseObserver(r) ==
  /\ MayCall("close") /\ observer[r] = "waiting"
  /\ observer' = [observer EXCEPT ![r] = "none"]
  /\ UNCHANGED <<policy, nextRun, status, active, hook, queue, tickets, phase, completions, stack>>

\* dispose, up to its cancellations (which a late hook's call does not reach).
Dispose ==
  /\ MayCall("dispose") /\ phase = "open"
  /\ phase' = "disposed"
  /\ IF Borrowed THEN stack' = Step("close") \o stack
     ELSE stack' \in CancelFrames(active, Step("cancelQueued") \o Step("close") \o stack)
  /\ UNCHANGED <<policy, runs, completions>>

CloseQueue == /\ items' = <<>> /\ closed' = TRUE /\ wake' = FALSE
              /\ answered' = {} /\ lost' = {} /\ known' = "none" /\ UNCHANGED owed

\* The rest of dispose, whatever its cancellations did.
Close ==
  /\ In("close")
  /\ observer' = [r \in RunIds |-> IF observer[r] = "waiting" THEN "none" ELSE observer[r]]
  /\ CloseQueue
  /\ stack' = Below
  /\ UNCHANGED <<policy, nextRun, status, active, hook, queue, tickets, phase>>

Dropped_ForgetsQueued == active
Dropped == active \cup ToSet(queue)

\* The last handle goes: nothing the callbacks hold can reach the Command, so
\* the drop of CommandCore is one step.
Drop ==
  /\ stack = <<>> /\ phase # "dropped"
  /\ phase' = "dropped"
  /\ status' = [r \in RunIds |-> IF r \in Dropped THEN "cancelled" ELSE status[r]]
  /\ hook' = [r \in RunIds |-> IF r \in active /\ hook[r] = "live" THEN "called" ELSE hook[r]]
  /\ Notified(Dropped)
  /\ active' = {} /\ queue' = <<>>
  /\ CloseQueue
  /\ UNCHANGED <<policy, nextRun, tickets, stack>>

-----------------------------------------------------------------------------
\* Starting and cancelling runs.

\* start, up to the executor: a disposed Command has none, and start panics with
\* the run already active.
Start ==
  /\ In("start")
  /\ status' = [status EXCEPT ![Top.run] = "running"]
  /\ active' = active \cup {Top.run}
  /\ hook' = [hook EXCEPT ![Top.run] = "none"]
  /\ stack' = IF phase = "open" THEN <<Frame("executor", Top.run)>> \o Below ELSE Panic(Below)
  /\ UNCHANGED <<policy, nextRun, queue, observer, tickets, phase, completions>>

CanStartNext == policy = "ordered" /\ active = {} /\ queue # <<>>

StartNext ==
  /\ In("startNext")
  /\ IF CanStartNext
     THEN queue' = Tail(queue) /\ stack' = <<Frame("start", Head(queue))>> \o Below
     ELSE stack' = Below /\ UNCHANGED queue
  /\ UNCHANGED <<policy, nextRun, status, active, hook, observer, tickets, phase, completions>>

\* The hook of a run that ended while its executor ran is called at once.
ExecutorReturns(gives) ==
  /\ In("executor")
  /\ LET late == Top.run \notin active
     IN /\ hook' = [hook EXCEPT ![Top.run] =
                      IF ~gives THEN @ ELSE IF late THEN "called" ELSE "live"]
        /\ stack' = (IF gives /\ late THEN <<Frame("lateHook", Top.run)>> ELSE <<>>) \o Below
  /\ UNCHANGED <<policy, nextRun, status, active, queue, observer, tickets, phase, completions>>

AfterFailedStart_NoNext == <<[Frame("end", 0) EXCEPT !.failed = TRUE]>>
AfterFailedStart == Step("startNext") \o <<[Frame("end", 0) EXCEPT !.failed = TRUE]>>

ExecutorPanics ==
  /\ In("executor")
  /\ active' = active \ {Top.run}
  /\ status' = [status EXCEPT ![Top.run] = "cancelled"]
  /\ Notified({Top.run})
  /\ answered' = answered \ {Top.run} /\ lost' = lost \ {Top.run}
  /\ stack' = Settled(Top.run) \o AfterFailedStart \o Below
  /\ UNCHANGED <<policy, nextRun, hook, queue, tickets, phase, items, closed, wake, owed, known>>

\* cancel_active: the run leaves the table, then its hook is called.
CancelActive ==
  /\ In("cancelActive")
  /\ IF Top.run \notin active
     THEN stack' = Below /\ UNCHANGED <<active, hook>>
     ELSE /\ active' = active \ {Top.run}
          /\ hook' = [hook EXCEPT ![Top.run] = IF @ = "live" THEN "called" ELSE @]
          /\ stack' = (IF hook[Top.run] = "live" THEN <<Frame("hook", Top.run)>> ELSE <<>>)
                        \o <<Frame("mark", Top.run)>> \o Below
  /\ answered' = answered \ {Top.run} /\ lost' = lost \ {Top.run}
  /\ UNCHANGED <<policy, nextRun, status, queue, observer, tickets, phase,
                 items, closed, wake, owed, known>>

\* mark_cancelled; disposal does not notify, and then takes on_cancelled.
MarkCancelled ==
  /\ In("mark")
  /\ status' = [status EXCEPT ![Top.run] = "cancelled"]
  /\ Notified({Top.run})
  /\ stack' = Settled(Top.run) \o <<Frame("tell", Top.run)>> \o Below
  /\ UNCHANGED <<policy, nextRun, active, hook, queue, tickets, phase, completions>>

\* The callback that ends a run: on_cancelled, or on_success or on_failure.
Tell ==
  /\ In("tell") \/ In("report")
  /\ stack' = (IF phase # "open" THEN <<>>
               ELSE <<Frame(IF In("tell") THEN "cancelled" ELSE "result", Top.run)>>) \o Below
  /\ UNCHANGED <<policy, runs, phase, completions>>

\* The second loop of cancel_all_internal takes the newest queued run.
CancelQueued ==
  /\ In("cancelQueued")
  /\ IF queue = <<>> THEN stack' = Below /\ UNCHANGED queue
     ELSE queue' = Front(queue) /\ stack' = <<Frame("mark", Last(queue))>> \o stack
  /\ UNCHANGED <<policy, nextRun, status, active, hook, observer, tickets, phase, completions>>

-----------------------------------------------------------------------------
\* Completions.

WeightOf(s) == LET sum[i \in 0 .. Len(s)] ==
                     IF i = 0 THEN 0 ELSE sum[i - 1] + Weight[s[i].outcome]
               IN sum[Len(s)]
Queued == WeightOf(items)
Accepts(outcome) ==
  /\ ~closed /\ Len(items) < MaxPending
  /\ Weight[outcome] <= MaxWeight /\ Queued <= MaxWeight - Weight[outcome]

Wakes_AfterPush == FALSE   \* was_empty is read once the completion is queued
Wakes == items = <<>> /\ wake

\* A sink offers a completion, from any thread; the wake is called after the
\* lock is released.
Offer(r, outcome) ==
  /\ hook[r] # "unstarted" /\ owed < 2
  /\ Accepts(outcome)
  /\ items' = Append(items, [run |-> r, outcome |-> outcome])
  /\ owed' = owed + (IF Wakes THEN 1 ELSE 0)
  /\ known' = (IF items = <<>> /\ ~wake /\ known = "none" THEN "quiet" ELSE known)
  /\ answered' = (answered \cup {r}) \cap active
  /\ lost' = lost \ {r}
  /\ UNCHANGED <<policy, runs, phase, closed, wake, stack>>

CallWake ==
  /\ owed > 0
  /\ owed' = owed - 1 /\ known' = "told"
  /\ UNCHANGED <<policy, runs, phase, items, closed, wake, answered, lost, stack>>

SetWake ==
  /\ stack = <<>> /\ phase = "open"
  /\ wake' = ~wake
  /\ UNCHANGED <<policy, runs, phase, items, closed, owed, known, answered, lost, stack>>

AfterCompletion(r) == Settled(r) \o Step("startNext") \o <<Frame("report", r)>>

\* One turn of pump's loop: complete, which ignores a run that is not active.
Deliver ==
  /\ In("deliver")
  /\ IF Top.batch = <<>>
     THEN stack' = Below /\ UNCHANGED <<status, active, hook, observer, answered, lost>>
     ELSE LET c == Head(Top.batch)
              rest == <<[Top EXCEPT !.batch = Tail(@)]>> \o Below
          IN IF c.run \notin active
             THEN stack' = rest /\ UNCHANGED <<status, active, hook, observer, answered, lost>>
             ELSE /\ active' = active \ {c.run}
                  /\ status' = [status EXCEPT ![c.run] = c.outcome]
                  /\ hook' = [hook EXCEPT ![c.run] = "none"]
                  /\ Notified({c.run})
                  /\ answered' = answered \ {c.run} /\ lost' = lost \ {c.run}
                  /\ stack' = AfterCompletion(c.run) \o rest
  /\ UNCHANGED <<policy, nextRun, queue, tickets, phase, items, closed, wake, owed, known>>

-----------------------------------------------------------------------------
CallbackReturns ==
  /\ stack # <<>> /\ Top.op \in Callbacks \ {"executor"}
  /\ stack' = Below
  /\ UNCHANGED <<policy, runs, phase, completions>>

\* The panic of a hook is swallowed where it is called: the hook returns.
CallbackPanics ==
  /\ stack # <<>> /\ Top.op \in {"observer", "cancelled", "result"}
  /\ stack' = Panic(Below)
  /\ UNCHANGED <<policy, runs, phase, completions>>

End ==
  /\ In("end")
  /\ stack' = IF Top.failed THEN Panic(Below) ELSE Below
  /\ UNCHANGED <<policy, runs, phase, completions>>

Next ==
  \/ Run \/ CancelAll \/ Dispose \/ Drop \/ SetWake
  \/ \E r \in RunIds : \/ CancelRunning(r) \/ CancelWaiting(r)
                       \/ Observe(r) \/ CloseObserver(r)
  \/ \E n \in 1 .. MaxPending : Pump(n)
  \/ \E gives \in BOOLEAN : ExecutorReturns(gives)
  \/ ExecutorPanics \/ CallbackReturns \/ CallbackPanics
  \/ Return \/ Close \/ Start \/ StartNext \/ CancelActive \/ MarkCancelled \/ Tell
  \/ CancelQueued \/ Deliver \/ End
  \/ \E r \in RunIds, outcome \in Outcomes : Offer(r, outcome)
  \/ CallWake

Spec == Init /\ [][Next]_vars

-----------------------------------------------------------------------------
AtRest == stack = <<>>

\* Every variable has its type, and the completions keep both their limits.
TypeOK ==
  /\ policy \in Policies /\ nextRun \in 1 .. MaxRuns + 1
  /\ status \in [RunIds -> Final \cup {"new", "queued", "running"}]
  /\ active \subseteq RunIds /\ tickets \subseteq RunIds /\ answered \subseteq RunIds
  /\ lost \subseteq RunIds
  /\ hook \in [RunIds -> {"unstarted", "none", "live", "called"}]
  /\ queue \in Seq(RunIds) /\ IsInjective(queue)
  /\ observer \in [RunIds -> {"none", "waiting", "told"}]
  /\ phase \in {"open", "disposed", "dropped"}
  /\ items \in Seq([run : RunIds, outcome : Outcomes])
  /\ Len(items) <= MaxPending /\ Queued <= MaxWeight
  /\ closed \in BOOLEAN /\ wake \in BOOLEAN /\ known \in {"none", "told", "quiet"}
  /\ owed \in 0 .. 2

\* An ordered Command runs one run at a time, and
\* a ticket says where its run is, whatever callback is executing: an active run
\* is running, a waiting one queued; and when the calls have ended no ticket the
\* application holds says running or queued of a run the Command has forgotten,
\* nor does an observer wait for a run that has ended.
TicketsAgree ==
  /\ TypeOK
  /\ policy = "ordered" => Cardinality(active) <= 1
  /\ \A r \in active : status[r] = "running"
  /\ \A r \in ToSet(queue) : status[r] = "queued"
  /\ AtRest => \A r \in RunIds :
       /\ status[r] = "running" => r \in active
       /\ status[r] = "queued" /\ r \in tickets => r \in ToSet(queue)
       /\ status[r] \in Final => observer[r] # "waiting"

\* start_next_ordered follows every end of a run, also when an executor or an
\* observer panicked: at rest a queued run always waits for an active one.
NotWedged == AtRest /\ queue # <<>> => active # {}

\* pump completes what it took even when callbacks panic, and a cancelled run was
\* told to stop: at rest a run still active whose completion was accepted has it
\* in the queue, and no cancelled run has a hook that was not called.  Excepted
\* are the runs in lost: a late hook is called with the table of active runs
\* borrowed (command.rs:344-347), so in a pump called under it every complete panics in
\* the catch around it (command.rs:748-757), and runs that stay active lose the
\* completions taken.
AnswersKept ==
  AtRest => /\ \A r \in answered \ lost : \E i \in DOMAIN items : items[i].run = r
            /\ \A r \in RunIds : status[r] = "cancelled" => hook[r] # "live"

\* The wake is called outside the lock: however it races with pumps, completions
\* are never left queued without one under way or made since the last pump
\* (other than those that came before the callback was set, or that a bounded
\* pump left).
WakeNotLost == items # <<>> => known # "none" \/ owed > 0

=============================================================================
