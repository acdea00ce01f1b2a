------------------------------- MODULE Command -------------------------------
(***************************************************************************)
(* runtime/command.nim: one Command, its runs, and the callbacks it makes  *)
(* into the application on the UI thread.                                  *)
(*                                                                         *)
(* Every callback of a Command is synchronous and may call the Command     *)
(* again, so the calls in progress are a stack, todo: its head is either a *)
(* callback the application is executing (it may call, return or raise) or *)
(* the rest of a procedure of this file (it takes its next step).  Workers *)
(* on other threads only reach the completion mailbox, which is a bounded  *)
(* queue here (StreamMailbox is the module about it).                      *)
(*                                                                         *)
(* Inputs, outputs and failures are left out: a completion is the run it   *)
(* is about and whether it succeeded.  One observer per run at a time.     *)
(* All the callbacks are installed.  D_Fault is D with a plausible fault,  *)
(* and no action uses it.                                                  *)
(***************************************************************************)
EXTENDS Naturals, FiniteSets, Sequences, SequencesExt

CONSTANTS Policy,      \* "latest", "ordered" or "concurrent"
          MaxRuns,     \* bound: runs in a behaviour
          MaxPending,  \* maxPendingCompletions
          MaxDepth,    \* bound: depth of callbacks that may call the Command
          Reentry,     \* the <<callback, call>> pairs an application makes
          MayRaise     \* the callbacks that may raise

\* CommandCancel, the settlement observers and onCancelled are raises: [].
NoThrow   == {"hook", "settled", "cancelled"}
Callbacks == NoThrow \cup {"executor", "result"}
Calls     == {"run", "cancel", "cancelAll", "pump", "dispose", "observe", "unsubscribe"}

ASSUME Constants_Assumption == /\ Policy \in {"latest", "ordered", "concurrent"}
                               /\ MaxRuns \in Nat \ {0}
                               /\ MaxPending \in Nat \ {0}
                               /\ MaxDepth \in Nat
                               /\ Reentry \subseteq Callbacks \X Calls
                               /\ MayRaise \subseteq Callbacks \ NoThrow

RunIds  == 1 .. MaxRuns
Outcome == {"succeeded", "failed"}
Final   == Outcome \cup {"cancelled"}

VARIABLES
  nextRunId,
  status,      \* the ticket's status
  active,      \* the keys of activeRuns
  work,        \* the executor's CommandCancel: not started, none, live, called
  queue,       \* queuedRuns from queuedHead on
  observer,    \* runBindings: no observer, one waiting, or one already told
  tickets,     \* runs whose ticket run() returned
  mailbox,     \* completions offered and not pumped
  delivered,   \* runs whose onSuccess or onFailure was called
  disposed,
  todo         \* the calls in progress, innermost first

known   == <<nextRunId, tickets>>
places  == <<status, active, queue>>
shared  == <<mailbox, disposed>>
runs == <<known, places, work, observer, delivered>>
vars == <<runs, shared, todo>>

-----------------------------------------------------------------------------
Completions == [run : RunIds, outcome : Outcome]

\* A call in progress (a callback only while it executes); batch is what a pump has still to deliver.
Frame(op, id)    == [op |-> op, run |-> id, batch |-> <<>>]
Delivering(op, batch) == [op |-> op, run |-> 0, batch |-> batch]

In(op)    == todo # <<>> /\ Head(todo).op = op
Current   == Head(todo).run
Rest      == Tail(todo)
Depth     == Cardinality({i \in DOMAIN todo : todo[i].op \in Callbacks})

\* The event loop may call the Command, and so may a callback.
MayCall(call) ==
  \/ todo = <<>>
  \/ /\ todo # <<>>
     /\ <<Head(todo).op, call>> \in Reentry
     /\ Depth <= MaxDepth

\* notifyRunSettled: the observer is taken out of runBindings, then called.
Notified(ids) ==
  observer' = [id \in RunIds |-> IF id \in ids /\ observer[id] = "waiting"
                                 THEN "told" ELSE observer[id]]
Settled(id) == IF observer[id] = "waiting" THEN <<Frame("settled", id)>> ELSE <<>>

Init ==
  /\ nextRunId = 1
  /\ status = [id \in RunIds |-> "new"]
  /\ active = {}
  /\ work = [id \in RunIds |-> "unstarted"]
  /\ queue = <<>>
  /\ observer = [id \in RunIds |-> "none"]
  /\ tickets = {}
  /\ mailbox = <<>>
  /\ delivered = {}
  /\ disposed = FALSE
  /\ todo = <<>>

-----------------------------------------------------------------------------
\* The application's calls.

\* The runs a new run cancels first.
Replaced == IF Policy = "latest" THEN active ELSE {}

Enqueued_First(id) == <<id>> \o queue

Enqueued(id) == Append(queue, id)

\* Replaced runs are cancelled in table order.
Run ==
  /\ MayCall("run") /\ ~disposed
  /\ nextRunId \in RunIds
  /\ nextRunId' = nextRunId + 1
  /\ status' = [status EXCEPT ![nextRunId] = "queued"]
  /\ IF Policy = "ordered" /\ active # {}
       THEN /\ queue' = Enqueued(nextRunId)
            /\ tickets' = tickets \cup {nextRunId}
            /\ UNCHANGED todo
       ELSE /\ \E order \in SetToSeqs(Replaced) :
                 todo' = [i \in DOMAIN order |-> Frame("cancelActive", order[i])]
                           \o <<Frame("start", nextRunId), Frame("return", nextRunId)>>
                           \o todo
            /\ UNCHANGED <<queue, tickets>>
  /\ UNCHANGED <<active, work, observer, delivered, shared>>

\* run() returns its ticket.
Return ==
  /\ In("return")
  /\ tickets' = tickets \cup {Current}
  /\ todo' = Rest
  /\ UNCHANGED <<nextRunId, places, work, observer, delivered, shared>>

CancelRunning(id) ==
  /\ id \in active
  /\ todo' = <<Frame("cancelActive", id), Frame("startNext", 0)>> \o todo
  /\ UNCHANGED <<runs, shared>>

Without_KeepsIt(seq, i) == seq

Without(seq, i) == RemoveAt(seq, i)

CancelQueued(id) ==
  /\ \E i \in DOMAIN queue : queue[i] = id /\ queue' = Without(queue, i)
  /\ status' = [status EXCEPT ![id] = "cancelled"]
  /\ Notified({id})
  /\ todo' = Settled(id) \o <<Frame("tell", id)>> \o todo
  /\ UNCHANGED <<known, active, work, delivered, shared>>

Cancel(id) ==
  /\ MayCall("cancel") /\ ~disposed
  /\ id \in tickets
  /\ CancelRunning(id) \/ CancelQueued(id)

CancelAll ==
  /\ MayCall("cancelAll") /\ ~disposed
  /\ todo' = <<Frame("cancelAllActive", 0), Frame("cancelAllQueued", 0)>> \o todo
  /\ UNCHANGED <<runs, shared>>

Pump(n) ==
  /\ MayCall("pump") /\ ~disposed
  /\ n <= Len(mailbox)
  /\ mailbox' = SubSeq(mailbox, n + 1, Len(mailbox))
  /\ todo' = <<Delivering("deliver", SubSeq(mailbox, 1, n))>> \o todo
  /\ UNCHANGED <<runs, disposed>>

\* The callbacks releaseCommand makes find the Command disposed, where a call
\* can only withdraw an observer: the whole disposal is one step.
Dispose ==
  /\ MayCall("dispose") /\ ~disposed
  /\ disposed' = TRUE
  /\ LET ended == active \cup ToSet(queue) IN
       /\ status' = [id \in RunIds |-> IF id \in ended THEN "cancelled" ELSE status[id]]
       /\ observer' = [id \in RunIds |->
            IF observer[id] # "waiting" THEN observer[id]
            ELSE IF id \in ended THEN "told" ELSE "none"]
  /\ work' = [id \in RunIds |-> IF id \in active /\ work[id] = "live"
                                THEN "called" ELSE work[id]]
  /\ active' = {} /\ queue' = <<>> /\ mailbox' = <<>>
  /\ UNCHANGED <<known, delivered, todo>>

\* observeRun calls the observer of a settled run at once.
Observe(id) ==
  /\ MayCall("observe")
  /\ id \in tickets /\ observer[id] = "none"
  /\ \/ /\ status[id] \in Final
        /\ observer' = [observer EXCEPT ![id] = "told"]
        /\ todo' = <<Frame("settled", id)>> \o todo
     \/ /\ status[id] \notin Final /\ ~disposed
        /\ observer' = [observer EXCEPT ![id] = "waiting"]
        /\ UNCHANGED todo
  /\ UNCHANGED <<known, places, work, delivered, shared>>

Unsubscribe(id) ==
  /\ MayCall("unsubscribe")
  /\ observer[id] = "waiting"
  /\ observer' = [observer EXCEPT ![id] = "none"]
  /\ UNCHANGED <<known, places, work, delivered, shared, todo>>

-----------------------------------------------------------------------------
\* Starting a run.

\* startQueued up to the executor, which is nil in a disposed Command: calling
\* it ends the program.
Start ==
  /\ In("start")
  /\ status' = [status EXCEPT ![Current] = "running"]
  /\ active' = active \cup {Current}
  /\ work' = [work EXCEPT ![Current] = "none"]
  /\ todo' = <<Frame(IF disposed THEN "crashed" ELSE "executor", Current)>> \o Rest
  /\ UNCHANGED <<known, queue, observer, delivered, shared>>

CanStartNext == Policy = "ordered" /\ active = {} /\ queue # <<>>

\* startNextOrdered
StartNext ==
  /\ In("startNext")
  /\ IF CanStartNext
       THEN /\ queue' = Tail(queue)
            /\ todo' = <<Frame("start", Head(queue))>> \o Rest
       ELSE todo' = Rest /\ UNCHANGED queue
  /\ UNCHANGED <<known, status, active, work, observer, delivered, shared>>

EndedMeanwhile_Never == FALSE

EndedMeanwhile == Current \notin active

\* The CommandCancel of a run that ended while it started is called at once.
ExecutorReturns(hook) ==
  /\ In("executor")
  /\ \/ /\ ~EndedMeanwhile
        /\ work' = [work EXCEPT ![Current] = IF hook THEN "live" ELSE @]
        /\ todo' = Rest
     \/ /\ EndedMeanwhile
        /\ work' = [work EXCEPT ![Current] = IF hook THEN "called" ELSE @]
        /\ todo' = (IF hook THEN <<Frame("hook", Current)>> ELSE <<>>) \o Rest
  /\ UNCHANGED <<known, places, observer, delivered, shared>>

AfterFailedStart_NoNext == <<Frame("raise", 0)>>

\* What startQueued still does after its executor raised.
AfterFailedStart == <<Frame("startNext", 0), Frame("raise", 0)>>

ExecutorRaises ==
  /\ In("executor") /\ "executor" \in MayRaise
  /\ active' = active \ {Current}
  /\ status' = [status EXCEPT ![Current] = "cancelled"]
  /\ Notified({Current})
  /\ todo' = Settled(Current) \o AfterFailedStart \o Rest
  /\ UNCHANGED <<known, work, queue, delivered, shared>>

-----------------------------------------------------------------------------
\* Cancelling runs.

\* cancelActive: the run leaves the table first, then its hook is called.
CancelActive ==
  /\ In("cancelActive")
  /\ IF Current \notin active
       THEN todo' = Rest /\ UNCHANGED <<active, work>>
       ELSE /\ active' = active \ {Current}
            /\ work' = [work EXCEPT ![Current] = IF @ = "live" THEN "called" ELSE @]
            /\ todo' = (IF work[Current] = "live" THEN <<Frame("hook", Current)>>
                                               ELSE <<>>)
                         \o <<Frame("markCancelled", Current)>> \o Rest
  /\ UNCHANGED <<known, status, queue, observer, delivered, shared>>

\* cancelActive after the hook returned.
MarkCancelled ==
  /\ In("markCancelled")
  /\ status' = [status EXCEPT ![Current] = "cancelled"]
  /\ Notified({Current})
  /\ todo' = Settled(Current) \o <<Frame("tell", Current)>> \o Rest
  /\ UNCHANGED <<known, active, work, queue, delivered, shared>>

\* onCancelled, which disposal removes.
TellCancelled ==
  /\ In("tell")
  /\ todo' = (IF disposed THEN <<>> ELSE <<Frame("cancelled", Current)>>) \o Rest
  /\ UNCHANGED <<runs, shared>>

\* The first loop of cancelAll, in table order.
CancelAllActive ==
  /\ In("cancelAllActive")
  /\ \/ /\ active = {}
        /\ todo' = Rest
     \/ \E id \in active : todo' = <<Frame("cancelActive", id)>> \o todo
  /\ UNCHANGED <<runs, shared>>

\* The second loop of cancelAll: the last queued run is cancelled first.
CancelAllQueued ==
  /\ In("cancelAllQueued")
  /\ IF queue = <<>>
       THEN todo' = Rest /\ UNCHANGED <<queue, status, observer>>
       ELSE /\ queue' = Front(queue)
            /\ status' = [status EXCEPT ![Last(queue)] = "cancelled"]
            /\ Notified({Last(queue)})
            /\ todo' = Settled(Last(queue)) \o <<Frame("tell", Last(queue))>> \o todo
  /\ UNCHANGED <<known, active, work, delivered, shared>>

-----------------------------------------------------------------------------
\* Completing runs.

Accepts == ~disposed /\ Len(mailbox) < MaxPending

\* A worker, or the executor itself, offers a completion through its sink.
Offer(c) ==
  /\ work[c.run] # "unstarted"
  /\ Accepts
  /\ mailbox' = Append(mailbox, c)
  /\ UNCHANGED <<known, places, work, observer, delivered, disposed, todo>>

\* The pump's loop: raise the first failure at the end, ignore completions
\* of runs that are not active.
InPump == In("deliver") \/ In("deliverThenRaise")

IsCurrent(c) == c.run \in active

DeliverNone ==
  /\ InPump
  /\ LET batch == Head(todo).batch IN
       \/ /\ batch = <<>>
          /\ todo' = (IF In("deliver") THEN <<>> ELSE <<Frame("raise", 0)>>) \o Rest
       \/ /\ batch # <<>>
          /\ ~IsCurrent(batch[1])
          /\ todo' = <<Delivering(Head(todo).op, Tail(batch))>> \o Rest
  /\ UNCHANGED <<runs, shared>>

\* completeRun up to the settlement observer.
Complete(c) ==
  /\ active' = active \ {c.run}
  /\ work' = [work EXCEPT ![c.run] = IF @ = "live" THEN "none" ELSE @]
  /\ status' = [status EXCEPT ![c.run] = c.outcome]
  /\ Notified({c.run})

\* What completeRun still does once the run has its outcome.
AfterCompletion(id) ==
  Settled(id) \o <<Frame("startNext", 0), Frame("report", id)>>

DeliverOne ==
  /\ InPump
  /\ LET batch == Head(todo).batch IN
       /\ batch # <<>>
       /\ IsCurrent(batch[1])
       /\ Complete(batch[1])
       /\ todo' = AfterCompletion(batch[1].run)
                    \o <<Delivering(Head(todo).op, Tail(batch))>> \o Rest
  /\ UNCHANGED <<known, queue, delivered, shared>>

\* onSuccess or onFailure: the callback was read before the observer ran.
Report ==
  /\ In("report")
  /\ todo' = <<Frame("result", Current)>> \o Rest
  /\ UNCHANGED <<runs, shared>>

-----------------------------------------------------------------------------
\* The application's callbacks end.

CallbackReturns ==
  /\ \E op \in NoThrow : In(op)
  /\ todo' = Rest
  /\ UNCHANGED <<runs, shared>>

ResultEnds ==
  /\ In("result")
  /\ delivered' = delivered \cup {Current}
  /\ \/ todo' = Rest
     \/ "result" \in MayRaise /\ todo' = <<Frame("raise", 0)>> \o Rest
  /\ UNCHANGED <<known, places, work, observer, shared>>

\* An exception passes the procedures of this file up to a pump, which keeps
\* it for later, or to a callback, which catches it (and may raise again).
Unwind ==
  /\ In("raise")
  /\ todo' = IF Rest = <<>> \/ Rest[1].op \in Callbacks \cup {"deliverThenRaise"}
             THEN Rest
             ELSE IF Rest[1].op = "deliver"
             THEN <<Delivering("deliverThenRaise", Rest[1].batch)>> \o Tail(Rest)
             ELSE <<Head(todo)>> \o Tail(Rest)
  /\ UNCHANGED <<runs, shared>>

-----------------------------------------------------------------------------
Application ==
  \/ Run \/ CancelAll \/ Dispose
  \/ \E id \in RunIds : Cancel(id) \/ Observe(id) \/ Unsubscribe(id)
  \/ \E n \in 1 .. MaxPending : Pump(n)
  \/ \E hook \in BOOLEAN : ExecutorReturns(hook)
  \/ ExecutorRaises \/ CallbackReturns \/ ResultEnds

Library ==
  \/ Start \/ StartNext \/ Return
  \/ CancelActive \/ MarkCancelled \/ TellCancelled
  \/ CancelAllActive \/ CancelAllQueued
  \/ DeliverNone \/ DeliverOne \/ Report \/ Unwind

Next == Application \/ Library \/ \E c \in Completions : Offer(c)

Spec == Init /\ [][Next]_vars

-----------------------------------------------------------------------------
\* What a call in progress is about: a run, or (0) all of the Command.
AboutRun == Callbacks \cup {"start", "return", "cancelActive", "markCancelled", "tell",
                           "report", "crashed"}
AboutAll == {"startNext", "cancelAllActive", "cancelAllQueued", "deliver",
             "deliverThenRaise", "raise"}
Frames == [op : AboutRun, run : RunIds, batch : {<<>>}]
            \cup [op : AboutAll, run : {0}, batch : Seq(Completions)]

\* Every variable has its type, and the mailbox its bound.
TypeOK ==
  /\ nextRunId \in 1 .. MaxRuns + 1
  /\ status \in [RunIds -> Final \cup {"new", "queued", "running"}]
  /\ active \subseteq RunIds
  /\ work \in [RunIds -> {"unstarted", "none", "live", "called"}]
  /\ queue \in Seq(RunIds)
  /\ observer \in [RunIds -> {"none", "waiting", "told"}]
  /\ tickets \subseteq RunIds
  /\ delivered \subseteq RunIds
  /\ mailbox \in Seq(Completions) /\ Len(mailbox) <= MaxPending
  /\ disposed \in BOOLEAN
  /\ todo \in Seq(Frames)

\* No call is in progress: what the event loop and the application see.
AtRest == todo = <<>>

\* The tickets say where the runs are: an active run is running and a waiting
\* one queued, whatever callback is executing, and once the calls have ended
\* no run is queued or running anywhere else.
TicketsAgree ==
  /\ \A id \in active : status[id] = "running"
  /\ \A id \in ToSet(queue) : status[id] = "queued"
  /\ IsInjective(queue)
  /\ AtRest => \A id \in RunIds : /\ status[id] = "running" => id \in active
                                  /\ status[id] = "queued" => id \in ToSet(queue)

\* "a CommandTicket whose status is stable after completion or cancellation"
\* (docs/frontend-runtime.md:385): startQueued, cancelActive, completeRun and
\* releaseCommand never change the status of a run that has ended.
StatusIsFinal ==
  [][\A id \in tickets : status[id] \in Final => status'[id] = status[id]]_status

\* "cpOrdered starts one operation at a time", "cpLatestOnly cancels the previous
\* generation" (docs/frontend-runtime.md:383): one run is active, even in the
\* callbacks made while one run replaces another.
OneAtATime == Policy # "concurrent" => Cardinality(active) <= 1

\* startNextOrdered is called wherever a run ends: when no call is in progress,
\* a queued run always waits for an active one.
NotWedged == AtRest /\ queue # <<>> => active # {}

\* The queue is first in, first out: startNextOrdered takes the oldest run.
StartsInOrder ==
  [][\A id \in RunIds : status[id] = "queued" /\ status'[id] = "running"
       => \A other \in ToSet(queue) : id < other]_status

\* What is left of the runs when no call is in progress, whatever was raised
\* meanwhile.  No observer waits for a run that has ended, whenever it subscribed
\* (notifyRunSettled); the work of a cancelled run was told to stop, also when the
\* run was cancelled before its executor returned the hook (startQueued); and a
\* late result of a cancelled run was not delivered (completeRun).
RunsAreSettled ==
  AtRest =>
    /\ \A id \in RunIds : status[id] \in Final => observer[id] # "waiting"
    /\ \A id \in RunIds : status[id] = "cancelled" => work[id] # "live"
    /\ \A id \in delivered : status[id] \in Outcome

\* A disposed Command has no active run, no queued one and no completion, and
\* starts nothing: its executor is nil (releaseCommand).
DisposedIsInert ==
  disposed => active = {} /\ queue = <<>> /\ mailbox = <<>>

=============================================================================
