----------------------------- MODULE CraftStore -----------------------------
(***************************************************************************)
(* drivers/rust/src/store.rs with the owned watch of lib.rs: a Store, one  *)
(* Selector of it and one ComponentWatch of that Selector.                 *)
(*                                                                         *)
(* Everything runs on the UI thread; what interleaves is re-entrance.  The *)
(* variable stack holds the calls in progress, innermost first, and a step *)
(* is what happens between two calls of application code: the reducer,     *)
(* the projection (both called as part of a step), a listener, a           *)
(* transaction body or a with_state closure (frames of their own, in which *)
(* any operation may be called).  unwinding: a panic propagates into the   *)
(* top frame.                                                              *)
(*                                                                         *)
(* The state of the Store is abstracted to model, the number of actions    *)
(* reduced that change what the Selector projects; an "other" action       *)
(* changes a part nobody selects.  D_Fault is D with a plausible fault,    *)
(* and no action uses it.                                                  *)
(***************************************************************************)
EXTENDS CraftSignal

CONSTANTS MaxActions,  \* bound: actions dispatched or reduced silently
          MaxCommitSubs, MaxChangeSubs,   \* bounds: subscriptions the application
                                          \* makes on each signal
          MaxStack,    \* bound: calls in progress when a call is made
          MayPanic,    \* TRUE when the application's closures may panic
          Ops          \* the operations the application uses
MaxDepth == 2          \* bound: transactions in one another

ASSUME Bounds_Assumption == /\ MaxActions \in Nat
                     /\ MaxCommitSubs \in Nat /\ MaxChangeSubs \in Nat
                     /\ MaxStack \in Nat /\ MayPanic \in BOOLEAN

Actions == {"select", "other"}
Signals == {"commits", "changes"}
Source == 1    \* the Selector's own subscription to the commits
MaxSubs == [commits |-> Source + MaxCommitSubs, changes |-> MaxChangeSubs]

VARIABLES
  model, pending, revision, depth, pendingCommit, processing, \* StoreCore
  selector,      \* SelectorCore: value, disposed
  signals,       \* its changes, and the commits of the Store
  watch,         \* the ComponentWatch: id of its subscription, what it shows
  stack, unwinding,
  calls,         \* actions used so far (bound)
  seen,          \* commit listener -> last revision it was told
  stale,         \* the Selector missed a change it cannot know of
  behind         \* the watch missed a change it cannot know of

store == <<model, pending, revision, depth, pendingCommit, processing>>
vars == <<store, selector, signals, watch, stack, unwinding, calls, seen, stale, behind>>

Top == Head(stack)
Below == Tail(stack)
In(kind) == stack # <<>> /\ Top.at = kind
UserFrames == {"listener", "body", "reading", "immediate"}
\* Application code is running and may call an operation.
UserRuns == /\ ~unwinding /\ Len(stack) <= MaxStack
            /\ stack # <<>> => Top.at \in UserFrames
\* The state is borrowed by a with_state closure, or by the Selector's commit
\* listener, which keeps it borrowed while its own listeners run.
Reading == \E i \in DOMAIN stack :
  \/ stack[i].at = "reading"
  \/ /\ stack[i].at = "emit" /\ stack[i].sig = "changes"
     /\ i < Len(stack) /\ stack[i + 1].at = "emit"
TopFailed == <<[Top EXCEPT !.failed = TRUE]>> \o Below

Init ==
  /\ model = 0 /\ pending = <<>> /\ revision = 0 /\ depth = 0
  /\ pendingCommit = FALSE /\ processing = FALSE
  /\ selector = [value |-> 0, disposed |-> FALSE]
  /\ signals = [commits |-> Subscribe(NewSignal), changes |-> NewSignal]
  /\ watch = [id |-> 0, shown |-> 0]
  /\ stack = <<>> /\ unwinding = FALSE /\ calls = 0
  /\ seen = <<>> /\ stale = FALSE /\ behind = FALSE

-----------------------------------------------------------------------------
\* emit: the listeners there are when it starts are called by EmitNext.
Emission(sig, value) ==
  [at |-> "emit", sig |-> sig, value |-> value, pos |-> 1,
   count |-> Len(signals[sig].bindings), failed |-> FALSE]

StartEmit(sig, value, under) ==
  /\ stack' = <<Emission(sig, value)>> \o under
  /\ signals' = [signals EXCEPT ![sig] = EnterEmit(@)]

\* SelectorCore::set
SetSelector_NotNested(under) ==   \* a nested set is taken for a recursion
  /\ stale' = FALSE
  /\ UNCHANGED watch
  /\ IF selector.value = model \/ signals["changes"].depth > 0
     THEN /\ stack' = under
          /\ UNCHANGED <<selector, signals, behind>>
     ELSE /\ selector' = [selector EXCEPT !.value = model]
          /\ StartEmit("changes", model, under)
          /\ behind' = FALSE

SetSelector(under) ==
  /\ stale' = FALSE
  /\ UNCHANGED watch
  /\ IF selector.value = model
     THEN /\ stack' = under
          /\ UNCHANGED <<selector, signals, behind>>
     ELSE /\ selector' = [selector EXCEPT !.value = model]
          /\ StartEmit("changes", model, under)
          /\ behind' = (signals["changes"].depth > 0)

Told(id, value) == [k \in DOMAIN seen \cup {id} |-> IF k = id THEN value ELSE seen[k]]

\* One turn of the loop of emit: the Selector's own listener projects the
\* state and sets the selected value; another one is application code.
EmitNext ==
  /\ In("emit") /\ ~unwinding /\ Top.pos <= Top.count
  /\ LET b == signals[Top.sig].bindings[Top.pos]
         under == <<[Top EXCEPT !.pos = @ + 1]>> \o Below
     IN IF ~b.active
        THEN /\ stack' = under
             /\ UNCHANGED <<selector, signals, watch, seen, stale, behind, unwinding>>
        ELSE IF Top.sig = "commits" /\ b.id = Source
        THEN /\ UNCHANGED seen
             /\ IF selector.disposed
                THEN /\ stack' = under
                     /\ UNCHANGED <<selector, signals, watch, stale, behind, unwinding>>
                ELSE \/ SetSelector(under) /\ UNCHANGED unwinding
                     \/ /\ MayPanic      \* the projection panics
                        /\ stack' = under /\ unwinding' = TRUE /\ stale' = TRUE
                        /\ UNCHANGED <<selector, signals, watch, behind>>
        ELSE /\ stack' = <<[at |-> "listener", sig |-> Top.sig, id |-> b.id]>> \o under
             /\ seen' = IF Top.sig = "commits" THEN Told(b.id, Top.value) ELSE seen
             /\ watch' = IF Top.sig = "changes" /\ b.id = watch.id
                         THEN [watch EXCEPT !.shown = Top.value] ELSE watch
             /\ UNCHANGED <<selector, signals, stale, behind, unwinding>>
  /\ UNCHANGED <<store, calls>>

EmitEnd ==
  /\ In("emit") /\ ~unwinding /\ Top.pos > Top.count
  /\ signals' = [signals EXCEPT ![Top.sig] = LeaveEmit(@)]
  /\ stack' = Below
  /\ unwinding' = Top.failed
  /\ UNCHANGED <<store, selector, watch, calls, seen, stale, behind>>

-----------------------------------------------------------------------------
\* publish_commit, called with pendingCommit true.
Publish(under) ==
  /\ pendingCommit' = FALSE
  /\ revision' = revision + 1
  /\ StartEmit("commits", revision + 1, under)

Draining == [at |-> "drain", last |-> FALSE, failed |-> FALSE]

\* drain, entered by a call made with the stack under.
EnterDrain_Reentrant(under) ==    \* processing is not asked
  processing' = TRUE /\ stack' = <<Draining>> \o under

EnterDrain(under) ==
  IF processing THEN stack' = under /\ UNCHANGED processing
  ELSE processing' = TRUE /\ stack' = <<Draining>> \o under

\* The reducer.  It cannot borrow the state inside a with_state closure, and
\* a panic may leave a part of its change behind.
ReduceSucceeds(action) ==
  /\ ~Reading
  /\ model' = model + (IF action = "select" THEN 1 ELSE 0)

ReducePanics(action) ==
  \/ (MayPanic \/ Reading) /\ UNCHANGED <<model, stale>>
  \/ MayPanic /\ ~Reading /\ action = "select" /\ model' = model + 1 /\ stale' = TRUE

\* One turn of the loop of drain.
DrainNext ==
  /\ In("drain") /\ ~unwinding /\ ~Top.last /\ pending # <<>>
  /\ pending' = Tail(pending)
  /\ \/ /\ ReduceSucceeds(Head(pending))
        /\ UNCHANGED stale
        /\ IF depth = 0
           THEN Publish(stack)
           ELSE pendingCommit' = TRUE /\ UNCHANGED <<revision, signals, stack>>
     \/ /\ ReducePanics(Head(pending))
        /\ stack' = TopFailed
        /\ UNCHANGED <<pendingCommit, revision, signals>>
  /\ UNCHANGED <<depth, processing, selector, watch, unwinding, calls, seen, behind>>

\* What follows the loop: a commit left over by a transaction, then the end.
DrainLeftOver ==
  /\ In("drain") /\ ~unwinding /\ ~Top.last /\ pending = <<>>
  /\ depth = 0 /\ pendingCommit
  /\ Publish(<<[Top EXCEPT !.last = TRUE]>> \o Below)
  /\ UNCHANGED <<model, pending, depth, processing, selector, watch, unwinding, calls,
                 seen, stale, behind>>

DrainEnd_StaysLocked ==           \* the panic is resumed before the reset
  /\ In("drain") /\ ~unwinding
  /\ Top.last \/ (pending = <<>> /\ ~(depth = 0 /\ pendingCommit))
  /\ processing' = Top.failed
  /\ stack' = Below
  /\ unwinding' = Top.failed
  /\ UNCHANGED <<model, pending, revision, depth, pendingCommit, selector, signals,
                 watch, calls, seen, stale, behind>>

DrainEnd ==
  /\ In("drain") /\ ~unwinding
  /\ Top.last \/ (pending = <<>> /\ ~(depth = 0 /\ pendingCommit))
  /\ processing' = FALSE
  /\ stack' = Below
  /\ unwinding' = Top.failed
  /\ UNCHANGED <<model, pending, revision, depth, pendingCommit, selector, signals,
                 watch, calls, seen, stale, behind>>

-----------------------------------------------------------------------------
\* The operations of application code.
Dispatch(action) ==
  /\ UserRuns /\ calls < MaxActions
  /\ calls' = calls + 1
  /\ pending' = Append(pending, action)
  /\ EnterDrain(stack)
  /\ UNCHANGED <<model, revision, depth, pendingCommit, selector, signals, watch,
                 unwinding, seen, stale, behind>>

DispatchSilent ==
  /\ UserRuns /\ "silent" \in Ops /\ calls < MaxActions
  /\ calls' = calls + 1
  /\ \/ ReduceSucceeds("select") /\ stale' = TRUE /\ UNCHANGED unwinding
     \/ ReducePanics("select") /\ unwinding' = TRUE
  /\ UNCHANGED <<pending, revision, depth, pendingCommit, processing, selector,
                 signals, watch, stack, seen, behind>>

\* transaction: the body is a frame of its own.
BeginTransaction ==
  /\ UserRuns /\ depth < MaxDepth
  /\ depth' = depth + 1
  /\ stack' = <<[at |-> "body"]>> \o stack
  /\ UNCHANGED <<model, pending, revision, pendingCommit, processing, selector,
                 signals, watch, unwinding, calls, seen, stale, behind>>

\* The body returned or panicked: the outermost transaction drains.
EndTransaction(panicked) ==
  LET under == <<[at |-> "ending", failed |-> panicked]>> \o Below
  IN /\ depth' = depth - 1
     /\ IF depth = 1 THEN EnterDrain(under)
                     ELSE stack' = under /\ UNCHANGED processing
     /\ unwinding' = FALSE
     /\ UNCHANGED <<model, pending, revision, pendingCommit, selector, signals, watch,
                    calls, seen, stale, behind>>

TransactionReturns ==
  /\ In("ending")
  /\ stack' = Below
  /\ unwinding' = (unwinding \/ Top.failed)
  /\ UNCHANGED <<store, selector, signals, watch, calls, seen, stale, behind>>

\* with_state
WithState ==
  /\ UserRuns /\ "read" \in Ops /\ ~Reading
  /\ stack' = <<[at |-> "reading"]>> \o stack
  /\ UNCHANGED <<store, selector, signals, watch, unwinding, calls, seen, stale, behind>>

SubscribeTo(sig) ==
  /\ UserRuns /\ "subscribe" \in Ops
  /\ signals[sig].next <= MaxSubs[sig]
  /\ sig = "changes" => ~selector.disposed
  /\ signals' = [signals EXCEPT ![sig] = Subscribe(@)]
  /\ UNCHANGED <<store, selector, watch, stack, unwinding, calls, seen, stale, behind>>

\* StoreSubscription::close and drop; the Selector keeps its own.
CloseSubscription(sig, id) ==
  /\ UserRuns /\ "subscribe" \in Ops /\ HasListener(signals[sig], id)
  /\ <<sig, id>> # <<"commits", Source>>
  /\ signals' = [signals EXCEPT ![sig] = Unsubscribe(@, id)]
  /\ UNCHANGED <<store, selector, watch, stack, unwinding, calls, seen, stale, behind>>

\* Selector::refresh; a disposed Selector panics.
Refresh ==
  /\ UserRuns /\ "refresh" \in Ops
  /\ IF selector.disposed
     THEN unwinding' = TRUE /\ UNCHANGED <<selector, signals, watch, stack, stale, behind>>
     ELSE SetSelector(stack) /\ UNCHANGED unwinding
  /\ UNCHANGED <<store, calls, seen>>

DisposeSelector ==
  /\ UserRuns /\ "dispose" \in Ops /\ ~selector.disposed
  /\ selector' = [selector EXCEPT !.disposed = TRUE]
  /\ signals' = [commits |-> Unsubscribe(signals["commits"], Source),
                 changes |-> Clear(signals["changes"])]
  /\ UNCHANGED <<store, watch, stack, unwinding, calls, seen, stale, behind>>

\* CraftComponent::watch with immediate: the listener is called first.
BeginWatch ==
  /\ stack = <<>> /\ ~unwinding /\ "watch" \in Ops
  /\ ~selector.disposed /\ watch.id = 0 /\ signals["changes"].next <= MaxSubs["changes"] + 1
  /\ watch' = [watch EXCEPT !.shown = selector.value]
  /\ stack' = <<[at |-> "immediate"]>>
  /\ UNCHANGED <<store, selector, signals, unwinding, calls, seen, stale, behind>>

\* ComponentWatch::close, close_watches of an unmounted component.
CloseWatch ==
  /\ UserRuns /\ watch.id # 0
  /\ signals' = [signals EXCEPT !["changes"] = Unsubscribe(@, watch.id)]
  /\ watch' = [id |-> 0, shown |-> 0]
  /\ UNCHANGED <<store, selector, stack, unwinding, calls, seen, stale, behind>>

-----------------------------------------------------------------------------
\* Application code ends, in a return or in a panic.
EndUserCode(panicked) ==
  /\ stack # <<>> /\ Top.at \in UserFrames
  /\ IF Top.at = "body" THEN EndTransaction(panicked)
     ELSE /\ stack' = Below
          /\ IF Top.at = "immediate" /\ ~panicked /\ ~selector.disposed
             THEN /\ watch' = [watch EXCEPT !.id = signals["changes"].next]
                  /\ signals' = [signals EXCEPT !["changes"] = Subscribe(@)]
                  /\ behind' = (watch.shown # selector.value)
                  /\ unwinding' = FALSE
             ELSE /\ unwinding' = (panicked \/ Top.at = "immediate")
                  /\ UNCHANGED <<signals, watch, behind>>
          /\ UNCHANGED <<store, selector, calls, seen, stale>>

Return == ~unwinding /\ EndUserCode(FALSE)
Panic == /\ unwinding \/ MayPanic
         /\ EndUserCode(TRUE)

CatchInLoop_Stops ==   \* the first panic ends the loop
  /\ unwinding /\ stack # <<>> /\ Top.at \in {"emit", "drain"}
  /\ stack' = IF Top.at = "emit"
              THEN <<[Top EXCEPT !.failed = TRUE, !.pos = Top.count + 1]>> \o Below
              ELSE TopFailed
  /\ unwinding' = FALSE
  /\ UNCHANGED <<store, selector, signals, watch, calls, seen, stale, behind>>

\* A panic that reached a loop of the driver is kept for its end; one that
\* reached application code may be caught there.
CatchInLoop ==
  /\ unwinding /\ stack # <<>> /\ Top.at \in {"emit", "drain"}
  /\ stack' = TopFailed /\ unwinding' = FALSE
  /\ UNCHANGED <<store, selector, signals, watch, calls, seen, stale, behind>>

CatchInUserCode ==
  /\ unwinding /\ (stack # <<>> => Top.at \in UserFrames)
  /\ unwinding' = FALSE
  /\ UNCHANGED <<store, selector, signals, watch, stack, calls, seen, stale, behind>>

Next ==
  \/ EmitNext \/ EmitEnd
  \/ DrainNext \/ DrainLeftOver \/ DrainEnd
  \/ \E action \in Actions : Dispatch(action)
  \/ DispatchSilent \/ BeginTransaction \/ TransactionReturns \/ WithState
  \/ \E sig \in Signals : SubscribeTo(sig)
                          \/ \E id \in 1 .. MaxSubs[sig] : CloseSubscription(sig, id)
  \/ Refresh \/ DisposeSelector \/ BeginWatch \/ CloseWatch
  \/ Return \/ Panic \/ CatchInLoop \/ CatchInUserCode

Spec == Init /\ [][Next]_vars

-----------------------------------------------------------------------------
TypeOK ==
  /\ model \in Nat /\ revision \in Nat /\ depth \in 0 .. MaxDepth /\ calls \in 0 .. MaxActions
  /\ pending \in Seq(Actions)
  /\ {pendingCommit, processing, unwinding, stale, behind, selector.disposed} \subseteq BOOLEAN
  /\ selector.value \in Nat /\ watch.id \in 0 .. MaxSubs["changes"] + 2 /\ watch.shown \in Nat
  /\ \A f \in ToSet(stack) : f.at \in UserFrames \cup {"emit", "drain", "ending"}

\* Subscriptions come and go in the middle of notifications, nested ones
\* included: each live one stays reachable at its position and no closed one
\* survives the outermost emission (subscribe, unsubscribe, clear, compact).
SignalsAgree ==
  /\ TypeOK
  /\ \A sig \in Signals : IndexAgrees(signals[sig])

\* Idle: no call in progress.
Idle == stack = <<>> /\ ~unwinding

\* The Store is never left locked or in a transaction by a panic: whatever
\* panicked, an idle Store accepts the next dispatch.
PanicsUnlock == Idle => /\ ~processing /\ depth = 0
                        /\ \A sig \in Signals : signals[sig].depth = 0

\* A commit listener is told every revision once and in order, and sees the
\* committed state, with no reduced action still unpublished, although it and
\* its peers dispatch, subscribe and open transactions while they run.
RevisionsInOrder ==
  [][\A id \in DOMAIN seen' :
       (id \notin DOMAIN seen \/ seen'[id] # seen[id]) =>
         /\ seen'[id] = revision /\ ~pendingCommit
         /\ id \in DOMAIN seen => seen'[id] = seen[id] + 1]_vars

\* Once everything is published the Selector holds the projection of the
\* state, unless a silent dispatch, a panicking projection or a reducer that
\* panicked half way changed the state behind its back.
SelectorIsFresh ==
  (Idle /\ ~pendingCommit /\ ~stale /\ ~selector.disposed) => selector.value = model

\* A watch shows the selected value, unless a listener refreshed the Selector
\* in the middle of a notification or the immediate call changed the value.
WatchFollows ==
  (Idle /\ HasListener(signals["changes"], watch.id) /\ ~behind)
    => watch.shown = selector.value

\* Follow-up actions are queued for the next turn, so none is left when the
\* Store is idle.
FollowUpsAreReduced == Idle => pending = <<>>
=============================================================================
