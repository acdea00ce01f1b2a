---------------------------- MODULE StreamMailbox ----------------------------
(***************************************************************************)
(* data/stream_mailbox.nim: the bounded mailbox that carries stream events *)
(* from producer threads to the StreamBridge of the UI thread, the wake    *)
(* callback that tells the host loop to pump it, and its disposal.         *)
(*                                                                         *)
(* A step is what one thread does under one acquisition of shared.gate, or *)
(* the part of a call it does without the gate.  Events are numbered by    *)
(* acceptance: the value of the n-th accepted event is n.                  *)
(*                                                                         *)
(* Calls the code refuses (an offer in a wrong state, over a limit or to a *)
(* disposed mailbox; setWakeCallback on a disposed one) change nothing and *)
(* are stuttering steps.                                                   *)
(*                                                                         *)
(* As in StreamBridgeState, D_Fault is D with a plausible fault, and no    *)
(* action uses it.                                                         *)
(***************************************************************************)
EXTENDS StreamBridgeState, FiniteSets

CONSTANTS Producers,   \* threads that hold a StreamProducer
          UI,          \* the thread that owns the mailbox and the bridge
          Contexts,    \* raw contexts a wake callback can be installed with
          NoWake,      \* no callback installed
          MaxItems,    \* maxQueuedItems of the mailbox
          MaxWeight,   \* maxQueuedWeight of the mailbox
          MaxOffers,   \* bound: events accepted in a behaviour
          MaxMessages, \* bound: largest maxMessages passed to pumpInto
          LossyPost    \* TRUE when the host may fail to post the wake

ASSUME Threads_Assumption == /\ IsFiniteSet(Producers)
                             /\ UI \notin Producers
                             /\ NoWake \notin Contexts
ASSUME Limits_Assumption == /\ MaxItems \in Nat \ {0}
                            /\ MaxWeight \in Nat \ {0}
                            /\ Weights \subseteq Nat
                            /\ MaxOffers \in Nat
                            /\ MaxMessages \in Nat \ {0}
                            /\ LossyPost \in BOOLEAN

Threads == Producers \cup {UI}

VARIABLES
  \* StreamMailboxShared, guarded by gate
  channel,       \* the Channel's buffered events
  queuedItems,   \* accepted and not yet processed by the UI thread
  queuedWeight,
  state,         \* the producers' view of the stream
  disposed,
  wakePending,   \* a wake was requested and the mailbox not fully drained since
  callbacksInFlight,
  wakeContext,   \* the installed callback's context, or NoWake
  asleep,        \* the UI thread waits on the condition wakeIdle
  \* UI thread
  deferred,      \* the event bridge backpressure sent back: at most one
  hand,          \* the event the pump applied and has not released yet
  budget,        \* messages the running pump may still process
  target,        \* the context the blocked setWakeCallback will install
  pumpAgain,     \* the last pump returned pending
  \* all threads
  pc,            \* what each thread is doing
  context,       \* the context the thread's wake call was given
  \* the host
  posted,        \* wake events in the host's queue, by context
  \* history
  accepted,      \* number of accepted events
  applied        \* number of events given to the bridge

shared == <<channel, queuedItems, queuedWeight, state, disposed, wakePending,
            callbacksInFlight, wakeContext, asleep>>
local  == <<deferred, hand, bridge, budget, target, pumpAgain>>
calls  == <<pc, context>>
vars   == <<shared, local, calls, posted, accepted, applied>>

-----------------------------------------------------------------------------
\* What an offer of each kind requires of shared.state, and sets it to.
AllowedStates(kind) ==
  CASE kind = "sekOpen"   -> {"ssIdle"}
    [] kind = "sekCancel" -> {"ssIdle", "ssOpen"}
    [] kind = "sekClose"  -> States \ {"ssClosed"}
    [] OTHER              -> {"ssOpen"}

NextState_EndStaysOpen(kind) ==
  CASE kind = "sekError"  -> "ssFailed"
    [] kind = "sekCancel" -> "ssCancelled"
    [] kind = "sekClose"  -> "ssClosed"
    [] OTHER              -> "ssOpen"

NextState(kind) ==
  CASE kind = "sekEnd"    -> "ssEnded"
    [] kind = "sekError"  -> "ssFailed"
    [] kind = "sekCancel" -> "ssCancelled"
    [] kind = "sekClose"  -> "ssClosed"
    [] OTHER              -> "ssOpen"

Offers ==
  [kind : Kinds \ {"sekData"}, weight : {0}, value : {accepted + 1}]
    \cup [kind : {"sekData"}, weight : Weights, value : {accepted + 1}]

Init ==
  /\ channel = <<>> /\ queuedItems = 0 /\ queuedWeight = 0
  /\ state = "ssIdle" /\ disposed = FALSE
  /\ wakePending = FALSE /\ callbacksInFlight = 0 /\ wakeContext = NoWake
  /\ asleep = FALSE
  /\ deferred = <<>> /\ hand = <<>> /\ bridge = NewBridge
  /\ budget = 0 /\ target = NoWake /\ pumpAgain = FALSE
  /\ pc = [t \in Threads |-> "idle"]
  /\ context = [t \in Threads |-> NoWake]
  /\ posted = {}
  /\ accepted = 0 /\ applied = 0

-----------------------------------------------------------------------------
\* Thread t leaves the gate committed to call the wake callback with c.
StartWake(t, c) ==
  /\ wakePending' = TRUE
  /\ callbacksInFlight' = callbacksInFlight + 1
  /\ pc' = [pc EXCEPT ![t] = "calling"]
  /\ context' = [context EXCEPT ![t] = c]

HasRoom_OffByOne(e) ==
  /\ queuedItems <= MaxItems
  /\ e.weight <= MaxWeight
  /\ queuedWeight <= MaxWeight - e.weight

HasRoom_EachWeightAlone(e) == queuedItems < MaxItems /\ e.weight <= MaxWeight

\* The limits an offer is held to.
HasRoom(e) ==
  /\ queuedItems < MaxItems
  /\ e.weight <= MaxWeight
  /\ queuedWeight <= MaxWeight - e.weight

\* offerEvent up to the release of the gate: the event is queued, and the
\* first offer since the mailbox was last drained also starts a wake.
Offer(t, e) ==
  /\ pc[t] = "idle"
  /\ accepted < MaxOffers
  /\ ~disposed
  /\ state \in AllowedStates(e.kind)
  /\ HasRoom(e)
  /\ Len(channel) < MaxItems
  /\ channel' = Append(channel, e)
  /\ queuedItems' = queuedItems + 1
  /\ queuedWeight' = queuedWeight + e.weight
  /\ state' = IF e.kind \in {"sekData", "sekProgress"} THEN state
              ELSE NextState(e.kind)
  /\ accepted' = accepted + 1
  /\ \/ /\ ~wakePending /\ wakeContext # NoWake
        /\ StartWake(t, wakeContext)
     \/ /\ wakePending \/ wakeContext = NoWake
        /\ UNCHANGED <<wakePending, callbacksInFlight, calls>>
  /\ UNCHANGED <<disposed, wakeContext, asleep, local, posted, applied>>

\* invokeWake: the callback runs outside the gate and only posts a host event.
InvokeWake(t) ==
  /\ pc[t] = "calling"
  /\ \/ posted' = posted \cup {context[t]}
     \/ LossyPost /\ UNCHANGED posted
  /\ pc' = [pc EXCEPT ![t] = "finishing"]
  /\ UNCHANGED <<shared, local, context, accepted, applied>>

FinishWake_NoSignal(t) ==
  /\ pc[t] = "finishing"
  /\ callbacksInFlight' = callbacksInFlight - 1
  /\ pc' = [pc EXCEPT ![t] = "idle"]
  /\ context' = [context EXCEPT ![t] = NoWake]
  /\ UNCHANGED <<channel, queuedItems, queuedWeight, state, disposed, asleep,
                 wakePending, wakeContext, local, posted, accepted, applied>>

\* finishWake: the last callback to return signals wakeIdle.
FinishWake(t) ==
  /\ pc[t] = "finishing"
  /\ callbacksInFlight' = callbacksInFlight - 1
  /\ asleep' = (asleep /\ callbacksInFlight' # 0)
  /\ pc' = [pc EXCEPT ![t] = "idle"]
  /\ context' = [context EXCEPT ![t] = NoWake]
  /\ UNCHANGED <<channel, queuedItems, queuedWeight, state, disposed,
                 wakePending, wakeContext, local, posted, accepted, applied>>

-----------------------------------------------------------------------------
\* setWakeCallback once no callback is in flight: work that is already queued
\* gets a wake of its own, which this thread delivers itself.
InstallWake(c) ==
  /\ wakeContext' = c
  /\ \/ /\ c # NoWake
        /\ queuedItems > 0 \/ deferred # <<>>
        /\ StartWake(UI, c)
     \/ /\ c = NoWake \/ (queuedItems = 0 /\ deferred = <<>>)
        /\ wakePending' = FALSE
        /\ pc' = [pc EXCEPT ![UI] = "idle"]
        /\ UNCHANGED <<callbacksInFlight, context>>

SetWakeCallback(c) ==
  /\ pc[UI] = "idle"
  /\ ~disposed
  /\ \/ /\ callbacksInFlight = 0
        /\ InstallWake(c)
        /\ UNCHANGED <<asleep, target>>
     \/ /\ callbacksInFlight > 0
        /\ asleep' = TRUE
        /\ target' = c
        /\ pc' = [pc EXCEPT ![UI] = "settingWake"]
        /\ UNCHANGED <<wakePending, callbacksInFlight, wakeContext, context>>
  /\ UNCHANGED <<channel, queuedItems, queuedWeight, state, disposed, deferred,
                 hand, bridge, budget, pumpAgain, posted, accepted, applied>>

\* The waiting loop tests its condition again, then goes on or sleeps again.
ResumeSetWake ==
  /\ pc[UI] = "settingWake"
  /\ ~asleep
  /\ \/ /\ callbacksInFlight = 0
        /\ InstallWake(target)
        /\ target' = NoWake
        /\ UNCHANGED asleep
     \/ /\ callbacksInFlight > 0
        /\ asleep' = TRUE
        /\ UNCHANGED <<wakePending, callbacksInFlight, wakeContext, target,
                       calls>>
  /\ UNCHANGED <<channel, queuedItems, queuedWeight, state, disposed, deferred,
                 hand, bridge, budget, pumpAgain, posted, accepted, applied>>

\* A condition variable may wake its waiter without a signal.
SpuriousWakeup ==
  /\ asleep
  /\ asleep' = FALSE
  /\ UNCHANGED <<channel, queuedItems, queuedWeight, state, disposed,
                 wakePending, callbacksInFlight, wakeContext, local, calls,
                 posted, accepted, applied>>
-----------------------------------------------------------------------------
\* pumpInto: at most n messages.
PumpInto(n) ==
  /\ pc[UI] = "idle"
  /\ budget' = n
  /\ pc' = [pc EXCEPT ![UI] = "pumping"]
  /\ UNCHANGED <<shared, deferred, hand, bridge, target, pumpAgain, context,
                 posted, accepted, applied>>

\* The host loop takes a wake event out of its queue.  It pumps when the token
\* is the attached one and ignores a token of an earlier attachment.
HandleWake(c, n) ==
  /\ pc[UI] = "idle"
  /\ c \in posted
  /\ posted' = posted \ {c}
  /\ \/ /\ c = wakeContext
        /\ budget' = n
        /\ pc' = [pc EXCEPT ![UI] = "pumping"]
     \/ /\ c # wakeContext
        /\ UNCHANGED <<budget, pc>>
  /\ UNCHANGED <<shared, deferred, hand, bridge, target, pumpAgain, context,
                 accepted, applied>>

\* The event the pump looks at next: the deferred one before the channel's.
Waiting == deferred \o channel

PushBack_Drops(e) ==
  /\ Backpressured(bridge, e)
  /\ deferred' = <<>>
  /\ pc' = [pc EXCEPT ![UI] = "pumpEnd"]
  /\ UNCHANGED <<hand, bridge, applied>>

\* An event the bridge has no room for is deferred and ends the loop.
PushBack(e) ==
  /\ Backpressured(bridge, e)
  /\ deferred' = <<e>>
  /\ pc' = [pc EXCEPT ![UI] = "pumpEnd"]
  /\ UNCHANGED <<hand, bridge, applied>>

\* One turn of the loop up to applyEvent.  An event the bridge refuses is
\* dropped.
PumpTake ==
  /\ pc[UI] = "pumping"
  /\ budget > 0
  /\ Waiting # <<>>
  /\ channel' = IF deferred = <<>> THEN Tail(channel) ELSE channel
  /\ LET e == Head(Waiting)
     IN \/ PushBack(e)
        \/ /\ ~Backpressured(bridge, e)
           /\ deferred' = <<>>
           /\ hand' = <<e>>
           /\ bridge' = IF BridgeAccepts(bridge, e) THEN AfterEvent(bridge, e)
                        ELSE bridge
           /\ applied' = applied + 1
           /\ pc' = [pc EXCEPT ![UI] = "releasing"]
  /\ UNCHANGED <<queuedItems, queuedWeight, state, disposed, wakePending,
                 callbacksInFlight, wakeContext, asleep, budget, target,
                 pumpAgain, context, posted, accepted>>

\* releaseProcessed: only now does the event stop counting against the limits.
PumpRelease ==
  /\ pc[UI] = "releasing"
  /\ queuedItems' = queuedItems - 1
  /\ queuedWeight' = queuedWeight - Head(hand).weight
  /\ hand' = <<>>
  /\ budget' = budget - 1
  /\ pc' = [pc EXCEPT ![UI] = "pumping"]
  /\ UNCHANGED <<channel, state, disposed, wakePending, callbacksInFlight,
                 wakeContext, asleep, deferred, bridge, target, pumpAgain,
                 context, posted, accepted, applied>>

PumpLoopEnds ==
  /\ pc[UI] = "pumping"
  /\ budget = 0 \/ Waiting = <<>>
  /\ pc' = [pc EXCEPT ![UI] = "pumpEnd"]
  /\ UNCHANGED <<shared, local, context, posted, accepted, applied>>

PumpPending_DeferredOnly == deferred # <<>>

\* What pumpInto returns as pending.
PumpPending == deferred # <<>> \/ queuedItems > 0

\* The last critical section of pumpInto: a fully drained mailbox may wake
\* again, one that is not asks its host for another pump.
PumpEnd ==
  /\ pc[UI] = "pumpEnd"
  /\ pumpAgain' = PumpPending
  /\ wakePending' = (wakePending /\ pumpAgain')
  /\ budget' = 0
  /\ pc' = [pc EXCEPT ![UI] = "idle"]
  /\ UNCHANGED <<channel, queuedItems, queuedWeight, state, disposed,
                 callbacksInFlight, wakeContext, asleep, deferred, hand,
                 bridge, target, context, posted, accepted, applied>>

\* The consumer drains the bridge.
Drain(maxEvents) ==
  /\ pc[UI] = "idle"
  /\ BridgePending(bridge)
  /\ bridge' = DrainUpTo(bridge, maxEvents).bridge
  /\ UNCHANGED <<shared, deferred, hand, budget, target, pumpAgain, calls,
                 posted, accepted, applied>>
-----------------------------------------------------------------------------
\* disposeShared up to its wait: producers are rejected from here on.
Dispose ==
  /\ pc[UI] = "idle"
  /\ ~disposed
  /\ disposed' = TRUE
  /\ state' = "ssClosed"
  /\ wakeContext' = NoWake
  /\ wakePending' = FALSE
  /\ asleep' = (callbacksInFlight > 0)
  /\ pc' = [pc EXCEPT ![UI] = "disposing"]
  /\ UNCHANGED <<channel, queuedItems, queuedWeight, callbacksInFlight, local,
                 context, posted, accepted, applied>>

ResumeDispose_NoWait ==
  /\ pc[UI] = "disposing"
  /\ pc' = [pc EXCEPT ![UI] = "dropping"]
  /\ UNCHANGED <<shared, local, context, posted, accepted, applied>>

ResumeDispose ==
  /\ pc[UI] = "disposing"
  /\ ~asleep
  /\ \/ /\ callbacksInFlight = 0
        /\ pc' = [pc EXCEPT ![UI] = "dropping"]
        /\ UNCHANGED asleep
     \/ /\ callbacksInFlight > 0
        /\ asleep' = TRUE
        /\ UNCHANGED pc
  /\ UNCHANGED <<channel, queuedItems, queuedWeight, state, disposed,
                 wakePending, callbacksInFlight, wakeContext, local, context,
                 posted, accepted, applied>>

\* The queued payloads and the deferred one are dropped and the counters reset.
DropQueued ==
  /\ pc[UI] = "dropping"
  /\ channel' = <<>>
  /\ queuedItems' = 0
  /\ queuedWeight' = 0
  /\ deferred' = <<>>
  /\ pc' = [pc EXCEPT ![UI] = "idle"]
  /\ UNCHANGED <<state, disposed, wakePending, callbacksInFlight, wakeContext,
                 asleep, hand, bridge, budget, target, pumpAgain, context,
                 posted, accepted, applied>>

WakeStep(t) == InvokeWake(t) \/ FinishWake(t)

UIStep == \/ ResumeSetWake \/ ResumeDispose \/ DropQueued
          \/ PumpTake \/ PumpRelease \/ PumpLoopEnds \/ PumpEnd

Next ==
  \/ \E t \in Threads : WakeStep(t) \/ \E e \in Offers : Offer(t, e)
  \/ \E c \in Contexts \cup {NoWake} : SetWakeCallback(c)
  \/ \E n \in 1 .. MaxMessages : PumpInto(n) \/ Drain(n)
  \/ \E c \in Contexts, n \in 1 .. MaxMessages : HandleWake(c, n)
  \/ UIStep
  \/ SpuriousWakeup
  \/ Dispose

Spec == Init /\ [][Next]_vars

\* A thread in the middle of a call goes on with it.  The host loop does not
\* starve its event queue, the pump it was asked to repeat or the consumer.
Fairness ==
  /\ \A t \in Threads : WF_vars(WakeStep(t))
  /\ WF_vars(UIStep)
  /\ \A c \in Contexts : SF_vars(\E n \in 1 .. MaxMessages : HandleWake(c, n))
  /\ SF_vars(pumpAgain /\ \E n \in 1 .. MaxMessages : PumpInto(n))
  /\ SF_vars(\E n \in 1 .. MaxMessages : Drain(n))

FairSpec == Spec /\ Fairness

-----------------------------------------------------------------------------
PcValues == {"idle", "calling", "finishing", "settingWake", "pumping",
             "releasing", "pumpEnd", "disposing", "dropping"}

TypeOK ==
  /\ channel \in Seq(Event) /\ deferred \in Seq(Event) /\ hand \in Seq(Event)
  /\ queuedItems \in Int /\ queuedWeight \in Int /\ callbacksInFlight \in Int
  /\ state \in States
  /\ disposed \in BOOLEAN /\ wakePending \in BOOLEAN
  /\ asleep \in BOOLEAN /\ pumpAgain \in BOOLEAN
  /\ wakeContext \in Contexts \cup {NoWake} /\ target \in Contexts \cup {NoWake}
  /\ budget \in Int /\ accepted \in Nat /\ applied \in Nat
  /\ pc \in [Threads -> PcValues]
  /\ \A t \in Producers : pc[t] \in {"idle", "calling", "finishing"}
  /\ context \in [Threads -> Contexts \cup {NoWake}]
  /\ posted \subseteq Contexts

\* queuedItems counts every event that is accepted and not yet released, in
\* the channel, deferred or in the pump's hand, and stays within the limit.
\* So an offer the counter admits finds room in the channel, which holds
\* maxQueuedItems: trySend never fails (offerEvent, releaseProcessed).
ItemsAccounted ==
  ~disposed => /\ queuedItems = Len(channel) + Len(deferred) + Len(hand)
               /\ queuedItems <= MaxItems

\* The same for the declared weight.
WeightAccounted ==
  ~disposed => /\ queuedWeight = WeightOf(hand \o deferred \o channel)
               /\ queuedWeight <= MaxWeight

\* Whatever the threads interleave and however often the bridge pushes back,
\* the events the pump has not applied yet are exactly those accepted after
\* the last applied one, oldest first: none is lost, doubled or overtaken
\* (offerEvent, tryReceive and the deferred event of pumpInto).
InOrderWithoutLoss ==
  ~disposed => /\ accepted = applied + Len(Waiting)
               /\ \A i \in DOMAIN Waiting : Waiting[i].value = applied + i

\* A bridge in the given state with nothing queued.
Emptied(s) == [NewBridge EXCEPT !.state = s]

\* The state producers are checked against is the state the bridge will reach
\* once it has been given every waiting event, and the bridge refuses none of
\* them when its turn comes, except for the time it has no room: an offer
\* reported smorAccepted is never counted as rejected by the pump.
NothingAcceptedIsRejected ==
  ~disposed =>
    LET reached[i \in 0 .. Len(Waiting)] ==
          IF i = 0 THEN bridge.state
          ELSE AfterEvent(Emptied(reached[i - 1]), Waiting[i]).state
    IN /\ reached[Len(Waiting)] = state
       /\ \A i \in DOMAIN Waiting :
            \/ Backpressured(Emptied(reached[i - 1]), Waiting[i])
            \/ BridgeAccepts(Emptied(reached[i - 1]), Waiting[i])

\* A thread uses a wake context only while it is the installed one, or while
\* the UI thread is still inside dispose: once setWakeCallback or dispose
\* returned, nobody uses the context the caller got back.
ContextOwnership ==
  \A t \in Threads :
    pc[t] = "calling" => \/ context[t] = wakeContext
                         \/ pc[UI] = "disposing"

\* A mailbox with an installed callback and unprocessed events has asked for
\* a pump, and the request is still on its way to the UI thread: a callback
\* about to post, a posted event with the installed token, a running pump, or
\* one that told its host to pump again.
NoLostWake ==
  (queuedItems > 0 /\ wakeContext # NoWake) =>
    /\ wakePending
    /\ \/ \E t \in Threads : pc[t] = "calling" /\ context[t] = wakeContext
       \/ wakeContext \in posted
       \/ pc[UI] \in {"pumping", "releasing", "pumpEnd"}
       \/ pumpAgain

\* The threads wakeCallbacksInFlight counts.
InFlight == {t \in Threads : pc[t] \in {"calling", "finishing"}}

\* The UI thread sleeps on wakeIdle only while a callback is in flight that
\* will signal it.
SleeperIsSignalled ==
  asleep => InFlight # {}

\* What the mailbox promises, without threads, locks and counters.
Queue == INSTANCE StreamQueue
           WITH queue <- Waiting, inHand <- hand, closed <- disposed,
                Capacity <- MaxItems
ImplementsQueue == Queue!Spec

\* setWakeCallback and dispose return: the producers' callbacks they wait for
\* end, and no signal is missed.
WaitsEnd ==
  (pc[UI] \in {"settingWake", "disposing"})
    ~> (pc[UI] \notin {"settingWake", "disposing"})

\* While a wake callback stays installed, every accepted event reaches the
\* bridge without anybody polling the mailbox.
AcceptedIsApplied ==
  \A n \in 1 .. MaxOffers, c \in Contexts :
    (accepted >= n /\ wakeContext = c) ~> (applied >= n \/ wakeContext # c)
=============================================================================
