---------------------------- MODULE StreamBridge ----------------------------
(***************************************************************************)
(* The UI-thread stream state machine of data/stream_bridge.nim driven     *)
(* directly by its API: any legal or illegal order of calls, drains of any *)
(* size in between.  A call the code refuses returns false or              *)
(* sorBackpressure and changes nothing, so it is a stuttering step.        *)
(***************************************************************************)
EXTENDS StreamBridgeState, FiniteSets

CONSTANTS MaxData,        \* bound: data events pushed in a behaviour
          ProgressValues, \* positions a producer reports
          MaxProgress,    \* bound: progress events drained in a behaviour
          MaxDrain        \* bound: largest maxEvents passed to drain

ASSUME BridgeInputs == /\ MaxData \in Nat
                       /\ Weights \subseteq Nat
                       /\ ProgressValues \subseteq Nat \ {NoProgress}
                       /\ MaxProgress \in Nat
                       /\ MaxDrain \in Nat \ {0}

VARIABLES seen,     \* every event drained so far
          pushed,   \* number of data events accepted
          dropped   \* a cancellation dropped queued work

bridgeVars == <<bridge, seen, pushed, dropped>>

Control(kind) == [kind |-> kind, weight |-> 0, value |-> 0]

Drained(kind) == {i \in DOMAIN seen : seen[i].kind = kind}

Events ==
  {Control(k) : k \in Kinds \ {"sekData", "sekProgress"}}
    \cup {e \in [kind : {"sekProgress"}, weight : {0}, value : ProgressValues] :
            Cardinality(Drained("sekProgress")) < MaxProgress}
    \cup {e \in [kind : {"sekData"}, weight : Weights, value : {pushed + 1}] :
            pushed < MaxData}

BridgeInit == /\ bridge = NewBridge
              /\ seen = <<>>
              /\ pushed = 0
              /\ dropped = FALSE

\* open, pushData, reportProgress, finish, fail, cancel or close.
Accept(e) ==
  /\ BridgeAccepts(bridge, e)
  /\ bridge' = AfterEvent(bridge, e)
  /\ pushed' = IF e.kind = "sekData" THEN pushed + 1 ELSE pushed
  /\ dropped' = \/ dropped
                \/ bridge.state = "ssOpen" /\ e.kind \in {"sekCancel", "sekClose"}
  /\ UNCHANGED seen

DrainBridge(maxEvents) ==
  /\ BridgePending(bridge)
  /\ LET drained == DrainUpTo(bridge, maxEvents)
     IN /\ bridge' = drained.bridge
        /\ seen' = seen \o drained.events
  /\ UNCHANGED <<pushed, dropped>>

BridgeNext == \/ \E e \in Events : Accept(e)
              \/ \E n \in 1 .. MaxDrain : DrainBridge(n)

\* The host drains a stream that has something pending.
BridgeSpec == /\ BridgeInit /\ [][BridgeNext]_bridgeVars
              /\ WF_bridgeVars(\E n \in 1 .. MaxDrain : DrainBridge(n))

-----------------------------------------------------------------------------
BridgeTypeOK ==
  /\ bridge \in Bridges
  /\ seen \in Seq(Event)
  /\ pushed \in 0 .. MaxData
  /\ dropped \in BOOLEAN

\* The cached weight is the weight of what is queued, and neither limit of
\* the bridge is ever exceeded (pushData, drain, clearQueuedData).
QueueAccounted ==
  /\ BridgeTypeOK
  /\ bridge.queuedWeight = WeightOf(bridge.queue)
  /\ bridge.queuedWeight <= BridgeWeight
  /\ Len(bridge.queue) <= BridgeItems

Protocol == INSTANCE StreamProtocol

\* Until a cancellation drops queued work, every accepted data value has been
\* drained or is still queued: pushes, partial drains, end, error and the
\* close of a settled stream lose none.
NothingLostUnlessCancelled ==
  ~dropped => LET given == Protocol!DataAmong(seen, Len(seen))
              IN /\ pushed = given + Len(bridge.queue)
                 /\ Protocol!InPushOrder(seen)
                 /\ \A i \in DOMAIN bridge.queue : bridge.queue[i].value = given + i

\* The consumer's view is a word of the stream protocol, whatever the order
\* of the calls (drain's fixed order, cancel and close).
ImplementsProtocol == Protocol!Spec

\* A closed stream eventually tells its consumer, and does so last.
CloseIsDelivered ==
  (bridge.state = "ssClosed")
    ~> (seen # <<>> /\ seen[Len(seen)].kind = "sekClose" /\ ~BridgePending(bridge))
=============================================================================
