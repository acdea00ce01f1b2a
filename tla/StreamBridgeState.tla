-------------------------- MODULE StreamBridgeState --------------------------
(***************************************************************************)
(* The data of data/stream_bridge.nim: the record a StreamBridge[T] keeps  *)
(* and what each of its procs does to it, as operators from one record to  *)
(* the next.  The state machines StreamBridge and StreamMailbox are built  *)
(* from them.                                                              *)
(*                                                                         *)
(* An event carries its kind, the weight its producer declared (0 unless   *)
(* it is data) and a value: the payload of a data event or the position a  *)
(* progress event reports.  Error messages are left out.  The revision     *)
(* counter is left out too: it advances exactly when an accepted event     *)
(* changes this record.                                                    *)
(*                                                                         *)
(* An operator named D_Fault is D with a plausible fault.  No action uses  *)
(* it; put in the place of D it shows which property notices the fault.    *)
(***************************************************************************)
EXTENDS Integers, Sequences

CONSTANTS BridgeItems,   \* maxQueuedItems of the bridge
          BridgeWeight,  \* maxQueuedWeight of the bridge
          Weights        \* weights a producer declares

VARIABLE bridge   \* the StreamBridge record

ASSUME BridgeLimits == /\ BridgeItems \in Nat \ {0}
                       /\ BridgeWeight \in Nat \ {0}

Kinds == {"sekOpen", "sekData", "sekProgress", "sekEnd", "sekError",
          "sekCancel", "sekClose"}

States == {"ssIdle", "ssOpen", "ssEnded", "ssFailed", "ssCancelled",
           "ssClosed"}

NoProgress == 0

Event == [kind : Kinds, weight : Nat, value : Nat]

Bridges == [state : States,
            terminal : {"stkNone", "stkEnd", "stkError", "stkCancel"},
            openPending : BOOLEAN, queue : Seq(Event),
            queuedWeight : Nat, progress : Nat,
            terminalPending : BOOLEAN, closePending : BOOLEAN]

\* The weight of all events of a queue.
WeightOf(q) == LET sum[i \in 0 .. Len(q)] ==
                     IF i = 0 THEN 0 ELSE sum[i - 1] + q[i].weight
               IN sum[Len(q)]

NewBridge ==
  [state |-> "ssIdle", terminal |-> "stkNone", openPending |-> FALSE,
   queue |-> <<>>, queuedWeight |-> 0, progress |-> NoProgress,
   terminalPending |-> FALSE, closePending |-> FALSE]

Backpressured_ItemsOnly(b, e) ==
  e.kind = "sekData" /\ b.state = "ssOpen" /\ Len(b.queue) >= BridgeItems

\* canPushData returns sorBackpressure: the stream is open but the item or
\* the weight limit leaves no room.
Backpressured(b, e) ==
  /\ e.kind = "sekData"
  /\ b.state = "ssOpen"
  /\ \/ Len(b.queue) >= BridgeItems
     \/ e.weight > BridgeWeight
     \/ b.queuedWeight > BridgeWeight - e.weight

\* The states in which each proc does not return false.
BridgeAccepts(b, e) ==
  CASE e.kind = "sekOpen"   -> b.state = "ssIdle"
    [] e.kind = "sekData"   -> b.state = "ssOpen" /\ ~Backpressured(b, e)
    [] e.kind = "sekCancel" -> b.state \in {"ssIdle", "ssOpen"}
    [] e.kind = "sekClose"  -> b.state # "ssClosed"
    [] OTHER                -> b.state = "ssOpen"

SetTerminal(b, state, terminal) ==
  [b EXCEPT !.state = state, !.terminal = terminal, !.terminalPending = TRUE]

\* cancel forgets what the consumer has not been given yet, its open event
\* included.
CancelBridge(b) ==
  SetTerminal([b EXCEPT !.queue = <<>>, !.queuedWeight = 0,
                        !.openPending = FALSE, !.progress = NoProgress],
              "ssCancelled", "stkCancel")

CloseBridge_AlwaysCancels(b) ==
  [CancelBridge(b) EXCEPT !.state = "ssClosed", !.closePending = TRUE]

CloseBridge_KeepsState(b) == [b EXCEPT !.closePending = TRUE]

\* close cancels an open stream first and keeps the terminal event of a
\* stream that already had one.
CloseBridge(b) ==
  [(IF b.state = "ssOpen" THEN CancelBridge(b)
    ELSE IF b.state = "ssIdle" THEN [b EXCEPT !.openPending = FALSE]
    ELSE b) EXCEPT !.state = "ssClosed", !.closePending = TRUE]

\* The bridge after it accepted event e.  A progress report replaces the one
\* that is still pending.
AfterEvent(b, e) ==
  CASE e.kind = "sekOpen"     -> [b EXCEPT !.state = "ssOpen", !.openPending = TRUE]
    [] e.kind = "sekData"     -> [b EXCEPT !.queue = Append(@, e),
                                           !.queuedWeight = @ + e.weight]
    [] e.kind = "sekProgress" -> [b EXCEPT !.progress = e.value]
    [] e.kind = "sekEnd"      -> SetTerminal(b, "ssEnded", "stkEnd")
    [] e.kind = "sekError"    -> SetTerminal(b, "ssFailed", "stkError")
    [] e.kind = "sekCancel"   -> CancelBridge(b)
    [] e.kind = "sekClose"    -> CloseBridge(b)

BridgePending_ForgetsClose(b) ==
  b.openPending \/ b.queue # <<>> \/ b.progress # NoProgress \/ b.terminalPending

BridgePending(b) ==
  \/ b.openPending
  \/ b.queue # <<>>
  \/ b.progress # NoProgress
  \/ b.terminalPending
  \/ b.closePending

TerminalEvent(b) ==
  [kind |-> CASE b.terminal = "stkEnd"    -> "sekEnd"
              [] b.terminal = "stkError"  -> "sekError"
              [] OTHER                    -> "sekCancel",
   weight |-> 0, value |-> 0]

\* One turn of the drain loop: the bridge after it and the event it adds.
\* Pending work leaves in a fixed order: open, data, progress, terminal, close.
DrainTurn(b) ==
  CASE b.openPending ->
         [bridge |-> [b EXCEPT !.openPending = FALSE],
          event  |-> [kind |-> "sekOpen", weight |-> 0, value |-> 0]]
    [] ~b.openPending /\ b.queue # <<>> ->
         [bridge |-> [b EXCEPT !.queue = Tail(@),
                               !.queuedWeight = @ - Head(b.queue).weight],
          event  |-> Head(b.queue)]
    [] ~b.openPending /\ b.queue = <<>> /\ b.progress # NoProgress ->
         [bridge |-> [b EXCEPT !.progress = NoProgress],
          event  |-> [kind |-> "sekProgress", weight |-> 0, value |-> b.progress]]
    [] ~b.openPending /\ b.queue = <<>> /\ b.progress = NoProgress
       /\ b.terminalPending ->
         [bridge |-> [b EXCEPT !.terminalPending = FALSE],
          event  |-> TerminalEvent(b)]
    [] OTHER ->
         [bridge |-> [b EXCEPT !.closePending = FALSE],
          event  |-> [kind |-> "sekClose", weight |-> 0, value |-> 0]]

\* drain(maxEvents): the bridge it leaves and the events it returns.
DrainUpTo(b, maxEvents) ==
  LET drained[n \in 0 .. maxEvents] ==
        IF n = 0 THEN [bridge |-> b, events |-> <<>>]
        ELSE LET before == drained[n - 1]
                 turn   == DrainTurn(before.bridge)
             IN IF BridgePending(before.bridge)
                THEN [bridge |-> turn.bridge,
                      events |-> Append(before.events, turn.event)]
                ELSE before
  IN drained[maxEvents]
=============================================================================
