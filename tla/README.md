# Models and proofs of Clay Board Style System

Clay Board Style System (CBSS) is a native GUI engine written in Nim, with a
Driver that offers it to Rust programs together with Stores, Commands, Cues,
navigation, validation and components of its own. This directory holds TLA+
modules of the parts whose difficulty lies in ordering: threads, callbacks that
call back, panics and exceptions in the middle of a call. The modules are
checked on small instances with TLC, and theorems about them are proved for
every instance with TLAPS.

Paths of Nim files are relative to the Nim package
`src/clay_board_style_system/`, paths of Rust files to `drivers/rust/src/`,
unless they start with `docs/` or `drivers/`.

## 1. Inventory

The engine and everything a Driver keeps run on one UI thread. Worker threads
touch them at two places only: the stream mailbox (through which the Nim
Commands complete too) and the completion queue of a Rust Command. Everything
else that is concurrent is re-entrancy: the library calls the application, which
calls the library before it returns, and may fail instead of returning.

### Modelled

| component | state | operations | hard behaviour | what makes it correct |
| --- | --- | --- | --- | --- |
| stream bridge (`data/stream_bridge.nim`) | stream state, queue with item and weight counters, pending terminal, latest progress | open, pushData, reportProgress, finish, fail, cancel, close, drain | limits apply to data and not to terminals; partial drains | counters agree with the queue, the consumer reads a word of the protocol, data is lost only by cancel |
| stream mailbox (`data/stream_mailbox.nim`), SDL wake (`backends/sdl3/stream_wake.nim`), binding (`runtime/stream_binding.nim`) | channel, counters, producers' view of the state, wake flag, callbacks in flight, deferred event | offers, wake callback, setWakeCallback, pumpInto, dispose | producer threads against the UI thread, backpressure with an event in hand, raw context of the callback, waiting on a condition, posts that may fail | bounded FIFO, no lost wake, no use of a context after it was given back, waits end, every accepted event applied without polling |
| Command (`runtime/command.nim`) | active runs, queue, observers, completion mailbox | run, cancel, cancelAll, pump, observeRun, unsubscribeRun, dispose | six kinds of synchronous callbacks that call the Command again, exceptions, late results | final tickets, no wedge, order, observers served, work stopped |
| Rust Store, Selector, watch (`store.rs`, `lib.rs`) | state, queued actions, transaction depth, listener tables with an emission depth, the selected value | dispatch, dispatch_silent, transaction, with_state, subscribe, close, refresh, dispose, watch | listeners that subscribe, dispatch and nest during a notification; panics through all of it | tables valid, nothing stays locked, revisions in order, derived values fresh |
| Rust navigation (`navigation.rs`, `navigation_ui.rs`) | history entries and their ids; screens, a transition, focus records, the queued change | push, replace, back, forward; register, unregister, replace screen, set, advance and cancel a transition, sync, disconnect | hooks and focus handlers that navigate in the middle of a sync; roots removed behind the host | the host shows the current entry, one screen takes input, one end per transition, focus kept per entry |
| Rust Command (`command.rs`) | as Command, with a completion queue of its own and a wake callback | run, cancel, cancel_all, pump, observe_run, close, dispose, drop; succeed and fail of the sink, from any thread | panics in every callback, the drop of the last handle, RefCell borrows held across a callback, the wake called outside the lock | tickets agree with the tables, no wedge, completions kept, no lost wake |
| Rust Cue (`cue.rs`) | sessions with a stage and its branches, lists by graph, queued sessions, a logical clock | start, settle, tick, cancel, dispose, drop | executors and hooks that start, settle, cancel and dispose while a session advances | sessions and tickets agree, nothing decided is left undone, hooks released, statuses final |
| Rust validation (`validation.rs`, `validation_ui.rs`) | result, reporting and disabling of each control, its dependents; controls and fields of a form | input, blur, refresh, set_disabled, close, add, register_field, remove, check, report, submit, submit_collected | dependents rechecked from a snapshot, handlers that change values in the middle of a report | what is shown, kept and submitted agrees with the values |
| Rust Ui (`lib.rs`) | handlers, default actions, subscriptions and their index, components with watches and Cue runtimes | on, set_default_action, clear_handler, subscribe, close, emit, add, remove_subtree, add_component, unmount, reset, drop | raw pointers held by the engine, callbacks that remove each other, destructors that own tokens | the engine never holds a freed callback, the registry agrees with it, teardown is complete |

### Not modelled

The Nim runtime has its own Cue, reactive state, navigation and validation,
whose Rust counterparts are modelled, and component lifecycle, frame scheduling,
events and focus, virtualisation, GPU host and motion, which are candidates for
later models (section 7). Layout, paint, colours and shaders are numeric code;
text shaping and back ends are calls into native libraries; widgets, style
packages, the C interface, the C++ Driver, test driver and generated code have
no concurrent state worth a model. `PROJECT.json` lists each with its reason.

### How they interact

A producer thread offers events to the mailbox and posts an SDL event through
the wake callback; the UI loop receives it, pumps the mailbox into the bridge
and drains the bridge into the application. A Nim Command owns a mailbox and a
bridge of its own; a Rust one its completion queue. A Rust Ui owns the callbacks
the engine calls; a component owns watches on Selectors and Cue runtimes, which
`unmount` closes; a screen host listens to a Navigator and drives the inertness,
the visibility and the focus of the Ui; a validation form reads controls and
emits a submit event through the Ui.

## 2. Modules

`D_Fault` beside a definition `D` is `D` with a plausible fault; no action uses
it. It documents what the properties would catch.

| module | what it is |
| --- | --- |
| `StreamBridgeState` | the bridge as a record and one operator per procedure: `Accept` is split into `BridgeAccepts` (the early returns) and `AfterEvent` (the assignments), `DrainTurn` is the body of drain's loop and `DrainUpTo` the loop |
| `StreamProtocol` | what a consumer may read: an automaton over event kinds |
| `StreamBridge` | a bridge alone, offered anything and drained in any portion; implements `StreamProtocol` |
| `StreamQueue` | what a mailbox promises: a bounded FIFO with one event in hand, and close |
| `StreamMailbox` | the mailbox with its threads, at the granularity of `shared.gate`, around a bridge (`StreamBridgeState`); implements `StreamQueue` |
| `Command` | one Nim Command with its callbacks, as a call stack |
| `CraftSignal` | SignalCore of a Store or a Selector as a record and its methods |
| `CraftStore` | a Store, one Selector and one component watch, over two `CraftSignal`s |
| `NavigationHistory` | the entries of a stack Navigator |
| `CraftNavigation` | a screen host over a `NavigationHistory`, with the part of the Ui it drives |
| `CraftCommand` | one Rust Command, its callbacks and the threads that complete it |
| `CraftCue` | one Rust CueRuntime with its graphs |
| `CraftValidation` | Rust controls with rules that name one another, and a form |
| `CraftUi` | the callbacks and components of a Rust Ui, around the engine's tree |
| `Stream_proofs`, `Command_proofs`, `CraftStore_proofs`, `CraftNavigation_proofs`, `CraftCommand_proofs`, `CraftCue_proofs`, `CraftUi_proofs`, `CraftValidation_proofs` | the theorems |
| `MCStreamMailbox`, `MCCommand`, `MCCraft*` | definitions for the runs: symmetry, graphs, rules, and which callback makes which call |

### StreamMailbox

A step is what a thread does under one acquisition of the gate, or the part of
a call it does outside. `Offer` is offerEvent up to the release of the gate;
`InvokeWake` is the callback (it posts an SDL event, which `LossyPost` may
drop); `FinishWake` is finishWake, which signals the condition. `PumpInto`,
`PumpTake`, `PumpRelease`, `PumpLoopEnds`, `PumpEnd` are the pieces of
pumpInto, `deferred` its carried event and `hand` the event between receive and
releaseProcessed. `SetWakeCallback`/`ResumeSetWake` and
`Dispose`/`ResumeDispose`/`DropQueued` are the calls that wait on the condition
(`asleep`); a condition may also wake spuriously. `HandleWake` is the host loop
finding a posted event whose token matches and pumping.

Offers the code refuses change nothing and are stuttering steps. Payloads are
numbered by acceptance, which is all that order and loss need.

### Command

`todo` is the stack of calls in progress, innermost first. Its head is either a
callback the application is executing, which may call the Command again, return
or raise, or the rest of a procedure of `command.nim`, which takes its next
step. Each library step runs to the next callback: `run` leaves
`cancelActive` per replaced run, then `start`, then `return`; `cancelActive`
leaves `hook`, `markCancelled`, `tell`; `completeRun` (`DeliverOne`) leaves the
observer, `startNext` and `report`; a raising executor leaves the observer,
`startNext` and `raise`. `Unwind` is an exception passing these frames: pump
keeps it for later, a callback may catch it. The constants say which callback
makes which call (`Reentry`) and which may raise (`MayRaise`); the callbacks
typed `raises: []` cannot.

Workers only reach the mailbox, so in this module it is a bounded queue:
`StreamMailbox` is about the rest. `releaseCommand` is one step because a
disposed Command ignores the calls of the callbacks it makes. The loop over
`queuedRuns` in the latest-only branch of `run` (command.nim:430-437) is not
modelled: only `cpOrdered` adds to the queue and the policy never changes.
Identifiers do not wrap: 2^64 runs are out of reach.

### The Rust Driver: one technique

Everything but the completion queue runs on the UI thread, so a state between
two steps is a state in which application code is running, inside some calls of
the library. Each module keeps those calls explicit. Where any call can be made
from any callback (`CraftStore`, `CraftCommand`, `CraftCue`) they are a variable
`stack`, innermost first; a step runs from one call of application code to the
next, exactly as far as the Rust function does. Where only one operation calls
out in the middle (`CraftNavigation`: sync; `CraftValidation`: the report of a
form; `CraftUi`: a removal and a construction) a small variable says where it
is (`phase`, `job`, `removing`, `building`).

A panic is followed the way it unwinds: each `catch_unwind` of the code is
a frame (or a flag of one) that keeps the first panic, runs the steps left and
raises it again. A `RefCell` borrowed while application code runs is a guard or
a panic of the operations that would borrow it: `Reading` in `CraftStore`
(with_state, and a Selector's commit listener while its own listeners run),
`Borrowed` in `CraftCommand` (the late hook of `start`, called in the else of an
`if let` that still holds the table), `Held` in `CraftCue` (the losers' hooks of
evaluate_stage), `Stops` and `PanicsIn` in `CraftUi` (destructors that run while
the registry is borrowed).

Some variables are history: they record that the code met a case it does not
handle, and the property says so where it excepts that case. They are
`stale` and `behind` in `CraftStore`, `lost` in `CraftCommand`, `missed` in `CraftNavigation` and
`CraftValidation`, `late` and `broken` in `CraftCue`, `broken` in `CraftUi`.
Section 6 lists these cases.

**CraftStore.** The state is a counter of the actions that change what the
Selector projects; an `other` action changes something else. `Dispatch`,
`EnterDrain`, `DrainNext`, `DrainLeftOver`, `DrainEnd` are dispatch and drain,
whose `processing` flag makes a nested one return; `StartEmit`, `EmitNext`,
`EmitEnd` are an emission, whose frame remembers how many bindings it started
with; `BeginTransaction`, `EndTransaction`, `TransactionReturns` a transaction.
The Selector's commit listener is binding 1 of the commits and part of
`EmitNext`; the watch is a listener of the Selector.

**CraftNavigation.** `Navigate` is an operation of the Navigator with the host's
listener; `Redirect` is a listener that navigates, after which the host hears
the newer change first and the older last. `Sync` takes the queued change and
goes through `SyncCancels` (the hook of the transition it settles, the host not
borrowed), `Activate` (records, flags), `MoveFocus` and `Leave` (blur and focus
handlers, the host borrowed). The engine is the sets `inert`, `hidden`, `gone`
and the variable `focus`, with two controls in each screen.

**CraftCommand.** `Run`, `Start`, `ExecutorReturns`, `MarkCancelled`, `Deliver`
and the others are the functions of `command.rs`; an `end` frame is the
point at which a function that caught panics raises the first of them again.
`Offer` is any thread in its critical section, and `CallWake` its call of the
wake callback afterwards; `known` and `owed` say whether the event loop has been
told, for `WakeNotLost`. The policy is chosen in the initial state.

**CraftCue.** `Start`, `Settle`, `Tick`, `Cancel`, `Dispose`, `Drop` are the public
calls. A restart cancels the sessions of its graph one by one (`BeginCancel`)
before `Begin` makes the new one, which is why start has a frame of its own; a
start that finds no identifier left fails there. process is one frame whose
`then` says which part of the turn comes next (`Pick`, `OpenStage`, `Dues`,
`EvaluateAgain`, `Compare`), whose list are the sessions left of the snapshot and
whose flag is `changed`; `Launch` are the loops that start branches, `Evaluate`
to `DecidedEnd` evaluate_stage, `FinishHook` and `FinishEnd` finish_session with
activate_queued, each up to the next executor or hook. Identifiers and branches
are appended to the lists that hold them, so a list is a set here, taken in
ascending order. Time is logical and only compared with the delays of the
branches.

**CraftValidation.** A result is the index of the rule that failed. `Recheck` is
evaluate with the loop over the dependents; `Reached` says how far that loop
comes when a dependent's node is gone; the order of the dependents, which is that
of registration, is left out, so that any may come first. `Report`, `ReportNext`, `HandlerReturns`
and `ReportEnd` are a report, with any change of values by the invalid handlers
in between.

**CraftUi.** A binding is a handler, a default action or a subscription.
`native` is what the engine points to and `registry` what the Driver keeps; the
difference between the two is what the module is about. `Call` and `Return` are
the trampoline, which holds the callback it runs. `FinishRemoval` is
release_nodes, in any order of the nodes, with the panic of a destructor at
every place it can happen. A callback may own the token of another's
subscription (`Owns`).

## 3. Runs

| run | instance | shows |
| --- | --- | --- |
| `stream_bridge` | limits 2 items / weight 3, weights 0, 1, 3, three data events, drains up to 3 | both limits are hit alone and together, every terminal meets a full queue; accounting, protocol, and that a pending bridge always has its close to deliver |
| `stream_mailbox` | two producers (symmetric), two contexts, 2 items / weight 3, weights 0 and 2, bridge limit 1, four offers, pumps of up to 2 | the safety properties and `ImplementsQueue`; the smaller bridge forces backpressure and the deferred event, the second context every replacement race |
| `stream_mailbox_live` | one producer, two contexts, `FairSpec`, a host that posts every wake | `AcceptedIsApplied` and `WaitsEnd`: no polling is needed, and no wait is for ever |
| `command` | three ordered runs, completion capacity 1; executor and result callbacks raise; pumping is left to the event loop and notifications start no run | the consistency of a Nim Command through every nesting and unwinding |
| `craft_store` | two actions, two commit and one change listener, every operation, every closure may panic, three calls inside one another when a fourth is made | `SignalsAgree`, `PanicsUnlock`, `RevisionsInOrder`, `SelectorIsFresh`, `WatchFollows` |
| `craft_store_follow_up` | the same without panics; violation | section 6 |
| `craft_navigation` | two screens, four roots, three entries, redirecting listeners, one disturbance (disconnection, a removed root or control) | `HistoryIsSound`, `HostFollows`, `OnlyActiveShown`, `HooksPaired`, `LeavingKeepsFocus` |
| `craft_navigation_focus` | the same without disturbance; violation | section 6 |
| `craft_command` | each policy, two runs, two completions, weights 1 and 2 against a limit of 2, callbacks one level deep | `TicketsAgree`, `NotWedged`, `AnswersKept`, `WakeNotLost` |
| `craft_cue` | a two-stage graph with a delayed branch and a racing one, three sessions, one tick, callbacks one level deep | `SessionsAgree`, `NothingStalls`, `HooksReleased`, `StatusIsFinal` |
| `craft_validation` | a required field, its confirmation and an alternative to it, each with another reporting policy, two values, one disturbance, one submission | `ShownAgrees`, `ResultsFresh`, `SubmitsAreValid` |
| `craft_ui` | a component inside another, three callbacks of which one owns a token, two callbacks inside one another | `NothingDangles`, `RegistryAgrees`, `TeardownCompletes` |

Why these bounds. The mailbox's races are between one producer that is inside a
call and one that finds its traces, hence two producers; two contexts are needed
to tell the new one from the old; an off-by-one shows at capacity 2; four offers
fill the mailbox, meet backpressure and refill it. For the Nim Command three runs
give an active one, a queued one and a newcomer, which is every relation
`command.nim` distinguishes. The Rust Command has the same relations; with two
runs per behaviour and every policy, every callback of one meets every state of
the other, and what needs a third, the order of the queue, is a plain
`VecDeque`. Callbacks nest one or two deep: a deeper callback meets the same
tables as the callback around it, and what differs, the frames that wait below,
is already any combination. A Store needs two actions for one to be queued while
another is reduced, and two commit listeners for one to change what the other
hears. Three history entries are the least in which one is truncated and one
replaced; four roots let both screens be replaced. Three controls give one
with two dependents, of which one may fail before the other is reached. One
disturbance is enough to interrupt every operation once at every place.

The call pairs (`Reentry`) of `MCCraftCommand` and `MCCraftCue` select, for each
kind of callback, the calls that change what the interrupted function still
holds; the others of its calls only add stuttering or states that a selected one
reaches as well.

Deadlock is checked where a program can always go on (`craft_store`,
`craft_validation`) and not where it may stop calling: a disposed or dropped
object, a closed stream, used-up bounds.

Fairness (`StreamMailbox!Fairness`): a thread inside a call goes on (weak, the
code has no unbounded loop outside its waits); the host handles a posted event,
repeats a pump that returned pending, as the comment at stream_wake.nim:49-50
asks of it, and drains the bridge (strong, because other UI calls may come
between). Producers are under no obligation, and a woken sleeper re-checks its
condition as the code's loop does. The other modules state no fairness: their
calls end when the application's callbacks return, and what must happen by then
is said by invariants of the states at rest (`AtRest`, `Idle`, `IsIdle`), which
are stronger than "eventually".

## 4. Proofs

The first part of `Stream_proofs` is about the mailbox. It proves, for every finite set of producers, every limit,
every set of weights and any number of offers:

| theorem | property |
| --- | --- |
| `TypeCorrect` | `TypeOK` |
| `ItemsCounted` | `ItemsAccounted` |
| `WeightCounted` | `WeightAccounted` |
| `OrderKept` | `InOrderWithoutLoss` |
| `AcceptedIsTaken` | `NothingAcceptedIsRejected` |
| `ContextOwned` | `ContextOwnership` |
| `SleeperNotStranded` | `SleeperIsSignalled` |
| `WakesAreKept` | `NoLostWake`, assuming `~LossyPost` |
| `MailboxIsQueue` | `ImplementsQueue`: initial states map to initial states, every step to a step or a stutter |

The inductive invariant is built in five layers, each proved on the ones below.
`Shape` adds to the types where things may be: at most one deferred event, an
event in hand exactly while the pump is between receive and release, nothing
left after a disposal ended. `Flights` says that `callbacksInFlight` is the
number of threads inside a callback, a sleeper implies it is positive, and
contexts are owned: without the counting, a decrement to zero would not show
that nobody is inside. `Woken` strengthens `NoLostWake` with the steps at which
the pump holds the obligation itself. `Content` is the accounting and the order
together, because the room in the channel and the numbering depend on each
other. The refinement follows from `Shape` and `Content`. `Accounts` is the
weight, and the path of states the bridge goes through when it is given what
waits: each waiting event is one the bridge takes in the state it then has
(`Path`). A path, unlike its end, survives an append and a take, so that a state
in which the bridge would refuse an accepted event cannot be reached.

The assumptions are the named ones of the modules: the UI thread is no producer,
limits are positive naturals, weights are naturals.

The second part is about a bridge alone, for every limit, every weight and
drains of any size:

| theorem | property |
| --- | --- |
| `WeightIsAccounted` | `QueueAccounted` |
| `NoDataLost` | `NothingLostUnlessCancelled` |
| `BridgeIsProtocol` | `ImplementsProtocol`: initial states map to initial states, every step to a step or a stutter |

The invariant `LinkedNow` relates the bridge to the sequence the consumer has
been given: what has been read is a word of the protocol and what the bridge
still holds may follow it (`Follows`), the queue holds the youngest of the
accepted data events, and the counter is the weight of the queue. One step of the module may
be a whole drain, so the invariant is shown to hold after each turn of its loop
(`DrainTurn`) and the drain is a word of such turns.

`WeightOf`, `DrainUpTo` and a Store's compaction are recursive functions. The
library's induction theorems take an operator as a parameter, which the
provers cannot instantiate, so the proofs do induction on a set of numbers
instead: `NatMinimum` (a nonempty set of naturals has a least element, from the
well-foundedness of `<`), `UpTo` (a set with 0 and closed under successor up to N
holds all of 0 .. N) and `Recursion` (a function with given first value and step
exists). The three lemmas are repeated where they are needed.

`Command_proofs` proves, for every policy, every number of runs, every
capacity, every depth of nesting and every choice of which callback makes which
call and which raises:

| theorem | property | assumption |
| --- | --- | --- |
| `Typed` | `TypeOK` | |
| `InertAfterDisposal` | `DisposedIsInert` | not latest-only |
| `RunsOneAtATime` | `OneAtATime` | not latest-only |
| `TicketsTellTheTruth` | `TicketsAgree` | |
| `EndedStaysEnded` | `StatusIsFinal` | executors do not raise, or callbacks do not pump |
| `EndedIsTold` | the first two parts of `RunsAreSettled`, in every callback | |
| `NoRunIsStuck` | `NotWedged` | |
| `FirstInFirstOut` | `StartsInOrder` | notifications start no run |
| `NothingIsOwed` | `RunsAreSettled` | executors do not raise, or callbacks do not pump |

The state of a Command in the middle of nested callbacks is its call stack, so
the argument is about stacks. The first part states what pushing a frame and
taking one off changes, in four notions: the runs that have a `start`, a
`markCancelled` or an `executor` call in progress (`Runs`, `Once`), those whose
result is being reported (`Reports`), what may be under which call (`Linked`), and
whether some call in progress will look at the queue (`Attended`). `Over(t, s)` says that t
has more calls than s, none of which disturbs the four but for the report of a run
that has just ended; the second part shows of every action how the new stack is
over a part of the old one. With that, the invariants need no case analysis on
stacks:

* `Prompt`: with a policy that does not replace runs, a `start` is always on top
  of the stack, in a Command that is not disposed and, if ordered, has no active
  run. It is what fails for latest-only, whose `start` waits under the callbacks
  of the runs it replaces: the two cases of section 6 about latest-only are the two
  ways it fails. `Prompt` with `Serial` gives the second and third theorem.
* `Placed`: each run is in one place, and its ticket names it. Running is active
  or about to be marked, queued is waiting or about to be started; without the
  calls in progress the property is not inductive, because `cancelActive`
  removes a run from the table before it sets its status.
* `Chained`: a waiting run has an active one or a call that sees to it. A raised
  exception drops the calls down to the next handler, so one has to know which
  those can be: `Link` says what may be under each call, and with it an exception
  drops a `report`, a `result`, a `return` or another exception, never a call that
  sees to the queue. Such a call also comes before the executor or the result
  handler under it goes on (`Attended`); without this part the next theorem fails.
* `InOrder`: the queue is sorted by id, and the run about to start comes before
  all of it. A call of `run` starts its run at once when none is active, so it must
  then find an empty queue: by `Attended` it does when an executor or a result
  handler makes the call, because nobody is left who still has to see to a waiting
  run.
* `Told`, `Stopped`, `Due`: no observer waits for an ended run, only active runs
  have work to stop, and whatever is reported, or is about to be, has ended with
  an outcome. They hold in every callback, and `RunsAreSettled` is what they say when
  no call is in progress. `Due` needs `Placed`, since a run that is to be
  reported must not be marked or started any more.
* `Begun`: what the handler of `startQueued` relies on. It sets `csCancelled`
  and takes the run from the table without testing that the run is still active
  (command.nim:405-408), so one has to know what a run whose executor is in progress
  can be: started, in one executor only, and without a hook, because the executor
  has not returned it. Without a hook `cancelActive` has no callback between the
  removal from the table and the mark, so such a run is marked at once and never
  while its executor goes on. With that, `Placed`, `Told` and `Stopped` survive the
  handler whatever was called before the exception.

What does not survive it is the status itself: an executor that offers its
completion, pumps and then raises leaves a run whose result was delivered and
whose ticket says cancelled. So `EndedStaysEnded` and `NothingIsOwed` assume
`RaiseIsSafe`: executors do not raise, or no callback pumps, and then a pump is
always the outermost call (`Link`) and gives no outcome to a run that is being
started. Pumping is left to the owning UI loop by `docs/frontend-runtime.md:370`, and
the run `command` has executors that raise and no nested pump.

`FirstInFirstOut` needs its assumption as well: the hook of the active run is
called after that run has left the table and before the queue is looked at, so a
run it starts overtakes the waiting ones, and TLC finds this with one cancel and
three runs.

The assumption about the policy is needed likewise, by the cases of section 6.

`CraftCommand_proofs` proves, for every policy, number of runs, limit of the
completion queue, depth of nesting and choice of which callback makes which call
and which panics:

| theorem | property |
| --- | --- |
| `TicketsTellTheTruth` | `TicketsAgree` (with `TypeOK`) |
| `QueuedRunsAreStarted` | `NotWedged` |
| `AnswersAreCompleted` | `AnswersKept`, which excepts the runs in `lost` |
| `NothingIsLost` | `AnswersKept`, and `lost` is empty when no callback pumps |
| `WakesAreNotLost` | `WakeNotLost` |

Only `NothingIsLost` assumes anything of the callbacks: the Rust Command catches what
`command.nim` lets through, and that is what the theorems show. The
argument is about stacks as in `Command_proofs`, with one notion more: a panic
takes frames off up to a callback or marks an end, and `Unwound` says that it
takes off no step that is owed to a run, because every such step has another or
an end directly below it (`Linked`). The invariant is `Core`, proved together,
and three parts on top of it:

* `Core` places each run: active and running, or queued, or the run of exactly
  one `start` or `mark` in progress; a hook is live for active runs only; and a
  ticket is returned for a run only after its `start` (`Returning`). `Prompt`
  says which starts may wait below other calls: those of latest-only runs, whose
  ticket nobody holds yet. So it is true of tickets, though not of runs, that
  what says queued is queued.
* `Told`: no observer waits for a run that ended.
* `Attended`: a queued run has an active one, or a step in progress that will
  look at the queue.
* `Answered`: a run in `answered` is active, and its completion is in the queue
  or in the batch of a pump in progress (`Batches`), unless the run is in `lost`.

At rest the stack is empty, and the parts say what the properties say.
`WakeNotLost` is inductive with the types.

`CraftCue_proofs` proves, for any graphs, number of identifiers, times, nesting and
choice of which executor or hook makes which call:

| theorem | property |
| --- | --- |
| `TypesHold` | `TypeOK` |
| `SessionsAgreeHolds` | `SessionsAgree` |
| `NothingStallsHolds` | `NothingStalls` |
| `HooksReleasedHolds` | `HooksReleased` |
| `StatusIsFinalHolds` | `StatusIsFinal` |

The four properties are about a runtime at rest or about one variable; what makes
them true is what the calls in progress still owe. The invariant `IInv` was checked
with TLC on the run's instance and on smaller graphs before it was proved. Its
parts, each of which needs those before it:

* `Shaped`: what may stand on what (`Linked`: an executor on a loop that starts
  branches, that loop on process, a held hook on the decision that calls it) and
  which frames are never in progress together (`Apart`: two processes, two loops,
  two ends of one session, two executors of one branch). The second is what the
  guard `processing` and the removal of a session from the table before its hooks are
  called give.
* `Framed`, `Staged`: a loop in progress starts branches of the stage it was called
  for; an executor's branch is started and has no hook; a stage between its decision
  and its end has every branch settled, and one that is not open has no branches.
  Without this a late executor could install a hook in the next stage.
* `Placed`, `Queued`, `Listed`: a running ticket's session is in the table, or
  ending, or broken; a waiting one is in the queue of one graph, behind a session
  of that graph, which lists it until finish_session is done with it. A ticket in
  two queues, or a graph that lists a session after its end, would let
  activate_queued start nothing or the wrong session.
* `Hooked`: whoever owes an installed hook its call: its branch, while unsettled,
  the end of its session, or the decision of its stage.
* `Moving`: every session is `Fine` (open, nothing due, nothing decided) or somebody
  will look at it (`Attended`): a call of process that will find none in progress
  (`Called`), a process that turns again or will see that a stage changed
  (`Again`), a decision under way, the loop that starts what is due, or the rest of
  a turn. A nested call of process returns at once, so what a callback inside
  process does must be seen by the next turn; `Excused` says that it is, except
  under the executor of a delayed branch. That is the case
  `NothingStalls` excepts (`late`, section 6).

`Over` collects, for a frame pushed on a stack, what becomes of the frames it
speaks about, so that the proof of an action needs no case analysis on stacks.
The only frame that a panic of the code itself ever takes off besides the one that
panics is the loop of a restart (`PanicIs`), because by `Linked` the next one is
an executor, a hook or the event loop. At rest the stack is empty and the parts
say what the properties say. `StatusIsFinal` follows
from `Placed` and `Queued`: only tickets that run or wait are ever set.

`CraftStore_proofs` proves, for any number of actions and subscriptions, any
nesting and any choice of what panics:

| theorem | property |
| --- | --- |
| `SignalsAreSound` | `SignalsAgree` |
| `PanicsAlwaysUnlock` | `PanicsUnlock` |
| `EveryRevisionInOrder` | `RevisionsInOrder` |
| `SelectorHoldsTheState` | `SelectorIsFresh` |
| `WatchShowsTheValue` | `WatchFollows` |

The invariant has six parts, each inductive over the ones before it. `Typed`
has both signals sound; `Stacked` counts the emissions, transactions and drains
among the calls in progress against the depths and flags of the Store, which is
what unlocks it when a panic takes the calls off; `Room` is the bound of the
model that leaves one subscription to the watch. The other three are about what
a listener has still to hear: `Heard` says that the bindings an emission has
passed have heard its revision and those it has not the one before; `Fresh`
that a change the Selector has not projected is a commit still to be published
or an emission on top of the stack about to call the Selector's binding, the first; `Followed` that
a value the watch does not show is carried by an emission that has the watch's
binding still ahead. Since a binding never moves while an emission of its signal
goes on (removal only marks it until the last emission ends), positions may
be compared. Most steps start, advance and end no emission (`Quiet`); only five
do (`Loud`).

`CraftNavigation_proofs` proves, for any number of screens, roots, entries and
disturbances:

| theorem | property |
| --- | --- |
| `HistoryStaysSound` | `HistoryIsSound` |
| `HostFollowsNavigator` | `HostFollows` |
| `OneScreenShown` | `OnlyActiveShown` |
| `HooksArePaired` | `HooksPaired` |
| `FocusIsKept` | `LeavingKeepsFocus` |

The properties are about a host between two calls; the invariant `IInv` says what
becomes of them in the middle of a sync, when two screens are visible and the
change is taken out of the queue. `Shown` reads the flag `active` that the host keeps
of each screen against the tree, for the roots still in it; `Distinct`, that
neither a root nor a destination is registered twice, is what lets a change of
one screen's flags leave the others' alone.

`CraftUi_proofs` proves, for every tree of nodes, every set of callbacks, every
ownership of tokens and every nesting:

| theorem | property |
| --- | --- |
| `NeverDangles` | `NothingDangles` |
| `RegistryIsEngine` | `RegistryAgrees` |
| `NothingIsLeft` | `TeardownCompletes` |

`NothingDangles` is not inductive, because it does not say where a callback is
kept. The invariant `Good` adds that the registry keeps each callback at the
place where the engine has it (`Follows`), and that the index by node, from which
release_nodes takes the subscriptions it drops, names none of another node
(`Indexed`), however stale a destructor's panic left it. The proof
follows the shape of the code: a lemma for each helper (unsubscribing, a
destructor that unsubscribes, dropping what the engine has forgotten,
release_nodes complete or interrupted, replacing a slot), then one for each
action. The engine forgets before the registry drops, and everything else is
that order. `RegistryAgrees` is carried from lemma to lemma with it: `Sound` is its
second half for any bindings and any tree, so that it can be said of each
intermediate record, `Quiet` that a Ui that is down has no subscription, and
`Shape` the types of everything else. `TeardownCompletes` needs two facts about the
tree only: nothing is in it whose parent is not (`Rooted`), and a component's root
is created once, when it is mounted (`Torn`). What is below a root that has
gone therefore stays away. `Below` rests on the recursive function `Above`, so the
lemma `AboveDef` first shows that its equation has a solution for every `Parent`
the assumption admits. About the application the proof assumes what the module
assumes: a callback is registered once, and one that owns a token owns that of a
callback that owns none.

`CraftValidation_proofs` proves, for any controls, chains of rules, reporting
policies and interleaving of handlers with a report:

| theorem | property |
| --- | --- |
| `NodesShowResults` | `ShownAgrees` |
| `ResultsAreFresh` | `ResultsFresh` |
| `EveryEmissionIsValid` | `SubmitsAreValid` |

None of the three is inductive. `ResultsFresh` speaks of enabled controls, but
set_disabled enables one without evaluating it, so `Fresh` says the same of the
disabled ones that were not passed over. That evaluate reaches who it must
needs `Wired`: of two registered controls, of which one names the other in a
rule, the one is among the dependents of the other, in whichever order they were
added and whatever was closed or removed since. `Asked` is the argument for a
submission: while a report has found no failure, every control it asked is
still valid, because only an invalid handler lets the application change a
value, and a handler is called after a failure only. A report that went on to emit
after a handler had repaired the values would need another argument, and `Passes`
is where the code does not. The lemma under all of this is that the failure of
a control depends on its own value and those of its peers only (`FailureLocal`).
Assumed of the constants: rules that compare name a control (`Constants_Assumption`).

Model-checked only:

* the liveness properties, `AcceptedIsApplied`, `WaitsEnd` and `CloseIsDelivered`
  of the streams: the prover has no fairness.

Every other property of a passing run, invariant or action property, is stated
by a theorem; `NoLostWake` is proved for a host that loses no posts, because it
is false otherwise (section 6), and three about the Nim Command assume what the
table above says.

## 5. Not modelled, and why

* Reference counting of the mailbox's shared block: it needs a heap.
* The contents of payloads, errors, progress texts, results and form data.
* The dirty domains marked by a pump, and the allocation of wake tokens.
* Replacing a Command's callbacks after construction.
* Of the Rust Driver: NavigationLink; CueTrigger and the checks of the graph
  builder; the length, range, pattern and choice rules, which are like the
  modelled ones in all that matters to a control; a transition hook that calls
  the host itself; a Ui reset or dropped from inside a callback; the panicked
  flags; identifiers that wrap at 64 bits; the flat calls for styles, properties
  and scenes, which keep no state in the Driver.
* The components of section 1 without a module.

## 6. Disagreements, and cases the code does not handle

Shown by a run:

* `craft_store_follow_up`: the commit that a transaction leaves is published
  after the reducing loop of drain, with the Store still marked as processing
  (store.rs:242). What a listener of that commit dispatches is queued, and
  nobody reduces it until an unrelated dispatch. `docs/frontend-runtime.md:628-630`
  and `drivers/rust/README.md:93` say that it is queued for the next turn.
* `craft_navigation_focus`: a sync whose last change was a Replace removes the
  focus record of the entry it leaves (navigation_ui.rs:608), also when a push
  before the Replace means that this entry is still in the history.
  `docs/navigation.md:203` and `drivers/rust/README.md:128-129` promise the
  focus saved for that entry.

Met while modelling, and part of the models or excepted by their properties:

* A dropped SDL post (stream_wake.nim:12) leaves `wakePending` set, so no later
  offer asks for a pump (`LossyPost` = TRUE). `docs/data-interchange.md:181-184`
  promises that no polling frame loop is needed.
* A latest-only Nim Command whose cancel hook, observer or `onCancelled` starts
  a run has two active runs afterwards (command.nim:425); one whose callback
  disposes of it calls a nil executor (command.nim:438). When the executor of
  the next ordered run raises, the completed run's `onSuccess` or `onFailure` is
  never called (command.nim:274). The handler of `startQueued` sets
  `csCancelled` without testing that the run is still active
  (command.nim:405-408), which changes the ticket of a run whose executor pumped
  its own completion and then raised. A run started by the cancel hook of the active run
  finds `activeRuns` empty (command.nim:440) and overtakes the queue.
* The Rust Command shares the first two: two active latest-only runs
  (command.rs:644), and a panic at command.rs:331 instead of the nil executor.
  The late hook runs with the table of active runs borrowed (command.rs:344), so
  that whatever needs the table in it panics. A pump called under it takes
  completions off the queue and each `complete` panics inside the catch of the
  loop (command.rs:748-757): runs that are still active lose the completions that
  were accepted for them, and stay active until they are cancelled or complete
  again (`lost`, which `AnswersKept` excepts). The run makes this call, and reaches
  an ordered Command that waits for a run whose completion is gone; `NothingIsLost`
  proves that it takes a callback that pumps. A bounded pump leaves completions
  for which no wake is given again (command.rs:138), which `WakeNotLost` excepts.
* A listener that refreshes a Selector during its notification makes the
  listeners after it hear the newer value first and the older last; `watch`
  misses a change its own immediate call makes (`behind`). A dispatch inside
  with_state loses its action to a panic of the borrow.
* A Navigator listener that navigates makes those after it hear the changes in
  reverse order (navigation.rs:156, `missed`). validate_node
  (navigation_ui.rs:146) asks only the engine's own state, so a root that
  has been removed is noticed only half-way through register or replace.
* A losing branch's hook that cancels its own session panics in the borrow of
  it (cue.rs:453); the session is gone and its ticket says running (`broken`).
  A session that the executor of a delayed branch starts or advances is not
  opened until the next call (cue.rs:687, `late`). A hook returned after its
  branch ended is dropped uncalled (cue.rs:560).
* A dependent whose node is gone ends the loop over the dependents
  (validation_ui.rs:102); a disabled one keeps a stale result
  (validation_ui.rs:200); removing a control from a form keeps the edges to it
  (validation_ui.rs:592) (`missed`).
* A callback that owns a token and is destroyed while the subscriptions are
  borrowed panics and leaves the registry half released (lib.rs:1581, 1606,
  `broken`). A component inside an unmounted one keeps its watches.

## 7. What comes next

1. An abstract specification of a run's life that `Command` and `CraftCommand`
   both implement.
2. The Nim Cue and reactive state, from `CraftCue` and `CraftStore`, with
   exceptions instead of panics.
3. The event loop around `StreamMailbox`: binding, scheduler, tokens; the
   reference count of the shared block.
4. The Nim component lifecycle under `CraftUi`; event dispatch over a tree its
   handlers change; virtualisation; the GPU host.
