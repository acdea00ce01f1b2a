------------------------------- MODULE CraftCue -------------------------------
(***************************************************************************)
(* drivers/rust/src/cue.rs: one CueRuntime, the sessions of its graphs and *)
(* the application's executors and cancel hooks.                           *)
(*                                                                         *)
(* The calls in progress are a stack, innermost first: an executor or a    *)
(* hook the application is executing, or what a function of cue.rs still   *)
(* has to do.  A hook called by evaluate_stage runs while its session is   *)
(* mutably borrowed ("heldHook"): whatever borrows that session meanwhile  *)
(* panics.  A settlement may also come from the event loop.                *)
(*                                                                         *)
(* Time is the runtime's logical clock, in steps; its rate and the host's  *)
(* clock only scale what a tick adds, and a tick of a paused runtime does  *)
(* nothing.  Ids and branches are appended to the lists that hold them and *)
(* taken from the front, so a list is a set here, taken in ascending       *)
(* order.  Failure texts are left out.  D_Fault is D with a plausible      *)
(* fault, and no action uses it.                                           *)
(***************************************************************************)
EXTENDS Naturals, FiniteSets, Sequences, FiniteSetsExt

CONSTANTS Graphs,       \* graph -> its stages: [join, delays of the branches]
          MaxSessions,  \* the identifiers a session may have
          MaxNow,       \* bound: the logical time
          MaxDepth,     \* bound: executors and hooks in one another
          Reentry       \* the <<callback, call>> pairs the application makes

UserFrames == {"executor", "heldHook", "hook"}
Calls == {"start", "cancel", "settle", "dispose"}
ASSUME Constants_Assumption ==
  /\ \A g \in DOMAIN Graphs :
       Graphs[g] \in Seq([join : {"all", "any", "race"}, delays : Seq(Nat)])
  /\ MaxSessions \in Nat \ {0} /\ MaxNow \in Nat /\ MaxDepth \in Nat
  /\ Reentry \subseteq UserFrames \X Calls

GraphIds == DOMAIN Graphs
Ids      == 1 .. MaxSessions
Policies == {"restart", "ignore", "queue", "parallel"}
Final    == {"succeeded", "failed", "cancelled"}

VARIABLES
  now, phase,    \* of the runtime: its logical clock; open, disposed, dropped
  nextId,
  status,    \* of each ticket
  sessions,  \* the sessions running: id -> ActiveSession
  byGraph,   \* active_by_graph: graph -> ids
  queued,    \* queued_by_graph: graph -> ids
  live,      \* <<session, stage, branch>> whose cancel hook is installed
  stack,
  late,      \* sessions left unopened by the executor of a delayed branch
  broken     \* sessions a hook cancelled or disposed of while they were borrowed

tables == <<nextId, status, sessions, byGraph, queued, live>>
ghosts == <<late, broken>>
vars == <<now, phase, tables, stack, ghosts>>

-----------------------------------------------------------------------------
Frame(op, id) == [op |-> op, id |-> id, stage |-> 0, list |-> {}, graph |-> "none",
                  then |-> "none", flag |-> FALSE]
Top    == Head(stack)
Below  == Tail(stack)
\* The frame after the first of its list.
Rest(frame) == [frame EXCEPT !.list = @ \ {Min(@)}]
In(op) == stack # <<>> /\ Top.op = op
Depth  == Cardinality({i \in DOMAIN stack : stack[i].op \in UserFrames})
MayCall(call) == /\ phase = "open"
                 /\ stack # <<>> => <<Top.op, call>> \in Reentry /\ Depth <= MaxDepth

Processing == \E i \in DOMAIN stack : stack[i].op = "process"
Present == DOMAIN sessions
Held == {stack[i].id : i \in {j \in DOMAIN stack : stack[j].op = "heldHook"}}
\* The executor of a delayed branch is running.
DelayedRuns == \E i \in 1 .. Len(stack) - 1 :
                 stack[i].op = "executor" /\ stack[i + 1].op = "due"
MarkLate(ids) == late' = IF DelayedRuns THEN late \cup ids ELSE late

\* A panic is the application's when it reaches an executor or a hook.
Catches(s) == {i \in DOMAIN s : s[i].op \in UserFrames}
Panic(s)   == IF Catches(s) = {} THEN <<>> ELSE SubSeq(s, Min(Catches(s)), Len(s))

NewSession(g) == [graph |-> g, stage |-> 1, at |-> 0, open |-> FALSE,
                  launching |-> FALSE, branches |-> <<>>]
NewBranch == [started |-> FALSE, settled |-> FALSE, ok |-> FALSE]
Stages(s)  == Graphs[s.graph]
Current(s) == Stages(s)[s.stage]
With(id, s) == [x \in Present \cup {id} |-> IF x = id THEN s ELSE sessions[x]]
Without(id) == [x \in Present \ {id} |-> sessions[x]]
IsAt(id, stage) == id \in Present /\ sessions[id].stage = stage

Init ==
  /\ now = 0 /\ phase = "open" /\ nextId = 1
  /\ status = [id \in Ids |-> "new"]
  /\ sessions = <<>>
  /\ byGraph = [g \in GraphIds |-> {}] /\ queued = [g \in GraphIds |-> {}]
  /\ live = {} /\ stack = <<>> /\ late = {} /\ broken = {}

-----------------------------------------------------------------------------
\* Calls of the application.

BeginFrame(g, ids) == [Frame("begin", 0) EXCEPT !.graph = g, !.list = ids]

\* start; Ignore with a session of the graph running returns its ticket, and
\* Queue without an identifier left fails.
Start(g, policy) ==
  /\ MayCall("start")
  /\ policy = "ignore" /\ byGraph[g] # {} => Min(byGraph[g]) \notin Present
  /\ IF policy = "queue" /\ byGraph[g] # {}
     THEN /\ nextId \in Ids
          /\ nextId' = nextId + 1
          /\ status' = [status EXCEPT ![nextId] = "queued"]
          /\ queued' = [queued EXCEPT ![g] = @ \cup {nextId}]
          /\ UNCHANGED stack
     ELSE /\ UNCHANGED nextId
          /\ IF policy = "restart"
             THEN /\ status' = [id \in Ids |-> IF id \in queued[g] THEN "cancelled"
                                               ELSE status[id]]
                  /\ queued' = [queued EXCEPT ![g] = {}]
                  /\ stack' = <<BeginFrame(g, byGraph[g])>> \o stack
             ELSE stack' = <<BeginFrame(g, {})>> \o stack /\ UNCHANGED <<status, queued>>
  /\ UNCHANGED <<now, phase, sessions, byGraph, live, ghosts>>

\* The loop of a restart.
BeginCancel ==
  /\ In("begin") /\ Top.list # {}
  /\ stack' = <<Frame("cancel", Min(Top.list)), Rest(Top)>> \o Below
  /\ UNCHANGED <<now, phase, tables, ghosts>>

\* The rest of start: it does not look again whether the runtime is disposed.
Begin ==
  /\ In("begin") /\ Top.list = {}
  /\ IF nextId \notin Ids
     THEN stack' = Below /\ UNCHANGED <<nextId, status, sessions, byGraph, late>>
     ELSE /\ nextId' = nextId + 1
          /\ status' = [status EXCEPT ![nextId] = "running"]
          /\ sessions' = With(nextId, NewSession(Top.graph))
          /\ byGraph' = [byGraph EXCEPT ![Top.graph] = @ \cup {nextId}]
          /\ stack' = <<Frame("callProcess", 0)>> \o Below
          /\ MarkLate({nextId})
  /\ UNCHANGED <<now, phase, queued, live, broken>>

Cancel(id) ==
  /\ MayCall("cancel")
  /\ IF id \in Present
     THEN stack' = <<Frame("cancel", id)>> \o stack /\ UNCHANGED status
     ELSE /\ status[id] = "queued"
          /\ status' = [status EXCEPT ![id] = "cancelled"]
          /\ UNCHANGED stack
  /\ UNCHANGED <<now, phase, nextId, sessions, byGraph, queued, live, ghosts>>

Settling(s, b, ok) == [s EXCEPT !.branches[b] = [@ EXCEPT !.settled = TRUE, !.ok = ok]]

\* settle, of a completion that still counts: the others return at once.
Settle(id, b, ok) ==
  /\ MayCall("settle")
  /\ id \notin Held
  /\ LET branch == sessions[id].branches[b]
     IN branch.started /\ ~branch.settled
  /\ sessions' = With(id, Settling(sessions[id], b, ok))
  /\ live' = live \ {<<id, sessions[id].stage, b>>}
  /\ stack' = <<[Frame("evaluate", id) EXCEPT !.flag = TRUE]>> \o stack
  /\ UNCHANGED <<now, phase, nextId, status, byGraph, queued, ghosts>>

\* tick, from the event loop.
Tick(step) ==
  /\ phase = "open" /\ stack = <<>>
  /\ now + step <= MaxNow
  /\ now' = now + step
  /\ stack' = <<Frame("callProcess", 0)>>
  /\ UNCHANGED <<phase, tables, ghosts>>

\* dispose: the hooks it calls find the runtime disposed.  One called from the
\* hook of a borrowed session panics there, in the order of a hash table.
Dispose ==
  /\ MayCall("dispose")
  /\ phase' = "disposed"
  /\ sessions' = <<>>
  /\ byGraph' = [g \in GraphIds |-> {}] /\ queued' = [g \in GraphIds |-> {}]
  /\ live' = {h \in live : h[1] \notin Present \ Held}
  /\ LET waiting == UNION {queued[g] : g \in GraphIds}
         held == Held \cap Present
     IN \E reached \in IF held = {} THEN {Present} ELSE SUBSET (Present \ held) :
          LET ended == reached \cup (IF held = {} THEN waiting ELSE {})
          IN /\ status' = [id \in Ids |-> IF id \in ended THEN "cancelled" ELSE status[id]]
             /\ broken' = broken \cup ((Present \cup waiting) \ ended)
  /\ UNCHANGED <<now, nextId, stack, late>>

\* The last handle goes.
Drop ==
  /\ stack = <<>> /\ phase # "dropped"
  /\ phase' = "dropped"
  /\ LET ended == Present \cup UNION {queued[g] : g \in GraphIds}
     IN status' = [id \in Ids |-> IF id \in ended THEN "cancelled" ELSE status[id]]
  /\ live' = {h \in live : h[1] \notin Present}
  /\ sessions' = <<>>
  /\ byGraph' = [g \in GraphIds |-> {}] /\ queued' = [g \in GraphIds |-> {}]
  /\ UNCHANGED <<now, nextId, stack, ghosts>>

-----------------------------------------------------------------------------
\* Ending a session.

FinishFrame(id, s, outcome) ==
  [Frame("finish", id) EXCEPT !.stage = s.stage, !.graph = s.graph, !.then = outcome,
     !.list = {b \in DOMAIN s.branches : ~s.branches[b].settled /\ <<id, s.stage, b>> \in live}]

\* cancel_by_id: the session leaves the table before it is borrowed.
CancelById ==
  /\ In("cancel")
  /\ IF Top.id \notin Present
     THEN stack' = Below /\ UNCHANGED <<sessions, broken>>
     ELSE /\ sessions' = Without(Top.id)
          /\ IF Top.id \in Held
             THEN stack' = Panic(Below) /\ broken' = broken \cup {Top.id}
             ELSE /\ stack' = <<FinishFrame(Top.id, sessions[Top.id], "cancelled"),
                                Frame("callProcess", 0)>> \o Below
                  /\ UNCHANGED broken
  /\ UNCHANGED <<now, phase, nextId, status, byGraph, queued, live, late>>

Waiting_Any(g) == queued[g]
\* activate_queued passes over what was cancelled meanwhile.
Waiting(g) == {id \in queued[g] : status[id] = "queued"}

\* finish_session: its hooks, then its status, then the next session queued.
FinishHook ==
  /\ In("finish") /\ Top.list # {}
  /\ live' = live \ {<<Top.id, Top.stage, Min(Top.list)>>}
  /\ stack' = <<Frame("hook", Top.id), Rest(Top)>> \o Below
  /\ UNCHANGED <<now, phase, nextId, status, sessions, byGraph, queued, ghosts>>

Activates_Never(g) == FALSE
Activates(g) == Waiting(g) # {}

FinishEnd ==
  /\ In("finish") /\ Top.list = {}
  /\ stack' = Below
  /\ LET g == Top.graph
         others == byGraph[g] \ {Top.id}
         ended == [status EXCEPT ![Top.id] = Top.then]
     IN IF others = {} /\ Activates(g)
        THEN LET next == Min(Waiting(g))
             IN /\ status' = [ended EXCEPT ![next] = "running"]
                /\ sessions' = With(next, NewSession(g))
                /\ byGraph' = [byGraph EXCEPT ![g] = {next}]
                /\ queued' = [queued EXCEPT ![g] = {id \in @ : id > next}]
                /\ MarkLate({next})
        ELSE /\ status' = ended
             /\ byGraph' = [byGraph EXCEPT ![g] = others]
             /\ queued' = IF others = {} THEN [queued EXCEPT ![g] = Waiting(g)] ELSE queued
             /\ UNCHANGED <<sessions, late>>
  /\ UNCHANGED <<now, phase, nextId, live, broken>>

-----------------------------------------------------------------------------
\* Deciding a stage.

Settled(s) == {b \in DOMAIN s.branches : s.branches[b].settled}
Succeeded(s) == {b \in Settled(s) : s.branches[b].ok}

Verdict(s) ==
  LET all == Settled(s) = DOMAIN s.branches
  IN CASE Current(s).join = "all" ->
            IF Settled(s) # Succeeded(s) THEN "fail" ELSE IF all THEN "advance" ELSE "none"
       [] Current(s).join = "any" ->
            IF Succeeded(s) # {} THEN "advance" ELSE IF all THEN "fail" ELSE "none"
       [] OTHER ->
            IF Settled(s) = {} THEN "none" ELSE IF Succeeded(s) # {} THEN "advance" ELSE "fail"

Losers_None(id) == {}
\* The branches of a decided stage whose hooks are called, in order.
Losers(id) == LET s == sessions[id]
              IN {b \in DOMAIN s.branches : ~s.branches[b].settled /\ <<id, s.stage, b>> \in live}

Decides(id) == id \in Present /\ sessions[id].open /\ ~sessions[id].launching
                 /\ Verdict(sessions[id]) # "none"

\* A stage that is decided is over for all its branches.
Decided(s) ==
  [s EXCEPT !.open = FALSE, !.branches = [b \in DOMAIN @ |-> [@[b] EXCEPT !.settled = TRUE]]]

\* evaluate_stage up to the hooks of the branches that lost.
Evaluate ==
  /\ In("evaluate")
  /\ IF ~Decides(Top.id)
     THEN stack' = Below /\ UNCHANGED sessions
     ELSE /\ stack' = <<[Top EXCEPT !.op = "decided", !.list = Losers(Top.id),
                           !.then = Verdict(sessions[Top.id])]>> \o Below
          /\ sessions' = With(Top.id, Decided(sessions[Top.id]))
  /\ UNCHANGED <<now, phase, nextId, status, byGraph, queued, live, ghosts>>

DecidedHook ==
  /\ In("decided") /\ Top.list # {}
  /\ live' = {h \in live : ~(h[1] = Top.id /\ h[3] = Min(Top.list))}
  /\ stack' = <<Frame("heldHook", Top.id), Rest(Top)>> \o Below
  /\ UNCHANGED <<now, phase, nextId, status, sessions, byGraph, queued, ghosts>>

Advanced(s) == [s EXCEPT !.stage = @ + 1, !.branches = <<>>]

\* The rest of evaluate_stage; settle then calls process.
DecidedEnd ==
  /\ In("decided") /\ Top.list = {}
  /\ LET id == Top.id
         rest == (IF Top.flag THEN <<Frame("callProcess", 0)>> ELSE <<>>) \o Below
     IN IF id \notin Present THEN stack' = rest /\ UNCHANGED <<sessions, late>>
        ELSE IF Top.then = "fail"
        THEN /\ stack' = <<FinishFrame(id, sessions[id], "failed")>> \o rest
             /\ sessions' = Without(id)
             /\ UNCHANGED late
        ELSE /\ stack' = rest
             /\ sessions' = With(id, Advanced(sessions[id]))
             /\ MarkLate({id})
  /\ UNCHANGED <<now, phase, nextId, status, byGraph, queued, live, broken>>

-----------------------------------------------------------------------------
\* process.

ProcessFrame(ids) == [Frame("process", 0) EXCEPT !.then = "pick", !.list = ids]

CallProcess ==
  /\ In("callProcess")
  /\ stack' = IF phase # "open" \/ Processing THEN Below
              ELSE <<ProcessFrame(Present)>> \o Below
  /\ UNCHANGED <<now, phase, tables, ghosts>>

\* One turn of the loops of process: a session is opened, its due branches start,
\* and the stage is decided.
InProcess(step) == In("process") /\ Top.then = step
Continue(step) == <<[Top EXCEPT !.then = step]>> \o Below

Pick ==
  /\ InProcess("pick")
  /\ IF Top.list = {}
     THEN stack' = IF Top.flag THEN <<ProcessFrame(Present)>> \o Below ELSE Below
     ELSE LET id == Min(Top.list)
              s == sessions[id]
          IN stack' = IF id \notin Present THEN <<Rest(Top)>> \o Below
                      ELSE IF id \in Held THEN Panic(Below)
                      ELSE <<[Rest(Top) EXCEPT !.id = id, !.stage = s.stage,
                                !.then = IF s.open THEN "dues" ELSE "open",
                                !.flag = @ \/ ~s.open]>> \o Below
  /\ UNCHANGED <<now, phase, tables, ghosts>>

Opened(s) == [s EXCEPT !.at = now, !.open = TRUE, !.launching = TRUE,
                       !.branches = [b \in DOMAIN Current(s).delays |-> NewBranch]]

\* open_stage, up to its first branch; past the last stage the session succeeds.
OpenStage ==
  /\ InProcess("open")
  /\ LET id == Top.id
         s == sessions[id]
     IN IF s.stage > Len(Stages(s))
        THEN /\ stack' = <<FinishFrame(id, s, "succeeded")>> \o Continue("dues")
             /\ sessions' = Without(id)
        ELSE /\ sessions' = With(id, Opened(s))
             /\ stack' = <<[Frame("launch", id) EXCEPT !.stage = s.stage,
                              !.list = {b \in DOMAIN Current(s).delays :
                                          Current(s).delays[b] = 0}]>> \o Continue("dues")
  /\ late' = late \ {Top.id}
  /\ UNCHANGED <<now, phase, nextId, status, byGraph, queued, live, broken>>

\* The branches of an open stage that are due.
DueBranches(s) == {b \in DOMAIN s.branches : /\ ~s.branches[b].started
                                             /\ now >= s.at + Current(s).delays[b]}

Dues ==
  /\ InProcess("dues")
  /\ LET id == Top.id
         due == IF id \in Present THEN DueBranches(sessions[id]) ELSE {}
     IN stack' = (IF due = {} THEN <<>>
                  ELSE <<[Frame("due", id) EXCEPT !.stage = sessions[id].stage, !.list = due]>>)
                 \o Continue("evaluate")
  /\ UNCHANGED <<now, phase, tables, ghosts>>

EvaluateAgain ==
  /\ InProcess("evaluate")
  /\ stack' = <<Frame("evaluate", Top.id)>> \o Continue("compare")
  /\ UNCHANGED <<now, phase, tables, ghosts>>

Changed_OnlyEnds(id, before) == id \notin Present
Changed(id, before) == ~IsAt(id, before)

Compare ==
  /\ InProcess("compare")
  /\ stack' = <<[Top EXCEPT !.then = "pick", !.flag = @ \/ Changed(Top.id, Top.stage)]>> \o Below
  /\ UNCHANGED <<now, phase, tables, ghosts>>

Starting(s, b) == [s EXCEPT !.launching = TRUE, !.branches[b] = [@ EXCEPT !.started = TRUE]]

\* The loops that start branches (start_branch up to the executor): a session
\* that ended meanwhile starts none.  What was settled while they ran is decided
\* after them.
Launch ==
  /\ In("launch") \/ In("due")
  /\ LET id == Top.id
         s == sessions[id] IN
     IF ~IsAt(id, Top.stage) THEN stack' = Below /\ UNCHANGED sessions
     ELSE IF Top.list = {}
     THEN /\ sessions' = With(id, [s EXCEPT !.launching = FALSE])
          /\ stack' = <<Frame("evaluate", id)>> \o Below
     ELSE LET b == Min(Top.list)
              rest == <<Rest(Top)>> \o Below
          IN IF s.open /\ ~s.branches[b].started
             THEN /\ sessions' = With(id, Starting(s, b))
                  /\ stack' = <<[Frame("executor", id) EXCEPT !.stage = Top.stage,
                                   !.list = {b}]>> \o rest
             ELSE /\ sessions' = With(id, [s EXCEPT !.launching = TRUE])
                  /\ stack' = rest
  /\ UNCHANGED <<now, phase, nextId, status, byGraph, queued, live, ghosts>>

-----------------------------------------------------------------------------
\* The application's callbacks end.

\* The hook of a branch that is over by then is dropped, uncalled.
ExecutorReturns(gives) ==
  /\ In("executor")
  /\ LET b == Min(Top.list)
         counts == IsAt(Top.id, Top.stage) /\ ~sessions[Top.id].branches[b].settled
     IN live' = IF gives /\ counts THEN live \cup {<<Top.id, Top.stage, b>>} ELSE live
  /\ stack' = Below
  /\ UNCHANGED <<now, phase, nextId, status, sessions, byGraph, queued, ghosts>>

\* A panic is settled as a failure.
ExecutorPanics ==
  /\ In("executor")
  /\ LET b == Min(Top.list)
         counts == IsAt(Top.id, Top.stage) /\ ~sessions[Top.id].branches[b].settled
     IN IF phase = "open" /\ counts
        THEN /\ sessions' = With(Top.id, Settling(sessions[Top.id], b, FALSE))
             /\ stack' = <<[Frame("evaluate", Top.id) EXCEPT !.flag = TRUE]>> \o Below
        ELSE stack' = Below /\ UNCHANGED sessions
  /\ UNCHANGED <<now, phase, nextId, status, byGraph, queued, live, ghosts>>

\* A hook ends; its panic is swallowed.
HookEnds ==
  /\ In("hook") \/ In("heldHook")
  /\ stack' = Below
  /\ UNCHANGED <<now, phase, tables, ghosts>>

Next ==
  \/ \E g \in GraphIds, policy \in Policies : Start(g, policy)
  \/ \E id \in Ids : Cancel(id)
  \/ \E id \in Present, ok \in BOOLEAN :
       \E b \in DOMAIN sessions[id].branches : Settle(id, b, ok)
  \/ \E step \in 0 .. MaxNow : Tick(step)
  \/ Dispose \/ Drop
  \/ \E gives \in BOOLEAN : ExecutorReturns(gives)
  \/ ExecutorPanics \/ HookEnds
  \/ BeginCancel \/ Begin \/ CancelById \/ FinishHook \/ FinishEnd
  \/ Evaluate \/ DecidedHook \/ DecidedEnd
  \/ CallProcess \/ Pick \/ OpenStage \/ Dues \/ EvaluateAgain \/ Compare \/ Launch

Spec == Init /\ [][Next]_vars

-----------------------------------------------------------------------------
AtRest == stack = <<>>
Open == phase = "open"

\* Every variable has its type.
TypeOK ==
  /\ now \in 0 .. MaxNow
  /\ phase \in {"open", "disposed", "dropped"} /\ nextId \in 1 .. MaxSessions + 1
  /\ status \in [Ids -> Final \cup {"new", "queued", "running"}]
  /\ Present \subseteq Ids
  /\ \A id \in Present : /\ sessions[id].graph \in GraphIds
                         /\ sessions[id].stage \in 1 .. Len(Stages(sessions[id])) + 1
  /\ byGraph \in [GraphIds -> SUBSET Ids] /\ queued \in [GraphIds -> SUBSET Ids]
  /\ live \subseteq Ids \X Nat \X Nat
  /\ late \subseteq Ids /\ broken \subseteq Ids

\* The tables and the tickets tell one story once the calls have ended: a session
\* runs exactly while its ticket says running and its graph lists it, and one
\* that waits has a running session to wait for.  A session its own hook
\* cancelled is excepted: the borrow makes the cancellation panic half done.
SessionsAgree ==
  /\ TypeOK
  /\ AtRest /\ Open =>
       /\ \A id \in Ids : status[id] = "running" <=> id \in Present \cup broken
       /\ \A g \in GraphIds :
            /\ \A id \in byGraph[g] \ broken : id \in Present /\ sessions[id].graph = g
            /\ Waiting(g) # {} => byGraph[g] # {}
       /\ \A id \in Present : id \in byGraph[sessions[id].graph]
       /\ \A id \in Ids : status[id] = "queued" => \E g \in GraphIds : id \in queued[g]

\* Whatever executors and hooks do, when process is done every session has its
\* stage open, no branch due, and no stage that its settlements decide.  What the
\* executor of a delayed branch starts or advances is excepted: process does
\* not turn again for it.
NothingStalls ==
  AtRest /\ Open => \A id \in Present \ late :
    /\ sessions[id].open /\ ~sessions[id].launching
    /\ Verdict(sessions[id]) = "none"
    /\ DueBranches(sessions[id]) = {}

\* A hook an executor gave is called or released when its branch is over: what
\* is still installed belongs to an unsettled branch of a stage still open.
HooksReleased ==
  AtRest => \A h \in live : /\ IsAt(h[1], h[2])
                            /\ ~sessions[h[1]].branches[h[3]].settled

\* A ticket's status does not change once its session ended, however it ended
\* and whatever the hooks called while it did.
StatusIsFinal ==
  [][\A id \in Ids : status[id] \in Final => status'[id] = status[id]]_status

=============================================================================
