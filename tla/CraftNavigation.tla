--------------------------- MODULE CraftNavigation ---------------------------
(***************************************************************************)
(* NavigationScreenHost of drivers/rust/src/navigation_ui.rs, with the     *)
(* Navigator it follows and the part of the UI it drives: which screen     *)
(* roots are inert, hidden or removed, and where the focus is.             *)
(*                                                                         *)
(* sync is the one operation in the middle of which application code runs: *)
(* the Cancelled hook of the transition it settles (the host is not        *)
(* borrowed then), and the blur and focus handlers of the focus it moves   *)
(* (the host is borrowed, and its own listener panics when they navigate). *)
(* phase holds where a sync is.  A hook or handler navigates or does       *)
(* nothing; a hook that calls the host itself is not modelled.             *)
(*                                                                         *)
(* A screen has two controls: <<root, 1>> is the fallback and the first    *)
(* focusable one, <<root, 2>> is the one the user moves the focus to.      *)
(* D_Fault is D with a plausible fault, and no action uses it.             *)
(***************************************************************************)
EXTENDS NavigationHistory, SequencesExt, FiniteSets

CONSTANTS Screens,      \* destinations the application has registered a screen for
          MaxRoots,     \* bound: screen roots built, the registered ones included
          MaxEntries,   \* bound: history entries made
          MaxTrouble,   \* bound: disturbances, the actions that end in Disturb
          Redirects     \* TRUE when a listener may redirect a navigation

ASSUME Navigation_Assumption ==
  /\ Screens \in Nat \ {0} /\ MaxRoots \in Nat /\ Screens < MaxRoots
  /\ MaxEntries \in Nat
  /\ MaxTrouble \in Nat /\ Redirects \in BOOLEAN

Destinations == 1 .. Screens
Home == 1               \* the initial destination
Roots == 1 .. MaxRoots

VARIABLES
  history,
  screens,      \* registered: [destination, root, fallback, active], in order
  index, entry, \* active_index, active_entry_id; 0 when there is none
  pending,      \* pending_change, _entry, _snapshot and _kind
  saved,        \* saved_focus: entry id -> control
  spec,         \* a transition is configured
  transition,   \* active_transition
  phase,        \* of a sync
  connected,
  made, inert, hidden, gone, lost, focus,   \* the UI: roots built, and so on
  missed,       \* the host was not told of the last navigation
  hooks,        \* what the transition hook was last told
  trouble       \* disturbances so far (bound)

host == <<screens, index, entry, pending, saved, spec, transition, connected>>
ui == <<made, inert, hidden, gone, lost, focus>>
vars == <<history, host, phase, ui, missed, hooks, trouble>>

Disturb == trouble < MaxTrouble /\ trouble' = trouble + 1
Calm == UNCHANGED trouble

None == <<0, 0>>
NoTransition == [out |-> 0, in |-> 0]
Active == transition # NoTransition
Idle == [at |-> "idle"]
IsIdle == phase.at = "idle"

Controls == Roots \X {1, 2}
Focusable(c) == c[1] \notin gone \cup inert /\ c \notin lost

IndexOf(d) ==
  LET found == {i \in DOMAIN screens : screens[i].destination = d}
  IN IF found = {} THEN 0 ELSE CHOOSE i \in found : \A j \in found : i <= j

\* A registered screen: inert and hidden.
Screen(d, root) == [destination |-> d, root |-> root, fallback |-> <<root, 1>>, active |-> FALSE]

\* The application has built and removed one more root, and still has its handle.
Init ==
  /\ history = InitialHistory(Home)
  /\ screens = [d \in Destinations |-> Screen(d, d)] /\ index = 0 /\ entry = 0
  /\ pending = [change |-> TRUE, entry |-> Entry(1, Home), ids |-> {1}, kind |-> "none"]
  /\ saved = <<>> /\ spec = TRUE /\ transition = NoTransition
  /\ phase = Idle /\ connected = TRUE
  /\ made = Screens + 1 /\ inert = Destinations /\ hidden = Destinations
  /\ gone = {made} /\ lost = {} /\ focus = None
  /\ missed = FALSE /\ hooks = "none" /\ trouble = 0

-----------------------------------------------------------------------------
\* set_screen_active(i, active): the flag tells whether there is work to do,
\* and a root the application removed is an error.
CanSetActive(i, active) == screens[i].active = active \/ screens[i].root \notin gone

SetActive(i, active) ==
  IF screens[i].active = active THEN UNCHANGED <<screens, inert, hidden>>
  ELSE LET root == {screens[i].root}
       IN /\ screens' = [screens EXCEPT ![i].active = active]
          /\ inert' = IF active THEN inert \ root ELSE inert \cup root
          /\ hidden' = IF active THEN hidden \ root ELSE hidden \cup root

\* The focus an inert or removed subtree held is dropped.
Blurred(roots) == IF focus # None /\ focus[1] \in roots THEN None ELSE focus

\* The transition ends before its hook is told, and the hook is not told when
\* the outgoing screen cannot be hidden.
Settles == CanSetActive(transition.out, FALSE)

Settle_KeepsOutgoing ==    \* the outgoing screen stays as it is
  /\ transition' = NoTransition
  /\ hooks' = IF spec THEN "none" ELSE hooks
  /\ UNCHANGED <<screens, inert, hidden>>

Settle ==
  /\ transition' = NoTransition
  /\ IF Settles
     THEN SetActive(transition.out, FALSE) /\ hooks' = IF spec THEN "none" ELSE hooks
     ELSE UNCHANGED <<screens, inert, hidden>> /\ hooks' = "lost"

-----------------------------------------------------------------------------
\* Navigation, and the listener that queues it on the host.
Told(h, kind) ==
  [change |-> TRUE, entry |-> CurrentEntry(h), ids |-> EntryIds(h), kind |-> kind]

MayNavigate(kind) ==
  /\ phase.at # "moving"
  /\ Possible(history, kind)
  /\ kind \in {"push", "replace"} => history.next <= MaxEntries

Navigate(kind, d) ==
  /\ MayNavigate(kind)
  /\ kind \in {"back", "forward"} => d = Home
  /\ history' = Step(history, kind, d)
  /\ IF connected /\ phase.at # "focus"
     THEN pending' = Told(Step(history, kind, d), kind) /\ missed' = FALSE
     ELSE missed' = TRUE /\ UNCHANGED pending
  /\ UNCHANGED <<screens, index, entry, saved, spec, transition, connected, phase, ui,
                 hooks>>
  /\ Calm

\* A listener older than the host's answers a push with a replace: the host
\* is told of the replace first, and of the push last.
Redirect(d, to) ==
  /\ Redirects /\ connected /\ IsIdle
  /\ history.next < MaxEntries
  /\ LET pushed == Push(history, d)
     IN /\ history' = Replace(pushed, to)
        /\ pending' = Told(pushed, "push")
  /\ missed' = TRUE
  /\ UNCHANGED <<screens, index, entry, saved, spec, transition, connected, phase, ui,
                 hooks>>
  /\ Disturb

QueueCurrent ==
  /\ phase.at \in {"idle", "hook"}
  /\ pending' = Told(history, "none")
  /\ missed' = FALSE
  /\ UNCHANGED <<history, screens, index, entry, saved, spec, transition, connected,
                 phase, ui, hooks>>
  /\ Disturb

Disconnect ==
  /\ IsIdle /\ connected
  /\ connected' = FALSE
  /\ UNCHANGED <<history, screens, index, entry, pending, saved, spec, transition,
                 phase, ui, missed, hooks>>
  /\ Disturb

-----------------------------------------------------------------------------
\* Screens.
\* The application builds a root for it, or passes one it has removed: that
\* one is registered all the same, and reported as an error.
Built == 1 .. made
Registered == {screens[i].root : i \in DOMAIN screens}
Fresh == made + 1

Register(d, root) ==
  /\ IsIdle /\ IndexOf(d) = 0 /\ root \notin Registered
  /\ IF root \in gone
     THEN /\ screens' = Append(screens, [Screen(d, root) EXCEPT !.fallback = None,
                                                               !.active = TRUE])
          /\ UNCHANGED <<made, inert, hidden>>
     ELSE /\ root = Fresh /\ made' = root
          /\ screens' = Append(screens, Screen(d, root))
          /\ inert' = inert \cup {root} /\ hidden' = hidden \cup {root}
  /\ UNCHANGED <<history, index, entry, pending, saved, spec, transition, connected,
                 phase, gone, lost, focus, missed, hooks>>
  /\ Calm

\* unregister_screen, after cancel_transition: the root leaves the UI, unless
\* the application has removed it already, and then nothing is queued.
Unregister(d) ==
  LET i == IndexOf(d)
      root == screens[i].root
  IN /\ IsIdle /\ i # 0 /\ ~Active
     /\ screens' = RemoveAt(screens, i)
     /\ index' = CASE index = i -> 0 [] i < index -> index - 1 [] OTHER -> index
     /\ entry' = IF index = i THEN 0 ELSE entry
     /\ IF index = i /\ root \notin gone
        THEN pending' = Told(history, "none") /\ missed' = FALSE
        ELSE UNCHANGED pending /\ missed' = (missed \/ index = i)
     /\ gone' = gone \cup {root}
     /\ focus' = Blurred({root})
     /\ UNCHANGED <<history, saved, spec, transition, connected, phase, made, inert,
                    hidden, lost, hooks>>
     /\ Disturb

\* restore_focus, with the records and the inert roots there are by then.
RestoreFocus(records, off, e, screen) ==
  LET usable(c) == c # None /\ c[1] \notin gone \cup off /\ c \notin lost
      kept == e \in DOMAIN records /\ records[e][1] = screen.root
  IN IF kept /\ usable(records[e]) THEN records[e]
     ELSE IF usable(screen.fallback) THEN screen.fallback
     ELSE IF usable(<<screen.root, 1>>) THEN <<screen.root, 1>> ELSE None

\* replace_screen, after cancel_transition.  The new root takes the place of
\* the old one before that leaves the UI; either may have been removed by the
\* application, which is an error after the fact.
ReplaceScreen(d, root) ==
  LET i == IndexOf(d)
      old == screens[i].root
      shown == index = i
      new == [Screen(d, root) EXCEPT !.active = shown]
      off == IF shown THEN inert ELSE inert \cup {root}
  IN /\ IsIdle /\ i # 0 /\ ~Active /\ root \notin Registered
     /\ IF root \in gone
        THEN /\ screens' = [screens EXCEPT ![i] = [new EXCEPT !.active = ~shown]]
             /\ UNCHANGED <<made, inert, hidden, gone, focus, saved>>
        ELSE /\ root = Fresh /\ made' = root
             /\ screens' = [screens EXCEPT ![i] = new]
             /\ inert' = off
             /\ hidden' = IF shown THEN hidden ELSE hidden \cup {root}
             /\ gone' = gone \cup {old}
             /\ saved' = IF shown /\ old \notin gone
                         THEN [e \in DOMAIN saved \ {entry} |-> saved[e]] ELSE saved
             /\ focus' = IF shown /\ old \notin gone
                         THEN RestoreFocus(saved', off, entry, new) ELSE Blurred({old})
     /\ UNCHANGED <<history, index, entry, pending, spec, transition, connected, phase,
                    lost, missed, hooks>>
     /\ Disturb

-----------------------------------------------------------------------------
\* Transitions.  cancel_transition is also the first call of sync,
\* unregister_screen and replace_screen: those are enabled without a
\* transition only, so that a cancellation comes before them.
SetTransition_Always(on) ==     \* not refused during a transition
  /\ IsIdle /\ spec # on
  /\ spec' = on
  /\ UNCHANGED <<history, screens, index, entry, pending, saved, transition, connected,
                 phase, ui, missed, hooks>>
  /\ Disturb

SetTransition(on) ==
  /\ IsIdle /\ ~Active /\ spec # on
  /\ spec' = on
  /\ UNCHANGED <<history, screens, index, entry, pending, saved, transition, connected,
                 phase, ui, missed, hooks>>
  /\ Disturb

CancelTransition ==
  /\ IsIdle /\ Active
  /\ Settle
  /\ UNCHANGED <<history, index, entry, pending, saved, spec, connected, phase, made, gone,
                 lost, focus, missed>>
  /\ Calm

\* advance_transition when the duration has passed, which may be at any time;
\* before, it tells the hook of the progress and sets the next deadline.
Advance ==
  /\ IsIdle /\ Active /\ spec
  /\ Settle
  /\ UNCHANGED <<history, index, entry, pending, saved, spec, connected, phase, made, gone,
                 lost, focus, missed>>
  /\ Calm

-----------------------------------------------------------------------------
\* sync and sync_at(timed), up to the moment the focus moves.
\* finish_pending.  The entry is not read any more before it is set again.
Finished == [change |-> FALSE, entry |-> Entry(0, Home), ids |-> {}, kind |-> "none"]

\* The records of the focus after the entry is left.
SavedOnLeaving_Forgets ==    \* the guard on the kind is missing
  [e \in (DOMAIN saved \cap pending.ids) \ {entry} |-> saved[e]]

SavedOnLeaving ==
  LET left == IF index # 0 /\ focus # None /\ focus[1] = screens[index].root
              THEN [e \in DOMAIN saved \cup {entry} |-> IF e = entry THEN focus ELSE saved[e]]
              ELSE saved
      kept == IF pending.kind = "replace" THEN DOMAIN left \ {entry}
              ELSE DOMAIN left \cap pending.ids
  IN [e \in kept |-> left[e]]

\* A screen that cannot be shown leaves the records changed and the change
\* queued.
Activate(i, timed) ==
  /\ saved' = SavedOnLeaving
  /\ IF index # i /\ ~CanSetActive(i, TRUE)
     THEN /\ phase' = Idle
          /\ UNCHANGED <<screens, inert, hidden, index, entry, pending>>
     ELSE /\ IF index # i THEN SetActive(i, TRUE)
                          ELSE UNCHANGED <<screens, inert, hidden>>
          /\ index' = i /\ entry' = pending.entry.id /\ pending' = Finished
          /\ phase' = [at |-> "moving", timed |-> timed, from |-> index,
                       left |-> entry, kind |-> pending.kind]

Apply_DropsUnknown(timed) ==   \* a change without a screen is not kept
  LET i == IndexOf(pending.entry.destination)
  IN /\ IF i = 0 \/ entry = pending.entry.id
        THEN /\ phase' = Idle /\ pending' = Finished
             /\ UNCHANGED <<screens, inert, hidden, index, entry, saved>>
        ELSE Activate(i, timed)
     /\ UNCHANGED <<history, spec, transition, connected, made, gone, lost, focus, missed,
                    hooks>>

Apply(timed) ==
  LET i == IndexOf(pending.entry.destination)
  IN /\ CASE i = 0 ->
              phase' = Idle /\ UNCHANGED <<screens, inert, hidden, index, entry, pending, saved>>
         [] i # 0 /\ entry = pending.entry.id ->
              /\ phase' = Idle /\ pending' = Finished
              /\ UNCHANGED <<screens, inert, hidden, index, entry, saved>>
         [] OTHER -> Activate(i, timed)
     /\ UNCHANGED <<history, spec, transition, connected, made, gone, lost, focus, missed,
                    hooks>>

Sync(timed) == IsIdle /\ pending.change /\ ~Active /\ Apply(timed) /\ Calm

\* The transition under way is cancelled, and its hook may navigate.
SyncCancels(timed) ==
  /\ IsIdle /\ pending.change /\ Active
  /\ Settle
  /\ phase' = IF Settles THEN [at |-> "hook", timed |-> timed] ELSE Idle
  /\ UNCHANGED <<history, index, entry, pending, saved, spec, connected, made, gone,
                 lost, focus, missed>>
  /\ Calm

HookReturns == phase.at = "hook" /\ Apply(phase.timed) /\ Calm

\* The focus moves to the new screen, unless it is the first one.
MoveFocus ==
  /\ phase.at = "moving"
  /\ phase' = [phase EXCEPT !.at = "focus"]
  /\ IF phase.left = 0 THEN UNCHANGED <<focus, saved>>
     ELSE /\ saved' = [e \in {x \in DOMAIN saved :
                              x = entry => saved[x][1] = screens[index].root
                                           /\ Focusable(saved[x])} |-> saved[e]]
          /\ focus' = RestoreFocus(saved', inert, entry, screens[index])
  /\ UNCHANGED <<history, screens, index, entry, pending, spec, transition, connected,
                 made, inert, hidden, gone, lost, missed, hooks>>
  /\ Calm

\* The handlers returned: the screen that was left becomes inert in a
\* transition, or hidden at once.
Leave ==
  LET from == phase.from
      root == screens[from].root
      moves == /\ phase.timed /\ spec /\ phase.kind # "none" /\ phase.left # 0
  IN /\ phase.at = "focus"
     /\ phase' = Idle
     /\ IF from \in {0, index}
        THEN UNCHANGED <<screens, inert, hidden, transition, focus, hooks>>
        ELSE IF moves
        THEN /\ UNCHANGED <<screens, hidden>>
             /\ IF root \in gone
                THEN UNCHANGED <<inert, transition, focus, hooks>>
                ELSE /\ inert' = inert \cup {root}
                     /\ focus' = Blurred({root})
                     /\ transition' = [out |-> from, in |-> index]
                     /\ hooks' = "started"
        ELSE /\ IF CanSetActive(from, FALSE) THEN SetActive(from, FALSE)
                ELSE UNCHANGED <<screens, inert, hidden>>
             /\ focus' = Blurred({root})
             /\ UNCHANGED <<transition, hooks>>
     /\ UNCHANGED <<history, index, entry, pending, saved, spec, connected, made, gone,
                    lost, missed>>
     /\ Calm

-----------------------------------------------------------------------------
\* What the user and the application do with the UI itself.
TakeFocus(c) ==
  /\ IsIdle /\ c[1] \in Registered /\ Focusable(c) /\ c[1] \notin hidden
  /\ focus # c
  /\ focus' = c
  /\ UNCHANGED <<history, host, phase, made, inert, hidden, gone, lost, missed, hooks>>
  /\ Calm

RemoveControl(c) ==
  /\ IsIdle /\ c[1] \in Built \ gone /\ c[2] = 2 /\ c \notin lost
  /\ lost' = lost \cup {c}
  /\ focus' = IF focus = c THEN None ELSE focus
  /\ UNCHANGED <<history, host, phase, made, inert, hidden, gone, missed, hooks>>
  /\ Disturb

\* A screen root removed behind the back of the host.
RemoveRoot(root) ==
  /\ IsIdle /\ root \in Built \ gone
  /\ gone' = gone \cup {root}
  /\ focus' = Blurred({root})
  /\ UNCHANGED <<history, host, phase, made, inert, hidden, lost, missed, hooks>>
  /\ Disturb

Next ==
  \/ \E d \in Destinations :
       \/ \E kind \in Kinds : Navigate(kind, d)
       \/ \E to \in Destinations : Redirect(d, to)
       \/ \E root \in Roots :
            Register(d, root) \/ ReplaceScreen(d, root)
       \/ Unregister(d)
  \/ QueueCurrent \/ Disconnect
  \/ \E on \in BOOLEAN : SetTransition(on)
  \/ CancelTransition \/ Advance
  \/ \E timed \in BOOLEAN : Sync(timed) \/ SyncCancels(timed)
  \/ HookReturns \/ MoveFocus \/ Leave
  \/ \E root \in Roots : TakeFocus(<<root, 2>>) \/ RemoveControl(<<root, 2>>)
  \/ \E root \in Roots : RemoveRoot(root)

Spec == Init /\ [][Next]_vars

-----------------------------------------------------------------------------
TypeOK ==
  /\ index \in 0 .. Len(screens) /\ entry \in Nat
  /\ \A s \in ToSet(screens) : /\ s.destination \in Destinations /\ s.root \in Roots
                                /\ s.fallback \in Controls \cup {None}
                                /\ s.active \in BOOLEAN
  /\ {spec, connected, missed, pending.change} \subseteq BOOLEAN
  /\ {transition.out, transition.in} \subseteq 0 .. Len(screens)
  /\ focus \in Controls \cup {None} /\ ToSet(<<inert, hidden, gone>>) \subseteq SUBSET Roots
  /\ \A e \in DOMAIN saved : saved[e] \in Controls
  /\ hooks \in {"none", "started", "lost"}

\* The history always has a current entry, and no two entries, truncated or
\* replaced in any order, share the identity the focus records go by.
HistoryIsSound == TypeOK /\ HistoryOK(history)

\* A host with nothing queued shows the current entry of its navigator,
\* however navigations, hooks, syncs and changes of screens interleave,
\* unless it was not told: it was disconnected, a listener redirected, a
\* focus handler navigated, or the root to remove was already gone.
HostFollows ==
  (IsIdle /\ ~pending.change /\ ~missed) => entry = CurrentEntry(history).id

\* Between two calls, of the registered screens that still exist the active
\* one is shown and takes input, the outgoing one of a transition is shown
\* and inert, and every other one is hidden and inert.
OnlyActiveShown ==
  IsIdle => \A i \in DOMAIN screens :
    LET root == screens[i].root IN
    root \notin gone =>
      /\ root \notin hidden <=> i = index \/ (Active /\ i = transition.out)
      /\ root \notin inert <=> i = index

\* The hook of a transition hears one end for every start, whatever ends the
\* transition, unless the outgoing screen was removed behind the host's back.
HooksPaired == Active <=> hooks = "started"

\* Leaving a screen keeps the focus it had for the entry that was left, as
\* long as the entry stays in the history; the Replace that leaves an entry
\* removes it from the history.
Leaving == /\ entry # 0 /\ entry' \notin {0, entry}
           /\ focus # None /\ focus[1] = screens[index].root
Stays == entry \in pending.ids
LeavingKeepsFocus == [][Leaving /\ Stays /\ pending.kind # "replace" => 
                          entry \in DOMAIN saved' /\ saved'[entry] = focus]_vars

\* The focus saved for an entry is restored when the host returns to it: so
\* every entry left and still in the history has its record.
EveryEntryKeepsFocus == [][Leaving /\ Stays => entry \in DOMAIN saved']_vars
=============================================================================
