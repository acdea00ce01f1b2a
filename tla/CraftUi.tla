------------------------------- MODULE CraftUi -------------------------------
(***************************************************************************)
(* drivers/rust/src/lib.rs: the callbacks a Ui registers with the native   *)
(* engine, the registry that keeps them alive, the subscription tokens,    *)
(* and the components mounted, rolled back and unmounted around them.      *)
(*                                                                         *)
(* The engine keeps raw pointers to the callbacks, so one it may still     *)
(* call must be in the registry; a running callback is held by its         *)
(* trampoline too (frames).  A callback is registered once and may own the *)
(* token of another's subscription, which its destructor closes.  That     *)
(* destructor panics where the subscriptions are borrowed, and the         *)
(* application may catch the panic (broken).  A callback called while it   *)
(* runs panics at once, in its trampoline, and changes nothing.  Event     *)
(* kinds, the panicked flags and destructors that register callbacks are   *)
(* left out, and every event is emitted through a UiHandle, which leaves   *)
(* the Ui to the callbacks.  D_Fault is D with a plausible fault, and no   *)
(* action uses it.                                                         *)
(***************************************************************************)
EXTENDS Naturals, FiniteSets, Sequences, SequencesExt

CONSTANTS Nodes, Parent,      \* node -> its parent, None for a root
          Callbacks, Owns,    \* callback -> whose token it owns, or None
          Components,         \* the nodes that may be roots of components
          MaxDepth            \* bound: callbacks running inside one another

None == "none"
ASSUME Constants_Assumption ==
  /\ Components \subseteq Nodes /\ None \notin Nodes \cup Callbacks
  /\ Parent \in [Nodes -> Nodes \cup {None}] /\ Owns \in [Callbacks -> Callbacks \cup {None}]
  /\ \A c \in Callbacks : Owns[c] # None => Owns[Owns[c]] = None
  /\ MaxDepth \in Nat

VARIABLES
  up,          \* the Ui was not dropped
  tree, made,  \* nodes of the engine's tree; those ever created
  native,      \* the engine's bindings
  registry,    \* DriverEventState
  tokens,      \* callback -> the EventSubscription of its subscription
  frames,      \* callbacks running, innermost last
  removing,    \* the remove_subtree in progress, a sequence of at most one
  building,    \* the components under construction, innermost last
  component,   \* component -> its state, and whether it has watches and cues
  spent,       \* callbacks registered so far
  broken       \* history: a destructor panicked with the registry borrowed

bindings == <<native, registry, tokens, spent, broken>>
vars == <<up, tree, made, bindings, frames, removing, building, component>>

-----------------------------------------------------------------------------
Slots == {"handler", "default"} \X Nodes   \* the public handler, the default action
NoBindings == [slots |-> [s \in Slots |-> None], subs |-> [c \in Callbacks |-> None]]
NoIndex == [n \in Nodes |-> {}]
States == {"none", "building", "mounted", "unmounted", "failed", "dropped"}

\* collect_subtree: n and what is below it.
Above[n \in Nodes] == {n} \cup (IF Parent[n] = None THEN {} ELSE Above[Parent[n]])
Below(n) == {m \in Nodes : n \in Above[m]}

Bound(b) == {c \in Callbacks : b.subs[c] # None \/ \E s \in Slots : b.slots[s] = c}

\* The Ui is borrowed by the removal or by the closure that builds children, and
\* is that closure's again when the callbacks it caused have returned.
UiFree == up /\ removing = <<>> /\ building = <<>>
ScopeFree == /\ up /\ removing = <<>> /\ building # <<>>
             /\ Len(frames) = Last(building).depth

Init ==
  /\ up = TRUE /\ tree = {} /\ made = {}
  /\ native = NoBindings
  /\ registry = [slots |-> NoBindings.slots, subs |-> NoBindings.subs, index |-> NoIndex]
  /\ tokens = [c \in Callbacks |-> "unused"]
  /\ frames = <<>> /\ removing = <<>> /\ building = <<>>
  /\ component = [k \in Components |-> [state |-> "none", watching |-> FALSE, cues |-> FALSE]]
  /\ spent = {} /\ broken = FALSE

-----------------------------------------------------------------------------
\* Transformations of the bindings.

Current == [native |-> native, registry |-> registry, tokens |-> tokens, broken |-> broken]
Becomes(s) == /\ native' = s.native /\ registry' = s.registry
              /\ tokens' = s.tokens /\ broken' = s.broken

\* The destructor of c closes a token.
Closes(s, c) == Owns[c] # None /\ s.tokens[Owns[c]] = "open"
\* It panics when it finds the subscriptions borrowed; the token is gone.
PanicsIn(s, c) == [s EXCEPT !.tokens[Owns[c]] = "closed", !.broken = TRUE]

Unindexed_Kept(reg, n, c) == reg.index
Unindexed(reg, n, c) == [reg.index EXCEPT ![n] = @ \ {c}]

\* unsubscribe, and close of the token: the engine first, then the registry.
\* The callback is destroyed with the subscriptions borrowed, unless it runs.
Closed(s, c) ==
  LET n == s.registry.subs[c]
      gone == [s EXCEPT !.registry.subs[c] = None, !.native.subs[c] = None]
  IN IF ~up \/ n = None THEN [s EXCEPT !.tokens[c] = "closed"]
     ELSE IF s.native.subs[c] = None THEN s
     ELSE IF Closes(gone, c) /\ c \notin ToSet(frames) THEN PanicsIn(gone, c)
     ELSE [gone EXCEPT !.registry.index = Unindexed(s.registry, n, c), !.tokens[c] = "closed"]

\* The last reference to c goes, with the subscriptions not borrowed.
Destroyed(s, c) ==
  IF c \in Callbacks /\ Closes(s, c) THEN [Closed(s, Owns[c]) EXCEPT !.tokens[Owns[c]] = "closed"]
  ELSE s

\* The registry without some slots, subscriptions and nodes of the index.
Without(reg, slots, subs, nodes) ==
  [slots |-> [s \in Slots |-> IF s \in slots THEN None ELSE reg.slots[s]],
   subs |-> [c \in Callbacks |-> IF c \in subs THEN None ELSE reg.subs[c]],
   index |-> [n \in Nodes |-> IF n \in nodes THEN {} ELSE reg.index[n]]]

SlotsOf(nodes) == {"handler", "default"} \X nodes
SubsOf(reg, nodes) == UNION {reg.index[n] : n \in nodes}

Dropping(s, slots, subs, nodes) == [s EXCEPT !.registry = Without(s.registry, slots, subs, nodes)]

\* The callbacks whose destructor would panic.
Stops(s) == {c \in Bound(s.registry) : c \notin ToSet(frames) /\ Closes(s, c)}
Held(reg, n) == {reg.slots[r] : r \in SlotsOf({n})} \cup reg.index[n]

\* release_nodes when it stops at n, the nodes in done released before: at the
\* public handler, the default action or, after some others, a subscription.
StoppedAt(s, n, done) ==
  LET handler == s.registry.slots[<<"handler", n>>]
      default == s.registry.slots[<<"default", n>>]
      subs == SubsOf(s.registry, done)
      all == SlotsOf(done \cup {n})
      stops == Stops(s)
  IN IF handler \in stops
     THEN {PanicsIn(Dropping(s, SlotsOf(done) \cup {<<"handler", n>>}, subs, done), handler)}
     ELSE IF default \in stops THEN {PanicsIn(Dropping(s, all, subs, done), default)}
     ELSE UNION {{PanicsIn(Dropping(s, all, subs \cup some \cup {c}, done \cup {n}), c) :
                    some \in SUBSET (s.registry.index[n] \ stops)} :
                 c \in s.registry.index[n] \cap stops}

\* release_nodes, in any order of the nodes.
Released(s, nodes) ==
  LET trouble == {n \in nodes : Held(s.registry, n) \cap Stops(s) # {}}
  IN IF trouble = {} THEN {Dropping(s, SlotsOf(nodes), SubsOf(s.registry, nodes), nodes)}
     ELSE UNION {UNION {StoppedAt(s, n, done) : done \in SUBSET (nodes \ trouble)} : n \in trouble}

-----------------------------------------------------------------------------
\* Callbacks.

\* A closure that owns a token is made from an open one.
Fresh(c) == c \notin spent /\ (Owns[c] # None => tokens[Owns[c]] = "open")
\* The application can close a token it owns, or the callback that owns it can.
MayClose(c) == \A o \in Bound(registry) \cup ToSet(frames) : Owns[o] = c => o \in ToSet(frames)

\* A slot gets a callback, or none; the one it had goes.
Put(s, slot, c) == [s EXCEPT !.native.slots[slot] = c, !.registry.slots[slot] = c]
Replaced(slot, c) ==
  LET old == registry.slots[slot]
  IN IF old \in ToSet(frames) THEN Put(Current, slot, c) ELSE Destroyed(Put(Current, slot, c), old)

\* on, on_view and set_default_action, of the Ui, a scope or a UiHandle: the
\* engine has the new callback before the registry drops the old one.
SetHandler(slot, c) ==
  /\ up /\ slot[2] \in tree /\ Fresh(c)
  /\ spent' = spent \cup {c}
  /\ Becomes(Replaced(slot, c))
  /\ UNCHANGED <<up, tree, made, frames, removing, building, component>>

ClearHandler(n) ==
  /\ UiFree /\ n \in tree /\ registry.slots[<<"handler", n>>] # None
  /\ Becomes(Replaced(<<"handler", n>>, None))
  /\ UNCHANGED <<up, tree, made, frames, removing, building, component, spent>>

Subscribe(n, c) ==
  /\ UiFree /\ n \in tree /\ Fresh(c)
  /\ spent' = spent \cup {c}
  /\ native' = [native EXCEPT !.subs[c] = n]
  /\ registry' = [registry EXCEPT !.subs[c] = n, !.index[n] = @ \cup {c}]
  /\ tokens' = [tokens EXCEPT ![c] = "open"]
  /\ UNCHANGED <<up, tree, made, frames, removing, building, component, broken>>

\* close, or the drop of the token.
Close(c) ==
  /\ tokens[c] = "open" /\ MayClose(c)
  /\ Becomes(Closed(Current, c))
  /\ UNCHANGED <<up, tree, made, frames, removing, building, component, spent>>

\* The engine has c, and it does not run: it is borrowed while it runs.
Callable(c) == c \in Bound(native) \ ToSet(frames)

\* The engine calls a callback: an event was emitted, or the node being removed
\* loses the focus or its animations.
Call(c) ==
  /\ up /\ Len(frames) < MaxDepth /\ Callable(c)
  /\ frames' = Append(frames, c)
  /\ UNCHANGED <<up, tree, made, bindings, removing, building, component>>

\* The callback returns, or panics in its trampoline, which drops its reference.
Return ==
  /\ frames # <<>>
  /\ removing # <<>> => Len(frames) > removing[1].depth
  /\ removing = <<>> /\ building # <<>> => Len(frames) > Last(building).depth
  /\ frames' = Front(frames)
  /\ LET c == Last(frames)
     IN Becomes(IF c \in Bound(registry) THEN Current ELSE Destroyed(Current, c))
  /\ UNCHANGED <<up, tree, made, removing, building, component, spent>>

-----------------------------------------------------------------------------
\* Nodes and components.

\* A scope creates below the component it belongs to.
Created(n) ==
  /\ n \notin made
  /\ Parent[n] # None => Parent[n] \in tree
  /\ building # <<>> => Parent[n] \in Below(Last(building).component)
  /\ tree' = tree \cup {n} /\ made' = made \cup {n}

AddNode(n) ==
  /\ UiFree \/ ScopeFree
  /\ Created(n)
  /\ UNCHANGED <<up, bindings, frames, removing, building, component>>

\* add_component, up to the call of the children closure.
Mount(k) ==
  /\ UiFree \/ ScopeFree
  /\ Created(k)
  /\ building' = Append(building, [component |-> k, depth |-> Len(frames)])
  /\ component' = [component EXCEPT ![k].state = "building"]
  /\ UNCHANGED <<up, bindings, frames, removing>>

\* The closure returns Ok.
MountOk ==
  /\ ScopeFree
  /\ building' = Front(building)
  /\ component' = [component EXCEPT ![Last(building).component].state = "mounted"]
  /\ UNCHANGED <<up, tree, made, bindings, frames, removing>>

Rollback_Leaves(n) == <<>>
\* What remove_subtree is asked to remove, and for which component.
Rollback(n) == <<[root |-> n, unmounts |-> None, depth |-> Len(frames)]>>

\* It returns Err or panics.
MountFails ==
  /\ ScopeFree
  /\ building' = Front(building)
  /\ LET k == Last(building).component
     IN /\ removing' = Rollback(k)
        /\ component' = [component EXCEPT ![k].state = "failed"]
  /\ UNCHANGED <<up, tree, made, bindings, frames>>

\* The engine tells the callbacks of the subtree first; the registry keeps them
\* until the engine has forgotten them.
KeptMeanwhile_Released(n) ==
  Without(registry, SlotsOf(Below(n)), SubsOf(registry, Below(n)), Below(n))
KeptMeanwhile(n) == registry

RemoveSubtree(n) ==
  /\ UiFree /\ n \in tree
  /\ registry' = KeptMeanwhile(n)
  /\ removing' = <<[root |-> n, unmounts |-> None, depth |-> Len(frames)]>>
  /\ UNCHANGED <<up, tree, made, native, tokens, spent, broken, frames, building, component>>

Unmount(k) ==
  /\ UiFree /\ component[k].state = "mounted" /\ k \in tree
  /\ removing' = <<[root |-> k, unmounts |-> k, depth |-> Len(frames)]>>
  /\ UNCHANGED <<up, tree, made, bindings, frames, building, component>>

Closing(k) == [state |-> "unmounted", watching |-> FALSE, cues |-> FALSE]

\* What the engine has once it dropped the nodes.
Remaining(nodes) ==
  [slots |-> [s \in Slots |-> IF s[2] \in nodes THEN None ELSE native.slots[s]],
   subs |-> [c \in Callbacks |-> IF native.subs[c] \in nodes THEN None ELSE native.subs[c]]]
Forgotten(nodes) == [Current EXCEPT !.native = Remaining(nodes), !.broken = FALSE]

\* The engine drops the subtree and its bindings, the registry what it kept for
\* them; a panic there ends unmount early.
FinishRemoval ==
  /\ removing # <<>> /\ Len(frames) = removing[1].depth
  /\ LET nodes == Below(removing[1].root)
     IN \E s \in Released(Forgotten(nodes), nodes) :
          /\ Becomes([s EXCEPT !.broken = @ \/ broken])
          /\ component' = IF s.broken \/ removing[1].unmounts = None THEN component
                          ELSE [component EXCEPT ![removing[1].unmounts] = Closing(removing[1].unmounts)]
          /\ tree' = tree \ nodes
  /\ removing' = <<>>
  /\ UNCHANGED <<up, made, frames, building, spent>>

\* watch and cue_runtime, of the application that holds the component.
Watch(k) ==
  /\ component[k].state = "mounted"
  /\ component' = [component EXCEPT ![k].watching = TRUE]
  /\ UNCHANGED <<up, tree, made, bindings, frames, removing, building>>

OpenCues(k) ==
  /\ component[k].state = "mounted"
  /\ component' = [component EXCEPT ![k].cues = TRUE]
  /\ UNCHANGED <<up, tree, made, bindings, frames, removing, building>>

\* The component is dropped: its nodes stay.
DropComponent(k) ==
  /\ component[k].state \in {"mounted", "unmounted"}
  /\ \A i \in DOMAIN removing : removing[i].unmounts # k
  /\ component' = [component EXCEPT ![k] = [state |-> "dropped", watching |-> FALSE, cues |-> FALSE]]
  /\ UNCHANGED <<up, tree, made, bindings, frames, removing, building>>

\* reset and the drop of the Ui, outside every callback.  The handlers go first and
\* find the engine empty; a subscription that closes another panics in reset.
EngineEmpty(owned) ==
  [Current EXCEPT !.native = NoBindings,
     !.tokens = [c \in Callbacks |-> IF c \in owned /\ @[c] = "open" THEN "closed" ELSE @[c]]]
Emptied(s) == Dropping(s, Slots, Callbacks, Nodes)

Reset ==
  /\ UiFree /\ frames = <<>> /\ tree # {}
  /\ LET owned == {Owns[registry.slots[r]] : r \in {x \in Slots : registry.slots[x] # None}}
         cleared == EngineEmpty(owned)
         stops == {c \in Callbacks : cleared.registry.subs[c] # None /\ Closes(cleared, c)}
     IN IF stops = {} THEN Becomes(Emptied(cleared))
        ELSE \E c \in stops :
               Becomes(PanicsIn(Dropping(cleared, Slots, Callbacks, {}), c))
  /\ tree' = {}
  /\ UNCHANGED <<up, made, frames, removing, building, component, spent>>

DropUi ==
  /\ UiFree /\ frames = <<>>
  /\ up' = FALSE /\ tree' = {}
  /\ Becomes(Emptied(EngineEmpty({Owns[c] : c \in Bound(registry)})))
  /\ UNCHANGED <<made, frames, removing, building, component, spent>>

Next ==
  \/ \E c \in Callbacks : \/ \E slot \in Slots : SetHandler(slot, c)
                          \/ \E n \in Nodes : Subscribe(n, c)
                          \/ Close(c) \/ Call(c)
  \/ Return
  \/ \E n \in Nodes : ClearHandler(n) \/ AddNode(n) \/ RemoveSubtree(n)
  \/ \E k \in Components : Mount(k) \/ Unmount(k) \/ Watch(k) \/ OpenCues(k) \/ DropComponent(k)
  \/ MountOk \/ MountFails \/ FinishRemoval \/ Reset \/ DropUi

Spec == Init /\ [][Next]_vars

-----------------------------------------------------------------------------
\* Every variable has its type.
TypeOK ==
  /\ up \in BOOLEAN /\ tree \subseteq made /\ made \subseteq Nodes
  /\ native \in [slots : [Slots -> Callbacks \cup {None}], subs : [Callbacks -> Nodes \cup {None}]]
  /\ registry \in [slots : [Slots -> Callbacks \cup {None}],
                   subs : [Callbacks -> Nodes \cup {None}], index : [Nodes -> SUBSET Callbacks]]
  /\ tokens \in [Callbacks -> {"unused", "open", "closed"}]
  /\ frames \in Seq(Callbacks) /\ IsInjective(frames) /\ Len(removing) <= 1
  /\ component \in [Components -> [state : States, watching : BOOLEAN, cues : BOOLEAN]]
  /\ spent \subseteq Callbacks /\ broken \in BOOLEAN

\* The engine holds no pointer to a callback the Driver freed: "releases the
\* Driver-owned callback holders after native blur and motion-cancellation delivery
\* completes" (drivers/rust/README.md:349), also when callbacks replace, close
\* or remove each other, and when a destructor panics half-way.
NothingDangles == Bound(native) \subseteq Bound(registry)

\* Unless a destructor panicked, the registry says what the engine has: the same
\* callbacks at the same places, only on nodes of the tree, an index by node that
\* misses none, and a live token for each subscription.
RegistryAgrees ==
  /\ TypeOK
  /\ ~broken =>
       /\ registry.slots = native.slots /\ registry.subs = native.subs
       /\ \A s \in Slots : registry.slots[s] # None => s[2] \in tree
       /\ \A n \in Nodes : registry.index[n] = {c \in Callbacks : registry.subs[c] = n}
       /\ \A c \in Callbacks :
            registry.subs[c] # None => registry.subs[c] \in tree /\ tokens[c] = "open"

\* "rolls the whole subtree back on either Err or panic" (drivers/rust/README.md:40):
\* of a component whose construction failed no node is left, whatever was mounted
\* inside it or ran meanwhile; an unmounted one has no node, watch or cue runtime.
TeardownCompletes ==
  \A k \in Components :
    /\ component[k].state = "failed" /\ removing = <<>> => Below(k) \cap tree = {}
    /\ component[k].state = "unmounted" =>
         Below(k) \cap tree = {} /\ ~component[k].watching /\ ~component[k].cues

=============================================================================
