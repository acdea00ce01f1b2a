---------------------------- MODULE CraftUi_proofs ----------------------------
(***************************************************************************)
(* For any tree of nodes, any callbacks and tokens, and any nesting: the   *)
(* engine never holds a pointer to a callback the Driver freed, registry   *)
(* and engine agree until a destructor panics, and nothing of a failed or  *)
(* an unmounted component is left.                                         *)
(*                                                                         *)
(* NothingDangles is not inductive: it does not say where a callback is    *)
(* kept.  Good says that the registry keeps each callback at the place     *)
(* where the engine has it, and that the index by node, from which         *)
(* release_nodes takes the subscriptions of the nodes it releases, names   *)
(* none of another node, however stale a panic left it.  The second part   *)
(* needs that a callback is registered once (spent).                       *)
(*                                                                         *)
(* The agreement rests on Good as well: the callback Subscribe adds is in  *)
(* no index yet.  Teardown rests on the shape of the tree alone: a node is *)
(* made once, below a parent that is in the tree, so nothing comes back    *)
(* below a root that is gone.                                              *)
(***************************************************************************)
EXTENDS CraftUi, TLAPS

TokenStates == {"unused", "open", "closed"}
NativeType == [slots : [Slots -> Callbacks \cup {None}], subs : [Callbacks -> Nodes \cup {None}]]
RegistryType == [slots : [Slots -> Callbacks \cup {None}],
                 subs : [Callbacks -> Nodes \cup {None}], index : [Nodes -> SUBSET Callbacks]]
Bindings == [native : NativeType, registry : RegistryType,
             tokens : [Callbacks -> TokenStates], broken : BOOLEAN]

\* The registry keeps what the engine has, where the engine has it.
Follows(nat, reg) ==
  /\ \A s \in Slots : nat.slots[s] # None => reg.slots[s] = nat.slots[s]
  /\ \A c \in Callbacks : nat.subs[c] # None => reg.subs[c] = nat.subs[c]

\* The index is of callbacks already registered, each at its node or gone.
Indexed(reg, known) ==
  \A n \in Nodes, c \in Callbacks :
    c \in reg.index[n] => c \in known /\ reg.subs[c] \in {n, None}

Good(s, known) ==
  /\ s \in Bindings
  /\ Follows(s.native, s.registry)
  /\ Indexed(s.registry, known)

IInv == Good(Current, spent)

-----------------------------------------------------------------------------
\* Unsubscribing keeps the bindings good: the engine forgets first, and what the
\* index still names after a panic is gone.
LEMMA ClosedGood ==
  ASSUME NEW s, NEW known, NEW c \in Callbacks, Good(s, known)
  PROVE  Good(Closed(s, c), known)
<1> DEFINE n == s.registry.subs[c]
           gone == [s EXCEPT !.registry.subs[c] = None, !.native.subs[c] = None]
<1>1. Owns[c] \in Callbacks \cup {None}
  BY Constants_Assumption
<1>2. n \in Nodes \cup {None}
  BY DEF Good, Bindings, RegistryType
<1>3. Good(gone, known)
  BY DEF Good, Bindings, RegistryType, NativeType, Follows, Indexed
<1>4. CASE ~up \/ n = None
  <2>1. Closed(s, c) = [s EXCEPT !.tokens[c] = "closed"]
    BY <1>4 DEF Closed
  <2> QED
    BY <2>1 DEF Good, Bindings, TokenStates
<1>5. CASE ~(~up \/ n = None) /\ s.native.subs[c] = None
  <2>1. Closed(s, c) = s
    BY <1>5 DEF Closed
  <2> QED
    BY <2>1
<1>6. CASE /\ ~(~up \/ n = None) /\ s.native.subs[c] # None
           /\ Closes(gone, c) /\ c \notin ToSet(frames)
  <2>1. Closed(s, c) = PanicsIn(gone, c)
    BY <1>6 DEF Closed
  <2>2. Owns[c] \in Callbacks
    BY <1>6, <1>1 DEF Closes
  <2> HIDE DEF gone
  <2>3. Good(PanicsIn(gone, c), known)
    BY <2>2, <1>3 DEF Good, Bindings, TokenStates, PanicsIn
  <2> QED
    BY <2>1, <2>3
<1>7. CASE /\ ~(~up \/ n = None) /\ s.native.subs[c] # None
           /\ ~(Closes(gone, c) /\ c \notin ToSet(frames))
  <2>1. Closed(s, c) = [gone EXCEPT !.registry.index = Unindexed(s.registry, n, c),
                                    !.tokens[c] = "closed"]
    BY <1>7 DEF Closed
  <2>2. n \in Nodes
    BY <1>7, <1>2
  <2> DEFINE index == Unindexed(s.registry, n, c)
  <2>3. /\ index \in [Nodes -> SUBSET Callbacks]
        /\ \A m \in Nodes : index[m] \subseteq s.registry.index[m]
    BY <2>2 DEF Unindexed, Good, Bindings, RegistryType
  <2>4. gone.registry.index = s.registry.index
    BY DEF Good, Bindings, RegistryType
  <2> DEFINE left == [gone EXCEPT !.registry.index = index, !.tokens[c] = "closed"]
  <2> HIDE DEF index, gone
  <2>5. /\ gone \in Bindings /\ Follows(gone.native, gone.registry)
        /\ Indexed(gone.registry, known)
    BY <1>3 DEF Good
  <2>6. /\ left.native = gone.native /\ left.registry = [gone.registry EXCEPT !.index = index]
        /\ left \in Bindings
    BY <2>3, <2>5 DEF Bindings, RegistryType, TokenStates
  <2>7. /\ left.registry.slots = gone.registry.slots /\ left.registry.subs = gone.registry.subs
        /\ left.registry.index = index
    BY <2>5, <2>6 DEF Bindings, RegistryType
  <2> HIDE DEF left
  <2>8. Follows(left.native, left.registry)
    BY <2>5, <2>6, <2>7 DEF Follows
  <2>9. Indexed(left.registry, known)
    BY <2>3, <2>4, <2>5, <2>7 DEF Indexed
  <2> QED
    BY <2>1, <2>6, <2>8, <2>9 DEF Good, left, index, gone
<1> QED
  BY <1>4, <1>5, <1>6, <1>7

\* So does the destructor of a callback that owns a token.
LEMMA DestroyedGood ==
  ASSUME NEW s, NEW known, NEW c, Good(s, known)
  PROVE  Good(Destroyed(s, c), known)
<1>1. CASE c \in Callbacks /\ Closes(s, c)
  <2>1. Owns[c] \in Callbacks
    BY <1>1, Constants_Assumption DEF Closes
  <2>2. Good(Closed(s, Owns[c]), known)
    BY <2>1, ClosedGood
  <2>3. Destroyed(s, c) = [Closed(s, Owns[c]) EXCEPT !.tokens[Owns[c]] = "closed"]
    BY <1>1 DEF Destroyed
  <2> QED
    BY <2>1, <2>2, <2>3 DEF Good, Bindings, TokenStates
<1>2. CASE ~(c \in Callbacks /\ Closes(s, c))
  BY <1>2 DEF Destroyed
<1> QED
  BY <1>1, <1>2

\* The registry may drop what the engine has forgotten.
LEMMA WithoutGood ==
  ASSUME NEW nat \in NativeType, NEW reg \in RegistryType, NEW known,
         Follows(nat, reg), Indexed(reg, known),
         NEW slots, NEW subs, NEW nodes,
         \A s \in Slots : s \in slots => nat.slots[s] = None,
         \A c \in Callbacks : c \in subs => nat.subs[c] = None
  PROVE  /\ Without(reg, slots, subs, nodes) \in RegistryType
         /\ Follows(nat, Without(reg, slots, subs, nodes))
         /\ Indexed(Without(reg, slots, subs, nodes), known)
<1> DEFINE left == Without(reg, slots, subs, nodes)
<1>1. left \in RegistryType
  BY DEF Without, RegistryType
<1>2. /\ \A s \in Slots : left.slots[s] = IF s \in slots THEN None ELSE reg.slots[s]
      /\ \A c \in Callbacks : left.subs[c] = IF c \in subs THEN None ELSE reg.subs[c]
      /\ \A n \in Nodes : left.index[n] = IF n \in nodes THEN {} ELSE reg.index[n]
  BY DEF Without
<1> HIDE DEF left
<1>3. Follows(nat, left)
  BY <1>2 DEF Follows
<1>4. Indexed(left, known)
  BY <1>2 DEF Indexed
<1> QED
  BY <1>1, <1>3, <1>4 DEF left

\* A destructor that panics only closes a token.
LEMMA PanicsGood ==
  ASSUME NEW s, NEW known, NEW c \in Callbacks, Good(s, known), Owns[c] \in Callbacks
  PROVE  Good(PanicsIn(s, c), known)
  BY DEF Good, Bindings, TokenStates, PanicsIn

\* What the engine has forgotten may be dropped.
LEMMA DroppingGood ==
  ASSUME NEW s, NEW known, Good(s, known), NEW slots, NEW subs, NEW nodes,
         \A r \in Slots : r \in slots => s.native.slots[r] = None,
         \A c \in Callbacks : c \in subs => s.native.subs[c] = None
  PROVE  Good(Dropping(s, slots, subs, nodes), known)
<1> DEFINE w == Without(s.registry, slots, subs, nodes)
<1>1. /\ s.native \in NativeType /\ s.registry \in RegistryType
      /\ Follows(s.native, s.registry) /\ Indexed(s.registry, known) /\ s \in Bindings
  BY DEF Good, Bindings
<1>2. w \in RegistryType /\ Follows(s.native, w) /\ Indexed(w, known)
  BY <1>1, WithoutGood
<1> HIDE DEF w
<1>3. Good([s EXCEPT !.registry = w], known)
  BY <1>1, <1>2 DEF Good, Bindings
<1> QED
  BY <1>3 DEF w, Dropping

\* A node's index names only subscriptions of its own.
LEMMA IndexedForgotten ==
  ASSUME NEW s, NEW known, Good(s, known), NEW n \in Nodes, NEW c \in Callbacks,
         s.native.subs[c] # n, c \in s.registry.index[n]
  PROVE  s.native.subs[c] = None
<1>1. s.registry.subs[c] \in {n, None}
  BY DEF Good, Indexed
<1>2. s.native.subs[c] # None => s.registry.subs[c] = s.native.subs[c]
  BY DEF Good, Follows
<1> QED
  BY <1>1, <1>2

\* The nodes the engine has forgotten may be released, wherever it stops.
LEMMA ReleasedGood ==
  ASSUME NEW s, NEW known, Good(s, known), NEW nodes \in SUBSET Nodes,
         \A r \in Slots : r[2] \in nodes => s.native.slots[r] = None,
         \A c \in Callbacks : s.native.subs[c] \notin nodes,
         NEW left \in Released(s, nodes)
  PROVE  Good(left, known)
<1>1. ASSUME NEW some \in SUBSET nodes
      PROVE  /\ \A r \in Slots : r \in SlotsOf(some) => s.native.slots[r] = None
             /\ \A c \in Callbacks : c \in SubsOf(s.registry, some) => s.native.subs[c] = None
  BY <1>1, IndexedForgotten DEF SlotsOf, SubsOf
<1>2. \A c \in Stops(s) : c \in Callbacks /\ Owns[c] \in Callbacks
  BY Constants_Assumption DEF Stops, Bound, Closes
<1>3. ASSUME NEW n \in nodes, NEW done \in SUBSET nodes, NEW here \in StoppedAt(s, n, done)
      PROVE  Good(here, known)
  <2> DEFINE handler == s.registry.slots[<<"handler", n>>]
             default == s.registry.slots[<<"default", n>>]
             subs == SubsOf(s.registry, done)
             all == SlotsOf(done \cup {n})
  <2>1. /\ \A r \in Slots : r \in SlotsOf(done) \cup {<<"handler", n>>} => s.native.slots[r] = None
        /\ \A r \in Slots : r \in all => s.native.slots[r] = None
        /\ \A c \in Callbacks : c \in subs => s.native.subs[c] = None
    BY <1>1, done \cup {n} \in SUBSET nodes
  <2>2. CASE handler \in Stops(s)
    <3>1. here = PanicsIn(Dropping(s, SlotsOf(done) \cup {<<"handler", n>>}, subs, done), handler)
      BY <1>3, <2>2 DEF StoppedAt
    <3>2. Good(Dropping(s, SlotsOf(done) \cup {<<"handler", n>>}, subs, done), known)
      BY <2>1, DroppingGood
    <3> QED
      BY <3>1, <3>2, <2>2, <1>2, PanicsGood
  <2>3. CASE handler \notin Stops(s) /\ default \in Stops(s)
    <3>1. here = PanicsIn(Dropping(s, all, subs, done), default)
      BY <1>3, <2>3 DEF StoppedAt
    <3>2. Good(Dropping(s, all, subs, done), known)
      BY <2>1, DroppingGood
    <3> QED
      BY <3>1, <3>2, <2>3, <1>2, PanicsGood
  <2>4. CASE handler \notin Stops(s) /\ default \notin Stops(s)
    <3>1. PICK c \in s.registry.index[n] \cap Stops(s),
               some \in SUBSET (s.registry.index[n] \ Stops(s)) :
            here = PanicsIn(Dropping(s, all, subs \cup some \cup {c}, done \cup {n}), c)
      BY <1>3, <2>4 DEF StoppedAt
    <3>2. \A d \in Callbacks : d \in subs \cup some \cup {c} => s.native.subs[d] = None
      BY <2>1, IndexedForgotten
    <3>3. Good(Dropping(s, all, subs \cup some \cup {c}, done \cup {n}), known)
      BY <2>1, <3>2, DroppingGood
    <3> QED
      BY <3>1, <3>3, <1>2, PanicsGood
  <2> QED
    BY <2>2, <2>3, <2>4
<1> DEFINE trouble == {n \in nodes : Held(s.registry, n) \cap Stops(s) # {}}
<1>4. CASE trouble = {}
  <2>1. left = Dropping(s, SlotsOf(nodes), SubsOf(s.registry, nodes), nodes)
    BY <1>4 DEF Released
  <2> QED
    BY <2>1, <1>1, DroppingGood
<1>5. CASE trouble # {}
  <2>1. PICK n \in trouble, done \in SUBSET (nodes \ trouble) : left \in StoppedAt(s, n, done)
    BY <1>5 DEF Released
  <2> QED
    BY <2>1, <1>3
<1> QED
  BY <1>4, <1>5

-----------------------------------------------------------------------------
\* What the actions do with the bindings.

LEMMA GoodForMore ==
  ASSUME NEW s, NEW known, NEW more, Good(s, known), known \subseteq more
  PROVE  Good(s, more)
  BY DEF Good, Indexed

\* An action that leaves the bindings good keeps the invariant.
LEMMA BecomesGood ==
  ASSUME NEW s, Good(s, spent'), Becomes(s)
  PROVE  IInv'
<1>1. /\ Current'.native = s.native /\ Current'.registry = s.registry
      /\ Current'.tokens = s.tokens /\ Current'.broken = s.broken
  BY DEF Becomes, Current
<1>2. Current' \in Bindings
  <2>1. Current' = [native |-> s.native, registry |-> s.registry,
                    tokens |-> s.tokens, broken |-> s.broken]
    BY DEF Becomes, Current
  <2> QED
    BY <2>1 DEF Good, Bindings
<1> QED
  BY <1>1, <1>2 DEF IInv, Good

LEMMA UnchangedGood ==
  ASSUME IInv, UNCHANGED bindings
  PROVE  IInv'
  BY DEF IInv, Good, Current, bindings, Follows, Indexed, Bindings

\* A slot gets the same content in the engine and in the registry.
LEMMA PutGood ==
  ASSUME NEW s, NEW known, Good(s, known), NEW slot \in Slots, NEW c \in Callbacks \cup {None}
  PROVE  Good(Put(s, slot, c), known)
<1>1. Put(s, slot, c) \in Bindings
  BY DEF Put, Good, Bindings, NativeType, RegistryType
<1>2. /\ Put(s, slot, c).native.slots = [s.native.slots EXCEPT ![slot] = c]
      /\ Put(s, slot, c).native.subs = s.native.subs
      /\ Put(s, slot, c).registry.slots = [s.registry.slots EXCEPT ![slot] = c]
      /\ Put(s, slot, c).registry.subs = s.registry.subs
      /\ Put(s, slot, c).registry.index = s.registry.index
  BY DEF Put, Good, Bindings, NativeType, RegistryType
<1>3. /\ s.native.slots \in [Slots -> Callbacks \cup {None}]
      /\ s.registry.slots \in [Slots -> Callbacks \cup {None}]
  BY DEF Good, Bindings, NativeType, RegistryType
<1>4. Follows(Put(s, slot, c).native, Put(s, slot, c).registry)
  BY <1>2, <1>3 DEF Good, Follows
<1>5. Indexed(Put(s, slot, c).registry, known)
  BY <1>2 DEF Good, Indexed
<1> QED
  BY <1>1, <1>4, <1>5 DEF Good

LEMMA ReplacedGood ==
  ASSUME NEW known, Good(Current, known), NEW slot \in Slots, NEW c \in Callbacks \cup {None}
  PROVE  Good(Replaced(slot, c), known)
  BY PutGood, DestroyedGood DEF Replaced

LEMMA InitGood ==
  ASSUME Init
  PROVE  IInv
  BY DEF Init, IInv, Good, Current, Bindings, NativeType, RegistryType, TokenStates,
         Follows, Indexed, NoBindings, NoIndex

LEMMA SetHandlerGood ==
  ASSUME IInv, NEW slot \in Slots, NEW c \in Callbacks, SetHandler(slot, c)
  PROVE  IInv'
<1>1. Good(Current, spent')
  BY GoodForMore DEF IInv, SetHandler
<1> QED
  BY <1>1, ReplacedGood, BecomesGood DEF SetHandler

LEMMA ClearHandlerGood ==
  ASSUME IInv, NEW n \in Nodes, ClearHandler(n)
  PROVE  IInv'
<1>1. Good(Current, spent') /\ <<"handler", n>> \in Slots
  BY DEF IInv, ClearHandler, Slots
<1> QED
  BY <1>1, ReplacedGood, BecomesGood DEF ClearHandler

\* The callback subscribed is in no index yet.
LEMMA SubscribeGood ==
  ASSUME IInv, NEW n \in Nodes, NEW c \in Callbacks, Subscribe(n, c)
  PROVE  IInv'
<1>1. /\ native \in NativeType /\ registry \in RegistryType
      /\ tokens \in [Callbacks -> TokenStates] /\ broken \in BOOLEAN
      /\ Follows(native, registry) /\ Indexed(registry, spent)
  BY DEF IInv, Good, Bindings, Current
<1>2. /\ native' = [native EXCEPT !.subs[c] = n]
      /\ registry' = [registry EXCEPT !.subs[c] = n, !.index[n] = @ \cup {c}]
      /\ tokens' = [tokens EXCEPT ![c] = "open"] /\ broken' = broken
      /\ spent' = spent \cup {c} /\ c \notin spent
  BY DEF Subscribe, Fresh
<1>3. /\ native' \in NativeType /\ registry' \in RegistryType
      /\ tokens' \in [Callbacks -> TokenStates] /\ broken' \in BOOLEAN
  <2>1. native' \in NativeType
    BY <1>1, <1>2 DEF NativeType
  <2>2. registry' \in RegistryType
    BY <1>1, <1>2 DEF RegistryType
  <2>3. tokens' \in [Callbacks -> TokenStates]
    BY <1>1, <1>2 DEF TokenStates
  <2> QED
    BY <2>1, <2>2, <2>3, <1>1, <1>2
<1>4. /\ native'.slots = native.slots /\ registry'.slots = registry.slots
      /\ native'.subs = [native.subs EXCEPT ![c] = n]
      /\ registry'.subs = [registry.subs EXCEPT ![c] = n]
      /\ registry'.index = [registry.index EXCEPT ![n] = @ \cup {c}]
      /\ native.subs \in [Callbacks -> Nodes \cup {None}]
      /\ registry.subs \in [Callbacks -> Nodes \cup {None}]
      /\ registry.index \in [Nodes -> SUBSET Callbacks]
  BY <1>1, <1>2 DEF NativeType, RegistryType
<1>5. Follows(native', registry')
  BY <1>1, <1>4 DEF Follows
<1>6. Indexed(registry', spent')
  <2> SUFFICES ASSUME NEW m \in Nodes, NEW d \in Callbacks, d \in registry'.index[m]
               PROVE  d \in spent' /\ registry'.subs[d] \in {m, None}
    BY DEF Indexed
  <2>1. CASE d = c
    <3>1. c \notin registry.index[m]
      BY <1>1, <1>2 DEF Indexed
    <3> QED
      BY <3>1, <2>1, <1>2, <1>4
  <2>2. CASE d # c
    <3>1. d \in registry.index[m]
      BY <2>2, <1>4
    <3> QED
      BY <3>1, <2>2, <1>1, <1>2, <1>4 DEF Indexed
  <2> QED
    BY <2>1, <2>2
<1> QED
  BY <1>3, <1>5, <1>6 DEF IInv, Good, Current, Bindings

\* The engine forgets the nodes first, and then the registry releases them.
LEMMA FinishRemovalGood ==
  ASSUME IInv, FinishRemoval
  PROVE  IInv'
<1> DEFINE nodes == Below(removing[1].root)
<1>1. /\ native \in NativeType /\ Current \in Bindings /\ Current.registry = registry
      /\ Follows(native, registry) /\ Indexed(registry, spent) /\ broken \in BOOLEAN
  BY DEF IInv, Good, Bindings, Current
<1>2. nodes \in SUBSET Nodes /\ None \notin nodes
  BY Constants_Assumption DEF Below
<1>3. \E s \in Released(Forgotten(nodes), nodes) : Becomes([s EXCEPT !.broken = @ \/ broken])
  BY DEF FinishRemoval
<1> HIDE DEF nodes
<1>4. Remaining(nodes) \in NativeType /\ Follows(Remaining(nodes), registry)
  BY <1>1 DEF Remaining, NativeType, Follows
<1>5. /\ \A r \in Slots : r[2] \in nodes => Remaining(nodes).slots[r] = None
      /\ \A c \in Callbacks : Remaining(nodes).subs[c] \notin nodes
  BY <1>2 DEF Remaining
<1>6. Good(Forgotten(nodes), spent) /\ Forgotten(nodes).native = Remaining(nodes)
  BY <1>1, <1>4 DEF Good, Bindings, Forgotten
<1>7. PICK s \in Released(Forgotten(nodes), nodes) : Becomes([s EXCEPT !.broken = @ \/ broken])
  BY <1>3
<1>8. Good(s, spent)
  BY <1>2, <1>5, <1>6, ReleasedGood
<1>9. Good([s EXCEPT !.broken = @ \/ broken], spent)
  BY <1>1, <1>8 DEF Good, Bindings
<1>10. spent' = spent
  BY DEF FinishRemoval
<1> QED
  BY <1>7, <1>9, <1>10, BecomesGood

LEMMA EngineEmptyGood ==
  ASSUME IInv, NEW owned
  PROVE  Good(EngineEmpty(owned), spent) /\ EngineEmpty(owned).native = NoBindings
<1>1. NoBindings \in NativeType /\ Follows(NoBindings, registry)
  BY DEF NoBindings, NativeType, Follows
<1>2. Current \in Bindings /\ Current.registry = registry /\ Indexed(registry, spent)
  BY DEF IInv, Good, Current
<1> HIDE DEF Current
<1> QED
  BY <1>1, <1>2 DEF Good, Bindings, TokenStates, EngineEmpty

LEMMA ClearedGood ==
  ASSUME IInv, NEW owned, NEW nodes
  PROVE  Good(Dropping(EngineEmpty(owned), Slots, Callbacks, nodes), spent)
  BY EngineEmptyGood, DroppingGood DEF NoBindings

LEMMA ResetGood ==
  ASSUME IInv, Reset
  PROVE  IInv'
<1>1. PICK owned :
        \/ Becomes(Emptied(EngineEmpty(owned)))
        \/ \E c \in Callbacks : /\ Closes(EngineEmpty(owned), c)
                                /\ Becomes(PanicsIn(Dropping(EngineEmpty(owned), Slots, Callbacks, {}), c))
  BY DEF Reset
<1>2. spent' = spent
  BY DEF Reset
<1>3. CASE Becomes(Emptied(EngineEmpty(owned)))
  BY <1>2, <1>3, ClearedGood, BecomesGood DEF Emptied
<1>4. ASSUME NEW c \in Callbacks, Closes(EngineEmpty(owned), c),
             Becomes(PanicsIn(Dropping(EngineEmpty(owned), Slots, Callbacks, {}), c))
      PROVE  IInv'
  <2>1. Owns[c] \in Callbacks
    BY <1>4, Constants_Assumption DEF Closes
  <2> QED
    BY <1>2, <1>4, <2>1, ClearedGood, PanicsGood, BecomesGood
<1> QED
  BY <1>1, <1>3, <1>4

LEMMA DropUiGood ==
  ASSUME IInv, DropUi
  PROVE  IInv'
  BY ClearedGood, BecomesGood DEF DropUi, Emptied

\* No action lets the registry drop what the engine keeps.
LEMMA StepGood ==
  ASSUME IInv, [Next]_vars
  PROVE  IInv'
<1>1. ASSUME NEW c \in Callbacks, Close(c) PROVE IInv'
  BY <1>1, ClosedGood, BecomesGood DEF Close, IInv
<1>2. CASE Return
  <2>1. PICK s : Becomes(s) /\ (s = Current \/ s = Destroyed(Current, Last(frames)))
    BY <1>2 DEF Return
  <2>2. Good(s, spent) /\ spent' = spent
    BY <2>1, <1>2, DestroyedGood DEF IInv, Return
  <2> QED
    BY <2>1, <2>2, BecomesGood
<1>3. ASSUME NEW n \in Nodes, RemoveSubtree(n) PROVE IInv'
  BY <1>3, UnchangedGood DEF RemoveSubtree, KeptMeanwhile, bindings
<1>4. ASSUME \/ \E c \in Callbacks : Call(c)
             \/ \E n \in Nodes : AddNode(n)
             \/ \E k \in Components :
                  Mount(k) \/ Unmount(k) \/ Watch(k) \/ OpenCues(k) \/ DropComponent(k)
             \/ MountOk \/ MountFails
             \/ UNCHANGED vars
      PROVE  IInv'
  BY <1>4, UnchangedGood
  DEF Call, AddNode, Mount, Unmount, Watch, OpenCues, DropComponent, MountOk, MountFails, vars
<1> QED
  BY <1>1, <1>2, <1>3, <1>4, SetHandlerGood, ClearHandlerGood, SubscribeGood,
     FinishRemovalGood, ResetGood, DropUiGood DEF Next

\* The engine never holds a pointer to a callback the Driver freed.
THEOREM NeverDangles == Spec => []NothingDangles
<1>1. Init => IInv
  BY InitGood
<1>2. IInv /\ [Next]_vars => IInv'
  BY StepGood
<1>3. ASSUME IInv PROVE NothingDangles
  <2> SUFFICES ASSUME NEW c \in Bound(native) PROVE c \in Bound(registry)
    BY DEF NothingDangles
  <2>1. Follows(native, registry) /\ c \in Callbacks /\ c # None
    BY <1>3, Constants_Assumption DEF IInv, Good, Current, Bound
  <2> QED
    BY <2>1 DEF Follows, Bound
<1> QED
  BY <1>1, <1>2, <1>3, PTL DEF Spec

-----------------------------------------------------------------------------
\* The other variables have their types, and nothing is removed after the drop.
Removals == [root : Nodes, unmounts : Components \cup {None}, depth : Nat]
Buildings == [component : Components, depth : Nat]
ComponentType == [Components -> [state : States, watching : BOOLEAN, cues : BOOLEAN]]

Shape ==
  /\ up \in BOOLEAN /\ tree \subseteq made /\ made \subseteq Nodes
  /\ frames \in Seq(Callbacks) /\ IsInjective(frames)
  /\ component \in ComponentType /\ spent \subseteq Callbacks
  /\ building \in Seq(Buildings)
  /\ \/ removing = <<>>
     \/ up /\ \E r \in Removals : removing = <<r>>

LEMMA InitShape ==
  ASSUME Init
  PROVE  Shape
<1>1. IsInjective(<<>>)
  BY DEF IsInjective
<1> QED
  BY <1>1 DEF Init, Shape, ComponentType, States

\* Only a callback that does not run is called.
LEMMA CallShape ==
  ASSUME Shape, NEW c \in Callbacks, Call(c)
  PROVE  Shape'
<1>1. /\ frames' = Append(frames, c) /\ c \notin ToSet(frames) /\ frames \in Seq(Callbacks)
      /\ UNCHANGED <<up, tree, made, spent, removing, building, component>>
  BY DEF Call, Callable, Shape, bindings
<1>2. frames' \in Seq(Callbacks)
  BY <1>1
<1>3. ASSUME NEW i \in DOMAIN frames', NEW j \in DOMAIN frames', frames'[i] = frames'[j]
      PROVE  i = j
  <2>1. /\ Len(frames') = Len(frames) + 1 /\ frames'[Len(frames) + 1] = c
        /\ \A m \in DOMAIN frames : frames'[m] = frames[m] /\ frames[m] # c
        /\ DOMAIN frames = 1..Len(frames) /\ DOMAIN frames' = 1..Len(frames')
        /\ Len(frames) \in Nat
    BY <1>1 DEF ToSet
  <2>2. \A m \in DOMAIN frames' : m \in DOMAIN frames \/ m = Len(frames) + 1
    BY <2>1
  <2> QED
    BY <1>3, <2>1, <2>2 DEF Shape, IsInjective
<1> QED
  BY <1>1, <1>2, <1>3 DEF Shape, IsInjective

LEMMA ReturnShape ==
  ASSUME Shape, Return
  PROVE  Shape'
<1>1. /\ frames' = Front(frames) /\ frames # <<>> /\ frames \in Seq(Callbacks)
      /\ UNCHANGED <<up, tree, made, spent, removing, building, component>>
  BY DEF Return, Shape
<1>2. /\ frames' \in Seq(Callbacks) /\ DOMAIN frames' \subseteq DOMAIN frames
      /\ \A m \in DOMAIN frames' : frames'[m] = frames[m]
  BY <1>1 DEF Front
<1>3. IsInjective(frames')
  BY <1>2 DEF Shape, IsInjective
<1> QED
  BY <1>1, <1>2, <1>3 DEF Shape

\* A component's record changes in one place.
LEMMA ComponentTyped ==
  ASSUME component \in ComponentType, NEW k \in Components,
         NEW r \in [state : States, watching : BOOLEAN, cues : BOOLEAN]
  PROVE  [component EXCEPT ![k] = r] \in ComponentType
  BY DEF ComponentType

LEMMA StateTyped ==
  ASSUME component \in ComponentType, NEW k \in Components, NEW state \in States,
         NEW next, next = [component EXCEPT ![k].state = state]
  PROVE  next \in ComponentType
  BY DEF ComponentType

LEMMA MountShape ==
  ASSUME Shape, NEW k \in Components, Mount(k)
  PROVE  Shape'
<1>1. /\ building' = Append(building, [component |-> k, depth |-> Len(frames)])
      /\ component' = [component EXCEPT ![k].state = "building"]
      /\ tree' = tree \cup {k} /\ made' = made \cup {k}
      /\ UNCHANGED <<up, frames, removing, spent>>
  BY DEF Mount, Created, bindings
<1>2. [component |-> k, depth |-> Len(frames)] \in Buildings
  BY DEF Buildings, Shape
<1>3. building' \in Seq(Buildings)
  BY <1>1, <1>2 DEF Shape
<1>4. component' \in ComponentType
  BY <1>1, StateTyped DEF Shape, States
<1> QED
  BY <1>1, <1>3, <1>4, Constants_Assumption DEF Shape

LEMMA BuildingFront ==
  ASSUME Shape, building # <<>>
  PROVE  /\ Front(building) \in Seq(Buildings) /\ Last(building) \in Buildings
         /\ DOMAIN Front(building) \subseteq DOMAIN building
         /\ \A i \in DOMAIN Front(building) : Front(building)[i] = building[i]
         /\ \E i \in DOMAIN building : Last(building) = building[i]
<1>1. building \in Seq(Buildings) /\ Len(building) \in DOMAIN building
  BY DEF Shape
<1> QED
  BY <1>1 DEF Front, Last

LEMMA MountEndsShape ==
  ASSUME Shape, MountOk \/ MountFails
  PROVE  Shape'
<1>1. /\ building # <<>> /\ building' = Front(building) /\ up
      /\ UNCHANGED <<up, tree, made, frames, spent>>
  BY DEF MountOk, MountFails, ScopeFree, bindings
<1>2. building' \in Seq(Buildings) /\ Last(building).component \in Components
  BY <1>1, BuildingFront DEF Buildings
<1>3. component' \in ComponentType
  BY <1>2, StateTyped DEF MountOk, MountFails, Shape, States
<1>4. removing' = removing \/ \E r \in Removals : removing' = <<r>>
  <2>1. [root |-> Last(building).component, unmounts |-> None, depth |-> Len(frames)] \in Removals
    BY <1>2, Constants_Assumption DEF Removals, Shape
  <2> QED
    BY <2>1 DEF MountOk, MountFails, Rollback
<1> QED
  BY <1>1, <1>2, <1>3, <1>4 DEF Shape

LEMMA UnmountShape ==
  ASSUME Shape, NEW k \in Components, Unmount(k)
  PROVE  Shape'
<1>1. [root |-> k, unmounts |-> k, depth |-> Len(frames)] \in Removals
  BY Constants_Assumption DEF Removals, Shape
<1>2. /\ up /\ (\E r \in Removals : removing' = <<r>>)
      /\ UNCHANGED <<up, tree, made, frames, building, component, spent>>
  BY <1>1 DEF Unmount, UiFree, bindings
<1> QED
  BY <1>2 DEF Shape

\* The component that is unmounted is one of the Components.
LEMMA FinishRemovalShape ==
  ASSUME Shape, FinishRemoval
  PROVE  Shape'
<1>1. PICK r \in Removals : removing = <<r>>
  BY DEF FinishRemoval, Shape
<1>2. /\ removing' = <<>> /\ tree' \subseteq tree
      /\ UNCHANGED <<up, made, frames, building, spent>>
  BY DEF FinishRemoval
<1>3. \/ component' = component
      \/ r.unmounts # None /\ component' = [component EXCEPT ![r.unmounts] = Closing(r.unmounts)]
  BY <1>1 DEF FinishRemoval
<1>4. \A k : Closing(k) \in [state : States, watching : BOOLEAN, cues : BOOLEAN]
  BY DEF Closing, States
<1>5. r.unmounts \in Components \cup {None}
  BY DEF Removals
<1>6. component' \in ComponentType
  BY <1>3, <1>4, <1>5, ComponentTyped DEF Shape
<1> QED
  BY <1>2, <1>6 DEF Shape

LEMMA HolderShape ==
  ASSUME Shape, NEW k \in Components, Watch(k) \/ OpenCues(k) \/ DropComponent(k)
  PROVE  Shape'
<1>1. UNCHANGED <<up, tree, made, spent, frames, removing, building>>
  BY DEF Watch, OpenCues, DropComponent, bindings
<1>2. component' \in ComponentType
  <2>1. component \in ComponentType
    BY DEF Shape
  <2>2. CASE Watch(k)
    BY <2>1, <2>2 DEF Watch, ComponentType
  <2>3. CASE OpenCues(k)
    BY <2>1, <2>3 DEF OpenCues, ComponentType
  <2>4. CASE DropComponent(k)
    BY <2>1, <2>4 DEF DropComponent, ComponentType, States
  <2> QED
    BY <2>2, <2>3, <2>4
<1> QED
  BY <1>1, <1>2 DEF Shape

LEMMA StepShape ==
  ASSUME Shape, [Next]_vars
  PROVE  Shape'
<1>1. ASSUME NEW c \in Callbacks,
             \/ \E slot \in Slots : SetHandler(slot, c)
             \/ \E n \in Nodes : Subscribe(n, c)
             \/ Close(c)
      PROVE  Shape'
  <2>1. /\ UNCHANGED <<up, tree, made, frames, removing, building, component>>
        /\ spent' \in {spent, spent \cup {c}}
    BY <1>1 DEF SetHandler, Subscribe, Close
  <2> QED
    BY <2>1 DEF Shape
<1>2. ASSUME NEW n \in Nodes, ClearHandler(n) \/ AddNode(n)
      PROVE  Shape'
  <2>1. /\ UNCHANGED <<up, frames, removing, building, component, spent>>
        /\ \/ UNCHANGED <<tree, made>>
           \/ tree' = tree \cup {n} /\ made' = made \cup {n}
    BY <1>2 DEF ClearHandler, AddNode, Created, bindings
  <2> QED
    BY <2>1 DEF Shape
<1>3. CASE Reset \/ DropUi
  <2>1. /\ UNCHANGED <<made, frames, removing, building, component, spent>>
        /\ tree' = {} /\ removing = <<>> /\ up' \in BOOLEAN
    BY <1>3 DEF Reset, DropUi, UiFree
  <2> QED
    BY <2>1 DEF Shape
<1>4. CASE UNCHANGED vars
  BY <1>4 DEF vars, bindings, Shape
<1>5. ASSUME NEW n \in Nodes, RemoveSubtree(n)
      PROVE  Shape'
  <2>1. /\ [root |-> n, unmounts |-> None, depth |-> Len(frames)] \in Removals
    BY Constants_Assumption DEF Removals, Shape
  <2>2. /\ up /\ (\E r \in Removals : removing' = <<r>>)
        /\ UNCHANGED <<up, tree, made, frames, building, component, spent>>
    BY <1>5, <2>1 DEF RemoveSubtree, UiFree
  <2> QED
    BY <2>2 DEF Shape
<1>6. CASE \E c \in Callbacks : \/ \E slot \in Slots : SetHandler(slot, c)
                                \/ \E n \in Nodes : Subscribe(n, c)
                                \/ Close(c) \/ Call(c)
  BY <1>1, <1>6, CallShape
<1>7. CASE \E n \in Nodes : ClearHandler(n) \/ AddNode(n) \/ RemoveSubtree(n)
  BY <1>2, <1>5, <1>7
<1>8. CASE \E k \in Components :
             Mount(k) \/ Unmount(k) \/ Watch(k) \/ OpenCues(k) \/ DropComponent(k)
  BY <1>8, MountShape, HolderShape, UnmountShape
<1> QED
  BY <1>3, <1>4, <1>6, <1>7, <1>8, ReturnShape, MountEndsShape, FinishRemovalShape DEF Next

-----------------------------------------------------------------------------
\* While no destructor panicked, registry and engine have the same callbacks at the
\* same places, all on nodes of t, and the index is that of the subscriptions.
Sound(s, t) ==
  \/ s.broken
  \/ /\ s.registry.slots = s.native.slots /\ s.registry.subs = s.native.subs
     /\ \A r \in Slots : s.registry.slots[r] # None => r[2] \in t
     /\ \A n \in Nodes : s.registry.index[n] = {c \in Callbacks : s.registry.subs[c] = n}
     /\ \A c \in Callbacks :
          s.registry.subs[c] # None => s.registry.subs[c] \in t /\ s.tokens[c] = "open"

\* A Ui that was dropped has no subscriptions.
Quiet(s) == up \/ \A c \in Callbacks : s.registry.subs[c] = None

Agree == Sound(Current, tree) /\ Quiet(Current)

\* Unsubscribing takes a subscription out of both and of the index, or breaks.
LEMMA ClosedSound ==
  ASSUME NEW s, NEW known, NEW t, NEW c \in Callbacks,
         Good(s, known), Sound(s, t), Quiet(s)
  PROVE  /\ Sound(Closed(s, c), t) /\ Quiet(Closed(s, c))
         /\ Closed(s, c).broken \/ Closed(s, c).registry.subs[c] = None
<1> DEFINE n == s.registry.subs[c]
           gone == [s EXCEPT !.registry.subs[c] = None, !.native.subs[c] = None]
<1>1. /\ s \in Bindings /\ s.native \in NativeType /\ s.registry \in RegistryType
      /\ s.tokens \in [Callbacks -> TokenStates] /\ n \in Nodes \cup {None}
      /\ s.registry.subs \in [Callbacks -> Nodes \cup {None}]
      /\ s.native.subs \in [Callbacks -> Nodes \cup {None}]
      /\ s.registry.index \in [Nodes -> SUBSET Callbacks]
  BY DEF Good, Bindings, RegistryType, NativeType
<1>2. CASE ~up \/ n = None
  <2>1. Closed(s, c) = [s EXCEPT !.tokens[c] = "closed"] /\ n = None
    BY <1>2 DEF Closed, Quiet
  <2>2. /\ Closed(s, c).registry = s.registry /\ Closed(s, c).native = s.native
        /\ Closed(s, c).broken = s.broken
        /\ Closed(s, c).tokens = [s.tokens EXCEPT ![c] = "closed"]
    BY <2>1, <1>1 DEF Bindings
  <2> QED
    BY <2>1, <2>2, <1>1 DEF Sound, Quiet
<1>3. CASE ~(~up \/ n = None) /\ s.native.subs[c] = None
  <2>1. Closed(s, c) = s
    BY <1>3 DEF Closed
  <2> QED
    BY <2>1, <1>3 DEF Sound
<1>4. CASE /\ ~(~up \/ n = None) /\ s.native.subs[c] # None
           /\ Closes(gone, c) /\ c \notin ToSet(frames)
  <2>1. Closed(s, c) = PanicsIn(gone, c)
    BY <1>4 DEF Closed
  <2>2. gone.broken = s.broken /\ gone \in Bindings
    BY <1>1 DEF Bindings, RegistryType, NativeType
  <2> HIDE DEF gone
  <2>3. PanicsIn(gone, c).broken
    BY <2>2 DEF PanicsIn, Bindings
  <2> QED
    BY <2>1, <2>3, <1>4 DEF Sound, Quiet
<1>5. CASE /\ ~(~up \/ n = None) /\ s.native.subs[c] # None
           /\ ~(Closes(gone, c) /\ c \notin ToSet(frames))
  <2> DEFINE index == [s.registry.index EXCEPT ![n] = @ \ {c}]
             left == [gone EXCEPT !.registry.index = index, !.tokens[c] = "closed"]
  <2>1. Closed(s, c) = left /\ n \in Nodes
    BY <1>1, <1>5 DEF Closed, Unindexed
  <2>2. /\ gone \in Bindings
        /\ gone.registry = [s.registry EXCEPT !.subs[c] = None]
        /\ gone.native = [s.native EXCEPT !.subs[c] = None]
        /\ gone.broken = s.broken /\ gone.tokens = s.tokens
    BY <1>1 DEF Bindings, RegistryType, NativeType
  <2> HIDE DEF gone, index
  <2>3. /\ left.registry = [gone.registry EXCEPT !.index = index]
        /\ left.native = gone.native /\ left.broken = gone.broken
        /\ left.tokens = [gone.tokens EXCEPT ![c] = "closed"]
    BY <2>2 DEF Bindings
  <2> HIDE DEF left
  <2>4. /\ left.registry.slots = s.registry.slots /\ left.native.slots = s.native.slots
        /\ left.registry.subs = [s.registry.subs EXCEPT ![c] = None]
        /\ left.native.subs = [s.native.subs EXCEPT ![c] = None]
        /\ left.registry.index = index
        /\ left.tokens = [s.tokens EXCEPT ![c] = "closed"]
    BY <2>2, <2>3, <1>1 DEF RegistryType, NativeType
  <2>5. ASSUME Sound(s, t), ~s.broken, NEW m \in Nodes
        PROVE  index[m] = {d \in Callbacks : left.registry.subs[d] = m}
    <3>1. s.registry.index[m] = {d \in Callbacks : s.registry.subs[d] = m}
      BY <2>5 DEF Sound
    <3>2. index[m] = IF m = n THEN s.registry.index[m] \ {c} ELSE s.registry.index[m]
      BY <1>1, <2>1 DEF index
    <3>3. m # None
      BY Constants_Assumption
    <3> QED
      BY <3>1, <3>2, <3>3, <2>4, <1>1
  <2>6. Sound(left, t)
    <3>1. CASE s.broken
      BY <3>1, <2>2, <2>3 DEF Sound
    <3>2. CASE ~s.broken
      <4>1. /\ left.registry.slots = left.native.slots /\ left.registry.subs = left.native.subs
            /\ \A r \in Slots : left.registry.slots[r] # None => r[2] \in t
        BY <3>2, <2>4 DEF Sound
      <4>2. \A d \in Callbacks : left.registry.subs[d] # None =>
                                   left.registry.subs[d] \in t /\ left.tokens[d] = "open"
        BY <3>2, <2>4, <1>1 DEF Sound
      <4>3. \A m \in Nodes :
              left.registry.index[m] = {d \in Callbacks : left.registry.subs[d] = m}
        BY <3>2, <2>4, <2>5
      <4> QED
        BY <4>1, <4>2, <4>3 DEF Sound
    <3> QED
      BY <3>1, <3>2
  <2>7. Quiet(left) /\ left.registry.subs[c] = None
    BY <2>4, <1>1 DEF Quiet
  <2> QED
    BY <2>1, <2>6, <2>7
<1> QED
  BY <1>2, <1>3, <1>4, <1>5

\* So does a destructor: the token it closes is of a subscription that is gone.
LEMMA DestroyedSound ==
  ASSUME NEW s, NEW known, NEW t, NEW c, Good(s, known), Sound(s, t), Quiet(s)
  PROVE  Sound(Destroyed(s, c), t) /\ Quiet(Destroyed(s, c))
<1>1. CASE ~(c \in Callbacks /\ Closes(s, c))
  BY <1>1 DEF Destroyed
<1>2. CASE c \in Callbacks /\ Closes(s, c)
  <2> DEFINE d == Owns[c]
             closed == Closed(s, d)
  <2>1. d \in Callbacks
    BY <1>2, Constants_Assumption DEF Closes
  <2>2. Good(closed, known)
    BY <2>1, ClosedGood
  <2>3. /\ Sound(closed, t) /\ Quiet(closed)
        /\ closed.broken \/ closed.registry.subs[d] = None
    BY <2>1, ClosedSound
  <2>4. Destroyed(s, c) = [closed EXCEPT !.tokens[d] = "closed"]
    BY <1>2 DEF Destroyed
  <2> HIDE DEF closed, d
  <2>5. closed \in Bindings
    BY <2>2 DEF Good
  <2>6. /\ Destroyed(s, c).registry = closed.registry
        /\ Destroyed(s, c).native = closed.native
        /\ Destroyed(s, c).broken = closed.broken
        /\ Destroyed(s, c).tokens = [closed.tokens EXCEPT ![d] = "closed"]
        /\ closed.tokens \in [Callbacks -> TokenStates]
    BY <2>4, <2>5 DEF Bindings
  <2> QED
    BY <2>3, <2>6 DEF Sound, Quiet
<1> QED
  BY <1>1, <1>2

\* A slot of a node of the tree is filled, or emptied, in both.
LEMMA ReplacedSound ==
  ASSUME NEW t, Good(Current, spent), Sound(Current, t), Quiet(Current),
         NEW slot \in Slots, NEW c \in Callbacks \cup {None}, c # None => slot[2] \in t
  PROVE  Sound(Replaced(slot, c), t) /\ Quiet(Replaced(slot, c))
<1> DEFINE s == Current
           put == Put(s, slot, c)
<1>1. Good(put, spent)
  BY PutGood
<1>2. s \in Bindings /\ s.native \in NativeType /\ s.registry \in RegistryType
  BY DEF Good, Bindings
<1> HIDE DEF s
<1>3. /\ put.native.slots = [s.native.slots EXCEPT ![slot] = c]
      /\ put.native.subs = s.native.subs
      /\ put.registry.slots = [s.registry.slots EXCEPT ![slot] = c]
      /\ put.registry.subs = s.registry.subs /\ put.registry.index = s.registry.index
      /\ put.tokens = s.tokens /\ put.broken = s.broken
      /\ s.registry.slots \in [Slots -> Callbacks \cup {None}]
      /\ s.native.slots \in [Slots -> Callbacks \cup {None}]
  BY <1>2 DEF Put, Bindings, NativeType, RegistryType
<1> HIDE DEF put
<1>4. Sound(put, t) /\ Quiet(put)
  BY <1>3 DEF s, Sound, Quiet
<1>5. \A old : Sound(Destroyed(put, old), t) /\ Quiet(Destroyed(put, old))
  BY <1>1, <1>4, DestroyedSound
<1> QED
  BY <1>4, <1>5 DEF Replaced, put, s

\* An action that leaves the bindings sound for the new tree keeps the agreement.
LEMMA BecomesSound ==
  ASSUME NEW s, Becomes(s), Sound(s, tree'), ~up' => \A c \in Callbacks : s.registry.subs[c] = None
  PROVE  Agree'
<1>1. /\ Current'.native = s.native /\ Current'.registry = s.registry
      /\ Current'.tokens = s.tokens /\ Current'.broken = s.broken
  BY DEF Becomes, Current
<1> QED
  BY <1>1 DEF Agree, Sound, Quiet

\* More nodes, or fewer conditions, leave it as it is.
LEMMA UnchangedSound ==
  ASSUME Agree, UNCHANGED <<up, bindings>>, tree \subseteq tree'
  PROVE  Agree'
<1>1. Current' = Current
  BY DEF bindings, Current
<1> QED
  BY <1>1 DEF Agree, Sound, Quiet

LEMMA InitSound ==
  ASSUME Init
  PROVE  Agree
  BY Constants_Assumption DEF Init, Agree, Sound, Quiet, Current, NoBindings, NoIndex

LEMMA SlotsSound ==
  ASSUME IInv, Agree,
         \/ \E slot \in Slots, c \in Callbacks : SetHandler(slot, c)
         \/ \E n \in Nodes : ClearHandler(n)
  PROVE  Agree'
<1>1. PICK slot \in Slots, d \in Callbacks \cup {None} :
        Becomes(Replaced(slot, d)) /\ (d # None => slot[2] \in tree)
  BY DEF SetHandler, ClearHandler, Slots
<1>2. UNCHANGED <<up, tree>>
  BY DEF SetHandler, ClearHandler
<1>3. Sound(Replaced(slot, d), tree) /\ Quiet(Replaced(slot, d))
  BY <1>1, ReplacedSound DEF IInv, Agree
<1> QED
  BY <1>1, <1>2, <1>3, BecomesSound DEF Quiet

\* The callback subscribed had no subscription, and its token is open.
LEMMA SubscribeSound ==
  ASSUME IInv, Agree, NEW n \in Nodes, NEW c \in Callbacks, Subscribe(n, c)
  PROVE  Agree'
<1>1. /\ native \in NativeType /\ registry \in RegistryType
      /\ tokens \in [Callbacks -> TokenStates] /\ Indexed(registry, spent)
  BY DEF IInv, Good, Bindings, Current
<1>2. /\ native' = [native EXCEPT !.subs[c] = n]
      /\ registry' = [registry EXCEPT !.subs[c] = n, !.index[n] = @ \cup {c}]
      /\ tokens' = [tokens EXCEPT ![c] = "open"]
      /\ UNCHANGED <<up, tree, broken>> /\ c \notin spent /\ n \in tree /\ up
  BY DEF Subscribe, Fresh, UiFree
<1>3. /\ native'.slots = native.slots /\ registry'.slots = registry.slots
      /\ native'.subs = [native.subs EXCEPT ![c] = n]
      /\ registry'.subs = [registry.subs EXCEPT ![c] = n]
      /\ registry'.index = [registry.index EXCEPT ![n] = @ \cup {c}]
      /\ registry.subs \in [Callbacks -> Nodes \cup {None}]
      /\ registry.index \in [Nodes -> SUBSET Callbacks]
  BY <1>1, <1>2 DEF NativeType, RegistryType
<1>4. CASE broken
  BY <1>2, <1>4 DEF Agree, Sound, Quiet, Current
<1>5. CASE ~broken
  <2>1. /\ registry.slots = native.slots /\ registry.subs = native.subs
        /\ \A r \in Slots : registry.slots[r] # None => r[2] \in tree
        /\ \A m \in Nodes : registry.index[m] = {d \in Callbacks : registry.subs[d] = m}
        /\ \A d \in Callbacks :
             registry.subs[d] # None => registry.subs[d] \in tree /\ tokens[d] = "open"
    BY <1>5 DEF Agree, Sound, Current
  <2>2. registry.subs[c] = None
    BY <2>1, <1>1, <1>2, <1>3 DEF Indexed
  <2>3. ASSUME NEW m \in Nodes
        PROVE  registry'.index[m] = {d \in Callbacks : registry'.subs[d] = m}
    <3>1. registry.index[m] = {d \in Callbacks : registry.subs[d] = m}
      BY <2>1
    <3>2. registry'.index[m] = IF m = n THEN registry.index[m] \cup {c} ELSE registry.index[m]
      BY <1>3
    <3> QED
      BY <3>1, <3>2, <2>2, <1>3, Constants_Assumption
  <2>4. \A d \in Callbacks :
          registry'.subs[d] # None => registry'.subs[d] \in tree /\ tokens'[d] = "open"
    BY <2>1, <1>1, <1>2, <1>3
  <2> QED
    BY <2>1, <2>3, <2>4, <1>2, <1>3 DEF Agree, Sound, Quiet, Current
<1> QED
  BY <1>4, <1>5

LEMMA CloseSound ==
  ASSUME IInv, Agree, NEW c \in Callbacks, Close(c)
  PROVE  Agree'
<1>1. Sound(Closed(Current, c), tree) /\ Quiet(Closed(Current, c))
  BY ClosedSound DEF IInv, Agree
<1>2. UNCHANGED <<up, tree>> /\ Becomes(Closed(Current, c))
  BY DEF Close
<1> QED
  BY <1>1, <1>2, BecomesSound DEF Quiet

LEMMA ReturnSound ==
  ASSUME IInv, Agree, Return
  PROVE  Agree'
<1>1. PICK s : Becomes(s) /\ (s = Current \/ s = Destroyed(Current, Last(frames)))
  BY DEF Return
<1>2. Sound(s, tree) /\ Quiet(s)
  BY <1>1, DestroyedSound DEF IInv, Agree
<1>3. UNCHANGED <<up, tree>>
  BY DEF Return
<1> QED
  BY <1>1, <1>2, <1>3, BecomesSound DEF Quiet

\* Every way release_nodes stops is a panic.
LEMMA ReleasedBreaks ==
  ASSUME NEW s, NEW known, Good(s, known), NEW nodes, NEW left \in Released(s, nodes), ~left.broken
  PROVE  left = Dropping(s, SlotsOf(nodes), SubsOf(s.registry, nodes), nodes)
<1>1. \A reg, c : PanicsIn([s EXCEPT !.registry = reg], c).broken
  BY DEF PanicsIn, Good, Bindings
<1>2. \A slots, subs, some, c : PanicsIn(Dropping(s, slots, subs, some), c).broken
  BY <1>1 DEF Dropping
<1>3. ASSUME NEW n, NEW done, NEW here \in StoppedAt(s, n, done)
      PROVE  here.broken
  <2>1. \E slots, subs, some, c : here = PanicsIn(Dropping(s, slots, subs, some), c)
    <3>1. CASE \/ s.registry.slots[<<"handler", n>>] \in Stops(s)
               \/ s.registry.slots[<<"default", n>>] \in Stops(s)
      BY <1>3, <3>1 DEF StoppedAt
    <3>2. CASE /\ s.registry.slots[<<"handler", n>>] \notin Stops(s)
               /\ s.registry.slots[<<"default", n>>] \notin Stops(s)
      BY <1>3, <3>2 DEF StoppedAt
    <3> QED
      BY <3>1, <3>2
  <2> QED
    BY <2>1, <1>2
<1> DEFINE trouble == {n \in nodes : Held(s.registry, n) \cap Stops(s) # {}}
<1>4. CASE trouble = {}
  BY <1>4 DEF Released
<1>5. CASE trouble # {}
  <2>1. \E n \in trouble, done \in SUBSET (nodes \ trouble) : left \in StoppedAt(s, n, done)
    BY <1>5 DEF Released
  <2> QED
    BY <2>1, <1>3
<1> QED
  BY <1>4, <1>5

\* The engine forgets the nodes removed, and the registry what it kept for them.
LEMMA FinishRemovalSound ==
  ASSUME IInv, Shape, Agree, FinishRemoval
  PROVE  Agree'
<1> DEFINE nodes == Below(removing[1].root)
           forgotten == Forgotten(nodes)
<1>1. /\ native \in NativeType /\ registry \in RegistryType /\ tokens \in [Callbacks -> TokenStates]
      /\ Follows(native, registry) /\ Indexed(registry, spent) /\ broken \in BOOLEAN
  BY DEF IInv, Good, Bindings, Current
<1>2. nodes \in SUBSET Nodes /\ None \notin nodes
  BY Constants_Assumption DEF Below
<1>3. PICK s \in Released(forgotten, nodes) : Becomes([s EXCEPT !.broken = @ \/ broken])
  BY DEF FinishRemoval
<1>4. UNCHANGED up /\ up /\ tree' = tree \ nodes
  BY DEF FinishRemoval, Shape
<1> HIDE DEF nodes
<1>5. /\ Remaining(nodes) \in NativeType /\ Follows(Remaining(nodes), registry)
      /\ Remaining(nodes).slots =
           [r \in Slots |-> IF r[2] \in nodes THEN None ELSE native.slots[r]]
      /\ Remaining(nodes).subs =
           [c \in Callbacks |-> IF native.subs[c] \in nodes THEN None ELSE native.subs[c]]
  BY <1>1 DEF Remaining, NativeType, Follows
<1>6. /\ forgotten.native = Remaining(nodes) /\ forgotten.registry = registry
      /\ forgotten.tokens = tokens /\ forgotten.broken = FALSE /\ forgotten \in Bindings
  <2>1. Current \in Bindings /\ Current.registry = registry /\ Current.tokens = tokens
    BY DEF IInv, Good, Current
  <2> HIDE DEF Current
  <2> QED
    BY <2>1, <1>5 DEF Forgotten, Bindings
<1> HIDE DEF forgotten
<1>7. Good(forgotten, spent)
  BY <1>1, <1>5, <1>6 DEF Good, Bindings
<1>8. Good(s, spent)
  BY <1>2, <1>5, <1>6, <1>7, ReleasedGood
<1>9. [s EXCEPT !.broken = @ \/ broken].broken = (s.broken \/ broken)
  BY <1>8 DEF Good, Bindings
<1>10. CASE s.broken \/ broken
  <2>1. Sound([s EXCEPT !.broken = @ \/ broken], tree')
    BY <1>9, <1>10 DEF Sound
  <2> QED
    BY <2>1, <1>3, <1>4, BecomesSound
<1>11. CASE ~(s.broken \/ broken)
  <2> DEFINE here == SlotsOf(nodes)
             subs == SubsOf(registry, nodes)
             left == Without(registry, here, subs, nodes)
  <2>1. s = Dropping(forgotten, here, subs, nodes)
    BY <1>6, <1>7, <1>11, ReleasedBreaks
  <2>2. s.registry = left /\ s.native = Remaining(nodes) /\ s.tokens = tokens
    BY <2>1, <1>6 DEF Dropping
  <2>3. /\ registry.slots = native.slots /\ registry.subs = native.subs
        /\ \A r \in Slots : registry.slots[r] # None => r[2] \in tree
        /\ \A n \in Nodes : registry.index[n] = {c \in Callbacks : registry.subs[c] = n}
        /\ \A c \in Callbacks :
             registry.subs[c] # None => registry.subs[c] \in tree /\ tokens[c] = "open"
    BY <1>11 DEF Agree, Sound, Current
  <2>4. /\ \A r \in Slots : r \in here <=> r[2] \in nodes
        /\ \A c \in Callbacks : c \in subs <=> registry.subs[c] \in nodes
    <3>1. \A r \in Slots : r \in here <=> r[2] \in nodes
      BY DEF SlotsOf, Slots
    <3>2. \A c \in Callbacks : c \in subs <=> registry.subs[c] \in nodes
      BY <2>3, <1>2 DEF SubsOf
    <3> QED
      BY <3>1, <3>2
  <2> HIDE DEF here, subs
  <2>5. /\ left.slots = [r \in Slots |-> IF r \in here THEN None ELSE registry.slots[r]]
        /\ left.subs = [c \in Callbacks |-> IF c \in subs THEN None ELSE registry.subs[c]]
        /\ left.index = [n \in Nodes |-> IF n \in nodes THEN {} ELSE registry.index[n]]
    BY DEF Without
  <2> HIDE DEF left
  <2>6. left.slots = Remaining(nodes).slots /\ left.subs = Remaining(nodes).subs
    BY <2>3, <2>4, <2>5, <1>5
  <2>7. \A r \in Slots : left.slots[r] # None => r[2] \in tree'
    BY <2>3, <2>4, <2>5, <1>4
  <2>8. \A c \in Callbacks : left.subs[c] # None => left.subs[c] \in tree' /\ tokens[c] = "open"
    BY <2>3, <2>4, <2>5, <1>4
  <2>9. ASSUME NEW n \in Nodes
        PROVE  left.index[n] = {c \in Callbacks : left.subs[c] = n}
    <3>1. registry.index[n] = {c \in Callbacks : registry.subs[c] = n}
      BY <2>3
    <3>2. n # None
      BY Constants_Assumption
    <3>3. CASE n \in nodes
      <4>1. \A c \in Callbacks : left.subs[c] # n
        BY <2>4, <2>5, <3>2, <3>3
      <4> QED
        BY <4>1, <2>5, <3>3
    <3>4. CASE n \notin nodes
      <4>1. \A c \in Callbacks : left.subs[c] = n <=> registry.subs[c] = n
        BY <2>4, <2>5, <3>2, <3>4
      <4> QED
        BY <4>1, <3>1, <2>5, <3>4
    <3> QED
      BY <3>3, <3>4
  <2>10. Sound(s, tree')
    BY <2>2, <2>6, <2>7, <2>8, <2>9 DEF Sound
  <2>11. [s EXCEPT !.broken = @ \/ broken] = s
    BY <1>8, <1>11 DEF Good, Bindings
  <2> QED
    BY <2>10, <2>11, <1>3, <1>4, BecomesSound
<1> QED
  BY <1>10, <1>11

\* An engine and a registry that are both empty agree.
LEMMA EmptySound ==
  ASSUME IInv, NEW owned
  PROVE  LET s == Emptied(EngineEmpty(owned))
         IN Sound(s, {}) /\ \A c \in Callbacks : s.registry.subs[c] = None
<1> DEFINE cleared == EngineEmpty(owned)
           s == Emptied(cleared)
<1>1. Good(cleared, spent) /\ cleared.native = NoBindings
  BY EngineEmptyGood
<1> HIDE DEF cleared
<1>2. s = [cleared EXCEPT !.registry = Without(cleared.registry, Slots, Callbacks, Nodes)]
  BY DEF Emptied, Dropping
<1>3. s.registry = Without(cleared.registry, Slots, Callbacks, Nodes) /\ s.native = NoBindings
  BY <1>1, <1>2 DEF Good, Bindings
<1> HIDE DEF s
<1>4. /\ s.registry.slots = [r \in Slots |-> None] /\ s.registry.subs = [c \in Callbacks |-> None]
      /\ s.registry.index = [n \in Nodes |-> {}]
      /\ s.native.slots = [r \in Slots |-> None] /\ s.native.subs = [c \in Callbacks |-> None]
  BY <1>3 DEF Without, NoBindings
<1>5. \A n \in Nodes : {c \in Callbacks : s.registry.subs[c] = n} = {}
  BY <1>4, Constants_Assumption
<1>6. Sound(s, {}) /\ \A c \in Callbacks : s.registry.subs[c] = None
  BY <1>4, <1>5 DEF Sound
<1> QED
  BY <1>6 DEF s, cleared

LEMMA EmptiedSound ==
  ASSUME IInv, Agree, Reset \/ DropUi
  PROVE  Agree'
<1>1. tree' = {}
  BY DEF Reset, DropUi
<1>2. ASSUME NEW owned, Becomes(Emptied(EngineEmpty(owned)))
      PROVE  Agree'
  <2>1. /\ Sound(Emptied(EngineEmpty(owned)), {})
        /\ \A c \in Callbacks : Emptied(EngineEmpty(owned)).registry.subs[c] = None
    BY EmptySound
  <2> QED
    BY <2>1, <1>1, <1>2, BecomesSound
<1>3. ASSUME NEW owned, NEW c \in Callbacks, Reset,
             Becomes(PanicsIn(Dropping(EngineEmpty(owned), Slots, Callbacks, {}), c))
      PROVE  Agree'
  <2>1. up' = up /\ up
    BY <1>3 DEF Reset, UiFree
  <2>2. Good(Dropping(EngineEmpty(owned), Slots, Callbacks, {}), spent)
    BY ClearedGood
  <2>3. PanicsIn(Dropping(EngineEmpty(owned), Slots, Callbacks, {}), c).broken
    BY <2>2 DEF Good, Bindings, PanicsIn
  <2> QED
    BY <1>3, <2>1, <2>3, BecomesSound DEF Sound
<1>4. CASE Reset
  <2>1. PICK owned :
          \/ Becomes(Emptied(EngineEmpty(owned)))
          \/ \E c \in Callbacks :
               Becomes(PanicsIn(Dropping(EngineEmpty(owned), Slots, Callbacks, {}), c))
    BY <1>4 DEF Reset
  <2> QED
    BY <2>1, <1>2, <1>3, <1>4
<1>5. CASE DropUi
  BY <1>2, <1>5 DEF DropUi
<1> QED
  BY <1>4, <1>5

LEMMA StepSound ==
  ASSUME IInv, Shape, Agree, [Next]_vars
  PROVE  Agree'
<1>1. CASE \E c \in Callbacks : \/ \E slot \in Slots : SetHandler(slot, c)
                                \/ \E n \in Nodes : Subscribe(n, c)
                                \/ Close(c)
  BY <1>1, SlotsSound, SubscribeSound, CloseSound
<1>2. CASE \E n \in Nodes : ClearHandler(n)
  BY <1>2, SlotsSound
<1>3. ASSUME \/ \E c \in Callbacks : Call(c)
             \/ \E n \in Nodes : AddNode(n) \/ RemoveSubtree(n)
             \/ \E k \in Components : Mount(k) \/ Unmount(k)
      PROVE  Agree'
  BY <1>3, UnchangedSound
  DEF Call, AddNode, RemoveSubtree, KeptMeanwhile, Mount, Unmount, Created, bindings
<1>4. ASSUME \/ \E k \in Components : Watch(k) \/ OpenCues(k) \/ DropComponent(k)
             \/ MountOk \/ MountFails
             \/ UNCHANGED vars
      PROVE  Agree'
  BY <1>4, UnchangedSound DEF Watch, OpenCues, DropComponent, MountOk, MountFails, bindings, vars
<1> QED
  BY <1>1, <1>2, <1>3, <1>4, ReturnSound, FinishRemovalSound, EmptiedSound DEF Next

\* Unless a destructor panicked, registry, engine, index and tokens agree, and have
\* callbacks only on nodes of the tree.
THEOREM RegistryIsEngine == Spec => []RegistryAgrees
<1> DEFINE UInv == IInv /\ Shape /\ Agree
<1>1. Init => UInv
  BY InitGood, InitShape, InitSound
<1>2. UInv /\ [Next]_vars => UInv'
  BY StepGood, StepShape, StepSound
<1>3. ASSUME UInv PROVE RegistryAgrees
  <2>1. TypeOK
    <3>1. /\ native \in NativeType /\ registry \in RegistryType
          /\ tokens \in [Callbacks -> TokenStates] /\ broken \in BOOLEAN
      BY <1>3 DEF IInv, Good, Bindings, Current
    <3>2. Len(removing) <= 1
      <4>1. removing = <<>> \/ \E r : removing = <<r>>
        BY <1>3 DEF Shape
      <4> QED
        BY <4>1
    <3> QED
      BY <3>1, <3>2, <1>3 DEF TypeOK, Shape, NativeType, RegistryType, TokenStates, ComponentType
  <2>2. Sound(Current, tree)
    BY <1>3 DEF Agree
  <2> QED
    BY <2>1, <2>2 DEF RegistryAgrees, Sound, Current
<1> QED
  BY <1>1, <1>2, <1>3, PTL DEF Spec

-----------------------------------------------------------------------------
\* Above is what its definition says, whatever Parent is: the nodes in every set that
\* has n and the parents of its members.
LEMMA AboveDef ==
  Above = [n \in Nodes |-> {n} \cup (IF Parent[n] = None THEN {} ELSE Above[Parent[n]])]
<1> DEFINE Upward(S) == \A x \in S : Parent[x] # None => Parent[x] \in S
           Up[n \in Nodes] == {m \in Nodes : \A S \in SUBSET Nodes : n \in S /\ Upward(S) => m \in S}
<1>1. ASSUME NEW n \in Nodes
      PROVE  Up[n] = {n} \cup (IF Parent[n] = None THEN {} ELSE Up[Parent[n]])
  <2>1. Parent[n] \in Nodes \cup {None}
    BY Constants_Assumption
  <2>2. n \in Up[n]
    OBVIOUS
  <2>3. CASE Parent[n] = None
    <3>1. {n} \in SUBSET Nodes /\ n \in {n} /\ Upward({n})
      BY <2>3
    <3> QED
      BY <2>2, <2>3, <3>1
  <2>4. CASE Parent[n] # None
    <3>1. ASSUME NEW m \in Up[Parent[n]] PROVE m \in Up[n]
      BY <2>1, <2>4
    <3>2. ASSUME NEW m \in Up[n], m # n PROVE m \in Up[Parent[n]]
      <4> SUFFICES ASSUME NEW S \in SUBSET Nodes, Parent[n] \in S, Upward(S)
                   PROVE  m \in S
        BY <2>1, <2>4, <3>2
      <4>1. S \cup {n} \in SUBSET Nodes /\ n \in S \cup {n} /\ Upward(S \cup {n})
        OBVIOUS
      <4> QED
        BY <4>1, <3>2
    <3> QED
      BY <2>2, <2>4, <3>1, <3>2
  <2> QED
    BY <2>3, <2>4, <2>1
<1> DEFINE Rec(f) == [n \in Nodes |-> {n} \cup (IF Parent[n] = None THEN {} ELSE f[Parent[n]])]
<1>2. Up = Rec(Up)
  BY <1>1
<1> HIDE DEF Up
<1>3. \E f : f = Rec(f)
  BY <1>2
<1> QED
  BY <1>3 DEF Above

\* A node below n, other than n, has its parent below n.
LEMMA BelowParent ==
  ASSUME NEW n \in Nodes
  PROVE  /\ n \in Below(n)
         /\ \A m \in Below(n) : m \in Nodes /\ (m # n => Parent[m] # None /\ Parent[m] \in Below(n))
<1>1. \A m \in Nodes :
        Above[m] = {m} \cup (IF Parent[m] = None THEN {} ELSE Above[Parent[m]])
  BY AboveDef
<1>2. \A m \in Nodes : Parent[m] \in Nodes \cup {None}
  BY Constants_Assumption
<1> QED
  BY <1>1, <1>2 DEF Below

\* The nodes of a failed component are gone, or are what is being removed; those of an
\* unmounted one are gone, and its watches and cues.  No node below can come back: its
\* root was made, and is made once.
Gone(k) == Below(k) \cap tree = {}
Torn(k) ==
  /\ component[k].state \in {"failed", "unmounted"} => k \in made
  /\ component[k].state = "failed" => Gone(k) \/ \E i \in DOMAIN removing : removing[i].root = k
  /\ component[k].state = "unmounted" => Gone(k) /\ ~component[k].watching /\ ~component[k].cues

\* What is built was made, and what unmount removes is the component's.
Rooted ==
  /\ \A i \in DOMAIN building : building[i].component \in made
  /\ \A i \in DOMAIN removing :
       removing[i].unmounts # None => removing[i].unmounts = removing[i].root /\ removing[i].root \in made

TInv == Rooted /\ \A k \in Components : Torn(k)

LEMMA StaysGone ==
  ASSUME Shape, NEW k \in Components, k \in made, Gone(k),
         tree' \subseteq tree \/ \E n \in Nodes : Created(n)
  PROVE  Gone(k)'
<1>1. CASE tree' \subseteq tree
  BY <1>1 DEF Gone
<1>2. ASSUME NEW n \in Nodes, Created(n)
      PROVE  Gone(k)'
  <2>1. n # k /\ tree' = tree \cup {n} /\ (Parent[n] # None => Parent[n] \in tree)
    BY <1>2 DEF Created
  <2>2. n \notin Below(k)
    BY <2>1, BelowParent, Constants_Assumption DEF Gone
  <2> QED
    BY <2>1, <2>2 DEF Gone
<1> QED
  BY <1>1, <1>2

\* An action that removes nothing and leaves the component alone.
LEMMA StaysTorn ==
  ASSUME Shape, NEW k \in Components, Torn(k), component'[k] = component[k],
         made \subseteq made', removing = <<>> \/ removing' = removing,
         tree' \subseteq tree \/ \E n \in Nodes : Created(n)
  PROVE  Torn(k)'
<1>1. k \in made /\ Gone(k) => Gone(k)'
  BY StaysGone
<1>2. CASE removing = <<>>
  BY <1>1, <1>2 DEF Torn
<1>3. CASE removing' = removing
  BY <1>1, <1>3 DEF Torn
<1> QED
  BY <1>2, <1>3

LEMMA InitTorn ==
  ASSUME Init
  PROVE  TInv
  BY DEF Init, TInv, Rooted, Torn

LEMMA CreatedTorn ==
  ASSUME Shape, TInv, NEW n \in Nodes, AddNode(n)
  PROVE  TInv'
<1>1. /\ UNCHANGED <<removing, building, component>> /\ Created(n) /\ made \subseteq made'
  BY DEF AddNode, Created
<1>2. Rooted'
  BY <1>1 DEF TInv, Rooted
<1>3. \A k \in Components : Torn(k)'
  BY <1>1, StaysTorn DEF TInv
<1> QED
  BY <1>2, <1>3 DEF TInv

LEMMA MountTorn ==
  ASSUME Shape, TInv, NEW c \in Components, Mount(c)
  PROVE  TInv'
<1>1. /\ UNCHANGED removing /\ Created(c) /\ made' = made \cup {c} /\ c \in Nodes
      /\ building' = Append(building, [component |-> c, depth |-> Len(frames)])
      /\ component' = [component EXCEPT ![c].state = "building"]
  BY Constants_Assumption DEF Mount, Created
<1>2. ASSUME NEW i \in DOMAIN building' PROVE building'[i].component \in made'
  <2>1. building \in Seq(Buildings)
    BY DEF Shape
  <2>2. \/ i \in DOMAIN building /\ building'[i] = building[i]
        \/ building'[i] = [component |-> c, depth |-> Len(frames)]
    BY <2>1, <1>1
  <2> QED
    BY <2>2, <1>1 DEF TInv, Rooted
<1>3. Rooted'
  BY <1>1, <1>2 DEF TInv, Rooted
<1>4. ASSUME NEW k \in Components PROVE Torn(k)'
  <2>1. CASE k = c
    BY <2>1, <1>1 DEF Torn, Shape, ComponentType
  <2>2. CASE k # c
    <3>1. component'[k] = component[k]
      BY <2>2, <1>1 DEF Shape, ComponentType
    <3> QED
      BY <3>1, <1>1, StaysTorn DEF TInv
  <2> QED
    BY <2>1, <2>2
<1> QED
  BY <1>3, <1>4 DEF TInv

\* A failed component is what is removed next.
LEMMA MountEndsTorn ==
  ASSUME Shape, TInv, MountOk \/ MountFails
  PROVE  TInv'
<1> DEFINE c == Last(building).component
<1>1. /\ building # <<>> /\ building' = Front(building) /\ removing = <<>>
      /\ UNCHANGED <<tree, made>>
      /\ \/ UNCHANGED removing /\ component' = [component EXCEPT ![c].state = "mounted"]
         \/ /\ removing' = <<[root |-> c, unmounts |-> None, depth |-> Len(frames)]>>
            /\ component' = [component EXCEPT ![c].state = "failed"]
  BY DEF MountOk, MountFails, ScopeFree, Rollback
<1>2. c \in Components /\ c \in made
  BY <1>1, BuildingFront DEF Buildings, TInv, Rooted
<1>3. \A i \in DOMAIN building' : building'[i].component \in made'
  BY <1>1, BuildingFront DEF TInv, Rooted
<1> HIDE DEF c
<1>4. \A i \in DOMAIN removing' : removing'[i].unmounts = None
  BY <1>1
<1>5. Rooted'
  BY <1>3, <1>4 DEF Rooted
<1>6. ASSUME NEW k \in Components PROVE Torn(k)'
  <2>1. component \in ComponentType
    BY DEF Shape
  <2>2. CASE k # c
    <3>1. component'[k] = component[k]
      BY <2>1, <2>2, <1>1, <1>2 DEF ComponentType
    <3> QED
      BY <3>1, <1>1, StaysTorn DEF TInv
  <2>3. CASE k = c /\ component' = [component EXCEPT ![c].state = "mounted"]
    BY <2>1, <2>3, <1>2 DEF ComponentType, Torn
  <2>4. CASE /\ k = c /\ component' = [component EXCEPT ![c].state = "failed"]
             /\ removing' = <<[root |-> c, unmounts |-> None, depth |-> Len(frames)]>>
    <3>1. component'[k].state = "failed"
      BY <2>1, <2>4, <1>2 DEF ComponentType
    <3>2. 1 \in DOMAIN removing' /\ removing'[1].root = k
      BY <2>4
    <3> QED
      BY <3>1, <3>2, <2>4, <1>1, <1>2 DEF Torn
  <2> QED
    BY <2>2, <2>3, <2>4, <1>1
<1> QED
  BY <1>5, <1>6 DEF TInv

LEMMA RemovalTorn ==
  ASSUME Shape, TInv,
         (\E n \in Nodes : RemoveSubtree(n)) \/ (\E k \in Components : Unmount(k))
  PROVE  TInv'
<1>1. /\ UNCHANGED <<tree, made, building, component>> /\ removing = <<>>
      /\ \E r : /\ removing' = <<r>>
                /\ r.unmounts # None => r.unmounts = r.root /\ r.root \in tree
  BY Constants_Assumption DEF RemoveSubtree, Unmount, UiFree
<1>2. Rooted'
  BY <1>1 DEF TInv, Rooted, Shape
<1>3. \A k \in Components : Torn(k)'
  BY <1>1, StaysTorn DEF TInv
<1> QED
  BY <1>2, <1>3 DEF TInv

\* The removal takes everything below the root, so the component it was for is gone.
LEMMA FinishRemovalTorn ==
  ASSUME Shape, TInv, FinishRemoval
  PROVE  TInv'
<1>1. PICK r \in Removals : removing = <<r>>
  BY DEF FinishRemoval, Shape
<1>2. /\ removing' = <<>> /\ tree' = tree \ Below(r.root) /\ UNCHANGED <<made, building>>
      /\ \/ component' = component
         \/ r.unmounts # None /\ component' = [component EXCEPT ![r.unmounts] = Closing(r.unmounts)]
  BY <1>1 DEF FinishRemoval
<1>3. /\ r.unmounts # None => r.unmounts = r.root /\ r.root \in made
      /\ \A i \in DOMAIN removing : removing[i] = r
      /\ r.unmounts \in Components \cup {None}
  BY <1>1 DEF TInv, Rooted, Removals
<1>4. Rooted'
  BY <1>2 DEF TInv, Rooted
<1>5. ASSUME NEW k \in Components PROVE Torn(k)'
  <2>1. Gone(k) => Gone(k)'
    BY <1>2 DEF Gone
  <2>2. k = r.root => Gone(k)'
    BY <1>2 DEF Gone
  <2>3. CASE component'[k] = component[k]
    BY <2>1, <2>2, <2>3, <1>2, <1>3 DEF TInv, Torn
  <2>4. CASE component'[k] # component[k]
    <3>1. k = r.unmounts /\ component'[k] = Closing(k)
      BY <2>4, <1>2, <1>3 DEF Shape, ComponentType
    <3> QED
      BY <3>1, <2>2, <1>2, <1>3, Constants_Assumption DEF Torn, Closing
  <2> QED
    BY <2>3, <2>4
<1> QED
  BY <1>4, <1>5 DEF TInv

\* Only a mounted component gets watches or cues.
LEMMA HolderTorn ==
  ASSUME Shape, TInv, NEW c \in Components, Watch(c) \/ OpenCues(c) \/ DropComponent(c)
  PROVE  TInv'
<1>1. /\ UNCHANGED <<tree, made, removing, building>> /\ component \in ComponentType
      /\ \A k \in Components : k # c => component'[k] = component[k]
      /\ component'[c].state \in {"mounted", "dropped"}
  BY DEF Watch, OpenCues, DropComponent, bindings, Shape, ComponentType
<1>2. Rooted'
  BY <1>1 DEF TInv, Rooted
<1>3. ASSUME NEW k \in Components PROVE Torn(k)'
  <2>1. CASE k = c
    BY <2>1, <1>1 DEF Torn
  <2>2. CASE k # c
    BY <2>2, <1>1, StaysTorn DEF TInv
  <2> QED
    BY <2>1, <2>2
<1> QED
  BY <1>2, <1>3 DEF TInv

LEMMA OthersTorn ==
  ASSUME Shape, TInv, UNCHANGED <<made, removing, building, component>>, tree' \subseteq tree
  PROVE  TInv'
<1>1. Rooted'
  BY DEF TInv, Rooted
<1>2. \A k \in Components : Torn(k)'
  BY StaysTorn DEF TInv
<1> QED
  BY <1>1, <1>2 DEF TInv

LEMMA StepTorn ==
  ASSUME Shape, TInv, [Next]_vars
  PROVE  TInv'
<1>1. ASSUME \/ \E c \in Callbacks : \/ \E slot \in Slots : SetHandler(slot, c)
                                     \/ \E n \in Nodes : Subscribe(n, c)
                                     \/ Close(c) \/ Call(c)
             \/ \E n \in Nodes : ClearHandler(n)
      PROVE  TInv'
  BY <1>1, OthersTorn DEF SetHandler, Subscribe, Close, Call, ClearHandler
<1>2. ASSUME Return \/ Reset \/ DropUi \/ UNCHANGED vars
      PROVE  TInv'
  BY <1>2, OthersTorn DEF Return, Reset, DropUi, vars
<1> QED
  BY <1>1, <1>2, CreatedTorn, MountTorn, MountEndsTorn, RemovalTorn, FinishRemovalTorn,
     HolderTorn DEF Next

\* Of a component whose construction failed no node is left, whatever was mounted in it;
\* an unmounted one has no node, watch or cue runtime.
THEOREM NothingIsLeft == Spec => []TeardownCompletes
<1> DEFINE UInv == Shape /\ TInv
<1>1. Init => UInv
  BY InitShape, InitTorn
<1>2. UInv /\ [Next]_vars => UInv'
  BY StepShape, StepTorn
<1>3. UInv => TeardownCompletes
  BY DEF TInv, Torn, Gone, TeardownCompletes
<1> QED
  BY <1>1, <1>2, <1>3, PTL DEF Spec

=============================================================================
