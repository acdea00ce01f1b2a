---------------------------- MODULE CraftSignal ----------------------------
(***************************************************************************)
(* SignalCore of drivers/rust/src/store.rs: the listeners of a Store or of *)
(* a Selector.  A signal is a record; the operators are its methods, and   *)
(* the emission loop itself is in CraftStore, because listeners re-enter.  *)
(*                                                                         *)
(* bindings keep their positions while an emission runs: an unsubscribed   *)
(* one is only marked, and the outermost emission compacts the list.       *)
(***************************************************************************)
EXTENDS Naturals, Sequences, SequencesExt, FiniteSets

NewSignal ==
  [bindings |-> <<>>,   \* of [id, active], oldest first
   index    |-> <<>>,   \* id -> position in bindings
   next     |-> 1, depth |-> 0, inactive |-> 0]

ActiveIds(s) == {b.id : b \in {c \in ToSet(s.bindings) : c.active}}

PositionOf(s, id) == CHOOSE p \in DOMAIN s.bindings : s.bindings[p].id = id

HasListener(s, id) == id \in DOMAIN s.index

RebuildIndex(s) ==
  [s EXCEPT !.index = [id \in ActiveIds(s) |-> PositionOf(s, id)]]

Subscribe(s) ==
  [s EXCEPT !.next = @ + 1,
            !.bindings = Append(@, [id |-> s.next, active |-> TRUE]),
            !.index = [id \in DOMAIN @ \cup {s.next} |->
                         IF id = s.next THEN Len(s.bindings) + 1 ELSE @[id]]]

Unsubscribe_StaleIndex(s, id) ==   \* a fault: no rebuild
  LET left == [s EXCEPT !.index = [k \in DOMAIN @ \ {id} |-> @[k]]]
  IN IF ~HasListener(s, id) THEN s
     ELSE IF s.depth > 0
     THEN [left EXCEPT !.bindings[s.index[id]].active = FALSE, !.inactive = @ + 1]
     ELSE [left EXCEPT !.bindings = RemoveAt(@, s.index[id])]

Unsubscribe(s, id) ==
  LET left == [s EXCEPT !.index = [k \in DOMAIN @ \ {id} |-> @[k]]]
  IN IF ~HasListener(s, id) THEN s
     ELSE IF s.depth > 0
     THEN [left EXCEPT !.bindings[s.index[id]].active = FALSE, !.inactive = @ + 1]
     ELSE RebuildIndex([left EXCEPT !.bindings = RemoveAt(@, s.index[id])])

Clear(s) ==
  LET marked == [p \in DOMAIN s.bindings |-> [s.bindings[p] EXCEPT !.active = FALSE]]
  IN [s EXCEPT !.index = <<>>,
               !.bindings = IF s.depth = 0 THEN <<>> ELSE marked,
               !.inactive = IF s.depth = 0 THEN 0
                            ELSE @ + Cardinality({p \in DOMAIN s.bindings :
                                                    s.bindings[p].active})]

EnterEmit(s) == [s EXCEPT !.depth = @ + 1]

\* retain: the bindings that are not marked, in their order.
Retained(bindings) ==
  LET kept[i \in 0 .. Len(bindings)] ==
        IF i = 0 THEN <<>>
        ELSE IF bindings[i].active THEN Append(kept[i - 1], bindings[i])
        ELSE kept[i - 1]
  IN kept[Len(bindings)]

\* The end of an emission; the outermost one drops the marked bindings.
LeaveEmit(s) ==
  LET left == [s EXCEPT !.depth = @ - 1]
  IN IF left.depth > 0 \/ s.inactive = 0 THEN left
     ELSE RebuildIndex([left EXCEPT !.bindings = Retained(@), !.inactive = 0])

\* Every live subscription is found at its own position, every closed one is
\* gone from the index, and the count of marked bindings is exact.
IndexAgrees(s) ==
  /\ DOMAIN s.index = ActiveIds(s)
  /\ \A id \in DOMAIN s.index :
       /\ s.index[id] \in DOMAIN s.bindings
       /\ s.bindings[s.index[id]].id = id
  /\ s.inactive = Cardinality({p \in DOMAIN s.bindings : ~s.bindings[p].active})
  /\ s.depth = 0 => s.inactive = 0
=============================================================================
