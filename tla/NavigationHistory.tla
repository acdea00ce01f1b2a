-------------------------- MODULE NavigationHistory --------------------------
(***************************************************************************)
(* The history of a stack Navigator, drivers/rust/src/navigation.rs: the   *)
(* entries, the current one and the id the next entry gets.  Indexes start *)
(* at 1, and the wrap-around of the 64-bit ids is not modelled.  The stack *)
(* driver always has a current entry.                                      *)
(***************************************************************************)
EXTENDS Naturals, Sequences

Kinds == {"push", "replace", "back", "forward"}

Entry(id, d) == [id |-> id, destination |-> d]

InitialHistory(d) == [entries |-> <<Entry(1, d)>>, current |-> 1, next |-> 2]

CurrentEntry(h) == h.entries[h.current]

EntryIds(h) == {h.entries[i].id : i \in DOMAIN h.entries}

\* A push forgets the entries ahead of the current one.
Push(h, d) ==
  [entries |-> Append(SubSeq(h.entries, 1, h.current), Entry(h.next, d)),
   current |-> h.current + 1,
   next    |-> h.next + 1]

Replace_NextStays(h, d) ==    \* a fault: the id is given again
  [h EXCEPT !.entries[h.current] = Entry(h.next, d)]

Replace(h, d) ==
  [entries |-> [h.entries EXCEPT ![h.current] = Entry(h.next, d)],
   current |-> h.current,
   next    |-> h.next + 1]

Possible(h, kind) ==
  CASE kind = "back" -> h.current > 1
    [] kind = "forward" -> h.current < Len(h.entries)
    [] OTHER -> TRUE

\* d is the destination of a push or a replace.
Step(h, kind, d) ==
  CASE kind = "push" -> Push(h, d)
    [] kind = "replace" -> Replace(h, d)
    [] kind = "back" -> [h EXCEPT !.current = @ - 1]
    [] kind = "forward" -> [h EXCEPT !.current = @ + 1]

\* There is a current entry, and no two entries share an identity.
HistoryOK(h) ==
  /\ h.current \in DOMAIN h.entries
  /\ \A i, j \in DOMAIN h.entries : h.entries[i].id = h.entries[j].id => i = j
  /\ \A i \in DOMAIN h.entries : h.entries[i].id < h.next
=============================================================================
