------------------------- MODULE CraftNavigation_proofs -------------------------
(***************************************************************************)
(* A screen host follows its navigator, shows one screen and keeps the     *)
(* focus of the entries left, for any number of screens, of entries and of *)
(* disturbances.                                                           *)
(*                                                                         *)
(* The properties are about the moments between two calls, so IInv says    *)
(* what they become in the middle of a sync: Told, that what is queued, or *)
(* else what is shown, is the current entry unless the host missed it;     *)
(* Shown, which screens are visible and which take input while the one     *)
(* being left still does, by the flag the host keeps of each; Ends, that a *)
(* transition runs between two calls only, with a hook to tell of its end, *)
(* and leaves a screen other than the active one.                          *)
(***************************************************************************)
EXTENDS CraftNavigation, TLAPS

Entries == [id : Nat \ {0}, destination : Destinations]
Histories == [entries : Seq(Entries), current : Nat, next : Nat]
ScreenRecords == [destination : Destinations, root : Roots,
                  fallback : Controls \cup {None}, active : BOOLEAN]
Changes == [change : BOOLEAN, entry : [id : Nat, destination : Destinations],
            ids : SUBSET Nat, kind : Kinds \cup {"none"}]
Moves == [at : {"moving", "focus"}, timed : BOOLEAN, from : Nat, left : Nat,
          kind : Kinds \cup {"none"}]
Phases == [at : {"idle"}] \cup [at : {"hook"}, timed : BOOLEAN] \cup Moves

\* A screen is being left by a sync in progress.
IsMoving == phase.at \in {"moving", "focus"}

Types ==
  /\ history \in Histories /\ HistoryOK(history)
  /\ screens \in Seq(ScreenRecords)
  /\ index \in 0 .. Len(screens) /\ entry \in Nat
  /\ pending \in Changes /\ phase \in Phases
  /\ \A e \in DOMAIN saved : saved[e] \in Controls
  /\ spec \in BOOLEAN /\ connected \in BOOLEAN /\ missed \in BOOLEAN
  /\ transition \in [out : 0 .. Len(screens), in : 0 .. Len(screens)]
  /\ made \in 0 .. MaxRoots /\ inert \subseteq Built /\ hidden \subseteq Built /\ gone \subseteq Built
  /\ focus \in Controls \cup {None}
  /\ hooks \in {"none", "started", "lost"}

\* A root, and a destination, is registered once.
Distinct ==
  /\ \A i \in DOMAIN screens : screens[i].root \in Built
  /\ \A i, j \in DOMAIN screens :
       screens[i].root = screens[j].root \/ screens[i].destination = screens[j].destination => i = j

\* Where a sync may be, and what is queued then.
Queued ==
  /\ entry = 0 <=> index = 0
  /\ pending.change => pending.entry.id # 0
  /\ phase.at = "hook" => pending.change
  /\ IsMoving => index # 0 /\ phase.from \in 0 .. Len(screens)

Told_Current ==
  ~missed => IF pending.change THEN pending.entry = CurrentEntry(history)
                               ELSE entry = CurrentEntry(history).id

Ends ==
  /\ Active => spec /\ IsIdle /\ transition.out \notin {0, index}
  /\ HooksPaired

Visible(i) == \/ i = index
              \/ Active /\ i = transition.out
              \/ IsMoving /\ i = phase.from
TakesInput(i) == i = index \/ (IsMoving /\ i = phase.from)

Shown ==
  \A i \in DOMAIN screens :
    screens[i].root \notin gone =>
      /\ screens[i].active <=> Visible(i)
      /\ screens[i].root \notin hidden <=> Visible(i)
      /\ screens[i].root \notin inert <=> TakesInput(i)

IInv == Types /\ Distinct /\ Queued /\ Told_Current /\ Ends /\ Shown

-----------------------------------------------------------------------------
\* The history.

LEMMA PushKeeps ==
  ASSUME NEW h \in Histories, HistoryOK(h), NEW d \in Destinations
  PROVE  Push(h, d) \in Histories /\ HistoryOK(Push(h, d))
<1> DEFINE n == h.current
           kept == SubSeq(h.entries, 1, n)
           new == Entry(h.next, d)
           s == Append(kept, new)
<1>1. n \in 1 .. Len(h.entries) /\ n \in Nat /\ h.next \in Nat
  BY DEF Histories, HistoryOK
<1>2. h.next # 0 /\ \A i \in 1 .. Len(h.entries) : h.entries[i].id < h.next /\ h.entries[i] \in Entries
  <2>1. h.entries \in Seq(Entries)
    BY DEF Histories
  <2>2. DOMAIN h.entries = 1 .. Len(h.entries)
    BY <2>1
  <2>3. \A i \in 1 .. Len(h.entries) : h.entries[i].id < h.next /\ h.entries[i] \in Entries
    BY <2>1, <2>2 DEF HistoryOK
  <2>4. h.entries[n].id < h.next /\ h.entries[n].id \in Nat
    BY <1>1, <2>3 DEF Entries
  <2> QED
    BY <1>1, <2>3, <2>4
<1>3. new \in Entries /\ new.id = h.next
  BY <1>1, <1>2 DEF Entries, Entry
<1>4. /\ kept \in Seq(Entries) /\ Len(kept) = n
      /\ \A i \in 1 .. n : kept[i] = h.entries[i]
  BY <1>1, <1>2 DEF Histories
<1>5. /\ s \in Seq(Entries) /\ Len(s) = n + 1 /\ s[n + 1] = new
      /\ \A i \in 1 .. n : s[i] = h.entries[i]
  <2> HIDE DEF kept, new
  <2> QED
    BY <1>1, <1>3, <1>4
<1>6. /\ Push(h, d) = [entries |-> s, current |-> n + 1, next |-> h.next + 1]
  BY DEF Push
<1>7. DOMAIN s = 1 .. n + 1
  BY <1>5, <1>1
<1> HIDE DEF n, kept, new, s
<1>8. \A i \in 1 .. n + 1 : s[i].id \in Nat /\ s[i].id <= h.next /\ (s[i].id = h.next => i = n + 1)
  <2> SUFFICES ASSUME NEW i \in 1 .. n + 1
               PROVE  s[i].id \in Nat /\ s[i].id <= h.next /\ (s[i].id = h.next => i = n + 1)
    OBVIOUS
  <2>1. CASE i = n + 1
    BY <1>1, <1>3, <1>5, <2>1
  <2>2. CASE i # n + 1
    <3>1. i \in 1 .. n /\ i \in 1 .. Len(h.entries)
      BY <1>1, <2>2
    <3>2. s[i].id < h.next /\ s[i].id \in Nat
      BY <1>2, <1>5, <3>1 DEF Entries
    <3> QED
      BY <1>1, <3>2
  <2> QED
    BY <2>1, <2>2
<1>9. \A i, j \in 1 .. n + 1 : s[i].id = s[j].id => i = j
  <2> SUFFICES ASSUME NEW i \in 1 .. n + 1, NEW j \in 1 .. n + 1, s[i].id = s[j].id
               PROVE  i = j
    OBVIOUS
  <2>1. CASE i = n + 1 \/ j = n + 1
    BY <1>3, <1>5, <1>8, <2>1
  <2>2. CASE i # n + 1 /\ j # n + 1
    <3>1. i \in 1 .. n /\ j \in 1 .. n /\ i \in 1 .. Len(h.entries) /\ j \in 1 .. Len(h.entries)
      BY <1>1, <2>2
    <3>2. DOMAIN h.entries = 1 .. Len(h.entries)
      BY DEF Histories
    <3> QED
      BY <1>5, <3>1, <3>2 DEF HistoryOK
  <2> QED
    BY <2>1, <2>2
<1>10. Push(h, d) \in Histories
  BY <1>1, <1>5, <1>6 DEF Histories
<1>11. HistoryOK(Push(h, d))
  <2>1. n + 1 \in 1 .. n + 1
    BY <1>1
  <2>2. \A i \in 1 .. n + 1 : s[i].id < h.next + 1
    BY <1>1, <1>8
  <2> QED
    BY <1>6, <1>7, <1>9, <2>1, <2>2 DEF HistoryOK
<1> QED
  BY <1>10, <1>11

LEMMA ReplaceKeeps ==
  ASSUME NEW h \in Histories, HistoryOK(h), NEW d \in Destinations
  PROVE  Replace(h, d) \in Histories /\ HistoryOK(Replace(h, d))
<1> DEFINE n == h.current
           new == Entry(h.next, d)
           s == [h.entries EXCEPT ![n] = new]
<1>1. /\ h.entries \in Seq(Entries) /\ DOMAIN h.entries = 1 .. Len(h.entries)
      /\ n \in 1 .. Len(h.entries) /\ n \in Nat /\ h.next \in Nat
  BY DEF Histories, HistoryOK
<1>2. \A i \in 1 .. Len(h.entries) :
        h.entries[i].id < h.next /\ h.entries[i].id \in Nat \ {0} /\ h.entries[i] \in Entries
  <2>1. \A i \in 1 .. Len(h.entries) : h.entries[i].id < h.next /\ h.entries[i] \in Entries
    BY <1>1 DEF HistoryOK
  <2> QED
    BY <2>1 DEF Entries
<1>3. new \in Entries /\ new.id = h.next
  BY <1>1, <1>2 DEF Entries, Entry
<1>4. s \in Seq(Entries) /\ DOMAIN s = 1 .. Len(h.entries)
  <2> HIDE DEF new, n
  <2> QED
    BY <1>1, <1>3
<1>5. \A i \in 1 .. Len(h.entries) : s[i] = IF i = n THEN new ELSE h.entries[i]
  BY <1>1
<1>6. Replace(h, d) = [entries |-> s, current |-> n, next |-> h.next + 1]
  BY DEF Replace
<1> HIDE DEF n, new, s
<1>7. Replace(h, d) \in Histories
  BY <1>1, <1>4, <1>6 DEF Histories
<1>8. \A i \in 1 .. Len(h.entries) : s[i].id < h.next + 1
  BY <1>1, <1>2, <1>3, <1>5
<1>9. \A i, j \in 1 .. Len(h.entries) : s[i].id = s[j].id => i = j
  <2>1. \A i, j \in 1 .. Len(h.entries) : h.entries[i].id = h.entries[j].id => i = j
    BY <1>1 DEF HistoryOK
  <2>2. \A i \in 1 .. Len(h.entries) : h.entries[i].id # h.next
    BY <1>1, <1>2
  <2> QED
    BY <1>3, <1>5, <2>1, <2>2
<1> QED
  BY <1>1, <1>4, <1>6, <1>7, <1>8, <1>9 DEF HistoryOK

LEMMA StepKeeps ==
  ASSUME NEW h \in Histories, HistoryOK(h), NEW kind \in Kinds, NEW d \in Destinations,
         Possible(h, kind)
  PROVE  Step(h, kind, d) \in Histories /\ HistoryOK(Step(h, kind, d))
<1>1. CASE kind = "push"
  BY <1>1, PushKeeps DEF Step
<1>2. CASE kind = "replace"
  BY <1>2, ReplaceKeeps DEF Step
<1>3. CASE kind \in {"back", "forward"}
  <2>1. PICK c \in Nat : /\ Step(h, kind, d) = [h EXCEPT !.current = c]
                         /\ c \in 1 .. Len(h.entries)
    <3>1. h.current \in 1 .. Len(h.entries) /\ h.current \in Nat
      BY DEF Histories, HistoryOK
    <3>2. CASE kind = "back"
      <4>1. /\ h.current - 1 \in Nat /\ h.current - 1 \in 1 .. Len(h.entries)
            /\ Step(h, kind, d) = [h EXCEPT !.current = h.current - 1]
        BY <3>1, <3>2 DEF Step, Possible
      <4> QED
        BY <4>1
    <3>3. CASE kind = "forward"
      <4>1. /\ h.current + 1 \in Nat /\ h.current + 1 \in 1 .. Len(h.entries)
            /\ Step(h, kind, d) = [h EXCEPT !.current = h.current + 1]
        BY <3>1, <3>3 DEF Step, Possible
      <4> QED
        BY <4>1
    <3> QED
      BY <1>3, <3>2, <3>3
  <2> QED
    BY <2>1 DEF Histories, HistoryOK
<1> QED
  BY <1>1, <1>2, <1>3 DEF Kinds

\* What the host is told of a history.
LEMMA ToldType ==
  ASSUME NEW h \in Histories, HistoryOK(h), NEW kind \in Kinds \cup {"none"}
  PROVE  /\ Told(h, kind) \in Changes /\ Told(h, kind).change = TRUE
         /\ Told(h, kind).entry = CurrentEntry(h) /\ CurrentEntry(h).id # 0
<1>1. \A i \in DOMAIN h.entries : h.entries[i] \in Entries
  BY DEF Histories
<1>2. CurrentEntry(h) \in Entries
  BY <1>1 DEF CurrentEntry, HistoryOK
<1>3. EntryIds(h) \in SUBSET Nat
  BY <1>1 DEF EntryIds, Entries
<1> QED
  BY <1>2, <1>3 DEF Told, Changes, Entries

-----------------------------------------------------------------------------
\* What an action that leaves the screens or the queue alone keeps.

LEMMA ScreensKept ==
  ASSUME Types, Distinct, Shown,
         UNCHANGED <<screens, index, transition, phase, made, inert, hidden>>, gone \subseteq gone'
  PROVE  Distinct' /\ Shown'
<1>1. Distinct'
  BY DEF Distinct, Built
<1>2. Shown'
  BY DEF Shown, Visible, TakesInput, Active, IsMoving
<1> QED
  BY <1>1, <1>2

LEMMA QueueKept ==
  ASSUME Types, Queued, Told_Current, UNCHANGED <<history, screens, index, entry, pending, phase>>,
         missed' = FALSE => missed = FALSE
  PROVE  Queued' /\ Told_Current'
<1>1. Queued'
  BY DEF Queued, IsMoving
<1>2. Told_Current'
  BY DEF Told_Current, CurrentEntry, Types
<1> QED
  BY <1>1, <1>2

LEMMA EndsKept ==
  ASSUME Ends, UNCHANGED <<index, spec, transition, phase, hooks>>
  PROVE  Ends'
BY DEF Ends, HooksPaired, Active, IsIdle

-----------------------------------------------------------------------------
\* The application: navigations, the queue and the configuration.

LEMMA NavigateKeeps ==
  ASSUME IInv, NEW kind \in Kinds, NEW d \in Destinations, Navigate(kind, d)
  PROVE  IInv'
<1> DEFINE h == Step(history, kind, d)
<1>1. h \in Histories /\ HistoryOK(h)
  BY StepKeeps DEF IInv, Types, Navigate, MayNavigate
<1>2. history' = h
  BY DEF Navigate
<1>3. /\ Told(h, kind) \in Changes /\ Told(h, kind).change = TRUE
      /\ Told(h, kind).entry = CurrentEntry(h) /\ CurrentEntry(h).id # 0
  <2> HIDE DEF h
  <2> QED
    BY <1>1, ToldType
<1>4. /\ UNCHANGED <<screens, index, entry, saved, spec, transition, connected, phase,
                     made, inert, hidden, gone, lost, focus, hooks>>
      /\ \/ connected /\ phase.at # "focus" /\ pending' = Told(h, kind) /\ missed' = FALSE
         \/ missed' = TRUE /\ UNCHANGED pending
      /\ phase.at # "moving"
  BY DEF Navigate, ui, MayNavigate
<1> HIDE DEF h
<1>5. Types'
  BY <1>1, <1>2, <1>3, <1>4 DEF IInv, Types, Built
<1>6. Distinct' /\ Shown'
  BY <1>4, ScreensKept DEF IInv
<1>7. Queued'
  BY <1>3, <1>4 DEF IInv, Queued, IsMoving
<1>8. Told_Current'
  BY <1>2, <1>3, <1>4 DEF IInv, Told_Current, CurrentEntry
<1>9. Ends'
  BY <1>4, EndsKept DEF IInv
<1> QED
  BY <1>5, <1>6, <1>7, <1>8, <1>9 DEF IInv

LEMMA RedirectKeeps ==
  ASSUME IInv, NEW d \in Destinations, NEW to \in Destinations, Redirect(d, to)
  PROVE  IInv'
<1> DEFINE h == Push(history, d)
<1>1. h \in Histories /\ HistoryOK(h)
  BY PushKeeps DEF IInv, Types
<1>2. history' = Replace(h, to) /\ pending' = Told(h, "push")
  BY DEF Redirect
<1>3. /\ UNCHANGED <<screens, index, entry, saved, spec, transition, connected, phase,
                     made, inert, hidden, gone, lost, focus, hooks>>
      /\ missed' = TRUE
  BY DEF Redirect, ui
<1> HIDE DEF h
<1>4. history' \in Histories /\ HistoryOK(history)'
  BY <1>1, <1>2, ReplaceKeeps DEF HistoryOK
<1>5. pending' \in Changes /\ pending'.change = TRUE /\ pending'.entry.id # 0
  BY <1>1, <1>2, ToldType DEF Kinds
<1>6. Types'
  BY <1>3, <1>4, <1>5 DEF IInv, Types, Built
<1>7. Distinct' /\ Shown'
  BY <1>3, ScreensKept DEF IInv
<1>8. Queued'
  BY <1>3, <1>5 DEF IInv, Queued, IsMoving, Redirect, IsIdle
<1>9. Told_Current'
  BY <1>3 DEF Told_Current
<1>10. Ends'
  BY <1>3, EndsKept DEF IInv
<1> QED
  BY <1>6, <1>7, <1>8, <1>9, <1>10 DEF IInv

LEMMA QueueCurrentKeeps ==
  ASSUME IInv, QueueCurrent
  PROVE  IInv'
<1>1. /\ UNCHANGED <<history, screens, index, entry, saved, spec, transition, connected, phase,
                     made, inert, hidden, gone, lost, focus, hooks>>
      /\ missed' = FALSE /\ pending' = Told(history, "none") /\ ~IsMoving
  BY DEF QueueCurrent, ui, IsMoving
<1>2. /\ pending' \in Changes /\ pending'.change = TRUE
      /\ pending'.entry = CurrentEntry(history) /\ pending'.entry.id # 0
  BY <1>1, ToldType DEF IInv, Types
<1>3. Types'
  BY <1>1, <1>2 DEF IInv, Types, Built
<1>4. Distinct' /\ Shown'
  BY <1>1, ScreensKept DEF IInv
<1>5. Queued'
  BY <1>1, <1>2 DEF IInv, Queued, IsMoving
<1>6. Told_Current'
  BY <1>1, <1>2 DEF Told_Current, CurrentEntry
<1>7. Ends'
  BY <1>1, EndsKept DEF IInv
<1> QED
  BY <1>3, <1>4, <1>5, <1>6, <1>7 DEF IInv

LEMMA DisconnectKeeps ==
  ASSUME IInv, Disconnect
  PROVE  IInv'
<1>1. /\ UNCHANGED <<history, screens, index, entry, pending, saved, spec, transition, phase,
                     made, inert, hidden, gone, lost, focus, missed, hooks>>
      /\ connected' = FALSE
  BY DEF Disconnect, ui
<1>2. Types'
  BY <1>1 DEF IInv, Types, Built
<1>3. Distinct' /\ Shown' /\ Queued' /\ Told_Current' /\ Ends'
  BY <1>1, ScreensKept, QueueKept, EndsKept DEF IInv
<1> QED
  BY <1>2, <1>3 DEF IInv

LEMMA SetTransitionKeeps ==
  ASSUME IInv, NEW on \in BOOLEAN, SetTransition(on)
  PROVE  IInv'
<1>1. /\ UNCHANGED <<history, screens, index, entry, pending, saved, transition, connected, phase,
                     made, inert, hidden, gone, lost, focus, missed, hooks>>
      /\ spec' = on /\ ~Active
  BY DEF SetTransition, ui
<1>2. Types'
  BY <1>1 DEF IInv, Types, Built
<1>3. Distinct' /\ Shown' /\ Queued' /\ Told_Current'
  BY <1>1, ScreensKept, QueueKept DEF IInv
<1>4. Ends'
  BY <1>1 DEF IInv, Ends, HooksPaired, Active, IsIdle
<1> QED
  BY <1>2, <1>3, <1>4 DEF IInv

\* Focus and removals behind the back of the host.
LEMMA UserKeeps ==
  ASSUME IInv, NEW root \in Roots,
         TakeFocus(<<root, 2>>) \/ RemoveControl(<<root, 2>>) \/ RemoveRoot(root)
  PROVE  IInv'
<1>1. /\ UNCHANGED <<history, screens, index, entry, pending, saved, spec, transition, connected,
                     phase, made, inert, hidden, missed, hooks>>
      /\ gone \subseteq gone' /\ gone' \subseteq gone \cup Built
      /\ focus' \in {focus, None, <<root, 2>>}
  BY DEF TakeFocus, RemoveControl, RemoveRoot, host, Blurred
<1>2. Types'
  <2>1. focus' \in Controls \cup {None}
    BY <1>1 DEF IInv, Types, Controls
  <2> QED
    BY <1>1, <2>1 DEF IInv, Types, Built
<1>3. Distinct' /\ Shown' /\ Queued' /\ Told_Current' /\ Ends'
  BY <1>1, ScreensKept, QueueKept, EndsKept DEF IInv
<1> QED
  BY <1>2, <1>3 DEF IInv

-----------------------------------------------------------------------------
\* The registered screens and their flags.

LEMMA IndexOfFinds ==
  ASSUME Types, Distinct, NEW d
  PROVE  \/ IndexOf(d) = 0 /\ \A i \in DOMAIN screens : screens[i].destination # d
         \/ IndexOf(d) \in DOMAIN screens /\ screens[IndexOf(d)].destination = d
<1> DEFINE found == {i \in DOMAIN screens : screens[i].destination = d}
<1>1. CASE found = {}
  BY <1>1 DEF IndexOf
<1>2. CASE found # {}
  <2>1. PICK i \in found : TRUE
    BY <1>2
  <2>2. \A j \in found : j = i
    BY <2>1 DEF Distinct
  <2>3. i \in Nat
    BY <2>1 DEF Types
  <2>4. IndexOf(d) = CHOOSE k \in found : \A j \in found : k <= j
    BY <1>2 DEF IndexOf
  <2>5. \A j \in found : i <= j
    BY <2>2, <2>3
  <2> HIDE DEF found
  <2>6. IndexOf(d) \in found
    BY <2>1, <2>4, <2>5
  <2> QED
    BY <2>6 DEF found
<1> QED
  BY <1>1, <1>2

LEMMA FlagSet ==
  ASSUME NEW s \in Seq(ScreenRecords), NEW i \in DOMAIN s, NEW b \in BOOLEAN,
         NEW t, t = [s EXCEPT ![i].active = b]
  PROVE  /\ t \in Seq(ScreenRecords) /\ Len(t) = Len(s) /\ DOMAIN t = DOMAIN s
         /\ \A j \in DOMAIN s : /\ t[j].root = s[j].root /\ t[j].destination = s[j].destination
                                /\ t[j].active = IF j = i THEN b ELSE s[j].active
<1> DEFINE new == [s[i] EXCEPT !.active = b]
<1>1. s[i] \in ScreenRecords
  OBVIOUS
<1>2. /\ new \in ScreenRecords /\ new.active = b
      /\ new.root = s[i].root /\ new.destination = s[i].destination
  BY <1>1 DEF ScreenRecords
<1>3. t = [s EXCEPT ![i] = new]
  OBVIOUS
<1> HIDE DEF new
<1>4. t \in Seq(ScreenRecords) /\ Len(t) = Len(s) /\ DOMAIN t = DOMAIN s
  BY <1>2, <1>3
<1>5. \A j \in DOMAIN s : t[j] = IF j = i THEN new ELSE s[j]
  BY <1>3
<1> QED
  BY <1>2, <1>4, <1>5

\* set_screen_active turns one screen on or off, for what the host keeps and
\* for the Ui alike, as long as the root is there.
LEMMA SetActiveShows ==
  ASSUME Types, Distinct, Shown, NEW i \in DOMAIN screens, NEW b \in BOOLEAN,
         Visible(i) <=> ~b, CanSetActive(i, b), SetActive(i, b)
  PROVE  /\ screens' \in Seq(ScreenRecords) /\ Len(screens') = Len(screens)
         /\ DOMAIN screens' = DOMAIN screens
         /\ inert' \subseteq Built /\ hidden' \subseteq Built
         /\ \A j \in DOMAIN screens : /\ screens'[j].root = screens[j].root
                                      /\ screens'[j].destination = screens[j].destination
         /\ \A j \in DOMAIN screens :
              screens[j].root \notin gone =>
                /\ screens'[j].active <=> IF j = i THEN b ELSE Visible(j)
                /\ screens[j].root \notin hidden' <=> IF j = i THEN b ELSE Visible(j)
                /\ screens[j].root \notin inert' <=> IF j = i THEN b ELSE TakesInput(j)
<1>1. CASE screens[i].active = b
  <2>1. UNCHANGED <<screens, inert, hidden>>
    BY <1>1 DEF SetActive
  <2>2. screens[i].root \in gone
    BY <1>1 DEF Shown
  <2>3. \A j \in DOMAIN screens : screens[j].root \notin gone => j # i
    BY <2>2
  <2> QED
    BY <2>1, <2>3 DEF Types, Shown
<1>2. CASE screens[i].active # b
  <2> DEFINE root == {screens[i].root}
  <2>1. /\ screens' = [screens EXCEPT ![i].active = b]
        /\ inert' = IF b THEN inert \ root ELSE inert \cup root
        /\ hidden' = IF b THEN hidden \ root ELSE hidden \cup root
    BY <1>2 DEF SetActive
  <2>2. screens \in Seq(ScreenRecords)
    BY DEF Types
  <2>3. /\ screens' \in Seq(ScreenRecords) /\ Len(screens') = Len(screens)
        /\ DOMAIN screens' = DOMAIN screens
        /\ \A j \in DOMAIN screens : /\ screens'[j].root = screens[j].root
                                     /\ screens'[j].destination = screens[j].destination
                                     /\ screens'[j].active = IF j = i THEN b ELSE screens[j].active
    BY <2>1, <2>2, FlagSet
  <2>4. inert' \subseteq Built /\ hidden' \subseteq Built
    BY <2>1 DEF Types, Distinct
  <2>5. ASSUME NEW j \in DOMAIN screens, screens[j].root \notin gone
        PROVE  /\ screens'[j].active <=> IF j = i THEN b ELSE Visible(j)
               /\ screens[j].root \notin hidden' <=> IF j = i THEN b ELSE Visible(j)
               /\ screens[j].root \notin inert' <=> IF j = i THEN b ELSE TakesInput(j)
    <3>1. CASE j = i
      BY <2>1, <2>3, <3>1
    <3>2. CASE j # i
      <4>1. screens[j].root # screens[i].root
        BY <3>2 DEF Distinct
      <4>2. (screens[j].root \in hidden' <=> screens[j].root \in hidden)
            /\ (screens[j].root \in inert' <=> screens[j].root \in inert)
        BY <2>1, <4>1
      <4>3. screens'[j].active = screens[j].active
        BY <2>3, <3>2
      <4> QED
        BY <2>5, <3>2, <4>2, <4>3 DEF Shown
    <3> QED
      BY <3>1, <3>2
  <2> QED
    BY <2>3, <2>4, <2>5
<1> QED
  BY <1>1, <1>2

\* Each screen keeps its root and destination.
LEMMA DistinctKept ==
  ASSUME Distinct, UNCHANGED made, DOMAIN screens' = DOMAIN screens,
         \A j \in DOMAIN screens : /\ screens'[j].root = screens[j].root
                                   /\ screens'[j].destination = screens[j].destination
  PROVE  Distinct'
BY DEF Distinct, Built

\* cancel_transition and advance_transition.
LEMMA SettleKeeps ==
  ASSUME IInv, Active, Settle, UNCHANGED <<index, spec, gone, made>>,
         phase' \in Phases, ~IsMoving'
  PROVE  /\ screens' \in Seq(ScreenRecords) /\ Len(screens') = Len(screens)
         /\ inert' \subseteq Built /\ hidden' \subseteq Built
         /\ transition' = NoTransition /\ hooks' \in {"none", "lost"}
         /\ Distinct' /\ Shown' /\ Ends'
<1> DEFINE i == transition.out
<1>1. i \in DOMAIN screens /\ i # index /\ spec /\ ~IsMoving
  BY DEF IInv, Types, Ends, IsIdle, IsMoving
<1>2. Visible(i) /\ ~TakesInput(i)
  BY <1>1 DEF Visible, TakesInput
<1>3. transition' = NoTransition /\ hooks' \in {"none", "lost"}
  BY <1>1 DEF Settle
<1>4. ~Active'
  BY <1>3 DEF Active
<1>5. Ends'
  BY <1>3, <1>4 DEF Ends, HooksPaired
<1>6. \A j \in DOMAIN screens :
        /\ Visible(j)' <=> j = index
        /\ TakesInput(j)' <=> j = index
        /\ TakesInput(j) <=> j = index
        /\ Visible(j) <=> j \in {index, i}
  BY <1>1, <1>4 DEF Visible, TakesInput, IsMoving
<1>7. CASE Settles
  <2>1. CanSetActive(i, FALSE) /\ SetActive(i, FALSE)
    BY <1>7 DEF Settle, Settles
  <2> HIDE DEF i
  <2>2. /\ screens' \in Seq(ScreenRecords) /\ Len(screens') = Len(screens)
        /\ DOMAIN screens' = DOMAIN screens
        /\ inert' \subseteq Built /\ hidden' \subseteq Built
        /\ \A j \in DOMAIN screens : /\ screens'[j].root = screens[j].root
                                     /\ screens'[j].destination = screens[j].destination
        /\ \A j \in DOMAIN screens :
             screens[j].root \notin gone =>
               /\ screens'[j].active <=> IF j = i THEN FALSE ELSE Visible(j)
               /\ screens[j].root \notin hidden' <=> IF j = i THEN FALSE ELSE Visible(j)
               /\ screens[j].root \notin inert' <=> IF j = i THEN FALSE ELSE TakesInput(j)
    BY <1>1, <1>2, <2>1, SetActiveShows DEF IInv
  <2>3. Distinct'
    BY <2>2, DistinctKept DEF IInv
  <2>4. Shown'
    BY <1>1, <1>6, <2>2 DEF Shown
  <2> QED
    BY <1>3, <1>5, <2>2, <2>3, <2>4
<1>8. CASE ~Settles
  <2>1. UNCHANGED <<screens, inert, hidden>> /\ screens[i].root \in gone
    BY <1>8 DEF Settle, Settles, CanSetActive
  <2>2. \A j \in DOMAIN screens : screens[j].root \notin gone => j # i
    BY <2>1
  <2> HIDE DEF i
  <2>3. Shown'
    BY <1>6, <2>1, <2>2 DEF IInv, Shown
  <2>4. Distinct'
    BY <2>1 DEF IInv, Distinct, Built
  <2> QED
    BY <1>3, <1>5, <2>1, <2>3, <2>4 DEF IInv, Types
<1> QED
  BY <1>7, <1>8

LEMMA CancellationKeeps ==
  ASSUME IInv, NEW timed \in BOOLEAN, CancelTransition \/ Advance \/ SyncCancels(timed)
  PROVE  IInv'
<1>1. /\ Active /\ Settle /\ IsIdle
      /\ UNCHANGED <<history, index, entry, pending, saved, spec, connected, made, gone,
                     lost, focus, missed>>
      /\ phase' \in {phase, Idle, [at |-> "hook", timed |-> timed]}
      /\ phase'.at = "hook" => pending.change
  BY DEF CancelTransition, Advance, SyncCancels, Idle, IsIdle
<1>2. phase' \in Phases /\ ~IsMoving'
  BY <1>1 DEF IInv, Types, Phases, IsIdle, IsMoving, Idle
<1>3. /\ screens' \in Seq(ScreenRecords) /\ Len(screens') = Len(screens)
      /\ inert' \subseteq Built /\ hidden' \subseteq Built
      /\ transition' = NoTransition /\ hooks' \in {"none", "lost"}
      /\ Distinct' /\ Shown' /\ Ends'
  BY <1>1, <1>2, SettleKeeps
<1>4. transition' \in [out : 0 .. Len(screens'), in : 0 .. Len(screens')]
  BY <1>3 DEF NoTransition
<1>5. Types'
  BY <1>1, <1>2, <1>3, <1>4 DEF IInv, Types, Built
<1>6. Queued' /\ Told_Current'
  BY <1>1, <1>2, <1>3 DEF IInv, Queued, Told_Current, CurrentEntry, IsMoving
<1> QED
  BY <1>3, <1>5, <1>6 DEF IInv

-----------------------------------------------------------------------------
\* Screens registered, removed and replaced.

LEMMA Appended ==
  ASSUME NEW S, NEW s \in Seq(S), NEW x \in S
  PROVE  /\ Append(s, x) \in Seq(S) /\ Len(Append(s, x)) = Len(s) + 1
         /\ \A i \in 1 .. Len(s) : Append(s, x)[i] = s[i]
         /\ Append(s, x)[Len(s) + 1] = x
OBVIOUS

LEMMA Removed ==
  ASSUME NEW S, NEW s \in Seq(S), NEW i \in 1 .. Len(s)
  PROVE  /\ RemoveAt(s, i) \in Seq(S) /\ Len(RemoveAt(s, i)) = Len(s) - 1
         /\ \A j \in 1 .. Len(s) - 1 : RemoveAt(s, i)[j] = s[IF j < i THEN j ELSE j + 1]
<1> DEFINE a == SubSeq(s, 1, i - 1)
           b == SubSeq(s, i + 1, Len(s))
           t == RemoveAt(s, i)
<1>1. Len(s) \in Nat /\ i \in Nat
  OBVIOUS
<1>2. a \in Seq(S) /\ Len(a) = i - 1 /\ \A j \in 1 .. i - 1 : a[j] = s[j]
  BY <1>1
<1>3. b \in Seq(S) /\ Len(b) = Len(s) - i /\ \A j \in 1 .. Len(s) - i : b[j] = s[i + j]
  BY <1>1
<1>4. t = a \o b
  BY DEF RemoveAt
<1> HIDE DEF a, b, t
<1>5. t \in Seq(S) /\ Len(t) = Len(s) - 1
  <2>1. \A x, y \in Seq(S) : x \o y \in Seq(S) /\ Len(x \o y) = Len(x) + Len(y)
    OBVIOUS
  <2>2. t \in Seq(S) /\ Len(t) = Len(a) + Len(b)
    BY <1>2, <1>3, <1>4, <2>1
  <2> QED
    BY <1>1, <1>2, <1>3, <2>2
<1>6. ASSUME NEW j \in 1 .. Len(s) - 1
      PROVE  t[j] = s[IF j < i THEN j ELSE j + 1]
  <2>1. CASE j < i
    <3>1. j \in 1 .. Len(a)
      BY <1>1, <1>2, <2>1
    <3>2. t[j] = a[j]
      BY <1>2, <1>3, <1>4, <3>1
    <3> QED
      BY <1>1, <1>2, <2>1, <3>2
  <2>2. CASE ~(j < i)
    <3>1. j - Len(a) \in 1 .. Len(b) /\ i + (j - Len(a)) = j + 1
      BY <1>1, <1>2, <1>3, <2>2
    <3>2. \A k \in 1 .. Len(a) + Len(b) : k > Len(a) => (a \o b)[k] = b[k - Len(a)]
      BY <1>2, <1>3
    <3>3. t[j] = b[j - Len(a)]
      BY <1>1, <1>2, <1>3, <1>4, <2>2, <3>2
    <3> QED
      BY <1>1, <1>2, <1>3, <2>2, <3>1, <3>3
  <2> QED
    BY <2>1, <2>2
<1> QED
  BY <1>5, <1>6 DEF t

LEMMA RegisterKeeps ==
  ASSUME IInv, NEW d \in Destinations, NEW root \in Roots, Register(d, root)
  PROVE  IInv'
<1> DEFINE n == Len(screens) + 1
<1>1. /\ UNCHANGED <<history, index, entry, pending, saved, spec, transition, connected, phase,
                     gone, lost, focus, missed, hooks>>
      /\ IsIdle /\ ~IsMoving /\ IndexOf(d) = 0
      /\ \A i \in DOMAIN screens : screens[i].root # root
  BY DEF Register, IsIdle, IsMoving, Registered
<1>2. PICK new \in ScreenRecords :
        /\ screens' = Append(screens, new) /\ new.root = root /\ new.destination = d
        /\ \/ root \in gone /\ UNCHANGED <<made, inert, hidden>>
           \/ /\ root = Fresh /\ made' = root /\ new.active = FALSE
              /\ inert' = inert \cup {root} /\ hidden' = hidden \cup {root}
  <2>1. CASE root \in gone
    <3> DEFINE mid == [Screen(d, root) EXCEPT !.fallback = None]
               new == [mid EXCEPT !.active = TRUE]
    <3>1. screens' = Append(screens, new) /\ UNCHANGED <<made, inert, hidden>>
      BY <2>1 DEF Register
    <3>2. Screen(d, root) \in ScreenRecords
      BY DEF ScreenRecords, Screen, Controls
    <3>3. mid \in ScreenRecords /\ mid.root = root /\ mid.destination = d
      BY <3>2 DEF ScreenRecords, Screen
    <3>4. new \in ScreenRecords /\ new.root = root /\ new.destination = d
      <4> HIDE DEF mid
      <4> QED
        BY <3>3 DEF ScreenRecords
    <3> HIDE DEF new
    <3> QED
      BY <2>1, <3>1, <3>4
  <2>2. CASE root \notin gone
    <3>1. /\ screens' = Append(screens, Screen(d, root)) /\ root = Fresh /\ made' = root
          /\ inert' = inert \cup {root} /\ hidden' = hidden \cup {root}
      BY <2>2 DEF Register
    <3>2. /\ Screen(d, root) \in ScreenRecords /\ Screen(d, root).root = root
          /\ Screen(d, root).destination = d /\ Screen(d, root).active = FALSE
      BY DEF ScreenRecords, Screen, Controls
    <3> QED
      BY <3>1, <3>2
  <2> QED
    BY <2>1, <2>2
<1>3. screens \in Seq(ScreenRecords) /\ Len(screens) \in Nat /\ DOMAIN screens = 1 .. Len(screens)
  BY DEF IInv, Types
<1>4. /\ screens' \in Seq(ScreenRecords) /\ Len(screens') = n /\ screens'[n] = new
      /\ \A i \in DOMAIN screens : screens'[i] = screens[i]
  BY <1>2, <1>3, Appended
<1>5. DOMAIN screens' = 1 .. n /\ \A i \in 1 .. n : i = n \/ i \in DOMAIN screens
  BY <1>3, <1>4
<1>6. made \in Nat /\ Built \subseteq Built' /\ root \in Built' /\ made' \in 0 .. MaxRoots
  BY <1>2, Navigation_Assumption DEF IInv, Types, Built, Fresh, Roots
<1>7. Types'
  <2>1. index' \in 0 .. Len(screens') /\ transition' \in [out : 0 .. Len(screens'), in : 0 .. Len(screens')]
    BY <1>1, <1>3, <1>4 DEF IInv, Types
  <2>2. inert' \subseteq Built' /\ hidden' \subseteq Built' /\ gone' \subseteq Built'
    BY <1>1, <1>2, <1>6 DEF IInv, Types
  <2> QED
    BY <1>1, <1>4, <1>6, <2>1, <2>2 DEF IInv, Types
<1>8. Distinct'
  <2>1. \A i \in DOMAIN screens : screens[i].destination # d
    BY <1>1, <1>3, IndexOfFinds DEF IInv
  <2>2. \A i \in DOMAIN screens' : screens'[i].root \in Built'
    BY <1>2, <1>4, <1>5, <1>6 DEF IInv, Distinct
  <2> QED
    BY <1>1, <1>2, <1>4, <1>5, <2>1, <2>2 DEF IInv, Distinct
<1>9. Queued' /\ Told_Current'
  BY <1>1, <1>3, <1>4 DEF IInv, Queued, Told_Current, CurrentEntry, IsMoving
<1>10. Ends'
  BY <1>1, EndsKept DEF IInv
<1>11. Shown'
  <2>1. ~IsMoving' /\ n \notin {index, transition.out}
    BY <1>1, <1>3 DEF IInv, Types, IsMoving
  <2>2. \A i : (Visible(i)' <=> Visible(i)) /\ (TakesInput(i)' <=> TakesInput(i))
    BY <1>1, <2>1 DEF Visible, TakesInput, Active, IsMoving
  <2>3. ~Visible(n) /\ ~TakesInput(n)
    BY <1>1, <2>1 DEF Visible, TakesInput
  <2>4. \A i \in DOMAIN screens : screens[i].root \in inert' <=> screens[i].root \in inert
    BY <1>1, <1>2
  <2>5. \A i \in DOMAIN screens : screens[i].root \in hidden' <=> screens[i].root \in hidden
    BY <1>1, <1>2
  <2>6. SUFFICES ASSUME NEW i \in 1 .. n, screens'[i].root \notin gone
                 PROVE  /\ screens'[i].active <=> Visible(i)
                        /\ screens'[i].root \notin hidden' <=> Visible(i)
                        /\ screens'[i].root \notin inert' <=> TakesInput(i)
    BY <1>1, <1>5, <2>2 DEF Shown
  <2>7. CASE i = n
    BY <1>2, <1>4, <2>3, <2>6, <2>7
  <2>8. CASE i \in DOMAIN screens
    BY <1>4, <2>4, <2>5, <2>6, <2>8 DEF IInv, Shown
  <2> QED
    BY <1>5, <2>7, <2>8
<1> QED
  BY <1>7, <1>8, <1>9, <1>10, <1>11 DEF IInv

LEMMA UnregisterKeeps ==
  ASSUME IInv, NEW d \in Destinations, Unregister(d)
  PROVE  IInv'
<1> DEFINE i == IndexOf(d)
           n == Len(screens)
           root == screens[i].root
           at(j) == IF j < i THEN j ELSE j + 1
<1>1. /\ screens \in Seq(ScreenRecords) /\ n \in Nat /\ DOMAIN screens = 1 .. n
      /\ index \in 0 .. n /\ i \in 1 .. n
  BY IndexOfFinds DEF IInv, Types, Unregister
<1>2. root \in Built
  BY <1>1 DEF IInv, Distinct
<1>3. /\ UNCHANGED <<history, saved, spec, transition, connected, phase, made, inert,
                     hidden, lost, hooks>>
      /\ IsIdle /\ ~IsMoving /\ ~Active
      /\ screens' = RemoveAt(screens, i) /\ gone' = gone \cup {root}
      /\ focus' \in {focus, None}
  BY DEF Unregister, IsIdle, IsMoving, Blurred
<1>4. /\ index = i => index' = 0 /\ entry' = 0
      /\ index # i => index' = (IF i < index THEN index - 1 ELSE index) /\ entry' = entry
  BY <1>1 DEF Unregister
<1>5. \/ pending' = Told(history, "none") /\ missed' = FALSE
      \/ index # i /\ UNCHANGED pending /\ missed' = missed
      \/ UNCHANGED pending /\ missed' = TRUE
  BY DEF Unregister, IInv, Types
<1>6. /\ Told(history, "none") \in Changes /\ Told(history, "none").change = TRUE
      /\ Told(history, "none").entry = CurrentEntry(history) /\ CurrentEntry(history).id # 0
  BY ToldType DEF IInv, Types
<1> HIDE DEF i, n, root
<1>7. /\ screens' \in Seq(ScreenRecords) /\ Len(screens') = n - 1
      /\ \A j \in 1 .. n - 1 : screens'[j] = screens[at(j)]
  <2>1. /\ RemoveAt(screens, i) \in Seq(ScreenRecords) /\ Len(RemoveAt(screens, i)) = n - 1
        /\ \A j \in 1 .. n - 1 : RemoveAt(screens, i)[j] = screens[IF j < i THEN j ELSE j + 1]
    BY <1>1, Removed, Zenon DEF n
  <2> QED
    BY <1>3, <2>1
<1>8. DOMAIN screens' = 1 .. n - 1 /\ n - 1 \in Nat
  BY <1>1, <1>7
<1>9. /\ \A j \in 1 .. n - 1 : at(j) \in 1 .. n /\ at(j) # i
      /\ \A j, k \in 1 .. n - 1 : at(j) = at(k) => j = k
  BY <1>1
<1>10. \A j \in 1 .. n - 1 : j = index' <=> at(j) = index
  BY <1>1, <1>4
<1>11. index' \in 0 .. n - 1
  BY <1>1, <1>4
<1> HIDE DEF at
<1>12. Types'
  <2>1. transition' \in [out : 0 .. Len(screens'), in : 0 .. Len(screens')]
    BY <1>3, <1>7, <1>8 DEF Active, NoTransition
  <2>2. entry' \in Nat /\ focus' \in Controls \cup {None} /\ gone' \subseteq Built
    BY <1>2, <1>3, <1>4 DEF IInv, Types
  <2>3. pending' \in Changes /\ missed' \in BOOLEAN
    BY <1>5, <1>6 DEF IInv, Types
  <2> QED
    BY <1>3, <1>7, <1>11, <2>1, <2>2, <2>3 DEF IInv, Types, Built
<1>13. Distinct'
  <2>1. \A j \in 1 .. n - 1 : screens'[j].root \in Built
    BY <1>1, <1>7, <1>9 DEF IInv, Distinct
  <2>2. \A j, k \in 1 .. n - 1 :
          screens'[j].root = screens'[k].root \/ screens'[j].destination = screens'[k].destination
          => at(j) = at(k)
    BY <1>1, <1>7, <1>9 DEF IInv, Distinct
  <2> QED
    BY <1>3, <1>8, <1>9, <2>1, <2>2 DEF Distinct, Built
<1>14. Queued'
  <2>1. entry' = 0 <=> index' = 0
    BY <1>1, <1>4 DEF IInv, Queued
  <2>2. (pending.change => pending'.change) /\ (pending'.change => pending'.entry.id # 0)
    BY <1>5, <1>6 DEF IInv, Queued
  <2> QED
    BY <1>3, <2>1, <2>2 DEF IInv, Queued, IsMoving, IsIdle
<1>15. Told_Current'
  BY <1>3, <1>4, <1>5, <1>6 DEF IInv, Told_Current, CurrentEntry
<1>16. Ends'
  BY <1>3 DEF IInv, Ends, HooksPaired, Active
<1>17. Shown'
  <2>1. \A j \in 1 .. n - 1 : /\ Visible(j)' <=> at(j) = index
                              /\ TakesInput(j)' <=> at(j) = index
    BY <1>3, <1>10 DEF Visible, TakesInput, Active, IsMoving
  <2>2. \A j : (Visible(j) <=> j = index) /\ (TakesInput(j) <=> j = index)
    BY <1>3 DEF Visible, TakesInput
  <2> SUFFICES ASSUME NEW j \in 1 .. n - 1, screens'[j].root \notin gone'
               PROVE  /\ screens'[j].active <=> Visible(j)'
                      /\ screens'[j].root \notin hidden' <=> Visible(j)'
                      /\ screens'[j].root \notin inert' <=> TakesInput(j)'
    BY <1>8 DEF Shown
  <2>3. screens'[j] = screens[at(j)] /\ screens[at(j)].root \notin gone /\ at(j) \in DOMAIN screens
    BY <1>1, <1>3, <1>7, <1>9
  <2>4. /\ screens[at(j)].active <=> at(j) = index
        /\ screens[at(j)].root \notin hidden <=> at(j) = index
        /\ screens[at(j)].root \notin inert <=> at(j) = index
    BY <2>2, <2>3 DEF IInv, Shown
  <2> QED
    BY <1>3, <2>1, <2>3, <2>4
<1> QED
  BY <1>12, <1>13, <1>14, <1>15, <1>16, <1>17 DEF IInv

LEMMA RestoreFocusType ==
  ASSUME NEW records, \A e \in DOMAIN records : records[e] \in Controls,
         NEW off, NEW e, NEW screen \in ScreenRecords
  PROVE  RestoreFocus(records, off, e, screen) \in Controls \cup {None}
<1>1. screen.fallback \in Controls \cup {None} /\ <<screen.root, 1>> \in Controls
  BY DEF ScreenRecords, Controls
<1> QED
  BY <1>1 DEF RestoreFocus

LEMMA ReplaceScreenKeeps ==
  ASSUME IInv, NEW d \in Destinations, NEW root \in Roots, ReplaceScreen(d, root)
  PROVE  IInv'
<1> DEFINE i == IndexOf(d)
           n == Len(screens)
           shown == index = i
<1>1. /\ screens \in Seq(ScreenRecords) /\ n \in Nat /\ DOMAIN screens = 1 .. n
      /\ i \in 1 .. n /\ screens[i].destination = d
  BY IndexOfFinds DEF IInv, Types, ReplaceScreen
<1>2. /\ UNCHANGED <<history, index, entry, pending, spec, transition, connected, phase, lost,
                     missed, hooks>>
      /\ IsIdle /\ ~IsMoving /\ ~Active
      /\ \A j \in 1 .. n : screens[j].root # root
  BY <1>1 DEF ReplaceScreen, IsIdle, IsMoving, Registered
<1>3. PICK new \in ScreenRecords :
        /\ screens' = [screens EXCEPT ![i] = new]
        /\ new.root = root /\ new.destination = d
        /\ \/ root \in gone /\ UNCHANGED <<made, inert, hidden, gone, focus, saved>>
           \/ /\ root = Fresh /\ made' = root /\ (new.active <=> shown)
              /\ inert' = (IF shown THEN inert ELSE inert \cup {root})
              /\ hidden' = (IF shown THEN hidden ELSE hidden \cup {root})
              /\ gone' = gone \cup {screens[i].root}
              /\ \A e \in DOMAIN saved' : e \in DOMAIN saved /\ saved'[e] = saved[e]
              /\ \E f \in ScreenRecords : focus' \in {focus, None, RestoreFocus(saved', inert', entry, f)}
  <2> DEFINE made1 == [Screen(d, root) EXCEPT !.active = shown]
             made2 == [made1 EXCEPT !.active = ~shown]
  <2>1. made1 \in ScreenRecords /\ made1.root = root /\ made1.destination = d /\ made1.active = shown
    BY DEF ScreenRecords, Screen, Controls
  <2>2. made2 \in ScreenRecords /\ made2.root = root /\ made2.destination = d
    <3> HIDE DEF made1
    <3> QED
      BY <2>1 DEF ScreenRecords
  <2>3. CASE root \in gone
    <3>1. screens' = [screens EXCEPT ![i] = made2] /\ UNCHANGED <<made, inert, hidden, gone, focus, saved>>
      BY <2>3 DEF ReplaceScreen
    <3> HIDE DEF made2
    <3> QED
      BY <2>2, <2>3, <3>1
  <2>4. CASE root \notin gone
    <3>1. /\ screens' = [screens EXCEPT ![i] = made1] /\ root = Fresh /\ made' = root
          /\ inert' = (IF shown THEN inert ELSE inert \cup {root})
          /\ hidden' = (IF shown THEN hidden ELSE hidden \cup {root})
          /\ gone' = gone \cup {screens[i].root}
          /\ \A e \in DOMAIN saved' : e \in DOMAIN saved /\ saved'[e] = saved[e]
          /\ focus' \in {focus, None, RestoreFocus(saved', inert', entry, made1)}
      BY <2>4 DEF ReplaceScreen, Blurred
    <3> HIDE DEF made1
    <3> QED
      BY <2>1, <3>1
  <2> QED
    BY <2>3, <2>4
<1> HIDE DEF i, n
<1>4. /\ screens' \in Seq(ScreenRecords) /\ Len(screens') = n /\ DOMAIN screens' = 1 .. n
      /\ \A j \in 1 .. n : screens'[j] = IF j = i THEN new ELSE screens[j]
  BY <1>1, <1>3 DEF n
<1>5. made \in Nat /\ Built \subseteq Built' /\ root \in Built' /\ made' \in 0 .. MaxRoots
  BY <1>3, Navigation_Assumption DEF IInv, Types, Built, Fresh, Roots
<1>6. Types'
  <2>1. index' \in 0 .. Len(screens') /\ transition' \in [out : 0 .. Len(screens'), in : 0 .. Len(screens')]
    BY <1>2, <1>4 DEF IInv, Types, n
  <2>2. screens[i].root \in Built
    BY <1>1 DEF IInv, Distinct
  <2>3. inert' \subseteq Built' /\ hidden' \subseteq Built' /\ gone' \subseteq Built'
    BY <1>3, <1>5, <2>2 DEF IInv, Types
  <2>4. \A e \in DOMAIN saved' : saved'[e] \in Controls
    BY <1>3 DEF IInv, Types
  <2>5. focus' \in Controls \cup {None}
    <3>1. focus \in Controls \cup {None}
      BY DEF IInv, Types
    <3>2. \A f \in ScreenRecords : RestoreFocus(saved', inert', entry, f) \in Controls \cup {None}
      BY <2>4, RestoreFocusType
    <3> QED
      BY <1>3, <3>1, <3>2
  <2> QED
    BY <1>2, <1>4, <1>5, <2>1, <2>3, <2>4, <2>5 DEF IInv, Types
<1>7. Distinct'
  <2>1. \A j \in 1 .. n : screens'[j].root \in Built'
    BY <1>1, <1>3, <1>4, <1>5 DEF IInv, Distinct
  <2>2. \A j \in 1 .. n : j # i => screens[j].root # root /\ screens[j].destination # d
    BY <1>1, <1>2 DEF IInv, Distinct
  <2> QED
    BY <1>1, <1>3, <1>4, <2>1, <2>2 DEF IInv, Distinct
<1>8. Queued' /\ Told_Current'
  BY <1>2, <1>4 DEF IInv, Queued, Told_Current, CurrentEntry, IsMoving, n
<1>9. Ends'
  BY <1>2, EndsKept DEF IInv
<1>10. Shown'
  <2>1. \A j : (Visible(j)' <=> j = index) /\ (TakesInput(j)' <=> j = index)
    BY <1>2 DEF Visible, TakesInput, Active, IsMoving
  <2>2. \A j : (Visible(j) <=> j = index) /\ (TakesInput(j) <=> j = index)
    BY <1>2 DEF Visible, TakesInput
  <2> SUFFICES ASSUME NEW j \in 1 .. n, screens'[j].root \notin gone'
               PROVE  /\ screens'[j].active <=> Visible(j)'
                      /\ screens'[j].root \notin hidden' <=> Visible(j)'
                      /\ screens'[j].root \notin inert' <=> TakesInput(j)'
    BY <1>4 DEF Shown
  <2>3. CASE j = i
    <3>1. root \notin gone' /\ screens'[j] = new /\ gone \subseteq gone'
      BY <1>3, <1>4, <2>3
    <3>2. root = Fresh /\ root \notin Built
      BY <1>3, <1>5, <3>1 DEF Fresh, Built
    <3>3. root \notin inert /\ root \notin hidden
      BY <3>2 DEF IInv, Types
    <3> QED
      BY <1>3, <2>1, <2>3, <3>1, <3>3
  <2>4. CASE j # i
    <3>1. screens'[j] = screens[j] /\ screens[j].root \notin gone /\ screens[j].root # root
      BY <1>2, <1>3, <1>4, <2>4
    <3>2. /\ screens[j].root \in inert' <=> screens[j].root \in inert
          /\ screens[j].root \in hidden' <=> screens[j].root \in hidden
      BY <1>3, <3>1
    <3>3. /\ screens[j].active <=> j = index
          /\ screens[j].root \notin hidden <=> j = index
          /\ screens[j].root \notin inert <=> j = index
      BY <1>1, <2>2, <3>1 DEF IInv, Shown
    <3> QED
      BY <2>1, <3>1, <3>2, <3>3
  <2> QED
    BY <2>3, <2>4
<1> QED
  BY <1>6, <1>7, <1>8, <1>9, <1>10 DEF IInv

-----------------------------------------------------------------------------
\* sync: the records of the entry that is left, and the screen to come.

LEMMA LeavingRecords ==
  ASSUME Types
  PROVE  /\ \A e \in DOMAIN SavedOnLeaving : SavedOnLeaving[e] \in Controls
         /\ /\ index # 0 /\ focus # None /\ focus[1] = screens[index].root
            /\ entry \in pending.ids /\ pending.kind # "replace"
            => entry \in DOMAIN SavedOnLeaving /\ SavedOnLeaving[entry] = focus
<1> DEFINE holds == index # 0 /\ focus # None /\ focus[1] = screens[index].root
           left == IF holds
                   THEN [e \in DOMAIN saved \cup {entry} |-> IF e = entry THEN focus ELSE saved[e]]
                   ELSE saved
           kept == IF pending.kind = "replace" THEN DOMAIN left \ {entry}
                   ELSE DOMAIN left \cap pending.ids
<1>1. SavedOnLeaving = [e \in kept |-> left[e]] /\ kept \subseteq DOMAIN left
  BY DEF SavedOnLeaving
<1>2. CASE holds
  <2>1. /\ DOMAIN left = {entry} \cup DOMAIN saved
        /\ \A e \in DOMAIN left : left[e] = IF e = entry THEN focus ELSE saved[e]
    BY <1>2
  <2>2. focus \in Controls
    BY <1>2 DEF Types
  <2>3. \A e \in DOMAIN left : left[e] \in Controls
    BY <2>1, <2>2 DEF Types
  <2>4. pending.kind # "replace" /\ entry \in pending.ids => entry \in kept /\ left[entry] = focus
    BY <2>1
  <2> HIDE DEF left, kept
  <2> QED
    BY <1>1, <2>3, <2>4
<1>3. CASE ~holds
  <2>1. left = saved
    BY <1>3
  <2> HIDE DEF left, kept
  <2> QED
    BY <1>1, <1>3, <2>1 DEF Types
<1> QED
  BY <1>2, <1>3

\* The screen of the queued entry is shown while the one it follows still is.
LEMMA ActivateShows ==
  ASSUME IInv, NEW timed \in BOOLEAN, NEW i \in DOMAIN screens, ~IsMoving, ~Active, pending.change,
         Activate(i, timed), index = i \/ CanSetActive(i, TRUE),
         UNCHANGED <<history, spec, transition, connected, made, gone, lost, focus, missed, hooks>>
  PROVE  IInv'
<1>1. /\ index' = i /\ entry' = pending.entry.id /\ pending' = Finished
      /\ phase' = [at |-> "moving", timed |-> timed, from |-> index,
                   left |-> entry, kind |-> pending.kind]
      /\ saved' = SavedOnLeaving
      /\ IF index # i THEN SetActive(i, TRUE) ELSE UNCHANGED <<screens, inert, hidden>>
  BY DEF Activate
<1>2. /\ \A j : (Visible(j) <=> j = index) /\ (TakesInput(j) <=> j = index)
      /\ \A j : (Visible(j)' <=> j \in {i, index}) /\ (TakesInput(j)' <=> j \in {i, index})
      /\ IsMoving' /\ ~Active'
  BY <1>1 DEF Visible, TakesInput, Active, IsMoving
<1>3. /\ screens' \in Seq(ScreenRecords) /\ Len(screens') = Len(screens)
      /\ DOMAIN screens' = DOMAIN screens
      /\ inert' \subseteq Built /\ hidden' \subseteq Built
      /\ \A j \in DOMAIN screens : /\ screens'[j].root = screens[j].root
                                   /\ screens'[j].destination = screens[j].destination
      /\ \A j \in DOMAIN screens :
           screens[j].root \notin gone =>
             /\ screens'[j].active <=> j \in {i, index}
             /\ screens[j].root \notin hidden' <=> j \in {i, index}
             /\ screens[j].root \notin inert' <=> j \in {i, index}
  <2>1. CASE index = i
    BY <1>1, <1>2, <2>1 DEF IInv, Types, Shown
  <2>2. CASE index # i
    <3>1. ~Visible(i) /\ SetActive(i, TRUE) /\ CanSetActive(i, TRUE)
      BY <1>1, <1>2, <2>2
    <3> QED
      BY <1>2, <3>1, SetActiveShows DEF IInv
  <2> QED
    BY <2>1, <2>2
<1>4. phase' \in Phases /\ pending' \in Changes /\ ~pending'.change
  <2>1. pending' \in Changes /\ ~pending'.change
    BY <1>1, Navigation_Assumption DEF Finished, Changes, Entry, Home, Destinations
  <2>2. pending.kind \in Kinds \cup {"none"} /\ index \in Nat /\ entry \in Nat
    BY DEF IInv, Types, Changes
  <2> QED
    BY <1>1, <2>1, <2>2 DEF Phases, Moves
<1>5. entry' \in Nat \ {0} /\ index' \in 1 .. Len(screens) /\ index \in 0 .. Len(screens)
  BY <1>1 DEF IInv, Types, Queued, Changes
<1>6. Types'
  <2>1. \A e \in DOMAIN saved' : saved'[e] \in Controls
    BY <1>1, LeavingRecords DEF IInv
  <2> QED
    BY <1>3, <1>4, <1>5, <2>1 DEF IInv, Types, Built
<1>7. Distinct'
  BY <1>3, DistinctKept DEF IInv
<1>8. Queued'
  BY <1>1, <1>3, <1>4, <1>5 DEF Queued, IsMoving
<1>9. Told_Current'
  BY <1>1, <1>4 DEF IInv, Told_Current, CurrentEntry
<1>10. Ends'
  BY <1>2 DEF IInv, Ends, HooksPaired, Active
<1>11. Shown'
  BY <1>2, <1>3 DEF Shown
<1> QED
  BY <1>6, <1>7, <1>8, <1>9, <1>10, <1>11 DEF IInv

LEMMA ApplyKeeps ==
  ASSUME IInv, NEW timed \in BOOLEAN, ~IsMoving, ~Active, pending.change, Apply(timed)
  PROVE  IInv'
<1> DEFINE i == IndexOf(pending.entry.destination)
<1>1. UNCHANGED <<history, spec, transition, connected, made, gone, lost, focus, missed, hooks>>
  BY DEF Apply
<1>2. i # 0 => i \in DOMAIN screens
  BY IndexOfFinds DEF IInv
<1>3. CASE i # 0 /\ entry # pending.entry.id /\ (index = i \/ CanSetActive(i, TRUE))
  <2>1. Activate(i, timed)
    BY <1>3 DEF Apply
  <2> HIDE DEF i
  <2> QED
    BY <1>1, <1>2, <1>3, <2>1, ActivateShows
<1>4. CASE ~(i # 0 /\ entry # pending.entry.id /\ (index = i \/ CanSetActive(i, TRUE)))
  <2>1. /\ phase' = Idle /\ UNCHANGED <<screens, inert, hidden, index, entry>>
        /\ saved' \in {saved, SavedOnLeaving}
        /\ \/ UNCHANGED pending
           \/ entry = pending.entry.id /\ pending' = Finished
    BY <1>4 DEF Apply, Activate
  <2>2. /\ phase' \in Phases /\ ~IsMoving' /\ IsIdle'
        /\ pending' \in Changes
    <3>1. Finished \in Changes
      BY Navigation_Assumption DEF Finished, Changes, Entry, Home, Destinations
    <3> QED
      BY <2>1, <3>1 DEF Phases, Idle, IsMoving, IsIdle, IInv, Types
  <2>3. \A e \in DOMAIN saved' : saved'[e] \in Controls
    BY <2>1, LeavingRecords DEF IInv, Types
  <2>4. Types'
    BY <1>1, <2>1, <2>2, <2>3 DEF IInv, Types, Built
  <2>5. Distinct'
    BY <1>1, <2>1 DEF IInv, Distinct, Built
  <2>6. Queued'
    BY <2>1, <2>2 DEF IInv, Queued, IsIdle, Finished
  <2>7. Told_Current'
    BY <1>1, <2>1 DEF IInv, Told_Current, CurrentEntry, Finished
  <2>8. Ends'
    BY <1>1, <2>1 DEF IInv, Ends, HooksPaired, Active
  <2>9. Shown'
    BY <1>1, <2>1, <2>2 DEF IInv, Shown, Visible, TakesInput, Active
  <2> QED
    BY <2>4, <2>5, <2>6, <2>7, <2>8, <2>9 DEF IInv
<1> QED
  BY <1>3, <1>4

LEMMA MoveFocusKeeps ==
  ASSUME IInv, MoveFocus
  PROVE  IInv'
<1>1. /\ UNCHANGED <<history, screens, index, entry, pending, spec, transition, connected,
                     made, inert, hidden, gone, lost, missed, hooks>>
      /\ phase.at = "moving" /\ phase' = [phase EXCEPT !.at = "focus"]
      /\ \/ UNCHANGED <<focus, saved>>
         \/ /\ \A e \in DOMAIN saved' : e \in DOMAIN saved /\ saved'[e] = saved[e]
            /\ focus' = RestoreFocus(saved', inert, entry, screens[index])
  BY DEF MoveFocus
<1>2. phase \in Moves /\ phase' \in Moves /\ phase'.from = phase.from /\ phase'.at = "focus"
  BY <1>1 DEF IInv, Types, Phases, Moves
<1>3. IsMoving /\ IsMoving' /\ phase' \in Phases
  BY <1>1, <1>2 DEF IsMoving, Phases
<1>4. screens[index] \in ScreenRecords
  BY <1>3 DEF IInv, Types, Queued
<1>5. \A e \in DOMAIN saved' : saved'[e] \in Controls
  BY <1>1 DEF IInv, Types
<1>6. focus' \in Controls \cup {None}
  BY <1>1, <1>4, <1>5, RestoreFocusType DEF IInv, Types
<1>7. Types'
  BY <1>1, <1>3, <1>5, <1>6 DEF IInv, Types, Built
<1>8. Distinct'
  BY <1>1 DEF IInv, Distinct, Built
<1>9. Queued' /\ Told_Current'
  BY <1>1, <1>2, <1>3 DEF IInv, Queued, Told_Current, CurrentEntry
<1>10. Ends'
  BY <1>1 DEF IInv, Ends, HooksPaired, Active, IsIdle
<1>11. Shown'
  <2>1. \A j : (Visible(j)' <=> Visible(j)) /\ (TakesInput(j)' <=> TakesInput(j))
    BY <1>1, <1>2, <1>3 DEF Visible, TakesInput, Active
  <2> QED
    BY <1>1, <2>1 DEF IInv, Shown
<1> QED
  BY <1>7, <1>8, <1>9, <1>10, <1>11 DEF IInv

\* The screen left becomes inert under a transition, hidden otherwise.
LEMMA LeaveKeeps ==
  ASSUME IInv, Leave
  PROVE  IInv'
<1> DEFINE from == phase.from
           root == screens[from].root
           moves == phase.timed /\ spec /\ phase.kind # "none" /\ phase.left # 0
<1>1. /\ UNCHANGED <<history, index, entry, pending, saved, spec, connected, made, gone, lost,
                     missed>>
      /\ phase.at = "focus" /\ phase' = Idle
  BY DEF Leave
<1>2. IsMoving /\ ~Active /\ ~IsMoving' /\ IsIdle' /\ phase' \in Phases
  BY <1>1 DEF IInv, Ends, IsMoving, Idle, IsIdle, Phases
<1>3. index \in 1 .. Len(screens) /\ from \in 0 .. Len(screens)
  BY <1>2 DEF IInv, Types, Queued
<1>4. /\ \A j : (Visible(j) <=> j \in {index, from}) /\ (TakesInput(j) <=> j \in {index, from})
      /\ \A j : (Visible(j)' <=> j = index \/ (Active' /\ j = transition'.out))
                /\ (TakesInput(j)' <=> j = index)
  BY <1>1, <1>2 DEF Visible, TakesInput
<1>5. Queued' /\ Told_Current'
  BY <1>1, <1>2 DEF IInv, Queued, Told_Current, CurrentEntry, IsMoving, IsIdle
<1>6. \A x : focus' \in {focus, x, None} /\ x = None => focus' \in Controls \cup {None}
  BY DEF IInv, Types
\* Nothing else changes, or the screen left is gone and stays as it is.
<1>7. CASE /\ UNCHANGED <<screens, inert, hidden, transition, hooks>> /\ focus' \in {focus, None}
           /\ from \in {0, index} \/ root \in gone
  <2>1. Types'
    BY <1>1, <1>2, <1>6, <1>7 DEF IInv, Types, Built
  <2>2. Distinct' /\ Ends'
    BY <1>1, <1>2, <1>7 DEF IInv, Distinct, Built, Ends, HooksPaired, Active
  <2>3. ~Active'
    BY <1>2, <1>7 DEF Active
  <2>4. \A j \in DOMAIN screens : screens[j].root \notin gone => (j \in {index, from} <=> j = index)
    <3>1. 0 \notin DOMAIN screens
      BY DEF IInv, Types
    <3> QED
      BY <1>7, <3>1
  <2>5. Shown'
    BY <1>1, <1>4, <1>7, <2>3, <2>4 DEF IInv, Shown
  <2> QED
    BY <1>5, <2>1, <2>2, <2>5 DEF IInv
\* A transition starts.
<1>8. CASE /\ from \notin {0, index} /\ root \notin gone /\ spec
           /\ UNCHANGED <<screens, hidden>> /\ inert' = inert \cup {root}
           /\ focus' \in {focus, None}
           /\ transition' = [out |-> from, in |-> index] /\ hooks' = "started"
  <2>1. from \in DOMAIN screens
    BY <1>3, <1>8 DEF IInv, Types
  <2>2. root \in Built
    BY <2>1 DEF IInv, Distinct
  <2>3. Active' /\ transition'.out = from
    BY <1>8 DEF Active, NoTransition
  <2>4. transition' \in [out : 0 .. Len(screens'), in : 0 .. Len(screens')]
    BY <1>3, <1>8
  <2>5. Types'
    BY <1>1, <1>2, <1>6, <1>8, <2>2, <2>4 DEF IInv, Types, Built
  <2>6. Distinct' /\ Ends'
    BY <1>1, <1>2, <1>8, <2>3 DEF IInv, Distinct, Built, Ends, HooksPaired
  <2>7. \A j \in DOMAIN screens : j # from => screens[j].root # root
    BY <2>1 DEF IInv, Distinct
  <2> HIDE DEF from, root
  <2>8. Shown'
    <3> SUFFICES ASSUME NEW j \in DOMAIN screens, screens[j].root \notin gone
                 PROVE  /\ screens[j].active <=> Visible(j)'
                        /\ screens[j].root \notin hidden <=> Visible(j)'
                        /\ screens[j].root \notin inert' <=> TakesInput(j)'
      BY <1>1, <1>8 DEF Shown
    <3>1. /\ screens[j].active <=> j \in {index, from}
          /\ screens[j].root \notin hidden <=> j \in {index, from}
          /\ screens[j].root \notin inert <=> j \in {index, from}
      BY <1>4 DEF IInv, Shown
    <3>2. screens[j].root \notin inert' <=> j = index
      BY <1>8, <2>7, <3>1 DEF root
    <3> QED
      BY <1>4, <2>3, <3>1, <3>2
  <2> QED
    BY <1>5, <2>5, <2>6, <2>8 DEF IInv
\* It is hidden at once.
<1>9. CASE /\ from \notin {0, index} /\ CanSetActive(from, FALSE) /\ SetActive(from, FALSE)
           /\ UNCHANGED <<transition, hooks>> /\ focus' \in {focus, None}
  <2>1. from \in DOMAIN screens /\ Visible(from)
    BY <1>3, <1>4, <1>9 DEF IInv, Types
  <2> HIDE DEF from, root
  <2>2. /\ screens' \in Seq(ScreenRecords) /\ Len(screens') = Len(screens)
        /\ DOMAIN screens' = DOMAIN screens
        /\ inert' \subseteq Built /\ hidden' \subseteq Built
        /\ \A j \in DOMAIN screens : /\ screens'[j].root = screens[j].root
                                     /\ screens'[j].destination = screens[j].destination
        /\ \A j \in DOMAIN screens :
             screens[j].root \notin gone =>
               /\ screens'[j].active <=> IF j = from THEN FALSE ELSE Visible(j)
               /\ screens[j].root \notin hidden' <=> IF j = from THEN FALSE ELSE Visible(j)
               /\ screens[j].root \notin inert' <=> IF j = from THEN FALSE ELSE TakesInput(j)
    BY <1>9, <2>1, SetActiveShows DEF IInv
  <2>3. Types'
    BY <1>1, <1>2, <1>6, <1>9, <2>2 DEF IInv, Types, Built
  <2>4. Distinct'
    BY <1>1, <2>2, DistinctKept DEF IInv
  <2>5. Ends' /\ ~Active'
    BY <1>1, <1>2, <1>9 DEF IInv, Ends, HooksPaired, Active
  <2>6. Shown'
    BY <1>1, <1>4, <1>9, <2>2, <2>5 DEF Shown
  <2> QED
    BY <1>5, <2>3, <2>4, <2>5, <2>6 DEF IInv
<1>10. \/ from \in {0, index} /\ UNCHANGED <<screens, inert, hidden, transition, focus, hooks>>
       \/ /\ from \notin {0, index} /\ root \in gone
          /\ UNCHANGED <<screens, inert, hidden, transition, focus, hooks>>
       \/ /\ from \notin {0, index} /\ root \notin gone /\ spec
          /\ UNCHANGED <<screens, hidden>> /\ inert' = inert \cup {root}
          /\ focus' = Blurred({root})
          /\ transition' = [out |-> from, in |-> index] /\ hooks' = "started"
       \/ /\ from \notin {0, index} /\ UNCHANGED <<transition, hooks>>
          /\ focus' = Blurred({root})
          /\ \/ CanSetActive(from, FALSE) /\ SetActive(from, FALSE)
             \/ ~CanSetActive(from, FALSE) /\ UNCHANGED <<screens, inert, hidden>>
  BY DEF Leave
<1>11. Blurred({root}) \in {focus, None}
  BY DEF Blurred
<1>12. ~CanSetActive(from, FALSE) => root \in gone
  BY DEF CanSetActive
<1> QED
  BY <1>7, <1>8, <1>9, <1>10, <1>11, <1>12

-----------------------------------------------------------------------------
\* The invariant.

LEMMA InitHolds == Init => IInv
<1> SUFFICES ASSUME Init PROVE IInv
  OBVIOUS
<1>1. Screens \in Nat \ {0} /\ MaxRoots \in Nat /\ Screens < MaxRoots /\ Home \in Destinations
  BY Navigation_Assumption DEF Home, Destinations
<1>2. /\ screens = [d \in Destinations |-> Screen(d, d)] /\ Destinations = 1 .. Screens
      /\ Destinations \subseteq Roots
  BY <1>1 DEF Init, Destinations, Roots
<1>3. \A d \in Destinations : /\ Screen(d, d) \in ScreenRecords /\ Screen(d, d).root = d
                              /\ Screen(d, d).destination = d /\ Screen(d, d).active = FALSE
  BY <1>2 DEF ScreenRecords, Screen, Controls
<1>4. screens \in Seq(ScreenRecords) /\ Len(screens) = Screens /\ DOMAIN screens = Destinations
  <2>1. screens \in [1 .. Screens -> ScreenRecords]
    BY <1>2, <1>3
  <2>2. screens \in Seq(ScreenRecords)
    BY <1>1, <2>1
  <2> QED
    BY <1>1, <1>2, <2>1, <2>2
<1>5. \A d \in DOMAIN screens : screens[d].root = d /\ screens[d].destination = d /\ screens[d].active = FALSE
  BY <1>2, <1>3, <1>4
<1>6. made = Screens + 1 /\ Built = 1 .. Screens + 1 /\ Destinations \subseteq Built
  BY <1>1, <1>2 DEF Init, Built
<1>7. ~Active /\ IsIdle /\ ~IsMoving /\ transition = NoTransition
  BY DEF Init, Active, IsIdle, IsMoving, Idle
<1>8. history \in Histories /\ HistoryOK(history) /\ CurrentEntry(history) = Entry(1, Home)
  <2>1. history = [entries |-> <<Entry(1, Home)>>, current |-> 1, next |-> 2]
    BY DEF Init, InitialHistory
  <2>2. Entry(1, Home) \in Entries /\ Entry(1, Home).id = 1
    BY <1>1 DEF Entries, Entry
  <2>3. /\ <<Entry(1, Home)>> \in Seq(Entries) /\ DOMAIN <<Entry(1, Home)>> = {1}
        /\ <<Entry(1, Home)>>[1] = Entry(1, Home)
    BY <2>2
  <2> QED
    BY <2>1, <2>2, <2>3 DEF Histories, HistoryOK, CurrentEntry
<1>9. pending = [change |-> TRUE, entry |-> Entry(1, Home), ids |-> {1}, kind |-> "none"]
  BY DEF Init
<1>10. Types
  <2>1. pending \in Changes
    BY <1>1, <1>9 DEF Changes, Entry
  <2>2. phase \in Phases /\ transition \in [out : 0 .. Len(screens), in : 0 .. Len(screens)]
    BY <1>1, <1>4, <1>7 DEF Init, Phases, Idle, NoTransition
  <2>3. index = 0 /\ index \in 0 .. Len(screens) /\ entry \in Nat /\ made \in 0 .. MaxRoots
    BY <1>1, <1>4, <1>6 DEF Init
  <2>4. inert \subseteq Built /\ hidden \subseteq Built /\ gone \subseteq Built
    BY <1>1, <1>6 DEF Init
  <2>5. \A e \in DOMAIN saved : saved[e] \in Controls
    BY DEF Init
  <2> QED
    BY <1>4, <1>8, <2>1, <2>2, <2>3, <2>4, <2>5 DEF Init, Types
<1>11. Distinct
  BY <1>4, <1>5, <1>6 DEF Distinct
<1>12. Queued /\ Told_Current
  BY <1>1, <1>7, <1>8, <1>9 DEF Init, Queued, Told_Current, IsIdle, Entry
<1>13. Ends
  BY <1>7 DEF Init, Ends, HooksPaired
<1>14. Shown
  <2>1. index = 0 /\ 0 \notin DOMAIN screens /\ inert = Destinations /\ hidden = Destinations
    BY <1>1, <1>4 DEF Init, Destinations
  <2> QED
    BY <1>4, <1>5, <1>7, <2>1 DEF Shown, Visible, TakesInput
<1> QED
  BY <1>10, <1>11, <1>12, <1>13, <1>14 DEF IInv

LEMMA NextKeeps == IInv /\ [Next]_vars => IInv'
<1> SUFFICES ASSUME IInv, [Next]_vars PROVE IInv'
  OBVIOUS
<1>1. ASSUME NEW timed \in BOOLEAN, Sync(timed) \/ (HookReturns /\ timed = phase.timed)
      PROVE  IInv'
  <2>1. ~IsMoving /\ ~Active /\ pending.change /\ Apply(timed)
    BY <1>1 DEF IInv, Ends, Queued, Sync, HookReturns, IsMoving, IsIdle
  <2> QED
    BY <2>1, ApplyKeeps
<1>2. CASE HookReturns
  <2>1. phase.timed \in BOOLEAN
    BY <1>2 DEF IInv, Types, Phases, Moves, HookReturns
  <2> QED
    BY <1>1, <1>2, <2>1
<1>3. CASE UNCHANGED vars
  <2>1. UNCHANGED <<history, screens, index, entry, pending, saved, spec, transition, connected,
                    phase, made, inert, hidden, gone, lost, focus, missed, hooks>>
    BY <1>3 DEF vars, host, ui
  <2>2. Types'
    BY <2>1 DEF IInv, Types, Built
  <2> QED
    BY <2>1, <2>2, ScreensKept, QueueKept, EndsKept DEF IInv
<1>4. CASE Next
  BY <1>1, <1>2, <1>4, NavigateKeeps, RedirectKeeps, RegisterKeeps, ReplaceScreenKeeps,
     UnregisterKeeps, QueueCurrentKeeps, DisconnectKeeps, SetTransitionKeeps, CancellationKeeps,
     MoveFocusKeeps, LeaveKeeps, UserKeeps DEF Next
<1> QED
  BY <1>3, <1>4

LEMMA Inductive == Spec => []IInv
<1>1. Init => IInv
  BY InitHolds
<1>2. IInv /\ [Next]_vars => IInv'
  BY NextKeeps
<1> QED
  BY <1>1, <1>2, PTL DEF Spec

-----------------------------------------------------------------------------
\* The theorems.

\* The Navigator always has a current entry and its entries have identities of
\* their own (StackNavigationDriver), and the host keeps what it should.
THEOREM HistoryStaysSound == Spec => []HistoryIsSound
<1>1. IInv => HistoryIsSound
  <2> SUFFICES ASSUME IInv PROVE HistoryIsSound
    OBVIOUS
  <2>1. \A s \in ToSet(screens) : s \in ScreenRecords
    BY DEF IInv, Types, ToSet
  <2>2. \A s \in ToSet(screens) : /\ s.destination \in Destinations /\ s.root \in Roots
                                  /\ s.fallback \in Controls \cup {None}
                                  /\ s.active \in BOOLEAN
    BY <2>1 DEF ScreenRecords
  <2>3. Built \subseteq Roots
    BY Navigation_Assumption DEF IInv, Types, Built, Roots
  <2>4. ToSet(<<inert, hidden, gone>>) \subseteq SUBSET Roots
    <3>1. DOMAIN <<inert, hidden, gone>> = {1, 2, 3}
      OBVIOUS
    <3> QED
      BY <2>3, <3>1 DEF IInv, Types, ToSet
  <2>5. pending.change \in BOOLEAN
    BY DEF IInv, Types, Changes
  <2>6. transition.out \in 0 .. Len(screens) /\ transition.in \in 0 .. Len(screens)
    BY DEF IInv, Types
  <2> QED
    BY <2>2, <2>4, <2>5, <2>6 DEF IInv, Types, HistoryIsSound, TypeOK
<1> QED
  BY <1>1, Inductive, PTL

\* A host with nothing queued shows the current entry of its navigator (sync),
\* unless it was not told of the last navigation.
THEOREM HostFollowsNavigator == Spec => []HostFollows
<1>1. IInv => HostFollows
  BY DEF IInv, HostFollows, Told_Current
<1> QED
  BY <1>1, Inductive, PTL

\* Between two calls the active screen is shown and takes input, the one a
\* transition leaves is shown, and no other is (set_screen_active).
THEOREM OneScreenShown == Spec => []OnlyActiveShown
<1>1. IInv => OnlyActiveShown
  BY DEF IInv, OnlyActiveShown, Shown, Visible, TakesInput, IsIdle, IsMoving
<1> QED
  BY <1>1, Inductive, PTL

\* The hook hears one end for every start (settle_transition).
THEOREM HooksArePaired == Spec => []HooksPaired
<1>1. IInv => HooksPaired
  BY DEF IInv, Ends
<1> QED
  BY <1>1, Inductive, PTL

\* Only sync enters an entry, after it has recorded the focus of the one it leaves.
LEMMA RecordedOnLeaving ==
  ASSUME IInv, [Next]_vars, Leaving, Stays, pending.kind # "replace"
  PROVE  entry \in DOMAIN saved' /\ saved'[entry] = focus
<1>1. PICK timed : Apply(timed)
  <2>1. entry' # entry /\ entry' # 0
    BY DEF Leaving
  <2> QED
    BY <2>1 DEF Next, vars, host, Navigate, Redirect, Register, ReplaceScreen, Unregister,
       QueueCurrent, Disconnect, SetTransition, CancelTransition, Advance, Sync, SyncCancels,
       HookReturns, MoveFocus, Leave, TakeFocus, RemoveControl, RemoveRoot
<1>2. saved' = SavedOnLeaving
  BY <1>1 DEF Apply, Activate, Leaving
<1>3. index # 0
  BY DEF IInv, Queued, Leaving
<1> QED
  BY <1>2, <1>3, LeavingRecords DEF IInv, Leaving, Stays

\* Leaving a screen keeps its focus for the entry left, while that stays in the
\* history and was not replaced (save_focus, and the records sync retains).
THEOREM FocusIsKept == Spec => LeavingKeepsFocus
<1>1. IInv /\ [Next]_vars =>
        [Leaving /\ Stays /\ pending.kind # "replace" =>
           entry \in DOMAIN saved' /\ saved'[entry] = focus]_vars
  BY RecordedOnLeaving
<1> QED
  BY <1>1, Inductive, PTL DEF Spec, LeavingKeepsFocus

===============================================================================
