------------------------ MODULE CraftValidation_proofs ------------------------
(***************************************************************************)
(* What controls show, what they keep and what a form submits, for any     *)
(* controls, chains of rules and reporting policies.                       *)
(*                                                                         *)
(* None of the three properties is inductive.  Fresh says of the disabled  *)
(* controls too that the result is the one the rules give, because a       *)
(* control is enabled without being evaluated; Wired that a registered     *)
(* control is among the dependents of the ones its rules name, which makes *)
(* evaluate reach it; Asked that while a report has found no failure,      *)
(* every control it asked is still valid: only an invalid handler lets the *)
(* application change a value, and that comes after a failure.             *)
(***************************************************************************)
EXTENDS CraftValidation, WellFoundedInduction, TLAPS

Thens == {"none", "submit", "collect"}
Jobs == [left : Seq(Controls), first : Controls \cup {None}, handler : BOOLEAN, then : Thens]

\* The nodes show what their controls have.
Shown == \A c \in active \cap alive : shown[c] = Exposed(c, disabled, reported, result[c])

\* The results of the controls that were not missed, disabled ones included.
Fresh == \A c \in active \ missed : result[c] = Failure(c, value)

\* add wires both ways.
Wired == \A c, d \in ToSet(controls) :
           c # d /\ c \in Peers(d) /\ d \in active => d \in dependents[c]

\* A report in progress.
Asked ==
  job # <<>> =>
    /\ job = <<job[1]>> /\ job[1] \in Jobs
    /\ ~formDisabled /\ emitted.count < MaxSubmits
    /\ job[1].first = None =>
         /\ ~job[1].handler
         /\ \A c \in ToSet(controls) \cap (active \ disabled) :
              c \in ToSet(job[1].left) \/ Failure(c, value) = 0

IInv == TypeOK /\ Shown /\ Fresh /\ Wired /\ Asked

-----------------------------------------------------------------------------
\* The failure of a control.

LEMMA NatMinimum ==
  ASSUME NEW S \in SUBSET Nat, S # {}
  PROVE  \E m \in S : \A k \in S : m <= k
<1> DEFINE R == OpToRel(<, Nat)
<1>1. IsWellFoundedOn(R, Nat)
  BY NatLessThanWellFounded
<1>2. \A j, k \in Nat : <<j, k>> \in R <=> j < k
  BY DEF OpToRel
<1> HIDE DEF R
<1>3. PICK m \in S : \A k \in S : <<k, m>> \notin R
  BY <1>1, WFMin
<1>4. \A k \in S : ~(k < m)
  BY <1>2, <1>3
<1>5. m \in Nat /\ S \subseteq Nat
  OBVIOUS
<1> QED
  BY <1>4, <1>5

LEMMA MaxIsNat ==
  ASSUME NEW n \in Nat, NEW S \in SUBSET (1 .. n), S # {}
  PROVE  Max(S) \in Nat
<1> DEFINE T == {n - x : x \in S}
<1>1. T \in SUBSET Nat /\ T # {}
  <2>1. \A x \in 1 .. n : n - x \in Nat
    OBVIOUS
  <2> QED
    BY <2>1
<1>2. PICK m \in T : \A k \in T : m <= k
  <2> HIDE DEF T
  <2> QED
    BY <1>1, NatMinimum
<1>3. PICK x \in S : m = n - x
  BY <1>2
<1>4. \A y \in S : x >= y
  <2> SUFFICES ASSUME NEW y \in S PROVE x >= y
    OBVIOUS
  <2>1. m <= n - y
    BY <1>2
  <2> QED
    BY <2>1, <1>3
<1>5. Max(S) \in S
  BY <1>4 DEF Max
<1>6. S \subseteq Nat
  OBVIOUS
<1> QED
  BY <1>5, <1>6

LEMMA MinIsNat ==
  ASSUME NEW S \in SUBSET Nat, S # {}
  PROVE  Min(S) \in Nat
<1>1. PICK m \in S : \A k \in S : m <= k
  BY NatMinimum
<1>2. Min(S) \in S
  BY <1>1 DEF Min
<1> QED
  BY <1>2

LEMMA FailureType ==
  ASSUME NEW c \in Controls, NEW val
  PROVE  Failure(c, val) \in Nat
<1> DEFINE required == Indexes(c, {"required"})
           failing == {i \in Indexes(c, {"same", "different"}) : ~Holds(c, i, val)}
<1>1. PICK n \in Nat : DOMAIN Rules[c] = 1 .. n
  BY Constants_Assumption
<1>2. required \in SUBSET (1 .. n) /\ failing \in SUBSET Nat
  BY <1>1 DEF Indexes
<1>3. required # {} => Max(required) \in Nat
  BY <1>2, MaxIsNat
<1>4. failing # {} => Min(failing) \in Nat
  BY <1>2, MinIsNat
<1> QED
  BY <1>3, <1>4 DEF Failure

\* It depends on the control's own value and those of its peers only.
LEMMA FailureLocal ==
  ASSUME NEW d \in Controls, NEW val, NEW new,
         new[d] = val[d], \A p \in Peers(d) : new[p] = val[p]
  PROVE  Failure(d, new) = Failure(d, val)
<1> DEFINE kinds == {"same", "different"}
<1>1. ASSUME NEW i \in Indexes(d, kinds)
      PROVE  Holds(d, i, new) = Holds(d, i, val)
  <2>1. Rules[d][i].peer \in Peers(d)
    BY DEF Peers
  <2> QED
    BY <2>1 DEF Holds
<1>2. {i \in Indexes(d, kinds) : ~Holds(d, i, new)} = {i \in Indexes(d, kinds) : ~Holds(d, i, val)}
  BY <1>1
<1> QED
  BY <1>2 DEF Failure

\* The rules name controls.
LEMMA PeersType ==
  ASSUME NEW d \in Controls
  PROVE  Peers(d) \subseteq Controls
BY Constants_Assumption DEF Peers, Indexes

-----------------------------------------------------------------------------
\* evaluate of some controls.

LEMMA RecheckType ==
  ASSUME TypeOK, NEW val \in [Controls -> Values], NEW checked \in SUBSET Controls,
         NEW told \in SUBSET checked, Recheck(val, checked, told)
  PROVE  /\ value' \in [Controls -> Values] /\ result' \in [Controls -> Nat]
         /\ reported' \subseteq Controls /\ shown' \in [Controls -> Nat]
<1>1. value' \in [Controls -> Values] /\ reported' \subseteq Controls
  BY DEF Recheck, TypeOK
<1>2. result' \in [Controls -> Nat]
  BY FailureType DEF Recheck, TypeOK
<1>3. \A c \in Controls : Exposed(c, disabled, reported', result'[c]) \in Nat
  BY <1>2 DEF Exposed
<1>4. shown' \in [Controls -> Nat]
  BY <1>3 DEF Recheck, TypeOK
<1> QED
  BY <1>1, <1>2, <1>4

LEMMA RecheckShown ==
  ASSUME TypeOK, Shown, NEW val \in [Controls -> Values], NEW checked \in SUBSET Controls,
         NEW told \in SUBSET checked, Recheck(val, checked, told),
         UNCHANGED <<disabled, active, alive>>
  PROVE  Shown'
<1> SUFFICES ASSUME NEW c \in active \cap alive
             PROVE  shown'[c] = Exposed(c, disabled, reported', result'[c])
  BY DEF Shown, Exposed
<1>1. c \in Controls
  BY DEF TypeOK
<1>2. CASE c \in checked
  BY <1>1, <1>2 DEF Recheck
<1>3. CASE c \notin checked
  <2>1. shown'[c] = shown[c] /\ result'[c] = result[c] /\ (c \in reported' <=> c \in reported)
    BY <1>1, <1>3 DEF Recheck
  <2> QED
    BY <2>1 DEF Shown, Exposed
<1> QED
  BY <1>2, <1>3

\* With the same values, evaluating keeps the results fresh.
LEMMA RecheckFresh ==
  ASSUME TypeOK, Fresh, NEW checked \in SUBSET Controls, NEW told \in SUBSET checked,
         Recheck(value, checked, told), missed' = missed \ checked, UNCHANGED active
  PROVE  Fresh'
<1> SUFFICES ASSUME NEW c \in active \ missed'
             PROVE  result'[c] = Failure(c, value)
  BY DEF Fresh, Recheck, Failure, Holds
<1>1. c \in Controls
  BY DEF TypeOK
<1> QED
  BY <1>1 DEF Recheck, Fresh

\* An evaluation that changes no value keeps what is said of the controls.
LEMMA EvaluationKeeps ==
  ASSUME TypeOK, Shown, Fresh, Wired,
         NEW checked \in SUBSET Controls, NEW told \in SUBSET checked,
         Recheck(value, checked, told), missed' = missed \ checked,
         UNCHANGED <<disabled, active, alive, dependents, form>>,
         emitted'.count \in 0 .. MaxSubmits
  PROVE  TypeOK' /\ Shown' /\ Fresh' /\ Wired'
<1>1. value \in [Controls -> Values]
  BY DEF TypeOK
<1>2. TypeOK'
  BY <1>1, RecheckType DEF TypeOK, form
<1>3. Shown'
  BY <1>1, RecheckShown
<1>4. Fresh'
  BY RecheckFresh
<1>5. Wired'
  BY DEF Wired, form, Peers, Indexes
<1> QED
  BY <1>2, <1>3, <1>4, <1>5

\* While a handler runs, or no report is in progress, nothing is asked.
LEMMA NothingAsked ==
  ASSUME Asked, job # <<>> => job[1].handler, UNCHANGED <<job, formDisabled, emitted>>
  PROVE  Asked'
BY DEF Asked

\* What does not touch the bindings keeps the results fresh.
LEMMA FreshUnchanged ==
  ASSUME Fresh, UNCHANGED <<bindings, missed>>, active' \subseteq active
  PROVE  Fresh'
BY DEF Fresh, bindings

-----------------------------------------------------------------------------
\* The actions on a control.

LEMMA InputKeeps ==
  ASSUME IInv, NEW c \in Controls, NEW v \in Values, Input(c, v)
  PROVE  IInv'
<1> DEFINE val == [value EXCEPT ![c] = v]
           told == IF Reports(c, "input") THEN {c} ELSE {}
<1> USE DEF IInv
<1>1. PICK reached \in Reached(c) :
        /\ Recheck(val, {c} \cup reached, told)
        /\ missed' = (missed \ ({c} \cup reached))
             \cup {d \in Controls \ ({c} \cup reached) : c \in Peers(d) /\ Excused(c, d)}
  BY DEF Input
<1> DEFINE rechecked == {c} \cup reached
<1>2. /\ c \in active \ disabled
      /\ job # <<>> => job[1].handler
      /\ dependents' = IF NotifyFails(c) THEN dependents
                       ELSE [dependents EXCEPT ![c] = @ \cap active]
      /\ UNCHANGED <<disabled, active, alive, form, job, emitted, trouble>>
  BY DEF Input
<1>3. Refreshed(c) \subseteq Controls
  BY DEF Refreshed, TypeOK
<1>4. reached \subseteq Refreshed(c)
  BY DEF Reached
<1>5. rechecked \in SUBSET Controls /\ told \in SUBSET rechecked /\ val \in [Controls -> Values]
  BY <1>3, <1>4 DEF TypeOK
<1>6. TypeOK'
  <2>1. dependents' \in [Controls -> SUBSET Controls]
    BY <1>2 DEF TypeOK
  <2>2. missed' \subseteq Controls
    BY <1>1 DEF TypeOK
  <2>3. /\ value' \in [Controls -> Values] /\ result' \in [Controls -> Nat]
        /\ reported' \subseteq Controls /\ shown' \in [Controls -> Nat]
    <3> HIDE DEF val, told
    <3> QED
      BY <1>1, <1>5, RecheckType
  <2> QED
    BY <1>2, <2>1, <2>2, <2>3 DEF TypeOK, form
<1>7. Shown'
  <2> HIDE DEF val, told
  <2> QED
    BY <1>1, <1>2, <1>5, RecheckShown
<1>8. Fresh'
  <2>1. value' = val
    BY <1>1 DEF Recheck
  <2> SUFFICES ASSUME NEW e \in active \ missed'
               PROVE  result'[e] = Failure(e, val)
    BY <1>2, <2>1 DEF Fresh
  <2>2. e \in Controls
    BY DEF TypeOK
  <2>3. CASE e \in rechecked
    BY <1>1, <2>2, <2>3 DEF Recheck
  <2>4. CASE e \notin rechecked
    <3>1. e # c /\ e \notin missed /\ ~(c \in Peers(e) /\ Excused(c, e))
      BY <1>1, <2>2, <2>4
    <3>2. c \notin Peers(e)
      <4> SUFFICES ASSUME c \in Peers(e) PROVE FALSE
        OBVIOUS
      <4>1. e \notin disabled /\ {c, e} \subseteq ToSet(controls) /\ ~NotifyFails(c)
        BY <3>1 DEF Excused
      <4>2. e \in dependents[c]
        BY <3>1, <4>1 DEF Wired
      <4>3. e \in Refreshed(c)
        BY <4>1, <4>2 DEF Refreshed
      <4>4. reached = Refreshed(c)
        BY <4>1 DEF Reached, NotifyFails
      <4> QED
        BY <2>4, <4>3, <4>4
    <3>3. Failure(e, val) = Failure(e, value)
      <4>1. val[e] = value[e] /\ \A p \in Peers(e) : val[p] = value[p]
        BY <2>2, <3>1, <3>2, PeersType DEF TypeOK
      <4> HIDE DEF val
      <4> QED
        BY <2>2, <4>1, FailureLocal
    <3>4. result'[e] = result[e]
      BY <1>1, <2>2, <2>4 DEF Recheck
    <3> QED
      BY <3>1, <3>3, <3>4 DEF Fresh
  <2> QED
    BY <2>3, <2>4
<1>9. Wired'
  <2> SUFFICES ASSUME NEW a \in ToSet(controls), NEW b \in ToSet(controls),
                      a # b, a \in Peers(b), b \in active
               PROVE  b \in dependents'[a]
    BY <1>2 DEF Wired, form
  <2>1. b \in dependents[a]
    BY DEF Wired
  <2>2. a \in Controls
    BY DEF TypeOK, ToSet
  <2> QED
    BY <1>2, <2>1, <2>2 DEF TypeOK
<1>10. Asked'
  BY <1>2, NothingAsked DEF form
<1> QED
  BY <1>6, <1>7, <1>8, <1>9, <1>10

\* The focus leaves a control: it is evaluated.
LEMMA FocusKeeps ==
  ASSUME TypeOK, Shown, Fresh, Wired, NEW c, c \in Controls \cup {None}, FocusLeaves(c),
         UNCHANGED <<disabled, active, alive, dependents, form>>,
         emitted'.count \in 0 .. MaxSubmits
  PROVE  TypeOK' /\ Shown' /\ Fresh' /\ Wired'
<1> DEFINE left == {c} \cap (active \ disabled)
           told == {d \in left : Reports(d, "blur")}
<1>1. Recheck(value, left, told) /\ missed' = missed \ left
  BY DEF FocusLeaves
<1>2. left \in SUBSET Controls /\ told \in SUBSET left
  BY DEF TypeOK
<1> HIDE DEF left, told
<1> QED
  BY <1>1, <1>2, EvaluationKeeps

LEMMA BlurKeeps ==
  ASSUME IInv, NEW c \in Controls, Blur(c)
  PROVE  IInv'
<1>1. /\ job = <<>> /\ FocusLeaves(c)
      /\ UNCHANGED <<disabled, active, alive, dependents, form, job, emitted, trouble>>
  BY DEF Blur
<1>2. TypeOK' /\ Shown' /\ Fresh' /\ Wired'
  BY <1>1, FocusKeeps DEF IInv, TypeOK
<1>3. Asked'
  BY <1>1, NothingAsked DEF IInv, form
<1> QED
  BY <1>2, <1>3 DEF IInv

LEMMA SetDisabledKeeps ==
  ASSUME IInv, NEW c \in Controls, SetDisabled(c)
  PROVE  IInv'
<1> USE DEF IInv
<1>1. /\ job # <<>> => job[1].handler
      /\ disabled' = IF c \in disabled THEN disabled \ {c} ELSE disabled \cup {c}
      /\ shown' = IF c \in alive THEN Synced(c) ELSE shown
      /\ UNCHANGED <<bindings, active, alive, dependents, form, job, emitted, missed>>
  BY DEF SetDisabled
<1>2. Exposed(c, disabled', reported, result[c]) \in Nat
  BY DEF Exposed, TypeOK
<1>3. TypeOK'
  BY <1>1, <1>2 DEF TypeOK, Synced, bindings, form
<1>4. Shown'
  <2> SUFFICES ASSUME NEW d \in active \cap alive
               PROVE  shown'[d] = Exposed(d, disabled', reported, result[d])
    BY <1>1 DEF Shown, bindings
  <2>1. d \in Controls
    BY DEF TypeOK
  <2>2. CASE d = c
    BY <1>1, <2>1, <2>2 DEF Synced, TypeOK
  <2>3. CASE d # c
    <3>1. shown'[d] = shown[d] /\ (d \in disabled' <=> d \in disabled)
      BY <1>1, <2>1, <2>3 DEF Synced, TypeOK
    <3> QED
      BY <3>1 DEF Shown, Exposed
  <2> QED
    BY <2>2, <2>3
<1>5. Fresh'
  BY <1>1, FreshUnchanged
<1>6. Wired'
  BY <1>1 DEF Wired, form
<1>7. Asked'
  BY <1>1, NothingAsked DEF form
<1> QED
  BY <1>3, <1>4, <1>5, <1>6, <1>7

\* close, and the removal of the node, only take a control out of the claims.
LEMMA CloseKeeps ==
  ASSUME IInv, NEW c \in Controls, Close(c) \/ RemoveNode(c)
  PROVE  IInv'
<1> USE DEF IInv
<1>1. /\ job # <<>> => job[1].handler
      /\ active' \subseteq active /\ alive' \subseteq alive
      /\ UNCHANGED <<bindings, disabled, dependents, shown, form, job, emitted, missed>>
  BY DEF Close, RemoveNode
<1>2. TypeOK'
  BY <1>1 DEF TypeOK, bindings, form
<1>3. Shown'
  BY <1>1 DEF Shown, bindings
<1>4. Fresh'
  BY <1>1, FreshUnchanged
<1>5. Wired'
  BY <1>1 DEF Wired, form
<1>6. Asked'
  BY <1>1, NothingAsked DEF form
<1> QED
  BY <1>2, <1>3, <1>4, <1>5, <1>6

-----------------------------------------------------------------------------
\* The actions on the form.

LEMMA Appended ==
  ASSUME NEW s \in Seq(Controls), NEW c \in Controls, c \notin ToSet(s), IsInjective(s)
  PROVE  /\ Append(s, c) \in Seq(Controls) /\ IsInjective(Append(s, c))
         /\ ToSet(Append(s, c)) = ToSet(s) \cup {c}
<1> DEFINE t == Append(s, c)
<1>1. /\ t \in Seq(Controls) /\ Len(t) = Len(s) + 1 /\ t[Len(s) + 1] = c
      /\ \A i \in 1 .. Len(s) : t[i] = s[i]
  OBVIOUS
<1>2. DOMAIN t = 1 .. Len(s) + 1 /\ DOMAIN s = 1 .. Len(s) /\ Len(s) \in Nat
  BY <1>1
<1> HIDE DEF t
<1>3. ToSet(t) = ToSet(s) \cup {c}
  <2>1. ASSUME NEW x \in ToSet(t) PROVE x \in ToSet(s) \cup {c}
    <3>1. PICK i \in 1 .. Len(s) + 1 : x = t[i]
      BY <1>2 DEF ToSet
    <3>2. CASE i = Len(s) + 1
      BY <1>1, <3>1, <3>2
    <3>3. CASE i # Len(s) + 1
      <4>1. i \in 1 .. Len(s)
        BY <1>2, <3>3
      <4> QED
        BY <1>1, <1>2, <3>1, <4>1 DEF ToSet
    <3> QED
      BY <3>2, <3>3
  <2>2. ASSUME NEW x \in ToSet(s) PROVE x \in ToSet(t)
    <3>1. PICK i \in 1 .. Len(s) : x = s[i]
      BY <1>2 DEF ToSet
    <3>2. i \in DOMAIN t /\ t[i] = x
      BY <1>1, <1>2, <3>1
    <3> QED
      BY <3>2 DEF ToSet
  <2>3. c \in ToSet(t)
    BY <1>1, <1>2 DEF ToSet
  <2> QED
    BY <2>1, <2>2, <2>3
<1>4. IsInjective(t)
  <2> SUFFICES ASSUME NEW a \in 1 .. Len(s) + 1, NEW b \in 1 .. Len(s) + 1, t[a] = t[b]
               PROVE  a = b
    BY <1>2 DEF IsInjective
  <2>1. \A i \in 1 .. Len(s) : s[i] # c
    BY <1>2 DEF ToSet
  <2>2. CASE a \in 1 .. Len(s) /\ b \in 1 .. Len(s)
    BY <1>1, <1>2, <2>2 DEF IsInjective
  <2>3. CASE a = Len(s) + 1 \/ b = Len(s) + 1
    BY <1>1, <1>2, <2>1, <2>3
  <2> QED
    BY <1>2, <2>2, <2>3
<1> QED
  BY <1>1, <1>3, <1>4 DEF t

LEMMA Removed ==
  ASSUME NEW s \in Seq(Controls), NEW i \in DOMAIN s, IsInjective(s)
  PROVE  /\ RemoveAt(s, i) \in Seq(Controls) /\ IsInjective(RemoveAt(s, i))
         /\ ToSet(RemoveAt(s, i)) = ToSet(s) \ {s[i]}
<1> DEFINE t == RemoveAt(s, i)
           at(j) == IF j < i THEN j ELSE j + 1
<1>1. Len(s) \in Nat /\ DOMAIN s = 1 .. Len(s) /\ i \in 1 .. Len(s)
  OBVIOUS
<1>2. /\ t \in Seq(Controls) /\ Len(t) = Len(s) - 1
      /\ \A j \in 1 .. Len(s) - 1 : t[j] = s[at(j)]
  <2> DEFINE a == SubSeq(s, 1, i - 1)
             b == SubSeq(s, i + 1, Len(s))
  <2>1. /\ a \in Seq(Controls) /\ Len(a) = i - 1
        /\ \A j \in 1 .. i - 1 : a[j] = s[j]
    BY <1>1
  <2>2. /\ b \in Seq(Controls) /\ Len(b) = Len(s) - i
        /\ \A j \in 1 .. Len(s) - i : b[j] = s[i + j]
    BY <1>1
  <2>3. t = a \o b
    BY DEF RemoveAt
  <2> HIDE DEF a, b, t
  <2>4. t \in Seq(Controls) /\ Len(t) = Len(s) - 1
    <3>1. \A x, y \in Seq(Controls) :
            x \o y \in Seq(Controls) /\ Len(x \o y) = Len(x) + Len(y)
      OBVIOUS
    <3>2. t \in Seq(Controls) /\ Len(t) = Len(a) + Len(b)
      <4>1. a \in Seq(Controls) /\ b \in Seq(Controls)
        BY <2>1, <2>2
      <4> QED
        BY <2>3, <3>1, <4>1
    <3>3. Len(s) \in Nat /\ i \in Nat /\ Len(a) = i - 1 /\ Len(b) = Len(s) - i
      BY <1>1, <2>1, <2>2
    <3> QED
      BY <3>2, <3>3
  <2>5. ASSUME NEW j \in 1 .. Len(s) - 1 PROVE t[j] = s[at(j)]
    <3>1. CASE j < i
      <4>1. t[j] = a[j]
        BY <1>1, <2>1, <2>2, <2>3, <3>1
      <4> QED
        BY <1>1, <2>1, <3>1, <4>1
    <3>2. CASE ~(j < i)
      <4>1. t[j] = b[j - (i - 1)] /\ j - (i - 1) \in 1 .. Len(s) - i
        BY <1>1, <2>1, <2>2, <2>3, <3>2
      <4>2. i + (j - (i - 1)) = j + 1
        BY <1>1
      <4> QED
        BY <2>2, <3>2, <4>1, <4>2
    <3> QED
      BY <3>1, <3>2
  <2> QED
    BY <2>4, <2>5
<1>3. DOMAIN t = 1 .. Len(s) - 1
  BY <1>2
<1> HIDE DEF t
<1>4. ToSet(t) = ToSet(s) \ {s[i]}
  <2>1. ASSUME NEW x \in ToSet(t) PROVE x \in ToSet(s) \ {s[i]}
    <3>1. PICK j \in 1 .. Len(s) - 1 : x = t[j]
      BY <1>3 DEF ToSet
    <3>2. at(j) \in DOMAIN s /\ at(j) # i /\ x = s[at(j)]
      BY <1>1, <1>2, <3>1
    <3> QED
      BY <1>1, <3>2 DEF ToSet, IsInjective
  <2>2. ASSUME NEW x \in ToSet(s) \ {s[i]} PROVE x \in ToSet(t)
    <3>1. PICK k \in 1 .. Len(s) : x = s[k] /\ k # i
      BY <1>1 DEF ToSet
    <3> DEFINE j == IF k < i THEN k ELSE k - 1
    <3>2. j \in 1 .. Len(s) - 1 /\ at(j) = k
      BY <1>1, <3>1
    <3>3. t[j] = x
      BY <1>2, <3>1, <3>2
    <3> QED
      BY <1>3, <3>2, <3>3 DEF ToSet
  <2> QED
    BY <2>1, <2>2
<1>5. IsInjective(t)
  <2> SUFFICES ASSUME NEW a \in 1 .. Len(s) - 1, NEW b \in 1 .. Len(s) - 1, t[a] = t[b]
               PROVE  a = b
    BY <1>3 DEF IsInjective
  <2>1. s[at(a)] = s[at(b)] /\ at(a) \in DOMAIN s /\ at(b) \in DOMAIN s
    BY <1>1, <1>2
  <2>2. at(a) = at(b)
    BY <2>1 DEF IsInjective
  <2> QED
    BY <1>1, <2>2
<1> QED
  BY <1>2, <1>4, <1>5 DEF t

\* add, also as a part of register_field.
LEMMA AddKeeps ==
  ASSUME IInv, NEW c \in Controls, Add(c)
  PROVE  /\ controls' \in Seq(Controls) /\ IsInjective(controls')
         /\ ToSet(controls') = ToSet(controls) \cup {c}
         /\ dependents' \in [Controls -> SUBSET Controls]
         /\ \A a, b \in ToSet(controls') :
              a # b /\ a \in Peers(b) /\ b \in active => b \in dependents'[a]
<1> USE DEF IInv
<1>1. /\ c \notin ToSet(controls) /\ controls' = Append(controls, c)
      /\ dependents' = [d \in Controls |-> dependents[d] \cup Edges(c)[d]]
  BY DEF Add
<1>2. controls \in Seq(Controls) /\ IsInjective(controls) /\ ToSet(controls) \subseteq Controls
  BY DEF TypeOK, ToSet
<1>3. /\ controls' \in Seq(Controls) /\ IsInjective(controls')
      /\ ToSet(controls') = ToSet(controls) \cup {c}
  BY <1>1, <1>2, Appended
<1>4. \A d \in Controls : Edges(c)[d] \subseteq Controls
  BY <1>2 DEF Edges
<1>5. dependents' \in [Controls -> SUBSET Controls]
  BY <1>1, <1>4 DEF TypeOK
<1>6. ASSUME NEW a \in ToSet(controls'), NEW b \in ToSet(controls'),
             a # b, a \in Peers(b), b \in active
      PROVE  b \in dependents'[a]
  <2>1. a \in Controls /\ b \in Controls
    BY <1>2, <1>3
  <2>2. CASE a = c
    <3>1. b \in Edges(c)[a]
      BY <1>3, <1>6, <2>1, <2>2 DEF Edges
    <3> QED
      BY <1>1, <2>1, <3>1
  <2>3. CASE b = c
    <3>1. b \in Edges(c)[a]
      BY <1>3, <1>6, <2>1, <2>3 DEF Edges
    <3> QED
      BY <1>1, <2>1, <3>1
  <2>4. CASE a # c /\ b # c
    <3>1. b \in dependents[a]
      BY <1>3, <1>6, <2>4 DEF Wired
    <3> QED
      BY <1>1, <2>1, <3>1
  <2> QED
    BY <2>2, <2>3, <2>4
<1> QED
  BY <1>3, <1>5, <1>6

LEMMA AddControlKeeps ==
  ASSUME IInv, NEW c \in Controls, AddControl(c)
  PROVE  IInv'
<1> USE DEF IInv
<1>1. /\ Add(c) /\ job = <<>>
      /\ UNCHANGED <<bindings, disabled, active, alive, shown, fields, formDisabled, job,
                     emitted, missed, trouble>>
  BY DEF AddControl, Add
<1>2. TypeOK'
  BY <1>1, AddKeeps DEF TypeOK, bindings
<1>3. Shown'
  BY <1>1 DEF Shown, bindings
<1>4. Fresh'
  BY <1>1, FreshUnchanged
<1>5. Wired'
  BY <1>1, AddKeeps DEF Wired
<1>6. Asked'
  BY <1>1, NothingAsked
<1> QED
  BY <1>2, <1>3, <1>4, <1>5, <1>6

LEMMA RegisterFieldKeeps ==
  ASSUME IInv, NEW c \in Controls, RegisterField(c)
  PROVE  IInv'
<1> USE DEF IInv
<1>1. /\ job = <<>> /\ c \in Fields \ fields /\ fields' = fields \cup {c}
      /\ IF c \in ToSet(controls) THEN UNCHANGED <<controls, dependents>> ELSE Add(c)
      /\ UNCHANGED <<bindings, disabled, active, alive, shown, formDisabled, job,
                     emitted, missed, trouble>>
  BY DEF RegisterField
<1>2. TypeOK'
  <2>1. CASE c \in ToSet(controls)
    BY <1>1, <2>1 DEF TypeOK, bindings
  <2>2. CASE c \notin ToSet(controls)
    BY <1>1, <2>2, AddKeeps DEF TypeOK, bindings
  <2> QED
    BY <2>1, <2>2
<1>3. Shown'
  BY <1>1 DEF Shown, bindings
<1>4. Fresh'
  BY <1>1, FreshUnchanged
<1>5. Wired'
  <2>1. CASE c \in ToSet(controls)
    BY <1>1, <2>1 DEF Wired
  <2>2. CASE c \notin ToSet(controls)
    BY <1>1, <2>2, AddKeeps DEF Wired
  <2> QED
    BY <2>1, <2>2
<1>6. Asked'
  BY <1>1, NothingAsked
<1> QED
  BY <1>2, <1>3, <1>4, <1>5, <1>6

LEMMA RemoveControlKeeps ==
  ASSUME IInv, NEW c \in Controls, RemoveControl(c)
  PROVE  IInv'
<1> USE DEF IInv
<1>1. PICK i \in DOMAIN controls : controls[i] = c /\ controls' = RemoveAt(controls, i)
  BY DEF RemoveControl
<1>2. /\ job = <<>> /\ fields' = fields \ {c}
      /\ UNCHANGED <<bindings, disabled, active, alive, dependents, shown, formDisabled,
                     job, emitted, missed>>
  BY DEF RemoveControl, FieldsAfter
<1>3. /\ controls' \in Seq(Controls) /\ IsInjective(controls')
      /\ ToSet(controls') = ToSet(controls) \ {c}
  BY <1>1, Removed DEF TypeOK
<1>4. TypeOK'
  BY <1>2, <1>3 DEF TypeOK, bindings
<1>5. Shown'
  BY <1>2 DEF Shown, bindings
<1>6. Fresh'
  BY <1>2, FreshUnchanged
<1>7. Wired'
  BY <1>2, <1>3 DEF Wired
<1>8. Asked'
  BY <1>2, NothingAsked
<1> QED
  BY <1>4, <1>5, <1>6, <1>7, <1>8

LEMMA SetFormDisabledKeeps ==
  ASSUME IInv, SetFormDisabled
  PROVE  IInv'
BY DEF IInv, SetFormDisabled, TypeOK, Shown, Fresh, Wired, Asked, bindings

LEMMA CheckValidityKeeps ==
  ASSUME IInv, CheckValidity
  PROVE  IInv'
<1> DEFINE asked == {i \in DOMAIN controls : controls[i] \in active \ disabled}
           checked == {controls[i] : i \in {j \in asked : \A k \in asked :
                                              k < j => controls[k] \in alive}}
<1>1. /\ job = <<>> /\ Recheck(value, checked, {}) /\ missed' = missed \ checked
      /\ UNCHANGED <<disabled, active, alive, dependents, form, job, emitted, trouble>>
  BY DEF CheckValidity
<1>2. checked \in SUBSET Controls
  BY DEF IInv, TypeOK
<1> HIDE DEF checked
<1>3. TypeOK' /\ Shown' /\ Fresh' /\ Wired'
  <2>1. {} \in SUBSET checked /\ emitted'.count \in 0 .. MaxSubmits
    BY <1>1 DEF IInv, TypeOK
  <2> QED
    BY <1>1, <1>2, <2>1, EvaluationKeeps DEF IInv
<1>4. Asked'
  BY <1>1, NothingAsked DEF IInv, form
<1> QED
  BY <1>3, <1>4 DEF IInv

-----------------------------------------------------------------------------
\* The report of a form.

LEMMA ReportKeeps ==
  ASSUME IInv, NEW then \in Thens, Report(then)
  PROVE  IInv'
<1> DEFINE new == [left |-> controls, first |-> None, handler |-> FALSE, then |-> then]
<1>1. /\ ~formDisabled /\ emitted.count < MaxSubmits /\ job' = <<new>>
      /\ UNCHANGED <<bindings, disabled, active, alive, dependents, shown, form, emitted,
                     missed, trouble>>
  BY DEF Report
<1>2. TypeOK' /\ Shown' /\ Fresh' /\ Wired'
  BY <1>1 DEF IInv, TypeOK, Shown, Fresh, Wired, bindings, form
<1>3. new \in Jobs /\ job'[1] = new
  BY <1>1 DEF IInv, TypeOK, Jobs
<1>4. Asked'
  BY <1>1, <1>3 DEF Asked, form
<1> QED
  BY <1>2, <1>4 DEF IInv

\* A control that was asked is gone, disabled or valid.
LEMMA ReportNextKeeps ==
  ASSUME IInv, ReportNext
  PROVE  IInv'
<1> DEFINE c == Head(job[1].left)
           next == [job[1] EXCEPT !.left = Tail(@)]
<1>1. /\ job # <<>> /\ ~job[1].handler /\ job[1].left # <<>>
      /\ UNCHANGED <<disabled, active, alive, dependents, form, emitted, trouble>>
  BY DEF ReportNext
<1>2. job = <<job[1]>> /\ job[1] \in Jobs /\ ~formDisabled /\ emitted.count < MaxSubmits
  BY <1>1 DEF IInv, Asked
<1>3. job[1].left \in Seq(Controls)
  BY <1>2 DEF Jobs
<1>4. /\ c \in Controls /\ Tail(job[1].left) \in Seq(Controls)
      /\ \A x \in ToSet(job[1].left) : x = c \/ x \in ToSet(Tail(job[1].left))
  <2>1. /\ c \in Controls /\ Tail(job[1].left) \in Seq(Controls)
        /\ Len(Tail(job[1].left)) = Len(job[1].left) - 1
        /\ \A i \in 1 .. Len(job[1].left) - 1 : Tail(job[1].left)[i] = job[1].left[i + 1]
        /\ c = job[1].left[1]
    BY <1>1, <1>3
  <2>2. ASSUME NEW x \in ToSet(job[1].left), x # c PROVE x \in ToSet(Tail(job[1].left))
    <3>1. PICK i \in 1 .. Len(job[1].left) : x = job[1].left[i]
      BY <1>3 DEF ToSet
    <3>2. i # 1
      BY <2>1, <2>2, <3>1
    <3>3. i - 1 \in 1 .. Len(job[1].left) - 1
      BY <1>3, <3>1, <3>2
    <3>4. Tail(job[1].left)[i - 1] = x /\ i - 1 \in DOMAIN Tail(job[1].left)
      BY <2>1, <3>1, <3>3
    <3> QED
      BY <3>4 DEF ToSet
  <2> QED
    BY <2>1, <2>2
<1>5. next \in Jobs /\ next.first = job[1].first /\ next.left = Tail(job[1].left)
      /\ next.handler = FALSE
  BY <1>1, <1>2, <1>4 DEF Jobs
<1>6. emitted'.count \in 0 .. MaxSubmits
  BY <1>1 DEF IInv, TypeOK
<1> DEFINE invalid == [next EXCEPT !.first = FirstInvalid(c), !.handler = TRUE]
<1>7. /\ invalid \in Jobs /\ invalid.first # None
  BY <1>2, <1>4, <1>5, Constants_Assumption DEF Jobs, FirstInvalid
<1>8. CASE c \notin active \ disabled
  <2>1. job' = <<next>> /\ UNCHANGED <<bindings, shown, missed>>
    BY <1>8 DEF ReportNext
  <2>2. TypeOK' /\ Shown' /\ Fresh' /\ Wired'
    BY <1>1, <2>1 DEF IInv, TypeOK, Shown, Fresh, Wired, bindings, form
  <2>3. job'[1] = next
    BY <2>1
  <2> HIDE DEF next
  <2>4. job[1].first = None =>
          \A x \in ToSet(controls) \cap (active \ disabled) :
            x \in ToSet(next.left) \/ Failure(x, value) = 0
    BY <1>1, <1>4, <1>5, <1>8 DEF IInv, Asked
  <2>5. Asked'
    BY <1>1, <1>2, <1>5, <2>1, <2>3, <2>4 DEF Asked, form, bindings
  <2> QED
    BY <2>2, <2>5 DEF IInv
<1>9. CASE c \in active \ disabled
  <2>1. /\ Recheck(value, {c}, {c}) /\ missed' = missed \ {c}
        /\ job' = IF c \notin alive THEN <<>>
                  ELSE IF Failure(c, value) = 0 THEN <<next>> ELSE <<invalid>>
    BY <1>9 DEF ReportNext
  <2>2. TypeOK' /\ Shown' /\ Fresh' /\ Wired'
    BY <1>1, <1>4, <1>6, <2>1, EvaluationKeeps DEF IInv
  <2>3. value' = value
    BY <2>1 DEF Recheck
  <2> HIDE DEF next, invalid
  <2>4. ASSUME c \notin alive PROVE Asked'
    BY <2>1, <2>4 DEF Asked
  <2>5. ASSUME c \in alive, Failure(c, value) = 0 PROVE Asked'
    <3>1. job' = <<next>> /\ job'[1] = next
      BY <2>1, <2>5
    <3>2. job[1].first = None =>
            \A x \in ToSet(controls) \cap (active \ disabled) :
              x \in ToSet(next.left) \/ Failure(x, value) = 0
      BY <1>1, <1>4, <1>5, <2>5 DEF IInv, Asked
    <3> QED
      BY <1>1, <1>2, <1>5, <2>3, <3>1, <3>2 DEF Asked, form
  <2>6. ASSUME c \in alive, Failure(c, value) # 0 PROVE Asked'
    <3>1. job' = <<invalid>> /\ job'[1] = invalid
      BY <2>1, <2>6
    <3> QED
      BY <1>1, <1>2, <1>7, <3>1 DEF Asked, form
  <2>7. Asked'
    BY <2>4, <2>5, <2>6
  <2> QED
    BY <2>2, <2>7 DEF IInv
<1> QED
  BY <1>8, <1>9

LEMMA HandlerReturnsKeeps ==
  ASSUME IInv, HandlerReturns
  PROVE  IInv'
<1> DEFINE next == [job[1] EXCEPT !.handler = FALSE]
<1>1. /\ job # <<>> /\ job[1].handler /\ job' = <<next>>
      /\ UNCHANGED <<bindings, disabled, active, alive, dependents, shown, form, emitted,
                     missed, trouble>>
  BY DEF HandlerReturns
<1>2. job[1] \in Jobs /\ job[1].first # None /\ ~formDisabled /\ emitted.count < MaxSubmits
  BY <1>1 DEF IInv, Asked
<1>3. next \in Jobs /\ next.first # None /\ job'[1] = next
  BY <1>1, <1>2 DEF Jobs
<1>4. TypeOK' /\ Shown' /\ Fresh' /\ Wired'
  BY <1>1 DEF IInv, TypeOK, Shown, Fresh, Wired, bindings, form
<1>5. Asked'
  BY <1>1, <1>2, <1>3 DEF Asked, form
<1> QED
  BY <1>4, <1>5 DEF IInv

LEMMA ReportEndKeeps ==
  ASSUME IInv, ReportEnd
  PROVE  IInv'
<1>1. /\ job # <<>> /\ job' = <<>>
      /\ UNCHANGED <<disabled, active, alive, dependents, form, trouble>>
  BY DEF ReportEnd
<1>2. job[1] \in Jobs /\ emitted.count < MaxSubmits
  BY <1>1 DEF IInv, Asked
<1>3. Asked'
  BY <1>1 DEF Asked
<1>4. CASE Passes
  <2>1. /\ UNCHANGED <<bindings, shown, missed>>
        /\ emitted' = [count |-> emitted.count + 1, data |-> Data] \/ emitted' = emitted
    BY <1>4 DEF ReportEnd
  <2>2. emitted'.count \in 0 .. MaxSubmits
    BY <1>2, <2>1, Constants_Assumption DEF IInv, TypeOK
  <2>3. TypeOK' /\ Shown' /\ Fresh' /\ Wired'
    BY <1>1, <2>1, <2>2 DEF IInv, TypeOK, Shown, Fresh, Wired, bindings, form
  <2> QED
    BY <1>3, <2>3 DEF IInv
<1>5. CASE ~Passes
  <2>1. UNCHANGED emitted /\ \E c \in Controls \cup {None} : FocusLeaves(c)
    BY <1>5 DEF ReportEnd
  <2>2. PICK c \in Controls \cup {None} : FocusLeaves(c)
    BY <2>1
  <2>3. emitted'.count \in 0 .. MaxSubmits
    BY <2>1 DEF IInv, TypeOK
  <2>4. TypeOK' /\ Shown' /\ Fresh' /\ Wired'
    BY <1>1, <2>2, <2>3, FocusKeeps DEF IInv
  <2> QED
    BY <1>3, <2>4 DEF IInv
<1> QED
  BY <1>4, <1>5

-----------------------------------------------------------------------------
LEMMA InitEstablishes ==
  ASSUME Init
  PROVE  IInv
<1>1. value \in [Controls -> Values] /\ value = [c \in Controls |-> Absent]
  BY Constants_Assumption DEF Init
<1>2. result \in [Controls -> Nat]
  BY FailureType DEF Init
<1>3. /\ <<>> \in Seq(Controls) /\ IsInjective(<<>>) /\ ToSet(<<>>) = {}
  BY DEF IsInjective, ToSet
<1>4. TypeOK
  <2>1. controls \in Seq(Controls) /\ IsInjective(controls) /\ fields \subseteq ToSet(controls) \cap Fields
    BY <1>3 DEF Init
  <2>2. emitted.count \in 0 .. MaxSubmits
    BY Constants_Assumption DEF Init
  <2>3. dependents \in [Controls -> SUBSET Controls] /\ shown \in [Controls -> Nat]
    BY DEF Init
  <2> QED
    BY <1>1, <1>2, <2>1, <2>2, <2>3 DEF Init, TypeOK
<1>5. Shown /\ Fresh /\ Wired /\ Asked
  BY <1>3 DEF Init, Shown, Fresh, Wired, Asked, Exposed
<1> QED
  BY <1>4, <1>5 DEF IInv

LEMMA NextKeeps ==
  ASSUME IInv, [Next]_vars
  PROVE  IInv'
<1>1. CASE UNCHANGED vars
  BY <1>1 DEF vars, bindings, form, IInv, TypeOK, Shown, Fresh, Wired, Asked
<1>2. CASE Next
  <2>1. ASSUME NEW c \in Controls, NEW v \in Values, Input(c, v) PROVE IInv'
    BY <2>1, InputKeeps
  <2>2. ASSUME NEW c \in Controls, Blur(c) PROVE IInv'
    BY <2>2, BlurKeeps
  <2>3. ASSUME NEW c \in Controls, SetDisabled(c) PROVE IInv'
    BY <2>3, SetDisabledKeeps
  <2>4. ASSUME NEW c \in Controls, Close(c) \/ RemoveNode(c) PROVE IInv'
    BY <2>4, CloseKeeps
  <2>5. ASSUME NEW c \in Controls, AddControl(c) PROVE IInv'
    BY <2>5, AddControlKeeps
  <2>6. ASSUME NEW c \in Controls, RegisterField(c) PROVE IInv'
    BY <2>6, RegisterFieldKeeps
  <2>7. ASSUME NEW c \in Controls, RemoveControl(c) PROVE IInv'
    BY <2>7, RemoveControlKeeps
  <2>8. CASE SetFormDisabled
    BY <2>8, SetFormDisabledKeeps
  <2>9. CASE CheckValidity
    BY <2>9, CheckValidityKeeps
  <2>10. ASSUME NEW then \in Thens, Report(then) PROVE IInv'
    BY <2>10, ReportKeeps
  <2>11. CASE ReportNext
    BY <2>11, ReportNextKeeps
  <2>12. CASE HandlerReturns
    BY <2>12, HandlerReturnsKeeps
  <2>13. CASE ReportEnd
    BY <2>13, ReportEndKeeps
  <2> QED
    BY <1>2, <2>1, <2>2, <2>3, <2>4, <2>5, <2>6, <2>7, <2>8, <2>9, <2>10, <2>11, <2>12,
       <2>13 DEF Next, Thens
<1> QED
  BY <1>1, <1>2

LEMMA Inductive == Spec => []IInv
<1>1. Init => IInv
  BY InitEstablishes
<1>2. IInv /\ [Next]_vars => IInv'
  BY NextKeeps
<1> QED
  BY <1>1, <1>2, PTL DEF Spec

\* A node shows its control's failure exactly when the control is enabled and has
\* reported (sync), for every chain of rules and reporting policy.
THEOREM NodesShowResults == Spec => []ShownAgrees
<1>1. IInv => ShownAgrees
  BY DEF IInv, ShownAgrees, Shown
<1> QED
  BY <1>1, Inductive, PTL

\* A source change rechecks every declared dependant that can be (evaluate).
THEOREM ResultsAreFresh == Spec => []ResultsFresh
<1>1. IInv => ResultsFresh
  BY DEF IInv, ResultsFresh, Fresh
<1> QED
  BY <1>1, Inductive, PTL

\* A form that emits is valid at that moment, and sends what its controls hold.
LEMMA EmitsWhenValid ==
  ASSUME IInv, [Next]_vars, emitted' # emitted
  PROVE  /\ ~formDisabled
         /\ \A c \in ToSet(controls) \cap (active \ disabled) : Failure(c, value) = 0
         /\ job[1].then = "collect" =>
              /\ fields \subseteq active
              /\ emitted'.data = {<<c, value[c]>> : c \in fields \ disabled}
<1>1. ReportEnd /\ Passes
  BY DEF Next, vars, Input, Blur, SetDisabled, Close, RemoveNode, AddControl, RegisterField,
         RemoveControl, SetFormDisabled, CheckValidity, Report, ReportNext, HandlerReturns,
         ReportEnd
<1>2. /\ job # <<>> /\ job[1].left = <<>> /\ job[1].first = None
      /\ Sends /\ emitted' = [count |-> emitted.count + 1, data |-> Data]
  BY <1>1 DEF ReportEnd, Passes
<1>3. ~formDisabled /\ \A c \in ToSet(controls) \cap (active \ disabled) : Failure(c, value) = 0
  BY <1>2 DEF IInv, Asked, ToSet
<1>4. ASSUME job[1].then = "collect"
      PROVE  /\ fields \subseteq active
             /\ emitted'.data = {<<c, value[c]>> : c \in fields \ disabled}
  <2>1. fields \subseteq active
    BY <1>2, <1>4 DEF Sends, Collects
  <2>2. emitted'.data = {<<c, value[c]>> : c \in fields \ disabled}
    BY <1>2, <1>4 DEF Data
  <2> QED
    BY <2>1, <2>2
<1> QED
  BY <1>3, <1>4

\* Neither submit path emits when validation fails or the form is disabled
\* (submit, submit_collected), whatever the invalid handlers do meanwhile.
THEOREM EveryEmissionIsValid == Spec => SubmitsAreValid
<1>1. IInv /\ [Next]_vars =>
        [emitted' # emitted =>
           /\ ~formDisabled
           /\ \A c \in ToSet(controls) \cap (active \ disabled) : Failure(c, value) = 0
           /\ job[1].then = "collect" =>
                /\ fields \subseteq active
                /\ emitted'.data = {<<c, value[c]>> : c \in fields \ disabled}]_vars
  BY EmitsWhenValid
<1> QED
  BY <1>1, Inductive, PTL DEF Spec, SubmitsAreValid

===============================================================================
