--------------------------- MODULE CraftValidation ---------------------------
(***************************************************************************)
(* drivers/rust/src/validation.rs and validation_ui.rs: controls with      *)
(* rules, the result each keeps and the Ui shows, the edges between a      *)
(* control and those whose rules name it, and a form that reports,         *)
(* collects and submits.                                                   *)
(*                                                                         *)
(* A result is the number of the rule that failed, 0 when none did; it     *)
(* stands for the issue and its message.  The application runs inside the  *)
(* form only in the invalid handlers of a report: job is the report in     *)
(* progress. Rules and collectors only read. A node removed from the tree  *)
(* (alive) makes the Ui calls of its control fail, except the parent       *)
(* lookup of a collector, which finds none. The order of the dependents of *)
(* a control is left out: any may be rechecked first.                      *)
(* D_Fault is D with a plausible fault, and no action uses it.             *)
(***************************************************************************)
EXTENDS Naturals, FiniteSets, Sequences, SequencesExt, FiniteSetsExt

CONSTANTS Controls,    \* the controls attached to nodes of the form
          Rules,       \* control -> its chain: [kind, peer]
          ReportOn,    \* control -> onInput, onBlur or onSubmit
          Values,      \* what a control may hold; Absent is one of them
          Absent,
          Fields,      \* the controls the application registers as fields
          MaxTrouble,  \* bound: controls closed, removed or disabled, form disabled
          MaxSubmits   \* bound: submit events

None == "none"
Kinds == {"required", "optional", "same", "different"}
ASSUME Constants_Assumption ==
  /\ Rules \in [Controls -> Seq([kind : Kinds, peer : Controls \cup {None}])]
  /\ \A c \in Controls : \A i \in DOMAIN Rules[c] :
       Rules[c][i].kind \in {"same", "different"} => Rules[c][i].peer \in Controls
  /\ Absent \in Values /\ None \notin Controls /\ Fields \subseteq Controls
  /\ ReportOn \in [Controls -> {"onInput", "onBlur", "onSubmit"}]
  /\ MaxTrouble \in Nat /\ MaxSubmits \in Nat

VARIABLES
  value, result, reported,     \* ValidationBinding of each control
  disabled, active, alive,     \* sets of controls; alive: the node is in the tree
  dependents,                  \* control -> the set of those to recheck after it
  shown,                       \* control -> the failure its node shows
  controls, fields,            \* of the form: in order, and a set
  formDisabled,
  job,
  emitted,    \* history: the submit events, and the data of the last
  missed,     \* history: controls not rechecked after a peer changed, with a reason
  trouble     \* bound

bindings == <<value, result, reported>>
form == <<controls, fields, formDisabled>>
vars == <<bindings, disabled, active, alive, dependents, shown, form, job,
          emitted, missed, trouble>>

-----------------------------------------------------------------------------
Indexes(c, kinds) == {i \in DOMAIN Rules[c] : Rules[c][i].kind \in kinds}
Peers(c) == {Rules[c][i].peer : i \in Indexes(c, {"same", "different"})}
Holds(c, i, val) == LET rule == Rules[c][i]
                    IN (val[c] = val[rule.peer]) <=> (rule.kind = "same")

\* ValidationRules::validate: an absent value fails the last required rule, or
\* passes when it is optional; otherwise the first rule that fails.
Failure(c, val) ==
  LET required == Indexes(c, {"required"})
      failing == {i \in Indexes(c, {"same", "different"}) : ~Holds(c, i, val)}
  IN IF val[c] = Absent /\ required # {} THEN Max(required)
     ELSE IF val[c] = Absent /\ Indexes(c, {"optional"}) # {} THEN 0
     ELSE IF failing = {} THEN 0 ELSE Min(failing)

\* should_expose and the reporting policy of ValidationBinding::evaluate.
Reports(c, trigger) == \/ trigger = "forced"
                       \/ trigger = "input" /\ ReportOn[c] = "onInput"
                       \/ trigger = "blur" /\ ReportOn[c] # "onSubmit"
Exposed(c, off, told, failure) == IF c \notin off /\ c \in told THEN failure ELSE 0

Init ==
  /\ value \in {[c \in Controls |-> Absent]}
  /\ result = [c \in Controls |-> Failure(c, value)]
  /\ reported = {} /\ disabled = {} /\ active = Controls /\ alive = Controls
  /\ dependents = [c \in Controls |-> {}]
  /\ shown = [c \in Controls |-> 0]
  /\ controls = <<>> /\ fields = {} /\ formDisabled = FALSE
  /\ job = <<>>
  /\ emitted = [count |-> 0, data |-> {}] /\ missed = {} /\ trouble = 0

-----------------------------------------------------------------------------
\* evaluate of the controls in checked, with the values val, and their sync.
Recheck(val, checked, told) ==
  /\ value' = val
  /\ result' = [c \in Controls |-> IF c \in checked THEN Failure(c, val) ELSE result[c]]
  /\ reported' = reported \cup told
  /\ shown' = [c \in Controls |-> IF c \in checked \cap active \cap alive
                                  THEN Exposed(c, disabled, reported', result'[c]) ELSE shown[c]]

\* The dependents evaluate reaches: it stops at the first whose Ui call fails.
Refreshed(c) == dependents[c] \cap (active \ disabled)
Reached_FirstOnly(c) == {{d} : d \in Refreshed(c)} \cup {{}}
Reached(c) ==
  IF c \notin alive THEN {{}}
  ELSE IF Refreshed(c) \subseteq alive THEN {Refreshed(c)}
  ELSE {before \cup {d} : before \in SUBSET (Refreshed(c) \cap alive), d \in Refreshed(c) \ alive}
NotifyFails(c) == c \notin alive \/ ~(Refreshed(c) \subseteq alive)

\* Why a control need not be rechecked after c: it is disabled, one of the two
\* is not registered, or the Ui failed on the way.
Excused(c, d) == d \in disabled \/ ~({c, d} \subseteq ToSet(controls)) \/ NotifyFails(c)

\* An input event of the node, or ValidationControl::input.
Input(c, v) ==
  /\ job # <<>> => job[1].handler
  /\ c \in active \ disabled /\ v # value[c]
  /\ \E reached \in Reached(c) :
       LET rechecked == {c} \cup reached
       IN /\ Recheck([value EXCEPT ![c] = v], rechecked, IF Reports(c, "input") THEN {c} ELSE {})
          /\ missed' = (missed \ rechecked)
                \cup {d \in Controls \ rechecked : c \in Peers(d) /\ Excused(c, d)}
  /\ dependents' = IF NotifyFails(c) THEN dependents
                   ELSE [dependents EXCEPT ![c] = @ \cap active]
  /\ UNCHANGED <<disabled, active, alive, form, job, emitted, trouble>>

\* The focus leaves c (None: nothing of the form had it): its blur event.
FocusLeaves(c) ==
  LET left == {c} \cap (active \ disabled)
  IN /\ Recheck(value, left, {d \in left : Reports(d, "blur")})
     /\ missed' = missed \ left

\* A blur event of the node, or ValidationControl::blur.
Blur(c) ==
  /\ job = <<>> /\ c \in active \ disabled
  /\ FocusLeaves(c)
  /\ UNCHANGED <<disabled, active, alive, dependents, form, job, emitted, trouble>>

Synced_NotDisabled(c) ==
  [shown EXCEPT ![c] = Exposed(c, disabled, reported, result[c])]
\* sync of one control, with its new disabled flag.
Synced(c) ==
  [shown EXCEPT ![c] = Exposed(c, disabled', reported, result[c])]

\* ValidationControl::set_disabled: the flag is set before the Ui is told, and a
\* result is not computed anew.
SetDisabled(c) ==
  /\ job # <<>> => job[1].handler
  /\ c \in active
  /\ c \notin disabled => trouble < MaxTrouble
  /\ trouble' = IF c \in disabled THEN trouble ELSE trouble + 1
  /\ disabled' = IF c \in disabled THEN disabled \ {c} ELSE disabled \cup {c}
  /\ shown' = IF c \in alive THEN Synced(c) ELSE shown
  /\ UNCHANGED <<bindings, active, alive, dependents, form, job, emitted, missed>>

\* close, or the drop of the last handle.
Close(c) ==
  /\ job # <<>> => job[1].handler
  /\ c \in active /\ trouble < MaxTrouble
  /\ active' = active \ {c} /\ trouble' = trouble + 1
  /\ UNCHANGED <<bindings, disabled, alive, dependents, shown, form, job, emitted, missed>>

\* The application removes the node; its control does not notice.
RemoveNode(c) ==
  /\ job # <<>> => job[1].handler
  /\ c \in alive /\ trouble < MaxTrouble
  /\ alive' = alive \ {c} /\ trouble' = trouble + 1
  /\ UNCHANGED <<bindings, disabled, active, dependents, shown, form, job, emitted, missed>>

-----------------------------------------------------------------------------
\* The form.

\* What add wires: both ways, by the identity of the values.
Edges(c) ==
  [d \in Controls |->
     IF d = c THEN {e \in ToSet(controls) : c \in Peers(e)}
     ELSE IF d \in ToSet(controls) /\ d \in Peers(c) THEN {c} ELSE {}]

Add(c) ==
  /\ job = <<>> /\ c \in active \cap alive /\ c \notin ToSet(controls)
  /\ controls' = Append(controls, c)
  /\ dependents' = [d \in Controls |-> dependents[d] \cup Edges(c)[d]]

AddControl(c) ==
  /\ Add(c)
  /\ UNCHANGED <<bindings, disabled, active, alive, shown, fields, formDisabled, job,
                 emitted, missed, trouble>>

\* register_field, which adds the control unless it is there.
RegisterField(c) ==
  /\ job = <<>> /\ c \in Fields \ fields
  /\ fields' = fields \cup {c}
  /\ IF c \in ToSet(controls) THEN UNCHANGED <<controls, dependents>> ELSE Add(c)
  /\ UNCHANGED <<bindings, disabled, active, alive, shown, formDisabled, job,
                 emitted, missed, trouble>>

FieldsAfter(c) == fields \ {c}

\* remove leaves the edges.
RemoveControl(c) ==
  /\ job = <<>> /\ trouble < MaxTrouble
  /\ trouble' = trouble + 1
  /\ \E i \in DOMAIN controls : controls[i] = c /\ controls' = RemoveAt(controls, i)
  /\ fields' = FieldsAfter(c)
  /\ UNCHANGED <<bindings, disabled, active, alive, dependents, shown, formDisabled,
                 job, emitted, missed>>

SetFormDisabled ==
  /\ job = <<>>
  /\ ~formDisabled => trouble < MaxTrouble
  /\ trouble' = IF formDisabled THEN trouble ELSE trouble + 1
  /\ formDisabled' = ~formDisabled
  /\ UNCHANGED <<bindings, disabled, active, alive, dependents, shown, controls, fields,
                 job, emitted, missed>>

\* check_validity: it stops at the first control whose Ui call fails.
CheckValidity ==
  /\ job = <<>> /\ ~formDisabled
  /\ LET asked == {i \in DOMAIN controls : controls[i] \in active \ disabled}
         checked == {controls[i] : i \in {j \in asked : \A k \in asked :
                                             k < j => controls[k] \in alive}}
     IN Recheck(value, checked, {}) /\ missed' = missed \ checked
  /\ UNCHANGED <<disabled, active, alive, dependents, form, job, emitted, trouble>>

\* report_validity, alone or as the first step of a submission.
Report(then) ==
  /\ job = <<>> /\ ~formDisabled /\ emitted.count < MaxSubmits
  /\ job' = <<[left |-> controls, first |-> None, handler |-> FALSE, then |-> then]>>
  /\ UNCHANGED <<bindings, disabled, active, alive, dependents, shown, form, emitted,
                 missed, trouble>>

FirstInvalid(c) == IF job[1].first = None THEN c ELSE job[1].first

\* One control of a report; an invalid one has its invalid handler called.
ReportNext ==
  /\ job # <<>> /\ ~job[1].handler /\ job[1].left # <<>>
  /\ LET c == Head(job[1].left)
         next == [job[1] EXCEPT !.left = Tail(@)]
     IN IF c \notin active \ disabled
        THEN job' = <<next>> /\ UNCHANGED <<bindings, shown, missed>>
        ELSE /\ Recheck(value, {c}, {c})
             /\ missed' = missed \ {c}
             /\ job' = IF c \notin alive THEN <<>>
                       ELSE IF Failure(c, value) = 0 THEN <<next>>
                       ELSE <<[next EXCEPT !.first = FirstInvalid(c), !.handler = TRUE]>>
  /\ UNCHANGED <<disabled, active, alive, dependents, form, emitted, trouble>>

HandlerReturns ==
  /\ job # <<>> /\ job[1].handler
  /\ job' = <<[job[1] EXCEPT !.handler = FALSE]>>
  /\ UNCHANGED <<bindings, disabled, active, alive, dependents, shown, form, emitted,
                 missed, trouble>>

Collects_SkipsInactive(c) == TRUE
Collects(c) == c \in active
\* What a submission sends: the application's own data, or the enabled fields,
\* each of which must be active; a node that is
\* gone fails no collector, whose only call of the Ui looks up its parent.
Sends == job[1].then = "submit" \/ \A c \in fields : Collects(c)
Data == IF job[1].then = "submit" THEN {}
        ELSE {<<c, value[c]>> : c \in fields \ disabled}

\* Every control asked was valid.
Passes == job[1].first = None

ReportEnd ==
  /\ job # <<>> /\ ~job[1].handler /\ job[1].left = <<>>
  /\ job' = <<>>
  /\ IF Passes
     THEN /\ emitted' = IF job[1].then # "none" /\ Sends
                        THEN [count |-> emitted.count + 1, data |-> Data] ELSE emitted
          /\ UNCHANGED <<bindings, shown, missed>>
     ELSE /\ UNCHANGED emitted
          /\ \E c \in IF job[1].first \in alive THEN (Controls \cup {None}) \ {job[1].first}
                      ELSE {None} : FocusLeaves(c)
  /\ UNCHANGED <<disabled, active, alive, dependents, form, trouble>>

Next ==
  \/ \E c \in Controls : \/ \E v \in Values : Input(c, v)
                         \/ Blur(c) \/ SetDisabled(c) \/ Close(c) \/ RemoveNode(c)
                         \/ AddControl(c) \/ RegisterField(c) \/ RemoveControl(c)
  \/ SetFormDisabled \/ CheckValidity
  \/ \E then \in {"none", "submit", "collect"} : Report(then)
  \/ ReportNext \/ HandlerReturns \/ ReportEnd

Spec == Init /\ [][Next]_vars

-----------------------------------------------------------------------------
\* Every variable has its type.
TypeOK ==
  /\ value \in [Controls -> Values] /\ result \in [Controls -> Nat]
  /\ reported \subseteq Controls /\ disabled \subseteq Controls
  /\ active \subseteq Controls /\ alive \subseteq Controls /\ missed \subseteq Controls
  /\ dependents \in [Controls -> SUBSET Controls] /\ shown \in [Controls -> Nat]
  /\ controls \in Seq(Controls)
  /\ IsInjective(controls) /\ fields \subseteq ToSet(controls) \cap Fields
  /\ emitted.count \in 0 .. MaxSubmits

\* A node shows its control's failure exactly when the control is enabled and has
\* reported, whatever mix of input, blur, refresh and disabling led there.
ShownAgrees ==
  /\ TypeOK
  /\ \A c \in active \cap alive : shown[c] = Exposed(c, disabled, reported, result[c])

\* "a source change rechecks only its declared dependants"
\* (drivers/rust/README.md:242): the result a registered control keeps is the one
\* its rules give now, also while another control's handler is changing values.
\* Excepted are the controls the code passes over: those disabled or not yet
\* registered when the source changed, or behind a node that is gone.
ResultsFresh ==
  \A c \in Controls \ missed : c \in active \ disabled => result[c] = Failure(c, value)

\* "Neither submit path emits when validation fails or the form is disabled",
\* "Disabled fields are omitted; inactive fields fail collection"
\* (drivers/rust/README.md:261): when a submit event is emitted every control the
\* form asks is valid at that moment, and a collected submission has one value
\* for each enabled field, the one its control holds.
SubmitsAreValid ==
  [][emitted' # emitted =>
       /\ ~formDisabled
       /\ \A c \in ToSet(controls) \cap (active \ disabled) : Failure(c, value) = 0
       /\ job[1].then = "collect" =>
            /\ fields \subseteq active
            /\ emitted'.data = {<<c, value[c]>> : c \in fields \ disabled}]_vars

=============================================================================
