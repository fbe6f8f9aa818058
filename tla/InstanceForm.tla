---------------------------- MODULE InstanceForm ----------------------------
(***************************************************************************)
(* The form that creates or edits an instance, in                          *)
(* components/add-instance: six tabs over one set of values, loaded when   *)
(* the form is opened and once more when the session's project arrives,    *)
(* completed by two tabs as they are shown, and saved as a whole. On the   *)
(* edge a save writes the row of the instance, then deletes and inserts    *)
(* the destinations one by one, with no transaction around it.             *)
(***************************************************************************)
EXTENDS Requests, Sequences, SequencesExt

CONSTANTS MaxTyped,   \* bound on the changes the user makes to an instance
          MaxFirst,   \* bound on those made to a new one
          MaxDests,   \* bound on the destinations
          MaxTurns    \* bound on the saves and the failed requests, together

ASSUME FormAssumption ==
  MaxTyped \in Nat /\ MaxFirst \in Nat /\ MaxDests \in Nat \ {0} /\ MaxTurns \in Nat

VARIABLES
  editing,   \* an instance is edited, not created
  stored,    \* the instance on the edge; a blank one before it is created
  form,
  loaded,    \* the destinations the form was filled in with
  cut,       \* the save that wrote last failed on the way
  touched,   \* the groups of values the user changed since they were filled in
  intended,  \* those that the last save was meant to change
  filled,    \* the form shows the instance as it is stored
  tab, hidden, sending, leaving,
  scripts,   \* the scripts have been listed
  known,     \* the operations of the servers: "no", "none" or "some"
  chosen,    \* a server is selected for a new destination
  proj,      \* the session's project has arrived
  inet,      \* requests of the form
  typed, submits, breaks

ivars == <<editing, stored, form, loaded, cut, touched, intended, filled, tab, hidden, sending, leaving,
           scripts, known, chosen, proj, inet, typed, submits, breaks>>

Tabs == {"basic", "script", "trigger", "destinations", "mapping", "fallback"}

(* Groups of values, as the tabs show them.                                *)
Simple == {"basic", "script", "trigger", "orchestration", "fallback", "errors"}
Groups == Simple \cup {"inputs", "dests"}

Destination == [op : {"old", "new"}, template : {"empty", "default", "own"}]

(* What a save overwrites without the form showing it: its payload has     *)
(* neither a status nor a creator nor the ids of the destinations.         *)
Overwritten == [status |-> "idle", creator |-> "nobody", ids |-> "new"]
Instance == Groups \cup DOMAIN Overwritten

Values(simple, inputs, dests) ==
  [g \in Groups |-> CASE g = "inputs" -> inputs [] g = "dests" -> dests [] OTHER -> simple]

(* defaultValues.                                                          *)
DefaultValues == Values("blank", "unset", <<>>)
\* mutant: the form is not filled in with the trigger
MutFormValues(inst) == [g \in Groups |-> IF g = "trigger" THEN "blank" ELSE inst[g]]

(* The form from the instance, and the payload from the form.              *)
FormValues(inst) == [g \in Groups |-> inst[g]]
Payload(values) == [g \in Groups |-> values[g]]

(* Update, and Create: every value of the payload, and the defaults.       *)
Upserted(values) == [g \in Instance |-> IF g \in Groups THEN values[g] ELSE Overwritten[g]]

FormTypeOK ==
  /\ editing \in BOOLEAN /\ DOMAIN stored = Instance /\ DOMAIN form = Groups
  /\ \A g \in Simple : form[g] \in {"blank", "old", "new"}
  /\ form.inputs \in {"unset", "default", "own"}
  /\ form.dests \in Seq(Destination) /\ Len(form.dests) <= MaxDests
  /\ stored.dests \in Seq(Destination) /\ loaded \in Seq(Destination)
  /\ touched \subseteq DOMAIN form /\ intended \subseteq DOMAIN form
  /\ tab \in Tabs /\ known \in {"no", "none", "some"}
  /\ {cut, filled, hidden, sending, scripts, chosen, proj} \subseteq BOOLEAN
  /\ leaving \in {"no", "soon", "gone"}

Run(n) == {Ask(n, "lists", None)}

FormInit ==
  /\ editing \in BOOLEAN /\ proj \in BOOLEAN
  /\ IF editing
     THEN \E t \in {"empty", "own"} :
            stored = [g \in Instance |->
              CASE g = "inputs" -> "unset"
                [] g = "dests" -> <<[op |-> "old", template |-> t]>>
                [] g = "status" -> "busy"
                [] g = "creator" -> "someone"
                [] OTHER -> "old"]
     ELSE stored = Upserted(DefaultValues)
  /\ form = DefaultValues /\ loaded = <<>> /\ cut = FALSE /\ touched = {} /\ intended = {}
  /\ filled = ~editing
  /\ tab = "basic" /\ hidden = TRUE /\ sending = FALSE /\ leaving = "no"
  /\ scripts = FALSE /\ known = "no" /\ chosen = FALSE
  /\ inet = Run(0)
  /\ typed = 0 /\ submits = 0 /\ breaks = 0

-----------------------------------------------------------------------------
(* What two tabs complete by themselves, as soon as they are shown with    *)
(* what they need: inputs the script has and the form has not, ...         *)
ScriptTab(values, listed) ==
  IF listed /\ values.script # "blank" /\ values.inputs = "unset"
  THEN [values EXCEPT !.inputs = "default"] ELSE values

(* ... and payload templates that are empty, of known operations.          *)
MappingTab(values, ops) ==
  IF ops = "some"
  THEN [values EXCEPT !.dests = [i \in DOMAIN @ |->
          IF @[i].template = "empty" THEN [@[i] EXCEPT !.template = "default"] ELSE @[i]]]
  ELSE values

Completed(values, t, listed, ops) ==
  CASE t = "script" -> ScriptTab(values, listed)
    [] t = "mapping" -> MappingTab(values, ops)
    [] OTHER -> values

-----------------------------------------------------------------------------
(* The user, while the form is shown.                                      *)

Usable == ~hidden /\ leaving # "gone"

PickTab ==
  /\ Usable
  /\ \E t \in Tabs \ {tab} :
       /\ tab' = t /\ form' = Completed(form, t, scripts, known)
  /\ chosen' = FALSE
  /\ UNCHANGED <<editing, stored, loaded, cut, touched, intended, filled, hidden, sending, leaving,
                 scripts, known, proj, inet, typed, submits, breaks>>

Change(group, value) ==
  /\ form' = Completed([form EXCEPT ![group] = value], tab, scripts, known)
  /\ touched' = touched \cup {group}

BasicTab == tab = "basic" /\ Change("basic", "new")

PickScript == tab = "script" /\ scripts /\ Change("script", "new")

(* The arguments are edited once a script of the list is chosen.           *)
EditInputs == tab = "script" /\ scripts /\ form.script # "blank" /\ Change("inputs", "own")

(* The type of the trigger, the fields each type shows and the mode, ...   *)
TriggerTab == tab = "trigger" /\ Change("trigger", "new")

(* ... and on the same tab the dependencies and the workflow.              *)
WorkflowCard == tab = "trigger" /\ Change("orchestration", "new")

(* What is done with payloads that are not delivered, ...                  *)
FallbackTab == tab = "fallback" /\ Change("fallback", "new")

(* ... and with a script that fails, and whether the instance is active.   *)
ErrorsCard == tab = "fallback" /\ Change("errors", "new")

(* handleAddDestination.                                                   *)
AddDestination ==
  /\ tab = "destinations" /\ chosen /\ known = "some"
  /\ Len(form.dests) < MaxDests
  /\ Change("dests", Append(form.dests, [op |-> "new", template |-> "empty"]))

(* The last destination cannot be removed; another operation keeps the     *)
(* template of the one before it.                                          *)
EditDestination ==
  /\ tab = "destinations"
  /\ \E i \in DOMAIN form.dests :
       \/ Len(form.dests) > 1 /\ Change("dests", RemoveAt(form.dests, i))
       \/ known = "some" /\ Change("dests", [form.dests EXCEPT ![i].op = "new"])

EditTemplate ==
  /\ tab = "mapping"
  /\ \E i \in DOMAIN form.dests : Change("dests", [form.dests EXCEPT ![i].template = "own"])

TypeInForm ==
  /\ Usable /\ typed < (IF editing THEN MaxTyped ELSE MaxFirst) /\ typed' = typed + 1
  /\ \/ AddDestination /\ chosen' = FALSE
     \/ /\ BasicTab \/ PickScript \/ EditInputs \/ TriggerTab \/ WorkflowCard
           \/ EditDestination \/ EditTemplate \/ FallbackTab \/ ErrorsCard
        /\ chosen' = chosen
  /\ UNCHANGED <<editing, stored, loaded, cut, intended, filled, tab, hidden, sending, leaving,
                 scripts, known, proj, inet, submits, breaks>>

(* Selecting a server asks for its operations unless they are cached.      *)
ChooseServer ==
  /\ Usable /\ tab = "destinations" /\ scripts /\ ~chosen /\ chosen' = TRUE
  /\ inet' = IF known = "no" THEN inet \cup {Ask(0, "operations", None)} ELSE inet
  /\ UNCHANGED <<editing, stored, form, loaded, cut, touched, intended, filled, tab, hidden, sending, leaving,
                 scripts, known, proj, typed, submits, breaks>>

(* InstanceFormSchema: the rules of the trigger are not part of it.        *)
Valid(values) ==
  values.basic # "blank" /\ values.script # "blank" /\ values.dests # <<>>

(* The button is enabled again while the form waits to close.              *)
Submit ==
  /\ Usable /\ ~sending /\ Valid(form)
  /\ submits + breaks < MaxTurns /\ submits' = submits + 1
  /\ sending' = TRUE
  /\ inet' = inet \cup {Ask(submits + 1, "submit", Payload(form))}
  /\ intended' = IF filled THEN touched ELSE DOMAIN form
  /\ UNCHANGED <<editing, stored, form, loaded, cut, touched, filled, tab, hidden, leaving,
                 scripts, known, chosen, proj, typed, breaks>>

(* Cancelled, or 1.5 s after a save: of the form, only what is being sent  *)
(* is left.                                                                *)
Close ==
  /\ leaving # "gone" /\ leaving' = "gone"
  /\ form' = DefaultValues /\ touched' = {} /\ filled' = FALSE /\ tab' = "basic"
  /\ hidden' = FALSE /\ sending' = FALSE /\ scripts' = FALSE /\ chosen' = FALSE
  /\ known' = "no" /\ proj' = TRUE
  /\ inet' = {r \in inet : r.what = "submit"}
  /\ typed' = 0 /\ breaks' = 0
  /\ UNCHANGED <<editing, stored, loaded, cut, intended, submits>>

-----------------------------------------------------------------------------
(* The session's project comes after the form: everything is loaded again. *)
ProjectArrives ==
  /\ ~proj /\ proj' = TRUE /\ leaving # "gone"
  /\ hidden' = TRUE /\ inet' = inet \cup Run(1)
  /\ UNCHANGED <<editing, stored, form, loaded, cut, touched, intended, filled, tab, sending, leaving,
                 scripts, known, chosen, typed, submits, breaks>>

FormServed(r) ==
  /\ r.state = "sent"
  /\ IF r.what = "submit"
     THEN stored' = Upserted(r.arg) /\ cut' = FALSE /\ inet' = Answer(Outdated(inet, {}), r, None)
     ELSE UNCHANGED <<stored, cut>> /\ inet' = Answer(inet, r, stored)
  /\ UNCHANGED <<editing, form, loaded, touched, intended, filled, tab, hidden, sending, leaving,
                 scripts, known, chosen, proj, typed, submits, breaks>>

Breaks == submits + breaks < MaxTurns /\ breaks' = breaks + 1

(* Nothing is written yet when a request fails.                            *)
FormBreaks(r) ==
  /\ r.state = "sent" /\ Breaks
  /\ inet' = Fail(inet, r)
  /\ UNCHANGED <<editing, stored, form, loaded, cut, touched, intended, filled, tab, hidden,
                 sending, leaving, scripts, known, chosen, proj, typed, submits>>

(* A destination without its mapping is one whose template is empty.       *)
Unmapped(dests, those) ==
  [i \in DOMAIN dests |-> [dests[i] EXCEPT !.template = IF i \in those THEN "empty" ELSE @]]

Left(values, dests, ids) ==
  [g \in Instance |-> CASE g = "dests" -> dests [] g = "ids" -> ids [] OTHER -> Upserted(values)[g]]

(* The row is written and then syncDestinations fails: while it deletes    *)
(* the mappings of the destinations there were, or with the first n of the *)
(* new ones inserted, the last perhaps without its mapping. An instance    *)
(* whose creation fails here stays, and the next save creates another.     *)
SaveFails(r) ==
  /\ r.what = "submit" /\ r.state = "sent" /\ Breaks
  /\ cut' = TRUE /\ inet' = Fail(Outdated(inet, {}), r)
  /\ \/ editing /\ \E n \in 0..Len(stored.dests) :
          stored' = Left(r.arg, Unmapped(stored.dests, 1..n), stored.ids)
     \/ \E n \in 0..Len(r.arg.dests) : \E those \in SUBSET {n} :
          stored' = Left(r.arg, Unmapped(SubSeq(r.arg.dests, 1, n), those), Overwritten.ids)
  /\ UNCHANGED <<editing, form, loaded, touched, intended, filled, tab, hidden, sending, leaving,
                 scripts, known, chosen, proj, typed, submits>>

(* The lists, and in edit mode the operations of each server, none of      *)
(* those that fail, have come: the instance is asked for.                  *)
ListsAnswered(r) ==
  /\ r.what = "lists" /\ r.state = "served"
  /\ scripts' = TRUE
  /\ IF editing
     THEN /\ \/ known' = "some" /\ breaks' = breaks
             \/ known' = "none" /\ submits + breaks < MaxTurns /\ breaks' = breaks + 1
          /\ hidden' = hidden
          /\ inet' = (inet \ {r}) \cup {Ask(r.of, "instance", None)}
          /\ form' = IF hidden THEN form ELSE Completed(form, tab, TRUE, known')
     ELSE /\ known' = known /\ hidden' = FALSE /\ inet' = inet \ {r} /\ breaks' = breaks
          /\ form' = Completed(form, tab, TRUE, known)
  /\ UNCHANGED <<editing, stored, loaded, cut, touched, intended, filled, tab, sending, leaving,
                 chosen, proj, typed, submits>>

(* form.reset: what was typed in between is gone.                          *)
InstanceAnswered(r) ==
  /\ r.what = "instance" /\ r.state = "served"
  /\ form' = Completed(FormValues(r.answer), tab, scripts, known)
  /\ touched' = {}
  /\ filled' = (~r.stale /\ \A q \in inet : q.what # "submit")
  /\ loaded' = IF filled' THEN r.answer.dests ELSE loaded
  /\ hidden' = FALSE /\ inet' = inet \ {r}
  /\ UNCHANGED <<editing, stored, cut, intended, tab, sending, leaving,
                 scripts, known, chosen, proj, typed, submits, breaks>>

(* The error is shown above the form, with whatever values it has.         *)
LoadBroken(r) ==
  /\ r.what \in {"lists", "instance"} /\ r.state = "failed"
  /\ hidden' = FALSE /\ inet' = inet \ {r}
  /\ form' = Completed(form, tab, scripts, known)
  /\ UNCHANGED <<editing, stored, loaded, cut, touched, intended, filled, tab, sending, leaving,
                 scripts, known, chosen, proj, typed, submits, breaks>>

(* updateOperationsCache: what failed counts as no operations.             *)
OperationsAnswered(r) ==
  /\ r.what = "operations" /\ r.state # "sent"
  /\ known' = IF r.state = "served" THEN "some" ELSE "none"
  /\ form' = IF hidden THEN form ELSE Completed(form, tab, scripts, known')
  /\ inet' = inet \ {r}
  /\ UNCHANGED <<editing, stored, loaded, cut, touched, intended, filled, tab, hidden, sending, leaving,
                 scripts, chosen, proj, typed, submits, breaks>>

SubmitAnswered(r) ==
  /\ r.what = "submit" /\ r.state # "sent"
  /\ sending' = FALSE
  /\ leaving' = IF r.state = "served" /\ leaving # "gone" THEN "soon" ELSE leaving
  /\ inet' = inet \ {r}
  /\ UNCHANGED <<editing, stored, form, loaded, cut, touched, intended, filled, tab, hidden,
                 scripts, known, chosen, proj, typed, submits, breaks>>

FormNext ==
  \/ PickTab
  \/ TypeInForm
  \/ ChooseServer
  \/ Submit
  \/ Close
  \/ ProjectArrives
  \/ \E r \in inet :
       \/ FormServed(r)
       \/ FormBreaks(r)
       \/ SaveFails(r)
       \/ ListsAnswered(r)
       \/ InstanceAnswered(r)
       \/ LoadBroken(r)
       \/ OperationsAnswered(r)
       \/ SubmitAnswered(r)

-----------------------------------------------------------------------------
(* What a tab may complete, ...                                            *)
OnlyMapped(before, after) ==
  /\ Len(before) = Len(after)
  /\ \A i \in DOMAIN before :
       after[i] = before[i] \/ (before[i].template = "empty" /\
                                after[i] = [before[i] EXCEPT !.template = "default"])

(* ... and what a save that fails may leave of that.                       *)
Shortened(before, after) ==
  /\ Len(after) <= Len(before)
  /\ \A i \in DOMAIN after :
       /\ after[i].op = before[i].op
       /\ \/ after[i].template \in {before[i].template, "empty"}
          \/ before[i].template = "empty" /\ after[i].template = "default"

(* A save changes only what the user changed since the form was filled in, *)
(* what a tab completed, and what every save overwrites unseen: loading    *)
(* twice, showing tabs in any order and saving twice lose nothing else     *)
(* that is stored, once the instance has been loaded, and neither from     *)
(* before a save nor during one. A save that fails on the way leaves a     *)
(* beginning of the destinations, some perhaps without their mapping, and  *)
(* saving the same form again brings them all back (loadData, onSubmit,    *)
(* the effects of the script and mapping tabs; Update, syncDestinations).  *)
SavedAsMeant ==
  [][\A g \in Instance : stored'[g] # stored[g] =>
       \/ g \in intended
       \/ g \in DOMAIN Overwritten /\ stored'[g] = Overwritten[g]
       \/ g = "inputs" /\ stored[g] = "unset" /\ stored'[g] = "default"
       \/ g = "dests" /\ IF cut' THEN Shortened(loaded, stored'[g])
                                 ELSE OnlyMapped(loaded, stored'[g])]_ivars

=============================================================================
