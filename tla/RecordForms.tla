---------------------------- MODULE RecordForms -----------------------------
(***************************************************************************)
(* The pages that create or edit one record: a device, the data about a    *)
(* script, or a server with its resources and their operations. Each is    *)
(* filled in with the record when it comes and saved as a whole.           *)
(***************************************************************************)
EXTENDS Requests

CONSTANTS MaxKeyed,   \* bound on the changes the user makes
          MaxRounds,  \* bound on the saves
          MaxMisses   \* bound on the requests that fail

VARIABLES
  kind, old,        \* what the page shows; it is there already
  kept,             \* the record on the edge
  fields, origin,   \* the form, and what it was filled in with
  dirty, meant,     \* changed since; what the last save was meant to change
  ready, faithful,  \* the form is shown; it shows the record
  builder, auto,    \* of servers: the resources are shown; one was added to none
  panel,            \* how far the lists beside the form have come
  gone, rnet, keyed, rounds, misses

rvars == <<kind, old, kept, fields, origin, dirty, meant, ready, faithful, builder, auto,
           panel, gone, rnet, keyed, rounds, misses>>

(* Groups of fields; of a server, a resource with its operations each.     *)
Resources == {"first", "second"}

Keys(k) ==
  CASE k = "device" -> {"shown", "serial", "operation"}
    [] k = "script" -> {"about", "tags"}
    [] k = "server" -> {"general", "headers", "owner"} \cup Resources

(* What the form is not filled in with: of a server its headers, and its   *)
(* creator with the project and the time of its creation.                  *)
Forgotten(k) ==
  CASE k = "device" -> {"serial", "operation"}
    [] k = "script" -> {}
    [] k = "server" -> {"headers", "owner"}

Blank(k) == [f \in Keys(k) |-> "none"]
\* mutant: the form is not filled in with the tags
MutFilledIn(k, record) ==
  [f \in Keys(k) |-> IF f \in Forgotten(k) \cup {"tags"} THEN "none" ELSE record[f]]

FilledIn(k, record) == [f \in Keys(k) |-> IF f \in Forgotten(k) THEN "none" ELSE record[f]]

RecordTypeOK ==
  /\ kind \in {"device", "script", "server"}
  /\ \A rec \in {kept, fields, origin} :
       rec \in [Keys(kind) -> {"none", "old", "new", "auto"}]
  /\ dirty \subseteq Keys(kind) /\ meant \subseteq Keys(kind)
  /\ {old, ready, faithful, builder, auto, gone} \subseteq BOOLEAN
  /\ panel \in {"servers", "server", "resources", "operations"}

RecordInit ==
  /\ kind \in {"device", "script", "server"} /\ old \in BOOLEAN /\ (kind = "script" => old)
  /\ IF old
     THEN kept \in {rec \in [Keys(kind) -> {"none", "old"}] :
                      \A f \in Keys(kind) \ {"first", "second"} : rec[f] = "old"}
     ELSE kept = Blank(kind)
  /\ fields = Blank(kind) /\ origin = Blank(kind) /\ dirty = {} /\ meant = {}
  /\ ready = (kind = "device" /\ ~old) /\ faithful = ~old
  /\ builder = FALSE /\ auto = FALSE /\ panel = "servers" /\ gone = FALSE
  /\ rnet = {Ask(0, CASE kind = "server" -> "metadata"
                      [] ready -> "panel"
                      [] OTHER -> "record", None)}
  /\ keyed = 0 /\ rounds = 0 /\ misses = 0

-----------------------------------------------------------------------------
(* The form of a device that is edited is filled in again whenever the     *)
(* page around it changes: what was typed is gone, the operation stays.    *)
Rerendered == kind = "device" /\ old

Refill ==
  IF Rerendered
  THEN fields' = [origin EXCEPT !.operation = fields.operation] /\ dirty' = dirty \cap {"operation"}
  ELSE UNCHANGED <<fields, dirty>>

(* The builder adds a resource where there is none, once while it is shown *)
(* for one type of server.                                                 *)
Builds(values, shown, done) ==
  shown /\ ~done /\ \A f \in Resources : values[f] = "none"

WithResource(values) == [values EXCEPT !.first = "auto"]

Enter(values) ==
  IF kind = "server" /\ Builds(values, builder, auto)
  THEN fields' = WithResource(values) /\ auto' = TRUE
  ELSE fields' = values /\ auto' = auto

-----------------------------------------------------------------------------
(* The user.                                                               *)

Shown == ready /\ ~gone

Put(f, value) == Enter([fields EXCEPT ![f] = value]) /\ dirty' = dirty \cup {f}

DeviceFields == kind = "device" /\ Put("shown", "new")

ScriptFields == kind = "script" /\ \E f \in Keys("script") : Put(f, "new")

(* A type can be chosen for a server when the catalogue has come.          *)
ServerFields == kind = "server" /\ ~builder /\ panel # "servers" /\ Put("general", "new")

(* A resource is added, changed or removed; ...                            *)
ResourceItem ==
  kind = "server" /\ builder /\ \E f \in Resources, value \in {"new", "none"} : Put(f, value)

(* ... an operation is changed in the resource it belongs to.              *)
OperationItem ==
  kind = "server" /\ builder /\ \E f \in Resources : fields[f] # "none" /\ Put(f, "new")

TypeField ==
  /\ Shown /\ keyed < MaxKeyed /\ keyed' = keyed + 1
  /\ DeviceFields \/ ScriptFields \/ ServerFields \/ ResourceItem \/ OperationItem
  /\ UNCHANGED <<kind, old, kept, origin, meant, ready, faithful, builder, panel, gone,
                 rnet, rounds, misses>>

(* The builder starts anew each time it is shown, and needs a type.        *)
ShowBuilder ==
  /\ Shown /\ kind = "server" /\ keyed < MaxKeyed /\ keyed' = keyed + 1
  /\ IF builder
     THEN builder' = FALSE /\ auto' = FALSE /\ fields' = fields
     ELSE /\ fields.general # "none" /\ builder' = TRUE
          /\ auto' = Builds(fields, TRUE, FALSE)
          /\ fields' = IF auto' THEN WithResource(fields) ELSE fields
  /\ UNCHANGED <<kind, old, kept, origin, dirty, meant, ready, faithful, panel, gone,
                 rnet, rounds, misses>>

(* A server is chosen on the panel, and then an operation of a resource.   *)
UsePanel ==
  /\ Shown /\ kind = "device"
  /\ \/ panel = "server" /\ panel' = "resources" /\ Refill
        /\ rnet' = rnet \cup {Ask(0, "panel", None)}
     \/ panel = "operations" /\ panel' = "server" /\ rnet' = rnet
        /\ fields' = [(IF Rerendered THEN origin ELSE fields) EXCEPT !.operation = "new"]
        /\ dirty' = (IF Rerendered THEN {} ELSE dirty) \cup {"operation"}
  /\ keyed < MaxKeyed /\ keyed' = keyed + 1
  /\ UNCHANGED <<kind, old, kept, origin, meant, ready, faithful, builder, auto, gone,
                 rounds, misses>>

(* Only the page of scripts disables its button while it saves.            *)
Saving == \E r \in rnet : r.what = "save"

Complete == kind = "script" \/ \A f \in {"shown", "general"} \cap Keys(kind) : fields[f] # "none"

PressSave ==
  /\ Shown /\ Complete /\ (kind = "script" => ~Saving)
  /\ rounds < MaxRounds /\ rounds' = rounds + 1
  /\ rnet' = rnet \cup {Ask(rounds + 1, "save", fields)}
  /\ meant' = IF faithful /\ ~Saving THEN dirty ELSE Keys(kind)
  /\ Refill
  /\ UNCHANGED <<kind, old, kept, origin, ready, faithful, builder, auto, panel, gone,
                 keyed, misses>>

-----------------------------------------------------------------------------
(* The edge: a record is replaced; of a server, its row with no headers    *)
(* and with who saves it, and then one by one the resources that are sent; *)
(* those that are not are left alone. One the form did not load is stored  *)
(* anew each time it is saved: "kept" has the last.                        *)
Erased(f) == IF f = "owner" THEN "new" ELSE "none"

Saved(record, part) ==
  IF kind # "server" THEN record
  ELSE [f \in Keys(kind) |->
          IF f \in Forgotten(kind)
          THEN IF "general" \in part THEN Erased(f) ELSE kept[f]
          ELSE IF f \in part /\ record[f] # "none" THEN record[f] ELSE kept[f]]

RecordServed(r) ==
  /\ r.state = "sent"
  /\ IF r.what = "save"
     THEN kept' = Saved(r.arg, Keys(kind)) /\ rnet' = Answer(Outdated(rnet, {}), r, None)
     ELSE kept' = kept /\ rnet' = Answer(rnet, r, kept)
  /\ UNCHANGED <<kind, old, fields, origin, dirty, meant, ready, faithful, builder, auto,
                 panel, gone, keyed, rounds, misses>>

(* Saving a server may stop after any of its parts, and that of a script   *)
(* fails also when only its history could not be written.                  *)
RecordFails(r) ==
  /\ r.state = "sent" /\ misses < MaxMisses /\ misses' = misses + 1
  /\ IF r.what = "save" /\ kind = "server"
     THEN /\ \E part \in {{}, {"general"}, {"general", "first"}} : kept' = Saved(r.arg, part)
          /\ rnet' = Fail(Outdated(rnet, {}), r)
     ELSE \/ kept' = kept /\ rnet' = Fail(rnet, r)
          \/ /\ r.what = "save" /\ kind = "script"
             /\ kept' = Saved(r.arg, Keys(kind)) /\ rnet' = Fail(Outdated(rnet, {}), r)
  /\ UNCHANGED <<kind, old, fields, origin, dirty, meant, ready, faithful, builder, auto,
                 panel, gone, keyed, rounds>>

-----------------------------------------------------------------------------
(* The answers.                                                            *)

MetadataCame(r) ==
  /\ r.what = "metadata" /\ r.state # "sent"
  /\ ready' = TRUE
  /\ IF r.state = "served"
     THEN /\ panel' = "server"
          /\ rnet' = (rnet \ {r}) \cup (IF old THEN {Ask(0, "record", None)} ELSE {})
     ELSE panel' = panel /\ rnet' = rnet \ {r}
  /\ UNCHANGED <<kind, old, kept, fields, origin, dirty, meant, faithful, builder, auto,
                 gone, keyed, rounds, misses>>

(* form.reset for a server, which may have been edited already.            *)
RecordCame(r) ==
  /\ r.what = "record" /\ r.state = "served"
  /\ origin' = FilledIn(kind, r.answer) /\ dirty' = {} /\ Enter(FilledIn(kind, r.answer))
  /\ ready' = TRUE /\ faithful' = (~r.stale /\ ~Saving)
  /\ rnet' = (rnet \ {r}) \cup (IF kind = "device" THEN {Ask(0, "panel", None)} ELSE {})
  /\ UNCHANGED <<kind, old, kept, meant, builder, panel, gone, keyed, rounds, misses>>

(* The page of a device is left; the others show an empty form.            *)
RecordMissing(r) ==
  /\ r.what = "record" /\ r.state = "failed"
  /\ ready' = TRUE /\ gone' = (gone \/ kind = "device") /\ rnet' = rnet \ {r}
  /\ UNCHANGED <<kind, old, kept, fields, origin, dirty, meant, faithful, builder, auto,
                 panel, keyed, rounds, misses>>

(* The list of servers, or the resources of the one that is chosen.        *)
PanelCame(r) ==
  /\ r.what = "panel" /\ r.state # "sent"
  /\ panel' = IF r.state = "failed" THEN panel
              ELSE IF panel = "servers" THEN "server" ELSE "operations"
  /\ Refill
  /\ rnet' = rnet \ {r}
  /\ UNCHANGED <<kind, old, kept, origin, meant, ready, faithful, builder, auto, gone,
                 keyed, rounds, misses>>

SaveCame(r) ==
  /\ r.what = "save" /\ r.state # "sent"
  /\ gone' = (gone \/ r.state = "served") /\ rnet' = rnet \ {r}
  /\ Refill
  /\ UNCHANGED <<kind, old, kept, origin, meant, ready, faithful, builder, auto,
                 panel, keyed, rounds, misses>>

RecordNext ==
  \/ TypeField
  \/ ShowBuilder
  \/ UsePanel
  \/ PressSave
  \/ \E r \in rnet :
       \/ RecordServed(r)
       \/ RecordFails(r)
       \/ MetadataCame(r)
       \/ RecordCame(r)
       \/ RecordMissing(r)
       \/ PanelCame(r)
       \/ SaveCame(r)

-----------------------------------------------------------------------------
(* A save changes only what the user changed since the form was filled in, *)
(* but for what the form is not filled in with, which every save erases or *)
(* overwrites, and the resource that the builder adds: however the record, *)
(* the catalogue, the panel and the save are answered, unless the save was *)
(* sent from a form that does not show the record, or while another one    *)
(* was under way (ScriptEditPage, DeviceForm and ServerStepForm).          *)
RecordsSavedAsMeant ==
  [][\A f \in Keys(kind) : kept'[f] # kept[f] =>
       \/ f \in meant
       \/ f \in Forgotten(kind) /\ kept'[f] = Erased(f)
       \/ kept[f] = "none" /\ kept'[f] = "auto"]_rvars

=============================================================================
