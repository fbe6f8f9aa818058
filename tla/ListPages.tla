----------------------------- MODULE ListPages -----------------------------
(***************************************************************************)
(* The pages that list what the edge holds, one card for each row:         *)
(* instances, projects, servers, credentials, scripts and devices. Each    *)
(* loads its list when it is opened. What an operation does to the list on *)
(* the page is patched in when it has been answered ("patch"), or the list *)
(* is loaded again ("reload"). All but the devices page keep their rows in *)
(* a store that outlives the page, with the requests still under way.      *)
(***************************************************************************)
EXTENDS Requests

CONSTANTS MaxRows,      \* bound on the rows ever stored
          MaxOps,       \* bound on the operations started
          MaxVisits,    \* bound on the times the page is opened again
          MaxElsewhere  \* bound on changes made elsewhere and on failures

VARIABLES
  page,
  rows,      \* the stored rows
  made,      \* how many rows were ever stored: they are numbered from 1
  shown,     \* the cards on the page: how many there are of each row
  busy, saving,
  lnet,      \* requests of the page
  ops, visit, elsewhere,
  off        \* what was last applied to the page was not, or not only, news

ASSUME ListAssumption ==
  MaxRows \in Nat \ {0} /\ MaxOps \in Nat /\ MaxVisits \in Nat /\ MaxElsewhere \in Nat

lvars == <<page, rows, made, shown, busy, saving, lnet, ops, visit, elsewhere, off>>

(* What the cards of each page offer, and how it reaches the list.         *)
InstanceCard == {"toggle", "trigger", "delete"}
InstanceOps == [toggle |-> "patch", trigger |-> "none", delete |-> "patch"]

ProjectForm == {"create"}
ProjectOps == [create |-> "patch", delete |-> "patch"]

ServerDialog == {"create"}
ServerOps == [create |-> "reload", delete |-> "patch"]

CredentialDialog == {"create", "update"}
CredentialOps == [create |-> "reload", update |-> "reload", delete |-> "reload"]

ScriptOps == [delete |-> "patch"]
DeviceOps == [delete |-> "patch"]

Pages == {"instances", "projects", "servers", "credentials", "scripts", "devices"}

OpsOf(p) ==
  CASE p = "instances" -> InstanceOps
    [] p = "projects" -> ProjectOps
    [] p = "servers" -> ServerOps
    [] p = "credentials" -> CredentialOps
    [] p = "scripts" -> ScriptOps
    [] p = "devices" -> DeviceOps

(* A spinner takes the place of the cards while these pages load; the      *)
(* others show one only when they have no card.                            *)
Spinning == {"instances", "projects", "servers", "devices"}

(* One dialog at a time saves on these pages; that of credentials waits    *)
(* for the list to be loaded again.                                        *)
Guarded == [servers |-> ServerDialog, credentials |-> CredentialDialog]

OneAtATime(op) == page \in DOMAIN Guarded /\ op \in Guarded[page]

Row == [id : 1..MaxRows, active : BOOLEAN]

(* The order of the cards is left out. One card for each row of a set:     *)
Cards(set) == [x \in Row |-> IF x \in set THEN 1 ELSE 0]

ListTypeOK ==
  /\ page \in Pages /\ rows \subseteq Row /\ made \in 0..MaxRows
  /\ shown \in [Row -> Nat] /\ busy \in BOOLEAN /\ saving \in BOOLEAN /\ off \in BOOLEAN
  /\ \A r \in lnet : r.what \in DOMAIN OpsOf(page) \cup {"list"}

(* fetchAll.                                                               *)
FetchAll(of) == Ask(of, "list", None)

ListInit ==
  /\ page \in Pages
  /\ made \in 0..1 /\ rows = {[id |-> i, active |-> TRUE] : i \in 1..made}
  /\ shown = Cards({}) /\ busy = TRUE /\ saving = FALSE
  /\ lnet = {FetchAll([visit |-> 0, n |-> 0])}
  /\ ops = 0 /\ visit = 0 /\ elsewhere = 0 /\ off = FALSE

-----------------------------------------------------------------------------
(* The user.                                                               *)

Offered == IF busy /\ page \in Spinning THEN {} ELSE {x \in Row : shown[x] > 0}

(* A card's button, or a dialog that creates: "arg" is the row it sends.   *)
Press(op, arg) ==
  /\ op \in DOMAIN OpsOf(page) /\ ops < MaxOps
  /\ IF op = "create" THEN arg = None ELSE arg \in Offered
  /\ OneAtATime(op) => ~saving
  /\ ops' = ops + 1 /\ saving' = (saving \/ OneAtATime(op))
  /\ lnet' = lnet \cup {Ask([visit |-> visit, n |-> ops + 1], op, arg)}
  /\ UNCHANGED <<page, rows, made, shown, busy, visit, elsewhere, off>>

(* The page is left and opened again: a new devices page starts empty and  *)
(* hears nothing of what the old one had asked.                            *)
Reopen ==
  /\ visit < MaxVisits /\ visit' = visit + 1
  /\ busy' = TRUE /\ saving' = FALSE
  /\ shown' = IF page = "devices" THEN Cards({}) ELSE shown
  /\ lnet' = lnet \cup {FetchAll([visit |-> visit + 1, n |-> 0])}
  /\ UNCHANGED <<page, rows, made, ops, elsewhere, off>>

-----------------------------------------------------------------------------
(* The edge.                                                               *)

(* A row with an id that is not stored any more is not found: the handlers *)
(* answer 200 with an error in the body, at which only the switch of an    *)
(* instance and the devices page look.                                     *)
Stored(row) == \E x \in rows : x.id = row.id
ToldGone(r) == r.what = "toggle" \/ page = "devices"

Flipped(row) == [row EXCEPT !.active = ~@]
Fresh == [id |-> made + 1, active |-> TRUE]

Store(gone, come, r, answer) ==
  /\ rows' = {x \in rows : x.id \notin gone} \cup come
  /\ lnet' = Answer(lnet, r, answer)

ServeList(r) ==
  /\ r.state = "sent"
  /\ \/ r.what = "list" /\ Store({}, {}, r, rows) /\ UNCHANGED made
     \/ r.what = "create" /\ made < MaxRows
        /\ Store({}, {Fresh}, r, Fresh) /\ made' = made + 1
     \/ r.what \in {"toggle", "update"} /\ Stored(r.arg)
        /\ Store({r.arg.id}, {Flipped(r.arg)}, r, Flipped(r.arg)) /\ UNCHANGED made
     \/ r.what = "trigger" /\ Stored(r.arg) /\ Store({}, {}, r, None) /\ UNCHANGED made
     \/ r.what = "delete" /\ Stored(r.arg) /\ Store({r.arg.id}, {}, r, None) /\ UNCHANGED made
     \/ /\ r.what \notin {"list", "create"} /\ ~Stored(r.arg)
        /\ lnet' = (IF ToldGone(r) THEN Fail(lnet, r) ELSE Answer(lnet, r, None))
        /\ UNCHANGED <<rows, made>>
  /\ UNCHANGED <<page, shown, busy, saving, ops, visit, elsewhere, off>>

(* A request, or its answer, is lost.                                      *)
ListLost(r) ==
  /\ r.state # "failed" /\ elsewhere < MaxElsewhere /\ elsewhere' = elsewhere + 1
  /\ lnet' = Fail(lnet, r) /\ off' = TRUE
  /\ UNCHANGED <<page, rows, made, shown, busy, saving, ops, visit>>

RowsChangeElsewhere ==
  /\ elsewhere < MaxElsewhere /\ elsewhere' = elsewhere + 1 /\ off' = TRUE
  /\ \/ \E x \in rows : rows' = rows \ {x} /\ UNCHANGED made
     \/ made < MaxRows /\ rows' = rows \cup {Fresh} /\ made' = made + 1
  /\ UNCHANGED <<page, shown, busy, saving, lnet, ops, visit>>

-----------------------------------------------------------------------------
(* The answers.                                                            *)

Heard(r) == page # "devices" \/ r.of.visit = visit
\* mutant: a deleted row stays on the page
MutWithout(list, id) == list

Without(list, id) == [x \in Row |-> IF x.id = id THEN 0 ELSE list[x]]

(* Every card with the id of the row shows the row as it is now.           *)
With(list, row) ==
  [x \in Row |-> IF x.id # row.id THEN list[x]
                 ELSE IF x = row THEN list[row] + list[Flipped(row)] ELSE 0]

(* A row that the list already holds is about to be appended to it.        *)
CreatePending ==
  \E q \in lnet : q.what = "create" /\ q.state = "served" /\ OpsOf(page).create = "patch"

ListAnswered(r) ==
  /\ r.what = "list" /\ r.state # "sent" /\ Heard(r)
  /\ busy' = FALSE
  /\ saving' = IF r.of.visit = visit /\ r.of.n # 0 THEN FALSE ELSE saving
  /\ lnet' = lnet \ {r}
  /\ IF r.state = "served"
     THEN /\ shown' = Cards(r.answer)
          /\ off' = (r.answer # rows \/ CreatePending)
     ELSE UNCHANGED <<shown, off>>
  /\ UNCHANGED <<page, rows, made, ops, visit, elsewhere>>

Patched(r) ==
  /\ r.state = "served" /\ Heard(r) /\ r.what # "list"
  /\ OpsOf(page)[r.what] # "reload"
  /\ shown' = CASE r.what = "create" -> [shown EXCEPT ![r.answer] = @ + 1]
                 [] r.what = "toggle" -> With(shown, r.answer)
                 [] r.what = "delete" -> Without(shown, r.arg.id)
                 [] r.what = "trigger" -> shown
  /\ off' = (off \/ (r.what \in {"create", "toggle"} /\ r.answer \notin rows))
  /\ lnet' = lnet \ {r}
  /\ UNCHANGED <<page, rows, made, busy, saving, ops, visit, elsewhere>>

Reloaded(r) ==
  /\ r.state = "served" /\ Heard(r) /\ r.what # "list"
  /\ OpsOf(page)[r.what] = "reload"
  /\ busy' = TRUE
  /\ LET waits == page = "credentials" /\ OneAtATime(r.what)
     IN /\ saving' = (saving /\ (waits \/ r.of.visit # visit \/ ~OneAtATime(r.what)))
        /\ lnet' = (lnet \ {r}) \cup {FetchAll([r.of EXCEPT !.n = IF waits THEN @ ELSE 0])}
  /\ UNCHANGED <<page, rows, made, shown, ops, visit, elsewhere, off>>

OpFailed(r) ==
  /\ r.state = "failed" /\ r.what # "list" /\ Heard(r)
  /\ saving' = IF r.of.visit = visit /\ OneAtATime(r.what) THEN FALSE ELSE saving
  /\ lnet' = lnet \ {r}
  /\ UNCHANGED <<page, rows, made, shown, busy, ops, visit, elsewhere, off>>

Unheard(r) ==
  /\ r.state # "sent" /\ ~Heard(r) /\ lnet' = lnet \ {r}
  /\ off' = (off \/ r.what = "delete")
  /\ UNCHANGED <<page, rows, made, shown, busy, saving, ops, visit, elsewhere>>

ListNext ==
  \/ \E op \in {"create", "update", "toggle", "trigger", "delete"} :
       \E arg \in Offered \cup {None} : Press(op, arg)
  \/ Reopen
  \/ RowsChangeElsewhere
  \/ \E r \in lnet :
       \/ ServeList(r)
       \/ ListLost(r)
       \/ ListAnswered(r)
       \/ Patched(r)
       \/ Reloaded(r)
       \/ OpFailed(r)
       \/ Unheard(r)

-----------------------------------------------------------------------------
(* Once a page waits for nothing it shows each stored row once, as it is,  *)
(* and nothing else, however its loads and operations overlapped: unless   *)
(* an answer was lost, the rows changed elsewhere, the last answers were   *)
(* outdated, or about rows already shown, when they came, or a device was  *)
(* removed on a page that is no longer there to hear of it (the stores of  *)
(* instances, projects, servers, credentials and scripts; Devices.tsx).    *)
ListFollowsServer ==
  lnet = {} /\ ~off => shown = Cards(rows)

=============================================================================
