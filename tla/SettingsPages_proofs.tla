------------------------ MODULE SettingsPages_proofs ------------------------
(***************************************************************************)
(* Safety of the settings pages and of the updater: for any tags, rows,    *)
(* fields, values, releases and workers, any use of the pages, and any     *)
(* number of requests, handlers, faults and changes made elsewhere.        *)
(*                                                                         *)
(* Answers come in any order, so what each page promises when everything   *)
(* is quiet rests on what is known of the requests still under way: which  *)
(* answers are still true, which handler each request belongs to, and what *)
(* the edge has done when its answer comes.                                *)
(***************************************************************************)
EXTENDS SettingsPages, TLAPS

IsRequest(r) ==
  /\ r = [of |-> r.of, what |-> r.what, arg |-> r.arg,
          state |-> r.state, answer |-> r.answer, stale |-> r.stale]
  /\ r.state \in {"sent", "served", "failed"} /\ r.stale \in BOOLEAN

(* What becomes of a request: it is served, fails, or is outdated.         *)
Same(q, r) == IsRequest(q) /\ q.of = r.of /\ q.what = r.what /\ q.arg = r.arg
ServedAs(q, r, answer) ==
  Same(q, r) /\ q.state = "served" /\ q.answer = answer /\ q.stale = r.stale
FailedAs(q, r) == Same(q, r) /\ q.state = "failed"
Outdates(r, chained) == r.state = "served" \/ r.what \in chained
Aged(r, chained) == IF Outdates(r, chained) THEN [r EXCEPT !.stale = TRUE] ELSE r
AgedAs(q, r, chained) ==
  /\ Same(q, r) /\ q.state = r.state /\ q.answer = r.answer
  /\ (q.stale <=> r.stale \/ Outdates(r, chained))

----------------------------------------------------------------------------
(* The cloud page. A request has its type, and an answer that nothing has  *)
(* outdated is what the edge holds.                                        *)
CloudRequest(r) ==
  /\ IsRequest(r)
  /\ r.what \in CloudActions \cup {"status", "onboarding"}
  /\ r.what \in CloudActions =>
       r.of = "action" /\ r.arg.tags \in Tags /\ r.arg.override \in BOOLEAN
  /\ r.what \notin CloudActions =>
       r.arg \in BOOLEAN /\ (r.state = "served" => r.answer \in Edges)

True(r, e) ==
  ~r.stale =>
    /\ r.what = "status" /\ r.state = "served" => r.answer = e
    /\ r.what = "onboarding" => ~e.linked /\ (r.state = "served" => r.answer = e)

(* One request at most belongs to the action in progress.                  *)
OneAction(calls, a) ==
  /\ \A r \in calls : r.of = "action" => a # "none"
  /\ \A r, q \in calls : r.of = "action" /\ q.of = "action" => r = q
  /\ \A r \in calls : r.what \in CloudActions => r.what = a

(* A step that asks to be linked is left behind once the edge is.          *)
LinkedStepLeaves ==
  edge.linked /\ step \in {"onboarding", "connection"} => act \in {"pair", "connect"}

CarriedOut(r, e) ==
  r.state = "served" =>
    /\ r.what = "save" => e.onboarding = "named"
    /\ r.what = "remove" => ~e.linked

CloudInv ==
  /\ CloudTypeOK
  /\ \A r \in cnet : CloudRequest(r) /\ True(r, edge) /\ (r.state = "failed" => excused)
  /\ OneAction(cnet, act)
  /\ ~excused =>
       /\ LinkedStepLeaves /\ (act = "save" => ~edge.linked)
       /\ \A r \in cnet : CarriedOut(r, edge)
  /\ StepFollowsEdge

----------------------------------------------------------------------------
(* The queue panels. A request of a handler that removes a row, from the   *)
(* moment the edge has carried it out, finds the row gone.                 *)
Handlers ==
  [n : 0..MaxHandlers, kind : {"load", "flush", "retry", "delete", "poll"},
   item : Items \cup {None}]

QueueRequest(r) ==
  /\ IsRequest(r) /\ r.of \in Handlers
  /\ r.what \in {"list", "flush", "retry", "delete"}
  /\ r.what # "list" => r.what = r.of.kind
  /\ r.of.kind \in {"retry", "delete"} => r.of.item \in Items
  /\ r.what = "list" /\ r.state = "served" => r.answer \in Rows

Removing(r) == r.of.kind = "delete" /\ (r.what = "list" \/ r.state = "served")

QueueTrue(r, rows) ==
  /\ Removing(r) => rows[r.of.item] = "gone"
  /\ r.what = "list" /\ r.state = "served" /\ ~r.stale => r.answer = rows

QueueInv ==
  /\ QueueTypeOK /\ started \in 0..MaxHandlers
  /\ \A r \in qnet : QueueRequest(r) /\ QueueTrue(r, queue)
  /\ \A i \in removed : queue[i] = "gone"
  /\ ReadsOwnWrites

----------------------------------------------------------------------------
(* The advanced page: what a save carries was changed by the user, since   *)
(* whatever the user left alone is as it was loaded.                       *)
AdvancedRequest(r, meant) ==
  /\ IsRequest(r) /\ r.what \in {"config", "save"}
  /\ r.what = "save" =>
       /\ r.of = "save" /\ DOMAIN r.arg \subseteq meant
       /\ \A f \in DOMAIN r.arg : r.arg[f] \in Values
  /\ r.what = "config" /\ r.state = "served" => r.answer \in Files

OneSave(calls, busySaving) ==
  /\ \A r \in calls : r.of = "save" => busySaving
  /\ \A r, q \in calls : r.of = "save" /\ q.of = "save" => r = q

AsLoaded ==
  loaded # None => \A f \in All \ touched : fields[f] = Filled(loaded)[f]

NoneBlank == \A f \in All : fields[f] = None => f \in Secret \cup Required

(* The file that the page's save is about to write, as long as nothing has *)
(* overtaken it, is the configuration with what the user meant to change.  *)
Drafted(writes, cfg, meant) ==
  writes.ours # None /\ ~writes.crossed =>
    \A f \in DOMAIN cfg : writes.ours[f] # cfg[f] => f \in meant

SaveUnderWay == under.ours # None => \E r \in anet : r.what = "save" /\ r.state = "sent"

AdvancedInv ==
  /\ AdvancedTypeOK
  /\ \A r \in anet : AdvancedRequest(r, intended)
  /\ OneSave(anet, saving) /\ AsLoaded
  /\ NoneBlank
  /\ Drafted(under, file, intended) /\ SaveUnderWay

----------------------------------------------------------------------------
(* The update page.                                                        *)
IsCall(r) ==
  /\ r = [of |-> r.of, what |-> r.what, arg |-> r.arg, state |-> r.state, answer |-> r.answer]
  /\ r.state \in {"sent", "served", "error", "done"}
  /\ r.of \in Loads \cup Actions /\ r.what \in Reads \cup Actions

UpdateCall(r, meant) ==
  /\ IsCall(r)
  /\ r.what \in Actions => r.of = r.what
  /\ r.state = "done" => r.what \in {"status", "config"} /\ r.of \in Loads
  /\ r.what \in {"apply", "execute"} => r.arg \in Versions
  /\ r.what = "save" => DOMAIN r.arg \subseteq meant /\ \A f \in DOMAIN r.arg : r.arg[f] \in Entries
  /\ r.state = "served" =>
       /\ r.what = "status" => r.answer["download"] \in Versions \cup {None}
       /\ r.what = "config" => r.answer \in Configs
       /\ r.what = "download" => r.answer \in Versions

(* A handler that reloads is one of those that do.                         *)
CallsHold ==
  /\ PageTypeOK
  /\ \A r \in net : UpdateCall(r, intent)
  /\ \A h \in Loads \cup Actions : run[h] = "reload" => h \in {"rollback", "plan", "restart"}

(* What differs from the loaded configuration was changed by the user.     *)
ChangesTyped == config # None => Changed \subseteq typed

PageInv == CallsHold /\ ChangesTyped

(* The updater. While nothing overlaps, one worker at most is at work, and *)
(* it replaces files only while no application runs; a running application *)
(* has files of two versions only in the middle of its own rollback.       *)
OneWorker == \A v, w \in Workers : AtWork(v) /\ AtWork(w) => v = w

ReplacesWhileDown ==
  /\ disk = Mixed /\ proc # None => rolling # None
  /\ rolling # None => proc # None /\ rolling.apply.backup # Mixed
  /\ \A w \in Workers :
       /\ worker[w].pc \in {"ready", "copying", "swapped"} => proc = None
       /\ worker[w].pc = "swapped" => disk # Mixed
       /\ worker[w].pc = "started" => worker[w].own
       /\ exiting /\ AtWork(w) => worker[w].pc = "waiting"

HistoryWhole ==
  \A w \in Workers : AtWork(w) /\ worker[w].previous.apply # None =>
    worker[w].previous.apply.backup # Mixed

UpdaterInv ==
  /\ UpdaterTypeOK
  /\ overlap = {} => OneWorker /\ ReplacesWhileDown /\ HistoryWhole
  /\ BackupsAreWhole

FlowInv == FlowTypeOK /\ UpdaterInv /\ PageInv

(* The save of the page: one at most, and what it is about to write.       *)
OneSaveCall(calls) == \A q, r \in calls : q.what = "save" /\ r.what = "save" => q = r

DraftUnderWay(calls) == drafts.ours # None => \E r \in calls : r.what = "save" /\ r.state = "sent"

DraftInv == OneSaveCall(net) /\ DraftUnderWay(net) /\ Drafted(drafts, conf, intent)

IInv ==
  /\ open \in Places /\ CloudInv /\ QueueInv /\ AdvancedInv /\ foreign \in Nat
  /\ FlowInv /\ DraftInv

----------------------------------------------------------------------------
LEMMA AskAsks ==
  ASSUME NEW of, NEW what, NEW arg
  PROVE  LET q == Ask(of, what, arg) IN
         /\ IsRequest(q) /\ q.of = of /\ q.what = what /\ q.arg = arg
         /\ q.state = "sent" /\ ~q.stale
BY DEF Ask, IsRequest

LEMMA AnswerAnswers ==
  ASSUME NEW calls, NEW r \in calls, IsRequest(r), NEW answer,
         NEW q \in Answer(calls, r, answer)
  PROVE  q \in calls \ {r} \/ ServedAs(q, r, answer)
BY DEF Answer, IsRequest, ServedAs, Same

LEMMA FailFails ==
  ASSUME NEW calls, NEW r \in calls, IsRequest(r), NEW q \in Fail(calls, r)
  PROVE  q \in calls \ {r} \/ FailedAs(q, r)
BY DEF Fail, IsRequest, FailedAs, Same

LEMMA OutdatedOutdates ==
  ASSUME NEW calls, NEW chained, \A r \in calls : IsRequest(r)
  PROVE  /\ Outdated(calls, chained) = {Aged(r, chained) : r \in calls}
         /\ \A r \in calls : AgedAs(Aged(r, chained), r, chained)
<1>1. ASSUME NEW r \in calls PROVE AgedAs(Aged(r, chained), r, chained)
  <2>1. IsRequest(r)
    OBVIOUS
  <2>2. CASE Outdates(r, chained)
    BY <2>1, <2>2 DEF Aged, IsRequest, AgedAs, Same
  <2>3. CASE ~Outdates(r, chained)
    BY <2>1, <2>3 DEF Aged, IsRequest, AgedAs, Same
  <2> QED
    BY <2>2, <2>3
<1> QED
  BY <1>1 DEF Outdated, Aged, Outdates

----------------------------------------------------------------------------
(* The cloud page.                                                         *)
LEMMA CloudOutdates ==
  ASSUME CloudInv, NEW e
  PROVE  /\ \A q \in Outdated(cnet, {"onboarding"}) :
              /\ CloudRequest(q) /\ True(q, e) /\ (q.state = "failed" => excused)
              /\ q.what \in CloudActions => \E r \in cnet : r.what = q.what /\ r.state = q.state
         /\ OneAction(Outdated(cnet, {"onboarding"}), act)
<1> DEFINE A(r) == Aged(r, {"onboarding"})
<1>1. /\ \A r \in cnet : CloudRequest(r) /\ (r.state = "failed" => excused)
      /\ \A r \in cnet : IsRequest(r)
      /\ OneAction(cnet, act)
  BY DEF CloudInv, CloudRequest
<1>2. Outdated(cnet, {"onboarding"}) = {A(r) : r \in cnet}
  BY <1>1, OutdatedOutdates
<1>3. \A r \in cnet : AgedAs(A(r), r, {"onboarding"})
  BY <1>1, OutdatedOutdates
<1> HIDE DEF A
<1>4. \A r \in cnet : CloudRequest(A(r)) /\ True(A(r), e) /\ (A(r).state = "failed" => excused)
  BY <1>1, <1>3 DEF CloudRequest, True, AgedAs, Same, Outdates, CloudActions
<1>5. \A r \in cnet : A(r).what = r.what /\ A(r).state = r.state /\ A(r).of = r.of
  BY <1>3 DEF AgedAs, Same
<1>6. OneAction({A(r) : r \in cnet}, act)
  BY <1>1, <1>5 DEF OneAction
<1> QED
  BY <1>2, <1>4, <1>5, <1>6

LEMMA CloudServesAction ==
  ASSUME CloudInv, NEW r \in cnet, CloudServe(r), ServeAction(r)
  PROVE  CloudInv'
<1> DEFINE old == IF edge' = edge THEN cnet ELSE Outdated(cnet, {"onboarding"})
<1>1. /\ UNCHANGED <<step, override, draft, act, pressed, others, excused>>
      /\ r.what \in CloudActions /\ r.state = "sent" /\ edge' = EdgeAfter(r.what, r.arg.tags)
      /\ cnet' = Answer(old, r, None)
  BY DEF CloudServe, ServeAction
<1>2. CloudRequest(r) /\ IsRequest(r) /\ r.of = "action" /\ act = r.what /\ r.arg.tags \in Tags
  BY <1>1 DEF CloudInv, CloudRequest, OneAction
<1>3. edge' \in Edges
  BY <1>1, <1>2, CloudAssumption DEF EdgeAfter, CloudInv, CloudTypeOK, Edges,
     NoTags, CloudActions
<1>4. \A q \in cnet : q.what \in CloudActions => q.state = "sent"
  BY <1>1, <1>2 DEF CloudInv, OneAction, CloudRequest
<1>5. /\ \A q \in old : /\ CloudRequest(q) /\ True(q, edge') /\ (q.state = "failed" => excused)
                        /\ q.what \in CloudActions => q.state = "sent"
      /\ OneAction(old, act)
  <2>1. CASE edge' = edge
    BY <1>4, <2>1 DEF CloudInv
  <2>2. CASE edge' # edge
    BY <1>4, <2>2, CloudOutdates
  <2> QED
    BY <2>1, <2>2
<1>6. r \in old
  <2>1. CASE edge' = edge
    BY <2>1
  <2>2. CASE edge' # edge
    BY <1>1, <2>2 DEF Outdated, CloudActions
  <2> QED
    BY <2>1, <2>2
<1> HIDE DEF old
<1>7. \A q \in cnet' : q \in old \ {r} \/ ServedAs(q, r, None)
  BY <1>1, <1>2, <1>6, AnswerAnswers
<1>8. \A q \in cnet' : CloudRequest(q) /\ True(q, edge') /\ (q.state = "failed" => excused)
  BY <1>1, <1>2, <1>5, <1>7 DEF CloudRequest, True, ServedAs, Same, CloudActions
<1>9. OneAction(cnet', act)
  <2>1. cnet' = (old \ {r}) \cup {[r EXCEPT !.state = "served", !.answer = None]}
    BY <1>1 DEF Answer
  <2>2. [r EXCEPT !.state = "served", !.answer = None].what = r.what
    BY <1>2 DEF IsRequest
  <2> QED
    BY <1>2, <1>5, <1>6, <2>1, <2>2 DEF OneAction, CloudRequest
<1>10. \A q \in cnet' : CarriedOut(q, edge')
  BY <1>1, <1>2, <1>5, <1>7 DEF CarriedOut, ServedAs, Same, EdgeAfter,
     CloudActions, CloudInv, CloudTypeOK, Edges
<1>11. CloudTypeOK'
  BY <1>1, <1>3, <1>8 DEF CloudInv, CloudTypeOK, CloudRequest
<1>12. ~excused => LinkedStepLeaves' /\ (act = "save" => ~edge'.linked)
  BY <1>1, <1>2 DEF CloudInv, LinkedStepLeaves, EdgeAfter, CloudActions,
     CloudTypeOK, Edges
<1>13. cnet' # {}
  BY <1>1 DEF Answer
<1> QED
  BY <1>1, <1>8, <1>9, <1>10, <1>11, <1>12, <1>13 DEF CloudInv, StepFollowsEdge

LEMMA CloudServesStatus ==
  ASSUME CloudInv, NEW r \in cnet, CloudServe(r), ServeStatus(r)
  PROVE  CloudInv'
<1>1. /\ UNCHANGED <<edge, step, override, draft, act, pressed, others, excused>>
      /\ r.what \in {"status", "onboarding"} /\ r.state = "sent" /\ cnet' = Answer(cnet, r, edge)
  BY DEF CloudServe, ServeStatus
<1>2. CloudRequest(r) /\ IsRequest(r) /\ True(r, edge) /\ edge \in Edges
  BY <1>1 DEF CloudInv, CloudRequest, CloudTypeOK
<1>3. \A q \in cnet' : q \in cnet \ {r} \/ ServedAs(q, r, edge)
  BY <1>1, <1>2, AnswerAnswers
<1>4. \A q \in cnet' : /\ CloudRequest(q) /\ True(q, edge) /\ (q.state = "failed" => excused)
                       /\ ~excused => CarriedOut(q, edge)
  BY <1>1, <1>2, <1>3 DEF CloudInv, CloudRequest, True, ServedAs, Same,
     CloudActions, CarriedOut
<1>5. OneAction(cnet', act)
  <2>1. cnet' = (cnet \ {r}) \cup {[r EXCEPT !.state = "served", !.answer = edge]}
    BY <1>1 DEF Answer
  <2>2. LET q == [r EXCEPT !.state = "served", !.answer = edge] IN q.what = r.what /\ q.of = r.of
    BY <1>2 DEF IsRequest
  <2> QED
    BY <2>1, <2>2 DEF CloudInv, OneAction
<1>6. cnet' # {}
  BY <1>1 DEF Answer
<1> QED
  BY <1>1, <1>4, <1>5, <1>6 DEF CloudInv, CloudTypeOK, CloudRequest,
     LinkedStepLeaves, StepFollowsEdge

LEMMA CloudFails ==
  ASSUME CloudInv, NEW r \in cnet, CloudFail(r)
  PROVE  CloudInv'
<1>1. /\ UNCHANGED <<edge, step, override, draft, act, pressed>> /\ excused'
      /\ others < MaxOthers /\ others' = others + 1 /\ excused' = TRUE
      /\ r.state = "sent" /\ cnet' = Fail(cnet, r)
  BY DEF CloudFail
<1>2. CloudRequest(r) /\ IsRequest(r) /\ True(r, edge)
  BY <1>1 DEF CloudInv, CloudRequest
<1>3. \A q \in cnet' : q \in cnet \ {r} \/ FailedAs(q, r)
  BY <1>1, <1>2, FailFails
<1>4. cnet' = (cnet \ {r}) \cup {[r EXCEPT !.state = "failed"]}
  BY <1>1 DEF Fail
<1>5. LET q == [r EXCEPT !.state = "failed"] IN
      q.what = r.what /\ q.of = r.of /\ q.stale = r.stale /\ q.state = "failed"
  BY <1>2 DEF IsRequest
<1>6. \A q \in cnet' : CloudRequest(q) /\ True(q, edge)
  BY <1>1, <1>2, <1>3, <1>4, <1>5 DEF CloudInv, CloudRequest, True, FailedAs, Same,
     CloudActions
<1>7. OneAction(cnet', act)
  BY <1>4, <1>5 DEF CloudInv, OneAction
<1>8. CloudTypeOK'
  BY <1>1, <1>6, CloudAssumption DEF CloudInv, CloudTypeOK, CloudRequest
<1> QED
  BY <1>1, <1>6, <1>7, <1>8 DEF CloudInv, StepFollowsEdge

LEMMA CloudChangesElsewhere ==
  ASSUME CloudInv, EdgeChangesElsewhere
  PROVE  CloudInv'
<1>1. /\ UNCHANGED <<step, override, draft, act, pressed>>
      /\ others < MaxOthers /\ others' = others + 1 /\ excused' = TRUE
      /\ cnet' = Outdated(cnet, {"onboarding"})
      /\ \E a \in {"pair", "remove"} : edge' = EdgeAfter(a, NoTags)
  BY DEF EdgeChangesElsewhere
<1>2. edge' \in Edges
  <2>1. NoTags \in Tags
    BY CloudAssumption DEF NoTags
  <2>2. PICK a \in {"pair", "remove"} : edge' = EdgeAfter(a, NoTags)
    BY <1>1
  <2> QED
    BY <2>1, <2>2 DEF EdgeAfter, CloudInv, CloudTypeOK, Edges
<1>3. /\ \A q \in cnet' : CloudRequest(q) /\ True(q, edge')
      /\ OneAction(cnet', act)
  BY <1>1, CloudOutdates
<1>4. CloudTypeOK'
  BY <1>1, <1>2, <1>3, CloudAssumption DEF CloudInv, CloudTypeOK, CloudRequest
<1> QED
  BY <1>1, <1>3, <1>4 DEF CloudInv, StepFollowsEdge

LEMMA CloudEdits == ASSUME CloudInv, EditDraft PROVE CloudInv'
<1>1. /\ UNCHANGED <<edge, step, override, act, cnet, pressed, others, excused>>
      /\ draft' \in Drafts
  BY CloudAssumption DEF EditDraft, CloudInv, CloudTypeOK, Drafts, NoTags
<1> QED
  BY <1>1 DEF CloudInv, CloudTypeOK, LinkedStepLeaves, StepFollowsEdge, StepOf

(* A request that joins those under way and belongs to no action.          *)
LEMMA CloudAsks ==
  ASSUME NEW of, of # "action", NEW ov \in BOOLEAN,
         NEW q \in {FetchStatus(of, ov)}
  PROVE  CloudRequest(q) /\ q.of # "action" /\ q.state = "sent" /\ q.what = "status"
BY AskAsks DEF FetchStatus, CloudRequest, CloudActions

LEMMA CloudActs ==
  ASSUME CloudInv, NEW a \in CloudActions, Act(a)
  PROVE  CloudInv'
<1> DEFINE new == Ask("action", a, [tags |-> draft.tags, override |-> override])
<1>1. /\ UNCHANGED <<edge, step, override, draft, others, excused>>
      /\ act = "none" /\ Offered(a) /\ pressed < MaxActions
      /\ act' = a /\ pressed' = pressed + 1 /\ cnet' = cnet \cup {new}
  BY DEF Act
<1>2. /\ IsRequest(new) /\ new.of = "action" /\ new.what = a /\ new.state = "sent" /\ ~new.stale
      /\ new.arg = [tags |-> draft.tags, override |-> override]
  BY AskAsks
<1> HIDE DEF new
<1>3. CloudRequest(new) /\ True(new, edge) /\ CarriedOut(new, edge)
  BY <1>2 DEF CloudRequest, True, CarriedOut, CloudActions, CloudInv, CloudTypeOK,
     Drafts
<1>4. \A q \in cnet : q.of # "action" /\ q.what \notin CloudActions
  BY <1>1 DEF CloudInv, OneAction, CloudActions
<1>5. OneAction(cnet', act')
  BY <1>1, <1>2, <1>4 DEF OneAction, CloudActions
<1>6. CloudTypeOK'
  BY <1>1, <1>3, CloudAssumption DEF CloudInv, CloudTypeOK, CloudRequest
<1>7. ~excused => LinkedStepLeaves' /\ (act' = "save" => ~edge'.linked)
  BY <1>1 DEF CloudInv, LinkedStepLeaves, Offered, OnboardingStep, ConnectionStep,
     ConnectedStep
<1> QED
  BY <1>1, <1>2, <1>3, <1>5, <1>6, <1>7 DEF CloudInv, StepFollowsEdge

LEMMA CloudBackToOnboarding ==
  ASSUME CloudInv, BackToOnboarding
  PROVE  CloudInv'
<1>1. /\ UNCHANGED <<edge, draft, act, pressed, others, excused>>
      /\ step = "connection" /\ act = "none" /\ override' = TRUE /\ step' = "onboarding"
      /\ cnet' = WithEffect(cnet, TRUE)
  BY DEF BackToOnboarding
<1>2. \A q \in {FetchStatus("effect", TRUE)} :
         CloudRequest(q) /\ q.of # "action" /\ q.state = "sent" /\ q.what = "status"
  BY CloudAsks
<1>3. \A q \in cnet' : CloudRequest(q) /\ True(q, edge) /\ (q.state = "failed" => excused)
                       /\ (~excused => CarriedOut(q, edge))
  BY <1>1, <1>2 DEF WithEffect, CloudInv, True, CarriedOut
<1>4. OneAction(cnet', act)
  BY <1>1, <1>2 DEF WithEffect, CloudInv, OneAction, CloudActions
<1>5. CloudTypeOK'
  BY <1>1, <1>3 DEF CloudInv, CloudTypeOK, CloudRequest, Steps
<1>6. StepFollowsEdge'
  BY <1>1 DEF WithEffect, CloudInv, StepFollowsEdge, StepOf
<1> QED
  BY <1>1, <1>3, <1>4, <1>5, <1>6 DEF CloudInv, LinkedStepLeaves

(* The answers. Requests that go leave a smaller set that is as it was.     *)
LEMMA CloudFewer ==
  ASSUME CloudInv, NEW r \in cnet
  PROVE  /\ \A q \in cnet \ {r} :
              /\ CloudRequest(q) /\ True(q, edge) /\ (q.state = "failed" => excused)
              /\ ~excused => CarriedOut(q, edge)
         /\ OneAction(cnet \ {r}, act)
         /\ r.of = "action" => \A q \in cnet \ {r} : q.of # "action" /\ q.what \notin CloudActions
BY DEF CloudInv, OneAction, CloudRequest

LEMMA CloudStatusAnswered ==
  ASSUME CloudInv, NEW r \in cnet, StatusAnswered(r)
  PROVE  CloudInv'
<1>1. /\ r.what = "status" /\ r.state = "served" /\ UNCHANGED <<edge, draft, pressed, others>>
      /\ CloudRequest(r) /\ True(r, edge)
  BY DEF StatusAnswered, CloudInv
<1>2. CASE r.answer.linked
  <2>1. /\ step' = "connected" /\ override' = FALSE /\ cnet' = WithEffect(cnet \ {r}, FALSE)
        /\ act' = ActAfter(r) /\ excused' = (excused \/ Late(r))
    BY <1>2 DEF StatusAnswered
  <2>2. \A q \in {FetchStatus("effect", FALSE)} :
           CloudRequest(q) /\ q.of # "action" /\ q.state = "sent" /\ q.what = "status"
    BY CloudAsks
  <2>3. excused => excused'
    BY <2>1
  <2>4. \A q \in cnet' : /\ CloudRequest(q) /\ True(q, edge) /\ (q.state = "failed" => excused')
                         /\ ~excused' => CarriedOut(q, edge)
    BY <2>1, <2>2, <2>3, CloudFewer DEF WithEffect, True, CarriedOut
  <2>5. OneAction(cnet', act')
    BY <1>1, <2>1, <2>2, CloudFewer DEF WithEffect, OneAction, CloudActions,
       ActAfter
  <2>6. CloudTypeOK'
    BY <1>1, <2>1, <2>4 DEF CloudInv, CloudTypeOK, CloudRequest, Steps, ActAfter,
       Late
  <2>7. StepFollowsEdge'
    BY <1>1, <1>2, <2>1 DEF WithEffect, StepFollowsEdge, StepOf, Late, True
  <2>8. ~excused' => (act' = "save" => ~edge'.linked)
    BY <1>1, <2>1, <2>3 DEF CloudInv, ActAfter
  <2> QED
    BY <1>1, <2>1, <2>4, <2>5, <2>6, <2>7, <2>8 DEF CloudInv, LinkedStepLeaves
<1>3. CASE ~r.answer.linked
  <2> DEFINE new == [Ask(r.of, "onboarding", r.arg) EXCEPT !.stale = r.stale]
  <2>1. cnet' = (cnet \ {r}) \cup {new} /\ UNCHANGED <<step, override, act, excused>>
    BY <1>3 DEF StatusAnswered
  <2>2. /\ new = [of |-> r.of, what |-> "onboarding", arg |-> r.arg,
                  state |-> "sent", answer |-> None, stale |-> r.stale]
    BY DEF Ask
  <2> HIDE DEF new
  <2>3. CloudRequest(new) /\ True(new, edge) /\ new.state = "sent" /\ new.of = r.of
        /\ new.what = "onboarding"
    BY <1>1, <1>3, <2>2 DEF CloudRequest, IsRequest, True, CloudActions
  <2>4. \A q \in cnet' : /\ CloudRequest(q) /\ True(q, edge) /\ (q.state = "failed" => excused)
                         /\ ~excused => CarriedOut(q, edge)
    BY <2>1, <2>3, CloudFewer DEF CarriedOut
  <2>5. OneAction(cnet', act)
    BY <2>1, <2>3, CloudFewer DEF OneAction, CloudActions, CloudInv
  <2> QED
    BY <1>1, <2>1, <2>4, <2>5 DEF CloudInv, CloudTypeOK, CloudRequest,
       LinkedStepLeaves, StepFollowsEdge
<1> QED
  BY <1>2, <1>3

LEMMA CloudOnboardingAnswered ==
  ASSUME CloudInv, NEW r \in cnet, OnboardingAnswered(r)
  PROVE  CloudInv'
<1>1. /\ r.what = "onboarding" /\ r.state = "served" /\ UNCHANGED <<edge, pressed, others>>
      /\ act' = ActAfter(r) /\ excused' = (excused \/ Late(r))
      /\ CloudRequest(r) /\ True(r, edge)
  BY DEF OnboardingAnswered, CloudInv
<1>2. \A q \in {FetchStatus("effect", FALSE)} :
         CloudRequest(q) /\ q.of # "action" /\ q.state = "sent" /\ q.what = "status"
  BY CloudAsks
<1>3. /\ ~excused' => ~edge.linked /\ r.answer = edge /\ r.arg = override
      /\ excused => excused'
      /\ r.answer \in Edges
  BY <1>1 DEF Late, True, CloudRequest, CloudActions
<1>4. r.answer.onboarding = "nameless" => [name |-> FALSE, tags |-> r.answer.tags] \in Drafts
  BY <1>3 DEF Drafts, Edges
<1>5. \/ /\ r.answer.onboarding = "named" /\ step' = (IF r.arg THEN "onboarding" ELSE "connection")
         /\ cnet' = cnet \ {r} /\ UNCHANGED <<override, draft>>
      \/ /\ r.answer.onboarding # "named" /\ step' = "onboarding" /\ override' = FALSE
         /\ cnet' = WithEffect(cnet \ {r}, FALSE) /\ draft' \in Drafts
  <2>1. CASE r.answer.onboarding = "named"
    BY <2>1 DEF OnboardingAnswered
  <2>2. CASE r.answer.onboarding # "named"
    BY <1>4, <2>2 DEF OnboardingAnswered, CloudInv, CloudTypeOK
  <2> QED
    BY <2>1, <2>2
<1>6. \A q \in cnet' : /\ CloudRequest(q) /\ True(q, edge) /\ (q.state = "failed" => excused')
                       /\ ~excused' => CarriedOut(q, edge)
  BY <1>2, <1>3, <1>5, CloudFewer DEF WithEffect, True, CarriedOut
<1>7. OneAction(cnet', act')
  BY <1>1, <1>2, <1>5, CloudFewer DEF WithEffect, OneAction, CloudActions, ActAfter
<1>8. CloudTypeOK'
  BY <1>1, <1>5, <1>6 DEF CloudInv, CloudTypeOK, CloudRequest, Steps, ActAfter, Late
<1>9. StepFollowsEdge'
  <2> SUFFICES ASSUME cnet' = {}, ~excused' PROVE step' = StepOf(edge)'
    BY DEF StepFollowsEdge
  <2>1. edge' = edge /\ ~edge.linked /\ r.answer = edge /\ r.arg = override
    BY <1>1, <1>3
  <2>2. CASE edge.onboarding = "named"
    BY <1>5, <2>1, <2>2 DEF StepOf
  <2>3. CASE edge.onboarding # "named"
    BY <1>5, <2>1, <2>3 DEF StepOf
  <2> QED
    BY <2>2, <2>3
<1> QED
  BY <1>1, <1>3, <1>6, <1>7, <1>8, <1>9 DEF CloudInv, LinkedStepLeaves

LEMMA CloudFetchFailed ==
  ASSUME CloudInv, NEW r \in cnet, FetchFailed(r)
  PROVE  CloudInv'
<1>1. /\ UNCHANGED <<edge, override, draft, pressed, others, excused>> /\ excused
      /\ step' = "onboarding" /\ act' = ActAfter(r) /\ cnet' = cnet \ {r}
  BY DEF FetchFailed, CloudInv
<1>2. OneAction(cnet', act')
  BY <1>1, CloudFewer DEF OneAction, ActAfter
<1>3. CloudTypeOK'
  BY <1>1, CloudFewer DEF CloudInv, CloudTypeOK, CloudRequest, Steps, ActAfter
<1> QED
  BY <1>1, <1>2, <1>3, CloudFewer DEF CloudInv, StepFollowsEdge

LEMMA CloudSaveAnswered ==
  ASSUME CloudInv, NEW r \in cnet, SaveAnswered(r)
  PROVE  CloudInv'
<1>1. /\ r.what = "save" /\ r.state = "served" /\ r.of = "action" /\ act = "save"
      /\ UNCHANGED <<edge, draft, pressed, others, excused>>
      /\ override' = FALSE /\ step' = "connection" /\ act' = "none"
      /\ cnet' = WithEffect(cnet \ {r}, FALSE)
  BY DEF SaveAnswered, CloudInv, CloudRequest, OneAction, CloudActions
<1>2. \A q \in {FetchStatus("effect", FALSE)} :
         CloudRequest(q) /\ q.of # "action" /\ q.state = "sent" /\ q.what = "status"
  BY CloudAsks
<1>3. \A q \in cnet' : /\ CloudRequest(q) /\ True(q, edge) /\ (q.state = "failed" => excused)
                       /\ ~excused => CarriedOut(q, edge)
  BY <1>1, <1>2, CloudFewer DEF WithEffect, True, CarriedOut
<1>4. OneAction(cnet', act')
  BY <1>1, <1>2, CloudFewer DEF WithEffect, OneAction, CloudActions
<1>5. CloudTypeOK'
  BY <1>1, <1>3 DEF CloudInv, CloudTypeOK, CloudRequest, Steps
<1>6. ~excused => ~edge.linked /\ edge.onboarding = "named"
  BY <1>1 DEF CloudInv, CarriedOut
<1> QED
  BY <1>1, <1>3, <1>4, <1>5, <1>6 DEF CloudInv, LinkedStepLeaves, StepFollowsEdge,
     StepOf

LEMMA CloudLinkAnswered ==
  ASSUME CloudInv, NEW r \in cnet, LinkAnswered(r)
  PROVE  CloudInv'
<1> DEFINE new == FetchStatus("action", r.arg.override)
<1>1. /\ r.what \in CloudActions \ {"save"} /\ r.state = "served" /\ r.of = "action" /\ act = r.what
      /\ r.arg.override \in BOOLEAN
      /\ UNCHANGED <<edge, override, act, pressed, others, excused>>
      /\ cnet' = (cnet \ {r}) \cup {new}
      /\ IF r.what = "remove" THEN step' = "onboarding" /\ draft' = Blank ELSE UNCHANGED <<step, draft>>
  BY DEF LinkAnswered, CloudInv, CloudRequest, OneAction
<1>2. /\ IsRequest(new) /\ new.of = "action" /\ new.what = "status" /\ new.state = "sent"
      /\ new.arg = r.arg.override
  BY AskAsks DEF FetchStatus
<1> HIDE DEF new
<1>3. \A q \in cnet' : /\ CloudRequest(q) /\ True(q, edge) /\ (q.state = "failed" => excused)
                       /\ ~excused => CarriedOut(q, edge)
  BY <1>1, <1>2, CloudFewer DEF CloudRequest, True, CarriedOut, CloudActions
<1>4. OneAction(cnet', act)
  BY <1>1, <1>2, CloudFewer DEF OneAction, CloudActions
<1>5. CloudTypeOK'
  <2>1. Blank \in Drafts
    BY CloudAssumption DEF Blank, Drafts, NoTags
  <2> QED
    BY <1>1, <1>3, <2>1 DEF CloudInv, CloudTypeOK, CloudRequest, Steps
<1>6. ~excused => (r.what = "remove" => ~edge.linked)
  BY <1>1 DEF CloudInv, CarriedOut
<1> QED
  BY <1>1, <1>3, <1>4, <1>5, <1>6 DEF CloudInv, LinkedStepLeaves, StepFollowsEdge

LEMMA CloudActionFailed ==
  ASSUME CloudInv, NEW r \in cnet, ActionFailed(r)
  PROVE  CloudInv'
<1>1. /\ r.of = "action" /\ excused
      /\ UNCHANGED <<edge, step, override, draft, pressed, others, excused>>
      /\ act' = "none" /\ cnet' = cnet \ {r}
  BY DEF ActionFailed, CloudInv, CloudRequest
<1>2. OneAction(cnet', act')
  BY <1>1, CloudFewer DEF OneAction
<1>3. CloudTypeOK'
  BY <1>1, CloudFewer DEF CloudInv, CloudTypeOK, CloudRequest
<1> QED
  BY <1>1, <1>2, <1>3, CloudFewer DEF CloudInv, StepFollowsEdge

LEMMA CloudKeeps == CloudInv /\ [CloudNext]_cvars => CloudInv'
<1> SUFFICES ASSUME CloudInv, [CloudNext]_cvars PROVE CloudInv'
  OBVIOUS
<1>1. CASE EditDraft
  BY <1>1, CloudEdits
<1>2. CASE \E a \in CloudActions : Act(a)
  BY <1>2, CloudActs
<1>3. CASE BackToOnboarding
  BY <1>3, CloudBackToOnboarding
<1>4. CASE EdgeChangesElsewhere
  BY <1>4, CloudChangesElsewhere
<1>5. ASSUME NEW r \in cnet, CloudServe(r) PROVE CloudInv'
  BY <1>5, CloudServesAction, CloudServesStatus DEF CloudServe
<1>6. ASSUME NEW r \in cnet, CloudFail(r) PROVE CloudInv'
  BY <1>6, CloudFails
<1>7. ASSUME NEW r \in cnet,
             StatusAnswered(r) \/ OnboardingAnswered(r) \/ FetchFailed(r) \/ SaveAnswered(r)
               \/ LinkAnswered(r) \/ ActionFailed(r)
      PROVE  CloudInv'
  BY <1>7, CloudStatusAnswered, CloudOnboardingAnswered, CloudFetchFailed,
     CloudSaveAnswered,
     CloudLinkAnswered, CloudActionFailed
<1>8. CASE UNCHANGED cvars
  BY <1>8 DEF cvars, CloudInv, CloudTypeOK, LinkedStepLeaves, StepFollowsEdge,
     StepOf
<1> QED
  BY <1>1, <1>2, <1>3, <1>4, <1>5, <1>6, <1>7, <1>8 DEF CloudNext

LEMMA CloudBegins == CloudInit => CloudInv
<1> SUFFICES ASSUME CloudInit PROVE CloudInv
  OBVIOUS
<1>1. /\ cnet = {FetchStatus("mount", FALSE)} /\ act = "none" /\ step = "loading" /\ draft = Blank
      /\ edge \in Edges /\ override = FALSE /\ pressed = 0 /\ others = 0 /\ excused = FALSE
  BY DEF CloudInit
<1>2. \A q \in cnet : CloudRequest(q) /\ q.of # "action" /\ q.state = "sent" /\ q.what = "status"
  BY <1>1, CloudAsks
<1>3. \A q \in cnet : True(q, edge) /\ CarriedOut(q, edge)
  BY <1>2 DEF True, CarriedOut
<1>4. OneAction(cnet, act)
  BY <1>2 DEF OneAction, CloudActions
<1>5. Blank \in Drafts
  BY CloudAssumption DEF Blank, Drafts, NoTags
<1>6. CloudTypeOK
  <2>1. \A q \in cnet : q.what \in CloudActions \cup {"status", "onboarding"}
    BY <1>2 DEF CloudRequest
  <2>2. pressed \in 0..MaxActions /\ others \in 0..MaxOthers
    BY <1>1, CloudAssumption
  <2> QED
    BY <1>1, <1>5, <2>1, <2>2 DEF CloudTypeOK, Steps
<1> QED
  BY <1>1, <1>2, <1>3, <1>4, <1>6 DEF CloudInv, LinkedStepLeaves, StepFollowsEdge

----------------------------------------------------------------------------
(* The queue panels. What is gone stays gone.                              *)
StaysGone(rows) == \A i \in Items : queue[i] = "gone" => rows[i] = "gone"

LEMMA QueueOutdates ==
  ASSUME QueueInv, NEW rows, StaysGone(rows)
  PROVE  \A q \in Outdated(qnet, {}) : QueueRequest(q) /\ QueueTrue(q, rows)
<1> DEFINE A(r) == Aged(r, {})
<1>1. \A r \in qnet : QueueRequest(r) /\ QueueTrue(r, queue) /\ IsRequest(r)
  BY DEF QueueInv, QueueRequest
<1>2. Outdated(qnet, {}) = {A(r) : r \in qnet}
  BY <1>1, OutdatedOutdates
<1>3. \A r \in qnet : AgedAs(A(r), r, {})
  BY <1>1, OutdatedOutdates
<1> HIDE DEF A
<1>4. ASSUME NEW r \in qnet PROVE QueueRequest(A(r)) /\ QueueTrue(A(r), rows)
  <2>1. QueueRequest(r) /\ QueueTrue(r, queue) /\ AgedAs(A(r), r, {})
    BY <1>1, <1>3
  <2>2. QueueRequest(A(r))
    BY <2>1 DEF QueueRequest, AgedAs, Same
  <2>3. QueueTrue(A(r), rows)
    BY <2>1 DEF QueueTrue, Removing, QueueRequest, AgedAs, Same, Outdates, StaysGone
  <2> QED
    BY <2>2, <2>3
<1> QED
  BY <1>2, <1>4

(* The edge answers, having changed the rows or not; what it carried out   *)
(* is true of the rows it leaves.                                          *)
LEMMA QueueAnswers ==
  ASSUME QueueInv, NEW r \in qnet, r.state = "sent",
         queue' \in Rows, StaysGone(queue'),
         NEW old, (old = qnet /\ queue' = queue) \/ old = Outdated(qnet, {}), NEW answer,
         r.what = "list" => answer = queue',
         r.what = "delete" => queue'[r.of.item] = "gone",
         qnet' = Answer(old, r, answer),
         UNCHANGED <<panel, list, loading, flushing, hold, started, news, removed, fresh>>
  PROVE  QueueInv'
<1>1. QueueRequest(r) /\ IsRequest(r) /\ QueueTrue(r, queue)
  BY DEF QueueInv, QueueRequest
<1>2. \A q \in old : QueueRequest(q) /\ QueueTrue(q, queue')
  BY QueueOutdates DEF QueueInv
<1>3. r \in old
  BY DEF Outdated
<1>4. \A q \in qnet' : q \in old \ {r} \/ ServedAs(q, r, answer)
  BY <1>1, <1>3, AnswerAnswers
<1>5. r.of.kind = "delete" => r.of.item \in Items /\ queue'[r.of.item] = "gone"
  BY <1>1 DEF QueueRequest, QueueTrue, Removing, StaysGone
<1>6. \A q \in qnet' : QueueRequest(q) /\ QueueTrue(q, queue')
  BY <1>1, <1>2, <1>4, <1>5 DEF QueueRequest, QueueTrue, Removing, ServedAs, Same
<1>7. QueueTypeOK'
  BY <1>6 DEF QueueInv, QueueTypeOK, QueueRequest, Handlers
<1>8. \A i \in removed : queue'[i] = "gone"
  BY DEF QueueInv, QueueTypeOK, StaysGone
<1> QED
  BY <1>6, <1>7, <1>8 DEF QueueInv, ReadsOwnWrites

(* A request fails, and nothing else but a bound moves.                    *)
LEMMA QueueRefuses ==
  ASSUME QueueInv, NEW r \in qnet, r.state = "sent", qnet' = Fail(qnet, r),
         UNCHANGED <<panel, queue, list, loading, flushing, hold, started, removed, fresh>>
  PROVE  QueueInv'
<1>1. QueueRequest(r) /\ IsRequest(r) /\ QueueTrue(r, queue)
  BY DEF QueueInv, QueueRequest
<1>2. \A q \in qnet' : q \in qnet \ {r} \/ FailedAs(q, r)
  BY <1>1, FailFails
<1>3. \A q \in qnet' : QueueRequest(q) /\ QueueTrue(q, queue)
  BY <1>1, <1>2 DEF QueueInv, QueueRequest, QueueTrue, Removing, FailedAs, Same
<1>4. QueueTypeOK'
  BY <1>3 DEF QueueInv, QueueTypeOK, QueueRequest, Handlers
<1> QED
  BY <1>3, <1>4 DEF QueueInv, ReadsOwnWrites

LEMMA SendKeepsRows ==
  ASSUME queue \in Rows, NEW i \in Items, queue[i] # "gone", NEW rows \in AfterSend(queue, i)
  PROVE  rows \in Rows /\ StaysGone(rows)
BY DEF Rows, Statuses, AfterSend, StaysGone

LEMMA QueueServesKeeps ==
  ASSUME QueueInv, NEW r \in qnet, ServeQueue(r)
  PROVE  QueueInv'
<1>1. /\ r.state = "sent" /\ QueueRequest(r) /\ queue \in Rows
      /\ UNCHANGED <<panel, list, loading, flushing, hold, started, news, removed, fresh>>
  BY DEF ServeQueue, QueueInv, QueueTypeOK
<1>2. CASE r.what = "list"
  <2>1. queue' = queue /\ qnet' = Answer(qnet, r, queue)
    BY <1>2 DEF ServeQueue
  <2> QED
    BY <1>1, <1>2, <2>1, QueueAnswers DEF StaysGone
<1>3. CASE r.what = "flush"
  <2>1. /\ queue' \in Rows
        /\ \A i \in Items : queue'[i] = queue[i] \/ queue[i] = "pending"
        /\ qnet' = Answer(IF queue' = queue THEN qnet ELSE Outdated(qnet, {}), r, None)
    BY <1>3 DEF ServeQueue
  <2>2. StaysGone(queue')
    BY <2>1 DEF StaysGone
  <2> QED
    BY <1>1, <1>3, <2>1, <2>2, QueueAnswers
<1>4. CASE r.what \in {"retry", "delete"} /\ queue[r.of.item] = "gone"
  <2>1. queue' = queue /\ (qnet' = Fail(qnet, r) \/ qnet' = Answer(qnet, r, None))
    BY <1>4 DEF ServeQueue
  <2>2. CASE qnet' = Fail(qnet, r)
    BY <1>1, <2>1, <2>2, QueueRefuses
  <2>3. CASE qnet' = Answer(qnet, r, None)
    BY <1>1, <1>4, <2>1, <2>3, QueueAnswers DEF StaysGone
  <2> QED
    BY <2>1, <2>2, <2>3
<1>5. CASE r.what = "retry" /\ queue[r.of.item] # "gone"
  <2>1. /\ queue' \in AfterSend(queue, r.of.item) /\ r.of.item \in Items
        /\ qnet' = Answer(IF queue' = queue THEN qnet ELSE Outdated(qnet, {}), r, None)
    BY <1>1, <1>5 DEF ServeQueue, QueueRequest
  <2> QED
    BY <1>1, <1>5, <2>1, SendKeepsRows, QueueAnswers
<1>6. CASE r.what = "delete" /\ queue[r.of.item] # "gone"
  <2>1. /\ queue' = [queue EXCEPT ![r.of.item] = "gone"] /\ r.of.item \in Items
        /\ qnet' = Answer(Outdated(qnet, {}), r, None)
    BY <1>1, <1>6 DEF ServeQueue, QueueRequest
  <2>2. queue' \in Rows /\ StaysGone(queue') /\ queue'[r.of.item] = "gone"
    BY <1>1, <2>1 DEF Rows, StaysGone
  <2> QED
    BY <1>1, <1>6, <2>1, <2>2, QueueAnswers
<1> QED
  BY <1>1, <1>2, <1>3, <1>4, <1>5, <1>6 DEF QueueRequest

LEMMA QueueMovesKeeps == ASSUME QueueInv, QueueMoves PROVE QueueInv'
<1>1. /\ qnet' = Outdated(qnet, {}) /\ queue \in Rows
      /\ UNCHANGED <<panel, list, loading, flushing, hold, started, removed, fresh>>
  BY DEF QueueMoves, QueueInv, QueueTypeOK
<1>2. queue' \in Rows /\ StaysGone(queue')
  <2>1. PICK i \in Items :
           \/ queue[i] \in {"pending", "failed"} /\ queue' \in AfterSend(queue, i)
           \/ queue[i] = "new" /\ queue' = [queue EXCEPT ![i] = "pending"]
    BY DEF QueueMoves
  <2>2. CASE queue[i] \in {"pending", "failed"} /\ queue' \in AfterSend(queue, i)
    BY <1>1, <2>2, SendKeepsRows
  <2>3. CASE queue[i] = "new" /\ queue' = [queue EXCEPT ![i] = "pending"]
    BY <1>1, <2>3 DEF Rows, Statuses, StaysGone
  <2> QED
    BY <2>1, <2>2, <2>3
<1>3. \A q \in qnet' : QueueRequest(q) /\ QueueTrue(q, queue')
  BY <1>1, <1>2, QueueOutdates
<1>4. QueueTypeOK'
  BY <1>1, <1>2, <1>3 DEF QueueInv, QueueTypeOK, QueueRequest, Handlers
<1>5. \A i \in removed : queue'[i] = "gone"
  BY <1>2 DEF QueueInv, QueueTypeOK, StaysGone
<1> QED
  BY <1>1, <1>3, <1>4, <1>5 DEF QueueInv, ReadsOwnWrites

(* Handlers begin: what they ask is of their kind.                         *)
LEMMA QueueAsks ==
  ASSUME NEW h \in Handlers, NEW what \in {"list", "flush", "retry", "delete"}, NEW arg,
         what # "list" => what = h.kind,
         h.kind \in {"retry", "delete"} => h.item \in Items,
         what = "list" => h.kind # "delete" \/ queue[h.item] = "gone",
         NEW q \in {Ask(h, what, arg)}
  PROVE  QueueRequest(q) /\ QueueTrue(q, queue)
BY AskAsks DEF QueueRequest, QueueTrue, Removing

LEMMA QueueStarts ==
  ASSUME QueueInv, NEW n \in 0..MaxHandlers,
         NEW kind \in {"load", "flush", "retry", "delete", "poll"}, NEW item \in Items \cup {None},
         kind \in {"retry", "delete"} => item \in Items,
         NEW what \in {"list", "flush", "retry", "delete"}, what # "list" => what = kind,
         what = "list" => kind # "delete", NEW arg,
         qnet' = qnet \cup {Ask(Handler(n, kind, item), what, arg)},
         started' \in 0..MaxHandlers, loading' \in BOOLEAN, flushing' \in BOOLEAN,
         hold' \in [Items -> {"no", "retry", "delete"}],
         UNCHANGED <<panel, queue, list, removed, fresh>>
  PROVE  QueueInv'
<1> DEFINE h == Handler(n, kind, item)
<1>1. h \in Handlers /\ h.kind = kind /\ h.item = item
  BY DEF Handler, Handlers
<1> HIDE DEF h
<1>2. \A q \in {Ask(h, what, arg)} : QueueRequest(q) /\ QueueTrue(q, queue)
  BY <1>1, QueueAsks
<1>3. \A q \in qnet' : QueueRequest(q) /\ QueueTrue(q, queue)
  BY <1>2 DEF QueueInv, h
<1>4. QueueTypeOK'
  BY <1>3 DEF QueueInv, QueueTypeOK, QueueRequest, Handlers
<1> QED
  BY <1>3, <1>4 DEF QueueInv, ReadsOwnWrites

LEMMA QueuePresses ==
  ASSUME QueueInv,
         PressRefresh \/ PressFlush \/ StartPoll
           \/ \E i \in Items, kind \in {"retry", "delete"} : PressRow(kind, i)
  PROVE  QueueInv'
<1>1. /\ started \in 0..MaxHandlers /\ loading \in BOOLEAN /\ flushing \in BOOLEAN
      /\ hold \in [Items -> {"no", "retry", "delete"}]
      /\ started < MaxHandlers => started + 1 \in 0..MaxHandlers /\ started + 1 \in 0..MaxHandlers
      /\ 0 \in 0..MaxHandlers
  BY QueueAssumption DEF QueueInv, QueueTypeOK
<1>2. CASE PressRefresh
  <2>1. /\ started < MaxHandlers /\ started' = started + 1 /\ loading' = TRUE
        /\ qnet' = qnet \cup {Ask(Handler(started + 1, "load", None), "list", None)}
        /\ UNCHANGED <<panel, queue, list, flushing, hold, removed, fresh>>
    BY <1>2 DEF PressRefresh, Start, Load
  <2> QED
    BY <1>1, <2>1, QueueStarts
<1>3. CASE PressFlush
  <2>1. /\ started < MaxHandlers /\ started' = started + 1 /\ flushing' = TRUE
        /\ qnet' = qnet \cup {Ask(Handler(started + 1, "flush", None), "flush", None)}
        /\ UNCHANGED <<panel, queue, list, loading, hold, removed, fresh>>
    BY <1>3 DEF PressFlush, Start
  <2> QED
    BY <1>1, <2>1, QueueStarts
<1>4. CASE StartPoll
  <2>1. /\ qnet' = qnet \cup {Ask(Handler(0, "poll", None), "list", None)}
        /\ UNCHANGED <<panel, queue, list, loading, flushing, hold, started, removed, fresh>>
    BY <1>4 DEF StartPoll, Load, Poll
  <2> QED
    BY <1>1, <2>1, QueueStarts
<1>5. ASSUME NEW i \in Items, NEW kind \in {"retry", "delete"}, PressRow(kind, i) PROVE QueueInv'
  <2>1. /\ started < MaxHandlers /\ started' = started + 1
        /\ hold' = IF panel = "sync" THEN [hold EXCEPT ![i] = kind] ELSE hold
        /\ qnet' = qnet \cup {Ask(Handler(started + 1, kind, i), kind, i)}
        /\ UNCHANGED <<panel, queue, list, loading, flushing, removed, fresh>>
    BY <1>5 DEF PressRow, Start
  <2>2. hold' \in [Items -> {"no", "retry", "delete"}]
    BY <1>1, <2>1
  <2> QED
    BY <1>1, <2>1, <2>2, QueueStarts
<1> QED
  BY <1>2, <1>3, <1>4, <1>5

(* A list comes, or fails to: the handler that waited for it is over.      *)
LEMMA QueueListEnds ==
  ASSUME QueueInv, NEW r \in qnet, Loaded(r) \/ LoadFails(r)
  PROVE  QueueInv'
<1>1. /\ r.what = "list" /\ UNCHANGED <<panel, queue, started>> /\ qnet' = qnet \ {r}
      /\ loading' \in BOOLEAN /\ Over(r.of) /\ QueueRequest(r) /\ QueueTrue(r, queue)
  BY DEF Loaded, LoadFails, QueueInv, QueueTypeOK
<1>2. /\ r.of.kind = "delete" => queue[r.of.item] = "gone" /\ removed' = removed \cup {r.of.item}
      /\ r.of.kind # "delete" => removed' = removed
      /\ r.of.kind \in {"retry", "delete"} => r.of.item \in Items
  BY <1>1 DEF QueueTrue, Removing, Over, QueueRequest
<1>3. flushing' \in BOOLEAN /\ hold' \in [Items -> {"no", "retry", "delete"}] /\ removed' \subseteq Items
  BY <1>1, <1>2 DEF Over, QueueInv, QueueTypeOK
<1>4. \A i \in removed' : queue[i] = "gone"
  BY <1>2 DEF QueueInv
<1>5. list' \in Rows /\ fresh' \in BOOLEAN /\ (fresh' => \A i \in removed' : list'[i] = "gone")
  <2>1. CASE Loaded(r)
    BY <1>1, <1>4, <2>1 DEF Loaded, QueueRequest, QueueTrue, IsRequest
  <2>2. CASE LoadFails(r)
    <3>1. list' = list /\ fresh' = (fresh /\ r.of = Poll) /\ list \in Rows
      BY <2>2 DEF LoadFails, QueueInv, QueueTypeOK
    <3>2. r.of = Poll => removed' = removed
      BY <1>2 DEF Poll, Handler
    <3> QED
      BY <3>1, <3>2 DEF QueueInv, QueueTypeOK, ReadsOwnWrites
  <2> QED
    BY <2>1, <2>2
<1>6. QueueTypeOK'
  BY <1>1, <1>3, <1>5 DEF QueueInv, QueueTypeOK
<1> QED
  BY <1>1, <1>4, <1>5, <1>6 DEF QueueInv, ReadsOwnWrites

LEMMA QueueOperationEnds ==
  ASSUME QueueInv, NEW r \in qnet, OperationAnswered(r) \/ OperationFailed(r)
  PROVE  QueueInv'
<1>1. /\ r.what \in {"flush", "retry", "delete"} /\ QueueRequest(r) /\ QueueTrue(r, queue)
      /\ UNCHANGED <<panel, queue, list, started, removed, fresh>>
  BY DEF OperationAnswered, OperationFailed, QueueInv
<1>2. CASE OperationAnswered(r)
  <2>1. /\ r.state = "served" /\ loading' = TRUE /\ UNCHANGED <<flushing, hold>>
        /\ qnet' = (qnet \ {r}) \cup {Ask(r.of, "list", None)}
    BY <1>2 DEF OperationAnswered, Load
  <2>2. \A q \in {Ask(r.of, "list", None)} : QueueRequest(q) /\ QueueTrue(q, queue)
    <3>1. r.of \in Handlers /\ (r.of.kind \in {"retry", "delete"} => r.of.item \in Items)
      BY <1>1 DEF QueueRequest
    <3>2. r.of.kind # "delete" \/ queue[r.of.item] = "gone"
      BY <1>1, <2>1 DEF QueueTrue, Removing
    <3> QED
      BY <3>1, <3>2, QueueAsks
  <2>3. \A q \in qnet' : QueueRequest(q) /\ QueueTrue(q, queue)
    BY <2>1, <2>2 DEF QueueInv
  <2>4. QueueTypeOK'
    BY <1>1, <2>1, <2>3 DEF QueueInv, QueueTypeOK, QueueRequest, Handlers
  <2> QED
    BY <1>1, <2>3, <2>4 DEF QueueInv, ReadsOwnWrites
<1>3. CASE OperationFailed(r)
  <2>1. /\ qnet' = qnet \ {r} /\ UNCHANGED loading
        /\ flushing' = IF r.what = "flush" THEN FALSE ELSE flushing
        /\ hold' = IF panel = "sync" /\ r.what # "flush" THEN [hold EXCEPT ![r.of.item] = "no"] ELSE hold
    BY <1>3 DEF OperationFailed
  <2>2. QueueTypeOK'
    BY <1>1, <2>1 DEF QueueInv, QueueTypeOK
  <2> QED
    BY <1>1, <2>1, <2>2 DEF QueueInv, ReadsOwnWrites
<1> QED
  BY <1>2, <1>3

LEMMA QueueKeeps == QueueInv /\ [QueueNext]_qvars => QueueInv'
<1> SUFFICES ASSUME QueueInv, [QueueNext]_qvars PROVE QueueInv'
  OBVIOUS
<1>1. CASE PressRefresh \/ PressFlush \/ StartPoll
             \/ \E i \in Items, kind \in {"retry", "delete"} : PressRow(kind, i)
  BY <1>1, QueuePresses
<1>2. CASE QueueMoves
  BY <1>2, QueueMovesKeeps
<1>3. CASE QueueServes
  BY <1>3, QueueServesKeeps DEF QueueServes
<1>4. CASE QueueHandles
  BY <1>4, QueueListEnds, QueueOperationEnds DEF QueueHandles
<1>5. ASSUME NEW r \in qnet, QueueFail(r) PROVE QueueInv'
  BY <1>5, QueueRefuses DEF QueueFail
<1>6. CASE UNCHANGED qvars
  BY <1>6 DEF qvars, QueueInv, QueueTypeOK, ReadsOwnWrites
<1> QED
  BY <1>1, <1>2, <1>3, <1>4, <1>5, <1>6 DEF QueueNext

LEMMA QueueBegins == QueueInit => QueueInv
<1> SUFFICES ASSUME QueueInit PROVE QueueInv
  OBVIOUS
<1> DEFINE h == Handler(0, "load", None)
<1>1. h \in Handlers /\ h.kind = "load"
  BY QueueAssumption DEF Handler, Handlers
<1> HIDE DEF h
<1>2. qnet = {Ask(h, "list", None)}
  BY DEF QueueInit, Load, h
<1>3. \A q \in qnet : QueueRequest(q) /\ QueueTrue(q, queue)
  BY <1>1, <1>2, QueueAsks
<1>4. queue \in Rows /\ list \in Rows
  <2>1. queue \in [Items -> {"pending", "new"}] /\ list = Nothing
    BY DEF QueueInit
  <2>2. {"pending", "new"} \subseteq Statuses \cup {"new", "gone"}
    BY DEF Statuses
  <2> QED
    BY <2>1, <2>2 DEF Rows, Nothing
<1>5. QueueTypeOK /\ started \in 0..MaxHandlers
  <2>1. \A q \in qnet : q.of.n \in 0..MaxHandlers /\ q.what \in {"list", "flush", "retry", "delete"}
    BY <1>3 DEF QueueRequest, Handlers
  <2>2. /\ panel \in {"sync", "local"} /\ loading = TRUE /\ flushing = FALSE /\ started = 0
        /\ removed = {} /\ fresh = TRUE /\ hold = [i \in Items |-> "no"]
    BY DEF QueueInit
  <2>3. hold \in [Items -> {"no", "retry", "delete"}]
    BY <2>2
  <2>4. started \in 0..MaxHandlers
    BY <2>2, QueueAssumption
  <2>5. /\ panel \in {"sync", "local"} /\ loading \in BOOLEAN /\ flushing \in BOOLEAN
        /\ removed \subseteq Items /\ fresh \in BOOLEAN
    BY <2>2
  <2> QED
    BY <1>4, <2>1, <2>3, <2>4, <2>5 DEF QueueTypeOK
<1> QED
  BY <1>3, <1>5 DEF QueueInit, QueueInv, ReadsOwnWrites

----------------------------------------------------------------------------
(* The configuration file.                                                 *)
LEMMA OursReads ==
  ASSUME NEW S, NEW V, NEW writes \in SavesOf([S -> V]),
         NEW cfg \in [S -> V], NEW seen \in [S -> V], NEW meant,
         NEW part, DOMAIN part \subseteq meant, \A f \in DOMAIN part : part[f] \in V
  PROVE  /\ OursRead(writes, seen, cfg, part) \in SavesOf([S -> V])
         /\ Drafted(OursRead(writes, seen, cfg, part), cfg, meant)
<1> DEFINE merged == Merged(seen, part)
           after == OursRead(writes, seen, cfg, part)
<1>1. merged \in [S -> V] /\ \A f \in S : merged[f] # seen[f] => f \in meant
  BY DEF Merged
<1>2. after.ours = merged /\ after.crossed = (seen # cfg) /\ after \in SavesOf([S -> V])
  BY <1>1 DEF OursRead, SavesOf
<1> HIDE DEF merged, after
<1>3. Drafted(after, cfg, meant)
  BY <1>1, <1>2 DEF Drafted
<1> QED
  BY <1>2, <1>3 DEF after

LEMMA TheirsReads ==
  ASSUME NEW Contents, NEW writes \in SavesOf(Contents), NEW seen, NEW part,
         Merged(seen, part) \in Contents
  PROVE  /\ TheirsRead(writes, seen, part) \in SavesOf(Contents)
         /\ TheirsRead(writes, seen, part).ours = writes.ours
         /\ TheirsRead(writes, seen, part).crossed = writes.crossed
BY DEF TheirsRead, SavesOf

----------------------------------------------------------------------------
(* The advanced page.                                                      *)
LEMMA AdvancedTypes == ASSUME AdvancedInv, Type PROVE AdvancedInv'
<1>1. /\ UNCHANGED <<file, under, loaded, fetching, saving, anet, intended>>
      /\ fields \in [All -> Values \cup {None}] /\ touched \subseteq All
  BY DEF Type, AdvancedInv, AdvancedTypeOK
<1>2. PICK f \in All, v \in Values \cup {None} :
         /\ v = None => f \in Secret
         /\ fields' = [fields EXCEPT ![f] = v] /\ touched' = touched \cup {f}
  BY DEF Type
<1>3. AdvancedTypeOK'
  BY <1>1, <1>2 DEF AdvancedInv, AdvancedTypeOK
<1>4. AsLoaded'
  BY <1>1, <1>2 DEF AdvancedInv, AsLoaded, Filled
<1>5. NoneBlank'
  BY <1>1, <1>2 DEF AdvancedInv, NoneBlank
<1> QED
  BY <1>1, <1>3, <1>4, <1>5 DEF AdvancedInv, SaveUnderWay

(* What a save carries.                                                    *)
LEMMA UpdatesTouched ==
  ASSUME AdvancedInv, \A f \in Required : fields[f] # None
  PROVE  /\ loaded # None => Updates \subseteq touched
         /\ Updates \subseteq All
         /\ \A f \in Updates : fields[f] \in Values
<1>1. fields \in [All -> Values \cup {None}] /\ \A f \in All : fields[f] = None => f \in Secret \cup Required
  BY DEF AdvancedInv, AdvancedTypeOK, NoneBlank
<1>2. Updates \subseteq All
  BY DEF Updates, All
<1>3. \A f \in Updates : fields[f] # None
  BY <1>1, AdvancedAssumption DEF Updates, All
<1>4. ASSUME loaded # None, NEW f \in Updates, f \notin touched PROVE FALSE
  <2>1. f \in All /\ fields[f] = Filled(loaded)[f]
    BY <1>2, <1>4 DEF AdvancedInv, AsLoaded
  <2>2. CASE f \in Secret
    BY <1>3, <2>1, <2>2 DEF Filled
  <2>3. CASE f \notin Secret
    BY <1>4, <2>1, <2>3 DEF Filled, Updates
  <2> QED
    BY <2>2, <2>3
<1> QED
  BY <1>1, <1>2, <1>3, <1>4

LEMMA AdvancedSaves == ASSUME AdvancedInv, Save PROVE AdvancedInv'
<1> DEFINE part == [f \in Updates |-> fields[f]]
           new == Ask("save", "save", part)
<1>1. /\ ~saving /\ saving' = TRUE /\ anet' = anet \cup {new}
      /\ \A f \in Required : fields[f] # None
      /\ intended' = IF loaded = None THEN All ELSE touched
      /\ UNCHANGED <<file, under, loaded, fields, fetching, touched>>
  BY DEF Save
<1>2. DOMAIN part \subseteq intended' /\ \A f \in DOMAIN part : part[f] \in Values
  BY <1>1, UpdatesTouched
<1> HIDE DEF part
<1>3. IsRequest(new) /\ new.of = "save" /\ new.what = "save" /\ new.arg = part /\ new.state = "sent"
  BY AskAsks
<1> HIDE DEF new
<1>4. \A q \in anet : q.of # "save" /\ q.what # "save" /\ AdvancedRequest(q, intended)
  BY <1>1 DEF AdvancedInv, OneSave, AdvancedRequest
<1>5. \A q \in anet' : AdvancedRequest(q, intended')
  BY <1>1, <1>2, <1>3, <1>4 DEF AdvancedRequest
<1>6. OneSave(anet', saving')
  BY <1>1, <1>4 DEF OneSave
<1>7. AdvancedTypeOK'
  BY <1>1, <1>5 DEF AdvancedInv, AdvancedTypeOK, AdvancedRequest
<1>8. under.ours = None
  BY <1>4 DEF AdvancedInv, SaveUnderWay
<1> QED
  BY <1>1, <1>5, <1>6, <1>7, <1>8 DEF AdvancedInv, AsLoaded, NoneBlank, Drafted, SaveUnderWay

LEMMA AdvancedReloads == ASSUME AdvancedInv, Reload PROVE AdvancedInv'
<1> DEFINE new == Ask("reload", "config", None)
<1>1. /\ fetching' = TRUE /\ anet' = anet \cup {new}
      /\ UNCHANGED <<file, under, loaded, fields, saving, touched, intended>>
  BY DEF Reload
<1>2. IsRequest(new) /\ new.of = "reload" /\ new.what = "config" /\ new.state = "sent"
  BY AskAsks
<1> HIDE DEF new
<1>3. \A q \in anet' : AdvancedRequest(q, intended)
  BY <1>1, <1>2 DEF AdvancedInv, AdvancedRequest
<1>4. OneSave(anet', saving)
  BY <1>1, <1>2 DEF AdvancedInv, OneSave
<1>5. AdvancedTypeOK'
  BY <1>1, <1>3 DEF AdvancedInv, AdvancedTypeOK, AdvancedRequest
<1> QED
  BY <1>1, <1>3, <1>4, <1>5 DEF AdvancedInv, AsLoaded, NoneBlank, SaveUnderWay

(* A request that is served, whatever it is.                               *)
LEMMA AdvancedServed ==
  ASSUME AdvancedInv, NEW r \in anet, NEW answer, r.what = "config" => answer \in Files,
         anet' = Answer(anet, r, answer), intended' = intended, saving' = saving
  PROVE  /\ \A q \in anet' : AdvancedRequest(q, intended') /\ q.what \in {"config", "save"}
         /\ OneSave(anet', saving')
         /\ r.what # "save" /\ SaveUnderWay /\ under' = under => SaveUnderWay'
<1>1. AdvancedRequest(r, intended) /\ IsRequest(r)
  BY DEF AdvancedInv, AdvancedRequest
<1>2. \A q \in anet' : q \in anet \ {r} \/ ServedAs(q, r, answer)
  BY <1>1, AnswerAnswers
<1>3. \A q \in anet' : AdvancedRequest(q, intended')
  BY <1>1, <1>2 DEF AdvancedInv, AdvancedRequest, ServedAs, Same
<1>4. anet' = (anet \ {r}) \cup {[r EXCEPT !.state = "served", !.answer = answer]}
  BY DEF Answer
<1>5. [r EXCEPT !.state = "served", !.answer = answer].of = r.of
  BY <1>1 DEF IsRequest
<1>6. OneSave(anet', saving')
  BY <1>4, <1>5 DEF AdvancedInv, OneSave
<1>7. r.what # "save" /\ SaveUnderWay /\ under' = under => SaveUnderWay'
  BY <1>4 DEF SaveUnderWay
<1> QED
  BY <1>3, <1>6, <1>7 DEF AdvancedRequest

(* What a handler may read of the configuration.                           *)
LEMMA ReadableFiles ==
  ASSUME AdvancedTypeOK, NEW other, NEW seen \in Readable(file, other, Defaults)
  PROVE  seen \in Files
<1>1. Values # {} => Preset \in Values
  BY DEF Preset
<1>2. file \in Files
  BY DEF AdvancedTypeOK
<1>3. CASE All = {}
  BY <1>2, <1>3 DEF Readable, Defaults, Files
<1>4. CASE All # {}
  BY <1>1, <1>2, <1>4 DEF Readable, Defaults, Files
<1> QED
  BY <1>3, <1>4

LEMMA AdvancedServes ==
  ASSUME AdvancedInv, NEW r \in anet, ServeConfig(r)
  PROVE  AdvancedInv' /\ UNCHANGED <<file, under, foreign>>
<1>1. /\ r.what = "config"
      /\ UNCHANGED <<file, under, loaded, fields, fetching, saving, touched, intended, foreign>>
  BY DEF ServeConfig
<1>2. PICK seen \in Files : anet' = Answer(anet, r, seen)
  BY ReadableFiles DEF ServeConfig, AdvancedInv
<1>3. /\ \A q \in anet' : AdvancedRequest(q, intended') /\ q.what \in {"config", "save"}
      /\ OneSave(anet', saving') /\ SaveUnderWay'
  BY <1>1, <1>2, AdvancedServed DEF AdvancedInv
<1>4. AdvancedTypeOK'
  BY <1>1, <1>3 DEF AdvancedInv, AdvancedTypeOK
<1> QED
  BY <1>1, <1>3, <1>4 DEF AdvancedInv, AsLoaded, NoneBlank

LEMMA AdvancedSaveReads ==
  ASSUME AdvancedInv, NEW r \in anet, SaveReads(r)
  PROVE  AdvancedInv' /\ UNCHANGED <<file, foreign>>
<1>1. /\ r.what = "save" /\ r.state = "sent" /\ AdvancedRequest(r, intended)
      /\ UNCHANGED <<file, loaded, fields, fetching, saving, anet, touched, intended, foreign>>
  BY DEF SaveReads, AdvancedInv
<1>2. PICK seen \in Files : under' = OursRead(under, seen, file, r.arg)
  BY ReadableFiles DEF SaveReads, AdvancedInv
<1>3. under' \in SavesOf(Files) /\ Drafted(under', file, intended)
  BY <1>1, <1>2, OursReads DEF AdvancedInv, AdvancedTypeOK, AdvancedRequest, Files
<1>4. SaveUnderWay'
  BY <1>1 DEF SaveUnderWay
<1>5. AdvancedTypeOK'
  BY <1>1, <1>3 DEF AdvancedInv, AdvancedTypeOK
<1> QED
  BY <1>1, <1>3, <1>4, <1>5 DEF AdvancedInv, AsLoaded, NoneBlank

LEMMA AdvancedSaveWrites ==
  ASSUME AdvancedInv, NEW r \in anet, SaveWrites(r)
  PROVE  /\ AdvancedInv' /\ foreign' = foreign
         /\ ~under.crossed => \A f \in All : file'[f] # file[f] => f \in intended
<1>1. /\ r.what = "save" /\ under.ours # None
      /\ file' = under.ours /\ under' = OursDone(under) /\ anet' = Answer(anet, r, None)
      /\ UNCHANGED <<loaded, fields, fetching, saving, touched, intended, foreign>>
  BY DEF SaveWrites
<1>2. /\ file' \in Files /\ under' \in SavesOf(Files) /\ under'.ours = None
      /\ DOMAIN file = All
  BY <1>1 DEF AdvancedInv, AdvancedTypeOK, SavesOf, OursDone, Files
<1>3. /\ \A q \in anet' : AdvancedRequest(q, intended') /\ q.what \in {"config", "save"}
      /\ OneSave(anet', saving')
  BY <1>1, AdvancedServed
<1>4. Drafted(under', file', intended') /\ SaveUnderWay'
  BY <1>2 DEF Drafted, SaveUnderWay
<1>5. AdvancedTypeOK'
  BY <1>1, <1>2, <1>3 DEF AdvancedInv, AdvancedTypeOK
<1>6. ~under.crossed => \A f \in All : file'[f] # file[f] => f \in intended
  BY <1>1, <1>2 DEF AdvancedInv, Drafted
<1> QED
  BY <1>1, <1>3, <1>4, <1>5, <1>6 DEF AdvancedInv, AsLoaded, NoneBlank

LEMMA OthersRead ==
  ASSUME AdvancedInv, ForeignReads
  PROVE  AdvancedInv' /\ file' = file /\ foreign' = foreign + 1
<1>1. /\ foreign' = foreign + 1
      /\ UNCHANGED <<file, loaded, fields, fetching, saving, anet, touched, intended>>
  BY DEF ForeignReads
<1>2. PICK seen \in Files, f \in All, v \in Values :
        under' = TheirsRead(under, seen, [g \in {f} |-> v])
  BY ReadableFiles DEF ForeignReads, AdvancedInv
<1> DEFINE part == [g \in {f} |-> v]
<1>5. under' = TheirsRead(under, seen, part) /\ Merged(seen, part) \in Files
  BY <1>2 DEF Merged, Files
<1> HIDE DEF part
<1>3. under' \in SavesOf(Files) /\ under'.ours = under.ours /\ under'.crossed = under.crossed
  <2>1. under \in SavesOf(Files)
    BY DEF AdvancedInv, AdvancedTypeOK
  <2> QED
    BY <1>5, <2>1, TheirsReads
<1>4. AdvancedTypeOK'
  BY <1>1, <1>3 DEF AdvancedInv, AdvancedTypeOK
<1> QED
  BY <1>1, <1>3, <1>4 DEF AdvancedInv, AsLoaded, NoneBlank, Drafted, SaveUnderWay

LEMMA OthersWrite ==
  ASSUME AdvancedInv, ForeignWrites
  PROVE  /\ AdvancedInv' /\ foreign' = foreign
         /\ under'.theirs = under.theirs => file' = file
<1>1. /\ under.theirs # None /\ file' = under.theirs /\ under' = TheirsDone(under)
      /\ UNCHANGED <<loaded, fields, fetching, saving, anet, touched, intended, foreign>>
  BY DEF ForeignWrites
<1>2. /\ file' \in Files /\ under' \in SavesOf(Files) /\ under'.ours = under.ours
      /\ under'.theirs = None /\ (under.ours # None => under'.crossed)
  BY <1>1 DEF AdvancedInv, AdvancedTypeOK, SavesOf, TheirsDone
<1>3. AdvancedTypeOK'
  BY <1>1, <1>2 DEF AdvancedInv, AdvancedTypeOK
<1> QED
  BY <1>1, <1>2, <1>3 DEF AdvancedInv, AsLoaded, NoneBlank, Drafted, SaveUnderWay

LEMMA AdvancedFails == ASSUME AdvancedInv, NEW r \in anet, AdvancedFail(r) PROVE AdvancedInv'
<1>1. /\ r.state = "sent" /\ AdvancedRequest(r, intended) /\ IsRequest(r)
      /\ anet' = Fail(anet, r)
      /\ under' = (IF r.what = "save" THEN OursDone(under) ELSE under)
      /\ UNCHANGED <<file, loaded, fields, fetching, saving, touched, intended>>
  BY DEF AdvancedFail, AdvancedInv, AdvancedRequest
<1>2. \A q \in anet' : q \in anet \ {r} \/ FailedAs(q, r)
  BY <1>1, FailFails
<1>3. \A q \in anet' : AdvancedRequest(q, intended)
  BY <1>1, <1>2 DEF AdvancedInv, AdvancedRequest, FailedAs, Same
<1>4. OneSave(anet', saving)
  <2>1. anet' = (anet \ {r}) \cup {[r EXCEPT !.state = "failed"]}
    BY <1>1 DEF Fail
  <2>2. [r EXCEPT !.state = "failed"].of = r.of
    BY <1>1 DEF IsRequest
  <2> QED
    BY <2>1, <2>2 DEF AdvancedInv, OneSave
<1>5. /\ under' \in SavesOf(Files)
      /\ under'.ours # None => r.what # "save" /\ under' = under
  BY <1>1 DEF AdvancedInv, AdvancedTypeOK, SavesOf, OursDone
<1>6. SaveUnderWay' /\ Drafted(under', file', intended')
  BY <1>1, <1>5 DEF AdvancedInv, SaveUnderWay, Drafted, Fail
<1>7. AdvancedTypeOK'
  BY <1>1, <1>3, <1>5 DEF AdvancedInv, AdvancedTypeOK, AdvancedRequest
<1> QED
  BY <1>1, <1>3, <1>4, <1>6, <1>7 DEF AdvancedInv, AsLoaded, NoneBlank

LEMMA AdvancedAnswered ==
  ASSUME AdvancedInv, NEW r \in anet, ConfigAnswered(r)
  PROVE  AdvancedInv'
<1>1. /\ r.what = "config" /\ r.state # "sent" /\ AdvancedRequest(r, intended)
      /\ fetching' = FALSE /\ saving' = (IF r.of = "save" THEN FALSE ELSE saving)
      /\ anet' = anet \ {r} /\ UNCHANGED <<file, under, intended>>
  BY DEF ConfigAnswered, AdvancedInv
<1>2. OneSave(anet', saving') /\ saving' \in BOOLEAN /\ SaveUnderWay'
  BY <1>1 DEF AdvancedInv, AdvancedTypeOK, OneSave, SaveUnderWay
<1>3. CASE r.state = "failed"
  <2>1. UNCHANGED <<loaded, fields, touched>>
    BY <1>3 DEF ConfigAnswered
  <2>2. AdvancedTypeOK'
    BY <1>1, <1>2, <2>1 DEF AdvancedInv, AdvancedTypeOK
  <2> QED
    BY <1>1, <1>2, <2>1, <2>2 DEF AdvancedInv, AsLoaded, NoneBlank
<1>4. CASE r.state # "failed"
  <2>1. /\ loaded' = r.answer /\ fields' = Filled(r.answer) /\ touched' = {} /\ r.answer \in Files
    BY <1>1, <1>4 DEF ConfigAnswered, AdvancedRequest, IsRequest
  <2>2. /\ fields' \in [All -> Values \cup {None}] /\ NoneBlank'
    BY <2>1, AdvancedAssumption DEF Filled, Files, NoneBlank
  <2>3. AsLoaded'
    BY <2>1 DEF AsLoaded
  <2>4. AdvancedTypeOK'
    BY <1>1, <1>2, <2>1, <2>2 DEF AdvancedInv, AdvancedTypeOK
  <2> QED
    BY <1>1, <1>2, <2>1, <2>2, <2>3, <2>4 DEF AdvancedInv
<1> QED
  BY <1>3, <1>4

LEMMA AdvancedSaveEnds ==
  ASSUME AdvancedInv, NEW r \in anet, SaveDone(r) \/ SaveFailed(r)
  PROVE  AdvancedInv'
<1>1. /\ r.what = "save" /\ r.of = "save" /\ saving /\ r.state # "sent"
      /\ \A q \in anet \ {r} : q.of # "save" /\ q.what # "save" /\ AdvancedRequest(q, intended)
  BY DEF SaveDone, SaveFailed, AdvancedInv, AdvancedRequest, OneSave
<1>4. under.ours = None
  BY <1>1 DEF AdvancedInv, SaveUnderWay
<1>2. CASE SaveDone(r)
  <2> DEFINE new == Ask("save", "config", None)
  <2>1. /\ fetching' = TRUE /\ anet' = (anet \ {r}) \cup {new}
        /\ fields' = [f \in All |-> IF f \in Cleared THEN None ELSE fields[f]]
        /\ UNCHANGED <<file, under, loaded, saving, touched, intended>>
    BY <1>2 DEF SaveDone
  <2>2. IsRequest(new) /\ new.of = "save" /\ new.what = "config" /\ new.state = "sent"
    BY AskAsks
  <2> HIDE DEF new
  <2>3. \A q \in anet' : AdvancedRequest(q, intended)
    BY <1>1, <2>1, <2>2 DEF AdvancedRequest
  <2>4. OneSave(anet', saving)
    BY <1>1, <2>1 DEF OneSave
  <2>5. AdvancedTypeOK'
    BY <2>1, <2>3 DEF AdvancedInv, AdvancedTypeOK, AdvancedRequest
  <2>6. AsLoaded' /\ NoneBlank'
    BY <2>1, AdvancedAssumption DEF AdvancedInv, AsLoaded, NoneBlank, Filled
  <2> QED
    BY <1>4, <2>1, <2>3, <2>4, <2>5, <2>6 DEF AdvancedInv, SaveUnderWay
<1>3. CASE SaveFailed(r)
  <2>1. /\ saving' = FALSE /\ anet' = anet \ {r}
        /\ UNCHANGED <<file, under, loaded, fields, fetching, touched, intended>>
    BY <1>3 DEF SaveFailed
  <2>2. OneSave(anet', saving')
    BY <1>1, <2>1 DEF OneSave
  <2>3. AdvancedTypeOK'
    BY <2>1 DEF AdvancedInv, AdvancedTypeOK
  <2> QED
    BY <1>1, <1>4, <2>1, <2>2, <2>3 DEF AdvancedInv, AsLoaded, NoneBlank, SaveUnderWay
<1> QED
  BY <1>2, <1>3

(* Every step keeps the invariant; a write of the page's save changes what *)
(* the user meant to change, and no other step but a write of the other    *)
(* administrator's save changes the file.                                  *)
LEMMA AdvancedKeeps ==
  ASSUME AdvancedInv, foreign \in Nat, [AdvancedNext]_avars
  PROVE  /\ AdvancedInv' /\ foreign' \in Nat
         /\ under'.theirs = under.theirs /\ ~under.crossed =>
              \A f \in All : file'[f] # file[f] => f \in intended
<1>1. CASE Type \/ Reload \/ Save
  <2>1. file' = file /\ foreign' = foreign
    BY <1>1 DEF Type, Reload, Save
  <2> QED
    BY <1>1, <2>1, AdvancedTypes, AdvancedReloads, AdvancedSaves
<1>2. CASE ForeignReads \/ ForeignWrites
  BY <1>2, OthersRead, OthersWrite
<1>3. ASSUME NEW r \in anet, ServeConfig(r) \/ SaveReads(r)
      PROVE  AdvancedInv' /\ file' = file /\ foreign' = foreign
  BY <1>3, AdvancedServes, AdvancedSaveReads
<1>4. ASSUME NEW r \in anet,
             AdvancedFail(r) \/ ConfigAnswered(r) \/ SaveDone(r) \/ SaveFailed(r)
      PROVE  AdvancedInv' /\ file' = file /\ foreign' \in {foreign, foreign + 1}
  BY <1>4, AdvancedFails, AdvancedAnswered, AdvancedSaveEnds
  DEF AdvancedFail, ConfigAnswered, SaveDone, SaveFailed
<1>5. ASSUME NEW r \in anet, SaveWrites(r)
      PROVE  /\ AdvancedInv' /\ foreign' = foreign
             /\ ~under.crossed => \A f \in All : file'[f] # file[f] => f \in intended
  BY <1>5, AdvancedSaveWrites
<1>6. CASE UNCHANGED avars
  BY <1>6 DEF avars, AdvancedInv, AdvancedTypeOK, AsLoaded, NoneBlank, SaveUnderWay
<1> QED
  BY <1>1, <1>2, <1>3, <1>4, <1>5, <1>6 DEF AdvancedNext

LEMMA AdvancedBegins == AdvancedInit => AdvancedInv
<1> SUFFICES ASSUME AdvancedInit PROVE AdvancedInv
  OBVIOUS
<1> DEFINE new == Ask("mount", "config", None)
<1>1. /\ loaded = None /\ fetching = TRUE /\ saving = FALSE /\ anet = {new} /\ under = NoSaves
      /\ touched = {} /\ intended = {} /\ foreign = 0
      /\ fields = [f \in All |-> IF f \in Plain \ Required THEN Preset ELSE None]
      /\ \E v \in Values : file = [f \in All |-> v]
  BY DEF AdvancedInit
<1>2. IsRequest(new) /\ new.of = "mount" /\ new.what = "config" /\ new.state = "sent"
  BY AskAsks
<1> HIDE DEF new
<1>3. Preset \in Values /\ file \in Files
  BY <1>1 DEF Preset, Files
<1>4. \A q \in anet : AdvancedRequest(q, intended)
  BY <1>1, <1>2 DEF AdvancedRequest
<1>5. OneSave(anet, saving) /\ AsLoaded
  BY <1>1, <1>2 DEF OneSave, AsLoaded
<1>6. AdvancedTypeOK
  <2>1. \A q \in anet : q.what \in {"config", "save"}
    BY <1>4 DEF AdvancedRequest
  <2>2. fields \in [All -> Values \cup {None}]
    BY <1>1, <1>3
  <2> QED
    BY <1>1, <1>3, <2>1, <2>2 DEF AdvancedTypeOK, NoSaves, SavesOf
<1>7. NoneBlank
  BY <1>1, <1>3, AdvancedAssumption DEF NoneBlank, All
<1> QED
  BY <1>1, <1>4, <1>5, <1>6, <1>7 DEF AdvancedInv, NoSaves, Drafted, SaveUnderWay

----------------------------------------------------------------------------
(* The updater.                                                            *)
UpdaterKept ==
  overlap = {} => OneWorker /\ ReplacesWhileDown /\ HistoryWhole /\ BackupsAreWhole

LEMMA UpdaterParts == UpdaterInv <=> UpdaterTypeOK /\ UpdaterKept
BY DEF UpdaterInv, UpdaterKept, BackupsAreWhole

LEMMA WholeVersions ==
  /\ Mixed \notin Versions /\ None \notin Installed /\ 1 \in Versions
  /\ Serving => proc \in Versions /\ proc # None
BY UpdaterAssumption DEF Installed, Serving

LEMMA InitialResults ==
  /\ EmptyState \in UpdateState /\ EmptyState.apply = None
  /\ NoWorker \in WorkerStates /\ NoWorker.pc = "idle"
<1>1. EmptyState \in UpdateState /\ EmptyState.apply = None
  BY DEF EmptyState, UpdateState
<1>2. NoWorker \in WorkerStates /\ NoWorker.pc = "idle"
  BY <1>1, WholeVersions DEF NoWorker, WorkerStates, Installed
<1> QED
  BY <1>1, <1>2

LEMMA PreparedHolds ==
  ASSUME disk \in Installed, NEW v \in Versions
  PROVE  /\ Prepared(v) \in UpdateState /\ [Prepared(v) EXCEPT !.execute = v] \in UpdateState
         /\ Prepared(v).apply.backup = disk
         /\ [Prepared(v) EXCEPT !.execute = v].apply.backup = disk
<1> DEFINE a == [version |-> v, backup |-> disk, applied |-> FALSE]
<1>1. a \in Applies /\ a.backup = disk
  BY DEF Applies
<1>2. Prepared(v) = [EmptyState EXCEPT !.apply = a]
  BY DEF Prepared
<1> HIDE DEF a
<1>3. Prepared(v) =
        [download |-> None, apply |-> a, execute |-> None, rollback |-> None, restart |-> None]
  BY <1>2 DEF EmptyState
<1> QED
  BY <1>1, <1>3 DEF UpdateState

LEMMA FreedWorkers ==
  ASSUME worker \in [Workers -> WorkerStates]
  PROVE  /\ Freed \in [Workers -> WorkerStates]
         /\ \A w \in Workers :
              /\ Freed[w].pc = IF worker[w].pc = "waiting" THEN "ready" ELSE worker[w].pc
              /\ Freed[w].backup = worker[w].backup /\ Freed[w].previous = worker[w].previous
BY DEF Freed, WorkerStates

(* What is recorded of an overlap.                                         *)
LEMMA Recorded ==
  ASSUME UpdaterTypeOK, NEW what \in {"execute", "start", "restart"}
  PROVE  /\ Meeting(what) \cup Torn \cup Remains \subseteq
              {"execute", "start", "restart", "rollback", "mixed"}
         /\ Meeting(what) = {} => \A w \in Workers : worker[w].pc = "idle"
         /\ Torn = {} => rolling = None
         /\ Remains = {} => disk # Mixed
BY DEF Meeting, Torn, Remains, AtWork

(* What starts of the files installed.                                     *)
LEMMA StartsVersions ==
  ASSUME NEW files \in Installed
  PROVE  /\ Starts(files) \subseteq Versions \cup {None}
         /\ files # Mixed => Starts(files) = {files} /\ files \in Versions
BY WholeVersions DEF Starts, Installed

(* What the application does on request leaves the workers alone; backups  *)
(* are made of what is installed while it runs.                            *)
LEMMA DownloadKeeps == ASSUME UpdaterInv, DownloadLatest PROVE UpdaterInv'
<1>1. /\ stored' = [EmptyState EXCEPT !.download = newest, !.execute = stored.execute]
      /\ UNCHANGED <<newest, disk, proc, healthURL, exiting, worker, rolling, faults, overlap>>
      /\ UpdaterTypeOK /\ UpdaterKept
  BY UpdaterParts DEF DownloadLatest
<1>2. stored' \in UpdateState /\ stored'.apply = None
  BY <1>1, InitialResults DEF UpdaterTypeOK, UpdateState
<1>3. UpdaterTypeOK'
  BY <1>1, <1>2 DEF UpdaterTypeOK
<1>4. UpdaterKept'
  BY <1>1, <1>2 DEF UpdaterKept, OneWorker, ReplacesWhileDown, HistoryWhole,
     BackupsAreWhole, AtWork
<1> QED
  BY <1>3, <1>4 DEF UpdaterInv, UpdaterKept, BackupsAreWhole

LEMMA ApplyKeeps ==
  ASSUME UpdaterInv, NEW v \in Versions, ApplyDownloaded(v) PROVE UpdaterInv'
<1>1. /\ Serving /\ stored' = Prepared(v) /\ overlap' = overlap \cup Torn
      /\ UNCHANGED <<newest, disk, proc, healthURL, exiting, worker, rolling, faults>>
      /\ UpdaterTypeOK /\ UpdaterKept
  BY UpdaterParts DEF ApplyDownloaded
<1>2. stored' \in UpdateState /\ stored'.apply.backup = disk
  BY <1>1, PreparedHolds DEF UpdaterTypeOK
<1>3. /\ overlap' \subseteq {"execute", "start", "restart", "rollback", "mixed"}
      /\ overlap' = {} => overlap = {} /\ rolling = None
  BY <1>1, Recorded DEF UpdaterTypeOK
<1>4. UpdaterTypeOK'
  BY <1>1, <1>2, <1>3 DEF UpdaterTypeOK
<1>5. UpdaterKept'
  BY <1>1, <1>2, <1>3, WholeVersions
  DEF UpdaterKept, OneWorker, ReplacesWhileDown, HistoryWhole, BackupsAreWhole, AtWork
<1> QED
  BY <1>4, <1>5 DEF UpdaterInv, UpdaterKept, BackupsAreWhole

LEMMA ExecuteKeeps ==
  ASSUME UpdaterInv, NEW v \in Versions, ExecuteDownloaded(v) PROVE UpdaterInv'
<1>1. /\ Serving /\ stored' = [Prepared(v) EXCEPT !.execute = v] /\ exiting' = TRUE
      /\ overlap' = overlap \cup Meeting("execute") \cup Torn
      /\ UNCHANGED <<newest, disk, proc, healthURL, rolling, faults>>
      /\ UpdaterTypeOK /\ UpdaterKept
  BY UpdaterParts DEF ExecuteDownloaded
<1> DEFINE new == [pc |-> "waiting", version |-> v, backup |-> disk, health |-> healthURL,
                   previous |-> EmptyState, own |-> FALSE]
<1>2. PICK w \in Workers : worker[w].pc = "idle" /\ worker' = [worker EXCEPT ![w] = new]
  BY DEF ExecuteDownloaded
<1>3. /\ new \in WorkerStates /\ new.pc = "waiting" /\ new.backup = disk
      /\ new.previous.apply = None
  BY <1>1, InitialResults DEF UpdaterTypeOK, WorkerStates
<1> HIDE DEF new
<1>4. stored' \in UpdateState /\ stored'.apply.backup = disk
  BY <1>1, PreparedHolds DEF UpdaterTypeOK
<1>5. /\ overlap' \subseteq {"execute", "start", "restart", "rollback", "mixed"}
      /\ overlap' = {} => overlap = {} /\ rolling = None /\ \A x \in Workers : ~AtWork(x)
  BY <1>1, Recorded DEF UpdaterTypeOK, AtWork
<1>6. UpdaterTypeOK'
  BY <1>1, <1>2, <1>3, <1>4, <1>5 DEF UpdaterTypeOK
<1>7. worker'[w] = new /\ \A x \in Workers : x # w => worker'[x] = worker[x]
  BY <1>1, <1>2 DEF UpdaterTypeOK
<1>8. UpdaterKept'
  <2> SUFFICES ASSUME overlap' = {}
               PROVE  OneWorker' /\ ReplacesWhileDown' /\ HistoryWhole' /\ BackupsAreWhole'
    BY DEF UpdaterKept
  <2>1. OneWorker' /\ HistoryWhole'
    BY <1>3, <1>5, <1>7 DEF OneWorker, HistoryWhole, AtWork
  <2>2. disk # Mixed
    BY <1>1, <1>5, WholeVersions DEF UpdaterKept, ReplacesWhileDown
  <2>3. ReplacesWhileDown'
    BY <1>1, <1>3, <1>5, <1>7, <2>2 DEF ReplacesWhileDown, AtWork
  <2>4. BackupsAreWhole'
    BY <1>3, <1>4, <1>5, <1>7, <2>2 DEF BackupsAreWhole, AtWork
  <2> QED
    BY <2>1, <2>3, <2>4
<1> QED
  BY <1>6, <1>8 DEF UpdaterInv, UpdaterKept, BackupsAreWhole

LEMMA RollbackBeginsKeeps == ASSUME UpdaterInv, RollbackBegins PROVE UpdaterInv'
<1>1. /\ Serving /\ stored.apply # None /\ rolling' = stored /\ disk' = Mixed
      /\ UNCHANGED <<newest, proc, stored, healthURL, exiting, worker, faults, overlap>>
      /\ UpdaterTypeOK /\ UpdaterKept
  BY UpdaterParts DEF RollbackBegins
<1>2. UpdaterTypeOK' /\ rolling' # None
  BY <1>1, StateAssumption DEF UpdaterTypeOK, Installed
<1>3. UpdaterKept'
  BY <1>1, <1>2, WholeVersions
  DEF UpdaterKept, OneWorker, ReplacesWhileDown, HistoryWhole, BackupsAreWhole, AtWork
<1> QED
  BY <1>2, <1>3 DEF UpdaterInv, UpdaterKept, BackupsAreWhole

LEMMA RollbackEndsKeeps == ASSUME UpdaterInv, RollbackEnds PROVE UpdaterInv'
<1>1. /\ rolling # None /\ disk' = rolling.apply.backup /\ rolling' = None
      /\ stored' = [rolling EXCEPT !.rollback = rolling.apply.backup]
      /\ UNCHANGED <<newest, proc, healthURL, exiting, worker, faults, overlap>>
      /\ UpdaterTypeOK /\ UpdaterKept
  BY UpdaterParts DEF RollbackEnds
<1>2. disk' \in Installed /\ stored' \in UpdateState /\ stored'.apply = rolling.apply
  BY <1>1 DEF UpdaterTypeOK, UpdateState, Applies
<1>3. UpdaterTypeOK'
  BY <1>1, <1>2 DEF UpdaterTypeOK
<1>4. UpdaterKept'
  BY <1>1, <1>2
  DEF UpdaterKept, OneWorker, ReplacesWhileDown, HistoryWhole, BackupsAreWhole, AtWork
<1> QED
  BY <1>3, <1>4 DEF UpdaterInv, UpdaterKept, BackupsAreWhole

LEMMA RollbackFailsKeeps == ASSUME UpdaterInv, RollbackFails PROVE UpdaterInv'
<1>1. /\ disk' = Mixed /\ rolling' = None /\ overlap' = overlap \cup {"mixed"}
      /\ faults < MaxFaults /\ faults' = faults + 1
      /\ UNCHANGED <<newest, proc, stored, healthURL, exiting, worker>>
      /\ UpdaterTypeOK
  BY UpdaterParts DEF RollbackFails
<1>2. UpdaterTypeOK' /\ overlap' # {}
  BY <1>1, UpdaterAssumption DEF UpdaterTypeOK, Installed
<1> QED
  BY <1>2 DEF UpdaterInv, BackupsAreWhole

LEMMA RestartKeeps ==
  ASSUME UpdaterInv, NEW execute \in BOOLEAN, Restart(execute) PROVE UpdaterInv'
<1>1. /\ Serving /\ UpdaterTypeOK /\ UpdaterKept /\ UNCHANGED <<newest, disk, faults>>
  BY UpdaterParts DEF Restart
<1>2. CASE ~HasCommand \/ ~execute
  <2>1. /\ stored' = [stored EXCEPT !.restart = IF HasCommand THEN "planned" ELSE "manual"]
        /\ UNCHANGED <<proc, exiting, healthURL, worker, rolling, overlap>>
    BY <1>2 DEF Restart
  <2>2. stored' \in UpdateState /\ stored'.apply = stored.apply
    BY <1>1, <2>1 DEF UpdaterTypeOK, UpdateState
  <2>3. UpdaterTypeOK'
    BY <1>1, <2>1, <2>2 DEF UpdaterTypeOK
  <2>4. UpdaterKept'
    BY <1>1, <2>1, <2>2
    DEF UpdaterKept, OneWorker, ReplacesWhileDown, HistoryWhole, BackupsAreWhole, AtWork
  <2> QED
    BY <2>3, <2>4 DEF UpdaterInv, UpdaterKept, BackupsAreWhole
<1>3. CASE ~(~HasCommand \/ ~execute)
  <2>1. /\ stored' = [stored EXCEPT !.restart = "executed"]
        /\ proc' \in Starts(disk) /\ rolling' = None /\ exiting' = FALSE /\ healthURL' = TRUE
        /\ worker' = Freed /\ overlap' = overlap \cup Meeting("restart") \cup Remains
    BY <1>3 DEF Restart
  <2>2. stored' \in UpdateState /\ stored'.apply = stored.apply
    BY <1>1, <2>1 DEF UpdaterTypeOK, UpdateState
  <2>3. /\ Freed \in [Workers -> WorkerStates]
        /\ \A w \in Workers : Freed[w].pc = IF worker[w].pc = "waiting" THEN "ready" ELSE worker[w].pc
    BY <1>1, FreedWorkers DEF UpdaterTypeOK
  <2>4. /\ overlap' \subseteq {"execute", "start", "restart", "rollback", "mixed"}
        /\ overlap' = {} => overlap = {} /\ disk # Mixed /\ \A x \in Workers : ~AtWork(x)
    BY <1>1, <2>1, Recorded DEF UpdaterTypeOK, AtWork
  <2>5. UpdaterTypeOK'
    BY <1>1, <2>1, <2>2, <2>3, <2>4, StartsVersions DEF UpdaterTypeOK
  <2>6. overlap' = {} => \A x \in Workers : worker'[x].pc = "idle"
    BY <2>1, <2>3, <2>4 DEF AtWork
  <2>7. UpdaterKept'
    BY <1>1, <2>1, <2>2, <2>4, <2>6
    DEF UpdaterKept, OneWorker, ReplacesWhileDown, HistoryWhole, BackupsAreWhole, AtWork
  <2> QED
    BY <2>5, <2>7 DEF UpdaterInv, UpdaterKept, BackupsAreWhole
<1> QED
  BY <1>2, <1>3

----------------------------------------------------------------------------
(* The process, and the workers.                                           *)
LEMMA PublishKeeps == ASSUME UpdaterInv, Publish PROVE UpdaterInv'
BY DEF Publish, UpdaterInv, UpdaterTypeOK, OneWorker, ReplacesWhileDown,
   HistoryWhole, BackupsAreWhole, AtWork

LEMMA ConfigKeeps ==
  ASSUME UpdaterInv, UpdateConfig,
         UNCHANGED <<newest, disk, proc, stored, exiting, worker, rolling, faults, overlap>>
  PROVE  UpdaterInv'
BY DEF UpdateConfig, UpdaterInv, UpdaterTypeOK, OneWorker, ReplacesWhileDown,
   HistoryWhole,
       BackupsAreWhole, AtWork

LEMMA ExitKeeps == ASSUME UpdaterInv, Exit PROVE UpdaterInv'
<1>1. /\ exiting /\ exiting' = FALSE /\ proc' = None /\ worker' = Freed /\ rolling' = None
      /\ UNCHANGED <<newest, disk, stored, healthURL, faults, overlap>>
      /\ UpdaterTypeOK /\ UpdaterKept
  BY UpdaterParts DEF Exit
<1>2. /\ Freed \in [Workers -> WorkerStates]
      /\ \A w \in Workers :
           /\ Freed[w].pc = IF worker[w].pc = "waiting" THEN "ready" ELSE worker[w].pc
           /\ Freed[w].backup = worker[w].backup /\ Freed[w].previous = worker[w].previous
  BY <1>1, FreedWorkers DEF UpdaterTypeOK
<1>3. UpdaterTypeOK'
  BY <1>1, <1>2 DEF UpdaterTypeOK
<1>4. UpdaterKept'
  BY <1>1, <1>2 DEF UpdaterKept, OneWorker, ReplacesWhileDown, HistoryWhole,
     BackupsAreWhole, AtWork
<1> QED
  BY <1>3, <1>4 DEF UpdaterInv, UpdaterKept, BackupsAreWhole

LEMMA StartKeeps == ASSUME UpdaterInv, OperatorStart PROVE UpdaterInv'
<1>1. /\ proc = None /\ proc' \in Starts(disk) /\ healthURL' = TRUE
      /\ overlap' = overlap \cup Meeting("start") \cup Remains
      /\ UNCHANGED <<newest, disk, stored, exiting, worker, rolling, faults>>
      /\ UpdaterTypeOK /\ UpdaterKept
  BY UpdaterParts DEF OperatorStart
<1>2. /\ overlap' \subseteq {"execute", "start", "restart", "rollback", "mixed"}
      /\ overlap' = {} =>
           overlap = {} /\ disk # Mixed /\ \A x \in Workers : worker[x].pc = "idle"
  BY <1>1, Recorded DEF UpdaterTypeOK
<1>3. UpdaterTypeOK'
  BY <1>1, <1>2, StartsVersions DEF UpdaterTypeOK
<1>4. UpdaterKept'
  BY <1>1, <1>2 DEF UpdaterKept, OneWorker, ReplacesWhileDown, HistoryWhole,
     BackupsAreWhole, AtWork
<1> QED
  BY <1>3, <1>4 DEF UpdaterInv, UpdaterKept, BackupsAreWhole

(* One worker changes; its new state has its type.                         *)
LEMMA WorkerMoves ==
  ASSUME UpdaterTypeOK, NEW w \in Workers, NEW new \in WorkerStates,
         worker' = [worker EXCEPT ![w] = new]
  PROVE  /\ worker' \in [Workers -> WorkerStates] /\ worker'[w] = new
         /\ \A x \in Workers : x # w => worker'[x] = worker[x]
BY DEF UpdaterTypeOK

LEMMA LaunchFailsKeeps == ASSUME UpdaterInv, NEW w \in Workers, LaunchFails(w) PROVE UpdaterInv'
<1>1. /\ worker[w].pc = "ready" /\ worker' = [worker EXCEPT ![w] = NoWorker]
      /\ faults < MaxFaults /\ faults' = faults + 1
      /\ UNCHANGED <<newest, disk, proc, stored, healthURL, exiting, rolling, overlap>>
      /\ UpdaterTypeOK /\ UpdaterKept
  BY UpdaterParts DEF LaunchFails
<1>2. /\ worker' \in [Workers -> WorkerStates] /\ worker'[w].pc = "idle"
      /\ \A x \in Workers : x # w => worker'[x] = worker[x]
  BY <1>1, WorkerMoves, InitialResults
<1>3. UpdaterTypeOK'
  BY <1>1, <1>2, UpdaterAssumption DEF UpdaterTypeOK
<1>4. UpdaterKept'
  BY <1>1, <1>2
  DEF UpdaterKept, OneWorker, ReplacesWhileDown, HistoryWhole, BackupsAreWhole, AtWork
<1> QED
  BY <1>3, <1>4 DEF UpdaterInv, UpdaterKept, BackupsAreWhole

LEMMA CopyKeeps == ASSUME UpdaterInv, NEW w \in Workers, Copy(w) PROVE UpdaterInv'
<1> DEFINE new == [worker[w] EXCEPT !.pc = "copying", !.previous = stored]
<1>1. /\ worker[w].pc = "ready" /\ disk' = Mixed
      /\ UNCHANGED <<newest, proc, stored, healthURL, exiting, rolling, faults, overlap>>
      /\ UpdaterTypeOK /\ UpdaterKept
  BY UpdaterParts DEF Copy
<1>2. worker[w] \in WorkerStates /\ stored \in UpdateState
  BY <1>1 DEF UpdaterTypeOK
<1>3. worker' = [worker EXCEPT ![w] = new]
  BY <1>1 DEF Copy, UpdaterTypeOK
<1>4. /\ new \in WorkerStates /\ new.pc = "copying" /\ new.previous = stored
      /\ new.backup = worker[w].backup
  BY <1>2 DEF WorkerStates
<1> HIDE DEF new
<1>5. /\ worker' \in [Workers -> WorkerStates] /\ worker'[w] = new
      /\ \A x \in Workers : x # w => worker'[x] = worker[x]
  BY <1>1, <1>3, <1>4, WorkerMoves
<1>6. UpdaterTypeOK'
  BY <1>1, <1>5 DEF UpdaterTypeOK, Installed
<1>7. UpdaterKept'
  BY <1>1, <1>4, <1>5
  DEF UpdaterKept, OneWorker, ReplacesWhileDown, HistoryWhole, BackupsAreWhole, AtWork
<1> QED
  BY <1>6, <1>7 DEF UpdaterInv, UpdaterKept, BackupsAreWhole

(* What a worker writes to the state file.                                 *)
LEMMA AppliedHolds ==
  ASSUME UpdaterTypeOK, NEW w \in Workers
  PROVE  /\ AppliedResult(w) \in Applies /\ AppliedResult(w).backup = worker[w].backup
         /\ worker[w] \in WorkerStates /\ worker[w].previous \in UpdateState
         /\ worker[w].version \in Versions /\ worker[w].backup \in Installed
BY DEF UpdaterTypeOK, WorkerStates, AppliedResult, Applies

LEMMA SwapKeeps == ASSUME UpdaterInv, NEW w \in Workers, Swap(w) PROVE UpdaterInv'
<1> DEFINE new == [worker[w] EXCEPT !.pc = "swapped"]
<1>1. /\ worker[w].pc = "copying" /\ disk' = worker[w].version
      /\ stored' = [worker[w].previous EXCEPT !.apply = AppliedResult(w)]
      /\ UNCHANGED <<newest, proc, healthURL, exiting, rolling, faults, overlap>>
      /\ UpdaterTypeOK /\ UpdaterKept
  BY UpdaterParts DEF Swap
<1>2. /\ AppliedResult(w) \in Applies /\ AppliedResult(w).backup = worker[w].backup
      /\ worker[w] \in WorkerStates /\ worker[w].previous \in UpdateState
      /\ worker[w].version \in Versions
  BY <1>1, AppliedHolds
<1>3. worker' = [worker EXCEPT ![w] = new]
  BY <1>1 DEF Swap, UpdaterTypeOK
<1>4. /\ new \in WorkerStates /\ new.pc = "swapped" /\ new.previous = worker[w].previous
      /\ new.backup = worker[w].backup
  BY <1>2 DEF WorkerStates
<1> HIDE DEF new
<1>5. /\ worker' \in [Workers -> WorkerStates] /\ worker'[w] = new
      /\ \A x \in Workers : x # w => worker'[x] = worker[x]
  BY <1>1, <1>3, <1>4, WorkerMoves
<1>6. stored' \in UpdateState /\ stored'.apply = AppliedResult(w)
  BY <1>1, <1>2 DEF UpdateState
<1>7. UpdaterTypeOK'
  BY <1>1, <1>2, <1>5, <1>6 DEF UpdaterTypeOK, Installed
<1>8. UpdaterKept'
  BY <1>1, <1>2, <1>4, <1>5, <1>6, WholeVersions
  DEF UpdaterKept, OneWorker, ReplacesWhileDown, HistoryWhole, BackupsAreWhole, AtWork
<1> QED
  BY <1>7, <1>8 DEF UpdaterInv, UpdaterKept, BackupsAreWhole

LEMMA SwapFailsKeeps == ASSUME UpdaterInv, NEW w \in Workers, SwapFails(w) PROVE UpdaterInv'
<1>1. /\ worker[w].pc = "copying" /\ stored' = worker[w].previous
      /\ worker' = [worker EXCEPT ![w] = NoWorker]
      /\ faults < MaxFaults /\ faults' = faults + 1
      /\ UNCHANGED <<newest, disk, proc, healthURL, exiting, rolling, overlap>>
      /\ UpdaterTypeOK /\ UpdaterKept
  BY UpdaterParts DEF SwapFails
<1>2. /\ worker' \in [Workers -> WorkerStates] /\ worker'[w].pc = "idle"
      /\ \A x \in Workers : x # w => worker'[x] = worker[x]
      /\ stored' \in UpdateState
  BY <1>1, WorkerMoves, InitialResults, AppliedHolds
<1>3. UpdaterTypeOK'
  BY <1>1, <1>2, UpdaterAssumption DEF UpdaterTypeOK
<1>4. UpdaterKept'
  BY <1>1, <1>2
  DEF UpdaterKept, OneWorker, ReplacesWhileDown, HistoryWhole, BackupsAreWhole, AtWork
<1> QED
  BY <1>3, <1>4 DEF UpdaterInv, UpdaterKept, BackupsAreWhole

LEMMA StartNewKeeps == ASSUME UpdaterInv, NEW w \in Workers, StartNew(w) PROVE UpdaterInv'
<1> DEFINE new == [worker[w] EXCEPT !.pc = "started", !.own = (proc = None)]
<1>1. /\ worker[w].pc = "swapped" /\ proc' = Started(worker[w].version)
      /\ healthURL' = (proc = None \/ healthURL)
      /\ stored' = [worker[w].previous EXCEPT !.apply = AppliedResult(w), !.restart = "executed"]
      /\ UNCHANGED <<newest, disk, exiting, rolling, faults, overlap>>
      /\ UpdaterTypeOK /\ UpdaterKept
  BY UpdaterParts DEF StartNew
<1>2. /\ AppliedResult(w) \in Applies /\ AppliedResult(w).backup = worker[w].backup
      /\ worker[w] \in WorkerStates /\ worker[w].previous \in UpdateState
      /\ worker[w].version \in Versions
  BY <1>1, AppliedHolds
<1>3. worker' = [worker EXCEPT ![w] = new]
  BY <1>1 DEF StartNew, UpdaterTypeOK
<1>4. /\ new \in WorkerStates /\ new.pc = "started" /\ new.previous = worker[w].previous
      /\ new.backup = worker[w].backup /\ (new.own <=> proc = None)
  BY <1>2 DEF WorkerStates
<1> HIDE DEF new
<1>5. /\ worker' \in [Workers -> WorkerStates] /\ worker'[w] = new
      /\ \A x \in Workers : x # w => worker'[x] = worker[x]
  BY <1>1, <1>3, <1>4, WorkerMoves
<1>6. stored' \in UpdateState /\ stored'.apply = AppliedResult(w)
  BY <1>1, <1>2 DEF UpdateState
<1>7. proc' \in Versions \cup {None} /\ healthURL' \in BOOLEAN
  BY <1>1, <1>2 DEF Started, UpdaterTypeOK
<1>8. UpdaterTypeOK'
  BY <1>1, <1>5, <1>6, <1>7 DEF UpdaterTypeOK
<1>9. UpdaterKept'
  BY <1>1, <1>2, <1>4, <1>5, <1>6, WholeVersions
  DEF UpdaterKept, OneWorker, ReplacesWhileDown, HistoryWhole, BackupsAreWhole, AtWork
<1> QED
  BY <1>8, <1>9 DEF UpdaterInv, UpdaterKept, BackupsAreWhole

(* A worker that restores its backup is the only one at work, and leaves   *)
(* none behind.                                                            *)
LEMMA RollBackKeeps ==
  ASSUME UpdaterInv, NEW w \in Workers, NEW alive \in {proc, None},
         worker[w].pc \in {"swapped", "started"}, RollBack(w, alive),
         exiting' \in BOOLEAN, faults' \in 0..MaxFaults, UNCHANGED <<newest, overlap>>
  PROVE  UpdaterInv'
<1> DEFINE left == IF alive = None THEN Freed ELSE worker
<1>1. /\ disk' = worker[w].backup
      /\ stored' = [worker[w].previous EXCEPT !.rollback = worker[w].backup]
      /\ proc' \in IF alive = None THEN Starts(worker[w].backup) ELSE {alive}
      /\ rolling' = IF alive = None THEN None ELSE rolling
      /\ healthURL' = (alive = None \/ healthURL)
      /\ worker' = [left EXCEPT ![w] = NoWorker]
      /\ UpdaterTypeOK /\ UpdaterKept
  BY UpdaterParts DEF RollBack
<1>2. /\ worker[w] \in WorkerStates /\ worker[w].previous \in UpdateState
      /\ worker[w].backup \in Installed
  BY <1>1, AppliedHolds
<1>3. /\ left \in [Workers -> WorkerStates]
      /\ \A x \in Workers : worker[x].pc = "idle" => left[x].pc = "idle"
  BY <1>1, FreedWorkers DEF UpdaterTypeOK
<1> HIDE DEF left
<1>4. /\ worker' \in [Workers -> WorkerStates] /\ worker'[w].pc = "idle"
      /\ \A x \in Workers : worker[x].pc = "idle" => worker'[x].pc = "idle"
  BY <1>1, <1>3, InitialResults
<1>5. stored' \in UpdateState /\ stored'.apply = worker[w].previous.apply
  BY <1>1, <1>2 DEF UpdateState
<1>6. UpdaterTypeOK'
  BY <1>1, <1>2, <1>4, <1>5, StartsVersions DEF UpdaterTypeOK
<1>7. ASSUME overlap' = {}
      PROVE  OneWorker' /\ ReplacesWhileDown' /\ HistoryWhole' /\ BackupsAreWhole'
  <2>1. OneWorker /\ HistoryWhole /\ BackupsAreWhole /\ AtWork(w)
    BY <1>1, <1>7 DEF UpdaterKept, AtWork
  <2>2. \A x \in Workers : worker'[x].pc = "idle"
    BY <1>4, <2>1 DEF OneWorker, AtWork
  <2>3. disk' # Mixed
    BY <1>1, <1>7, <2>1 DEF BackupsAreWhole
  <2>4. stored'.apply # None => stored'.apply.backup # Mixed
    BY <1>5, <2>1 DEF HistoryWhole
  <2>5. rolling' # None => proc' # None /\ rolling'.apply.backup # Mixed
    BY <1>1, <1>7 DEF UpdaterKept, ReplacesWhileDown
  <2> QED
    BY <2>2, <2>3, <2>4, <2>5 DEF OneWorker, ReplacesWhileDown, HistoryWhole,
       BackupsAreWhole, AtWork
<1> QED
  BY <1>6, <1>7 DEF UpdaterInv, UpdaterKept, BackupsAreWhole

LEMMA HealthOkKeeps == ASSUME UpdaterInv, NEW w \in Workers, HealthOk(w) PROVE UpdaterInv'
<1>1. /\ worker[w].pc = "started" /\ worker' = [worker EXCEPT ![w] = NoWorker]
      /\ stored' = [stored EXCEPT !.apply = AppliedResult(w), !.restart = "executed"]
      /\ UNCHANGED <<newest, disk, proc, healthURL, exiting, rolling, faults, overlap>>
      /\ UpdaterTypeOK /\ UpdaterKept
  BY UpdaterParts DEF HealthOk
<1>2. AppliedResult(w) \in Applies /\ AppliedResult(w).backup = worker[w].backup
  BY <1>1, AppliedHolds
<1>3. /\ worker' \in [Workers -> WorkerStates] /\ worker'[w].pc = "idle"
      /\ \A x \in Workers : x # w => worker'[x] = worker[x]
  BY <1>1, WorkerMoves, InitialResults
<1>4. stored' \in UpdateState /\ stored'.apply = AppliedResult(w)
  BY <1>1, <1>2 DEF UpdateState, UpdaterTypeOK
<1>5. UpdaterTypeOK'
  BY <1>1, <1>3, <1>4 DEF UpdaterTypeOK
<1>6. UpdaterKept'
  BY <1>1, <1>2, <1>3, <1>4
  DEF UpdaterKept, OneWorker, ReplacesWhileDown, HistoryWhole, BackupsAreWhole, AtWork
<1> QED
  BY <1>5, <1>6 DEF UpdaterInv, UpdaterKept, BackupsAreWhole

LEMMA RestoreFailsKeeps == ASSUME UpdaterInv, NEW w \in Workers, RestoreFails(w) PROVE UpdaterInv'
<1> DEFINE left == IF proc' = None THEN Freed ELSE worker
<1>1. /\ worker[w].pc \in {"swapped", "started"} /\ disk' \in {disk, Mixed}
      /\ rolling' = (IF proc' = None THEN None ELSE rolling)
      /\ proc' = (IF worker[w].own THEN None ELSE proc) /\ exiting' = (exiting /\ proc' # None)
      /\ stored' = worker[w].previous /\ worker' = [left EXCEPT ![w] = NoWorker]
      /\ faults < MaxFaults /\ faults' = faults + 1 /\ UNCHANGED <<newest, healthURL, overlap>>
      /\ UpdaterTypeOK /\ UpdaterKept
  BY UpdaterParts DEF RestoreFails
<1>2. worker[w] \in WorkerStates /\ worker[w].previous \in UpdateState
  BY <1>1, AppliedHolds
<1>3. /\ left \in [Workers -> WorkerStates]
      /\ \A x \in Workers : worker[x].pc = "idle" => left[x].pc = "idle"
  BY <1>1, FreedWorkers DEF UpdaterTypeOK
<1> HIDE DEF left
<1>4. /\ worker' \in [Workers -> WorkerStates] /\ worker'[w].pc = "idle"
      /\ \A x \in Workers : worker[x].pc = "idle" => worker'[x].pc = "idle"
  BY <1>1, <1>3, InitialResults
<1>5. UpdaterTypeOK'
  BY <1>1, <1>2, <1>4, UpdaterAssumption DEF UpdaterTypeOK, Installed
<1>6. ASSUME overlap' = {}
      PROVE  OneWorker' /\ ReplacesWhileDown' /\ HistoryWhole' /\ BackupsAreWhole'
  <2>1. OneWorker /\ HistoryWhole /\ ReplacesWhileDown /\ AtWork(w)
    BY <1>1, <1>6 DEF UpdaterKept, AtWork
  <2>2. \A x \in Workers : worker'[x].pc = "idle"
    BY <1>4, <2>1 DEF OneWorker, AtWork
  <2>3. proc' = None
    BY <1>1, <2>1 DEF ReplacesWhileDown
  <2>4. stored'.apply # None => stored'.apply.backup # Mixed
    BY <1>1, <2>1 DEF HistoryWhole
  <2> QED
    BY <1>1, <2>2, <2>3, <2>4 DEF OneWorker, ReplacesWhileDown, HistoryWhole,
       BackupsAreWhole, AtWork
<1> QED
  BY <1>5, <1>6 DEF UpdaterInv, UpdaterKept, BackupsAreWhole

LEMMA WorkerKeeps == ASSUME UpdaterInv, NEW w \in Workers, WorkerStep(w) PROVE UpdaterInv'
<1>1. CASE StartFails(w)
  <2>1. /\ worker[w].pc = "swapped" /\ RollBack(w, proc) /\ UNCHANGED <<newest, exiting, overlap>>
        /\ exiting' \in BOOLEAN /\ faults' \in 0..MaxFaults
    BY <1>1, UpdaterAssumption DEF StartFails, UpdaterInv, UpdaterTypeOK
  <2> QED
    BY <2>1, RollBackKeeps
<1>2. CASE HealthFails(w)
  <2>1. PICK alive \in {proc, None} :
           exiting' = (exiting /\ alive # None) /\ RollBack(w, alive)
    BY <1>2 DEF HealthFails
  <2>2. /\ worker[w].pc = "started" /\ UNCHANGED <<newest, faults, overlap>>
        /\ exiting' \in BOOLEAN /\ faults' \in 0..MaxFaults
    BY <1>2, <2>1 DEF HealthFails, UpdaterInv, UpdaterTypeOK
  <2> QED
    BY <2>1, <2>2, RollBackKeeps
<1>3. CASE LaunchFails(w) \/ Copy(w) \/ Swap(w) \/ SwapFails(w) \/ StartNew(w) \/ HealthOk(w) \/ RestoreFails(w)
  BY <1>3, LaunchFailsKeeps, CopyKeeps, SwapKeeps, SwapFailsKeeps, StartNewKeeps, HealthOkKeeps,
     RestoreFailsKeeps
<1> QED
  BY <1>1, <1>2, <1>3 DEF WorkerStep

LEMMA UpdaterBegins == UpdaterInit => UpdaterInv
<1> SUFFICES ASSUME UpdaterInit PROVE UpdaterInv
  OBVIOUS
<1>1. /\ newest \in Versions \cap {1, 2} /\ disk = 1 /\ proc = 1
      /\ healthURL = TRUE /\ exiting = FALSE /\ rolling = None /\ faults = 0 /\ overlap = {}
      /\ worker = [w \in Workers |-> NoWorker]
  BY DEF UpdaterInit
<1>2. stored \in UpdateState /\ (stored.apply # None => stored.apply.backup # Mixed)
  <2>1. CASE stored = EmptyState
    BY <2>1, InitialResults
  <2>2. CASE newest = 2 /\ stored = [EmptyState EXCEPT !.download = 2]
    <3>1. 2 \in Versions
      BY <1>1, <2>2
    <3> QED
      BY <2>2, <3>1, InitialResults DEF UpdateState
  <2>3. CASE /\ newest = 2
             /\ stored = [EmptyState EXCEPT !.apply = [version |-> 2, backup |-> 1, applied |-> FALSE]]
    <3>1. [version |-> 2, backup |-> 1, applied |-> FALSE] \in Applies /\ Mixed # 1
      BY <1>1, <2>3, WholeVersions DEF Applies, Installed
    <3> QED
      BY <2>3, <3>1, InitialResults DEF UpdateState
  <2> QED
    BY <2>1, <2>2, <2>3 DEF UpdaterInit
<1>3. \A w \in Workers : worker[w] = NoWorker /\ worker[w].pc = "idle"
  BY <1>1, InitialResults
<1>4. worker \in [Workers -> WorkerStates]
  BY <1>1, InitialResults
<1>5. UpdaterTypeOK
  <2>1. /\ faults \in 0..MaxFaults /\ rolling = None
        /\ overlap \subseteq {"execute", "start", "restart", "rollback", "mixed"}
    BY <1>1, UpdaterAssumption
  <2>2. newest \in Versions /\ disk \in Installed /\ proc \in Versions \cup {None}
    BY <1>1, WholeVersions DEF Installed
  <2>3. healthURL \in BOOLEAN /\ exiting \in BOOLEAN
    BY <1>1
  <2> QED
    BY <1>2, <1>4, <2>1, <2>2, <2>3 DEF UpdaterTypeOK
<1>6. UpdaterKept
  BY <1>1, <1>2, <1>3, WholeVersions
  DEF UpdaterKept, OneWorker, ReplacesWhileDown, HistoryWhole, BackupsAreWhole, AtWork
<1> QED
  BY <1>5, <1>6 DEF UpdaterInv, UpdaterKept, BackupsAreWhole

----------------------------------------------------------------------------
(* The update page, and the handlers of the edge behind it.                *)
LEMMA RequestCalls ==
  ASSUME NEW h \in Loads \cup Actions, NEW what \in Reads \cup Actions, NEW arg
  PROVE  LET q == Request(h, what, arg) IN
         IsCall(q) /\ q.of = h /\ q.what = what /\ q.arg = arg /\ q.state = "sent"
BY DEF Request, IsCall

LEMMA ReadingCalls ==
  ASSUME NEW h \in Loads \cup Actions, NEW what \in Reads,
         NEW q \in {Request(h, what, None)}
  PROVE  UpdateCall(q, intent)
<1>1. IsCall(q) /\ q.what = what /\ q.state = "sent"
  BY RequestCalls
<1> QED
  BY <1>1 DEF UpdateCall, Reads, Actions

(* What becomes of a request.                                              *)
ServedCall(r, answer) == [r EXCEPT !.state = "served", !.answer = answer]
FailedCall(r) == [r EXCEPT !.state = "error", !.answer = None]

(* What a request says stays, and its answer is the one given.             *)
SameCall(q, r) == IsCall(q) /\ q.of = r.of /\ q.what = r.what /\ q.arg = r.arg

LEMMA CallServed ==
  ASSUME NEW r, IsCall(r), NEW answer, NEW q \in {ServedCall(r, answer)}
  PROVE  SameCall(q, r) /\ q.state = "served" /\ q.answer = answer
BY DEF IsCall, SameCall, ServedCall

LEMMA CallFails ==
  ASSUME NEW r, IsCall(r), NEW q \in {FailedCall(r)}
  PROVE  SameCall(q, r) /\ q.state = "error"
BY DEF IsCall, SameCall, FailedCall

LEMMA CallAnswered ==
  ASSUME PageInv, NEW r \in net, r.state \in {"sent", "served"},
         UNCHANGED <<shown, config, form, busy, run, clicks, typed, intent>>,
         NEW answer,
         \/ Failed(r)
         \/ /\ Served(r, answer)
            /\ r.what = "status" => answer["download"] \in Versions \cup {None}
            /\ r.what = "config" => answer \in Configs
            /\ r.what = "download" => answer \in Versions
  PROVE  PageInv'
<1>1. UpdateCall(r, intent) /\ IsCall(r)
  BY DEF PageInv, CallsHold, UpdateCall
<1>2. \A q \in net' : UpdateCall(q, intent)
  <2>1. CASE Failed(r)
    <3>1. net' = (net \ {r}) \cup {FailedCall(r)}
      BY <2>1 DEF Failed, FailedCall
    <3>2. \A q \in {FailedCall(r)} : SameCall(q, r) /\ q.state = "error"
      BY <1>1, CallFails
    <3>3. \A q \in {FailedCall(r)} : UpdateCall(q, intent)
      BY <1>1, <3>2 DEF SameCall, UpdateCall
    <3> QED
      BY <3>1, <3>3 DEF PageInv, CallsHold
  <2>2. CASE ~Failed(r)
    <3>1. net' = (net \ {r}) \cup {ServedCall(r, answer)}
      BY <2>2 DEF Served, ServedCall
    <3>2. \A q \in {ServedCall(r, answer)} :
            SameCall(q, r) /\ q.state = "served" /\ q.answer = answer
      BY <1>1, CallServed
    <3>3. \A q \in {ServedCall(r, answer)} : UpdateCall(q, intent)
      BY <1>1, <2>2, <3>2 DEF SameCall, UpdateCall
    <3> QED
      BY <3>1, <3>3 DEF PageInv, CallsHold
  <2> QED
    BY <2>1, <2>2
<1>3. PageTypeOK'
  BY <1>2 DEF PageInv, CallsHold, PageTypeOK, UpdateCall, IsCall
<1> QED
  BY <1>2, <1>3 DEF PageInv, CallsHold, ChangesTyped, Changed

LEMMA UpdaterRests == ASSUME UpdaterInv, UNCHANGED uvars PROVE UpdaterInv'
BY DEF uvars, UpdaterInv, UpdaterTypeOK, OneWorker, ReplacesWhileDown, HistoryWhole,
   BackupsAreWhole, AtWork

(* What a handler may read of the configuration.                           *)
LEMMA ReadableConfigs ==
  ASSUME conf \in Configs, NEW other, NEW seen \in Readable(conf, other, Standard)
  PROVE  seen \in Configs
BY FlowAssumption DEF Readable, Standard, Configs

LEMMA FlowServes == ASSUME FlowInv, NEW r \in net, Serve(r) PROVE FlowInv'
<1>1. /\ Serving /\ r.state = "sent" /\ UpdateCall(r, intent)
      /\ UNCHANGED <<shown, config, form, busy, run, clicks, edits, typed, intent, uses>>
      /\ PageInv /\ UpdaterInv /\ UpdaterTypeOK /\ conf \in Configs
      /\ drafts \in SavesOf(Configs) /\ NoSaves \in SavesOf(Configs)
  BY DEF Serve, FlowInv, FlowTypeOK, PageInv, CallsHold, NoSaves, SavesOf
<1>2. UpdaterInv' /\ conf' \in Configs /\ PageInv' /\ drafts' \in SavesOf(Configs)
  <2>1. CASE ServeRead(r)
    <3>1. UNCHANGED <<conf, drafts>> /\ UpdaterInv'
      BY <1>1, <2>1, UpdaterRests DEF ServeRead
    <3>2. StatusAnswer["download"] \in Versions \cup {None}
      BY <1>1 DEF StatusAnswer, UpdaterTypeOK, UpdateState
    <3>3. PageInv'
      <4>1. CASE r.what = "check"
        BY <1>1, <2>1, <4>1, CallAnswered DEF ServeRead
      <4>2. CASE r.what = "status"
        BY <1>1, <2>1, <3>2, <4>2, CallAnswered DEF ServeRead
      <4>3. CASE r.what = "config"
        <5>1. PICK seen \in Configs : Served(r, seen)
          BY <1>1, <2>1, <4>3, ReadableConfigs DEF ServeRead
        <5> QED
          BY <1>1, <4>3, <5>1, CallAnswered
      <4> QED
        BY <2>1, <4>1, <4>2, <4>3 DEF ServeRead, Reads
    <3> QED
      BY <1>1, <3>1, <3>3
  <2>2. CASE SaveBegins(r)
    <3>1. r.what = "save" /\ UNCHANGED <<uvars, net, conf>>
      BY <2>2 DEF SaveBegins
    <3>2. PICK seen \in Configs : drafts' = OursRead(drafts, seen, conf, r.arg)
      BY <1>1, <2>2, ReadableConfigs DEF SaveBegins
    <3>3. \A f \in DOMAIN r.arg : r.arg[f] \in Entries
      BY <1>1, <3>1 DEF UpdateCall
    <3>4. drafts' \in SavesOf(Configs)
      BY <1>1, <3>2, <3>3, OursReads DEF Configs
    <3>5. PageInv'
      BY <1>1, <3>1 DEF PageInv, CallsHold, PageTypeOK, ChangesTyped, Changed
    <3> QED
      BY <1>1, <3>1, <3>4, <3>5, UpdaterRests
  <2>3. CASE SaveEnds(r)
    <3>1. /\ r.what = "save" /\ UpdateConfig /\ Served(r, "ok")
          /\ UNCHANGED <<newest, disk, proc, stored, exiting, worker, rolling, faults, overlap>>
          /\ drafts.ours # None /\ conf' = drafts.ours /\ drafts' = OursDone(drafts)
      BY <2>3 DEF SaveEnds
    <3>2. conf' \in Configs /\ drafts' \in SavesOf(Configs)
      BY <1>1, <3>1 DEF SavesOf, OursDone
    <3> QED
      BY <1>1, <3>1, <3>2, ConfigKeeps, CallAnswered
  <2>4. CASE CutShort /\ UNCHANGED conf /\ UpdaterInv' /\ PageInv'
    BY <1>1, <2>4 DEF CutShort
  <2>5. CASE ServeDownload(r)
    <3>1. newest \in Versions
      BY <1>1 DEF UpdaterTypeOK
    <3>2. UpdaterInv' /\ PageInv'
      BY <1>1, <2>5, <3>1, DownloadKeeps, CallAnswered DEF ServeDownload
    <3>3. r.what = "download"
      BY <2>5 DEF ServeDownload
    <3> QED
      BY <2>4, <3>2, <3>3 DEF Serve, ServeRead, SaveBegins, SaveEnds, Reads
  <2>6. CASE ServeApply(r)
    <3>1. r.what = "apply" /\ r.arg \in Versions
      BY <1>1, <2>6 DEF ServeApply, UpdateCall
    <3>2. UpdaterInv' /\ PageInv'
      BY <1>1, <2>6, <3>1, ApplyKeeps, CallAnswered DEF ServeApply
    <3> QED
      BY <2>4, <3>1, <3>2 DEF Serve, ServeRead, SaveBegins, SaveEnds, Reads
  <2>7. CASE ServeExecute(r)
    <3>1. r.what = "execute" /\ r.arg \in Versions
      BY <1>1, <2>7 DEF ServeExecute, UpdateCall
    <3>2. UpdaterInv' /\ PageInv'
      BY <1>1, <2>7, <3>1, ExecuteKeeps, CallAnswered DEF ServeExecute
    <3> QED
      BY <2>4, <3>1, <3>2 DEF Serve, ServeRead, SaveBegins, SaveEnds, Reads
  <2>8. CASE ServeRefusal(r)
    <3>1. /\ r.what \in {"download", "apply", "execute"} /\ Failed(r)
          /\ UNCHANGED uvars \/ (r.what = "execute" /\ ApplyDownloaded(r.arg))
      BY <2>8 DEF ServeRefusal
    <3>2. r.what = "execute" => r.arg \in Versions
      BY <1>1 DEF UpdateCall
    <3>3. UpdaterInv' /\ PageInv'
      BY <1>1, <3>1, <3>2, UpdaterRests, ApplyKeeps, CallAnswered
    <3> QED
      BY <2>4, <3>1, <3>3 DEF Serve, ServeRead, SaveBegins, SaveEnds, Reads
  <2>9. CASE ServeRollback(r)
    <3>1. r.what = "rollback"
      BY <2>9 DEF ServeRollback
    <3>2. UpdaterInv'
      BY <1>1, <2>9, UpdaterRests, RollbackBeginsKeeps, RollbackEndsKeeps, RollbackFailsKeeps
      DEF ServeRollback
    <3>3. PageInv'
      <4>1. CASE UNCHANGED net
        BY <1>1, <4>1 DEF PageInv, CallsHold, PageTypeOK, ChangesTyped, Changed
      <4>2. CASE Failed(r) \/ Served(r, disk')
        BY <1>1, <3>1, <4>2, CallAnswered
      <4> QED
        BY <2>9, <4>1, <4>2 DEF ServeRollback
    <3> QED
      BY <2>4, <3>1, <3>2, <3>3 DEF Serve, ServeRead, SaveBegins, SaveEnds, Reads
  <2>10. CASE ServeRestart(r)
    <3>1. r.what \in {"plan", "restart"} /\ Served(r, stored'.restart)
      BY <2>10 DEF ServeRestart
    <3>2. UpdaterInv'
      <4>1. CASE r.what = "restart"
        <5>1. Restart(TRUE)
          BY <2>10, <4>1 DEF ServeRestart, Restart
        <5> QED
          BY <1>1, <5>1, RestartKeeps
      <4>2. CASE r.what # "restart"
        <5>1. Restart(FALSE)
          BY <2>10, <4>2 DEF ServeRestart, Restart
        <5> QED
          BY <1>1, <5>1, RestartKeeps
      <4> QED
        BY <4>1, <4>2
    <3>3. PageInv'
      BY <1>1, <3>1, CallAnswered
    <3> QED
      BY <2>4, <3>1, <3>2, <3>3 DEF Serve, ServeRead, SaveBegins, SaveEnds, Reads
  <2> QED
    BY <2>1, <2>2, <2>3, <2>5, <2>6, <2>7, <2>8, <2>9, <2>10 DEF Serve
<1>3. FlowTypeOK'
  BY <1>1, <1>2 DEF FlowInv, FlowTypeOK, UpdaterInv, PageInv, CallsHold
<1> QED
  BY <1>2, <1>3 DEF FlowInv

(* A request lost on the way, or its answer.                               *)
LEMMA FlowLoses == ASSUME FlowInv, NEW r \in net, Lost(r) PROVE FlowInv'
<1>1. /\ r.state \in {"sent", "served"} /\ Failed(r)
      /\ UNCHANGED <<uvars, shown, config, form, busy, run, clicks, conf, drafts,
                     edits, typed, intent, uses>>
      /\ PageInv /\ UpdaterInv
  BY DEF Lost, FlowInv
<1>2. PageInv'
  BY <1>1, CallAnswered
<1>3. UpdaterInv'
  BY <1>1, UpdaterRests
<1> QED
  BY <1>1, <1>2, <1>3 DEF FlowInv, FlowTypeOK, UpdaterInv, PageInv, CallsHold

LEMMA OtherReadsKeeps ==
  ASSUME FlowInv, OtherReads
  PROVE  /\ FlowInv' /\ UNCHANGED <<net, conf, intent>>
         /\ drafts'.ours = drafts.ours /\ drafts'.crossed = drafts.crossed
<1>1. /\ UpdaterInv /\ PageInv /\ conf \in Configs /\ edits \in 0..MaxEdits /\ edits < MaxEdits
      /\ edits' = edits + 1 /\ drafts \in SavesOf(Configs)
      /\ UNCHANGED <<uvars, pvars, conf, typed, intent, uses>>
  BY DEF OtherReads, FlowInv, FlowTypeOK
<1>2. PICK seen \in Configs, f \in Fields, v \in Entries :
        drafts' = TheirsRead(drafts, seen, [g \in {f} |-> v])
  BY <1>1, ReadableConfigs DEF OtherReads
<1> DEFINE part == [g \in {f} |-> v]
<1>7. drafts' = TheirsRead(drafts, seen, part) /\ Merged(seen, part) \in Configs
  BY <1>2 DEF Merged, Configs
<1> HIDE DEF part
<1>3. /\ drafts' \in SavesOf(Configs)
      /\ drafts'.ours = drafts.ours /\ drafts'.crossed = drafts.crossed
  BY <1>1, <1>7, TheirsReads
<1>4. UpdaterInv'
  BY <1>1, UpdaterRests
<1>5. PageInv' /\ UNCHANGED net
  BY <1>1 DEF pvars, PageInv, CallsHold, PageTypeOK, ChangesTyped, Changed
<1>6. edits' \in 0..MaxEdits
  BY <1>1, FlowAssumption
<1> QED
  BY <1>1, <1>3, <1>4, <1>5, <1>6
  DEF FlowInv, FlowTypeOK, UpdaterInv, PageInv, CallsHold

LEMMA OtherWritesKeeps ==
  ASSUME FlowInv, OtherWrites
  PROVE  /\ FlowInv' /\ UNCHANGED <<net, intent>>
         /\ drafts'.ours = drafts.ours /\ (drafts.ours # None => drafts'.crossed)
         /\ drafts'.theirs # drafts.theirs
<1>1. /\ UpdaterInv /\ PageInv /\ edits \in 0..MaxEdits /\ drafts \in SavesOf(Configs)
      /\ drafts.theirs # None /\ conf' = drafts.theirs /\ drafts' = TheirsDone(drafts)
      /\ UpdateConfig
      /\ UNCHANGED <<newest, disk, proc, stored, exiting, worker, rolling, faults, overlap,
                     pvars, edits, typed, intent, uses>>
  BY DEF OtherWrites, FlowInv, FlowTypeOK
<1>2. /\ conf' \in Configs /\ drafts' \in SavesOf(Configs) /\ drafts'.theirs = None
      /\ drafts'.ours = drafts.ours /\ (drafts.ours # None => drafts'.crossed)
  BY <1>1 DEF SavesOf, TheirsDone
<1>3. UpdaterInv'
  BY <1>1, ConfigKeeps
<1>4. PageInv' /\ UNCHANGED net
  BY <1>1 DEF pvars, PageInv, CallsHold, PageTypeOK, ChangesTyped, Changed
<1> QED
  BY <1>1, <1>2, <1>3, <1>4
  DEF FlowInv, FlowTypeOK, UpdaterInv, PageInv, CallsHold

(* What the update page itself keeps.                                      *)
LEMMA PageMoves ==
  ASSUME FlowInv, PageInv', UNCHANGED <<uvars, conf, drafts, edits, uses>>,
         typed' \subseteq Fields, intent' \subseteq Fields
  PROVE  FlowInv'
<1>1. UpdaterInv'
  BY UpdaterRests DEF FlowInv
<1> QED
  BY <1>1 DEF FlowInv, FlowTypeOK, UpdaterInv, PageInv, CallsHold

LEMMA TypesKeeps == ASSUME FlowInv, Types PROVE FlowInv'
<1>1. PICK f \in Fields, v \in Entries :
        /\ form' = [form EXCEPT ![f] = v] /\ typed' = typed \cup {f}
        /\ UNCHANGED <<uvars, conf, drafts, edits, intent, uses, shown, config, busy, run, net, clicks>>
  BY DEF Types, Edit
<1>2. PageInv /\ form \in Configs /\ typed \subseteq Fields /\ intent \subseteq Fields
  BY DEF FlowInv, FlowTypeOK, PageInv, CallsHold, PageTypeOK
<1>3. CallsHold'
  BY <1>1, <1>2 DEF PageInv, CallsHold, PageTypeOK, Configs
<1>4. ChangesTyped'
  BY <1>1, <1>2 DEF PageInv, ChangesTyped, Changed, Configs
<1> QED
  BY <1>1, <1>2, <1>3, <1>4, PageMoves DEF PageInv

(* A button pressed: a save sends what the user changed, and the version   *)
(* an apply or an execute asks for is the one shown as downloaded.         *)
LEMMA PressesKeeps == ASSUME FlowInv, Presses PROVE FlowInv'
<1>1. PICK h \in Actions :
        /\ clicks < MaxClicks /\ NoRest(h) /\ Enabled(h)
        /\ busy' = busy \cup {FlagOf[h]}
        /\ run' = [run EXCEPT ![h] = "asked"]
        /\ net' = net \cup {Request(h, h, ArgOf(h))}
        /\ clicks' = clicks + 1
        /\ intent' = IF h = "save" THEN typed ELSE intent
        /\ UNCHANGED <<uvars, conf, drafts, edits, typed, uses, shown, config, form>>
  BY DEF Presses, Press
<1>2. PageInv /\ CallsHold /\ PageTypeOK /\ ChangesTyped /\ typed \subseteq Fields /\ intent \subseteq Fields
  BY DEF FlowInv, FlowTypeOK, PageInv, CallsHold
<1>3. \A q \in {Request(h, h, ArgOf(h))} :
        IsCall(q) /\ q.of = h /\ q.what = h /\ q.arg = ArgOf(h) /\ q.state = "sent"
  <2>1. h \in Loads \cup Actions /\ h \in Reads \cup Actions
    BY <1>1
  <2> QED
    BY <2>1, RequestCalls
<1>4. h \in {"apply", "execute"} => ArgOf(h) \in Versions
  BY <1>1, <1>2 DEF Enabled, ArgOf, PageTypeOK
<1>5. h = "save" => /\ DOMAIN ArgOf(h) \subseteq typed
                    /\ \A f \in DOMAIN ArgOf(h) : ArgOf(h)[f] \in Entries
  BY <1>1, <1>2 DEF Enabled, ArgOf, ChangesTyped, Changed, PageTypeOK, Configs
<1>6. \A q \in {Request(h, h, ArgOf(h))} : UpdateCall(q, intent')
  BY <1>1, <1>3, <1>4, <1>5 DEF UpdateCall
<1>7. ASSUME NEW q \in net PROVE UpdateCall(q, intent')
  BY <1>1, <1>2 DEF NoRest, CallsHold, UpdateCall, Actions
<1>8. \A q \in net' : UpdateCall(q, intent')
  BY <1>1, <1>6, <1>7
<1>9. PageTypeOK'
  <2>1. busy' \subseteq Flags /\ clicks' \in 0..MaxClicks
    BY <1>1, <1>2, PageAssumption DEF PageTypeOK, Flags, FlagOf, Actions
  <2>2. run' \in [Loads \cup Actions -> {"no", "asked", "loading", "failed", "reload"}]
    BY <1>1, <1>2 DEF PageTypeOK
  <2> QED
    BY <1>1, <1>2, <1>8, <2>1, <2>2 DEF PageTypeOK, UpdateCall, IsCall
<1>10. CallsHold'
  BY <1>1, <1>2, <1>8, <1>9 DEF CallsHold, PageTypeOK
<1>11. ChangesTyped'
  BY <1>1, <1>2 DEF ChangesTyped, Changed
<1> QED
  BY <1>1, <1>2, <1>10, <1>11, PageMoves DEF PageInv

(* The answers, as the page looks at them.                                 *)
LEMMA FewerCalls ==
  ASSUME PageInv, NEW S, S \subseteq net, net' = S, UNCHANGED intent
  PROVE  \A q \in net' : UpdateCall(q, intent')
BY DEF PageInv, CallsHold

LEMMA LoadCalls ==
  ASSUME NEW h \in Loads \cup Actions
  PROVE  \A q \in LoadRequests(h) : UpdateCall(q, intent)
<1>1. LoadRequests(h) =
        {Request(h, "check", None), Request(h, "status", None), Request(h, "config", None)}
  BY DEF LoadRequests
<1>2. "check" \in Reads /\ "status" \in Reads /\ "config" \in Reads
  BY DEF Reads
<1> QED
  BY <1>1, <1>2, ReadingCalls

(* What a handler shows has its type.                                      *)
LEMMA ActionAnsweredKeeps ==
  ASSUME PageInv, NEW r \in net, ActionAnswered(r), UNCHANGED intent
  PROVE  CallsHold' /\ UNCHANGED <<config, form>>
<1>1. /\ r.what \in Actions /\ r.of = r.what /\ r.state # "sent" /\ UpdateCall(r, intent)
      /\ r.state # "done" /\ r.state \in {"served", "error"}
      /\ PageTypeOK /\ CallsHold
      /\ UNCHANGED <<config, form, clicks>>
  BY DEF ActionAnswered, PageInv, CallsHold, UpdateCall, IsCall, Actions
<1>2. /\ DOMAIN shown' = Kinds /\ shown'["download"] \in Versions \cup {None}
  BY <1>1 DEF ActionAnswered, ShownAfter, PageTypeOK, Kinds, UpdateCall, Actions
<1>3. busy' \subseteq Flags
  BY <1>1 DEF ActionAnswered, PageTypeOK, Flags
<1>4. /\ run' \in [Loads \cup Actions -> {"no", "asked", "loading", "failed", "reload"}]
      /\ \A h \in Loads \cup Actions : run'[h] = "reload" => h \in {"rollback", "plan", "restart"}
  BY <1>1 DEF ActionAnswered, PageTypeOK, CallsHold
<1>5. \A q \in net' : UpdateCall(q, intent)
  <2>1. r.of \in Loads \cup Actions
    BY <1>1
  <2>2. \A q \in LoadRequests(r.of) : UpdateCall(q, intent)
    BY <2>1, LoadCalls
  <2>3. "status" \in Reads
    BY DEF Reads
  <2>4. \A q \in {Request(r.of, "status", None)} : UpdateCall(q, intent)
    BY <2>1, <2>3, ReadingCalls
  <2>5. \/ net' = net \ {r} \/ net' = {q \in net : q.of # r.of} \cup LoadRequests(r.of)
        \/ net' = (net \ {r}) \cup {Request(r.of, "status", None)}
    BY DEF ActionAnswered
  <2> QED
    BY <1>1, <2>2, <2>4, <2>5 DEF CallsHold
<1> QED
  BY <1>1, <1>2, <1>3, <1>4, <1>5 DEF CallsHold, PageTypeOK, UpdateCall, IsCall

LEMMA StatusReloadedKeeps ==
  ASSUME PageInv, NEW r \in net, StatusReloaded(r), UNCHANGED intent
  PROVE  CallsHold' /\ UNCHANGED <<config, form>>
<1>1. /\ r.what = "status" /\ r.state \in {"served", "error"} /\ UpdateCall(r, intent)
      /\ PageTypeOK /\ CallsHold
      /\ shown' = IF r.state = "error" THEN shown ELSE Refreshed(r.answer)
      /\ busy' = busy \ {FlagOf[r.of]} /\ run' = [run EXCEPT ![r.of] = "no"] /\ net' = net \ {r}
      /\ UNCHANGED <<config, form, clicks>>
  BY DEF StatusReloaded, PageInv, CallsHold, UpdateCall, IsCall, Loads
<1>2. /\ DOMAIN shown' = Kinds /\ shown'["download"] \in Versions \cup {None}
  BY <1>1 DEF Refreshed, PageTypeOK, Kinds, UpdateCall
<1>3. \A q \in net' : UpdateCall(q, intent)
  BY <1>1 DEF CallsHold
<1> QED
  BY <1>1, <1>2, <1>3 DEF CallsHold, PageTypeOK, UpdateCall, IsCall

DoneCall(r) == [r EXCEPT !.state = "done", !.answer = None]

LEMMA CallDone ==
  ASSUME NEW r, IsCall(r), NEW q \in {DoneCall(r)}
  PROVE  SameCall(q, r) /\ q.state = "done"
BY DEF IsCall, SameCall, DoneCall

LEMMA LoadAnsweredKeeps ==
  ASSUME PageInv, NEW r \in net, LoadAnswered(r), UNCHANGED intent
  PROVE  CallsHold' /\ (UNCHANGED <<config, form>> \/ config' = form')
<1>1. /\ r.what \in {"status", "config"} /\ r.of \in Loads /\ r.state = "served"
      /\ UpdateCall(r, intent) /\ IsCall(r) /\ PageTypeOK /\ CallsHold
      /\ UNCHANGED <<busy, run, clicks>>
      /\ \/ r.what = "status" /\ shown' = Refreshed(r.answer) /\ UNCHANGED <<config, form>>
         \/ r.what = "config" /\ config' = r.answer /\ form' = r.answer /\ UNCHANGED shown
      /\ \/ net' = (net \ {r}) \cup {DoneCall(r)}
         \/ net' = net \ {r}
  BY DEF LoadAnswered, DoneCall, PageInv, CallsHold, UpdateCall
<1>2. /\ DOMAIN shown' = Kinds /\ shown'["download"] \in Versions \cup {None}
  BY <1>1 DEF Refreshed, PageTypeOK, Kinds, UpdateCall
<1>3. \A q \in {DoneCall(r)} : SameCall(q, r) /\ q.state = "done"
  BY <1>1, CallDone
<1>4. \A q \in {DoneCall(r)} : UpdateCall(q, intent)
  BY <1>1, <1>3 DEF SameCall, UpdateCall
<1>5. \A q \in net' : UpdateCall(q, intent)
  BY <1>1, <1>4 DEF CallsHold
<1>6. config' \in Configs \cup {None} /\ form' \in Configs
  BY <1>1 DEF PageTypeOK, UpdateCall
<1> QED
  BY <1>1, <1>2, <1>5, <1>6 DEF CallsHold, PageTypeOK, UpdateCall, IsCall

(* The end of a load.                                                      *)
LEMMA LoadEndsKeeps ==
  ASSUME PageInv, NEW h \in Loads \cup Actions, UNCHANGED <<config, form, clicks, intent>>,
         busy' = FlagsAfterLoad(h), run' = [run EXCEPT ![h] = "no"], net' \subseteq net,
         DOMAIN shown' = Kinds, shown'["download"] = shown["download"]
  PROVE  CallsHold'
<1>1. \A q \in net' : UpdateCall(q, intent)
  BY DEF PageInv, CallsHold
<1> QED
  BY <1>1 DEF PageInv, CallsHold, PageTypeOK, FlagsAfterLoad, UpdateCall, IsCall

LEMMA ShowsKeeps == ASSUME FlowInv, Shows PROVE FlowInv'
<1>1. /\ PageInv /\ CallsHold /\ PageTypeOK /\ typed \subseteq Fields /\ intent \subseteq Fields
      /\ UNCHANGED <<uvars, conf, drafts, edits, intent, uses>>
      /\ typed' = IF config' # config \/ form' # form THEN {} ELSE typed
  BY DEF FlowInv, FlowTypeOK, PageInv, CallsHold, Shows
<1>2. CallsHold' /\ (UNCHANGED <<config, form>> \/ config' = form')
  <2>1. ASSUME NEW r \in net, Answered(r)
        PROVE  CallsHold' /\ (UNCHANGED <<config, form>> \/ config' = form')
    <3>1. CASE ReloadFails(r)
      <4>1. r.of \in Loads \cup Actions
        BY <1>1 DEF PageTypeOK
      <4> QED
        BY <1>1, <3>1, <4>1, LoadEndsKeeps DEF ReloadFails, PageTypeOK
    <3>2. CASE Ignored(r)
      <4>1. \A q \in net' : UpdateCall(q, intent)
        BY <1>1, <3>2 DEF Ignored, CallsHold
      <4> QED
        BY <1>1, <3>2, <4>1 DEF Ignored, CallsHold, PageTypeOK, UpdateCall, IsCall
    <3> QED
      BY <1>1, <2>1, <3>1, <3>2, ActionAnsweredKeeps, StatusReloadedKeeps,
         LoadAnsweredKeeps
      DEF Answered
  <2>2. ASSUME NEW h \in Loads, LoadDone(h) PROVE CallsHold' /\ UNCHANGED <<config, form>>
    <3>1. /\ busy' = FlagsAfterLoad(h) /\ run' = [run EXCEPT ![h] = "no"] /\ net' \subseteq net
          /\ UNCHANGED <<config, form, clicks>>
          /\ \E x : shown' = [shown EXCEPT !["check"] = x]
      BY <2>2 DEF LoadDone
    <3>2. DOMAIN shown' = Kinds /\ shown'["download"] = shown["download"]
      BY <1>1, <3>1 DEF PageTypeOK, Kinds
    <3> QED
      BY <1>1, <3>1, <3>2, LoadEndsKeeps
  <2>3. CASE clicks < uses.clicks /\ Refresh
    <3>1. /\ clicks < MaxClicks /\ busy' = busy \cup {"checking"}
          /\ run' = [run EXCEPT !["refresh"] = "loading"]
          /\ net' = net \cup LoadRequests("refresh") /\ clicks' = clicks + 1
          /\ UNCHANGED <<shown, config, form>>
      BY <2>3 DEF Refresh
    <3>2. "refresh" \in Loads \cup Actions
      BY DEF Loads
    <3>3. \A q \in LoadRequests("refresh") : UpdateCall(q, intent)
      BY <3>2, LoadCalls
    <3>4. \A q \in net' : UpdateCall(q, intent)
      BY <1>1, <3>1, <3>3 DEF CallsHold
    <3>5. /\ run' \in [Loads \cup Actions -> {"no", "asked", "loading", "failed", "reload"}]
          /\ \A h \in Loads \cup Actions : run'[h] = "reload" => h \in {"rollback", "plan", "restart"}
      BY <1>1, <3>1 DEF CallsHold, PageTypeOK
    <3>6. busy' \subseteq Flags /\ clicks' \in 0..MaxClicks
      BY <1>1, <3>1, PageAssumption DEF PageTypeOK, Flags
    <3> QED
      BY <1>1, <3>1, <3>4, <3>5, <3>6 DEF CallsHold, PageTypeOK, UpdateCall, IsCall
  <2> QED
    BY <2>1, <2>2, <2>3 DEF Shows
<1>3. ChangesTyped'
  BY <1>1, <1>2 DEF PageInv, ChangesTyped, Changed
<1> QED
  BY <1>1, <1>2, <1>3, PageMoves DEF PageInv

(* The updater and its workers, while the page waits.                      *)
LEMMA MachineKeeps == ASSUME FlowInv, Machine PROVE FlowInv'
<1>1. /\ UpdaterInv /\ PageInv /\ UNCHANGED <<pvars, conf, edits, typed, intent, uses>>
      /\ drafts' \in {drafts, NoSaves} /\ drafts \in SavesOf(Configs)
  BY DEF FlowInv, FlowTypeOK, Machine, CutShort
<1>2. UpdaterInv'
  BY <1>1, PublishKeeps, ExitKeeps, StartKeeps, WorkerKeeps DEF Machine
<1>3. PageInv'
  BY <1>1 DEF pvars, PageInv, CallsHold, PageTypeOK, ChangesTyped, Changed
<1>4. drafts' \in SavesOf(Configs)
  <2>1. NoSaves \in SavesOf(Configs)
    BY DEF SavesOf, NoSaves
  <2> QED
    BY <1>1, <2>1
<1> QED
  BY <1>1, <1>2, <1>3, <1>4 DEF FlowInv, FlowTypeOK, UpdaterInv, PageInv, CallsHold

(* The save of the page, while requests are served, lost and looked at:    *)
(* what happens to another request leaves it where it is.                  *)
LEMMA DraftRests ==
  ASSUME DraftInv, UNCHANGED <<conf, intent>>,
         drafts' \in {drafts, NoSaves},
         \A q \in net' : q.what = "save" => q \in net,
         \A q \in net : q.what = "save" /\ q.state = "sent" => q \in net'
  PROVE  DraftInv'
BY DEF DraftInv, OneSaveCall, DraftUnderWay, Drafted, NoSaves

LEMMA DraftAnswered ==
  ASSUME FlowInv, DraftInv, NEW r \in net, NEW answer, Failed(r) \/ Served(r, answer),
         UNCHANGED <<conf, intent>>,
         \/ drafts' \in {drafts, NoSaves} /\ (r.what # "save" \/ r.state # "sent")
         \/ drafts'.ours = None
  PROVE  DraftInv'
<1>1. UpdateCall(r, intent) /\ IsCall(r)
  BY DEF FlowInv, PageInv, CallsHold, UpdateCall
<1>2. PICK new : net' = (net \ {r}) \cup {new} /\ new.what = r.what
  <2>1. CASE Failed(r)
    <3>1. net' = (net \ {r}) \cup {FailedCall(r)}
      BY <2>1 DEF Failed, FailedCall
    <3> QED
      BY <1>1, <3>1, CallFails DEF SameCall
  <2>2. CASE Served(r, answer)
    <3>1. net' = (net \ {r}) \cup {ServedCall(r, answer)}
      BY <2>2 DEF Served, ServedCall
    <3> QED
      BY <1>1, <3>1, CallServed DEF SameCall
  <2> QED
    BY <2>1, <2>2
<1>3. OneSaveCall(net')
  BY <1>2 DEF DraftInv, OneSaveCall
<1>4. DraftUnderWay(net)'
  BY <1>2 DEF DraftInv, DraftUnderWay, NoSaves
<1>5. Drafted(drafts, conf, intent)'
  BY DEF DraftInv, Drafted, NoSaves
<1> QED
  BY <1>3, <1>4, <1>5 DEF DraftInv

LEMMA DraftServes ==
  ASSUME FlowInv, DraftInv, NEW r \in net, Serve(r)
  PROVE  /\ DraftInv'
         /\ ~drafts.crossed => \A f \in Fields : conf'[f] # conf[f] => f \in intent
<1>1. /\ r.state = "sent" /\ UpdateCall(r, intent) /\ conf \in Configs /\ UNCHANGED intent
      /\ drafts \in SavesOf(Configs)
  BY DEF Serve, FlowInv, FlowTypeOK, PageInv, CallsHold
<1>2. CASE SaveBegins(r)
  <2>1. r.what = "save" /\ UNCHANGED <<net, conf>>
    BY <1>2 DEF SaveBegins
  <2>2. PICK seen \in Configs : drafts' = OursRead(drafts, seen, conf, r.arg)
    BY <1>1, <1>2, ReadableConfigs DEF SaveBegins
  <2>3. DOMAIN r.arg \subseteq intent /\ \A f \in DOMAIN r.arg : r.arg[f] \in Entries
    BY <1>1, <2>1 DEF UpdateCall
  <2>4. Drafted(drafts', conf, intent)
    BY <1>1, <2>2, <2>3, OursReads DEF Configs
  <2>5. DraftUnderWay(net)'
    BY <1>1, <2>1 DEF DraftUnderWay
  <2> QED
    BY <1>1, <2>1, <2>4, <2>5 DEF DraftInv, OneSaveCall
<1>3. CASE SaveEnds(r)
  <2>1. /\ r.what = "save" /\ Served(r, "ok") /\ drafts.ours # None
        /\ conf' = drafts.ours /\ drafts' = OursDone(drafts)
    BY <1>3 DEF SaveEnds
  <2>2. drafts'.ours = None /\ DOMAIN conf = Fields
    BY <1>1, <2>1 DEF SavesOf, OursDone, Configs
  <2>3. UpdateCall(r, intent) /\ IsCall(r)
    BY <1>1 DEF UpdateCall
  <2>4. net' = (net \ {r}) \cup {ServedCall(r, "ok")} /\ ServedCall(r, "ok").what = "save"
    BY <2>1, <2>3, CallServed DEF Served, ServedCall, SameCall
  <2>5. OneSaveCall(net')
    BY <2>1, <2>4 DEF DraftInv, OneSaveCall
  <2>6. DraftInv'
    BY <2>2, <2>5 DEF DraftInv, DraftUnderWay, Drafted
  <2>7. ~drafts.crossed => \A f \in Fields : conf'[f] # conf[f] => f \in intent
    BY <2>1, <2>2 DEF DraftInv, Drafted
  <2> QED
    BY <2>6, <2>7
<1>4. CASE ~(SaveBegins(r) \/ SaveEnds(r))
  <2>1. UNCHANGED conf /\ drafts' \in {drafts, NoSaves} /\ r.what # "save"
    BY <1>4 DEF Serve, ServeRead, CutShort, ServeDownload, ServeApply, ServeExecute,
       ServeRefusal, ServeRollback, ServeRestart, Reads
  <2>2. UNCHANGED net \/ Failed(r) \/ \E answer : Served(r, answer)
    BY <1>4 DEF Serve, ServeRead, ServeDownload, ServeApply, ServeExecute,
       ServeRefusal, ServeRollback, ServeRestart
  <2>3. CASE UNCHANGED net
    BY <1>1, <2>1, <2>3, DraftRests
  <2>4. CASE Failed(r) \/ \E answer : Served(r, answer)
    BY <1>1, <2>1, <2>4, DraftAnswered
  <2> QED
    BY <2>1, <2>2, <2>3, <2>4
<1> QED
  BY <1>2, <1>3, <1>4

LEMMA DraftLost == ASSUME FlowInv, DraftInv, NEW r \in net, Lost(r) PROVE DraftInv' /\ conf' = conf
<1>1. /\ Failed(r) /\ UNCHANGED <<conf, drafts, intent>>
      /\ r.state = "sent" /\ r.what = "save" => drafts.ours = None
  BY DEF Lost, InTheMiddle
<1> QED
  BY <1>1, DraftAnswered

LEMMA DraftPressed == ASSUME FlowInv, DraftInv, Presses PROVE DraftInv' /\ conf' = conf
<1>1. PICK h \in Actions :
        /\ NoRest(h) /\ net' = net \cup {Request(h, h, ArgOf(h))}
        /\ intent' = (IF h = "save" THEN typed ELSE intent)
        /\ UNCHANGED <<conf, drafts>>
  BY DEF Presses, Press
<1> DEFINE new == Request(h, h, ArgOf(h))
<1>2. net' = net \cup {new} /\ new.what = h
  BY <1>1 DEF Request
<1> HIDE DEF new
<1>3. CASE h = "save"
  <2>1. \A q \in net : q.what # "save"
    BY <1>1, <1>3 DEF NoRest, FlowInv, PageInv, CallsHold, UpdateCall, Actions
  <2>2. drafts.ours = None
    BY <2>1 DEF DraftInv, DraftUnderWay
  <2> QED
    BY <1>1, <1>2, <2>1, <2>2 DEF DraftInv, OneSaveCall, DraftUnderWay, Drafted
<1>4. CASE h # "save"
  BY <1>1, <1>2, <1>4, DraftRests
<1> QED
  BY <1>3, <1>4

(* The answers the page looks at are no save under way.                    *)
LEMMA DraftShown == ASSUME FlowInv, DraftInv, Shows PROVE DraftInv' /\ conf' = conf
<1>1. /\ UNCHANGED <<conf, drafts, intent>>
      /\ \A q \in net : UpdateCall(q, intent) /\ IsCall(q)
  BY DEF Shows, FlowInv, PageInv, CallsHold, UpdateCall
<1> DEFINE Brought(h) == LoadRequests(h)
<1>2. \A h : \A q \in Brought(h) : q.what # "save"
  BY DEF LoadRequests, Request
<1>3. \A h : Request(h, "status", None).what # "save"
  BY DEF Request
<1>4. \A q \in net : q.what = "save" => q.of = "save"
  BY <1>1 DEF UpdateCall, Actions
<1> HIDE DEF Brought
<1>5. ASSUME NEW r \in net, ActionAnswered(r) PROVE DraftInv'
  <2>1. /\ r.state # "sent" /\ r.what \in Actions /\ r.of = r.what
        /\ \/ net' = net \ {r}
           \/ r.of \in {"save", "download"} /\ net' = {q \in net : q.of # r.of} \cup Brought(r.of)
           \/ net' = (net \ {r}) \cup {Request(r.of, "status", None)}
    BY <1>1, <1>5 DEF ActionAnswered, UpdateCall, Brought
  <2>2. \A q \in net : q.what = "save" /\ q.state = "sent" => q \in net'
    BY <1>4, <2>1 DEF DraftInv, OneSaveCall
  <2>3. \A q \in net' : q.what = "save" => q \in net
    BY <1>2, <1>3, <2>1
  <2> QED
    BY <1>1, <2>2, <2>3, DraftRests
<1>6. ASSUME NEW r \in net, StatusReloaded(r) \/ ReloadFails(r) \/ Ignored(r) PROVE DraftInv'
  <2>1. /\ r.state # "sent" /\ net' \subseteq net
        /\ \A q \in net : q.what = "save" /\ q.state = "sent" => q \in net'
    BY <1>6 DEF StatusReloaded, ReloadFails, Ignored
  <2> QED
    BY <1>1, <2>1, DraftRests
<1>7. ASSUME NEW r \in net, LoadAnswered(r) PROVE DraftInv'
  <2>1. /\ r.state # "sent" /\ r.what \in {"status", "config"}
        /\ net' = net \ {r} \/ net' = (net \ {r}) \cup {DoneCall(r)}
    BY <1>7 DEF LoadAnswered, DoneCall
  <2>2. DoneCall(r).what = r.what
    BY <1>1, CallDone DEF SameCall
  <2> QED
    BY <1>1, <2>1, <2>2, DraftRests
<1>8. ASSUME NEW h \in Loads, LoadDone(h) PROVE DraftInv'
  <2>1. /\ net' = net \ {q \in net : q.of = h}
        /\ \A q \in net : q.of = h => q.state # "sent"
    BY <1>8 DEF LoadDone
  <2> QED
    BY <1>1, <2>1, DraftRests
<1>9. ASSUME Refresh PROVE DraftInv'
  <2>1. net' = net \cup Brought("refresh")
    BY <1>9 DEF Refresh, Brought
  <2> QED
    BY <1>1, <1>2, <2>1, DraftRests
<1> QED
  BY <1>1, <1>5, <1>6, <1>7, <1>8, <1>9 DEF Shows, Answered

LEMMA DraftKeeps ==
  ASSUME FlowInv, DraftInv, [FlowNext]_flowVars
  PROVE  /\ DraftInv'
         /\ drafts'.theirs = drafts.theirs /\ ~drafts.crossed =>
              \A f \in Fields : conf'[f] # conf[f] => f \in intent
<1>1. CASE UNCHANGED <<net, conf, intent>> /\ drafts' \in {drafts, NoSaves}
  BY <1>1, DraftRests
<1>2. CASE UNCHANGED flowVars \/ Types \/ Machine
  BY <1>1, <1>2 DEF flowVars, pvars, Types, Edit, Machine, CutShort
<1>3. CASE OtherReads
  BY <1>3, OtherReadsKeeps DEF DraftInv, OneSaveCall, DraftUnderWay, Drafted
<1>4. CASE OtherWrites
  BY <1>4, OtherWritesKeeps DEF DraftInv, OneSaveCall, DraftUnderWay, Drafted
<1> QED
  BY <1>2, <1>3, <1>4, DraftServes, DraftLost, DraftPressed, DraftShown DEF FlowNext

(* Every step keeps the invariant.                                         *)
LEMMA FlowKeeps == ASSUME FlowInv, [FlowNext]_flowVars PROVE FlowInv'
<1>1. CASE UNCHANGED flowVars
  <2>1. UNCHANGED <<uvars, pvars, conf, drafts, edits, typed, intent, uses>>
    BY <1>1 DEF flowVars
  <2>2. PageInv'
    BY <2>1 DEF FlowInv, pvars, PageInv, CallsHold, PageTypeOK, ChangesTyped,
       Changed
  <2>3. typed \subseteq Fields /\ intent \subseteq Fields
    BY DEF FlowInv, FlowTypeOK
  <2> QED
    BY <2>1, <2>2, <2>3, PageMoves
<1>2. CASE ~UNCHANGED flowVars
  BY <1>2, FlowServes, FlowLoses, OtherReadsKeeps, OtherWritesKeeps, TypesKeeps,
     PressesKeeps, ShowsKeeps, MachineKeeps
  DEF FlowNext
<1> QED
  BY <1>1, <1>2

LEMMA FlowBegins == FlowInit => FlowInv /\ DraftInv
<1> SUFFICES ASSUME FlowInit PROVE FlowInv /\ DraftInv
  OBVIOUS
<1>1. /\ UpdaterInit /\ PageInit /\ conf = [f \in Fields |-> 1] /\ drafts = NoSaves
      /\ edits = 0 /\ typed = {} /\ intent = {} /\ uses \in Uses
  BY DEF FlowInit, Standard
<1>2. UpdaterInv
  BY <1>1, UpdaterBegins
<1>3. \A r \in net : UpdateCall(r, intent)
  <2>1. "mount" \in Loads \cup Actions
    BY DEF Loads
  <2>2. net = LoadRequests("mount")
    BY <1>1 DEF PageInit, LoadRequests
  <2> QED
    BY <2>1, <2>2, LoadCalls
<1>4. BlankForm \in Configs
  <2>1. (CHOOSE v \in Entries : TRUE) \in Entries
    BY PageAssumption
  <2> QED
    BY <2>1 DEF BlankForm, Configs
<1>5. PageTypeOK
  <2>1. clicks \in 0..MaxClicks
    BY <1>1, PageAssumption DEF PageInit
  <2>2. run \in [Loads \cup Actions -> {"no", "asked", "loading", "failed", "reload"}]
    BY <1>1 DEF PageInit
  <2>3. DOMAIN shown = Kinds /\ shown["download"] \in Versions \cup {None} /\ busy \subseteq Flags
    BY <1>1 DEF PageInit, Kinds, Flags
  <2> QED
    BY <1>1, <1>3, <1>4, <2>1, <2>2, <2>3 DEF PageInit, PageTypeOK, UpdateCall,
       IsCall
<1>6. PageInv
  BY <1>1, <1>3, <1>5 DEF PageInit, PageInv, CallsHold, ChangesTyped
<1>7. conf \in Configs /\ edits \in 0..MaxEdits /\ drafts \in SavesOf(Configs)
  BY <1>1, FlowAssumption DEF Configs, NoSaves, SavesOf
<1>8. DraftInv
  <2>1. \A r \in net : r.what # "save"
    BY <1>1 DEF PageInit, Request
  <2> QED
    BY <1>1, <2>1 DEF DraftInv, OneSaveCall, DraftUnderWay, Drafted, NoSaves
<1> QED
  BY <1>1, <1>2, <1>5, <1>6, <1>7, <1>8 DEF FlowInv, FlowTypeOK, UpdaterInv

----------------------------------------------------------------------------
(* The pages together: every step is one of the page that is open.         *)
LEMMA PagesBegin == Init => IInv
BY CloudBegins, QueueBegins, AdvancedBegins, FlowBegins DEF Init, IInv, AdvancedInit

LEMMA PagesKeep ==
  ASSUME IInv, [Next]_vars
  PROVE  /\ IInv'
         /\ under'.theirs = under.theirs /\ ~under.crossed =>
              \A f \in All : file'[f] # file[f] => f \in intended
         /\ drafts'.theirs = drafts.theirs /\ ~drafts.crossed =>
              \A f \in Fields : conf'[f] # conf[f] => f \in intent
<1>1. /\ [CloudNext]_cvars /\ [QueueNext]_qvars /\ [AdvancedNext]_avars /\ [FlowNext]_flowVars
      /\ UNCHANGED open
  BY DEF Next, vars
<1> QED
  BY <1>1, CloudKeeps, QueueKeeps, AdvancedKeeps, FlowKeeps, DraftKeeps DEF IInv

LEMMA PagesInvariant == Spec => []IInv
<1>1. IInv /\ [Next]_vars => IInv'
  BY PagesKeep
<1> QED
  BY PagesBegin, <1>1, PTL DEF Spec

(* The state of every page has its type: the pages and their requests, the *)
(* configurations of the edge, the updater's state file and its workers.   *)
THEOREM TypeCorrect == Spec => []TypeOK
<1>1. IInv => TypeOK
  BY DEF IInv, CloudInv, QueueInv, AdvancedInv, FlowInv, TypeOK
<1> QED
  BY PagesInvariant, <1>1, PTL

(* Once the cloud page waits for nothing, it shows the step that what the  *)
(* edge holds calls for, unless a request failed, the edge changed         *)
(* elsewhere, or an answer was outdated when it came (fetchStatus and the  *)
(* handlers of CloudSettings.tsx).                                         *)
THEOREM StepIsTheEdges == Spec => []StepFollowsEdge
<1>1. IInv => StepFollowsEdge
  BY DEF IInv, CloudInv
<1> QED
  BY PagesInvariant, <1>1, PTL

(* A row whose removal was carried out and reported is not listed again,   *)
(* unless the list on the page was already outdated when it came, or the   *)
(* load after the removal failed (the handlers of the queue panels).       *)
THEOREM OwnWritesAreRead == Spec => []ReadsOwnWrites
<1>1. IInv => ReadsOwnWrites
  BY DEF IInv, QueueInv
<1> QED
  BY PagesInvariant, <1>1, PTL

(* The version that ran is not lost: every backup that a worker or a       *)
(* rollback may restore holds one complete version, as long as no update,  *)
(* restart or start has met a worker at work, no backup was made in the    *)
(* middle of a rollback, and no application has been left with, or started *)
(* from, files of two versions (backupCurrentInstallation, RollbackLatest  *)
(* and the worker's steps).                                                *)
THEOREM BackupsStayWhole == Spec => []BackupsAreWhole
<1>1. IInv => BackupsAreWhole
  BY DEF IInv, FlowInv, UpdaterInv
<1> QED
  BY PagesInvariant, <1>1, PTL

(* A save of the advanced page, from its read of the file to its write,    *)
(* changes no setting that the user left alone, unless another save was    *)
(* written between the two (handleSave of AdvancedSettings.tsx, Save of    *)
(* config.Manager).                                                        *)
THEOREM SavesLeaveOthersSettings == Spec => OthersSettingsKept
<1>1. IInv /\ [Next]_vars =>
        [under'.theirs = under.theirs /\ ~under.crossed =>
           \A f \in All : file'[f] # file[f] => f \in intended]_avars
  BY PagesKeep
<1> QED
  BY PagesInvariant, <1>1, PTL DEF Spec, OthersSettingsKept

(* A save of the update page, from its read of the file to its write,      *)
(* changes no field that the user left alone before it was pressed, unless *)
(* another save was written between the two (handleSaveConfig of           *)
(* UpdateSettings.tsx, Save of config.Manager).                            *)
THEOREM SavesLeaveOthersEdits == Spec => OthersEditsKept
<1>1. IInv /\ [Next]_vars =>
        [drafts'.theirs = drafts.theirs /\ ~drafts.crossed =>
           \A f \in Fields : conf'[f] # conf[f] => f \in intent]_flowVars
  BY PagesKeep
<1> QED
  BY PagesInvariant, <1>1, PTL DEF Spec, OthersEditsKept

=============================================================================
