------------------------------ MODULE CloudPage ------------------------------
(***************************************************************************)
(* The cloud page, pages/CloudSettings.tsx: the three steps that link the  *)
(* edge with Spark Cloud (onboarding, connection, connected), and the      *)
(* requests behind them. Which step is shown is worked out by fetchStatus, *)
(* an asynchronous function that runs on mounting, after each action, and  *)
(* each time the manual override changes, so that several runs of it may   *)
(* be under way, each with the override of its time.                       *)
(***************************************************************************)
EXTENDS Requests

CONSTANTS Tags,         \* tag lists
          MaxFetches,   \* bound on runs of fetchStatus under way
          MaxActions,   \* bound on the buttons pressed
          MaxOthers     \* bound on changes made elsewhere and on failures

ASSUME CloudAssumption ==
  /\ Tags # {} /\ MaxFetches \in Nat /\ MaxActions \in Nat /\ MaxOthers \in Nat

VARIABLES
  edge,      \* the stored onboarding and identity
  step, override,
  draft,     \* the onboarding form
  act,       \* the action in progress ("none": actionLoading is false)
  cnet,      \* requests of the page
  pressed, others,
  excused    \* something outside the page's control made the step wrong

cvars == <<edge, step, override, draft, act, cnet, pressed, others, excused>>

NoTags == CHOOSE t \in Tags : TRUE

(* GetOnboarding: no row, a row without a name, or a complete one.         *)
Edges == [onboarding : {"none", "nameless", "named"}, tags : Tags, linked : BOOLEAN]
Drafts == [name : BOOLEAN, tags : Tags]
Blank == [name |-> FALSE, tags |-> NoTags]

Steps == {"loading", "onboarding", "connection", "connected"}
CloudActions == {"save", "pair", "connect", "disconnect", "reconnect", "remove"}

CloudTypeOK ==
  /\ edge \in Edges /\ step \in Steps /\ override \in BOOLEAN /\ draft \in Drafts
  /\ act \in CloudActions \cup {"none"} /\ excused \in BOOLEAN
  /\ pressed \in 0..MaxActions /\ others \in 0..MaxOthers
  /\ \A r \in cnet : r.what \in CloudActions \cup {"status", "onboarding"}

(* A run of fetchStatus: who waits for it, and the override it closes over.*)
FetchStatus(of, ov) == Ask(of, "status", ov)
Fetches == {r \in cnet : r.what \in {"status", "onboarding"}}

(* The effect runs fetchStatus anew whenever the override has changed.     *)
WithEffect(net, ov) ==
  IF ov = override THEN net ELSE net \cup {FetchStatus("effect", ov)}

CloudInit ==
  /\ edge \in {e \in Edges : (e.linked => e.onboarding = "named") /\
                             (e.onboarding = "none" => e.tags = NoTags)}
  /\ step = "loading" /\ override = FALSE /\ draft = Blank /\ act = "none"
  /\ cnet = {FetchStatus("mount", FALSE)}
  /\ pressed = 0 /\ others = 0 /\ excused = FALSE

-----------------------------------------------------------------------------
(* The user.                                                               *)

(* Tags may be added and removed at any time, the other fields are         *)
(* disabled while an action is in progress.                                *)
EditDraft ==
  /\ step = "onboarding"
  /\ \/ act = "none" /\ \E d \in Drafts : d # draft /\ draft' = d
     \/ \E t \in Tags : t # draft.tags /\ draft' = [draft EXCEPT !.tags = t]
  /\ UNCHANGED <<edge, step, override, act, cnet, pressed, others, excused>>

(* The buttons of each step, and what enables them.                        *)
OnboardingStep(a) == step = "onboarding" /\ a = "save" /\ draft.name
ConnectionStep(a) == step = "connection" /\ a \in {"pair", "connect", "remove"}
ConnectedStep(a) == step = "connected" /\ a \in {"disconnect", "reconnect", "remove"}

Offered(a) == OnboardingStep(a) \/ ConnectionStep(a) \/ ConnectedStep(a)

Act(a) ==
  /\ act = "none" /\ Offered(a) /\ pressed < MaxActions
  /\ act' = a /\ pressed' = pressed + 1
  /\ cnet' = cnet \cup {Ask("action", a, [tags |-> draft.tags, override |-> override])}
  /\ UNCHANGED <<edge, step, override, draft, others, excused>>

BackToOnboarding ==
  /\ step = "connection" /\ act = "none"
  /\ Cardinality(Fetches) < MaxFetches
  /\ override' = TRUE /\ step' = "onboarding"
  /\ cnet' = WithEffect(cnet, TRUE)
  /\ UNCHANGED <<edge, draft, act, pressed, others, excused>>

-----------------------------------------------------------------------------
(* The edge, handleCliPair and its neighbours.                             *)

EdgeAfter(a, tags) ==
  CASE a = "save" -> [edge EXCEPT !.onboarding = "named", !.tags = tags]
    [] a \in {"pair", "connect"} -> [edge EXCEPT !.linked = TRUE]
    [] a = "remove" -> [onboarding |-> "none", tags |-> NoTags, linked |-> FALSE]
    [] a \in {"disconnect", "reconnect"} -> edge

ServeAction(r) ==
  /\ r.what \in CloudActions
  /\ r.what = "reconnect" => edge.linked
  /\ edge' = EdgeAfter(r.what, r.arg.tags)
  /\ cnet' = Answer(IF edge' = edge THEN cnet ELSE Outdated(cnet, {"onboarding"}), r, None)

ServeStatus(r) ==
  /\ r.what \in {"status", "onboarding"}
  /\ cnet' = Answer(cnet, r, edge)
  /\ UNCHANGED edge

CloudServe(r) ==
  /\ r.state = "sent"
  /\ ServeAction(r) \/ ServeStatus(r)
  /\ UNCHANGED <<step, override, draft, act, pressed, others, excused>>

CloudFail(r) ==
  /\ r.state = "sent" /\ others < MaxOthers
  /\ cnet' = Fail(cnet, r) /\ others' = others + 1 /\ excused' = TRUE
  /\ UNCHANGED <<edge, step, override, draft, act, pressed>>

(* The edge is linked, or reset, from a terminal or another browser.       *)
EdgeChangesElsewhere ==
  /\ others < MaxOthers
  /\ \E a \in {"pair", "remove"} : edge' = EdgeAfter(a, NoTags) /\ edge' # edge
  /\ cnet' = Outdated(cnet, {"onboarding"}) /\ others' = others + 1 /\ excused' = TRUE
  /\ UNCHANGED <<step, override, draft, act, pressed>>

-----------------------------------------------------------------------------
(* The answers.                                                            *)

(* finally: the action that waited for this run of fetchStatus is over.    *)
ActAfter(r) == IF r.of = "action" THEN "none" ELSE act

Late(r) == r.stale \/ r.arg # override

StatusAnswered(r) ==
  /\ r.what = "status" /\ r.state = "served"
  /\ IF r.answer.linked
     THEN /\ step' = "connected" /\ override' = FALSE
          /\ cnet' = WithEffect(cnet \ {r}, FALSE)
          /\ act' = ActAfter(r)
          /\ excused' = (excused \/ Late(r))
     ELSE /\ cnet' = (cnet \ {r}) \cup {[Ask(r.of, "onboarding", r.arg) EXCEPT !.stale = r.stale]}
          /\ UNCHANGED <<step, override, act, excused>>
  /\ UNCHANGED <<edge, draft, pressed, others>>

OnboardingAnswered(r) ==
  /\ r.what = "onboarding" /\ r.state = "served"
  /\ act' = ActAfter(r)
  /\ IF r.answer.onboarding = "named"
     THEN /\ step' = IF r.arg THEN "onboarding" ELSE "connection"
          /\ cnet' = cnet \ {r}
          /\ UNCHANGED <<override, draft>>
     ELSE /\ step' = "onboarding" /\ override' = FALSE
          /\ cnet' = WithEffect(cnet \ {r}, FALSE)
          /\ draft' = IF r.answer.onboarding = "nameless"
                      THEN [name |-> FALSE, tags |-> r.answer.tags] ELSE draft
  /\ excused' = (excused \/ Late(r))
  /\ UNCHANGED <<edge, pressed, others>>

FetchFailed(r) ==
  /\ r.what \in {"status", "onboarding"} /\ r.state = "failed"
  /\ step' = "onboarding" /\ act' = ActAfter(r)
  /\ cnet' = cnet \ {r}
  /\ UNCHANGED <<edge, override, draft, pressed, others, excused>>

SaveAnswered(r) ==
  /\ r.what = "save" /\ r.state = "served"
  /\ override' = FALSE /\ step' = "connection" /\ act' = "none"
  /\ cnet' = WithEffect(cnet \ {r}, FALSE)
  /\ UNCHANGED <<edge, draft, pressed, others, excused>>
\* mutant: the status is not fetched again when the action is over
MutLinkAnswered(r) ==
  /\ r.what \in CloudActions \ {"save"} /\ r.state = "served"
  /\ IF r.what = "remove"
     THEN step' = "onboarding" /\ draft' = Blank
     ELSE UNCHANGED <<step, draft>>
  /\ cnet' = cnet \ {r} /\ act' = "none"
  /\ UNCHANGED <<edge, override, pressed, others, excused>>

(* Pairing, connecting, disconnecting, reconnecting and removing end with  *)
(* a run of fetchStatus that they wait for, with the override of the       *)
(* moment the button was pressed.                                          *)
LinkAnswered(r) ==
  /\ r.what \in CloudActions \ {"save"} /\ r.state = "served"
  /\ IF r.what = "remove"
     THEN step' = "onboarding" /\ draft' = Blank
     ELSE UNCHANGED <<step, draft>>
  /\ cnet' = (cnet \ {r}) \cup {FetchStatus("action", r.arg.override)}
  /\ UNCHANGED <<edge, override, act, pressed, others, excused>>

ActionFailed(r) ==
  /\ r.what \in CloudActions /\ r.state = "failed"
  /\ act' = "none" /\ cnet' = cnet \ {r}
  /\ UNCHANGED <<edge, step, override, draft, pressed, others, excused>>

CloudNext ==
  \/ EditDraft
  \/ \E a \in CloudActions : Act(a)
  \/ BackToOnboarding
  \/ EdgeChangesElsewhere
  \/ \E r \in cnet :
       \/ CloudServe(r)
       \/ CloudFail(r)
       \/ StatusAnswered(r)
       \/ OnboardingAnswered(r)
       \/ FetchFailed(r)
       \/ SaveAnswered(r)
       \/ LinkAnswered(r)
       \/ ActionFailed(r)

-----------------------------------------------------------------------------
StepOf(e) ==
  IF e.linked THEN "connected"
  ELSE IF e.onboarding = "named" /\ ~override THEN "connection" ELSE "onboarding"

(* Once the page waits for nothing, the step it shows is that of the edge: *)
(* every action of the page ends in the right step, whatever runs of       *)
(* fetchStatus it overlapped, unless a request failed, the edge changed    *)
(* elsewhere, or an answer came in after the edge or the override it was   *)
(* for had changed (fetchStatus and the handlers of CloudSettings.tsx).    *)
StepFollowsEdge == cnet = {} /\ ~excused => step = StepOf(edge)

=============================================================================
