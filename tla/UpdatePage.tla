----------------------------- MODULE UpdatePage -----------------------------
(***************************************************************************)
(* The update page of the web interface, pages/UpdateSettings.tsx with     *)
(* rest-api-client/update.service.ts: the results it shows, the updater    *)
(* configuration being edited, and the handlers, each an asynchronous      *)
(* function that waits for the answers of its requests.                    *)
(***************************************************************************)
EXTENDS Releases

CONSTANTS Fields, Entries,   \* of the update section of the configuration
          MaxClicks     \* bound on the handlers the user starts

ASSUME PageAssumption == Entries # {} /\ MaxClicks \in Nat

VARIABLES
  shown,   \* the result of each kind shown, None when there is none
  config,  \* the configuration last loaded, None before the first load
  form,    \* the values in the fields
  busy,    \* the flags set: loading, checking, downloading, ...
  run,     \* handlers in progress: where each of them waits
  net,     \* requests on their way, with their answer once served
  clicks

pvars == <<shown, config, form, busy, run, net, clicks>>

Configs == [Fields -> Entries]
BlankForm == [f \in Fields |-> CHOOSE v \in Entries : TRUE]

Kinds == {"check", "download", "apply", "execute", "rollback", "restart"}
Flags == {"loading", "checking", "savingConfig", "downloading", "applying",
          "rollingBack", "restarting"}

(* The handlers; loadCheck is run on mounting, by its button, and at the   *)
(* end of saving and of downloading.                                       *)
Loads == {"mount", "refresh", "save", "download"}
Actions == {"save", "download", "apply", "execute", "rollback", "plan", "restart"}

FlagOf == [save |-> "savingConfig", download |-> "downloading", apply |-> "applying",
           execute |-> "applying", rollback |-> "rollingBack",
           plan |-> "restarting", restart |-> "restarting"]

(* A request: the handler it belongs to, what it asks, and with what.      *)
Request(h, what, arg) ==
  [of |-> h, what |-> what, arg |-> arg, state |-> "sent", answer |-> None]

PageTypeOK ==
  /\ DOMAIN shown = Kinds
  /\ shown["download"] \in Versions \cup {None}
  /\ config \in Configs \cup {None} /\ form \in Configs
  /\ busy \subseteq Flags
  /\ run \in [Loads \cup Actions -> {"no", "asked", "loading", "failed", "reload"}]
  /\ clicks \in 0..MaxClicks
  /\ \A r \in net : r.of \in Loads \cup Actions

PageInit ==
  /\ shown = [k \in Kinds |-> None]
  /\ config = None /\ form = BlankForm
  /\ busy = {"loading", "checking"}
  /\ run = [h \in Loads \cup Actions |-> IF h = "mount" THEN "loading" ELSE "no"]
  /\ net = {Request("mount", a, None) : a \in {"check", "status", "config"}}
  /\ clicks = 0

-----------------------------------------------------------------------------
(* What the user does.                                                     *)

Edit(f, v) ==
  /\ form[f] # v
  /\ form' = [form EXCEPT ![f] = v]
  /\ UNCHANGED <<shown, config, busy, run, net, clicks>>

(* The fields sent by a save are those that differ from what was loaded.   *)
Changed == {f \in Fields : form[f] # config[f]}

(* Where the button is shown and enabled: nowhere during the first load.   *)
Enabled(h) ==
  /\ {FlagOf[h], "loading"} \cap busy = {}
  /\ CASE h = "save"     -> config # None
       [] h = "download" -> shown["check"] = "available"
       [] h \in {"apply", "execute"} -> shown["download"] # None
       [] h \in {"rollback", "restart"} -> shown["apply"] # None
       [] h = "plan"     -> TRUE
\* mutant: every field of the form is sent
MutArgOf(h) ==
  CASE h = "save" -> form
    [] h \in {"apply", "execute"} -> shown["download"]
    [] OTHER -> None

ArgOf(h) ==
  CASE h = "save" -> [f \in Changed |-> form[f]]
    [] h \in {"apply", "execute"} -> shown["download"]
    [] OTHER -> None

(* A bound: what is left of a failed load comes before its next one.       *)
NoRest(h) == \A r \in net : r.of # h

(* A button pressed: the flag is set and the request sent.                 *)
Press(h) ==
  /\ clicks < MaxClicks /\ NoRest(h)
  /\ run[h] = "no" /\ Enabled(h)
  /\ h = "save" => Changed # {}
  /\ busy' = busy \cup {FlagOf[h]}
  /\ run' = [run EXCEPT ![h] = "asked"]
  /\ net' = net \cup {Request(h, h, ArgOf(h))}
  /\ clicks' = clicks + 1
  /\ UNCHANGED <<shown, config, form>>

LoadRequests(h) == {Request(h, a, None) : a \in {"check", "status", "config"}}

Refresh ==
  /\ clicks < MaxClicks /\ NoRest("refresh")
  /\ "checking" \notin busy
  /\ busy' = busy \cup {"checking"}
  /\ run' = [run EXCEPT !["refresh"] = "loading"]
  /\ net' = net \cup LoadRequests("refresh")
  /\ clicks' = clicks + 1
  /\ UNCHANGED <<shown, config, form>>

-----------------------------------------------------------------------------
(* The answers.                                                            *)

Served(r, answer) ==
  net' = (net \ {r}) \cup {[r EXCEPT !.state = "served", !.answer = answer]}

Failed(r) == net' = (net \ {r}) \cup {[r EXCEPT !.state = "error", !.answer = None]}

(* What a status answer shows: a result missing from the state leaves the  *)
(* one on the page.                                                        *)
Refreshed(st) ==
  [k \in Kinds |-> IF k \in DOMAIN st /\ st[k] # None THEN st[k] ELSE shown[k]]

(* The answer of a handler's own request.                                  *)
ShownAfter(r) ==
  CASE r.of \in {"download", "apply", "execute", "rollback"} ->
         [shown EXCEPT ![r.of] = r.answer]
    [] r.of \in {"plan", "restart"} -> [shown EXCEPT !["restart"] = r.answer]
    [] r.of = "save" -> shown

ActionAnswered(r) ==
  /\ r.what \in Actions /\ run[r.of] = "asked" /\ r.state # "sent"
  /\ IF r.state = "error"
     THEN /\ busy' = busy \ {FlagOf[r.of]}
          /\ run' = [run EXCEPT ![r.of] = "no"]
          /\ net' = net \ {r}
          /\ UNCHANGED shown
     ELSE /\ shown' = ShownAfter(r)
          /\ CASE r.of \in {"save", "download"} ->
                    /\ busy' = busy \cup {"checking"}
                    /\ run' = [run EXCEPT ![r.of] = "loading"]
                    /\ net' = {q \in net : q.of # r.of} \cup LoadRequests(r.of)
               [] r.of \in {"rollback", "plan", "restart"} ->
                    /\ run' = [run EXCEPT ![r.of] = "reload"]
                    /\ net' = (net \ {r}) \cup {Request(r.of, "status", None)}
                    /\ UNCHANGED busy
               [] OTHER ->
                    /\ busy' = busy \ {FlagOf[r.of]}
                    /\ run' = [run EXCEPT ![r.of] = "no"]
                    /\ net' = net \ {r}
  /\ UNCHANGED <<config, form, clicks>>

(* The status reloaded after a rollback or a restart.                      *)
StatusReloaded(r) ==
  /\ r.what = "status" /\ run[r.of] = "reload" /\ r.state # "sent"
  /\ shown' = IF r.state = "error" THEN shown ELSE Refreshed(r.answer)
  /\ busy' = busy \ {FlagOf[r.of]}
  /\ run' = [run EXCEPT ![r.of] = "no"]
  /\ net' = net \ {r}
  /\ UNCHANGED <<config, form, clicks>>

(* loadCheck: status and configuration are shown as they come, also after  *)
(* another request of the same load has failed.                            *)
LoadAnswered(r) ==
  /\ r.what \in {"status", "config"} /\ r.of \in Loads /\ run[r.of] # "reload"
  /\ r.state = "served"
  /\ IF r.what = "status"
     THEN shown' = Refreshed(r.answer) /\ UNCHANGED <<config, form>>
     ELSE config' = r.answer /\ form' = r.answer /\ UNCHANGED shown
  /\ net' = (net \ {r}) \cup
       (IF run[r.of] = "loading" THEN {[r EXCEPT !.state = "done", !.answer = None]} ELSE {})
  /\ UNCHANGED <<busy, run, clicks>>

FlagsAfterLoad(h) == busy \ ({"loading", "checking"} \cup
                             (IF h \in Actions THEN {FlagOf[h]} ELSE {}))

(* The first failure ends the load.                                        *)
ReloadFails(r) ==
  /\ r.of \in Loads /\ run[r.of] = "loading" /\ r.state = "error"
  /\ busy' = FlagsAfterLoad(r.of)
  /\ run' = [run EXCEPT ![r.of] = "no"]
  /\ net' = {q \in net : q # r /\ ~(q.of = r.of /\ (q.what = "check" \/
                                                      q.state \in {"done", "error"}))}
  /\ UNCHANGED <<shown, config, form, clicks>>

(* All three have come: the result of the check is shown.                  *)
LoadDone(h) ==
  LET mine == {r \in net : r.of = h} IN
  /\ run[h] = "loading"
  /\ \A r \in mine : r.state = IF r.what = "check" THEN "served" ELSE "done"
  /\ \E r \in mine : r.what = "check" /\ shown' = [shown EXCEPT !["check"] = r.answer]
  /\ busy' = FlagsAfterLoad(h)
  /\ run' = [run EXCEPT ![h] = "no"]
  /\ net' = net \ mine
  /\ UNCHANGED <<config, form, clicks>>

(* What became of a request of a load that has failed is not looked at.    *)
Ignored(r) ==
  /\ run[r.of] = "no" /\ r.state = "error"
  /\ net' = net \ {r}
  /\ UNCHANGED <<shown, config, form, busy, run, clicks>>

Answered(r) ==
  \/ ActionAnswered(r)
  \/ StatusReloaded(r)
  \/ LoadAnswered(r)
  \/ ReloadFails(r)
  \/ Ignored(r)

=============================================================================
