------------------------ MODULE WorkPages_proofs ------------------------
(***************************************************************************)
(* Safety of the session, the lists and the forms of the web interface:    *)
(* for any users, rows, destinations and bounds, and whatever order the    *)
(* answers of their requests come in.                                      *)
(***************************************************************************)
EXTENDS WorkPages, TLAPS

IsRequest(r) ==
  /\ r = [of |-> r.of, what |-> r.what, arg |-> r.arg,
          state |-> r.state, answer |-> r.answer, stale |-> r.stale]
  /\ r.state \in {"sent", "served", "failed"} /\ r.stale \in BOOLEAN

(* What becomes of a request: it is served, fails, or is outdated.         *)
Same(q, r) == IsRequest(q) /\ q.of = r.of /\ q.what = r.what /\ q.arg = r.arg
Given(r, answer) == [r EXCEPT !.state = "served", !.answer = answer]
ServedAs(q, r, answer) ==
  Same(q, r) /\ q.state = "served" /\ q.answer = answer /\ q.stale = r.stale
Broken(r) == [r EXCEPT !.state = "failed"]
FailedAs(q, r) == Same(q, r) /\ q.state = "failed"
Aged(r) == IF r.state = "served" \/ r.what \in {} THEN [r EXCEPT !.stale = TRUE] ELSE r
AgedAs(q, r) ==
  /\ Same(q, r) /\ q.state = r.state /\ q.answer = r.answer
  /\ (q.stale <=> r.stale \/ r.state = "served")

----------------------------------------------------------------------------
(* The session.                                                            *)
SessionRequest(r) ==
  /\ IsRequest(r)
  /\ r.what \in {"login", "register", "logout", "me", "project", "apikey"}
  /\ r.what \in {"login", "project"} => r.arg \in Someone
  /\ r.what = "apikey" => r.arg \in Someone \ {None}
  /\ r.what = "me" /\ r.state = "served" => r.answer \in Someone
  /\ r.what = "project" /\ r.state = "served" => r.answer = r.arg

(* While the store and the cookie differ, a request is on its way that     *)
(* will tell the store; and so for the project of the user.                *)
Unsettled(calls) == \E r \in calls : r.what \in {"login", "register", "me", "logout"}
ProjectComes(calls, who) == \E r \in calls : r.what = "project" /\ r.arg = who

Settling ==
  /\ user = cookie \/ Unsettled(snet)
  /\ user # None => /\ project = user \/ ProjectComes(snet, user)
                    /\ key \in {user, None}

SessionInv ==
  /\ SessionTypeOK
  /\ \A r \in snet : SessionRequest(r) /\ (r.state = "failed" => misled)
  /\ ~misled => Settling

----------------------------------------------------------------------------
(* The lists. Ids are not used again, and each stored row has its own.     *)
KnownId(x) == x.id <= made
StoredId(i) == \E x \in rows : x.id = i
ShownId(i) == \E x \in Row : x.id = i /\ shown[x] > 0

ListRequest(r) ==
  /\ IsRequest(r) /\ r.what \in DOMAIN OpsOf(page) \cup {"list"}
  /\ r.what \notin {"list", "create"} => r.arg \in Row /\ KnownId(r.arg)
  /\ r.state = "served" =>
       /\ r.what = "list" => r.answer \subseteq Row /\ \A x \in r.answer : KnownId(x)
       /\ r.what \in {"create", "toggle"} => r.answer \in Row /\ KnownId(r.answer)
       /\ r.what = "delete" => ~StoredId(r.arg.id)

(* The list is on its way, so that what the page shows is about to go.     *)
Reloads(r) ==
  \/ r.what = "list" /\ r.state # "failed"
  \/ r.what # "list" /\ r.state = "served" /\ OpsOf(page)[r.what] = "reload"

Reloading == \E r \in lnet : Heard(r) /\ Reloads(r)

(* Otherwise what the page shows and what is stored differ by the patches  *)
(* that are still to be made.                                              *)
Awaits(x, what) == \E q \in lnet : q.what = what /\ q.state = "served" /\ q.answer = x
Removed(i) == \E q \in lnet : q.what = "delete" /\ q.state = "served" /\ q.arg.id = i

OneCard ==
  /\ \A x \in Row : shown[x] \in {0, 1}
  /\ \A x, y \in Row : shown[x] = 1 /\ shown[y] = 1 /\ x.id = y.id => x = y

EachHasCard ==
  \A x \in rows : \/ shown[x] = 1
                  \/ ShownId(x.id) /\ Awaits(x, "toggle")
                  \/ ~ShownId(x.id) /\ Awaits(x, "create")

NoneTooMuch == \A x \in Row : shown[x] = 1 => StoredId(x.id) \/ Removed(x.id)

CreatedUnseen ==
  \A q \in lnet : q.what = "create" /\ q.state = "served" =>
    /\ ~ShownId(q.answer.id)
    /\ \A p \in lnet :
         p.what = "create" /\ p.state = "served" /\ p.answer.id = q.answer.id => p = q

PatchesRepair == OneCard /\ EachHasCard /\ NoneTooMuch /\ CreatedUnseen

RowsHold ==
  /\ \A x \in rows : KnownId(x)
  /\ \A x, y \in rows : x.id = y.id => x = y
  /\ \A x \in Row : shown[x] > 0 => KnownId(x)

ListInv ==
  /\ ListTypeOK
  /\ \A r \in lnet : ListRequest(r)
  /\ RowsHold
  /\ ~off => Reloading \/ PatchesRepair

----------------------------------------------------------------------------
(* The form of an instance. What a tab completes may be completed further, *)
(* and one save at a time is on its way.                                   *)
AreValues(values) ==
  /\ \A g \in Simple : values[g] \in {"blank", "old", "new"}
  /\ values["inputs"] \in {"unset", "default", "own"}
  /\ values["dests"] \in Seq(Destination) /\ Len(values["dests"]) <= MaxDests
IsValues(values) == values = [g \in Groups |-> values[g]] /\ AreValues(values)
IsStored(inst) == inst = [g \in Instance |-> inst[g]] /\ AreValues(inst)

OnlyCompleted(group, before, after) ==
  \/ group = "inputs" /\ before = "unset" /\ after = "default"
  \/ group = "dests" /\ OnlyMapped(before, after)
Alike(group, before, after) == after = before \/ OnlyCompleted(group, before, after)

FormRequest(r) ==
  /\ IsRequest(r) /\ r.what \in {"lists", "instance", "operations", "submit"}
  /\ r.what = "submit" => IsValues(r.arg)
  /\ r.what = "instance" /\ r.state = "served" =>
       IsStored(r.answer) /\ (~r.stale => r.answer = stored)

(* Between what is stored, what is being saved and what is shown, only     *)
(* what the user changed differs; the destinations are those the form was  *)
(* filled in with, of which a save that failed may have left a part.       *)
Reference(g) == IF g = "dests" THEN loaded ELSE stored[g]
Part == Shortened(loaded, stored["dests"])

OneSubmit ==
  \A r \in inet : r.what = "submit" =>
    /\ sending \/ leaving = "gone"
    /\ \A q \in inet : q.what = "submit" => q = r

SubmitsAsMeant ==
  \A r \in inet : r.what = "submit" /\ r.state = "sent" =>
    /\ \A g \in Groups : g \in intended \/ Alike(g, Reference(g), r.arg[g])
    /\ "dests" \in intended \/ Part
    /\ filled => /\ intended \subseteq touched
                 /\ \A g \in Groups : g \in touched \/ Alike(g, r.arg[g], form[g])

FormShows ==
  filled => /\ \A g \in Groups : g \in touched \/ Alike(g, Reference(g), form[g])
            /\ "dests" \in touched \/ Part

FormInv ==
  /\ FormTypeOK /\ IsStored(stored) /\ IsValues(form)
  /\ \A r \in inet : FormRequest(r)
  /\ OneSubmit /\ SubmitsAsMeant /\ FormShows

----------------------------------------------------------------------------
(* The composer: one archive or installation at a time is on its way.      *)
AreFiles(files) ==
  files = [p \in DOMAIN files |-> files[p]] /\ DOMAIN files \subseteq Paths

(* Those of the editor are all UTF-8, and a draft always gets two files.   *)
AreTexts(files) == AreFiles(files) /\ \A p \in DOMAIN files : files[p] # "latin"
Always == {"readme", "requirements"}

Sending == {"inspect", "install", "create", "replace"}

ComposerRequest(r) ==
  /\ IsRequest(r) /\ r.what \in {"script", "files", "readme"} \cup Sending
  /\ r.what = "script" /\ r.state = "served" => r.answer \in Python
  /\ r.what = "files" /\ r.state = "served" =>
       /\ AreTexts(r.answer) /\ Always \subseteq DOMAIN r.answer
       /\ ~r.stale => r.answer = [p \in DOMAIN bundle \cap Editable |-> Decoded(bundle[p])]
  /\ r.what \in {"create", "replace"} => AreTexts(r.arg.files) /\ r.arg.main \in Python

OneSend ==
  \A r \in mnet : r.what \in Sending =>
    uploading /\ \A q \in mnet : q.what \in Sending => q = r

(* Between the files that are installed, those that are being sent and     *)
(* those in the editor, only what the user changed differs, but for what   *)
(* the way through the editor and back does to a file.                     *)
Passed(p, text) == Required(p, Decoded(text))

ReplacesAsMeant ==
  \A r \in mnet : r.what = "replace" /\ r.state = "sent" =>
    /\ \A p \in (DOMAIN bundle \cap Editable) \ asked :
         p \in DOMAIN r.arg.files /\ Required(p, r.arg.files[p]) = Passed(p, bundle[p])
    /\ given =>
         /\ Always \subseteq DOMAIN r.arg.files \cup meddled
         /\ \A p \in DOMAIN r.arg.files \ meddled :
              p \in DOMAIN draft /\ draft[p] = r.arg.files[p]

EditorShows ==
  given => \A p \in (DOMAIN bundle \cap Editable) \ meddled :
             p \in DOMAIN draft /\ Required(p, draft[p]) = Passed(p, bundle[p])

ComposerInv ==
  /\ ComposerTypeOK /\ AreFiles(bundle) /\ AreTexts(draft) /\ Always \subseteq DOMAIN bundle
  /\ \A r \in mnet : ComposerRequest(r)
  /\ OneSend /\ ReplacesAsMeant /\ EditorShows

----------------------------------------------------------------------------
(* The forms of one record. A builder may add a resource to none.          *)
AreFields(record) == record \in [Keys(kind) -> {"none", "old", "new", "auto"}]

Built(before, after) == after = before \/ (before = "none" /\ after = "auto")

RecordRequest(r) ==
  /\ IsRequest(r) /\ r.what \in {"metadata", "record", "panel", "save"}
  /\ r.what = "save" => AreFields(r.arg)
  /\ r.what = "record" /\ r.state = "served" =>
       AreFields(r.answer) /\ (~r.stale => r.answer = kept)

(* Two saves on their way together are meant to change everything.         *)
SavesTogether ==
  \A r, q \in rnet : r.what = "save" /\ q.what = "save" /\ r # q => meant = Keys(kind)

SavesAsMeant ==
  \A r \in rnet : r.what = "save" /\ r.state = "sent" =>
    /\ \A f \in Keys(kind) : f \in meant \/ IF f \in Forgotten(kind) THEN r.arg[f] = "none"
                                              ELSE Built(kept[f], r.arg[f])
    /\ kind # "device" /\ faithful => \A f \in Keys(kind) : f \in dirty \/ Built(r.arg[f], fields[f])

(* The page is left once a save has been answered.                         *)
StillTrue == faithful /\ ~gone /\ \A r \in rnet : ~(r.what = "save" /\ r.state = "served")

FieldsShow ==
  StillTrue => \A f \in Keys(kind) \ Forgotten(kind) :
                 /\ f \in dirty \/ Built(kept[f], fields[f])
                 /\ kind = "device" => origin[f] = kept[f]

(* What the form is not filled in with stays empty unless it is typed.     *)
Unfilled ==
  \A f \in Forgotten(kind) : origin[f] = "none" /\ (f \in dirty \/ fields[f] = "none")

RecordInv ==
  /\ RecordTypeOK
  /\ \A r \in rnet : RecordRequest(r)
  /\ SavesTogether /\ SavesAsMeant /\ FieldsShow /\ Unfilled

----------------------------------------------------------------------------
(* Requests.                                                               *)
LEMMA AskAsks ==
  ASSUME NEW of, NEW what, NEW arg
  PROVE  LET q == Ask(of, what, arg) IN
         /\ IsRequest(q) /\ q.of = of /\ q.what = what /\ q.arg = arg
         /\ q.state = "sent" /\ ~q.stale
BY DEF Ask, IsRequest

LEMMA AnswerAnswers ==
  ASSUME NEW calls, NEW r \in calls, IsRequest(r), NEW answer
  PROVE  /\ Answer(calls, r, answer) = (calls \ {r}) \cup {Given(r, answer)}
         /\ ServedAs(Given(r, answer), r, answer)
<1>1. ASSUME NEW q \in {Given(r, answer)} PROVE ServedAs(q, r, answer)
  BY DEF Given, IsRequest, ServedAs, Same
<1> QED
  BY <1>1 DEF Answer, Given

LEMMA FailFails ==
  ASSUME NEW calls, NEW r \in calls, IsRequest(r)
  PROVE  /\ Fail(calls, r) = (calls \ {r}) \cup {Broken(r)}
         /\ FailedAs(Broken(r), r)
<1>1. ASSUME NEW q \in {Broken(r)} PROVE FailedAs(q, r)
  BY DEF Broken, IsRequest, FailedAs, Same
<1> QED
  BY <1>1 DEF Fail, Broken

LEMMA OutdatedOutdates ==
  ASSUME NEW calls, \A r \in calls : IsRequest(r)
  PROVE  /\ Outdated(calls, {}) = {Aged(r) : r \in calls}
         /\ \A r \in calls : AgedAs(Aged(r), r)
<1>1. ASSUME NEW r \in calls PROVE AgedAs(Aged(r), r)
  <2>1. IsRequest(r)
    OBVIOUS
  <2>2. CASE r.state = "served"
    BY <2>1, <2>2 DEF Aged, IsRequest, AgedAs, Same
  <2>3. CASE r.state # "served"
    BY <2>1, <2>3 DEF Aged, IsRequest, AgedAs, Same
  <2> QED
    BY <2>2, <2>3
<1> QED
  BY <1>1 DEF Outdated, Aged

----------------------------------------------------------------------------
(* The session: its requests are asked, served and answered.               *)
LEMMA SessionAsks ==
  ASSUME NEW of, NEW what \in {"login", "register", "logout", "me", "project"}, NEW arg \in Someone
  PROVE  LET q == Ask(of, what, arg) IN
         /\ SessionRequest(q) /\ q.what = what /\ q.arg = arg /\ q.state = "sent"
BY AskAsks DEF SessionRequest

(* More requests do not unsettle what is settled.                          *)
LEMMA SessionGrows ==
  ASSUME SessionInv, UNCHANGED <<cookie, user, project, key, misled>>, gate' \in BOOLEAN,
         NEW q, SessionRequest(q), q.state = "sent", snet' = snet \cup {q}
  PROVE  SessionInv'
<1>1. SessionTypeOK'
  BY DEF SessionInv, SessionTypeOK, SessionRequest
<1>2. \A r \in snet' : SessionRequest(r) /\ (r.state = "failed" => misled)
  BY DEF SessionInv
<1>3. ~misled => Settling'
  BY DEF SessionInv, Settling, Unsettled, ProjectComes
<1> QED
  BY <1>1, <1>2, <1>3 DEF SessionInv

LEMMA SessionPresses == ASSUME SessionInv, SessionPress PROVE SessionInv'
<1>1. UNCHANGED <<cookie, user, project, key, misled>> /\ gate \in BOOLEAN /\ None \in Someone
  BY DEF SessionPress, SessionInv, SessionTypeOK, Someone
<1>2. CASE PressLogin
  <2>1. PICK who \in Someone :
          snet' = snet \cup {Ask(Call(tries + 1, "login"), "login", who)} /\ gate' = TRUE
    BY <1>2 DEF PressLogin
  <2>2. LET q == Ask(Call(tries + 1, "login"), "login", who) IN SessionRequest(q) /\ q.state = "sent"
    BY SessionAsks
  <2> QED
    BY <1>1, <2>1, <2>2, SessionGrows
<1>3. CASE PressRegister
  <2>1. snet' = snet \cup {Ask(Call(tries + 1, "register"), "register", None)} /\ gate' = TRUE
    BY <1>3 DEF PressRegister
  <2>2. LET q == Ask(Call(tries + 1, "register"), "register", None) IN SessionRequest(q) /\ q.state = "sent"
    BY <1>1, SessionAsks
  <2> QED
    BY <1>1, <2>1, <2>2, SessionGrows
<1>4. CASE PressSignOut
  <2>1. snet' = snet \cup {Ask(Call(tries + 1, "logout"), "logout", None)} /\ gate' = gate
    BY <1>4 DEF PressSignOut
  <2>2. LET q == Ask(Call(tries + 1, "logout"), "logout", None) IN SessionRequest(q) /\ q.state = "sent"
    BY <1>1, SessionAsks
  <2> QED
    BY <1>1, <2>1, <2>2, SessionGrows
<1>5. CASE PressNewKey
  <2>1. /\ snet' = snet \cup {Ask(Call(tries + 1, "apikey"), "apikey", user)} /\ gate' = gate
        /\ user \in Someone \ {None}
    BY <1>5 DEF PressNewKey, Application, Someone
  <2>2. PICK q : q = Ask(Call(tries + 1, "apikey"), "apikey", user)
    OBVIOUS
  <2>3. SessionRequest(q) /\ q.state = "sent"
    BY <2>1, <2>2, AskAsks DEF SessionRequest
  <2> QED
    BY <1>1, <2>1, <2>2, <2>3, SessionGrows
<1> QED
  BY <1>2, <1>3, <1>4, <1>5 DEF SessionPress

LEMMA SessionServesKeeps ==
  ASSUME SessionInv, NEW r \in snet, SessionServes(r)
  PROVE  SessionInv'
<1> DEFINE answer == IF r.what = "me" THEN cookie ELSE r.arg
<1> DEFINE new == Given(r, answer)
<1>1. /\ r.state = "sent" /\ SessionRequest(r) /\ IsRequest(r)
      /\ snet' = Answer(snet, r, answer) /\ cookie' = CookieAfter(r)
      /\ UNCHANGED <<user, project, gate, key, misled>>
  BY DEF SessionServes, SessionInv, SessionRequest
<1>2. snet' = (snet \ {r}) \cup {new} /\ ServedAs(new, r, answer)
  BY <1>1, AnswerAnswers
<1> HIDE DEF new
<1>3. SessionRequest(new) /\ new.state = "served" /\ new.what = r.what /\ new.arg = r.arg
  BY <1>1, <1>2 DEF SessionRequest, ServedAs, Same, SessionInv, SessionTypeOK
<1>4. cookie' \in Someone /\ (cookie' # cookie => r.what \in {"login", "logout"})
  BY <1>1 DEF CookieAfter, SessionRequest, SessionInv, SessionTypeOK, Someone
<1>5. SessionTypeOK'
  BY <1>1, <1>2, <1>3, <1>4 DEF SessionInv, SessionTypeOK, SessionRequest
<1>6. ~misled => Settling'
  BY <1>1, <1>2, <1>3, <1>4 DEF SessionInv, Settling, Unsettled, ProjectComes
<1> QED
  BY <1>1, <1>2, <1>3, <1>5, <1>6 DEF SessionInv

LEMMA SessionMisled ==
  ASSUME SessionInv, SessionTypeOK', misled', \A q \in snet' : SessionRequest(q)
  PROVE  SessionInv'
BY DEF SessionInv

LEMMA SessionFailsKeeps ==
  ASSUME SessionInv, NEW r \in snet, SessionFails(r)
  PROVE  SessionInv'
<1>1. /\ SessionRequest(r) /\ IsRequest(r) /\ r.state = "sent" /\ snet' = Fail(snet, r) /\ misled' = TRUE
      /\ UNCHANGED <<cookie, user, project, gate, key>>
  BY DEF SessionFails, SessionInv, SessionRequest
<1>2. snet' = (snet \ {r}) \cup {Broken(r)} /\ FailedAs(Broken(r), r)
  BY <1>1, FailFails
<1>3. SessionRequest(Broken(r))
  BY <1>1, <1>2 DEF SessionRequest, FailedAs, Same
<1>4. \A q \in snet' : SessionRequest(q)
  BY <1>2, <1>3 DEF SessionInv
<1>5. SessionTypeOK'
  BY <1>1, <1>4 DEF SessionInv, SessionTypeOK, SessionRequest
<1> QED
  BY <1>1, <1>4, <1>5, SessionMisled

LEMMA CookieGoesKeeps == ASSUME SessionInv, CookieGoes PROVE SessionInv'
<1>1. cookie' = None /\ misled' = TRUE /\ UNCHANGED <<user, project, gate, key, snet>>
  BY DEF CookieGoes
<1>2. SessionTypeOK'
  BY <1>1 DEF SessionInv, SessionTypeOK, Someone
<1> QED
  BY <1>1, <1>2, SessionMisled DEF SessionInv

LEMMA SignsIn ==
  ASSUME SessionInv, NEW r \in snet, SignedIn(r) \/ SignInFailed(r)
  PROVE  SessionInv'
<1>1. /\ r.what \in {"login", "register"} /\ UNCHANGED <<cookie, user, project, key, misled>>
      /\ gate' \in BOOLEAN
  BY DEF SignedIn, SignInFailed
<1>2. CASE SignedIn(r)
  <2> DEFINE new == Ask(r.of, "me", None)
  <2>1. snet' = (snet \ {r}) \cup {new}
    BY <1>2 DEF SignedIn, Me
  <2>2. None \in Someone
    BY DEF Someone
  <2>3. SessionRequest(new) /\ new.what = "me" /\ new.state = "sent"
    BY <2>2, SessionAsks
  <2> HIDE DEF new
  <2>4. SessionTypeOK'
    BY <1>1, <2>1, <2>3 DEF SessionInv, SessionTypeOK, SessionRequest
  <2>5. ~misled => Settling'
    BY <1>1, <2>1, <2>3 DEF SessionInv, Settling, Unsettled, ProjectComes
  <2> QED
    BY <1>1, <2>1, <2>3, <2>4, <2>5 DEF SessionInv
<1>3. CASE SignInFailed(r)
  <2>1. snet' = snet \ {r} /\ misled
    BY <1>3 DEF SignInFailed, SessionInv
  <2>2. SessionTypeOK'
    BY <1>1, <2>1 DEF SessionInv, SessionTypeOK
  <2> QED
    BY <1>1, <2>1, <2>2, SessionMisled DEF SessionInv
<1> QED
  BY <1>2, <1>3

LEMMA MeAnsweredKeeps ==
  ASSUME SessionInv, NEW r \in snet, MeAnswered(r)
  PROVE  SessionInv'
<1> DEFINE follow == LoadProject(Call(r.of.n, "me"), r.answer)
                      \cup (IF r.of.kind = "login" THEN LoadProject(r.of, r.answer) ELSE {})
<1>1. /\ r.what = "me" /\ r.state = "served" /\ SessionRequest(r) /\ r.answer \in Someone
      /\ user' = r.answer /\ key' = None /\ gate' = FALSE /\ cookie' = cookie
      /\ project' = (IF r.answer = None THEN None ELSE project)
      /\ snet' = (snet \ {r}) \cup follow
      /\ misled' = (misled \/ r.answer # cookie)
  BY DEF MeAnswered, SessionInv, SessionRequest
<1>2. \A q \in follow : SessionRequest(q) /\ q.state = "sent"
  <2>1. ASSUME NEW of, NEW q \in LoadProject(of, r.answer)
        PROVE  SessionRequest(q) /\ q.state = "sent"
    <3>1. q = Ask(of, "project", r.answer)
      BY DEF LoadProject
    <3> QED
      BY <1>1, <3>1, SessionAsks
  <2> QED
    BY <2>1
<1>3. r.answer # None => ProjectComes(follow, r.answer)
  <2>1. r.answer # None => Ask(Call(r.of.n, "me"), "project", r.answer) \in follow
    BY DEF LoadProject
  <2>2. LET q == Ask(Call(r.of.n, "me"), "project", r.answer) IN
          q.what = "project" /\ q.arg = r.answer
    BY AskAsks
  <2> QED
    BY <2>1, <2>2 DEF ProjectComes
<1> HIDE DEF follow
<1>4. \A q \in snet' : SessionRequest(q) /\ (q.state = "failed" => misled)
  BY <1>1, <1>2 DEF SessionInv
<1>5. SessionTypeOK'
  BY <1>1, <1>4 DEF SessionInv, SessionTypeOK, SessionRequest, Someone
<1>6. ~misled' => Settling'
  BY <1>1, <1>3 DEF Settling, ProjectComes
<1> QED
  BY <1>1, <1>4, <1>5, <1>6 DEF SessionInv

LEMMA SessionAnswersEnd ==
  ASSUME SessionInv, NEW r \in snet,
         MeFailed(r) \/ ProjectAnswered(r) \/ SignedOut(r) \/ KeyAnswered(r) \/ KeyRefused(r)
  PROVE  SessionInv'
<1>1. snet' = snet \ {r} /\ cookie' = cookie /\ SessionRequest(r) /\ (r.state = "failed" => misled)
  BY DEF MeFailed, ProjectAnswered, SignedOut, KeyAnswered, KeyRefused, SessionInv
<1>2. SessionTypeOK'
  <2>1. user' \in Someone \cup {Keyed} /\ project' \in Someone
    BY <1>1 DEF MeFailed, ProjectAnswered, SignedOut, KeyAnswered, KeyRefused, SessionInv,
       SessionTypeOK, SessionRequest, Someone
  <2>2. key' \in Someone
    BY <1>1 DEF MeFailed, ProjectAnswered, SignedOut, KeyAnswered, KeyRefused, SessionInv,
       SessionTypeOK, SessionRequest
  <2>3. gate' \in BOOLEAN /\ misled' \in BOOLEAN
    BY DEF MeFailed, ProjectAnswered, SignedOut, KeyAnswered, KeyRefused, SessionInv, SessionTypeOK
  <2> QED
    BY <1>1, <2>1, <2>2, <2>3 DEF SessionInv, SessionTypeOK
<1>3. misled => misled'
  BY DEF MeFailed, ProjectAnswered, SignedOut, KeyAnswered, KeyRefused
<1>4. ~misled' => Settling'
  <2>1. CASE MeFailed(r)
    BY <1>1, <2>1 DEF MeFailed
  <2>2. CASE ProjectAnswered(r)
    BY <1>1, <2>2 DEF ProjectAnswered, SessionInv, Settling, Unsettled, ProjectComes, SessionRequest,
       IsRequest
  <2>3. CASE SignedOut(r)
    BY <1>1, <2>3 DEF SignedOut, Settling
  <2>4. CASE KeyAnswered(r)
    <3>1. ASSUME ~misled'
          PROVE  /\ ~misled /\ r.arg = user /\ user # None /\ user' = user /\ key' = user
                 /\ project' = project /\ r.what = "apikey"
      BY <1>1, <2>4, <3>1 DEF KeyAnswered, SessionRequest
    <3> QED
      BY <1>1, <3>1 DEF SessionInv, Settling, Unsettled, ProjectComes
  <2>5. CASE KeyRefused(r)
    BY <1>1, <2>5 DEF KeyRefused
  <2> QED
    BY <2>1, <2>2, <2>3, <2>4, <2>5
<1> QED
  BY <1>1, <1>2, <1>3, <1>4 DEF SessionInv

LEMMA SessionKeeps == SessionInv /\ [SessionNext]_svars => SessionInv'
<1> SUFFICES ASSUME SessionInv, [SessionNext]_svars PROVE SessionInv'
  OBVIOUS
<1>1. CASE UNCHANGED svars
  BY <1>1 DEF svars, SessionInv, SessionTypeOK, Settling
<1> QED
  BY <1>1, SessionPresses, CookieGoesKeeps, SessionServesKeeps, SessionFailsKeeps, SignsIn,
     MeAnsweredKeeps, SessionAnswersEnd DEF SessionNext

LEMMA SessionBegins == SessionInit => SessionInv
<1> SUFFICES ASSUME SessionInit PROVE SessionInv
  OBVIOUS
<1> DEFINE new == Ask(Call(0, "mount"), "me", None)
<1>1. /\ snet = {new} /\ cookie \in Someone /\ user = None /\ project = None /\ gate = TRUE
      /\ key = None /\ misled = FALSE /\ None \in Someone
  BY DEF SessionInit, Me, Someone
<1>2. SessionRequest(new) /\ new.what = "me" /\ new.state = "sent"
  BY <1>1, SessionAsks
<1> HIDE DEF new
<1> QED
  BY <1>1, <1>2 DEF SessionInv, SessionTypeOK, Settling, Unsettled

----------------------------------------------------------------------------
(* The lists.                                                              *)
LEMMA PageOps ==
  /\ DOMAIN InstanceOps = {"toggle", "trigger", "delete"}
  /\ DOMAIN ProjectOps = {"create", "delete"}
  /\ DOMAIN ServerOps = {"create", "delete"}
  /\ DOMAIN CredentialOps = {"create", "update", "delete"}
  /\ DOMAIN ScriptOps = {"delete"}
  /\ DOMAIN DeviceOps = {"delete"}
BY DEF InstanceOps, ProjectOps, ServerOps, CredentialOps, ScriptOps, DeviceOps

(* What an operation does to the list, page by page.                       *)
LEMMA EachOp ==
  ASSUME page \in Pages, NEW what \in DOMAIN OpsOf(page)
  PROVE  /\ what \in {"create", "update", "toggle", "trigger", "delete"}
         /\ OpsOf(page)[what] \in {"patch", "reload", "none"}
         /\ OpsOf(page)[what] = "none" <=> what = "trigger"
         /\ what = "update" => OpsOf(page)[what] = "reload"
         /\ page = "devices" => what = "delete"
         /\ what = "toggle" => page = "instances"
         /\ what = "create" => page \in {"projects", "servers", "credentials"}
         /\ page = "projects" => OpsOf(page)[what] = "patch"
         /\ what = "create" /\ OpsOf(page)[what] = "patch" => page = "projects"
<1>1. CASE page = "instances"
  BY <1>1, PageOps DEF OpsOf, InstanceOps
<1>2. CASE page = "projects"
  BY <1>2, PageOps DEF OpsOf, ProjectOps
<1>3. CASE page = "servers"
  BY <1>3, PageOps DEF OpsOf, ServerOps
<1>4. CASE page = "credentials"
  BY <1>4, PageOps DEF OpsOf, CredentialOps
<1>5. CASE page = "scripts"
  BY <1>5, PageOps DEF OpsOf, ScriptOps
<1>6. CASE page = "devices"
  BY <1>6, PageOps DEF OpsOf, DeviceOps
<1> QED
  BY <1>1, <1>2, <1>3, <1>4, <1>5, <1>6 DEF Pages

LEMMA RowsFlip ==
  ASSUME NEW x \in Row
  PROVE  /\ Flipped(x) \in Row /\ Flipped(x).id = x.id /\ Flipped(x) # x
         /\ \A y \in Row : y.id = x.id => y = x \/ y = Flipped(x)
<1>1. PICK i \in 1..MaxRows, a \in BOOLEAN : x = [id |-> i, active |-> a]
  BY DEF Row
<1>2. PICK b \in BOOLEAN : Flipped(x) = [id |-> i, active |-> b] /\ (b <=> ~a)
  <2>1. Flipped(x) = [id |-> i, active |-> ~a] /\ (~a) \in BOOLEAN
    BY <1>1 DEF Flipped
  <2> QED
    BY <2>1
<1>3. ASSUME NEW y \in Row, y.id = x.id PROVE y = x \/ y = Flipped(x)
  <2>1. PICK j \in 1..MaxRows, c \in BOOLEAN : y = [id |-> j, active |-> c]
    BY DEF Row
  <2>2. j = i
    BY <1>1, <1>3, <2>1
  <2>3. (c <=> a) \/ (c <=> b)
    BY <1>2
  <2> QED
    BY <1>1, <1>2, <2>1, <2>2, <2>3
<1>4. Flipped(x) \in Row /\ Flipped(x).id = x.id
  BY <1>1, <1>2 DEF Row
<1>5. Flipped(x) # x
  BY <1>1, <1>2
<1> QED
  BY <1>3, <1>4, <1>5

LEMMA CardsShow ==
  ASSUME NEW set
  PROVE  /\ Cards(set) \in [Row -> Nat]
         /\ \A x \in Row : Cards(set)[x] = IF x \in set THEN 1 ELSE 0
BY DEF Cards

(* A request of the page, as it is sent.                                   *)
LEMMA ListAsks ==
  ASSUME NEW of, NEW what \in DOMAIN OpsOf(page) \cup {"list"}, NEW arg,
         what \notin {"list", "create"} => arg \in Row /\ KnownId(arg)
  PROVE  LET q == Ask(of, what, arg) IN
         ListRequest(q) /\ q.of = of /\ q.what = what /\ q.state = "sent"
BY AskAsks DEF ListRequest

(* A new request repairs nothing, and spoils nothing.                      *)
LEMMA ListGrows ==
  ASSUME ListInv, UNCHANGED <<page, rows, made, shown, visit, off>>,
         busy' \in BOOLEAN, saving' \in BOOLEAN,
         NEW q, ListRequest(q), q.state = "sent", lnet' = lnet \cup {q}
  PROVE  ListInv'
<1>1. ListTypeOK'
  BY DEF ListInv, ListTypeOK, ListRequest
<1>2. \A r \in lnet' : ListRequest(r)'
  BY DEF ListInv, ListRequest, KnownId, StoredId
<1>3. RowsHold'
  BY DEF ListInv, RowsHold, KnownId
<1>4. ~off => (Reloading \/ PatchesRepair)'
  <2>1. Reloading => Reloading'
    BY DEF Reloading, Heard, Reloads
  <2>2. PatchesRepair => PatchesRepair'
    <3>1. /\ \A i : ShownId(i)' <=> ShownId(i)
          /\ \A i : StoredId(i)' <=> StoredId(i)
      BY DEF ShownId, StoredId
    <3>2. /\ \A x, what : Awaits(x, what) => Awaits(x, what)'
          /\ \A i : Removed(i) => Removed(i)'
      BY DEF Awaits, Removed
    <3>3. CreatedUnseen => CreatedUnseen'
      BY <3>1 DEF CreatedUnseen
    <3> QED
      BY <3>1, <3>2, <3>3 DEF PatchesRepair, OneCard, EachHasCard, NoneTooMuch
  <2> QED
    BY <2>1, <2>2 DEF ListInv
<1> QED
  BY <1>1, <1>2, <1>3, <1>4 DEF ListInv

LEMMA ListPresses ==
  ASSUME ListInv, NEW op, NEW arg, Press(op, arg)
  PROVE  ListInv'
<1>1. /\ op \in DOMAIN OpsOf(page) /\ (op # "create" => arg \in Row /\ shown[arg] > 0)
      /\ lnet' = lnet \cup {Ask([visit |-> visit, n |-> ops + 1], op, arg)}
      /\ UNCHANGED <<page, rows, made, shown, busy, visit, off>>
      /\ saving' = (saving \/ OneAtATime(op))
  BY DEF Press, Offered
<1>2. op # "create" => KnownId(arg)
  BY <1>1 DEF ListInv, RowsHold
<1>3. LET q == Ask([visit |-> visit, n |-> ops + 1], op, arg) IN ListRequest(q) /\ q.state = "sent"
  BY <1>1, <1>2, ListAsks
<1>4. busy' \in BOOLEAN /\ saving' \in BOOLEAN
  BY <1>1 DEF ListInv, ListTypeOK, OneAtATime
<1> QED
  BY <1>1, <1>3, <1>4, ListGrows

LEMMA ReopenKeeps == ASSUME ListInv, Reopen PROVE ListInv'
<1> DEFINE new == FetchAll([visit |-> visit + 1, n |-> 0])
<1>1. /\ visit' = visit + 1 /\ busy' = TRUE /\ saving' = FALSE /\ lnet' = lnet \cup {new}
      /\ shown' = (IF page = "devices" THEN Cards({}) ELSE shown)
      /\ UNCHANGED <<page, rows, made, off>>
  BY DEF Reopen
<1>2. ListRequest(new) /\ new.of = [visit |-> visit + 1, n |-> 0] /\ new.what = "list"
      /\ new.state = "sent"
  BY ListAsks DEF FetchAll
<1> HIDE DEF new
<1>3. shown' \in [Row -> Nat] /\ \A x \in Row : shown'[x] > 0 => shown[x] > 0
  BY <1>1, CardsShow DEF ListInv, ListTypeOK
<1>4. ListTypeOK'
  BY <1>1, <1>2, <1>3 DEF ListInv, ListTypeOK, ListRequest
<1>5. \A r \in lnet' : ListRequest(r)'
  BY <1>1, <1>2 DEF ListInv, ListRequest, KnownId, StoredId
<1>6. RowsHold'
  BY <1>1, <1>3 DEF ListInv, RowsHold, KnownId
<1>7. Reloading'
  BY <1>1, <1>2 DEF Reloading, Heard, Reloads
<1> QED
  BY <1>4, <1>5, <1>6, <1>7 DEF ListInv

(* When something is off, only types and ids matter.                       *)
LEMMA ListOff ==
  ASSUME ListTypeOK', \A r \in lnet' : ListRequest(r)', RowsHold', off'
  PROVE  ListInv'
BY DEF ListInv

LEMMA ListLostKeeps == ASSUME ListInv, NEW r \in lnet, ListLost(r) PROVE ListInv'
<1>1. /\ ListRequest(r) /\ IsRequest(r) /\ lnet' = Fail(lnet, r) /\ off' = TRUE
      /\ UNCHANGED <<page, rows, made, shown, busy, saving, visit>>
  BY DEF ListLost, ListInv, ListRequest
<1>2. lnet' = (lnet \ {r}) \cup {Broken(r)} /\ FailedAs(Broken(r), r)
  BY <1>1, FailFails
<1>3. ListRequest(Broken(r))
  BY <1>1, <1>2 DEF ListRequest, FailedAs, Same
<1>4. \A q \in lnet' : ListRequest(q)'
  BY <1>1, <1>2, <1>3 DEF ListInv, ListRequest, KnownId, StoredId
<1>5. ListTypeOK'
  BY <1>1, <1>4 DEF ListInv, ListTypeOK, ListRequest
<1>6. RowsHold'
  BY <1>1 DEF ListInv, RowsHold, KnownId
<1> QED
  BY <1>1, <1>4, <1>5, <1>6, ListOff

LEMMA FreshIsNew ==
  ASSUME ListInv, made < MaxRows
  PROVE  Fresh \in Row /\ Fresh.id = made + 1 /\ made + 1 \in 0..MaxRows /\ ~StoredId(made + 1)
         /\ ~ShownId(made + 1)
<1>1. Fresh \in Row /\ Fresh.id = made + 1 /\ made + 1 \in 0..MaxRows /\ made \in Nat
  BY ListAssumption DEF ListInv, ListTypeOK, Fresh, Row
<1>2. \A x \in Row : x.id \in Nat
  BY ListAssumption DEF Row
<1> QED
  BY <1>1, <1>2 DEF ListInv, ListTypeOK, RowsHold, KnownId, StoredId, ShownId

LEMMA RowsChangeElsewhereKeeps == ASSUME ListInv, RowsChangeElsewhere PROVE ListInv'
<1>1. off' = TRUE /\ UNCHANGED <<page, shown, busy, saving, lnet, visit>>
  BY DEF RowsChangeElsewhere
<1>2. \/ rows' \subseteq rows /\ made' = made
      \/ made < MaxRows /\ rows' = rows \cup {Fresh} /\ made' = made + 1
  BY DEF RowsChangeElsewhere
<1>3. /\ rows' \subseteq Row /\ made' \in 0..MaxRows /\ made <= made' /\ made \in Nat
      /\ \A x \in rows' : x \in rows \/ (x.id = made' /\ made' = made + 1)
      /\ \A x, y \in rows' : x.id = y.id => x = y
  <2>1. /\ rows \subseteq Row /\ made \in 0..MaxRows /\ made \in Nat
        /\ \A x, y \in rows : x.id = y.id => x = y
    BY ListAssumption DEF ListInv, ListTypeOK, RowsHold
  <2>2. CASE rows' \subseteq rows /\ made' = made
    <3>1. \A x \in rows' : x \in rows
      BY <2>2
    <3>2. made' \in 0..MaxRows /\ made <= made'
      BY <2>1, <2>2
    <3> QED
      BY <2>1, <3>1, <3>2
  <2>3. CASE made < MaxRows /\ rows' = rows \cup {Fresh} /\ made' = made + 1
    <3>1. Fresh \in Row /\ Fresh.id = made + 1 /\ made + 1 \in 0..MaxRows
          /\ \A x \in rows : x.id # made + 1
      BY <2>3, FreshIsNew DEF StoredId
    <3> QED
      BY <2>1, <2>3, <3>1
  <2> QED
    BY <1>2, <2>2, <2>3
<1>4. \A x \in Row : x.id \in Nat
  BY ListAssumption DEF Row
<1>5. \A x \in Row : KnownId(x) => KnownId(x)' /\ (~StoredId(x.id) => ~StoredId(x.id)')
  BY <1>3, <1>4 DEF KnownId, StoredId
<1>6. \A q \in lnet' : ListRequest(q)'
  <2> SUFFICES ASSUME NEW q \in lnet PROVE ListRequest(q)'
    BY <1>1
  <2>1. ListRequest(q) /\ q.what \in {"list", "create", "toggle", "update", "trigger", "delete"}
    BY EachOp DEF ListInv, ListTypeOK, ListRequest
  <2> QED
    BY <1>1, <1>5, <2>1 DEF ListRequest
<1>7. ListTypeOK'
  BY <1>1, <1>3 DEF ListInv, ListTypeOK
<1>8. RowsHold'
  BY <1>1, <1>3, <1>4, <1>5 DEF ListInv, ListTypeOK, RowsHold, KnownId
<1> QED
  BY <1>1, <1>6, <1>7, <1>8, ListOff


(* The edge answers or fails a request: what the page waits for stays.     *)
LEMMA ListStaysAwaited ==
  ASSUME ListInv, NEW r \in lnet, r.state = "sent", NEW new, Same(new, r),
         UNCHANGED <<page, shown, visit>>, lnet' = (lnet \ {r}) \cup {new}
  PROVE  /\ \A x, what : Awaits(x, what) => Awaits(x, what)'
         /\ \A i : Removed(i) => Removed(i)'
         /\ \A i : ShownId(i)' <=> ShownId(i)
         /\ (r.what # "list" \/ new.state = "served") => (Reloading => Reloading')
         /\ (Reloads(new) /\ Heard(new)) => Reloading'
<1>1. \A x, what : Awaits(x, what) => Awaits(x, what)'
  BY DEF Awaits
<1>2. \A i : Removed(i) => Removed(i)'
  BY DEF Removed
<1>3. \A i : ShownId(i)' <=> ShownId(i)
  BY DEF ShownId
<1>4. ASSUME r.what # "list" \/ new.state = "served", Reloading PROVE Reloading'
  <2>1. PICK q \in lnet : Heard(q) /\ Reloads(q)
    BY <1>4 DEF Reloading
  <2>2. CASE q = r
    <3>1. r.what = "list"
      BY <2>1, <2>2 DEF Reloads
    <3> QED
      BY <1>4, <2>1, <2>2, <3>1 DEF Reloading, Reloads, Heard, Same
  <2>3. CASE q # r
    BY <2>1, <2>3 DEF Reloading, Reloads, Heard
  <2> QED
    BY <2>2, <2>3
<1>5. ASSUME Reloads(new), Heard(new) PROVE Reloading'
  BY <1>5 DEF Reloading, Reloads, Heard
<1> QED
  BY <1>1, <1>2, <1>3, <1>4, <1>5

(* A list is answered, a run is started, or a row is not found.            *)
LEMMA ServeNothing ==
  ASSUME ListInv, NEW r \in lnet, r.state = "sent", NEW new, Same(new, r), ListRequest(new),
         new.state = "failed" => r.what # "list",
         new.state \in {"served", "failed"},
         r.what \notin {"create", "toggle"} \/ new.state = "failed",
         UNCHANGED <<page, rows, made, shown, busy, saving, visit, off>>,
         lnet' = (lnet \ {r}) \cup {new}
  PROVE  ListInv'
<1>1. ListTypeOK'
  BY DEF ListInv, ListTypeOK, ListRequest
<1>2. \A q \in lnet' : ListRequest(q)'
  BY DEF ListInv, ListRequest, KnownId, StoredId
<1>3. RowsHold'
  BY DEF ListInv, RowsHold, KnownId
<1>4. \A i : StoredId(i)' <=> StoredId(i)
  BY DEF StoredId
<1>5. Reloading => Reloading'
  BY ListStaysAwaited
<1>6. PatchesRepair => PatchesRepair'
  <2>1. CreatedUnseen => CreatedUnseen'
    BY ListStaysAwaited DEF CreatedUnseen, Same
  <2> QED
    BY <1>4, <2>1, ListStaysAwaited DEF PatchesRepair, OneCard, EachHasCard, NoneTooMuch
<1> QED
  BY <1>1, <1>2, <1>3, <1>5, <1>6 DEF ListInv

LEMMA ServeCreate ==
  ASSUME ListInv, NEW r \in lnet, r.state = "sent", r.what = "create", made < MaxRows,
         NEW new, ServedAs(new, r, Fresh), lnet' = (lnet \ {r}) \cup {new},
         rows' = rows \cup {Fresh}, made' = made + 1,
         UNCHANGED <<page, shown, busy, saving, visit, off>>
  PROVE  ListInv'
<1>1. Fresh \in Row /\ Fresh.id = made + 1 /\ made + 1 \in 0..MaxRows /\ ~StoredId(made + 1)
      /\ ~ShownId(made + 1)
  BY FreshIsNew
<1>2. rows \subseteq Row /\ made \in Nat /\ \A x \in Row : x.id \in Nat
  BY ListAssumption DEF ListInv, ListTypeOK, Row
<1>3. \A x \in Row : KnownId(x) => KnownId(x)' /\ x.id # made + 1
  BY <1>2 DEF KnownId
<1>4. /\ Same(new, r) /\ new.what = "create" /\ new.state = "served" /\ new.answer = Fresh
      /\ IsRequest(new) /\ "create" \in DOMAIN OpsOf(page)
  BY DEF ServedAs, Same, ListInv, ListRequest
<1>5. ListTypeOK'
  BY <1>1, <1>2, <1>4 DEF ListInv, ListTypeOK
<1>6. \A i : StoredId(i)' <=> StoredId(i) \/ i = made + 1
  BY <1>1 DEF StoredId
<1>7. \A q \in lnet' : ListRequest(q)'
  <2>1. ListRequest(new)'
    BY <1>1, <1>2, <1>4 DEF ListRequest, KnownId
  <2>2. ASSUME NEW q \in lnet PROVE ListRequest(q)'
    <3>1. ListRequest(q) /\ q.what \in {"list", "create", "toggle", "update", "trigger", "delete"}
      BY EachOp DEF ListInv, ListTypeOK, ListRequest
    <3> QED
      BY <1>3, <1>6, <3>1 DEF ListRequest
  <2> QED
    BY <2>1, <2>2
<1>8. RowsHold'
  <2>1. \A x \in rows' : KnownId(x)'
    BY <1>1, <1>2, <1>3 DEF ListInv, RowsHold, KnownId
  <2>2. \A x, y \in rows' : x.id = y.id => x = y
    BY <1>1 DEF ListInv, RowsHold, StoredId
  <2>3. \A x \in Row : shown'[x] > 0 => KnownId(x)'
    BY <1>3 DEF ListInv, RowsHold
  <2> QED
    BY <2>1, <2>2, <2>3 DEF RowsHold
<1>9. Reloading => Reloading'
  BY <1>4, ListStaysAwaited
<1>10. PatchesRepair => PatchesRepair'
  <2> SUFFICES ASSUME PatchesRepair PROVE PatchesRepair'
    OBVIOUS
  <2>1. /\ \A x, what : Awaits(x, what) => Awaits(x, what)'
        /\ \A i : Removed(i) => Removed(i)'
        /\ \A i : ShownId(i)' <=> ShownId(i)
    BY <1>4, ListStaysAwaited
  <2>6. PICK fresh \in Row : fresh = Fresh
    BY <1>1
  <2>2. Awaits(fresh, "create")'
    BY <1>4, <2>6 DEF Awaits
  <2>3. OneCard' /\ EachHasCard' /\ NoneTooMuch'
    BY <1>1, <1>6, <2>1, <2>6, <2>2 DEF PatchesRepair, OneCard, EachHasCard, NoneTooMuch
  <2>4. \A p \in lnet : p.what = "create" /\ p.state = "served" =>
          p.answer.id # made + 1
    BY <1>3 DEF ListInv, ListRequest
  <2>5. CreatedUnseen'
    BY <1>1, <1>4, <2>1, <2>4 DEF PatchesRepair, CreatedUnseen
  <2> QED
    BY <2>3, <2>5 DEF PatchesRepair
<1> QED
  BY <1>5, <1>7, <1>8, <1>9, <1>10 DEF ListInv

LEMMA ServeFlip ==
  ASSUME ListInv, NEW r \in lnet, r.state = "sent", r.what \in {"toggle", "update"},
         StoredId(r.arg.id),
         NEW new, ServedAs(new, r, Flipped(r.arg)), lnet' = (lnet \ {r}) \cup {new},
         rows' = {x \in rows : x.id # r.arg.id} \cup {Flipped(r.arg)},
         UNCHANGED <<page, made, shown, busy, saving, visit, off>>
  PROVE  ListInv'
<1> DEFINE flip == Flipped(r.arg)
<1>1. r.arg \in Row /\ KnownId(r.arg) /\ r.what \in DOMAIN OpsOf(page) /\ page \in Pages
  BY DEF ListInv, ListTypeOK, ListRequest
<1>2. flip \in Row /\ flip.id = r.arg.id
  BY <1>1, RowsFlip
<1>3. /\ Same(new, r) /\ new.what = r.what /\ new.state = "served" /\ new.answer = flip
      /\ IsRequest(new) /\ new.arg = r.arg /\ new.of = r.of
  BY DEF ServedAs, Same
<1> HIDE DEF flip
<1>4. rows' = {x \in rows : x.id # r.arg.id} \cup {flip}
  BY DEF flip
<1>5. \A i : StoredId(i)' <=> StoredId(i)
  BY <1>2, <1>4 DEF StoredId
<1>6. ListTypeOK'
  BY <1>1, <1>2, <1>3, <1>4 DEF ListInv, ListTypeOK
<1>7. \A q \in lnet' : ListRequest(q)'
  <2>1. ListRequest(new)'
    BY <1>1, <1>2, <1>3 DEF ListRequest, KnownId
  <2>2. ASSUME NEW q \in lnet PROVE ListRequest(q)'
    BY <1>5 DEF ListInv, ListRequest, KnownId
  <2> QED
    BY <2>1, <2>2
<1>8. RowsHold'
  BY <1>1, <1>2, <1>4 DEF ListInv, RowsHold, KnownId
<1>9. Reloading => Reloading'
  BY <1>1, <1>3, ListStaysAwaited
<1>10. CASE r.what = "update"
  <2>1. OpsOf(page)[r.what] = "reload" /\ page # "devices"
    BY <1>1, <1>10, EachOp
  <2>2. Reloads(new) /\ Heard(new)
    BY <1>3, <1>10, <2>1 DEF Reloads, Heard
  <2>3. Reloading'
    BY <1>3, <2>2, ListStaysAwaited
  <2> QED
    BY <1>6, <1>7, <1>8, <2>3 DEF ListInv
<1>11. CASE r.what = "toggle"
  <2>1. page = "instances"
    BY <1>1, <1>11, EachOp
  <2>2. \A q \in lnet : q.what # "create"
    BY <2>1, <1>1, EachOp DEF ListInv, ListRequest
  <2>3. ASSUME PatchesRepair PROVE PatchesRepair'
    <3>1. /\ \A x, what : Awaits(x, what) => Awaits(x, what)'
          /\ \A i : Removed(i) => Removed(i)'
          /\ \A i : ShownId(i)' <=> ShownId(i)
      BY <1>3, ListStaysAwaited
    <3>2. Awaits(flip, "toggle")' /\ (\A x : ~Awaits(x, "create"))
      BY <1>3, <1>11, <2>2 DEF Awaits
    <3>3. ShownId(flip.id)
      <4>1. PICK y \in rows : y.id = r.arg.id
        BY DEF StoredId
      <4>2. y \in Row /\ (shown[y] = 1 \/ ShownId(y.id))
        BY <2>3, <3>2 DEF PatchesRepair, EachHasCard, ListInv, ListTypeOK
      <4> QED
        BY <1>2, <4>1, <4>2 DEF ShownId
    <3>4. OneCard' /\ NoneTooMuch'
      BY <1>5, <2>3, <3>1 DEF PatchesRepair, OneCard, NoneTooMuch
    <3>5. EachHasCard'
      BY <1>4, <2>3, <3>1, <3>2, <3>3 DEF PatchesRepair, EachHasCard
    <3>6. CreatedUnseen'
      BY <1>3, <1>11, <2>2 DEF CreatedUnseen
    <3> QED
      BY <3>4, <3>5, <3>6 DEF PatchesRepair
  <2> QED
    BY <1>6, <1>7, <1>8, <1>9, <2>3 DEF ListInv
<1> QED
  BY <1>10, <1>11

LEMMA ServeDelete ==
  ASSUME ListInv, NEW r \in lnet, r.state = "sent", r.what = "delete",
         NEW new, ServedAs(new, r, None), lnet' = (lnet \ {r}) \cup {new},
         rows' = {x \in rows : x.id # r.arg.id},
         UNCHANGED <<page, made, shown, busy, saving, visit, off>>
  PROVE  ListInv'
<1>1. r.arg \in Row /\ KnownId(r.arg) /\ r.what \in DOMAIN OpsOf(page)
  BY DEF ListInv, ListTypeOK, ListRequest
<1>2. /\ Same(new, r) /\ new.what = "delete" /\ new.state = "served"
      /\ IsRequest(new) /\ new.arg = r.arg
  BY DEF ServedAs, Same
<1>3. \A i : StoredId(i)' <=> StoredId(i) /\ i # r.arg.id
  BY DEF StoredId
<1>4. ListTypeOK'
  BY <1>1, <1>2 DEF ListInv, ListTypeOK
<1>5. \A q \in lnet' : ListRequest(q)'
  <2>1. ListRequest(new)'
    BY <1>1, <1>2, <1>3 DEF ListRequest, KnownId
  <2>2. ASSUME NEW q \in lnet PROVE ListRequest(q)'
    BY <1>3 DEF ListInv, ListRequest, KnownId
  <2> QED
    BY <2>1, <2>2
<1>6. RowsHold'
  BY DEF ListInv, RowsHold, KnownId
<1>7. Reloading => Reloading'
  BY <1>2, ListStaysAwaited
<1>8. ASSUME PatchesRepair PROVE PatchesRepair'
  <2>1. /\ \A x, what : Awaits(x, what) => Awaits(x, what)'
        /\ \A i : Removed(i) => Removed(i)'
        /\ \A i : ShownId(i)' <=> ShownId(i)
    BY <1>2, ListStaysAwaited
  <2>2. Removed(r.arg.id)'
    BY <1>2 DEF Removed
  <2>3. OneCard' /\ EachHasCard' /\ NoneTooMuch'
    BY <1>3, <1>8, <2>1, <2>2 DEF PatchesRepair, OneCard, EachHasCard, NoneTooMuch
  <2>4. CreatedUnseen'
    BY <1>2, <1>8, <2>1 DEF PatchesRepair, CreatedUnseen
  <2> QED
    BY <2>3, <2>4 DEF PatchesRepair
<1> QED
  BY <1>4, <1>5, <1>6, <1>7, <1>8 DEF ListInv

LEMMA ServeListKeeps == ASSUME ListInv, NEW r \in lnet, ServeList(r) PROVE ListInv'
<1>1. /\ r.state = "sent" /\ ListRequest(r) /\ IsRequest(r)
      /\ UNCHANGED <<page, shown, busy, saving, visit, off>>
  BY DEF ServeList, ListInv, ListRequest
<1>2. /\ \A answer : Answer(lnet, r, answer) = (lnet \ {r}) \cup {Given(r, answer)}
      /\ \A answer : ServedAs(Given(r, answer), r, answer)
      /\ Fail(lnet, r) = (lnet \ {r}) \cup {Broken(r)} /\ FailedAs(Broken(r), r)
  BY <1>1, AnswerAnswers, FailFails
<1>3. CASE r.what = "list" /\ Store({}, {}, r, rows) /\ UNCHANGED made
  <2>1. rows' = rows /\ lnet' = (lnet \ {r}) \cup {Given(r, rows)}
    BY <1>2, <1>3 DEF Store
  <2>2. PICK new : new = Given(r, rows)
    OBVIOUS
  <2>3. ServedAs(new, r, rows) /\ lnet' = (lnet \ {r}) \cup {new}
    BY <1>2, <2>1, <2>2
  <2>4. ListRequest(new) /\ Same(new, r) /\ new.state = "served"
    BY <1>1, <1>3, <2>3 DEF ServedAs, Same, ListRequest, ListInv, ListTypeOK, RowsHold
  <2> QED
    BY <1>1, <1>3, <2>1, <2>3, <2>4, ServeNothing
<1>4. CASE r.what = "create" /\ made < MaxRows /\ Store({}, {Fresh}, r, Fresh) /\ made' = made + 1
  <2>1. PICK new : new = Given(r, Fresh)
    OBVIOUS
  <2>2. ServedAs(new, r, Fresh) /\ lnet' = (lnet \ {r}) \cup {new} /\ rows' = rows \cup {Fresh}
    BY <1>2, <1>4, <2>1 DEF Store
  <2> QED
    BY <1>1, <1>4, <2>2, ServeCreate
<1>5. CASE /\ r.what \in {"toggle", "update"} /\ Stored(r.arg)
           /\ Store({r.arg.id}, {Flipped(r.arg)}, r, Flipped(r.arg)) /\ UNCHANGED made
  <2>1. /\ rows' = {x \in rows : x.id # r.arg.id} \cup {Flipped(r.arg)}
        /\ lnet' = (lnet \ {r}) \cup {Given(r, Flipped(r.arg))} /\ StoredId(r.arg.id)
    BY <1>2, <1>5 DEF Store, Stored, StoredId
  <2> QED
    BY <1>1, <1>2, <1>5, <2>1, ServeFlip
<1>6. CASE r.what = "trigger" /\ Stored(r.arg) /\ Store({}, {}, r, None) /\ UNCHANGED made
  <2>1. rows' = rows /\ lnet' = (lnet \ {r}) \cup {Given(r, None)}
    BY <1>2, <1>6 DEF Store
  <2>2. ServedAs(Given(r, None), r, None)
    BY <1>2
  <2>3. ListRequest(Given(r, None)) /\ Same(Given(r, None), r) /\ Given(r, None).state = "served"
    BY <1>1, <1>6, <2>2 DEF ServedAs, Same, ListRequest
  <2> QED
    BY <1>1, <1>6, <2>1, <2>3, ServeNothing
<1>7. CASE /\ r.what = "delete" /\ Stored(r.arg)
           /\ Store({r.arg.id}, {}, r, None) /\ UNCHANGED made
  <2>1. rows' = {x \in rows : x.id # r.arg.id} /\ lnet' = (lnet \ {r}) \cup {Given(r, None)}
    BY <1>2, <1>7 DEF Store
  <2> QED
    BY <1>1, <1>2, <1>7, <2>1, ServeDelete
<1>8. CASE /\ r.what \notin {"list", "create"} /\ ~Stored(r.arg) /\ ToldGone(r)
           /\ lnet' = Fail(lnet, r) /\ UNCHANGED <<rows, made>>
  <2>1. lnet' = (lnet \ {r}) \cup {Broken(r)}
    BY <1>2, <1>8
  <2>2. ListRequest(Broken(r)) /\ Same(Broken(r), r) /\ Broken(r).state = "failed"
    BY <1>1, <1>2 DEF FailedAs, Same, ListRequest
  <2> QED
    BY <1>1, <1>8, <2>1, <2>2, ServeNothing
<1>9. CASE /\ r.what \notin {"list", "create"} /\ ~Stored(r.arg) /\ ~ToldGone(r)
           /\ lnet' = Answer(lnet, r, None) /\ UNCHANGED <<rows, made>>
  <2>1. PICK new : new = Given(r, None)
    OBVIOUS
  <2>2. ServedAs(new, r, None) /\ lnet' = (lnet \ {r}) \cup {new}
    BY <1>2, <1>9, <2>1
  <2>3. r.what # "toggle" /\ (r.what = "delete" => ~StoredId(r.arg.id))
    BY <1>9 DEF ToldGone, Stored, StoredId
  <2>4. ListRequest(new) /\ Same(new, r) /\ new.state = "served"
    BY <1>1, <1>9, <2>2, <2>3 DEF ServedAs, Same, ListRequest
  <2> QED
    BY <1>1, <1>9, <2>2, <2>3, <2>4, ServeNothing
<1> QED
  BY <1>3, <1>4, <1>5, <1>6, <1>7, <1>8, <1>9 DEF ServeList

(* A request goes whose answer patches nothing.                            *)
LEMMA ListForgets ==
  ASSUME ListInv, NEW r \in lnet, lnet' = lnet \ {r}, ~(Heard(r) /\ Reloads(r)),
         r.state = "failed" \/ r.what = "trigger" \/ off',
         UNCHANGED <<page, rows, made, shown, visit>>, off => off',
         busy' \in BOOLEAN, saving' \in BOOLEAN, off' \in BOOLEAN
  PROVE  ListInv'
<1>1. ListTypeOK'
  BY DEF ListInv, ListTypeOK
<1>2. \A q \in lnet' : ListRequest(q)'
  BY DEF ListInv, ListRequest, KnownId, StoredId
<1>3. RowsHold'
  BY DEF ListInv, RowsHold, KnownId
<1>4. ASSUME Reloading PROVE Reloading'
  BY <1>4 DEF Reloading, Heard, Reloads
<1>5. ASSUME PatchesRepair, ~off' PROVE PatchesRepair'
  <2>1. /\ \A i : StoredId(i)' <=> StoredId(i)
        /\ \A i : ShownId(i)' <=> ShownId(i)
    BY DEF StoredId, ShownId
  <2>2. \A x, what : what \in {"create", "toggle"} /\ Awaits(x, what) => Awaits(x, what)'
    BY <1>5 DEF Awaits
  <2>3. \A i : Removed(i) => Removed(i)'
    BY <1>5 DEF Removed
  <2>4. CreatedUnseen'
    BY <1>5, <2>1 DEF PatchesRepair, CreatedUnseen
  <2> QED
    BY <1>5, <2>1, <2>2, <2>3, <2>4 DEF PatchesRepair, OneCard, EachHasCard, NoneTooMuch
<1> QED
  BY <1>1, <1>2, <1>3, <1>4, <1>5 DEF ListInv

LEMMA OpFailedKeeps == ASSUME ListInv, NEW r \in lnet, OpFailed(r) PROVE ListInv'
<1>1. /\ r.state = "failed" /\ lnet' = lnet \ {r}
      /\ UNCHANGED <<page, rows, made, shown, busy, visit, off>>
  BY DEF OpFailed
<1>2. saving' \in BOOLEAN /\ busy' \in BOOLEAN /\ off' \in BOOLEAN
  BY DEF OpFailed, ListInv, ListTypeOK
<1>3. ~Reloads(r)
  BY <1>1 DEF Reloads
<1> QED
  BY <1>1, <1>2, <1>3, ListForgets

LEMMA UnheardKeeps == ASSUME ListInv, NEW r \in lnet, Unheard(r) PROVE ListInv'
<1>1. /\ r.state # "sent" /\ ~Heard(r) /\ lnet' = lnet \ {r} /\ off' = (off \/ r.what = "delete")
      /\ UNCHANGED <<page, rows, made, shown, busy, saving, visit>>
      /\ page = "devices" /\ page \in Pages /\ ListRequest(r)
  BY DEF Unheard, Heard, ListInv, ListTypeOK
<1>2. busy' \in BOOLEAN /\ saving' \in BOOLEAN /\ off' \in BOOLEAN
  BY <1>1 DEF ListInv, ListTypeOK
<1>3. CASE r.what = "list"
  <2>1. ListTypeOK'
    BY <1>1, <1>2 DEF ListInv, ListTypeOK
  <2>2. \A q \in lnet' : ListRequest(q)'
    BY <1>1 DEF ListInv, ListRequest, KnownId, StoredId
  <2>3. RowsHold'
    BY <1>1 DEF ListInv, RowsHold, KnownId
  <2>4. Reloading => Reloading'
    BY <1>1 DEF Reloading, Heard, Reloads
  <2>5. PatchesRepair => PatchesRepair'
    BY <1>1, <1>3 DEF PatchesRepair, OneCard, EachHasCard, NoneTooMuch, CreatedUnseen, Awaits,
       Removed, ShownId, StoredId
  <2> QED
    BY <1>1, <2>1, <2>2, <2>3, <2>4, <2>5 DEF ListInv
<1>4. CASE r.what # "list"
  <2>1. r.what = "delete"
    BY <1>1, <1>4, EachOp DEF ListRequest
  <2> QED
    BY <1>1, <1>2, <2>1, ListForgets
<1> QED
  BY <1>3, <1>4

(* The list as it was when it was read, with no row about to be added to   *)
(* it, leaves nothing to be repaired but what a list on its way will.      *)
LEMMA ListAnsweredKeeps == ASSUME ListInv, NEW r \in lnet, ListAnswered(r) PROVE ListInv'
<1>1. /\ r.what = "list" /\ r.state # "sent" /\ ListRequest(r) /\ lnet' = lnet \ {r}
      /\ UNCHANGED <<page, rows, made, visit>> /\ busy' = FALSE
  BY DEF ListAnswered, ListInv
<1>2. busy' \in BOOLEAN /\ saving' \in BOOLEAN
  BY DEF ListAnswered, ListInv, ListTypeOK
<1>3. CASE r.state = "failed"
  <2>1. UNCHANGED <<shown, off>> /\ off' \in BOOLEAN
    BY <1>3 DEF ListAnswered, ListInv, ListTypeOK
  <2>2. ~Reloads(r)
    BY <1>1, <1>3 DEF Reloads
  <2> QED
    BY <1>1, <1>2, <1>3, <2>1, <2>2, ListForgets
<1>4. CASE r.state = "served"
  <2>1. /\ shown' = Cards(r.answer) /\ off' = (r.answer # rows \/ CreatePending)
        /\ r.answer \subseteq Row /\ \A x \in r.answer : KnownId(x)
    BY <1>1, <1>4 DEF ListAnswered, ListRequest
  <2>2. shown' \in [Row -> Nat] /\ \A x \in Row : shown'[x] = IF x \in r.answer THEN 1 ELSE 0
    BY <2>1, CardsShow
  <2>3. ListTypeOK'
    BY <1>1, <1>2, <2>1, <2>2 DEF ListInv, ListTypeOK
  <2>4. \A q \in lnet' : ListRequest(q)'
    BY <1>1 DEF ListInv, ListRequest, KnownId, StoredId
  <2>5. RowsHold'
    BY <1>1, <2>1, <2>2 DEF ListInv, RowsHold, KnownId
  <2>6. ASSUME ~off' PROVE (Reloading \/ PatchesRepair)'
    <3>1. r.answer = rows /\ ~CreatePending
      BY <2>1, <2>6
    <3>2. OneCard' /\ EachHasCard' /\ NoneTooMuch'
      BY <1>1, <2>2, <2>5, <3>1 DEF OneCard, EachHasCard, NoneTooMuch, StoredId, RowsHold, ListInv,
         ListTypeOK
    <3>3. CASE \E q \in lnet : q.what = "create" /\ q.state = "served"
      <4>1. PICK q \in lnet : q.what = "create" /\ q.state = "served"
        BY <3>3
      <4>2. q # r /\ q.what \in DOMAIN OpsOf(page) /\ page \in Pages
        BY <1>1, <4>1 DEF ListInv, ListTypeOK, ListRequest
      <4>3. OpsOf(page)[q.what] = "reload" /\ page # "devices"
        BY <3>1, <4>1, <4>2, EachOp DEF CreatePending
      <4> QED
        BY <1>1, <4>1, <4>2, <4>3 DEF Reloading, Reloads, Heard
    <3>4. CASE ~\E q \in lnet : q.what = "create" /\ q.state = "served"
      BY <1>1, <3>2, <3>4 DEF PatchesRepair, CreatedUnseen
    <3> QED
      BY <3>3, <3>4
  <2> QED
    BY <2>3, <2>4, <2>5, <2>6 DEF ListInv
<1> QED
  BY <1>1, <1>3, <1>4 DEF ListRequest, IsRequest

(* What an answer patches into the page, when no list is on its way.       *)
LEMMA PatchKeeps ==
  ASSUME ListInv, NEW r \in lnet, lnet' = lnet \ {r}, ~Reloads(r),
         UNCHANGED <<page, rows, made, busy, saving, visit>>, off' \in BOOLEAN, off => off',
         shown' \in [Row -> Nat], \A x \in Row : shown'[x] > 0 => KnownId(x),
         ~off' /\ PatchesRepair => PatchesRepair'
  PROVE  ListInv'
<1>1. ListTypeOK'
  BY DEF ListInv, ListTypeOK
<1>2. \A q \in lnet' : ListRequest(q)'
  BY DEF ListInv, ListRequest, KnownId, StoredId
<1>3. RowsHold'
  BY DEF ListInv, RowsHold, KnownId
<1>4. Reloading => Reloading'
  BY DEF Reloading, Heard, Reloads
<1> QED
  BY <1>1, <1>2, <1>3, <1>4 DEF ListInv

LEMMA CreatedPatched ==
  ASSUME ListInv, NEW r \in lnet, Patched(r), r.what = "create" PROVE ListInv'
<1>1. /\ r.state = "served" /\ ListRequest(r) /\ lnet' = lnet \ {r} /\ OpsOf(page)[r.what] # "reload"
      /\ shown' = [shown EXCEPT ![r.answer] = @ + 1]
      /\ off' = (off \/ r.answer \notin rows)
      /\ UNCHANGED <<page, rows, made, busy, saving, visit>>
      /\ r.answer \in Row /\ KnownId(r.answer) /\ shown \in [Row -> Nat]
  BY DEF Patched, ListInv, ListTypeOK, ListRequest
<1>2. /\ shown' \in [Row -> Nat] /\ shown'[r.answer] = shown[r.answer] + 1
      /\ \A x \in Row : x # r.answer => shown'[x] = shown[x]
  BY <1>1
<1>3. \A x \in Row : shown'[x] > 0 => KnownId(x)
  BY <1>1, <1>2 DEF ListInv, RowsHold
<1>4. ASSUME ~off', PatchesRepair PROVE PatchesRepair'
  <2>1. r.answer \in rows /\ ~ShownId(r.answer.id)
    BY <1>1, <1>4 DEF PatchesRepair, CreatedUnseen
  <2>2. shown[r.answer] = 0
    BY <1>1, <2>1 DEF ShownId
  <2>3. \A x \in rows : x # r.answer => x.id # r.answer.id
    BY <2>1 DEF ListInv, RowsHold
  <2>4. \A i : ShownId(i)' <=> ShownId(i) \/ i = r.answer.id
    BY <1>1, <1>2, <2>2 DEF ShownId
  <2>5. OneCard'
    BY <1>1, <1>2, <1>4, <2>1, <2>2 DEF PatchesRepair, OneCard, ShownId
  <2>6. \A x, what : (x # r.answer \/ what # "create") /\ Awaits(x, what) => Awaits(x, what)'
    BY <1>1 DEF Awaits
  <2>7. EachHasCard'
    <3> SUFFICES ASSUME NEW x \in rows
                 PROVE  (\/ shown[x] = 1
                         \/ ShownId(x.id) /\ Awaits(x, "toggle")
                         \/ ~ShownId(x.id) /\ Awaits(x, "create"))'
      BY <1>1 DEF EachHasCard
    <3>1. CASE x = r.answer
      BY <1>2, <2>2, <3>1
    <3>2. CASE x # r.answer
      BY <1>1, <1>2, <1>4, <2>3, <2>4, <2>6, <3>2 DEF PatchesRepair, EachHasCard, ListInv, ListTypeOK
    <3> QED
      BY <3>1, <3>2
  <2>8. NoneTooMuch'
    <3>1. \A i : (Removed(i) => Removed(i)') /\ (StoredId(i) => StoredId(i)')
      BY <1>1 DEF Removed, StoredId
    <3> QED
      BY <1>2, <1>4, <2>1, <3>1 DEF PatchesRepair, NoneTooMuch, StoredId
  <2>9. CreatedUnseen'
    BY <1>1, <1>4, <2>4 DEF PatchesRepair, CreatedUnseen
  <2> QED
    BY <2>5, <2>7, <2>8, <2>9 DEF PatchesRepair
<1> QED
  BY <1>1, <1>2, <1>3, <1>4, PatchKeeps DEF ListInv, ListTypeOK, Reloads

LEMMA ToggledPatched ==
  ASSUME ListInv, NEW r \in lnet, Patched(r), r.what = "toggle" PROVE ListInv'
<1> DEFINE row == r.answer
<1>1. /\ r.state = "served" /\ ListRequest(r) /\ lnet' = lnet \ {r} /\ OpsOf(page)[r.what] # "reload"
      /\ shown' = With(shown, row)
      /\ off' = (off \/ row \notin rows)
      /\ UNCHANGED <<page, rows, made, busy, saving, visit>>
      /\ row \in Row /\ KnownId(row) /\ shown \in [Row -> Nat]
  BY DEF Patched, ListInv, ListTypeOK, ListRequest
<1>2. page = "instances" /\ \A q \in lnet : q.what # "create"
  BY EachOp DEF ListInv, ListTypeOK, ListRequest
<1>3. /\ Flipped(row) \in Row /\ Flipped(row).id = row.id /\ Flipped(row) # row
      /\ \A y \in Row : y.id = row.id => y = row \/ y = Flipped(row)
  BY <1>1, RowsFlip
<1> HIDE DEF row
<1>4. /\ shown'[row] = shown[row] + shown[Flipped(row)] /\ shown'[row] \in Nat
      /\ shown[row] \in Nat /\ shown[Flipped(row)] \in Nat
      /\ \A x \in Row : x.id = row.id /\ x # row => shown'[x] = 0
      /\ \A x \in Row : x.id # row.id => shown'[x] = shown[x]
  BY <1>1, <1>3 DEF With
<1>5. shown' \in [Row -> Nat]
  BY <1>1, <1>3 DEF With
<1>6. \A x \in Row : shown'[x] > 0 => KnownId(x)
  BY <1>1, <1>4 DEF ListInv, RowsHold
<1>7. ASSUME ~off', PatchesRepair PROVE PatchesRepair'
  <2>1. row \in rows /\ \A x \in rows : x # row => x.id # row.id
    BY <1>1, <1>7 DEF ListInv, RowsHold
  <2>2. shown[row] + shown[Flipped(row)] \in {0, 1}
    BY <1>1, <1>3, <1>4, <1>7 DEF PatchesRepair, OneCard
  <2>3. \A x, what : x # row /\ Awaits(x, what) => Awaits(x, what)'
    BY <1>1 DEF Awaits, row
  <2>4. \A x : ~Awaits(x, "create")
    BY <1>2 DEF Awaits
  <2>5. ShownId(row.id)
    BY <1>1, <1>7, <2>1, <2>4 DEF PatchesRepair, EachHasCard, ShownId
  <2>6. shown'[row] = 1
    BY <1>1, <1>3, <1>4, <2>2, <2>5 DEF ShownId
  <2>7. OneCard'
    BY <1>1, <1>4, <1>7, <2>6 DEF PatchesRepair, OneCard
  <2>8. \A i : i # row.id => (ShownId(i)' <=> ShownId(i))
    BY <1>4 DEF ShownId
  <2>9. EachHasCard'
    <3> SUFFICES ASSUME NEW x \in rows
                 PROVE  (\/ shown[x] = 1
                         \/ ShownId(x.id) /\ Awaits(x, "toggle")
                         \/ ~ShownId(x.id) /\ Awaits(x, "create"))'
      BY <1>1 DEF EachHasCard
    <3>1. CASE x = row
      BY <2>6, <3>1
    <3>2. CASE x # row
      BY <1>1, <1>4, <1>7, <2>1, <2>3, <2>4, <2>8, <3>2 DEF PatchesRepair, EachHasCard, ListInv, ListTypeOK
    <3> QED
      BY <3>1, <3>2
  <2>10. NoneTooMuch'
    <3>1. \A i : (Removed(i) => Removed(i)') /\ (StoredId(i) => StoredId(i)')
      BY <1>1 DEF Removed, StoredId
    <3> QED
      BY <1>4, <1>7, <2>1, <3>1 DEF PatchesRepair, NoneTooMuch, StoredId
  <2>11. CreatedUnseen'
    BY <1>1, <1>2 DEF CreatedUnseen
  <2> QED
    BY <2>7, <2>9, <2>10, <2>11 DEF PatchesRepair
<1> QED
  BY <1>1, <1>5, <1>6, <1>7, PatchKeeps DEF ListInv, ListTypeOK, Reloads

LEMMA DeletedPatched ==
  ASSUME ListInv, NEW r \in lnet, Patched(r), r.what = "delete" PROVE ListInv'
<1>1. /\ r.state = "served" /\ ListRequest(r) /\ lnet' = lnet \ {r} /\ OpsOf(page)[r.what] # "reload"
      /\ shown' = Without(shown, r.arg.id) /\ off' = off
      /\ UNCHANGED <<page, rows, made, busy, saving, visit>>
      /\ ~StoredId(r.arg.id) /\ shown \in [Row -> Nat] /\ off \in BOOLEAN
  BY DEF Patched, ListInv, ListTypeOK, ListRequest
<1>2. /\ shown' \in [Row -> Nat]
      /\ \A x \in Row : shown'[x] = IF x.id = r.arg.id THEN 0 ELSE shown[x]
  BY <1>1 DEF Without
<1>3. \A x \in Row : shown'[x] > 0 => KnownId(x)
  BY <1>2 DEF ListInv, RowsHold
<1>4. ASSUME ~off', PatchesRepair PROVE PatchesRepair'
  <2>1. /\ \A i : i # r.arg.id => (ShownId(i)' <=> ShownId(i))
        /\ \A i : ShownId(i)' => ShownId(i)
    BY <1>2 DEF ShownId
  <2>2. \A x \in rows : x.id # r.arg.id
    BY <1>1 DEF StoredId
  <2>3. \A x, what : what # "delete" /\ Awaits(x, what) => Awaits(x, what)'
    BY <1>1 DEF Awaits
  <2>4. \A i : (i # r.arg.id /\ Removed(i) => Removed(i)') /\ (StoredId(i) => StoredId(i)')
    BY <1>1 DEF Removed, StoredId
  <2>5. OneCard' /\ NoneTooMuch'
    BY <1>2, <1>4, <2>4 DEF PatchesRepair, OneCard, NoneTooMuch
  <2>6. EachHasCard'
    BY <1>1, <1>2, <1>4, <2>1, <2>2, <2>3 DEF PatchesRepair, EachHasCard, ListInv, ListTypeOK
  <2>7. CreatedUnseen'
    BY <1>1, <1>4, <2>1 DEF PatchesRepair, CreatedUnseen
  <2> QED
    BY <2>5, <2>6, <2>7 DEF PatchesRepair
<1> QED
  BY <1>1, <1>2, <1>3, <1>4, PatchKeeps DEF Reloads

LEMMA PatchedKeeps == ASSUME ListInv, NEW r \in lnet, Patched(r) PROVE ListInv'
<1>1. /\ r.what \in DOMAIN OpsOf(page) /\ OpsOf(page)[r.what] # "reload" /\ page \in Pages
      /\ r.what # "list"
  BY DEF Patched, ListInv, ListTypeOK, ListRequest
<1>2. r.what \in {"create", "toggle", "trigger", "delete"}
  BY <1>1, EachOp
<1>3. CASE r.what = "trigger"
  <2>1. lnet' = lnet \ {r} /\ shown' = shown /\ off' = off
        /\ UNCHANGED <<page, rows, made, busy, saving, visit>>
    BY <1>3 DEF Patched, ListInv, ListTypeOK
  <2>2. busy' \in BOOLEAN /\ saving' \in BOOLEAN /\ off' \in BOOLEAN
    BY <2>1 DEF ListInv, ListTypeOK
  <2>3. ~Reloads(r)
    BY <1>1 DEF Reloads
  <2> QED
    BY <1>3, <2>1, <2>2, <2>3, ListForgets
<1> QED
  BY <1>2, <1>3, CreatedPatched, ToggledPatched, DeletedPatched

LEMMA ReloadedKeeps == ASSUME ListInv, NEW r \in lnet, Reloaded(r) PROVE ListInv'
<1>1. /\ r.what \in DOMAIN OpsOf(page) /\ page \in Pages /\ OpsOf(page)[r.what] = "reload"
      /\ UNCHANGED <<page, rows, made, shown, visit, off>> /\ busy' = TRUE
      /\ saving' \in BOOLEAN
  BY DEF Reloaded, ListInv, ListTypeOK, ListRequest
<1>2. PICK of : lnet' = (lnet \ {r}) \cup {Ask(of, "list", None)}
  BY DEF Reloaded, FetchAll
<1>3. PICK new : new = Ask(of, "list", None)
  OBVIOUS
<1>4. ListRequest(new) /\ new.what = "list" /\ new.state = "sent" /\ lnet' = (lnet \ {r}) \cup {new}
  BY <1>2, <1>3, ListAsks
<1>5. page # "devices"
  BY <1>1, PageOps DEF OpsOf, DeviceOps
<1>6. Reloading'
  BY <1>1, <1>4, <1>5 DEF Reloading, Reloads, Heard
<1>7. ListTypeOK'
  BY <1>1, <1>4 DEF ListInv, ListTypeOK
<1>8. \A q \in lnet' : ListRequest(q)'
  BY <1>1, <1>4 DEF ListInv, ListRequest, KnownId, StoredId
<1>9. RowsHold'
  BY <1>1 DEF ListInv, RowsHold, KnownId
<1> QED
  BY <1>6, <1>7, <1>8, <1>9 DEF ListInv

LEMMA ListKeeps == ListInv /\ [ListNext]_lvars => ListInv'
<1> SUFFICES ASSUME ListInv, [ListNext]_lvars PROVE ListInv'
  OBVIOUS
<1>1. CASE UNCHANGED lvars
  BY <1>1 DEF lvars, ListInv, ListTypeOK, ListRequest, RowsHold, KnownId, StoredId, ShownId,
     Reloading, Reloads, Heard, PatchesRepair, OneCard, EachHasCard, NoneTooMuch, CreatedUnseen,
     Awaits, Removed
<1> QED
  BY <1>1, ListPresses, ReopenKeeps, RowsChangeElsewhereKeeps, ServeListKeeps, ListLostKeeps,
     ListAnsweredKeeps, PatchedKeeps, ReloadedKeeps, OpFailedKeeps, UnheardKeeps DEF ListNext

LEMMA ListBegins == ListInit => ListInv
<1> SUFFICES ASSUME ListInit PROVE ListInv
  OBVIOUS
<1> DEFINE new == FetchAll([visit |-> 0, n |-> 0])
<1>1. /\ page \in Pages /\ made \in 0..1 /\ rows = {[id |-> i, active |-> TRUE] : i \in 1..made}
      /\ shown = Cards({}) /\ busy = TRUE /\ saving = FALSE /\ visit = 0 /\ off = FALSE
      /\ lnet = {new}
  BY DEF ListInit
<1>2. ListRequest(new) /\ new.of = [visit |-> 0, n |-> 0] /\ new.what = "list" /\ new.state = "sent"
  BY ListAsks DEF FetchAll
<1> HIDE DEF new
<1>3. Reloading
  BY <1>1, <1>2 DEF Reloading, Reloads, Heard
<1>4. shown \in [Row -> Nat] /\ \A x \in Row : shown[x] = 0
  BY <1>1, CardsShow
<1>5. \A x \in rows : KnownId(x) /\ x.id = 1 /\ x = [id |-> 1, active |-> TRUE]
  BY <1>1 DEF KnownId
<1>6. rows \subseteq Row /\ made \in 0..MaxRows
  <2>1. made \in 0..MaxRows /\ \A i \in 1..made : i \in 1..MaxRows
    BY <1>1, ListAssumption
  <2>2. \A i \in 1..made : [id |-> i, active |-> TRUE] \in Row
    BY <2>1 DEF Row
  <2> QED
    BY <1>1, <2>1, <2>2
<1>7. ListTypeOK
  BY <1>1, <1>2, <1>4, <1>6 DEF ListTypeOK
<1>8. RowsHold
  <2>1. \A x, y \in rows : x = y
    BY <1>5
  <2>2. \A x \in rows : KnownId(x)
    BY <1>5
  <2>3. \A x \in Row : ~(shown[x] > 0)
    BY <1>4
  <2> QED
    BY <2>1, <2>2, <2>3 DEF RowsHold
<1> QED
  BY <1>1, <1>2, <1>3, <1>7, <1>8 DEF ListInv

(* What is left when no request is: the cards are the rows.                *)
LEMMA ListSettled == ListInv => ListFollowsServer
<1> SUFFICES ASSUME ListInv, lnet = {}, ~off PROVE shown = Cards(rows)
  BY DEF ListFollowsServer
<1>1. PatchesRepair /\ shown \in [Row -> Nat] /\ rows \subseteq Row
  BY DEF ListInv, ListTypeOK, Reloading
<1>2. \A x \in rows : shown[x] = 1
  BY <1>1 DEF PatchesRepair, EachHasCard, Awaits
<1>3. ASSUME NEW x \in Row, shown[x] = 1 PROVE x \in rows
  <2>1. PICK y \in rows : y.id = x.id
    BY <1>1, <1>3 DEF PatchesRepair, NoneTooMuch, StoredId, Removed
  <2> QED
    BY <1>1, <1>2, <1>3, <2>1 DEF PatchesRepair, OneCard
<1>4. \A x \in Row : shown[x] = IF x \in rows THEN 1 ELSE 0
  BY <1>1, <1>2, <1>3 DEF PatchesRepair, OneCard
<1> QED
  BY <1>1, <1>4 DEF Cards

----------------------------------------------------------------------------
(* The form of an instance.                                                *)
Defaulted(d) == [d EXCEPT !.template = "default"]
Reopped(d) == [d EXCEPT !.op = "new"]
Owned(d) == [d EXCEPT !.template = "own"]

LEMMA DestinationParts ==
  ASSUME NEW d \in Destination
  PROVE  /\ Defaulted(d) \in Destination /\ Defaulted(d).template = "default"
         /\ Reopped(d) \in Destination /\ Owned(d) \in Destination
<1>1. PICK o \in {"old", "new"}, t \in {"empty", "default", "own"} : d = [op |-> o, template |-> t]
  BY DEF Destination
<1>2. Defaulted(d) = [op |-> o, template |-> "default"]
  BY <1>1 DEF Defaulted
<1>3. Reopped(d) = [op |-> "new", template |-> t]
  BY <1>1 DEF Reopped
<1>4. Owned(d) = [op |-> o, template |-> "own"]
  BY <1>1 DEF Owned
<1> QED
  BY <1>2, <1>3, <1>4 DEF Destination

LEMMA EachGroup ==
  /\ Groups = Simple \cup {"inputs", "dests"}
  /\ "inputs" \notin Simple /\ "dests" \notin Simple
  /\ {"basic", "script", "trigger", "orchestration", "fallback", "errors"} \subseteq Simple
  /\ DOMAIN Overwritten = {"status", "creator", "ids"}
  /\ Instance = Groups \cup DOMAIN Overwritten /\ Groups \cap DOMAIN Overwritten = {}
BY DEF Groups, Simple, Overwritten, Instance

(* A save that fails leaves a part of the destinations.                    *)
LEMMA UnmappedParts ==
  ASSUME NEW s \in Seq(Destination), NEW those, NEW t, t = Unmapped(s, those)
  PROVE  /\ t \in Seq(Destination) /\ Len(t) = Len(s)
         /\ \A i \in DOMAIN s : t[i].op = s[i].op /\ t[i].template \in {s[i].template, "empty"}
<1>1. ASSUME NEW i \in DOMAIN s
      PROVE  t[i] \in Destination /\ t[i].op = s[i].op /\ t[i].template \in {s[i].template, "empty"}
  <2>1. PICK o \in {"old", "new"}, e \in {"empty", "default", "own"} : s[i] = [op |-> o, template |-> e]
    <3>1. s[i] \in Destination
      OBVIOUS
    <3> QED
      BY <3>1 DEF Destination
  <2>2. t[i] = [op |-> o, template |-> IF i \in those THEN "empty" ELSE e]
    BY <2>1 DEF Unmapped
  <2> QED
    BY <2>1, <2>2 DEF Destination
<1>2. t = [i \in DOMAIN s |-> t[i]] /\ DOMAIN s = 1..Len(s) /\ Len(s) \in Nat
  BY DEF Unmapped
<1>3. t \in Seq(Destination) /\ Len(t) = Len(s)
  BY <1>1, <1>2
<1> QED
  BY <1>1, <1>3

LEMMA ShortenedAgain ==
  ASSUME NEW l \in Seq(Destination), NEW s \in Seq(Destination), Shortened(l, s),
         NEW those, NEW t, t = Unmapped(s, those)
  PROVE  Shortened(l, t)
<1>1. /\ Len(t) = Len(s) /\ DOMAIN t = DOMAIN s
      /\ \A i \in DOMAIN s : t[i].op = s[i].op /\ t[i].template \in {s[i].template, "empty"}
  BY UnmappedParts
<1> QED
  BY <1>1 DEF Shortened

LEMMA BeginsShortened ==
  ASSUME NEW l \in Seq(Destination), NEW s \in Seq(Destination), Alike("dests", l, s),
         NEW n \in 0..Len(s), NEW t, t = SubSeq(s, 1, n)
  PROVE  t \in Seq(Destination) /\ Len(t) = n /\ Shortened(l, t)
<1>1. t \in Seq(Destination) /\ Len(t) = n /\ \A i \in 1..n : t[i] = s[i]
  OBVIOUS
<1>2. Len(l) = Len(s) /\ DOMAIN l = DOMAIN s
  BY DEF Alike, OnlyCompleted, OnlyMapped
<1>3. ASSUME NEW i \in 1..n
      PROVE  /\ t[i].op = l[i].op
             /\ \/ t[i].template \in {l[i].template, "empty"}
                \/ l[i].template = "empty" /\ t[i].template = "default"
  <2>1. i \in DOMAIN l /\ t[i] = s[i] /\ l[i] \in Destination
    BY <1>1, <1>2
  <2>2. s[i] = l[i] \/ (l[i].template = "empty" /\ s[i] = [l[i] EXCEPT !.template = "default"])
    BY <2>1 DEF Alike, OnlyCompleted, OnlyMapped
  <2>3. [l[i] EXCEPT !.template = "default"].op = l[i].op
        /\ [l[i] EXCEPT !.template = "default"].template = "default"
    BY <2>1 DEF Destination
  <2> QED
    BY <2>1, <2>2, <2>3
<1> QED
  BY <1>1, <1>2, <1>3 DEF Shortened

LEMMA WholeShortened ==
  ASSUME NEW l \in Seq(Destination), NEW s \in Seq(Destination), Alike("dests", l, s)
  PROVE  Shortened(l, s)
<1>1. Len(s) \in 0..Len(s) /\ SubSeq(s, 1, Len(s)) = s
  OBVIOUS
<1> QED
  BY <1>1, BeginsShortened

(* What a tab completes may be completed by another tab.                   *)
LEMMA AlikeChains ==
  ASSUME NEW g \in Groups, NEW a, NEW b, NEW c, Alike(g, a, b), Alike(g, b, c),
         g = "dests" => a \in Seq(Destination) /\ b \in Seq(Destination) /\ c \in Seq(Destination)
  PROVE  Alike(g, a, c)
<1>1. CASE g # "dests"
  BY <1>1 DEF Alike, OnlyCompleted
<1>2. CASE g = "dests"
  <2>1. \A x \in Seq(Destination), y \in Seq(Destination) :
          Alike(g, x, y) <=>
            (Len(x) = Len(y) /\ \A i \in DOMAIN x :
               y[i] = x[i] \/ (x[i].template = "empty" /\ y[i] = Defaulted(x[i])))
    BY <1>2 DEF Alike, OnlyCompleted, OnlyMapped, Defaulted
  <2>2. \A i \in DOMAIN a : a[i] \in Destination /\ Defaulted(a[i]).template = "default"
    BY <1>2, DestinationParts
  <2>3. Len(a) = Len(b) /\ Len(b) = Len(c) /\ DOMAIN a = DOMAIN b
    BY <1>2, <2>1
  <2> QED
    BY <1>2, <2>1, <2>2, <2>3
<1> QED
  BY <1>1, <1>2

LEMMA MappingCompletes ==
  ASSUME NEW s \in Seq(Destination),
         NEW t, t = [i \in DOMAIN s |-> IF s[i].template = "empty" THEN Defaulted(s[i]) ELSE s[i]]
  PROVE  t \in Seq(Destination) /\ Len(t) = Len(s) /\ Alike("dests", s, t)
<1>1. \A i \in DOMAIN s : s[i] \in Destination /\ Defaulted(s[i]) \in Destination
  BY DestinationParts
<1>2. t \in Seq(Destination) /\ Len(t) = Len(s)
  BY <1>1
<1>3. \A i \in DOMAIN s : t[i] = s[i] \/ (s[i].template = "empty" /\ t[i] = Defaulted(s[i]))
  OBVIOUS
<1> QED
  BY <1>2, <1>3 DEF Alike, OnlyCompleted, OnlyMapped, Defaulted

Fits(g, value) ==
  /\ g \in Simple => value \in {"blank", "old", "new"}
  /\ g = "inputs" => value \in {"unset", "default", "own"}
  /\ g = "dests" => value \in Seq(Destination) /\ Len(value) <= MaxDests

Puts(w, v, g, value) ==
  /\ w = [h \in Groups |-> w[h]]
  /\ w[g] = value /\ \A h \in Groups : h # g => w[h] = v[h]

LEMMA ValuesPut ==
  ASSUME NEW v, IsValues(v), NEW g \in Groups, NEW value, Fits(g, value),
         NEW w, Puts(w, v, g, value)
  PROVE  IsValues(w)
BY EachGroup DEF IsValues, AreValues, Fits, Puts

LEMMA TabCompletes ==
  ASSUME NEW v, IsValues(v), NEW t, NEW listed, NEW ops_, NEW w, w = Completed(v, t, listed, ops_)
  PROVE  IsValues(w) /\ \A g \in Groups : Alike(g, v[g], w[g])
<1>1. CASE w = v
  BY <1>1 DEF Alike
<1>2. CASE v["inputs"] = "unset" /\ w = [v EXCEPT !["inputs"] = "default"]
  <2>1. Puts(w, v, "inputs", "default")
    BY <1>2, EachGroup DEF IsValues, Puts
  <2>2. "inputs" \in Groups /\ Fits("inputs", "default")
    BY EachGroup DEF Fits
  <2>3. IsValues(w)
    BY <2>1, <2>2, ValuesPut
  <2> QED
    BY <1>2, <2>1, <2>3 DEF Puts, Alike, OnlyCompleted
<1>3. CASE w = [v EXCEPT !["dests"] = [i \in DOMAIN v["dests"] |->
                  IF v["dests"][i].template = "empty" THEN Defaulted(v["dests"][i])
                  ELSE v["dests"][i]]]
  <2> DEFINE s == v["dests"]
  <2>1. PICK u : u = [i \in DOMAIN s |-> IF s[i].template = "empty" THEN Defaulted(s[i]) ELSE s[i]]
    OBVIOUS
  <2>2. s \in Seq(Destination) /\ Len(s) <= MaxDests
    BY DEF IsValues, AreValues
  <2>3. u \in Seq(Destination) /\ Len(u) = Len(s) /\ Alike("dests", s, u)
    BY <2>1, <2>2, MappingCompletes
  <2>4. w = [v EXCEPT !["dests"] = u]
    BY <1>3, <2>1
  <2>5. Puts(w, v, "dests", u)
    BY <2>4, EachGroup DEF IsValues, Puts
  <2>6. "dests" \in Groups /\ Fits("dests", u)
    BY <2>2, <2>3, EachGroup DEF Fits
  <2>7. IsValues(w)
    BY <2>5, <2>6, ValuesPut
  <2> QED
    BY <2>3, <2>5, <2>7 DEF Puts, Alike
<1> QED
  <2>1. ScriptTab(v, listed) = v \/ (v["inputs"] = "unset"
                                     /\ ScriptTab(v, listed) = [v EXCEPT !["inputs"] = "default"])
    BY DEF ScriptTab
  <2>2. \/ MappingTab(v, ops_) = v
        \/ MappingTab(v, ops_) = [v EXCEPT !["dests"] = [i \in DOMAIN v["dests"] |->
                  IF v["dests"][i].template = "empty" THEN Defaulted(v["dests"][i])
                  ELSE v["dests"][i]]]
    BY DEF MappingTab, Defaulted
  <2>3. w \in {v, ScriptTab(v, listed), MappingTab(v, ops_)}
    BY DEF Completed
  <2> QED
    BY <1>1, <1>2, <1>3, <2>1, <2>2, <2>3

(* The user changes one group of values, and the tab may complete it.      *)
LEMMA ChangePuts ==
  ASSUME FormInv, NEW g \in Groups, NEW value, Fits(g, value), Change(g, value)
  PROVE  /\ IsValues(form)' /\ touched' = touched \cup {g}
         /\ \A h \in Groups : h \in touched' \/ Alike(h, form[h], form'[h])
<1>1. PICK w : w = [form EXCEPT ![g] = value]
  OBVIOUS
<1>2. Puts(w, form, g, value)
  BY <1>1 DEF FormInv, IsValues, Puts
<1>3. IsValues(w)
  BY <1>2, ValuesPut DEF FormInv
<1>4. form' = Completed(w, tab, scripts, known) /\ touched' = touched \cup {g}
  BY <1>1 DEF Change
<1>5. IsValues(form') /\ \A h \in Groups : Alike(h, w[h], form'[h])
  BY <1>3, <1>4, TabCompletes
<1> QED
  BY <1>2, <1>4, <1>5 DEF Puts, IsValues

LEMMA DestsEdited ==
  ASSUME NEW s \in Seq(Destination), Len(s) <= MaxDests, NEW i \in DOMAIN s
  PROVE  /\ Fits("dests", RemoveAt(s, i))
         /\ Fits("dests", [s EXCEPT ![i].op = "new"])
         /\ Fits("dests", [s EXCEPT ![i].template = "own"])
<1>1. s[i] \in Destination /\ Reopped(s[i]) \in Destination /\ Owned(s[i]) \in Destination
  BY DestinationParts
<1>2. RemoveAt(s, i) \in Seq(Destination) /\ Len(RemoveAt(s, i)) <= MaxDests
  <2>1. RemoveAt(s, i) \in Seq(Destination) /\ Len(RemoveAt(s, i)) = Len(s) - 1
    BY DEF RemoveAt
  <2> QED
    BY <2>1, FormAssumption
<1>3. ASSUME NEW u, u \in {[s EXCEPT ![i].op = "new"], [s EXCEPT ![i].template = "own"]}
      PROVE  u \in Seq(Destination) /\ Len(u) = Len(s)
  <2>1. CASE u = [s EXCEPT ![i].op = "new"]
    <3>1. u = [s EXCEPT ![i] = Reopped(s[i])]
      BY <2>1 DEF Reopped
    <3> QED
      BY <1>1, <3>1
  <2>2. CASE u = [s EXCEPT ![i].template = "own"]
    <3>1. u = [s EXCEPT ![i] = Owned(s[i])]
      BY <2>2 DEF Owned
    <3> QED
      BY <1>1, <3>1
  <2> QED
    BY <1>3, <2>1, <2>2
<1> QED
  BY <1>2, <1>3, EachGroup DEF Fits

LEMMA TypedOnce ==
  ASSUME FormInv, TypeInForm
  PROVE  \E g \in Groups : \E value : Fits(g, value) /\ Change(g, value)
<1>1. form["dests"] \in Seq(Destination) /\ Len(form["dests"]) <= MaxDests
  BY DEF FormInv, IsValues, AreValues
<1>2. \A g \in Simple : g \in Groups /\ Fits(g, "new")
  BY EachGroup DEF Fits
<1>3. Fits("inputs", "own") /\ "inputs" \in Groups /\ "dests" \in Groups
  BY EachGroup DEF Fits
<1>4. CASE BasicTab \/ PickScript \/ TriggerTab \/ WorkflowCard \/ FallbackTab \/ ErrorsCard
  <2>1. \E g \in Simple : Change(g, "new")
    BY <1>4, EachGroup DEF BasicTab, PickScript, TriggerTab, WorkflowCard, FallbackTab, ErrorsCard
  <2> QED
    BY <1>2, <2>1
<1>5. CASE EditInputs
  BY <1>3, <1>5 DEF EditInputs
<1>6. CASE AddDestination
  <2>1. PICK d \in Destination : d = [op |-> "new", template |-> "empty"]
    BY DEF Destination
  <2>2. Change("dests", Append(form["dests"], d)) /\ Len(form["dests"]) < MaxDests
    BY <1>6, <2>1 DEF AddDestination
  <2>3. Fits("dests", Append(form["dests"], d))
    <3>1. Append(form["dests"], d) \in Seq(Destination)
      BY <1>1
    <3>2. Len(Append(form["dests"], d)) <= MaxDests
      BY <1>1, <2>2, FormAssumption
    <3> QED
      BY <3>1, <3>2, EachGroup DEF Fits
  <2> QED
    BY <1>3, <2>2, <2>3
<1>7. CASE EditDestination \/ EditTemplate
  <2>1. PICK i \in DOMAIN form["dests"] :
          \/ Change("dests", RemoveAt(form["dests"], i))
          \/ Change("dests", [form["dests"] EXCEPT ![i].op = "new"])
          \/ Change("dests", [form["dests"] EXCEPT ![i].template = "own"])
    BY <1>7 DEF EditDestination, EditTemplate
  <2>2. /\ Fits("dests", RemoveAt(form["dests"], i))
        /\ Fits("dests", [form["dests"] EXCEPT ![i].op = "new"])
        /\ Fits("dests", [form["dests"] EXCEPT ![i].template = "own"])
    BY <1>1, DestsEdited
  <2> QED
    BY <1>3, <2>1, <2>2
<1> QED
  BY <1>4, <1>5, <1>6, <1>7 DEF TypeInForm

(* All that the form keeps besides the values.                             *)
FormFlags ==
  /\ editing \in BOOLEAN /\ cut \in BOOLEAN /\ tab \in Tabs /\ known \in {"no", "none", "some"}
  /\ filled \in BOOLEAN /\ hidden \in BOOLEAN /\ sending \in BOOLEAN /\ scripts \in BOOLEAN
  /\ chosen \in BOOLEAN /\ proj \in BOOLEAN /\ leaving \in {"no", "soon", "gone"}

LEMMA FormHasFlags ==
  ASSUME FormInv
  PROVE  /\ FormFlags /\ touched \subseteq Groups /\ intended \subseteq Groups
         /\ loaded \in Seq(Destination)
BY DEF FormInv, FormTypeOK, FormFlags, IsValues

LEMMA FormTypes ==
  ASSUME FormFlags', IsStored(stored)', IsValues(form)', loaded' \in Seq(Destination),
         touched' \subseteq Groups, intended' \subseteq Groups
  PROVE  FormTypeOK'
<1>1. DOMAIN stored' = Instance /\ DOMAIN form' = Groups
  BY DEF IsValues, IsStored
<1> QED
  BY <1>1 DEF FormTypeOK, FormFlags, IsValues, IsStored, AreValues

LEMMA FormFlagsKeep == ASSUME FormFlags, FormNext PROVE FormFlags'
<1>1. CASE PickTab
  <2>1. tab' \in Tabs /\ chosen' = FALSE
        /\ UNCHANGED <<editing, cut, filled, hidden, sending, leaving, scripts, known, proj>>
    BY <1>1 DEF PickTab
  <2> QED
    BY <2>1 DEF FormFlags
<1>9. CASE Close
  BY <1>9 DEF FormFlags, Close, Tabs
<1>7. CASE TypeInForm
  BY <1>7 DEF FormFlags, TypeInForm
<1>8. CASE ChooseServer
  BY <1>8 DEF FormFlags, ChooseServer
<1>10. CASE ProjectArrives
  BY <1>10 DEF FormFlags, ProjectArrives
<1>2. CASE Submit
  BY <1>2 DEF FormFlags, Submit
<1>3. ASSUME NEW r \in inet, FormServed(r) \/ FormBreaks(r) \/ SaveFails(r) PROVE FormFlags'
  <2>1. /\ cut' \in {cut, TRUE, FALSE}
        /\ UNCHANGED <<editing, tab, known, filled, hidden, sending, scripts, chosen, proj, leaving>>
    BY <1>3 DEF FormServed, FormBreaks, SaveFails
  <2> QED
    BY <2>1 DEF FormFlags
<1>4. ASSUME NEW r \in inet, ListsAnswered(r) \/ LoadBroken(r) \/ OperationsAnswered(r)
      PROVE FormFlags'
  <2>1. UNCHANGED <<editing, cut, tab, filled, sending, chosen, proj, leaving>>
    BY <1>4 DEF ListsAnswered, LoadBroken, OperationsAnswered
  <2>2. known' \in {"no", "none", "some"}
    BY <1>4 DEF FormFlags, ListsAnswered, LoadBroken, OperationsAnswered
  <2>3. hidden' = hidden \/ hidden' = FALSE
    BY <1>4 DEF ListsAnswered, LoadBroken, OperationsAnswered
  <2>4. scripts' = scripts \/ scripts' = TRUE
    BY <1>4 DEF ListsAnswered, LoadBroken, OperationsAnswered
  <2> QED
    BY <2>1, <2>2, <2>3, <2>4 DEF FormFlags
<1>5. ASSUME NEW r \in inet, InstanceAnswered(r) PROVE FormFlags'
  BY <1>5 DEF FormFlags, InstanceAnswered
<1>6. ASSUME NEW r \in inet, SubmitAnswered(r) PROVE FormFlags'
  BY <1>6 DEF FormFlags, SubmitAnswered
<1> QED
  BY <1>1, <1>2, <1>3, <1>4, <1>5, <1>6, <1>7, <1>8, <1>9, <1>10 DEF FormNext

(* The form may be completed and changed, and other requests come and go.  *)
LEMMA FormMoves ==
  ASSUME FormInv, FormFlags', IsValues(form)', UNCHANGED <<stored, loaded, intended, filled>>,
         touched' \subseteq Groups, touched \subseteq touched',
         \A g \in Groups : g \in touched' \/ Alike(g, form[g], form'[g]),
         \A r \in inet' : /\ FormRequest(r)
                          /\ r.what = "submit" => r \in inet /\ (sending' \/ leaving' = "gone")
  PROVE  FormInv'
<1>1. FormTypeOK'
  <2>1. intended' \subseteq Groups /\ IsStored(stored)' /\ loaded' \in Seq(Destination)
    BY FormHasFlags DEF FormInv, IsStored, AreValues
  <2> QED
    BY <2>1, FormTypes
<1>2. \A r \in inet' : FormRequest(r)'
  BY DEF FormRequest
<1>3. OneSubmit'
  BY DEF FormInv, OneSubmit
<1>4. \A g \in Groups : g = "dests" =>
        form[g] \in Seq(Destination) /\ form'[g] \in Seq(Destination)
        /\ Reference(g) \in Seq(Destination)
  BY FormHasFlags DEF FormInv, IsValues, AreValues, Reference
<1>7. (Part' <=> Part) /\ \A g \in Groups : Reference(g)' = Reference(g)
  BY DEF Part, Reference
<1>5. SubmitsAsMeant'
  <2>1. ASSUME NEW r \in inet, FormRequest(r), r.what = "submit", r.state = "sent", NEW g \in Groups
        PROVE  /\ g \in intended \/ Alike(g, Reference(g), r.arg[g])
               /\ "dests" \in intended \/ Part
               /\ filled => intended \subseteq touched'
               /\ filled => g \in touched' \/ Alike(g, r.arg[g], form'[g])
    <3>1. g = "dests" => r.arg[g] \in Seq(Destination)
      BY <2>1 DEF FormRequest, IsValues, AreValues
    <3> QED
      BY <1>4, <2>1, <3>1, AlikeChains DEF FormInv, SubmitsAsMeant
  <2> SUFFICES ASSUME NEW r \in inet', r.what = "submit", r.state = "sent"
               PROVE  /\ \A g \in Groups : g \in intended' \/ Alike(g, Reference(g)', r.arg[g])
                      /\ "dests" \in intended' \/ Part'
                      /\ filled' => /\ intended' \subseteq touched'
                                    /\ \A g \in Groups : g \in touched' \/ Alike(g, r.arg[g], form'[g])
    BY DEF SubmitsAsMeant
  <2>2. r \in inet /\ FormRequest(r)
    OBVIOUS
  <2> QED
    BY <1>7, <2>1, <2>2, EachGroup
<1>6. FormShows'
  BY <1>4, <1>7, AlikeChains DEF FormInv, FormShows
<1> QED
  BY <1>1, <1>2, <1>3, <1>5, <1>6 DEF FormInv, IsStored, AreValues

LEMMA FormAsks ==
  ASSUME NEW of, NEW what \in {"lists", "instance", "operations"}, NEW arg
  PROVE  LET q == Ask(of, what, arg) IN
         FormRequest(q) /\ q.what = what /\ q.state = "sent"
BY AskAsks DEF FormRequest

LEMMA FormStepKeeps ==
  ASSUME FormInv, FormFlags',
         PickTab \/ TypeInForm \/ ChooseServer \/ ProjectArrives
         \/ \E r \in inet : \/ ListsAnswered(r) \/ LoadBroken(r)
                            \/ OperationsAnswered(r) \/ SubmitAnswered(r)
  PROVE  FormInv'
<1>1. /\ UNCHANGED <<stored, loaded, intended, filled>>
      /\ (TypeInForm \/ UNCHANGED touched) /\ touched \subseteq Groups
  BY FormHasFlags DEF PickTab, TypeInForm, ChooseServer, ProjectArrives, ListsAnswered, LoadBroken,
     OperationsAnswered, SubmitAnswered
<1>2. /\ IsValues(form)' /\ touched' \subseteq Groups /\ touched \subseteq touched'
      /\ \A g \in Groups : g \in touched' \/ Alike(g, form[g], form'[g])
  <2>1. CASE TypeInForm
    <3>1. PICK g \in Groups : \E value : Fits(g, value) /\ Change(g, value)
      BY <2>1, TypedOnce
    <3>2. PICK value : Fits(g, value) /\ Change(g, value)
      BY <3>1
    <3> QED
      BY <1>1, <3>2, ChangePuts
  <2>2. ASSUME ~TypeInForm
        PROVE  form' = form \/ \E t, listed, ops_ : form' = Completed(form, t, listed, ops_)
    BY <2>2 DEF PickTab, ChooseServer, ProjectArrives, ListsAnswered, LoadBroken,
       OperationsAnswered, SubmitAnswered
  <2>3. ASSUME ~TypeInForm, NEW t, NEW listed, NEW ops_, form' = Completed(form, t, listed, ops_)
        PROVE  IsValues(form') /\ \A g \in Groups : Alike(g, form[g], form'[g])
    BY <2>3, TabCompletes DEF FormInv
  <2> QED
    BY <1>1, <2>1, <2>2, <2>3 DEF FormInv, IsValues, Alike
<1>3. \A r \in inet' : /\ FormRequest(r)
                       /\ r.what = "submit" => r \in inet /\ (sending' \/ leaving' = "gone")
  <2>1. \A r \in inet : /\ FormRequest(r)
                        /\ r.what = "submit" => /\ sending \/ leaving = "gone"
                                                /\ \A q \in inet : q.what = "submit" => q = r
    BY DEF FormInv, OneSubmit
  <2>2. CASE PickTab \/ TypeInForm
    BY <2>1, <2>2 DEF PickTab, TypeInForm
  <2>3. CASE ChooseServer
    <3>1. LET q == Ask(0, "operations", None) IN FormRequest(q) /\ q.what = "operations"
      BY FormAsks
    <3>2. inet' \subseteq inet \cup {Ask(0, "operations", None)} /\ UNCHANGED <<sending, leaving>>
      BY <2>3 DEF ChooseServer
    <3> QED
      BY <2>1, <3>1, <3>2
  <2>4. CASE ProjectArrives
    <3>1. LET q == Ask(1, "lists", None) IN FormRequest(q) /\ q.what = "lists"
      BY FormAsks
    <3>2. inet' \subseteq inet \cup {Ask(1, "lists", None)} /\ UNCHANGED <<sending, leaving>>
      BY <2>4 DEF ProjectArrives, Run
    <3> QED
      BY <2>1, <3>1, <3>2
  <2>5. ASSUME NEW r \in inet, ListsAnswered(r)
        PROVE  inet' \subseteq inet \cup {Ask(r.of, "instance", None)} /\ UNCHANGED <<sending, leaving>>
    BY <2>5 DEF ListsAnswered
  <2>6. ASSUME NEW r \in inet, ListsAnswered(r)
        PROVE  \A p \in inet' : /\ FormRequest(p)
                                /\ p.what = "submit" => p \in inet /\ (sending' \/ leaving' = "gone")
    <3>1. LET q == Ask(r.of, "instance", None) IN FormRequest(q) /\ q.what = "instance"
      BY FormAsks
    <3> QED
      BY <2>1, <2>5, <2>6, <3>1
  <2>7. ASSUME NEW r \in inet, LoadBroken(r) \/ OperationsAnswered(r)
        PROVE  inet' = inet \ {r} /\ UNCHANGED <<sending, leaving>>
    BY <2>7 DEF LoadBroken, OperationsAnswered
  <2>8. ASSUME NEW r \in inet, SubmitAnswered(r)
        PROVE  inet' = inet \ {r} /\ r.what = "submit"
    BY <2>8 DEF SubmitAnswered
  <2> QED
    BY <2>1, <2>2, <2>3, <2>4, <2>6, <2>7, <2>8
<1> QED
  BY <1>1, <1>2, <1>3, FormMoves

LEMMA SubmitKeeps == ASSUME FormInv, FormFlags', Submit PROVE FormInv'
<1>1. /\ ~sending /\ leaving # "gone" /\ sending' = TRUE
      /\ inet' = inet \cup {Ask(submits + 1, "submit", Payload(form))}
      /\ intended' = (IF filled THEN touched ELSE Groups)
      /\ UNCHANGED <<stored, form, loaded, touched, filled>>
  BY DEF Submit, Usable, FormInv, FormTypeOK
<1>2. PICK new : new = Ask(submits + 1, "submit", Payload(form))
  OBVIOUS
<1>3. Payload(form) = form
  BY DEF Payload, FormInv, IsValues
<1>4. IsRequest(new) /\ new.what = "submit" /\ new.arg = form /\ new.state = "sent"
  BY <1>2, <1>3, AskAsks
<1>5. inet' = inet \cup {new} /\ \A r \in inet : r.what # "submit"
  BY <1>1, <1>2 DEF FormInv, OneSubmit
<1>6. FormTypeOK' /\ IsStored(stored)' /\ IsValues(form)'
  <2>1. touched' \subseteq Groups /\ intended' \subseteq Groups /\ loaded' \in Seq(Destination)
    BY <1>1, FormHasFlags
  <2>2. IsStored(stored)' /\ IsValues(form)'
    BY <1>1 DEF FormInv, IsStored, IsValues, AreValues
  <2> QED
    BY <2>1, <2>2, FormTypes
<1>7. \A r \in inet' : FormRequest(r)'
  BY <1>1, <1>4, <1>5 DEF FormInv, FormRequest
<1>8. OneSubmit'
  BY <1>1, <1>5 DEF OneSubmit
<1>9. (Part' <=> Part) /\ \A g \in Groups : Reference(g)' = Reference(g)
  BY <1>1 DEF Part, Reference
<1>10. SubmitsAsMeant'
  <2>1. ASSUME filled
        PROVE  /\ intended' = touched /\ ("dests" \in touched \/ Part)
               /\ \A g \in Groups : g \in touched \/ Alike(g, Reference(g), form[g])
    BY <1>1, <2>1 DEF FormInv, FormShows
  <2>2. CASE filled
    BY <1>1, <1>4, <1>5, <1>9, <2>1, <2>2 DEF SubmitsAsMeant, Alike
  <2>3. CASE ~filled
    BY <1>1, <1>4, <1>5, <1>9, <2>3, EachGroup DEF SubmitsAsMeant
  <2> QED
    BY <2>2, <2>3
<1>11. FormShows'
  BY <1>1, <1>9 DEF FormInv, FormShows
<1> QED
  BY <1>6, <1>7, <1>8, <1>10, <1>11 DEF FormInv

LEMMA Defaults == IsValues(DefaultValues)
BY EachGroup, FormAssumption DEF DefaultValues, Values, IsValues, AreValues

LEMMA CloseKeeps == ASSUME FormInv, FormFlags', Close PROVE FormInv'
<1>1. /\ form' = DefaultValues /\ touched' = {} /\ filled' = FALSE /\ leaving' = "gone"
      /\ inet' = {r \in inet : r.what = "submit"} /\ UNCHANGED <<stored, loaded, intended>>
  BY DEF Close
<1>2. IsValues(form)' /\ IsStored(stored)'
  BY <1>1, Defaults DEF FormInv, IsValues, IsStored, AreValues
<1>3. FormTypeOK'
  BY <1>1, <1>2, FormTypes, FormHasFlags
<1>4. \A r \in inet' : FormRequest(r)'
  BY <1>1 DEF FormInv, FormRequest
<1>5. (Part' <=> Part) /\ \A g \in Groups : Reference(g)' = Reference(g)
  BY <1>1 DEF Part, Reference
<1>6. OneSubmit' /\ SubmitsAsMeant' /\ FormShows'
  BY <1>1, <1>5 DEF FormInv, OneSubmit, SubmitsAsMeant, FormShows
<1> QED
  BY <1>2, <1>3, <1>4, <1>6 DEF FormInv

(* A request is served or fails, and nothing is stored.                    *)
LEMMA FormNotSaved ==
  ASSUME FormInv, FormFlags', NEW r \in inet, r.state = "sent", NEW new, FormRequest(new),
         Same(new, r), r.what = "submit" => new.state = "failed",
         inet' = (inet \ {r}) \cup {new},
         UNCHANGED <<stored, form, loaded, touched, intended, filled, sending, leaving>>
  PROVE  FormInv'
<1>0. IsStored(stored)' /\ IsValues(form)'
  BY DEF FormInv, IsStored, IsValues, AreValues
<1>1. FormTypeOK'
  BY <1>0, FormTypes, FormHasFlags
<1>2. \A q \in inet' : FormRequest(q)'
  BY DEF FormInv, FormRequest
<1>3. OneSubmit'
  BY DEF FormInv, OneSubmit, Same
<1>4. (Part' <=> Part) /\ \A g \in Groups : Reference(g)' = Reference(g)
  BY DEF Part, Reference
<1>5. SubmitsAsMeant'
  <2>1. ASSUME NEW q \in inet', q.what = "submit", q.state = "sent" PROVE q \in inet
    BY <2>1 DEF Same
  <2> QED
    BY <1>4, <2>1 DEF FormInv, SubmitsAsMeant
<1>6. FormShows'
  BY <1>4 DEF FormInv, FormShows
<1> QED
  BY <1>0, <1>1, <1>2, <1>3, <1>5, <1>6 DEF FormInv

LEMMA FormBreaksKeeps == ASSUME FormInv, FormFlags', NEW r \in inet, FormBreaks(r) PROVE FormInv'
<1>1. /\ r.state = "sent" /\ inet' = Fail(inet, r) /\ FormRequest(r) /\ IsRequest(r)
      /\ UNCHANGED <<stored, form, loaded, touched, intended, filled, sending, leaving>>
  BY DEF FormBreaks, FormInv, FormRequest
<1>2. inet' = (inet \ {r}) \cup {Broken(r)} /\ FailedAs(Broken(r), r)
  BY <1>1, FailFails
<1>3. FormRequest(Broken(r)) /\ Same(Broken(r), r) /\ Broken(r).state = "failed"
  BY <1>1, <1>2 DEF FailedAs, Same, FormRequest
<1> QED
  BY <1>1, <1>2, <1>3, FormNotSaved

LEMMA FormLoadServed ==
  ASSUME FormInv, FormFlags', NEW r \in inet, FormServed(r), r.what # "submit" PROVE FormInv'
<1>1. /\ r.state = "sent" /\ inet' = Answer(inet, r, stored) /\ FormRequest(r) /\ IsRequest(r)
      /\ UNCHANGED <<stored, form, loaded, touched, intended, filled, sending, leaving>>
  BY DEF FormServed, FormInv, FormRequest
<1>2. PICK new : new = Given(r, stored)
  OBVIOUS
<1>3. inet' = (inet \ {r}) \cup {new} /\ ServedAs(new, r, stored)
  BY <1>1, <1>2, AnswerAnswers
<1>4. FormRequest(new) /\ Same(new, r)
  BY <1>1, <1>3 DEF ServedAs, Same, FormRequest, FormInv
<1> QED
  BY <1>1, <1>3, <1>4, FormNotSaved

(* What is saved is stored, and what was read before is outdated.          *)
LEMMA FormWrites ==
  ASSUME FormInv, FormFlags', NEW r \in inet, r.what = "submit", r.state = "sent",
         NEW new, Same(new, r), new.state # "sent",
         inet' = (Outdated(inet, {}) \ {r}) \cup {new},
         UNCHANGED <<form, loaded, touched, intended, filled, sending, leaving>>,
         IsStored(stored)', \A g \in Groups : g # "dests" => stored'[g] = r.arg[g],
         "dests" \in intended \/ Shortened(loaded, stored'["dests"])
  PROVE  FormInv'
<1>1. FormRequest(r) /\ IsRequest(new) /\ new.what = "submit" /\ new.arg = r.arg
  BY DEF FormInv, Same
<1>2. \A q \in inet : IsRequest(q)
  BY DEF FormInv, FormRequest
<1>3. Outdated(inet, {}) = {Aged(q) : q \in inet} /\ \A q \in inet : AgedAs(Aged(q), q)
  BY <1>2, OutdatedOutdates
<1>4. Aged(r) = r
  BY DEF Aged
<1>7. ASSUME NEW p \in inet'
      PROVE  FormRequest(p)' /\ (p.what = "submit" => p = new)
  <2>1. CASE p = new
    BY <1>1, <2>1 DEF FormRequest
  <2>2. CASE p # new
    <3>1. PICK q \in inet : p = Aged(q) /\ q # r
      BY <1>3, <1>4, <2>2
    <3>2. AgedAs(p, q) /\ FormRequest(q) /\ q.what # "submit"
      BY <1>3, <3>1 DEF FormInv, OneSubmit
    <3> QED
      BY <3>2 DEF AgedAs, Same, FormRequest, IsRequest
  <2> QED
    BY <2>1, <2>2
<1>8. IsValues(form)'
  BY DEF FormInv, IsValues, AreValues
<1>9. FormTypeOK'
  BY <1>8, FormTypes, FormHasFlags
<1>10. OneSubmit' /\ SubmitsAsMeant'
  BY <1>7 DEF FormInv, OneSubmit, SubmitsAsMeant
<1>11. FormShows'
  <2>1. ASSUME filled
        PROVE  /\ \A g \in Groups : g \in touched \/ Alike(g, Reference(g)', form[g])
               /\ "dests" \in touched \/ Part'
    <3>1. /\ intended \subseteq touched
          /\ \A g \in Groups : g \in touched \/ Alike(g, r.arg[g], form[g])
          /\ \A g \in Groups : g \in touched \/ Alike(g, Reference(g), form[g])
      BY <2>1 DEF FormInv, SubmitsAsMeant, FormShows
    <3>2. \A g \in Groups : Reference(g)' = IF g = "dests" THEN Reference(g) ELSE r.arg[g]
      BY DEF Reference
    <3> QED
      BY <3>1, <3>2 DEF Part
  <2> QED
    BY <2>1 DEF FormShows
<1> QED
  BY <1>7, <1>8, <1>9, <1>10, <1>11 DEF FormInv

LEMMA UpsertKeepsValues ==
  ASSUME NEW v, IsValues(v), NEW up, up = Upserted(v)
  PROVE  /\ IsStored(up) /\ \A g \in Groups : up[g] = v[g]
         /\ \A g \in DOMAIN Overwritten : up[g] = Overwritten[g]
<1>1. /\ up = [g \in Instance |-> up[g]] /\ \A g \in Groups : up[g] = v[g]
      /\ \A g \in DOMAIN Overwritten : up[g] = Overwritten[g]
  BY EachGroup DEF Upserted
<1> QED
  BY <1>1, EachGroup DEF IsStored, IsValues, AreValues

LEMMA DestsLeft ==
  ASSUME NEW v, IsValues(v), NEW d \in Seq(Destination), Len(d) <= MaxDests, NEW ids,
         NEW w, w = Left(v, d, ids)
  PROVE  /\ IsStored(w) /\ w["dests"] = d /\ w["ids"] = ids
         /\ \A g \in Groups : g # "dests" => w[g] = v[g]
         /\ \A g \in {"status", "creator"} : w[g] = Overwritten[g]
<1>1. PICK up : up = Upserted(v)
  OBVIOUS
<1>2. /\ \A g \in Groups : up[g] = v[g]
      /\ \A g \in DOMAIN Overwritten : up[g] = Overwritten[g]
  BY <1>1, UpsertKeepsValues
<1>3. /\ w = [g \in Instance |-> w[g]] /\ w["dests"] = d /\ w["ids"] = ids
      /\ \A g \in Instance : g \notin {"dests", "ids"} => w[g] = up[g]
  BY <1>1, EachGroup DEF Left
<1>4. \A g \in Groups : g # "dests" => w[g] = v[g]
  BY <1>2, <1>3, EachGroup
<1>5. AreValues(w)
  BY <1>3, <1>4, EachGroup DEF IsValues, AreValues
<1> QED
  BY <1>2, <1>3, <1>4, <1>5, EachGroup DEF IsStored

LEMMA FormSaveServed ==
  ASSUME FormInv, FormFlags', NEW r \in inet, FormServed(r), r.what = "submit" PROVE FormInv'
<1>1. /\ r.state = "sent" /\ inet' = Answer(Outdated(inet, {}), r, None)
      /\ stored' = Upserted(r.arg) /\ FormRequest(r) /\ IsRequest(r)
      /\ UNCHANGED <<form, loaded, touched, intended, filled, sending, leaving>>
  BY DEF FormServed, FormInv, FormRequest
<1>2. r \in Outdated(inet, {})
  <2>1. \A q \in inet : IsRequest(q)
    BY DEF FormInv, FormRequest
  <2>2. Outdated(inet, {}) = {Aged(q) : q \in inet}
    BY <2>1, OutdatedOutdates
  <2>3. Aged(r) = r
    BY <1>1 DEF Aged
  <2> QED
    BY <2>2, <2>3
<1>3. PICK new : new = Given(r, None)
  OBVIOUS
<1>4. inet' = (Outdated(inet, {}) \ {r}) \cup {new} /\ ServedAs(new, r, None)
  BY <1>1, <1>2, <1>3, AnswerAnswers
<1>5. IsValues(r.arg)
  BY <1>1 DEF FormRequest
<1>6. IsStored(stored') /\ \A g \in Groups : stored'[g] = r.arg[g]
  BY <1>1, <1>5, UpsertKeepsValues
<1>7. "dests" \in intended \/ Shortened(loaded, stored'["dests"])
  <2>1. "dests" \in intended \/ Alike("dests", loaded, r.arg["dests"])
    BY <1>1, EachGroup DEF FormInv, SubmitsAsMeant, Reference
  <2>2. r.arg["dests"] \in Seq(Destination) /\ loaded \in Seq(Destination)
    BY <1>5, FormHasFlags DEF IsValues, AreValues
  <2>3. stored'["dests"] = r.arg["dests"]
    BY <1>6, EachGroup
  <2> QED
    BY <2>1, <2>2, <2>3, WholeShortened
<1>8. IsStored(stored)'
  BY <1>6 DEF IsStored, AreValues
<1> QED
  BY <1>1, <1>4, <1>6, <1>7, <1>8, FormWrites DEF ServedAs, Same

(* What a save that fails on the way leaves.                               *)
LEMMA SaveFailsLeaves ==
  ASSUME FormInv, NEW r \in inet, SaveFails(r)
  PROVE  /\ IsStored(stored') /\ \A g \in Groups : g # "dests" => stored'[g] = r.arg[g]
         /\ "dests" \in intended \/ Shortened(loaded, stored'["dests"])
         /\ \A g \in DOMAIN Overwritten : stored'[g] \in {stored[g], Overwritten[g]}
<1>1. r.what = "submit" /\ r.state = "sent" /\ FormRequest(r) /\ IsValues(r.arg)
  <2>1. r.what = "submit" /\ r.state = "sent"
    BY DEF SaveFails
  <2> QED
    BY <2>1 DEF FormInv, FormRequest
<1>2. PICK v : v = r.arg
  OBVIOUS
<1>3. PICK s : s = stored["dests"]
  OBVIOUS
<1>4. PICK a : a = v["dests"]
  OBVIOUS
<1>5. /\ loaded \in Seq(Destination) /\ IsValues(v)
      /\ s \in Seq(Destination) /\ Len(s) <= MaxDests
      /\ a \in Seq(Destination) /\ Len(a) <= MaxDests
  BY <1>1, <1>2, <1>3, <1>4, FormHasFlags DEF FormInv, IsStored, IsValues, AreValues
<1>6. /\ "dests" \in intended \/ Alike("dests", loaded, a)
      /\ "dests" \in intended \/ Shortened(loaded, s)
  BY <1>1, <1>2, <1>3, <1>4, EachGroup DEF FormInv, SubmitsAsMeant, Reference, Part
<1>7. ASSUME NEW d \in Seq(Destination), Len(d) <= MaxDests,
             "dests" \in intended \/ Shortened(loaded, d),
             NEW ids \in {stored["ids"], Overwritten["ids"]}, stored' = Left(v, d, ids)
      PROVE  /\ IsStored(stored') /\ \A g \in Groups : g # "dests" => stored'[g] = r.arg[g]
             /\ "dests" \in intended \/ Shortened(loaded, stored'["dests"])
             /\ \A g \in DOMAIN Overwritten : stored'[g] \in {stored[g], Overwritten[g]}
  <2>1. PICK w : w = Left(v, d, ids)
    OBVIOUS
  <2>2. /\ IsStored(w) /\ w["dests"] = d /\ w["ids"] = ids
        /\ \A g \in Groups : g # "dests" => w[g] = v[g]
        /\ \A g \in {"status", "creator"} : w[g] = Overwritten[g]
    BY <1>5, <1>7, <2>1, DestsLeft
  <2>3. stored' = w
    BY <1>7, <2>1
  <2> QED
    BY <1>2, <1>7, <2>2, <2>3, EachGroup
<1>8. ASSUME NEW n \in 0..Len(s), stored' = Left(v, Unmapped(s, 1..n), stored["ids"])
      PROVE  /\ IsStored(stored') /\ \A g \in Groups : g # "dests" => stored'[g] = r.arg[g]
             /\ "dests" \in intended \/ Shortened(loaded, stored'["dests"])
             /\ \A g \in DOMAIN Overwritten : stored'[g] \in {stored[g], Overwritten[g]}
  <2>1. PICK d : d = Unmapped(s, 1..n)
    OBVIOUS
  <2>2. d \in Seq(Destination) /\ Len(d) = Len(s)
    BY <1>5, <2>1, UnmappedParts
  <2>3. "dests" \in intended \/ Shortened(loaded, d)
    BY <1>5, <1>6, <2>1, ShortenedAgain
  <2> QED
    BY <1>5, <1>7, <1>8, <2>1, <2>2, <2>3
<1>9. ASSUME NEW n \in 0..Len(a), NEW those,
             stored' = Left(v, Unmapped(SubSeq(a, 1, n), those), Overwritten["ids"])
      PROVE  /\ IsStored(stored') /\ \A g \in Groups : g # "dests" => stored'[g] = r.arg[g]
             /\ "dests" \in intended \/ Shortened(loaded, stored'["dests"])
             /\ \A g \in DOMAIN Overwritten : stored'[g] \in {stored[g], Overwritten[g]}
  <2>1. PICK t : t = SubSeq(a, 1, n)
    OBVIOUS
  <2>2. t \in Seq(Destination) /\ Len(t) = n
    BY <1>5, <2>1
  <2>3. "dests" \in intended \/ Shortened(loaded, t)
    BY <1>5, <1>6, <2>1, BeginsShortened
  <2>4. PICK d : d = Unmapped(t, those)
    OBVIOUS
  <2>5. d \in Seq(Destination) /\ Len(d) = Len(t)
    BY <2>2, <2>4, UnmappedParts
  <2>6. "dests" \in intended \/ Shortened(loaded, d)
    BY <1>5, <2>2, <2>3, <2>4, ShortenedAgain
  <2>7. Len(d) <= MaxDests
    BY <1>5, <2>2, <2>5, FormAssumption
  <2> QED
    BY <1>7, <1>9, <2>1, <2>4, <2>5, <2>6, <2>7
<1>10. \/ \E n \in 0..Len(s) : stored' = Left(v, Unmapped(s, 1..n), stored["ids"])
       \/ \E n \in 0..Len(a) : \E those :
            stored' = Left(v, Unmapped(SubSeq(a, 1, n), those), Overwritten["ids"])
  BY <1>2, <1>3, <1>4 DEF SaveFails
<1> QED
  BY <1>8, <1>9, <1>10

LEMMA SaveFailsKeeps == ASSUME FormInv, FormFlags', NEW r \in inet, SaveFails(r) PROVE FormInv'
<1>1. /\ r.what = "submit" /\ r.state = "sent" /\ inet' = Fail(Outdated(inet, {}), r)
      /\ IsRequest(r) /\ UNCHANGED <<form, loaded, touched, intended, filled, sending, leaving>>
  BY DEF SaveFails, FormInv, FormRequest
<1>2. r \in Outdated(inet, {})
  <2>1. \A q \in inet : IsRequest(q)
    BY DEF FormInv, FormRequest
  <2>2. Outdated(inet, {}) = {Aged(q) : q \in inet}
    BY <2>1, OutdatedOutdates
  <2>3. Aged(r) = r
    BY <1>1 DEF Aged
  <2> QED
    BY <2>2, <2>3
<1>3. inet' = (Outdated(inet, {}) \ {r}) \cup {Broken(r)} /\ FailedAs(Broken(r), r)
  BY <1>1, <1>2, FailFails
<1>4. /\ IsStored(stored') /\ \A g \in Groups : g # "dests" => stored'[g] = r.arg[g]
      /\ "dests" \in intended \/ Shortened(loaded, stored'["dests"])
  BY SaveFailsLeaves
<1>5. IsStored(stored)'
  BY <1>4 DEF IsStored, AreValues
<1> QED
  BY <1>1, <1>3, <1>4, <1>5, FormWrites DEF FailedAs

LEMMA InstanceAnsweredKeeps ==
  ASSUME FormInv, FormFlags', NEW r \in inet, InstanceAnswered(r) PROVE FormInv'
<1>1. /\ r.what = "instance" /\ r.state = "served" /\ FormRequest(r)
      /\ form' = Completed(FormValues(r.answer), tab, scripts, known) /\ touched' = {}
      /\ filled' = (~r.stale /\ \A q \in inet : q.what # "submit")
      /\ loaded' = (IF filled' THEN r.answer["dests"] ELSE loaded)
      /\ inet' = inet \ {r} /\ UNCHANGED <<stored, intended, sending, leaving>>
      /\ IsStored(r.answer) /\ (~r.stale => r.answer = stored)
  BY DEF InstanceAnswered, FormInv, FormRequest
<1>2. PICK v : v = FormValues(r.answer)
  OBVIOUS
<1>3. IsValues(v) /\ \A g \in Groups : v[g] = r.answer[g]
  BY <1>1, <1>2, EachGroup DEF FormValues, IsValues, IsStored, AreValues
<1>4. IsValues(form') /\ \A g \in Groups : Alike(g, v[g], form'[g])
  BY <1>1, <1>2, <1>3, TabCompletes
<1>5. IsValues(form)' /\ IsStored(stored)'
  BY <1>1, <1>4 DEF FormInv, IsValues, IsStored, AreValues
<1>6. loaded' \in Seq(Destination) /\ r.answer["dests"] \in Seq(Destination)
  BY <1>1, FormHasFlags DEF IsStored, AreValues
<1>7. FormTypeOK'
  BY <1>1, <1>5, <1>6, FormTypes, FormHasFlags
<1>8. \A q \in inet' : FormRequest(q)'
  BY <1>1 DEF FormInv, FormRequest
<1>9. OneSubmit'
  BY <1>1 DEF FormInv, OneSubmit
<1>10. SubmitsAsMeant'
  <2>1. CASE filled'
    BY <1>1, <2>1 DEF SubmitsAsMeant
  <2>2. CASE ~filled'
    <3>1. (Part' <=> Part) /\ \A g \in Groups : Reference(g)' = Reference(g)
      BY <1>1, <2>2 DEF Part, Reference
    <3> QED
      BY <1>1, <2>2, <3>1 DEF FormInv, SubmitsAsMeant
  <2> QED
    BY <2>1, <2>2
<1>11. FormShows'
  <2>1. ASSUME filled'
        PROVE  /\ \A g \in Groups : Alike(g, Reference(g)', form'[g])
               /\ Part'
    <3>1. r.answer = stored /\ loaded' = stored["dests"] /\ stored' = stored
      BY <1>1, <2>1
    <3>2. \A g \in Groups : Reference(g)' = v[g]
      BY <1>3, <3>1, EachGroup DEF Reference
    <3>3. Shortened(loaded', loaded')
      BY <1>6, WholeShortened DEF Alike
    <3> QED
      BY <1>4, <3>1, <3>2, <3>3 DEF Part
  <2> QED
    BY <2>1 DEF FormShows
<1> QED
  BY <1>5, <1>7, <1>8, <1>9, <1>10, <1>11 DEF FormInv

LEMMA FormKeeps == FormInv /\ [FormNext]_ivars => FormInv'
<1> SUFFICES ASSUME FormInv, [FormNext]_ivars PROVE FormInv'
  OBVIOUS
<1>1. CASE UNCHANGED ivars
  <2>1. FormTypeOK' /\ IsStored(stored)' /\ IsValues(form)'
    BY <1>1 DEF ivars, FormInv, FormTypeOK, IsValues, IsStored, AreValues
  <2>2. (\A r \in inet : FormRequest(r))' /\ OneSubmit'
    BY <1>1 DEF ivars, FormInv, FormRequest, OneSubmit
  <2>3. (Part' <=> Part) /\ \A g \in Groups : Reference(g)' = Reference(g)
    BY <1>1 DEF ivars, Part, Reference
  <2>4. SubmitsAsMeant' /\ FormShows'
    BY <1>1, <2>3 DEF ivars, FormInv, SubmitsAsMeant, FormShows
  <2> QED
    BY <2>1, <2>2, <2>4 DEF FormInv
<1>2. CASE FormNext
  <2>1. FormFlags'
    BY <1>2, FormHasFlags, FormFlagsKeep
  <2> QED
    BY <1>2, <2>1, FormStepKeeps, SubmitKeeps, CloseKeeps, FormBreaksKeeps, FormLoadServed,
       FormSaveServed, SaveFailsKeeps, InstanceAnsweredKeeps DEF FormNext
<1> QED
  BY <1>1, <1>2

LEMMA FormBegins == FormInit => FormInv
<1> SUFFICES ASSUME FormInit PROVE FormInv
  OBVIOUS
<1>1. /\ form = DefaultValues /\ loaded = <<>> /\ touched = {} /\ intended = {}
      /\ filled = ~editing /\ inet = {Ask(0, "lists", None)}
  BY DEF FormInit, Run
<1>2. IsValues(form) /\ loaded \in Seq(Destination)
  BY <1>1, Defaults
<1>3. IsStored(stored) /\ (~editing => \A g \in Groups : stored[g] = DefaultValues[g])
  <2>1. CASE ~editing
    <3>1. stored = Upserted(DefaultValues)
      BY <2>1 DEF FormInit
    <3> QED
      BY <2>1, <3>1, Defaults, UpsertKeepsValues
  <2>2. CASE editing
    <3>1. PICK d \in Destination : stored = [g \in Instance |->
              CASE g = "inputs" -> "unset" [] g = "dests" -> <<d>> [] g = "status" -> "busy"
                [] g = "creator" -> "someone" [] OTHER -> "old"]
      BY <2>2 DEF FormInit, Destination
    <3>2. <<d>> \in Seq(Destination) /\ Len(<<d>>) <= MaxDests
      BY FormAssumption
    <3>3. stored = [g \in Instance |-> stored[g]] /\ stored["dests"] = <<d>>
      BY <3>1, EachGroup
    <3>4. stored["inputs"] = "unset"
      BY <3>1, EachGroup
    <3>5. \A g \in Simple : stored[g] = "old"
      BY <3>1 DEF Simple, Instance, Groups
    <3> QED
      BY <2>2, <3>2, <3>3, <3>4, <3>5 DEF IsStored, AreValues
  <2> QED
    BY <2>1, <2>2
<1>4. FormTypeOK
  <2>1. DOMAIN stored = Instance /\ DOMAIN form = Groups
    BY <1>2, <1>3 DEF IsValues, IsStored
  <2>2. cut = FALSE
    BY DEF FormInit
  <2> QED
    BY <1>1, <1>2, <1>3, <2>1, <2>2 DEF FormInit, FormTypeOK, IsValues, IsStored, AreValues, Tabs
<1>5. \A r \in inet : FormRequest(r) /\ r.what = "lists"
  BY <1>1, FormAsks
<1>6. OneSubmit /\ SubmitsAsMeant
  BY <1>5 DEF OneSubmit, SubmitsAsMeant
<1>7. FormShows
  <2>1. ASSUME filled
        PROVE  Part /\ \A g \in Groups : Reference(g) = form[g]
    <3>1. stored["dests"] = <<>> /\ DefaultValues["dests"] = <<>>
      BY <1>1, <1>3, <2>1, EachGroup DEF DefaultValues, Values
    <3>2. loaded = <<>> /\ Shortened(<<>>, <<>>)
      BY <1>1 DEF Shortened
    <3> QED
      BY <1>1, <1>3, <2>1, <3>1, <3>2, EachGroup DEF Part, Reference
  <2> QED
    BY <2>1 DEF FormShows, Alike
<1> QED
  BY <1>2, <1>3, <1>4, <1>5, <1>6, <1>7 DEF FormInv

(* What is stored changes as it was meant to.                              *)
LEMMA FormStores ==
  FormInv /\ [FormNext]_ivars =>
    \A g \in Instance : stored'[g] # stored[g] =>
       \/ g \in intended
       \/ g \in DOMAIN Overwritten /\ stored'[g] = Overwritten[g]
       \/ g = "inputs" /\ stored[g] = "unset" /\ stored'[g] = "default"
       \/ g = "dests" /\ IF cut' THEN Shortened(loaded, stored'[g])
                                 ELSE OnlyMapped(loaded, stored'[g])
<1> SUFFICES ASSUME FormInv, [FormNext]_ivars, NEW g \in Instance, stored'[g] # stored[g]
             PROVE  \/ g \in intended
                    \/ g \in DOMAIN Overwritten /\ stored'[g] = Overwritten[g]
                    \/ g = "inputs" /\ stored[g] = "unset" /\ stored'[g] = "default"
                    \/ g = "dests" /\ IF cut' THEN Shortened(loaded, stored'[g])
                                              ELSE OnlyMapped(loaded, stored'[g])
  OBVIOUS
<1>1. PICK r \in inet : /\ r.what = "submit" /\ r.state = "sent"
                        /\ \/ stored' = Upserted(r.arg) /\ cut' = FALSE
                           \/ SaveFails(r) /\ cut' = TRUE
  BY DEF FormNext, PickTab, TypeInForm, ChooseServer, Submit, Close, ProjectArrives, FormServed,
     FormBreaks, SaveFails, ListsAnswered, InstanceAnswered, LoadBroken, OperationsAnswered,
     SubmitAnswered, ivars
<1>2. /\ \A h \in Groups : h \in intended \/ Alike(h, Reference(h), r.arg[h])
      /\ IsValues(r.arg)
  BY <1>1 DEF FormInv, SubmitsAsMeant, FormRequest
<1>3. CASE stored' = Upserted(r.arg) /\ cut' = FALSE
  <2>1. /\ \A h \in Groups : stored'[h] = r.arg[h]
        /\ \A h \in DOMAIN Overwritten : stored'[h] = Overwritten[h]
    BY <1>2, <1>3, UpsertKeepsValues
  <2>2. CASE g \in Groups /\ g # "dests"
    BY <1>2, <2>1, <2>2 DEF Alike, OnlyCompleted, Reference
  <2>3. CASE g = "dests"
    <3>1. g \in intended \/ Alike("dests", loaded, stored'[g])
      BY <1>2, <2>1, <2>3, EachGroup DEF Reference
    <3>2. OnlyMapped(loaded, loaded)
      BY FormHasFlags DEF OnlyMapped
    <3> QED
      BY <1>3, <2>3, <3>1, <3>2 DEF Alike, OnlyCompleted
  <2> QED
    BY <2>1, <2>2, <2>3, EachGroup
<1>4. CASE SaveFails(r) /\ cut' = TRUE
  <2>1. /\ \A h \in Groups : h # "dests" => stored'[h] = r.arg[h]
        /\ "dests" \in intended \/ Shortened(loaded, stored'["dests"])
        /\ \A h \in DOMAIN Overwritten : stored'[h] \in {stored[h], Overwritten[h]}
    BY <1>4, SaveFailsLeaves
  <2>2. CASE g \in Groups /\ g # "dests"
    BY <1>2, <2>1, <2>2 DEF Alike, OnlyCompleted, Reference
  <2> QED
    BY <1>4, <2>1, <2>2, EachGroup
<1> QED
  BY <1>1, <1>3, <1>4

----------------------------------------------------------------------------
(* The composer.                                                           *)
LEMMA WrittenWrites ==
  ASSUME NEW files, AreTexts(files), NEW p \in Paths, NEW text, text # "latin"
  PROVE  /\ AreTexts(Written(files, p, text)) /\ DOMAIN Written(files, p, text) = DOMAIN files \cup {p}
<1>1. PICK w : w = Written(files, p, text)
  OBVIOUS
<1>2. /\ w = [q \in DOMAIN w |-> w[q]] /\ DOMAIN w = DOMAIN files \cup {p}
      /\ w[p] = text /\ \A q \in DOMAIN files : q # p => w[q] = files[q]
  BY <1>1 DEF Written
<1> QED
  BY <1>1, <1>2 DEF AreTexts, AreFiles, AreTexts

(* A second way through the editor and back changes nothing any more.      *)
LEMMA PassedOnce ==
  ASSUME NEW p, NEW text
  PROVE  /\ Decoded(text) # "latin"
         /\ text # "latin" => Passed(p, Required(p, text)) = Required(p, text)
BY DEF Passed, Required, Decoded

LEMMA TextsAreFiles == ASSUME NEW files, AreTexts(files) PROVE AreFiles(files)
BY DEF AreTexts

LEMMA ComposerAsks ==
  ASSUME NEW of, NEW what \in {"script", "files", "readme"}, NEW arg
  PROVE  LET q == Ask(of, what, arg) IN
         ComposerRequest(q) /\ q.what = what /\ q.what \notin Sending
BY AskAsks DEF ComposerRequest, Sending

(* All that the page keeps besides the files.                              *)
ComposerFlags ==
  /\ entry \in Python /\ main \in Python /\ asked \subseteq Paths
  /\ mode \in {"zip", "editor"} /\ step \in 1..2 /\ timers \subseteq {"step", "leave"}
  /\ replacing \in BOOLEAN /\ found \in BOOLEAN /\ given \in BOOLEAN /\ held \in BOOLEAN
  /\ uploading \in BOOLEAN /\ generating \in BOOLEAN

LEMMA ComposerHasFlags ==
  ASSUME ComposerInv
  PROVE  /\ ComposerFlags /\ meddled \subseteq Paths /\ DOMAIN draft # {} /\ pick \in DOMAIN draft
         /\ DOMAIN bundle \subseteq Paths /\ DOMAIN draft \subseteq Paths
BY DEF ComposerInv, ComposerTypeOK, ComposerFlags, AreFiles, AreTexts

LEMMA ComposerTypes ==
  ASSUME ComposerFlags', AreFiles(bundle)', AreTexts(draft)', meddled' \subseteq Paths,
         pick' \in DOMAIN draft'
  PROVE  ComposerTypeOK'
BY DEF ComposerTypeOK, ComposerFlags, AreFiles, AreTexts, IsFiles

LEMMA ComposerFlagsKeep ==
  ASSUME ComposerInv, ComposerNext PROVE ComposerFlags'
<1> USE ComposerHasFlags
<1>1. CASE Compose
  <2>1. main' \in Python
    BY <1>1 DEF Compose, TypeText, AddFile, RemoveFile, ChooseFile, ComposerFlags
  <2>2. UNCHANGED <<replacing, entry, found, given, asked, mode, step, held, timers,
                    uploading, generating>>
    BY <1>1 DEF Compose
  <2> QED
    BY <2>1, <2>2 DEF ComposerFlags
<1>2. CASE SwitchMode \/ PressReadme
  BY <1>2 DEF ComposerFlags, SwitchMode, PressReadme
<1>3. CASE Inspect \/ Finalize \/ DraftFinalize
  <2>1. asked' \subseteq Paths
    BY <1>3 DEF Inspect, Finalize, DraftFinalize, ComposerFlags
  <2>2. /\ uploading' = TRUE
        /\ UNCHANGED <<replacing, entry, main, found, given, mode, step, held, timers, generating>>
    BY <1>3 DEF Inspect, Finalize, DraftFinalize, Sends
  <2> QED
    BY <2>1, <2>2 DEF ComposerFlags
<1>4. CASE BackToArchive \/ StepTimer \/ LeaveTimer
  BY <1>4 DEF ComposerFlags, BackToArchive, StepTimer, LeaveTimer
<1>5. ASSUME NEW r \in mnet, ComposerServed(r) PROVE ComposerFlags'
  <2>1. ComposerRequest(r)
    BY DEF ComposerInv
  <2>2. entry' \in Python /\ held' \in BOOLEAN
    BY <1>5, <2>1 DEF ComposerFlags, ComposerServed, ComposerRequest
  <2>3. UNCHANGED <<replacing, found, given, main, asked, mode, step, timers, uploading, generating>>
    BY <1>5 DEF ComposerServed
  <2> QED
    BY <2>2, <2>3 DEF ComposerFlags
<1>6. ASSUME NEW r \in mnet, ComposerFails(r) PROVE ComposerFlags'
  BY <1>6 DEF ComposerFlags, ComposerFails
<1>12. ASSUME NEW r \in mnet, HistoryFails(r) PROVE ComposerFlags'
  <2>1. r.arg.main \in Python
    BY <1>12 DEF HistoryFails, ComposerInv, ComposerRequest
  <2> QED
    BY <1>12, <2>1 DEF ComposerFlags, HistoryFails
<1>7. ASSUME NEW r \in mnet, ScriptCame(r) PROVE ComposerFlags'
  <2>1. r.answer \in Python
    BY <1>7 DEF ScriptCame, ComposerInv, ComposerRequest
  <2> QED
    BY <1>7, <2>1 DEF ComposerFlags, ScriptCame
<1>8. ASSUME NEW r \in mnet, FilesCame(r) PROVE ComposerFlags'
  <2>1. /\ given' \in BOOLEAN
        /\ UNCHANGED <<replacing, entry, main, found, asked, mode, step, held, timers,
                       uploading, generating>>
    BY <1>8 DEF FilesCame
  <2> QED
    BY <2>1 DEF ComposerFlags
<1>9. ASSUME NEW r \in mnet, LoadEnds(r) \/ ReadmeCame(r) PROVE ComposerFlags'
  <2>1. /\ generating' \in BOOLEAN
        /\ UNCHANGED <<replacing, entry, main, found, given, asked, mode, step, held, timers,
                       uploading>>
    BY <1>9 DEF LoadEnds, ReadmeCame, ComposerFlags
  <2> QED
    BY <2>1 DEF ComposerFlags
<1>10. ASSUME NEW r \in mnet, Inspected(r) PROVE ComposerFlags'
  BY <1>10 DEF ComposerFlags, Inspected, Python
<1>11. ASSUME NEW r \in mnet, InstallCame(r) \/ SendFailed(r) PROVE ComposerFlags'
  BY <1>11 DEF ComposerFlags, InstallCame, SendFailed
<1> QED
  BY <1>1, <1>2, <1>3, <1>4, <1>5, <1>6, <1>7, <1>8, <1>9, <1>10, <1>11, <1>12
     DEF ComposerNext

(* The editor changes, which is noted, and other requests come and go.     *)
LEMMA ComposerMoves ==
  ASSUME ComposerInv, ComposerFlags', UNCHANGED <<bundle, asked, given>>,
         AreTexts(draft)', pick' \in DOMAIN draft',
         meddled' \subseteq Paths, meddled \subseteq meddled',
         \A p \in DOMAIN draft \ meddled' : p \in DOMAIN draft' /\ draft'[p] = draft[p],
         \A r \in mnet' : /\ ComposerRequest(r)
                          /\ r.what \in Sending => r \in mnet /\ uploading'
  PROVE  ComposerInv'
<1>1. ComposerTypeOK'
  BY ComposerTypes DEF ComposerInv, AreFiles, AreTexts
<1>2. \A r \in mnet' : ComposerRequest(r)'
  BY DEF ComposerRequest
<1>3. OneSend'
  BY DEF ComposerInv, OneSend
<1>4. ReplacesAsMeant'
  BY DEF ComposerInv, ReplacesAsMeant, Sending
<1>5. EditorShows'
  BY DEF ComposerInv, EditorShows
<1> QED
  BY <1>1, <1>2, <1>3, <1>4, <1>5 DEF ComposerInv, AreFiles, AreTexts

LEMMA ComposeEdits ==
  ASSUME ComposerInv, Compose
  PROVE  /\ AreTexts(draft)' /\ pick' \in DOMAIN draft'
         /\ meddled' \subseteq Paths /\ meddled \subseteq meddled'
         /\ \A p \in DOMAIN draft \ meddled' : p \in DOMAIN draft' /\ draft'[p] = draft[p]
<1>0. /\ AreTexts(draft)
      /\ meddled \subseteq Paths /\ DOMAIN draft # {} /\ pick \in DOMAIN draft
      /\ DOMAIN draft \subseteq Paths
  BY ComposerHasFlags DEF ComposerInv
<1>1. CASE TypeText
  <2>1. draft' = [draft EXCEPT ![pick] = "typed"] /\ meddled' = meddled \cup {pick} /\ pick' = pick
    BY <1>1 DEF TypeText
  <2> QED
    BY <1>0, <2>1 DEF AreFiles, AreTexts
<1>2. CASE AddFile
  <2>1. PICK p \in Paths : /\ draft' = Written(draft, p, "typed")
                           /\ meddled' = meddled \cup {p} /\ pick' = p
    BY <1>2 DEF AddFile, Editable
  <2>2. /\ AreTexts(draft') /\ DOMAIN draft' = DOMAIN draft \cup {p}
        /\ \A q \in DOMAIN draft : q # p => draft'[q] = draft[q]
    <3>1. draft' = Written(draft, p, "typed") /\ p \in Paths
      BY <2>1
    <3>2. /\ AreTexts(Written(draft, p, "typed"))
          /\ DOMAIN Written(draft, p, "typed") = DOMAIN draft \cup {p}
      BY <1>0, <3>1, WrittenWrites
    <3>3. \A q \in DOMAIN draft : q # p => Written(draft, p, "typed")[q] = draft[q]
      BY DEF Written
    <3> QED
      BY <3>1, <3>2, <3>3
  <2> QED
    BY <1>0, <2>1, <2>2 DEF AreFiles, AreTexts
<1>3. CASE RemoveFile
  <2>1. PICK p \in DOMAIN draft : /\ draft' = [q \in DOMAIN draft \ {p} |-> draft[q]]
                                  /\ meddled' = meddled \cup {p}
                                  /\ IF pick = p THEN pick' \in DOMAIN draft' ELSE pick' = pick
    BY <1>3 DEF RemoveFile
  <2> QED
    BY <1>0, <2>1 DEF AreFiles, AreTexts
<1>4. CASE ChooseFile
  BY <1>0, <1>4 DEF ChooseFile, AreFiles, AreTexts
<1> QED
  BY <1>1, <1>2, <1>3, <1>4 DEF Compose

LEMMA ReadmeEdits ==
  ASSUME ComposerInv, NEW r \in mnet, ReadmeCame(r)
  PROVE  /\ AreTexts(draft)' /\ pick' \in DOMAIN draft'
         /\ meddled' \subseteq Paths /\ meddled \subseteq meddled'
         /\ \A p \in DOMAIN draft \ meddled' : p \in DOMAIN draft' /\ draft'[p] = draft[p]
<1> USE ComposerHasFlags
<1>1. AreTexts(draft)
  BY DEF ComposerInv
<1>2. CASE r.state = "served"
  <2>1. draft' = Written(draft, "readme", "generated") /\ meddled' = meddled \cup {"readme"}
        /\ pick' = "readme" /\ "readme" \in Paths
    BY <1>2 DEF ReadmeCame, Paths
  <2>2. /\ AreTexts(draft') /\ DOMAIN draft' = DOMAIN draft \cup {"readme"}
        /\ \A q \in DOMAIN draft : q # "readme" => draft'[q] = draft[q]
    <3>1. AreTexts(Written(draft, "readme", "generated"))
          /\ DOMAIN Written(draft, "readme", "generated") = DOMAIN draft \cup {"readme"}
      BY <1>1, <2>1, WrittenWrites
    <3>2. \A q \in DOMAIN draft : q # "readme" => Written(draft, "readme", "generated")[q] = draft[q]
      BY DEF Written
    <3> QED
      BY <2>1, <3>1, <3>2
  <2> QED
    BY <2>1, <2>2 DEF AreFiles, AreTexts
<1>3. CASE r.state # "served"
  BY <1>1, <1>3 DEF ReadmeCame, AreFiles, AreTexts
<1> QED
  BY <1>2, <1>3

LEMMA ComposerStepKeeps ==
  ASSUME ComposerInv, ComposerFlags',
         Compose \/ SwitchMode \/ PressReadme \/ BackToArchive \/ StepTimer \/ LeaveTimer
         \/ \E r \in mnet : \/ ScriptCame(r) \/ LoadEnds(r) \/ ReadmeCame(r)
                            \/ Inspected(r) \/ InstallCame(r) \/ SendFailed(r)
  PROVE  ComposerInv'
<1>1. UNCHANGED <<bundle, asked, given>>
  BY DEF Compose, SwitchMode, PressReadme, BackToArchive, StepTimer, LeaveTimer, ScriptCame,
     LoadEnds, ReadmeCame, Inspected, InstallCame, SendFailed
<1>2. /\ AreTexts(draft)' /\ pick' \in DOMAIN draft'
      /\ meddled' \subseteq Paths /\ meddled \subseteq meddled'
      /\ \A p \in DOMAIN draft \ meddled' : p \in DOMAIN draft' /\ draft'[p] = draft[p]
  <2>1. CASE Compose
    BY <2>1, ComposeEdits
  <2>2. ASSUME NEW r \in mnet, ReadmeCame(r)
        PROVE  /\ AreTexts(draft)' /\ pick' \in DOMAIN draft'
               /\ meddled' \subseteq Paths /\ meddled \subseteq meddled'
               /\ \A p \in DOMAIN draft \ meddled' : p \in DOMAIN draft' /\ draft'[p] = draft[p]
    BY <2>2, ReadmeEdits
  <2>3. CASE UNCHANGED <<draft, pick, meddled>>
    BY <2>3, ComposerHasFlags DEF ComposerInv, AreFiles, AreTexts
  <2>4. \/ Compose \/ (\E r \in mnet : ReadmeCame(r)) \/ UNCHANGED <<draft, pick, meddled>>
    BY DEF SwitchMode, PressReadme, BackToArchive, StepTimer, LeaveTimer, ScriptCame,
       LoadEnds, Inspected, InstallCame, SendFailed
  <2> QED
    BY <2>1, <2>2, <2>3, <2>4
<1>3. \A r \in mnet' : /\ ComposerRequest(r)
                       /\ r.what \in Sending => r \in mnet /\ uploading'
  <2>1. \A r \in mnet : /\ ComposerRequest(r)
                        /\ r.what \in Sending => /\ uploading
                                                 /\ \A q \in mnet : q.what \in Sending => q = r
    BY DEF ComposerInv, OneSend
  <2>2. CASE Compose \/ SwitchMode \/ BackToArchive \/ StepTimer
    BY <2>1, <2>2 DEF Compose, SwitchMode, BackToArchive, StepTimer
  <2>3. CASE LeaveTimer
    BY <2>1, <2>3 DEF LeaveTimer
  <2>4. CASE PressReadme
    <3>1. mnet' = mnet \cup {Ask(edits + 1, "readme", None)} /\ uploading' = uploading
      BY <2>4 DEF PressReadme
    <3>2. LET q == Ask(edits + 1, "readme", None) IN ComposerRequest(q) /\ q.what \notin Sending
      BY ComposerAsks
    <3> QED
      BY <2>1, <3>1, <3>2
  <2>5. ASSUME NEW r \in mnet, ScriptCame(r)
        PROVE  \A p \in mnet' : /\ ComposerRequest(p)
                                /\ p.what \in Sending => p \in mnet /\ uploading'
    <3>1. mnet' = (mnet \ {r}) \cup {Ask(0, "files", r.answer)} /\ uploading' = uploading
      BY <2>5 DEF ScriptCame
    <3>2. LET q == Ask(0, "files", r.answer) IN ComposerRequest(q) /\ q.what \notin Sending
      BY ComposerAsks
    <3> QED
      BY <2>1, <3>1, <3>2
  <2>6. ASSUME NEW r \in mnet, LoadEnds(r) \/ ReadmeCame(r)
        PROVE  mnet' = mnet \ {r} /\ uploading' = uploading
    BY <2>6 DEF LoadEnds, ReadmeCame
  <2>7. ASSUME NEW r \in mnet, Inspected(r) \/ InstallCame(r) \/ SendFailed(r)
        PROVE  mnet' = mnet \ {r} /\ r.what \in Sending
    BY <2>7 DEF Inspected, InstallCame, SendFailed, Sending
  <2> QED
    BY <2>1, <2>2, <2>3, <2>4, <2>5, <2>6, <2>7
<1> QED
  BY <1>1, <1>2, <1>3, ComposerMoves

(* One thing is sent at a time.                                            *)
LEMMA ComposerSends ==
  ASSUME ComposerInv, ComposerFlags', NEW what \in Sending, NEW arg, Sends(what, arg),
         what \in {"create", "replace"} => AreTexts(arg.files) /\ arg.main \in Python,
         what = "replace" =>
           arg.files = draft /\ asked' = (IF given THEN meddled ELSE Paths)
  PROVE  ComposerInv'
<1>1. /\ ~uploading /\ uploading' = TRUE /\ UNCHANGED <<bundle, draft, pick, meddled, given>>
      /\ mnet' = mnet \cup {Ask(sends + 1, what, arg)}
  BY DEF Sends
<1>2. PICK new : new = Ask(sends + 1, what, arg)
  OBVIOUS
<1>3. IsRequest(new) /\ new.what = what /\ new.arg = arg /\ new.state = "sent"
  BY <1>2, AskAsks
<1>4. mnet' = mnet \cup {new} /\ \A r \in mnet : r.what \notin Sending
  BY <1>1, <1>2 DEF ComposerInv, OneSend
<1>5. AreFiles(bundle)' /\ AreTexts(draft)' /\ Always \subseteq DOMAIN bundle'
  BY <1>1 DEF ComposerInv, AreFiles, AreTexts
<1>6. ComposerTypeOK'
  BY <1>1, <1>5, ComposerTypes, ComposerHasFlags
<1>7. \A r \in mnet' : ComposerRequest(r)'
  <2>1. ComposerRequest(new)'
    BY <1>3 DEF ComposerRequest, Sending
  <2> QED
    BY <1>1, <1>4, <2>1 DEF ComposerInv, ComposerRequest
<1>8. OneSend'
  BY <1>1, <1>3, <1>4 DEF OneSend
<1>9. EditorShows'
  BY <1>1 DEF ComposerInv, EditorShows
<1>10. ReplacesAsMeant'
  <2> SUFFICES ASSUME what = "replace"
               PROVE  /\ \A p \in (DOMAIN bundle \cap Editable) \ asked' :
                           p \in DOMAIN arg.files /\ Required(p, arg.files[p]) = Passed(p, bundle[p])
                      /\ given => /\ Always \subseteq DOMAIN arg.files \cup meddled
                                  /\ \A p \in DOMAIN arg.files \ meddled :
                                       p \in DOMAIN draft /\ draft[p] = arg.files[p]
    BY <1>1, <1>3, <1>4 DEF ReplacesAsMeant, Sending
  <2>1. arg.files = draft /\ asked' = (IF given THEN meddled ELSE Paths) /\ Editable \subseteq Paths
        /\ Always \subseteq Editable
    BY DEF Editable, Paths, Always
  <2> QED
    BY <2>1 DEF ComposerInv, EditorShows
<1> QED
  BY <1>5, <1>6, <1>7, <1>8, <1>9, <1>10 DEF ComposerInv

LEMMA SendKeeps ==
  ASSUME ComposerInv, ComposerFlags', Inspect \/ Finalize \/ DraftFinalize PROVE ComposerInv'
<1>1. CASE Inspect
  <2>1. PICK files \in SUBSET Python : Sends("inspect", files)
    BY <1>1 DEF Inspect
  <2>2. "inspect" \in Sending /\ "inspect" \notin {"create", "replace"}
    BY DEF Sending
  <2> QED
    BY <2>1, <2>2, ComposerSends
<1>2. CASE Finalize
  <2>1. Sends("install", None)
    BY <1>2 DEF Finalize
  <2>2. "install" \in Sending /\ "install" \notin {"create", "replace"}
    BY DEF Sending
  <2> QED
    BY <2>1, <2>2, ComposerSends
<1>3. CASE DraftFinalize
  <2>1. PICK arg : arg = [files |-> draft, main |-> main]
    OBVIOUS
  <2>2. PICK what \in {"create", "replace"} : Sends(what, arg)
    BY <1>3, <2>1 DEF DraftFinalize
  <2>3. /\ AreTexts(arg.files) /\ arg.main \in Python /\ arg.files = draft /\ what \in Sending
        /\ asked' = (IF given THEN meddled ELSE Paths)
    BY <1>3, <2>1, ComposerHasFlags DEF DraftFinalize, ComposerInv, ComposerFlags, Sending
  <2> QED
    BY <2>2, <2>3, ComposerSends
<1> QED
  BY <1>1, <1>2, <1>3

(* A request that replaces nothing is served, or any request fails.        *)
LEMMA NotReplaced ==
  ASSUME ComposerInv, ComposerFlags', NEW r \in mnet, r.state = "sent",
         NEW new, ComposerRequest(new), Same(new, r), r.what = "replace" => new.state = "failed",
         mnet' = (mnet \ {r}) \cup {new},
         UNCHANGED <<bundle, draft, pick, meddled, asked, given, uploading>>
  PROVE  ComposerInv'
<1>1. AreFiles(bundle)' /\ AreTexts(draft)' /\ Always \subseteq DOMAIN bundle'
  BY DEF ComposerInv, AreFiles, AreTexts
<1>2. ComposerTypeOK'
  BY <1>1, ComposerTypes, ComposerHasFlags
<1>3. \A q \in mnet' : ComposerRequest(q)'
  BY DEF ComposerInv, ComposerRequest
<1>4. OneSend'
  BY DEF ComposerInv, OneSend, Same
<1>5. ReplacesAsMeant' /\ EditorShows'
  BY DEF ComposerInv, ReplacesAsMeant, EditorShows, Same
<1> QED
  BY <1>1, <1>2, <1>3, <1>4, <1>5 DEF ComposerInv

LEMMA ComposerFailsKeeps ==
  ASSUME ComposerInv, ComposerFlags', NEW r \in mnet, ComposerFails(r) \/ HistoryFails(r)
  PROVE  ComposerInv'
<1>1. /\ r.state = "sent" /\ mnet' = Fail(mnet, r) /\ ComposerRequest(r) /\ IsRequest(r)
      /\ UNCHANGED <<bundle, draft, pick, meddled, asked, given, uploading>>
  BY DEF ComposerFails, HistoryFails, ComposerInv, ComposerRequest
<1>2. mnet' = (mnet \ {r}) \cup {Broken(r)} /\ FailedAs(Broken(r), r)
  BY <1>1, FailFails
<1>3. ComposerRequest(Broken(r)) /\ Same(Broken(r), r) /\ Broken(r).state = "failed"
  BY <1>1, <1>2 DEF FailedAs, Same, ComposerRequest
<1> QED
  BY <1>1, <1>2, <1>3, NotReplaced

LEMMA ServedElse ==
  ASSUME ComposerInv, ComposerFlags', NEW r \in mnet, ComposerServed(r), r.what # "replace"
  PROVE  ComposerInv'
<1>1. /\ r.state = "sent" /\ ComposerRequest(r) /\ IsRequest(r) /\ entry \in Python
      /\ UNCHANGED <<bundle, draft, pick, meddled, asked, given, uploading>>
  BY ComposerHasFlags DEF ComposerServed, ComposerInv, ComposerRequest, ComposerFlags
<1>2. PICK answer : /\ mnet' = Answer(mnet, r, answer)
                    /\ r.what = "script" => answer = entry
                    /\ r.what = "files" => answer = [p \in DOMAIN bundle \cap Editable |-> Decoded(bundle[p])]
  BY DEF ComposerServed
<1>3. PICK new : new = Given(r, answer)
  OBVIOUS
<1>4. mnet' = (mnet \ {r}) \cup {new} /\ ServedAs(new, r, answer)
  BY <1>1, <1>2, <1>3, AnswerAnswers
<1>5. r.what = "files" => AreTexts(answer) /\ Always \subseteq DOMAIN answer
  BY <1>2, PassedOnce DEF ComposerInv, AreFiles, AreTexts, Editable, Paths, Always
<1>6. ComposerRequest(new) /\ Same(new, r)
  BY <1>1, <1>2, <1>4, <1>5 DEF ServedAs, Same, ComposerRequest
<1> QED
  BY <1>1, <1>4, <1>6, NotReplaced

(* The files are replaced, and what was read before is outdated.           *)
LEMMA ServedReplace ==
  ASSUME ComposerInv, ComposerFlags', NEW r \in mnet, ComposerServed(r), r.what = "replace"
  PROVE  ComposerInv'
<1>1. /\ r.state = "sent" /\ mnet' = Answer(Outdated(mnet, {}), r, None)
      /\ bundle' = Drafted(r.arg.files)
      /\ ComposerRequest(r) /\ IsRequest(r) /\ AreTexts(r.arg.files)
      /\ UNCHANGED <<draft, pick, meddled, asked, given, uploading>>
  BY DEF ComposerServed, ComposerInv, ComposerRequest
<1>2. \A q \in mnet : IsRequest(q)
  BY DEF ComposerInv, ComposerRequest
<1>3. Outdated(mnet, {}) = {Aged(q) : q \in mnet} /\ \A q \in mnet : AgedAs(Aged(q), q)
  BY <1>2, OutdatedOutdates
<1>4. Aged(r) = r /\ r \in Outdated(mnet, {})
  BY <1>1, <1>3 DEF Aged
<1>5. PICK new : new = Given(r, None)
  OBVIOUS
<1>6. mnet' = (Outdated(mnet, {}) \ {r}) \cup {new} /\ ServedAs(new, r, None)
  BY <1>1, <1>4, <1>5, AnswerAnswers
<1>7. "replace" \in Sending
  BY DEF Sending
<1>8. ASSUME NEW p \in mnet'
      PROVE  ComposerRequest(p)' /\ (p.what \in Sending => p = new)
  <2>1. CASE p = new
    BY <1>1, <1>6, <2>1 DEF ComposerRequest, ServedAs, Same, Sending
  <2>2. CASE p # new
    <3>1. PICK q \in mnet : p = Aged(q) /\ q # r
      BY <1>3, <1>4, <1>6, <2>2
    <3>2. AgedAs(p, q) /\ ComposerRequest(q) /\ q.what \notin Sending
      BY <1>3, <1>7, <3>1 DEF ComposerInv, OneSend
    <3> QED
      BY <3>2 DEF AgedAs, Same, ComposerRequest, IsRequest
  <2> QED
    BY <2>1, <2>2
<1>9. /\ AreFiles(bundle') /\ DOMAIN bundle' = DOMAIN r.arg.files \cup Always
      /\ \A p \in DOMAIN r.arg.files : bundle'[p] = Required(p, r.arg.files[p])
  BY <1>1 DEF Drafted, AreTexts, AreFiles, Always, Paths
<1>10. AreFiles(bundle)' /\ AreTexts(draft)' /\ Always \subseteq DOMAIN bundle'
  BY <1>1, <1>9 DEF ComposerInv, AreFiles, AreTexts
<1>11. ComposerTypeOK'
  BY <1>1, <1>10, ComposerTypes, ComposerHasFlags
<1>12. OneSend'
  <2>1. uploading
    BY <1>1, <1>7 DEF ComposerInv, OneSend
  <2> QED
    BY <1>1, <1>8, <2>1 DEF OneSend
<1>13. ReplacesAsMeant'
  BY <1>6, <1>7, <1>8 DEF ReplacesAsMeant, ServedAs, Same
<1>14. EditorShows'
  <2> SUFFICES ASSUME given, NEW p \in (DOMAIN bundle' \cap Editable) \ meddled
               PROVE  p \in DOMAIN draft /\ Required(p, draft[p]) = Passed(p, bundle'[p])
    BY <1>1 DEF EditorShows
  <2>1. /\ Always \subseteq DOMAIN r.arg.files \cup meddled
        /\ \A q \in DOMAIN r.arg.files \ meddled :
             q \in DOMAIN draft /\ draft[q] = r.arg.files[q]
    BY <1>1 DEF ComposerInv, ReplacesAsMeant
  <2>2. p \in DOMAIN r.arg.files /\ p \in DOMAIN draft /\ draft[p] = r.arg.files[p]
    BY <1>9, <2>1
  <2>3. draft[p] # "latin"
    BY <2>2 DEF ComposerInv, AreTexts
  <2>4. bundle'[p] = Required(p, draft[p])
    BY <1>9, <2>2
  <2> QED
    BY <2>2, <2>3, <2>4, PassedOnce
<1> QED
  BY <1>8, <1>10, <1>11, <1>12, <1>13, <1>14 DEF ComposerInv

LEMMA FilesCameKeeps ==
  ASSUME ComposerInv, ComposerFlags', NEW r \in mnet, FilesCame(r) PROVE ComposerInv'
<1>1. /\ r.what = "files" /\ r.state = "served" /\ ComposerRequest(r)
      /\ given' = (~r.stale /\ \A q \in mnet : q.what # "replace")
      /\ draft' = r.answer /\ meddled' = {} /\ pick' \in DOMAIN draft'
      /\ mnet' = mnet \ {r} /\ UNCHANGED <<bundle, asked, uploading>>
      /\ AreTexts(r.answer)
      /\ ~r.stale => r.answer = [p \in DOMAIN bundle \cap Editable |-> Decoded(bundle[p])]
  BY DEF FilesCame, ComposerInv, ComposerRequest
<1>2. AreFiles(bundle)' /\ AreTexts(draft)' /\ Always \subseteq DOMAIN bundle'
  BY <1>1 DEF ComposerInv, AreFiles, AreTexts
<1>3. ComposerTypeOK'
  BY <1>1, <1>2, ComposerTypes
<1>4. \A q \in mnet' : ComposerRequest(q)'
  BY <1>1 DEF ComposerInv, ComposerRequest
<1>5. OneSend'
  BY <1>1 DEF ComposerInv, OneSend
<1>6. ReplacesAsMeant'
  BY <1>1 DEF ComposerInv, ReplacesAsMeant
<1>7. EditorShows'
  BY <1>1 DEF EditorShows, Passed
<1> QED
  BY <1>2, <1>3, <1>4, <1>5, <1>6, <1>7 DEF ComposerInv

LEMMA ComposerKeeps == ComposerInv /\ [ComposerNext]_mvars => ComposerInv'
<1> SUFFICES ASSUME ComposerInv, [ComposerNext]_mvars PROVE ComposerInv'
  OBVIOUS
<1>1. CASE UNCHANGED mvars
  <2>1. ComposerTypeOK'
    BY <1>1 DEF mvars, ComposerInv, ComposerTypeOK, IsFiles
  <2>2. AreFiles(bundle)' /\ AreTexts(draft)' /\ Always \subseteq DOMAIN bundle'
    BY <1>1 DEF mvars, ComposerInv, AreFiles, AreTexts
  <2>3. \A r \in mnet' : ComposerRequest(r)'
    BY <1>1 DEF mvars, ComposerInv, ComposerRequest
  <2>4. OneSend' /\ ReplacesAsMeant' /\ EditorShows'
    BY <1>1 DEF mvars, ComposerInv, OneSend, ReplacesAsMeant, EditorShows
  <2> QED
    BY <2>1, <2>2, <2>3, <2>4 DEF ComposerInv
<1>2. CASE ComposerNext
  <2>1. ComposerFlags'
    BY <1>2, ComposerFlagsKeep
  <2> QED
    BY <1>2, <2>1, ComposerStepKeeps, SendKeeps, ComposerFailsKeeps, ServedElse, ServedReplace,
       FilesCameKeeps DEF ComposerNext
<1> QED
  BY <1>1, <1>2

LEMMA ComposerBegins == ComposerInit => ComposerInv
<1> SUFFICES ASSUME ComposerInit PROVE ComposerInv
  OBVIOUS
<1>1. /\ bundle \in {Installed, Archived} /\ draft = Sample /\ given = FALSE /\ uploading = FALSE
      /\ pick = "main" /\ meddled = {}
  BY DEF ComposerInit
<1>2. AreFiles(bundle) /\ Always \subseteq DOMAIN bundle /\ AreTexts(draft) /\ pick \in DOMAIN draft
  <2>1. CASE bundle = Installed
    BY <1>1, <2>1 DEF Installed, Sample, AreFiles, AreTexts, Paths, Always
  <2>2. CASE bundle = Archived
    BY <1>1, <2>2 DEF Archived, Installed, Sample, AreFiles, AreTexts, Paths, Always
  <2> QED
    BY <1>1, <2>1, <2>2
<1>3. ComposerTypeOK
  <2>1. entry \in Python /\ main \in Python /\ asked = {} /\ DOMAIN draft # {}
    BY <1>2 DEF ComposerInit, Python
  <2>2. /\ mode \in {"zip", "editor"} /\ step = 1 /\ timers = {}
        /\ {replacing, found, given, held, uploading, generating} \subseteq BOOLEAN
    BY DEF ComposerInit
  <2> QED
    BY <1>1, <1>2, <2>1, <2>2 DEF ComposerTypeOK, AreFiles, AreTexts, IsFiles
<1>4. \A r \in mnet : ComposerRequest(r) /\ r.what \notin Sending
  <2>1. LET q == Ask(0, "script", None) IN ComposerRequest(q) /\ q.what \notin Sending
    BY ComposerAsks
  <2>2. mnet \subseteq {Ask(0, "script", None)}
    BY DEF ComposerInit
  <2> QED
    BY <2>1, <2>2
<1>5. OneSend /\ ReplacesAsMeant /\ EditorShows
  BY <1>1, <1>4 DEF OneSend, ReplacesAsMeant, EditorShows, Sending
<1> QED
  BY <1>2, <1>3, <1>4, <1>5 DEF ComposerInv

(* The files change as they were meant to.                                 *)
LEMMA ComposerReplaces ==
  ComposerInv /\ [ComposerNext]_mvars =>
    (bundle' # bundle => \A p \in (DOMAIN bundle \cap Editable) \ asked :
       p \in DOMAIN bundle' /\ bundle'[p] = Required(p, Decoded(bundle[p])))
<1> SUFFICES ASSUME ComposerInv, [ComposerNext]_mvars, bundle' # bundle,
                    NEW p \in (DOMAIN bundle \cap Editable) \ asked
             PROVE  p \in DOMAIN bundle' /\ bundle'[p] = Required(p, Decoded(bundle[p]))
  OBVIOUS
<1>1. PICK r \in mnet : /\ r.what = "replace" /\ r.state = "sent"
                        /\ bundle' = Drafted(r.arg.files)
  BY DEF ComposerNext, Compose, SwitchMode, PressReadme, Inspect, Finalize, DraftFinalize, Sends,
     BackToArchive, StepTimer, LeaveTimer, ComposerServed, ComposerFails, HistoryFails, ScriptCame,
     FilesCame, LoadEnds, ReadmeCame, Inspected, InstallCame, SendFailed, mvars
<1>2. p \in DOMAIN r.arg.files /\ Required(p, r.arg.files[p]) = Passed(p, bundle[p])
  BY <1>1 DEF ComposerInv, ReplacesAsMeant
<1> QED
  BY <1>1, <1>2 DEF Drafted, Passed

----------------------------------------------------------------------------
(* The forms of one record.                                                *)
LEMMA EachKind ==
  ASSUME kind \in {"device", "script", "server"}
  PROVE  /\ Forgotten(kind) \subseteq Keys(kind)
         /\ kind = "device" => /\ Keys(kind) = {"shown", "serial", "operation"}
                               /\ Forgotten(kind) = {"serial", "operation"}
         /\ kind = "server" => Forgotten(kind) = {"headers", "owner"}
         /\ kind = "script" => Forgotten(kind) = {}
         /\ kind = "script" => Keys(kind) = Keys("script")
         /\ kind = "server" => /\ Resources \subseteq Keys(kind) /\ "first" \in Resources
                               /\ "general" \in Keys(kind) /\ "general" \notin Resources
                               /\ "first" \notin Forgotten(kind)
BY DEF Keys, Forgotten, Resources

RecordFlags ==
  /\ kind \in {"device", "script", "server"}
  /\ old \in BOOLEAN /\ ready \in BOOLEAN /\ faithful \in BOOLEAN /\ builder \in BOOLEAN
  /\ auto \in BOOLEAN /\ gone \in BOOLEAN
  /\ panel \in {"servers", "server", "resources", "operations"}

LEMMA RecordHasFlags ==
  ASSUME RecordInv
  PROVE  /\ RecordFlags /\ AreFields(kept) /\ AreFields(fields) /\ AreFields(origin)
         /\ dirty \subseteq Keys(kind) /\ meant \subseteq Keys(kind)
BY DEF RecordInv, RecordTypeOK, RecordFlags, AreFields

LEMMA RecordTypes ==
  ASSUME RecordFlags', kind' = kind, AreFields(kept'), AreFields(fields'), AreFields(origin'),
         dirty' \subseteq Keys(kind), meant' \subseteq Keys(kind)
  PROVE  RecordTypeOK'
BY DEF RecordTypeOK, RecordFlags, AreFields

LEMMA EnterBuilds ==
  ASSUME RecordFlags, NEW values, AreFields(values), Enter(values)
  PROVE  /\ AreFields(fields') /\ auto' \in BOOLEAN
         /\ \A f \in Keys(kind) : /\ Built(values[f], fields'[f])
                                  /\ f \in Forgotten(kind) => fields'[f] = values[f]
<1>1. CASE kind = "server" /\ Builds(values, builder, auto)
  <2>1. /\ fields' = [values EXCEPT !["first"] = "auto"] /\ auto' = TRUE
        /\ "first" \in Keys(kind) /\ "first" \notin Forgotten(kind) /\ values["first"] = "none"
    BY <1>1, EachKind DEF Enter, WithResource, Builds, RecordFlags
  <2> QED
    BY <2>1 DEF AreFields, Built
<1>2. CASE ~(kind = "server" /\ Builds(values, builder, auto))
  BY <1>2 DEF Enter, Built, RecordFlags
<1> QED
  BY <1>1, <1>2

(* How the form may change: it notes what the user changed, or it goes     *)
(* back to what it was filled in with.                                     *)
FieldsMove ==
  /\ AreFields(fields') /\ dirty' \subseteq Keys(kind)
  /\ \A f \in Keys(kind) :
       \/ f \in dirty'
       \/ f \notin dirty /\ Built(fields[f], fields'[f])
          /\ (f \in Forgotten(kind) => fields'[f] = fields[f])
       \/ kind = "device" /\ fields'[f] = origin[f]

LEMMA RefillMoves ==
  ASSUME RecordInv, Refill
  PROVE  FieldsMove /\ (kind # "device" => UNCHANGED <<fields, dirty>>)
<1>1. /\ RecordFlags /\ AreFields(fields) /\ AreFields(origin) /\ dirty \subseteq Keys(kind)
  BY RecordHasFlags
<1>2. CASE Rerendered
  <2>1. /\ fields' = [origin EXCEPT !["operation"] = fields["operation"]]
        /\ dirty' = dirty \cap {"operation"} /\ kind = "device"
        /\ Keys(kind) = {"shown", "serial", "operation"} /\ "operation" \in Forgotten(kind)
    BY <1>1, <1>2, EachKind DEF Refill, Rerendered, RecordFlags
  <2>2. AreFields(fields') /\ dirty' \subseteq Keys(kind)
    BY <1>1, <2>1 DEF AreFields
  <2>3. fields'["operation"] = fields["operation"]
        /\ ("operation" \in dirty => "operation" \in dirty')
    BY <1>1, <2>1 DEF AreFields
  <2>4. \A f \in Keys(kind) : f # "operation" => fields'[f] = origin[f]
    BY <1>1, <2>1 DEF AreFields
  <2> QED
    BY <1>1, <2>1, <2>2, <2>3, <2>4 DEF FieldsMove, Built
<1>3. CASE ~Rerendered
  BY <1>1, <1>3 DEF Refill, FieldsMove, Built
<1> QED
  BY <1>2, <1>3 DEF Rerendered

LEMMA PutMoves ==
  ASSUME RecordInv, NEW f \in Keys(kind), NEW value \in {"none", "new"}, Put(f, value)
  PROVE  FieldsMove /\ auto' \in BOOLEAN
<1>1. /\ RecordFlags /\ AreFields(fields) /\ dirty \subseteq Keys(kind)
  BY RecordHasFlags
<1>2. PICK w : w = [fields EXCEPT ![f] = value]
  OBVIOUS
<1>3. AreFields(w) /\ \A g \in Keys(kind) : g # f => w[g] = fields[g]
  BY <1>1, <1>2 DEF AreFields
<1>4. Enter(w) /\ dirty' = dirty \cup {f}
  BY <1>2 DEF Put
<1>5. /\ AreFields(fields') /\ auto' \in BOOLEAN
      /\ \A g \in Keys(kind) : /\ Built(w[g], fields'[g])
                               /\ g \in Forgotten(kind) => fields'[g] = w[g]
  BY <1>1, <1>3, <1>4, EnterBuilds
<1> QED
  BY <1>1, <1>3, <1>4, <1>5 DEF FieldsMove

LEMMA TypeFieldMoves == ASSUME RecordInv, TypeField PROVE FieldsMove /\ auto' \in BOOLEAN
<1>1. kind \in {"device", "script", "server"}
  BY RecordHasFlags DEF RecordFlags
<1>2. \E f \in Keys(kind) : \E value \in {"none", "new"} : Put(f, value)
  <2>1. CASE DeviceFields
    BY <1>1, <2>1, EachKind DEF DeviceFields
  <2>2. CASE ScriptFields
    BY <1>1, <2>2, EachKind DEF ScriptFields
  <2>3. CASE ServerFields \/ ResourceItem \/ OperationItem
    BY <1>1, <2>3, EachKind DEF ServerFields, ResourceItem, OperationItem
  <2> QED
    BY <2>1, <2>2, <2>3 DEF TypeField
<1> QED
  BY <1>2, PutMoves

LEMMA ShowBuilderMoves ==
  ASSUME RecordInv, ShowBuilder PROVE FieldsMove /\ auto' \in BOOLEAN /\ builder' \in BOOLEAN
<1>1. /\ RecordFlags /\ AreFields(fields) /\ dirty \subseteq Keys(kind) /\ kind = "server"
      /\ dirty' = dirty /\ Resources \subseteq Keys(kind) /\ "first" \in Resources
      /\ "first" \notin Forgotten(kind)
  BY RecordHasFlags, EachKind DEF ShowBuilder, RecordFlags
<1>2. auto' \in BOOLEAN /\ builder' \in BOOLEAN
  BY DEF ShowBuilder, Builds
<1>3. CASE fields' = fields
  BY <1>1, <1>2, <1>3 DEF FieldsMove, Built
<1>4. CASE fields' # fields
  <2>1. fields' = [fields EXCEPT !["first"] = "auto"] /\ fields["first"] = "none"
    BY <1>1, <1>4 DEF ShowBuilder, WithResource, Builds
  <2>2. /\ AreFields(fields')
        /\ \A f \in Keys(kind) : /\ Built(fields[f], fields'[f])
                                 /\ f \in Forgotten(kind) => fields'[f] = fields[f]
    BY <1>1, <2>1 DEF AreFields, Built
  <2> QED
    BY <1>1, <1>2, <2>2 DEF FieldsMove
<1> QED
  BY <1>3, <1>4

LEMMA UsePanelMoves == ASSUME RecordInv, UsePanel PROVE FieldsMove
<1>1. /\ RecordFlags /\ AreFields(fields) /\ AreFields(origin) /\ dirty \subseteq Keys(kind)
      /\ kind = "device" /\ Keys(kind) = {"shown", "serial", "operation"}
  BY RecordHasFlags, EachKind DEF UsePanel, RecordFlags
<1>2. CASE Refill
  BY <1>2, RefillMoves
<1>3. CASE ~Refill
  <2> DEFINE before == IF Rerendered THEN origin ELSE fields
  <2>1. /\ fields' = [before EXCEPT !["operation"] = "new"]
        /\ dirty' = (IF Rerendered THEN {} ELSE dirty) \cup {"operation"}
    BY <1>3 DEF UsePanel
  <2>2. AreFields(before) /\ (Rerendered => before = origin) /\ (~Rerendered => before = fields)
    BY <1>1
  <2> HIDE DEF before
  <2>3. AreFields(fields') /\ \A f \in Keys(kind) : f # "operation" => fields'[f] = before[f]
    BY <1>1, <2>1, <2>2 DEF AreFields
  <2> QED
    BY <1>1, <2>1, <2>2, <2>3 DEF FieldsMove, Built
<1> QED
  BY <1>2, <1>3

LEMMA RecordFlagsKeep == ASSUME RecordInv, RecordNext PROVE RecordFlags' /\ kind' = kind
<1>1. RecordFlags
  BY RecordHasFlags
<1>2. CASE TypeField
  <2>1. auto' \in BOOLEAN
    BY <1>2, TypeFieldMoves
  <2>2. UNCHANGED <<kind, old, ready, faithful, builder, gone, panel>>
    BY <1>2 DEF TypeField
  <2> QED
    BY <1>1, <2>1, <2>2 DEF RecordFlags
<1>3. CASE ShowBuilder
  <2>1. auto' \in BOOLEAN /\ builder' \in BOOLEAN
    BY <1>3, ShowBuilderMoves
  <2>2. UNCHANGED <<kind, old, ready, faithful, gone, panel>>
    BY <1>3 DEF ShowBuilder
  <2> QED
    BY <1>1, <2>1, <2>2 DEF RecordFlags
<1>4. CASE UsePanel
  BY <1>1, <1>4 DEF UsePanel, RecordFlags
<1>5. CASE PressSave
  BY <1>1, <1>5 DEF PressSave, RecordFlags
<1>6. ASSUME NEW r \in rnet, RecordServed(r) \/ RecordFails(r) PROVE RecordFlags' /\ kind' = kind
  BY <1>1, <1>6 DEF RecordServed, RecordFails, RecordFlags
<1>7. ASSUME NEW r \in rnet, MetadataCame(r) PROVE RecordFlags' /\ kind' = kind
  BY <1>1, <1>7 DEF MetadataCame, RecordFlags
<1>8. ASSUME NEW r \in rnet, RecordCame(r) PROVE RecordFlags' /\ kind' = kind
  <2>1. auto' \in BOOLEAN
    BY <1>1, <1>8 DEF RecordCame, Enter, RecordFlags
  <2>2. /\ ready' = TRUE /\ faithful' \in BOOLEAN
        /\ UNCHANGED <<kind, old, builder, gone, panel>>
    BY <1>8 DEF RecordCame
  <2> QED
    BY <1>1, <2>1, <2>2 DEF RecordFlags
<1>9. ASSUME NEW r \in rnet, RecordMissing(r) PROVE RecordFlags' /\ kind' = kind
  BY <1>1, <1>9 DEF RecordMissing, RecordFlags
<1>10. ASSUME NEW r \in rnet, PanelCame(r) \/ SaveCame(r) PROVE RecordFlags' /\ kind' = kind
  BY <1>1, <1>10 DEF PanelCame, SaveCame, RecordFlags
<1> QED
  BY <1>2, <1>3, <1>4, <1>5, <1>6, <1>7, <1>8, <1>9, <1>10 DEF RecordNext

LEMMA RecordAsks ==
  ASSUME NEW what \in {"metadata", "record", "panel"}
  PROVE  LET q == Ask(0, what, None) IN
         RecordRequest(q) /\ q.what = what /\ q.state = "sent"
BY AskAsks DEF RecordRequest

LEMMA BuiltChains ==
  ASSUME NEW a, NEW b, NEW c, Built(a, b), Built(b, c) PROVE Built(a, c)
BY DEF Built

(* A form that showed the record still does, when it moves.                *)
LEMMA FieldsShowMoved ==
  ASSUME RecordInv, FieldsMove, UNCHANGED <<kind, kept, origin>>, StillTrue' => StillTrue
  PROVE  FieldsShow'
<1>1. kind \in {"device", "script", "server"}
  BY RecordHasFlags DEF RecordFlags
<1> SUFFICES ASSUME StillTrue, NEW f \in Keys(kind) \ Forgotten(kind)
             PROVE  /\ f \in dirty' \/ Built(kept[f], fields'[f])
                    /\ kind = "device" => origin[f] = kept[f]
  BY DEF FieldsShow
<1>2. /\ f \in dirty \/ Built(kept[f], fields[f])
      /\ kind = "device" => origin[f] = kept[f]
  BY DEF RecordInv, FieldsShow
<1> QED
  BY <1>2, BuiltChains DEF FieldsMove, Built

LEMMA UnfilledMoved ==
  ASSUME RecordInv, FieldsMove, UNCHANGED <<kind, origin>>
  PROVE  Unfilled'
<1>1. Forgotten(kind) \subseteq Keys(kind)
  BY RecordHasFlags, EachKind DEF RecordFlags
<1> QED
  BY <1>1 DEF RecordInv, Unfilled, FieldsMove

(* The form moves, and requests other than saves come and go.              *)
LEMMA RecordMoves ==
  ASSUME RecordInv, RecordFlags', FieldsMove,
         UNCHANGED <<kind, kept, origin, meant, faithful>>, gone => gone',
         \A r \in rnet' : RecordRequest(r) /\ (r.what = "save" => r \in rnet),
         \A r \in rnet : r.what = "save" /\ r.state = "served" => r \in rnet' \/ gone'
  PROVE  RecordInv'
<1>1. RecordTypeOK'
  BY RecordHasFlags, RecordTypes DEF FieldsMove
<1>2. \A r \in rnet' : RecordRequest(r)'
  BY DEF RecordRequest, AreFields
<1>3. SavesTogether'
  BY DEF RecordInv, SavesTogether
<1>4. SavesAsMeant'
  <2> SUFFICES ASSUME NEW r \in rnet, r.what = "save", r.state = "sent", NEW f \in Keys(kind)
               PROVE  /\ f \in meant \/ IF f \in Forgotten(kind) THEN r.arg[f] = "none"
                                      ELSE Built(kept[f], r.arg[f])
                      /\ kind # "device" /\ faithful => f \in dirty' \/ Built(r.arg[f], fields'[f])
    BY DEF SavesAsMeant
  <2>1. /\ f \in meant \/ IF f \in Forgotten(kind) THEN r.arg[f] = "none" ELSE Built(kept[f], r.arg[f])
        /\ kind # "device" /\ faithful => f \in dirty \/ Built(r.arg[f], fields[f])
    BY DEF RecordInv, SavesAsMeant
  <2> QED
    BY <2>1, BuiltChains DEF FieldsMove
<1>5. StillTrue' => StillTrue
  BY DEF StillTrue
<1>6. FieldsShow' /\ Unfilled'
  BY <1>5, FieldsShowMoved, UnfilledMoved
<1> QED
  BY <1>1, <1>2, <1>3, <1>4, <1>6 DEF RecordInv

LEMMA FieldsStay ==
  ASSUME RecordInv, UNCHANGED <<fields, dirty>> PROVE FieldsMove
BY RecordHasFlags DEF FieldsMove, Built

LEMMA RecordStepKeeps ==
  ASSUME RecordInv, RecordFlags',
         TypeField \/ ShowBuilder \/ UsePanel
         \/ \E r \in rnet : MetadataCame(r) \/ RecordMissing(r) \/ PanelCame(r) \/ SaveCame(r)
  PROVE  RecordInv'
<1>1. UNCHANGED <<kind, kept, origin, meant, faithful>>
  BY DEF TypeField, ShowBuilder, UsePanel, MetadataCame, RecordMissing, PanelCame, SaveCame
<1>2. FieldsMove
  <2>1. CASE TypeField \/ ShowBuilder \/ UsePanel
    BY <2>1, TypeFieldMoves, ShowBuilderMoves, UsePanelMoves
  <2>2. ASSUME NEW r \in rnet, MetadataCame(r) \/ RecordMissing(r) PROVE FieldsMove
    BY <2>2, FieldsStay DEF MetadataCame, RecordMissing
  <2>3. ASSUME NEW r \in rnet, PanelCame(r) \/ SaveCame(r) PROVE FieldsMove
    BY <2>3, RefillMoves DEF PanelCame, SaveCame
  <2> QED
    BY <2>1, <2>2, <2>3
<1>3. /\ gone => gone'
      /\ \A r \in rnet' : RecordRequest(r) /\ (r.what = "save" => r \in rnet)
      /\ \A r \in rnet : r.what = "save" /\ r.state = "served" => r \in rnet' \/ gone'
  <2>1. \A r \in rnet : RecordRequest(r)
    BY DEF RecordInv
  <2>2. /\ LET q == Ask(0, "panel", None) IN RecordRequest(q) /\ q.what = "panel"
        /\ LET q == Ask(0, "record", None) IN RecordRequest(q) /\ q.what = "record"
    BY RecordAsks
  <2>3. CASE TypeField \/ ShowBuilder
    <3>1. rnet' = rnet /\ gone' = gone
      BY <2>3 DEF TypeField, ShowBuilder
    <3> QED
      BY <2>1, <3>1
  <2>4. CASE UsePanel
    <3>1. /\ rnet \subseteq rnet' /\ rnet' \subseteq rnet \cup {Ask(0, "panel", None)}
          /\ gone' = gone
      BY <2>4 DEF UsePanel
    <3> QED
      BY <2>1, <2>2, <3>1
  <2>5. ASSUME NEW r \in rnet, MetadataCame(r)
        PROVE  /\ rnet' \subseteq rnet \cup {Ask(0, "record", None)} /\ gone' = gone
               /\ \A q \in rnet : q # r => q \in rnet'
               /\ r.what = "metadata"
    BY <2>5 DEF MetadataCame
  <2>6. ASSUME NEW r \in rnet, RecordMissing(r) \/ PanelCame(r)
        PROVE  rnet' = rnet \ {r} /\ (gone => gone') /\ r.what # "save"
    <3>1. CASE RecordMissing(r)
      BY <3>1 DEF RecordMissing
    <3>2. CASE PanelCame(r)
      BY <3>2 DEF PanelCame
    <3> QED
      BY <2>6, <3>1, <3>2
  <2>7. ASSUME NEW r \in rnet, SaveCame(r)
        PROVE  rnet' = rnet \ {r} /\ (gone => gone') /\ (r.state = "served" => gone')
    BY <2>7 DEF SaveCame
  <2> QED
    BY <2>1, <2>2, <2>3, <2>4, <2>5, <2>6, <2>7
<1> QED
  BY <1>1, <1>2, <1>3, RecordMoves

(* A save is sent with what the form shows.                                *)
LEMMA PressSaveKeeps == ASSUME RecordInv, RecordFlags', PressSave PROVE RecordInv'
<1>1. /\ Refill /\ ~gone /\ UNCHANGED <<kind, kept, origin, faithful, gone>>
      /\ rnet' = rnet \cup {Ask(rounds + 1, "save", fields)}
      /\ meant' = (IF faithful /\ ~Saving THEN dirty ELSE Keys(kind))
  BY DEF PressSave, Shown
<1>2. PICK new : new = Ask(rounds + 1, "save", fields)
  OBVIOUS
<1>3. IsRequest(new) /\ new.what = "save" /\ new.arg = fields /\ new.state = "sent"
  BY <1>2, AskAsks
<1>4. rnet' = rnet \cup {new}
  BY <1>1, <1>2
<1>5. FieldsMove /\ (kind # "device" => UNCHANGED <<fields, dirty>>)
  BY <1>1, RefillMoves
<1>6. RecordTypeOK'
  <2>1. meant' \subseteq Keys(kind)
    BY <1>1, RecordHasFlags
  <2> QED
    BY <1>1, <1>5, <2>1, RecordHasFlags, RecordTypes DEF FieldsMove
<1>7. \A r \in rnet' : RecordRequest(r)'
  <2>1. RecordRequest(new)'
    BY <1>1, <1>3, RecordHasFlags DEF RecordRequest, AreFields
  <2> QED
    BY <1>1, <1>4, <2>1 DEF RecordInv, RecordRequest, AreFields
<1>8. Saving => meant' = Keys(kind)
  BY <1>1
<1>9. SavesTogether'
  BY <1>1, <1>3, <1>4, <1>8 DEF SavesTogether, Saving
<1>10. ~Saving => (faithful => StillTrue)
  BY <1>1 DEF Saving, StillTrue
<1>11. SavesAsMeant'
  <2> SUFFICES ASSUME NEW r \in rnet', r.what = "save", r.state = "sent", NEW f \in Keys(kind)
               PROVE  /\ f \in meant' \/ IF f \in Forgotten(kind) THEN r.arg[f] = "none"
                                       ELSE Built(kept[f], r.arg[f])
                      /\ kind # "device" /\ faithful => f \in dirty' \/ Built(r.arg[f], fields'[f])
    BY <1>1 DEF SavesAsMeant
  <2>1. CASE r = new
    BY <1>1, <1>3, <1>5, <1>10, <2>1 DEF RecordInv, FieldsShow, Unfilled, Built
  <2>2. CASE r # new
    <3>1. r \in rnet /\ Saving
      BY <1>4, <2>2 DEF Saving
    <3> QED
      BY <1>5, <1>8, <3>1 DEF RecordInv, SavesAsMeant
  <2> QED
    BY <2>1, <2>2
<1>12. FieldsShow' /\ Unfilled'
  <2>1. StillTrue' => StillTrue
    BY <1>1, <1>4 DEF StillTrue
  <2> QED
    BY <1>1, <1>5, <2>1, FieldsShowMoved, UnfilledMoved
<1> QED
  BY <1>6, <1>7, <1>9, <1>11, <1>12 DEF RecordInv

(* A request that stores nothing is served or fails.                       *)
LEMMA NotStored ==
  ASSUME RecordInv, RecordFlags', NEW r \in rnet, r.state = "sent",
         NEW new, RecordRequest(new), Same(new, r), r.what = "save" => new.state = "failed",
         rnet' = (rnet \ {r}) \cup {new},
         UNCHANGED <<kind, kept, fields, origin, dirty, meant, faithful, gone>>
  PROVE  RecordInv'
<1>1. RecordTypeOK'
  BY RecordHasFlags, RecordTypes
<1>2. \A q \in rnet' : RecordRequest(q)'
  BY DEF RecordInv, RecordRequest, AreFields
<1>3. SavesTogether'
  BY DEF RecordInv, SavesTogether, Same
<1>4. SavesAsMeant'
  BY DEF RecordInv, SavesAsMeant, Same
<1>5. FieldsShow' /\ Unfilled'
  <2>1. StillTrue' => StillTrue
    BY DEF StillTrue, Same
  <2> QED
    BY <2>1, FieldsStay, FieldsShowMoved, UnfilledMoved
<1> QED
  BY <1>1, <1>2, <1>3, <1>4, <1>5 DEF RecordInv

LEMMA RecordLoadServed ==
  ASSUME RecordInv, RecordFlags', NEW r \in rnet, RecordServed(r), r.what # "save" PROVE RecordInv'
<1>1. /\ r.state = "sent" /\ rnet' = Answer(rnet, r, kept) /\ RecordRequest(r) /\ IsRequest(r)
      /\ UNCHANGED <<kind, kept, fields, origin, dirty, meant, faithful, gone>>
  BY DEF RecordServed, RecordInv, RecordRequest
<1>2. PICK new : new = Given(r, kept)
  OBVIOUS
<1>3. rnet' = (rnet \ {r}) \cup {new} /\ ServedAs(new, r, kept)
  BY <1>1, <1>2, AnswerAnswers
<1>4. RecordRequest(new) /\ Same(new, r)
  BY <1>1, <1>3, RecordHasFlags DEF ServedAs, Same, RecordRequest
<1> QED
  BY <1>1, <1>3, <1>4, NotStored

LEMMA RecordLoadFails ==
  ASSUME RecordInv, RecordFlags', NEW r \in rnet, RecordFails(r), kept' = kept, rnet' = Fail(rnet, r)
  PROVE  RecordInv'
<1>1. /\ r.state = "sent" /\ RecordRequest(r) /\ IsRequest(r)
      /\ UNCHANGED <<kind, kept, fields, origin, dirty, meant, faithful, gone>>
  BY DEF RecordFails, RecordInv, RecordRequest
<1>2. rnet' = (rnet \ {r}) \cup {Broken(r)} /\ FailedAs(Broken(r), r)
  BY <1>1, FailFails
<1>3. RecordRequest(Broken(r)) /\ Same(Broken(r), r) /\ Broken(r).state = "failed"
  BY <1>1, <1>2 DEF FailedAs, Same, RecordRequest
<1> QED
  BY <1>1, <1>2, <1>3, NotStored

LEMMA SavedFields ==
  ASSUME RecordInv, NEW record, AreFields(record), NEW part,
         kept' = Saved(record, part)
  PROVE  /\ AreFields(kept')
         /\ kind # "server" => kept' = record
         /\ \A f \in Keys(kind) :
              \/ kept'[f] = kept[f]
              \/ IF kind = "server" /\ f \in Forgotten(kind) THEN kept'[f] = Erased(f)
                 ELSE kept'[f] = record[f]
BY RecordHasFlags DEF Saved, AreFields, Erased

(* A save is stored, of a server maybe in part: what was read before is    *)
(* outdated, and other saves were meant to change everything.              *)
LEMMA SaveStored ==
  ASSUME RecordInv, RecordFlags', NEW r \in rnet, r.what = "save", r.state = "sent",
         RecordRequest(r), NEW part, kept' = Saved(r.arg, part),
         NEW new, Same(new, r), new.state \in {"served", "failed"},
         new.state = "failed" => kind # "device",
         rnet' = (Outdated(rnet, {}) \ {r}) \cup {new},
         UNCHANGED <<kind, fields, origin, dirty, meant, faithful, gone>>
  PROVE  RecordInv'
<1>1. \A q \in rnet : IsRequest(q)
  BY DEF RecordInv, RecordRequest
<1>2. Outdated(rnet, {}) = {Aged(q) : q \in rnet} /\ \A q \in rnet : AgedAs(Aged(q), q)
  BY <1>1, OutdatedOutdates
<1>3. Aged(r) = r
  BY DEF Aged
<1>4. /\ AreFields(kept')
      /\ \A f \in Keys(kind) \ Forgotten(kind) : kept'[f] = r.arg[f] \/ kept'[f] = kept[f]
  BY SavedFields DEF RecordRequest
<1>5. ASSUME NEW p \in rnet', p # new
      PROVE  \E q \in rnet : p = Aged(q) /\ q # r /\ AgedAs(p, q) /\ RecordRequest(q)
  BY <1>2, <1>3, <1>5 DEF RecordInv
<1>6. \A p \in rnet' : RecordRequest(p)'
  <2> SUFFICES ASSUME NEW p \in rnet' PROVE RecordRequest(p)'
    OBVIOUS
  <2>1. CASE p = new
    BY <2>1 DEF RecordRequest, Same, AreFields
  <2>2. CASE p # new
    <3>1. PICK q \in rnet : AgedAs(p, q) /\ RecordRequest(q)
      BY <1>5, <2>2
    <3> QED
      BY <3>1 DEF AgedAs, Same, RecordRequest, IsRequest, AreFields
  <2> QED
    BY <2>1, <2>2
<1>7. \A p \in rnet' : p.what = "save" /\ p # new => meant = Keys(kind)
  <2> SUFFICES ASSUME NEW p \in rnet', p.what = "save", p # new PROVE meant = Keys(kind)
    OBVIOUS
  <2>1. PICK q \in rnet : q # r /\ AgedAs(p, q)
    BY <1>5
  <2> QED
    BY <2>1 DEF RecordInv, SavesTogether, AgedAs, Same
<1>8. SavesTogether'
  BY <1>7 DEF SavesTogether
<1>9. SavesAsMeant'
  <2> SUFFICES ASSUME NEW p \in rnet', p.what = "save", p.state = "sent", NEW f \in Keys(kind)
               PROVE  /\ f \in meant \/ IF f \in Forgotten(kind) THEN p.arg[f] = "none"
                                      ELSE Built(kept'[f], p.arg[f])
                      /\ kind # "device" /\ faithful => f \in dirty \/ Built(p.arg[f], fields[f])
    BY DEF SavesAsMeant
  <2>1. PICK q \in rnet : q # r /\ AgedAs(p, q) /\ p # new
    BY <1>5
  <2> QED
    BY <1>7, <2>1 DEF RecordInv, SavesAsMeant, AgedAs, Same
<1>10. FieldsShow'
  <2> SUFFICES ASSUME StillTrue', NEW f \in Keys(kind) \ Forgotten(kind)
               PROVE  /\ f \in dirty \/ Built(kept'[f], fields[f])
                      /\ kind = "device" => origin[f] = kept'[f]
    BY DEF FieldsShow
  <2>1. new.state = "failed" /\ kind # "device"
    BY DEF StillTrue, Same
  <2>2. StillTrue
    <3> SUFFICES ASSUME NEW q \in rnet, q.what = "save", q.state = "served" PROVE FALSE
      BY DEF StillTrue
    <3>1. q # r /\ Aged(q) \in Outdated(rnet, {}) /\ AgedAs(Aged(q), q)
      BY <1>2
    <3>2. Aged(q) # r
      BY <3>1 DEF AgedAs
    <3> QED
      BY <3>1, <3>2 DEF StillTrue, AgedAs, Same
  <2>3. f \in dirty \/ (Built(kept[f], fields[f]) /\ Built(r.arg[f], fields[f]))
    BY <2>1, <2>2 DEF RecordInv, FieldsShow, SavesAsMeant, StillTrue
  <2> QED
    BY <1>4, <2>1, <2>3
<1>11. RecordTypeOK'
  BY <1>4, RecordHasFlags, RecordTypes
<1>12. Unfilled'
  BY DEF RecordInv, Unfilled
<1> QED
  BY <1>6, <1>8, <1>9, <1>10, <1>11, <1>12 DEF RecordInv

LEMMA RecordSaveKeeps ==
  ASSUME RecordInv, RecordFlags', NEW r \in rnet, r.what = "save",
         RecordServed(r) \/ (RecordFails(r) /\ rnet' = Fail(Outdated(rnet, {}), r)
                             /\ kind # "device" /\ \E part : kept' = Saved(r.arg, part))
  PROVE  RecordInv'
<1>1. /\ r.state = "sent" /\ RecordRequest(r) /\ IsRequest(r)
      /\ UNCHANGED <<kind, fields, origin, dirty, meant, faithful, gone>>
  BY DEF RecordServed, RecordFails, RecordInv, RecordRequest
<1>2. \A q \in rnet : IsRequest(q)
  BY DEF RecordInv, RecordRequest
<1>3. Outdated(rnet, {}) = {Aged(q) : q \in rnet} /\ Aged(r) = r
  BY <1>1, <1>2, OutdatedOutdates DEF Aged
<1>4. r \in Outdated(rnet, {})
  BY <1>3
<1>5. CASE RecordServed(r)
  <2>1. kept' = Saved(r.arg, Keys(kind)) /\ rnet' = Answer(Outdated(rnet, {}), r, None)
    BY <1>5 DEF RecordServed
  <2>2. PICK new : new = Given(r, None)
    OBVIOUS
  <2>3. rnet' = (Outdated(rnet, {}) \ {r}) \cup {new} /\ ServedAs(new, r, None)
    BY <1>1, <1>4, <2>1, <2>2, AnswerAnswers
  <2> QED
    BY <1>1, <2>1, <2>3, SaveStored DEF ServedAs
<1>6. ASSUME RecordFails(r), rnet' = Fail(Outdated(rnet, {}), r), kind # "device",
             \E part : kept' = Saved(r.arg, part)
      PROVE  RecordInv'
  <2>1. PICK part : kept' = Saved(r.arg, part)
    BY <1>6
  <2>2. rnet' = (Outdated(rnet, {}) \ {r}) \cup {Broken(r)} /\ FailedAs(Broken(r), r)
    BY <1>1, <1>4, <1>6, FailFails
  <2> QED
    BY <1>1, <1>6, <2>1, <2>2, SaveStored DEF FailedAs
<1> QED
  BY <1>5, <1>6

LEMMA RecordFailsKeeps ==
  ASSUME RecordInv, RecordFlags', NEW r \in rnet, RecordFails(r) PROVE RecordInv'
<1>1. \/ kept' = kept /\ rnet' = Fail(rnet, r)
      \/ /\ r.what = "save" /\ kind # "device" /\ rnet' = Fail(Outdated(rnet, {}), r)
         /\ \E part : kept' = Saved(r.arg, part)
  BY DEF RecordFails
<1> QED
  BY <1>1, RecordLoadFails, RecordSaveKeeps

LEMMA FilledFields ==
  ASSUME RecordFlags, NEW record, AreFields(record)
  PROVE  /\ AreFields(FilledIn(kind, record))
         /\ \A f \in Keys(kind) : FilledIn(kind, record)[f] =
              IF f \in Forgotten(kind) THEN "none" ELSE record[f]
BY DEF FilledIn, AreFields

LEMMA RecordCameKeeps ==
  ASSUME RecordInv, RecordFlags', NEW r \in rnet, RecordCame(r) PROVE RecordInv'
<1>1. /\ r.what = "record" /\ r.state = "served" /\ RecordRequest(r)
      /\ origin' = FilledIn(kind, r.answer) /\ dirty' = {} /\ Enter(FilledIn(kind, r.answer))
      /\ faithful' = (~r.stale /\ ~Saving)
      /\ UNCHANGED <<kind, kept, meant, gone>>
      /\ AreFields(r.answer) /\ (~r.stale => r.answer = kept)
  BY DEF RecordCame, RecordInv, RecordRequest
<1>2. rnet \ {r} \subseteq rnet' /\ rnet' \subseteq (rnet \ {r}) \cup {Ask(0, "panel", None)}
  BY DEF RecordCame
<1>3. RecordFlags
  BY RecordHasFlags
<1>4. /\ AreFields(origin')
      /\ \A f \in Keys(kind) :
           origin'[f] = IF f \in Forgotten(kind) THEN "none" ELSE r.answer[f]
  BY <1>1, <1>3, FilledFields
<1>5. /\ AreFields(fields')
      /\ \A f \in Keys(kind) : /\ Built(origin'[f], fields'[f])
                               /\ f \in Forgotten(kind) => fields'[f] = origin'[f]
  BY <1>1, <1>3, <1>4, EnterBuilds
<1>6. RecordTypeOK'
  BY <1>1, <1>4, <1>5, RecordHasFlags, RecordTypes
<1>7. \A q \in rnet' : RecordRequest(q) /\ (q.what = "save" => q \in rnet)
  <2>1. LET q == Ask(0, "panel", None) IN RecordRequest(q) /\ q.what = "panel"
    BY RecordAsks
  <2> QED
    BY <1>2, <2>1 DEF RecordInv
<1>8. \A q \in rnet' : RecordRequest(q)'
  BY <1>1, <1>7 DEF RecordRequest, AreFields
<1>9. SavesTogether'
  BY <1>1, <1>7 DEF RecordInv, SavesTogether
<1>10. SavesAsMeant'
  BY <1>1, <1>7 DEF RecordInv, SavesAsMeant, Saving
<1>11. FieldsShow'
  <2> SUFFICES ASSUME faithful', NEW f \in Keys(kind) \ Forgotten(kind)
               PROVE  Built(kept[f], fields'[f]) /\ origin'[f] = kept[f]
    BY <1>1 DEF FieldsShow, StillTrue
  <2> QED
    BY <1>1, <1>4, <1>5
<1>12. Unfilled'
  <2>1. Forgotten(kind) \subseteq Keys(kind)
    BY <1>3, EachKind DEF RecordFlags
  <2> QED
    BY <1>1, <1>4, <1>5, <2>1 DEF Unfilled
<1> QED
  BY <1>6, <1>8, <1>9, <1>10, <1>11, <1>12 DEF RecordInv

LEMMA RecordKeeps == RecordInv /\ [RecordNext]_rvars => RecordInv'
<1> SUFFICES ASSUME RecordInv, [RecordNext]_rvars PROVE RecordInv'
  OBVIOUS
<1>1. CASE UNCHANGED rvars
  <2>1. RecordTypeOK'
    BY <1>1 DEF rvars, RecordInv, RecordTypeOK
  <2>2. \A r \in rnet' : RecordRequest(r)'
    BY <1>1 DEF rvars, RecordInv, RecordRequest, AreFields
  <2>3. SavesTogether' /\ SavesAsMeant' /\ FieldsShow' /\ Unfilled'
    BY <1>1 DEF rvars, RecordInv, SavesTogether, SavesAsMeant, FieldsShow, StillTrue, Unfilled
  <2> QED
    BY <2>1, <2>2, <2>3 DEF RecordInv
<1>2. CASE RecordNext
  <2>1. RecordFlags'
    BY <1>2, RecordFlagsKeep
  <2> QED
    BY <1>2, <2>1, RecordStepKeeps, PressSaveKeeps, RecordLoadServed, RecordFailsKeeps,
       RecordSaveKeeps, RecordCameKeeps DEF RecordNext
<1> QED
  BY <1>1, <1>2

LEMMA RecordBegins == RecordInit => RecordInv
<1> SUFFICES ASSUME RecordInit PROVE RecordInv
  OBVIOUS
<1>1. /\ kind \in {"device", "script", "server"} /\ old \in BOOLEAN
      /\ fields = Blank(kind) /\ origin = Blank(kind) /\ dirty = {} /\ meant = {}
      /\ faithful = ~old
  BY DEF RecordInit
<1>2. AreFields(Blank(kind)) /\ AreFields(kept) /\ (~old => kept = Blank(kind))
  BY DEF RecordInit, AreFields, Blank
<1>3. RecordTypeOK
  <2>1. \A rec \in {kept, fields, origin} : rec \in [Keys(kind) -> {"none", "old", "new", "auto"}]
    BY <1>1, <1>2 DEF AreFields
  <2>2. ready \in BOOLEAN /\ builder = FALSE /\ auto = FALSE /\ panel = "servers" /\ gone = FALSE
    BY DEF RecordInit
  <2> QED
    BY <1>1, <2>1, <2>2 DEF RecordTypeOK
<1>4. \A r \in rnet : RecordRequest(r) /\ r.what # "save"
  <2>1. PICK what \in {"metadata", "record", "panel"} : rnet = {Ask(0, what, None)}
    BY DEF RecordInit
  <2>2. LET q == Ask(0, what, None) IN RecordRequest(q) /\ q.what = what
    BY RecordAsks
  <2> QED
    BY <2>1, <2>2
<1>5. SavesTogether /\ SavesAsMeant
  BY <1>4 DEF SavesTogether, SavesAsMeant
<1>6. FieldsShow
  BY <1>1, <1>2 DEF FieldsShow, StillTrue, Built
<1>7. Unfilled
  BY <1>1, EachKind DEF Unfilled, Blank
<1> QED
  BY <1>3, <1>4, <1>5, <1>6, <1>7 DEF RecordInv

(* The record changes as it was meant to.                                  *)
LEMMA RecordStores ==
  RecordInv /\ [RecordNext]_rvars =>
    \A f \in Keys(kind) : kept'[f] # kept[f] =>
      \/ f \in meant
      \/ f \in Forgotten(kind) /\ kept'[f] = Erased(f)
      \/ kept[f] = "none" /\ kept'[f] = "auto"
<1> SUFFICES ASSUME RecordInv, [RecordNext]_rvars, NEW f \in Keys(kind), kept'[f] # kept[f]
             PROVE  \/ f \in meant
                    \/ f \in Forgotten(kind) /\ kept'[f] = Erased(f)
                    \/ kept[f] = "none" /\ kept'[f] = "auto"
  OBVIOUS
<1>1. PICK r \in rnet : (RecordServed(r) \/ RecordFails(r)) /\ kept' # kept
  BY DEF RecordNext, TypeField, ShowBuilder, UsePanel, PressSave, MetadataCame, RecordCame,
     RecordMissing, PanelCame, SaveCame, rvars
<1>2. r.what = "save" /\ r.state = "sent" /\ \E part : kept' = Saved(r.arg, part)
  BY <1>1 DEF RecordServed, RecordFails
<1>3. IF kind = "server" /\ f \in Forgotten(kind) THEN kept'[f] = Erased(f) ELSE kept'[f] = r.arg[f]
  BY <1>2, SavedFields DEF RecordInv, RecordRequest
<1>4. f \in meant \/ IF f \in Forgotten(kind) THEN r.arg[f] = "none" ELSE Built(kept[f], r.arg[f])
  BY <1>2 DEF RecordInv, SavesAsMeant
<1>5. f \in Forgotten(kind) /\ kind # "server" => Erased(f) = "none"
  BY RecordHasFlags, EachKind DEF Erased, RecordFlags
<1> QED
  BY <1>3, <1>4, <1>5 DEF Built

----------------------------------------------------------------------------
(* The pages together: what belongs to a page that is closed stays as it   *)
(* was.                                                                    *)
IInv == at \in Places /\ SessionInv /\ ListInv /\ FormInv /\ ComposerInv /\ RecordInv

LEMMA PagesBegin == Init => IInv
BY SessionBegins, ListBegins, FormBegins, ComposerBegins, RecordBegins DEF Init, IInv

LEMMA PagesStep ==
  [Next]_vars => /\ at' = at /\ [SessionNext]_svars /\ [ListNext]_lvars /\ [FormNext]_ivars
                 /\ [ComposerNext]_mvars /\ [RecordNext]_rvars
BY DEF Next, vars

LEMMA PagesKeep == IInv /\ [Next]_vars => IInv'
BY PagesStep, SessionKeeps, ListKeeps, FormKeeps, ComposerKeeps, RecordKeeps DEF IInv

LEMMA PagesInvariant == Spec => []IInv
BY PagesBegin, PagesKeep, PTL DEF Spec

(* Each variable of the session, the lists and the forms has its type, and *)
(* so has each request.                                                    *)
THEOREM TypeCorrect == Spec => []TypeOK
<1>1. IInv => TypeOK
  BY DEF IInv, TypeOK, SessionInv, ListInv, FormInv, ComposerInv, RecordInv
<1> QED
  BY <1>1, PagesInvariant, PTL

(* A page that waits for nothing shows each stored row once, as it is, and *)
(* no other, whatever order the answers of its loads and operations came   *)
(* in, but for what its model says it cannot hear of (the stores of the    *)
(* web interface, fetchAll, and the patches of their operations).          *)
THEOREM ListsFollow == Spec => []ListFollowsServer
<1>1. IInv => ListFollowsServer
  BY ListSettled DEF IInv
<1> QED
  BY <1>1, PagesInvariant, PTL

(* A store of the session that waits for nothing has the user of the       *)
(* cookie, with that user's project and nobody else's API key, unless a    *)
(* request failed or an answer came for another user than the one of then  *)
(* (stores/auth-store.ts, generateNewApiKey included).                     *)
THEOREM SessionSettled == Spec => []SessionSettles
<1>1. IInv => SessionSettles
  BY DEF IInv, SessionInv, Settling, Unsettled, ProjectComes, SessionSettles
<1> QED
  BY <1>1, PagesInvariant, PTL

(* A save of an instance changes what the user changed, what a tab         *)
(* completed and what Upsert overwrites unseen; one that fails on the way  *)
(* leaves a beginning of the destinations (add-instance: loadData and      *)
(* onSubmit; Update and syncDestinations on the edge).                     *)
THEOREM InstanceSavedAsMeant == Spec => SavedAsMeant
<1>1. IInv /\ [Next]_vars =>
        [\A g \in Instance : stored'[g] # stored[g] =>
           \/ g \in intended
           \/ g \in DOMAIN Overwritten /\ stored'[g] = Overwritten[g]
           \/ g = "inputs" /\ stored[g] = "unset" /\ stored'[g] = "default"
           \/ g = "dests" /\ IF cut' THEN Shortened(loaded, stored'[g])
                                     ELSE OnlyMapped(loaded, stored'[g])]_ivars
  BY FormStores, PagesStep DEF IInv
<1> QED
  BY <1>1, PagesInvariant, PTL DEF Spec, SavedAsMeant

(* A replacement of a script keeps the files that the user neither changed *)
(* nor removed, but for what its way through the editor does to one that   *)
(* is not UTF-8 and the line that requirements may get                     *)
(* (ScriptComposerPage.tsx: handleDraftFinalize; Files, writeDraftToTemp   *)
(* and ensureSparkitRequirement on the edge).                              *)
THEOREM ReplacingLosesNothing == Spec => NothingLost
<1>1. IInv /\ [Next]_vars =>
        [bundle' # bundle => \A p \in (DOMAIN bundle \cap Editable) \ asked :
           p \in DOMAIN bundle' /\ bundle'[p] = Required(p, Decoded(bundle[p]))]_mvars
  BY ComposerReplaces, PagesStep DEF IInv
<1> QED
  BY <1>1, PagesInvariant, PTL DEF Spec, NothingLost

(* A save of a device, a script's data or a server changes what the user   *)
(* changed, erases or overwrites what the form is not filled in with, and  *)
(* adds the resource of an empty server (DeviceForm, ScriptEditPage and    *)
(* ServerStepForm).                                                        *)
THEOREM RecordSavedAsMeant == Spec => RecordsSavedAsMeant
<1>1. IInv /\ [Next]_vars =>
        [\A f \in Keys(kind) : kept'[f] # kept[f] =>
           \/ f \in meant
           \/ f \in Forgotten(kind) /\ kept'[f] = Erased(f)
           \/ kept[f] = "none" /\ kept'[f] = "auto"]_rvars
  BY RecordStores, PagesStep DEF IInv
<1> QED
  BY <1>1, PagesInvariant, PTL DEF Spec, RecordsSavedAsMeant

=============================================================================
