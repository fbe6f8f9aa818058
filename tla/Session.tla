------------------------------ MODULE Session ------------------------------
(***************************************************************************)
(* The session of the web interface, stores/auth-store.ts: who is signed   *)
(* in according to the browser's cookie, and who and with which project    *)
(* according to the store. App.tsx shows a notice while the store loads,   *)
(* the sign-in pages when it has no user, and the application otherwise.   *)
(***************************************************************************)
EXTENDS Requests

CONSTANTS Users,        \* each with one personal project, named after it here
          MaxTries,     \* bound on the buttons pressed
          MaxMishaps    \* bound on requests that fail and on changes elsewhere

VARIABLES
  cookie,    \* the user of the cookie
  user, project, gate,   \* the store; "gate" is its flag "loading"
  key,       \* whose API key the user in the store carries, if any
  snet,      \* requests of the store
  tries, mishaps,
  misled     \* an answer was outdated when it came, or something failed

svars == <<cookie, user, project, gate, key, snet, tries, mishaps, misled>>

Someone == Users \cup {None}

(* In the store, a user of whom only the API key is left: no id, but the   *)
(* application is shown.                                                   *)
Keyed == "keyed"

SessionTypeOK ==
  /\ cookie \in Someone /\ user \in Someone \cup {Keyed} /\ project \in Someone
  /\ key \in Someone
  /\ gate \in BOOLEAN /\ misled \in BOOLEAN
  /\ \A r \in snet : r.what \in {"login", "register", "logout", "me", "project", "apikey"}

(* A call of the store: its number, and which of its functions it is.      *)
Call(n, kind) == [n |-> n, kind |-> kind]

Me(of) == {Ask(of, "me", None)}

(* loadProject: without a user there is nothing to ask.                    *)
LoadProject(of, who) == IF who = None THEN {} ELSE {Ask(of, "project", who)}

SessionInit ==
  /\ cookie \in Someone
  /\ user = None /\ project = None /\ gate = TRUE /\ key = None
  /\ snet = Me(Call(0, "mount"))
  /\ tries = 0 /\ mishaps = 0 /\ misled = FALSE

-----------------------------------------------------------------------------
(* The user.                                                               *)

SignInPages == ~gate /\ user = None
Application == ~gate /\ user # None

(* The sign-in form with the password of a user, or with a wrong one.      *)
PressLogin ==
  /\ SignInPages
  /\ \E who \in Someone : snet' = snet \cup {Ask(Call(tries + 1, "login"), "login", who)}
  /\ gate' = TRUE

(* Registering signs nobody in: the edge sets no cookie.                   *)
PressRegister ==
  /\ SignInPages
  /\ snet' = snet \cup {Ask(Call(tries + 1, "register"), "register", None)}
  /\ gate' = TRUE

PressSignOut ==
  /\ Application
  /\ snet' = snet \cup {Ask(Call(tries + 1, "logout"), "logout", None)}
  /\ gate' = gate

(* "Gerar Nova Chave"; without an id the request has no route.             *)
PressNewKey ==
  /\ Application /\ user \in Users
  /\ snet' = snet \cup {Ask(Call(tries + 1, "apikey"), "apikey", user)}
  /\ gate' = gate

SessionPress ==
  /\ tries < MaxTries /\ tries' = tries + 1
  /\ PressLogin \/ PressRegister \/ PressSignOut \/ PressNewKey
  /\ UNCHANGED <<cookie, user, project, key, mishaps, misled>>

-----------------------------------------------------------------------------
(* The edge.                                                               *)

(* A wrong password is refused in an answer like any other.                *)
CookieAfter(r) ==
  CASE r.what = "login" /\ r.arg # None -> r.arg
    [] r.what = "logout" -> None
    [] OTHER -> cookie

SessionServes(r) ==
  /\ r.state = "sent"
  /\ cookie' = CookieAfter(r)
  /\ snet' = Answer(snet, r, IF r.what = "me" THEN cookie ELSE r.arg)
  /\ UNCHANGED <<user, project, gate, key, tries, mishaps, misled>>

SessionFails(r) ==
  /\ r.state = "sent" /\ mishaps < MaxMishaps /\ mishaps' = mishaps + 1
  /\ snet' = Fail(snet, r) /\ misled' = TRUE
  /\ UNCHANGED <<cookie, user, project, gate, key, tries>>

(* The cookie expires, or another window of the browser signs out.         *)
CookieGoes ==
  /\ cookie # None /\ mishaps < MaxMishaps /\ mishaps' = mishaps + 1
  /\ cookie' = None /\ misled' = TRUE
  /\ UNCHANGED <<user, project, gate, key, snet, tries>>

-----------------------------------------------------------------------------
(* The answers.                                                            *)

(* login and register go on with loadMe.                                   *)
SignedIn(r) ==
  /\ r.what \in {"login", "register"} /\ r.state = "served"
  /\ gate' = TRUE /\ snet' = (snet \ {r}) \cup Me(r.of)
  /\ UNCHANGED <<cookie, user, project, key, tries, mishaps, misled>>

SignInFailed(r) ==
  /\ r.what \in {"login", "register"} /\ r.state = "failed"
  /\ gate' = FALSE /\ snet' = snet \ {r}
  /\ UNCHANGED <<cookie, user, project, key, tries, mishaps, misled>>
\* mutant: the project is not asked for
MutMeAnswered(r) ==
  /\ r.what = "me" /\ r.state = "served"
  /\ user' = r.answer /\ key' = None
  /\ project' = IF r.answer = None THEN None ELSE project
  /\ gate' = FALSE /\ snet' = snet \ {r}
  /\ misled' = (misled \/ r.answer # cookie)
  /\ UNCHANGED <<cookie, tries, mishaps>>

(* loadMe asks for the project without waiting; login, when loadMe is      *)
(* over, asks for it again and waits.                                      *)
MeAnswered(r) ==
  /\ r.what = "me" /\ r.state = "served"
  /\ user' = r.answer /\ key' = None
  /\ project' = IF r.answer = None THEN None ELSE project
  /\ gate' = FALSE
  /\ snet' = (snet \ {r}) \cup LoadProject(Call(r.of.n, "me"), r.answer)
               \cup (IF r.of.kind = "login" THEN LoadProject(r.of, r.answer) ELSE {})
  /\ misled' = (misled \/ r.answer # cookie)
  /\ UNCHANGED <<cookie, tries, mishaps>>

MeFailed(r) ==
  /\ r.what = "me" /\ r.state = "failed"
  /\ user' = None /\ gate' = FALSE
  /\ project' = IF r.of.kind = "login" THEN None ELSE project
  /\ snet' = snet \ {r}
  /\ UNCHANGED <<cookie, key, tries, mishaps, misled>>

(* Whoever is signed in by now gets the project; a login is over.          *)
ProjectAnswered(r) ==
  /\ r.what = "project" /\ r.state # "sent"
  /\ project' = IF r.state = "served" THEN r.answer ELSE None
  /\ gate' = IF r.of.kind = "login" THEN FALSE ELSE gate
  /\ snet' = snet \ {r}
  /\ misled' = (misled \/ r.arg # user)
  /\ UNCHANGED <<cookie, user, key, tries, mishaps>>

(* Answered or not, the store forgets the user, and keeps the project.     *)
SignedOut(r) ==
  /\ r.what = "logout" /\ r.state # "sent"
  /\ user' = None /\ snet' = snet \ {r}
  /\ misled' = (misled \/ cookie # None)
  /\ UNCHANGED <<cookie, project, gate, key, tries, mishaps>>

(* The key is written into whatever user the store has by then, even none. *)
KeyAnswered(r) ==
  /\ r.what = "apikey" /\ r.state = "served"
  /\ user' = IF user = None THEN Keyed ELSE user
  /\ key' = r.arg /\ snet' = snet \ {r}
  /\ misled' = (misled \/ r.arg # user)
  /\ UNCHANGED <<cookie, project, gate, tries, mishaps>>

KeyRefused(r) ==
  /\ r.what = "apikey" /\ r.state = "failed"
  /\ snet' = snet \ {r}
  /\ UNCHANGED <<cookie, user, project, gate, key, tries, mishaps, misled>>

SessionNext ==
  \/ SessionPress
  \/ CookieGoes
  \/ \E r \in snet :
       \/ SessionServes(r)
       \/ SessionFails(r)
       \/ SignedIn(r)
       \/ SignInFailed(r)
       \/ MeAnswered(r)
       \/ MeFailed(r)
       \/ ProjectAnswered(r)
       \/ SignedOut(r)
       \/ KeyAnswered(r)
       \/ KeyRefused(r)

-----------------------------------------------------------------------------
(* Once the store waits for nothing it agrees with the cookie, and a user  *)
(* who is signed in has the own project and shows no one else's API key,   *)
(* not those of the user before, whose project signing out leaves in the   *)
(* store: unless a request failed, or an answer was for another user than  *)
(* the one of the moment it came in; a new key that comes after signing    *)
(* out leaves a user without an id (loadMe, loadProject, login, register,  *)
(* logout and generateNewApiKey).                                          *)
SessionSettles ==
  snet = {} /\ ~misled => user = cookie /\ (user # None => project = user /\ key \in {user, None})

=============================================================================
