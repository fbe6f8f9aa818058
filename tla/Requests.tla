------------------------------ MODULE Requests ------------------------------
(***************************************************************************)
(* HTTP requests of the web interface as the pages see them: sent, served  *)
(* by the edge, which fixes the answer, or failed, and only later handed   *)
(* to the handler that waits. Nothing orders the answers of two requests.  *)
(***************************************************************************)
EXTENDS Integers, FiniteSets

CONSTANT None

(* A request of handler "of" for "what"; stale tells that the edge has     *)
(* changed what was asked about since it served the request.               *)
Ask(of, what, arg) ==
  [of |-> of, what |-> what, arg |-> arg, state |-> "sent", answer |-> None, stale |-> FALSE]

Answer(net, r, answer) ==
  (net \ {r}) \cup {[r EXCEPT !.state = "served", !.answer = answer]}

Fail(net, r) == (net \ {r}) \cup {[r EXCEPT !.state = "failed"]}

(* What was served before a change is stale after it, and so is a request  *)
(* in "chained", the continuation of one served before.                    *)
Outdated(net, chained) ==
  {IF r.state = "served" \/ r.what \in chained THEN [r EXCEPT !.stale = TRUE] ELSE r : r \in net}

=============================================================================
