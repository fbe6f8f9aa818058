----------------------------- MODULE WorkPages ------------------------------
(***************************************************************************)
(* The session of the web interface and the pages that list, create and    *)
(* edit what the edge works with: one of them is open in each behaviour.   *)
(***************************************************************************)
EXTENDS Session, ListPages, InstanceForm, ScriptComposer, RecordForms

VARIABLE at

vars == <<at, svars, lvars, ivars, mvars, rvars>>

Places == {"session", "list", "instance", "composer", "record"}

(* What belongs to the pages that stay closed is any one initial state.    *)
Init ==
  /\ at \in Places
  /\ SessionInit /\ (at # "session" => cookie = None)
  /\ ListInit /\ (at # "list" => page = "devices" /\ made = 0)
  /\ FormInit /\ (at # "instance" => ~editing /\ ~proj)
  /\ ComposerInit /\ (at # "composer" => ~replacing)
  /\ RecordInit /\ (at # "record" => kind = "device" /\ ~old)

Next ==
  \/ at = "session" /\ SessionNext /\ UNCHANGED <<at, lvars, ivars, mvars, rvars>>
  \/ at = "list" /\ ListNext /\ UNCHANGED <<at, svars, ivars, mvars, rvars>>
  \/ at = "instance" /\ FormNext /\ UNCHANGED <<at, svars, lvars, mvars, rvars>>
  \/ at = "composer" /\ ComposerNext /\ UNCHANGED <<at, svars, lvars, ivars, rvars>>
  \/ at = "record" /\ RecordNext /\ UNCHANGED <<at, svars, lvars, ivars, mvars>>

Spec == Init /\ [][Next]_vars

TypeOK ==
  /\ at \in Places
  /\ SessionTypeOK /\ ListTypeOK /\ FormTypeOK /\ ComposerTypeOK /\ RecordTypeOK

=============================================================================
