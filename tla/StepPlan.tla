------------------------------ MODULE StepPlan ------------------------------
(***************************************************************************)
(* What a remote workflow promises the cloud that asks for it: it is run   *)
(* once, however often it is asked for; a step is started once at most,    *)
(* after what it needs is completed, and no more steps at a time than      *)
(* allowed; when it is over nothing runs, and the outcome is true.         *)
(***************************************************************************)
EXTENDS Naturals, FiniteSets

CONSTANT Plans

VARIABLES
  plan,   \* the workflow asked for
  phase,  \* "no", "open", "done", "error", or "lost" in a crash
  state   \* of each step: waiting, running, completed, failed or skipped

board == <<plan, phase, state>>

Steps == DOMAIN plan.key
Running == {s \in Steps : state[s] = "running"}
Of(k) == {t \in Steps : plan.key[t] = k}

Init ==
  /\ plan \in Plans /\ phase = "no"
  /\ state = [s \in Steps |-> "waiting"]

Begin == phase = "no" /\ phase' = "open" /\ UNCHANGED state

Launch(s) ==
  /\ phase = "open" /\ state[s] = "waiting"
  /\ Cardinality(Running) < plan.width
  /\ \A k \in plan.needs[s] : \E t \in Of(k) : state[t] = "completed"
  /\ state' = [state EXCEPT ![s] = "running"]
  /\ UNCHANGED phase

Settle(s) ==
  /\ phase = "open" /\ state[s] = "running"
  /\ \E how \in {"completed", "failed"} : state' = [state EXCEPT ![s] = how]
  /\ UNCHANGED phase

(* In sequence, also what has not been reached yet counts as lacking.      *)
Lacking == {"failed", "skipped"} \cup (IF plan.parallel THEN {} ELSE {"waiting"})

PassOver(s) ==
  /\ phase = "open" /\ state[s] = "waiting"
  /\ \E k \in plan.needs[s] : \E t \in Of(k) : state[t] \in Lacking
  /\ state' = [state EXCEPT ![s] = "skipped"]
  /\ UNCHANGED phase

Fatal == \E s \in Steps \ plan.optional : state[s] = "failed"
Stuck(s) ==
  /\ state[s] = "waiting"
  /\ \E k \in plan.needs[s] : Of(k) = {} \/ \E t \in Of(k) : state[t] # "completed"
Shared(s) == Cardinality(Of(plan.key[s])) > 1

(* A success means that no step is left and none failed that must not; of  *)
(* steps that share a key all but one may be left.                         *)
Close ==
  /\ phase = "open" /\ Running = {}
  /\ \/ /\ ~Fatal /\ \A s \in Steps : state[s] = "waiting" => plan.parallel /\ Shared(s)
        /\ phase' = "done"
     \/ /\ Fatal \/ \E s \in Steps : Stuck(s)
        /\ phase' = "error"
  /\ UNCHANGED state

Interrupt == phase = "open" /\ phase' = "lost" /\ UNCHANGED state

Next ==
  /\ \/ Begin \/ Close \/ Interrupt
     \/ \E s \in Steps : Launch(s) \/ Settle(s) \/ PassOver(s)
  /\ UNCHANGED plan

Spec == Init /\ [][Next]_board

=============================================================================
