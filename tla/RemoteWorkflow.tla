--------------------------- MODULE RemoteWorkflow ---------------------------
(***************************************************************************)
(* A workflow of remote job steps as app/mqtt_handlers.go runs it: one     *)
(* step after the other, or in parallel in rounds of a bounded batch, each *)
(* step with a number of attempts; and the reports on the job, which go to *)
(* the queue for the cloud. What a step does (trigger an instance, collect *)
(* the metadata, flush the queue) succeeds or fails.                       *)
(***************************************************************************)
EXTENDS Integers, FiniteSets, FiniteSetsExt

CONSTANTS None,
          Plans,     \* the workflows that may be asked for
          MaxFaults  \* bound on failing accesses to the store

ASSUME WorkflowAssumption ==
  /\ MaxFaults \in Nat
  /\ None \notin {"waiting", "running", "completed", "failed", "skipped"}
  /\ \A p \in Plans :
       /\ DOMAIN p.key \subseteq Nat /\ IsFiniteSet(DOMAIN p.key)
       /\ {p.width, p.attempts} \subseteq Nat \ {0} /\ (p.parallel \/ p.width = 1)

VARIABLES
  plan,     \* its steps by index: key, the keys each needs, those that may fail
  wf,       \* where runRemoteWorkflow is
  pending,  \* steps not started
  visit,    \* those a round has still to look at
  batch,    \* ready steps found, then those started together
  blocked,  \* the round has passed over a step
  at,       \* what became of each step
  tries,    \* its attempts
  states,   \* stepStates, by key
  told,     \* status of the last report on the job
  faults

loop == <<wf, pending, visit, batch, blocked, states>>
wvars == <<plan, loop, at, tries, told>>

Steps == DOMAIN plan.key
Keys == {plan.key[s] : s \in Steps}
Last(k) == Max({s \in Steps : plan.key[s] = k})

WorkflowInit ==
  /\ plan \in Plans
  /\ wf = "none" /\ pending = {} /\ visit = {} /\ batch = {} /\ blocked = FALSE
  /\ at = [s \in Steps |-> "waiting"] /\ tries = [s \in Steps |-> 0]
  /\ states = [k \in Keys |-> None]
  /\ told = None /\ faults = 0

(* A report, which may fail to be stored: nobody looks.                    *)
Report(status) ==
  \/ told' = status /\ UNCHANGED faults
  \/ faults < MaxFaults /\ faults' = faults + 1 /\ UNCHANGED told

(* The handler accepts the job and reports it as running.                  *)
BeginWorkflow ==
  /\ wf' = "resolve"
  /\ pending' = {} /\ visit' = {} /\ batch' = {} /\ blocked' = FALSE
  /\ at' = [s \in Steps |-> "waiting"] /\ tries' = [s \in Steps |-> 0]
  /\ states' = [k \in Keys |-> None]
  /\ Report("running")
  /\ UNCHANGED plan

(* A step needs keys that exist and are not its own. In parallel mode the  *)
(* steps are held by their key: the last of a key stays.                   *)
Resolve ==
  /\ wf = "resolve"
  /\ IF \A s \in Steps : plan.needs[s] \subseteq Keys \ {plan.key[s]}
     THEN /\ wf' = IF plan.parallel THEN "scan" ELSE "next"
          /\ pending' = IF plan.parallel THEN {Last(k) : k \in Keys} ELSE Steps
          /\ visit' = IF plan.parallel THEN pending' ELSE {}
     ELSE wf' = "error" /\ UNCHANGED <<pending, visit>>
  /\ UNCHANGED <<plan, batch, blocked, states, at, tries, told, faults>>

-----------------------------------------------------------------------------
(* One after the other.                                                    *)

\* mutant: only a failure holds a step back, not what has still to come
MutMet(s) == \A k \in plan.needs[s] : states[k] \notin {"failed", "skipped"}

Met(s) == \A k \in plan.needs[s] : states[k] = "completed"

Take(s) ==
  /\ wf = "next" /\ s \in pending /\ \A t \in pending : s <= t
  /\ \/ Met(s) /\ wf' = "launch" /\ batch' = {s} /\ UNCHANGED <<pending, states, at>>
     \/ /\ ~Met(s) /\ s \in plan.optional
        /\ at' = [at EXCEPT ![s] = "skipped"]
        /\ states' = [states EXCEPT ![plan.key[s]] = "skipped"]
        /\ pending' = pending \ {s}
        /\ UNCHANGED <<wf, batch>>
     \/ ~Met(s) /\ s \notin plan.optional /\ wf' = "error" /\ UNCHANGED <<batch, pending, states, at>>
  /\ UNCHANGED <<plan, visit, blocked, tries, told, faults>>

EndOfSteps ==
  /\ wf = "next" /\ pending = {}
  /\ wf' = "done"
  /\ UNCHANGED <<plan, pending, visit, batch, blocked, states, at, tries, told, faults>>

-----------------------------------------------------------------------------
(* In parallel: a round looks at what is pending in any order, and passes  *)
(* over what can no longer run.                                            *)

Barred(s) == \E k \in plan.needs[s] : states[k] \in {"failed", "skipped"}

Visit(s) ==
  /\ wf = "scan" /\ s \in visit
  /\ visit' = visit \ {s}
  /\ IF Barred(s)
     THEN /\ at' = [at EXCEPT ![s] = "skipped"]
          /\ states' = [states EXCEPT ![plan.key[s]] = "skipped"]
          /\ pending' = pending \ {s} /\ blocked' = TRUE
          /\ UNCHANGED batch
     ELSE /\ batch' = IF Met(s) THEN batch \cup {s} ELSE batch
          /\ UNCHANGED <<at, states, pending, blocked>>
  /\ UNCHANGED <<plan, wf, tries, told, faults>>

Fatal == \E s \in Steps \ plan.optional : at[s] = "failed"

(* The end of a round: a batch, another round, the end, or a knot.         *)
\* mutant: a round that found nothing is simply repeated
MutRoundEnds ==
  /\ wf = "scan" /\ visit = {}
  /\ \/ /\ batch # {} /\ wf' = "launch"
        /\ batch' \in kSubset(Min({plan.width, Cardinality(batch)}), batch)
        /\ UNCHANGED visit
     \/ batch = {} /\ pending # {} /\ visit' = pending /\ UNCHANGED <<wf, batch>>
     \/ pending = {} /\ wf' = (IF Fatal THEN "error" ELSE "done") /\ UNCHANGED <<visit, batch>>
  /\ blocked' = FALSE
  /\ UNCHANGED <<plan, pending, states, at, tries, told, faults>>

RoundEnds ==
  /\ wf = "scan" /\ visit = {}
  /\ \/ /\ batch # {} /\ wf' = "launch"
        /\ batch' \in kSubset(Min({plan.width, Cardinality(batch)}), batch)
        /\ UNCHANGED visit
     \/ batch = {} /\ pending # {} /\ blocked /\ visit' = pending /\ UNCHANGED <<wf, batch>>
     \/ batch = {} /\ pending # {} /\ ~blocked /\ wf' = "error" /\ UNCHANGED <<visit, batch>>
     \/ pending = {} /\ wf' = (IF Fatal THEN "error" ELSE "done") /\ UNCHANGED <<visit, batch>>
  /\ blocked' = FALSE
  /\ UNCHANGED <<plan, pending, states, at, tries, told, faults>>

-----------------------------------------------------------------------------
(* A step: executeWorkflowStep, in a goroutine of its own in parallel mode *)

Launch(s) ==
  /\ wf = "launch" /\ s \in batch \cap pending
  /\ pending' = pending \ {s}
  /\ at' = [at EXCEPT ![s] = "running"]
  /\ tries' = [tries EXCEPT ![s] = 1]
  /\ Report("running")
  /\ UNCHANGED <<plan, wf, visit, batch, blocked, states>>

Succeeds(s) ==
  /\ wf = "launch" /\ at[s] = "running"
  /\ at' = [at EXCEPT ![s] = "completed"]
  /\ Report("completed")
  /\ UNCHANGED <<plan, loop, tries>>

(* The report of an attempt that timed out is not stored, its context has  *)
(* ended; a retry, and a failure that is gone on from, is reported as      *)
(* running.                                                                *)
Fails(s) ==
  /\ wf = "launch" /\ at[s] = "running"
  /\ IF tries[s] < plan.attempts
     THEN tries' = [tries EXCEPT ![s] = @ + 1] /\ UNCHANGED at
     ELSE at' = [at EXCEPT ![s] = "failed"] /\ UNCHANGED tries
  /\ IF tries[s] < plan.attempts \/ s \in plan.optional
     THEN Report("running")
     ELSE Report("failed") \/ UNCHANGED <<told, faults>>
  /\ UNCHANGED <<plan, loop>>

(* All of the batch have ended.                                            *)
Join ==
  /\ wf = "launch" /\ batch \cap pending = {}
  /\ \A s \in batch : at[s] # "running"
  /\ states' = [k \in Keys |-> IF \E s \in batch : plan.key[s] = k
                               THEN at[CHOOSE s \in batch : plan.key[s] = k] ELSE states[k]]
  /\ wf' = IF plan.parallel THEN "scan" ELSE IF Fatal THEN "error" ELSE "next"
  /\ visit' = IF plan.parallel THEN pending ELSE {}
  /\ batch' = {}
  /\ UNCHANGED <<plan, pending, blocked, at, tries, told, faults>>

WorkflowStep ==
  \/ Resolve \/ EndOfSteps \/ RoundEnds \/ Join
  \/ \E s \in Steps : Take(s) \/ Visit(s) \/ Launch(s) \/ Succeeds(s) \/ Fails(s)

(* The goroutines end with the process.                                    *)
Halt ==
  /\ wf' = IF wf \in {"none", "done", "error"} THEN wf ELSE "lost"
  /\ pending' = {} /\ visit' = {} /\ batch' = {} /\ blocked' = FALSE
  /\ states' = [k \in Keys |-> None]
  /\ UNCHANGED <<plan, at, tries, told>>

=============================================================================
