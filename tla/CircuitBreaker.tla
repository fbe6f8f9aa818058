--------------------------- MODULE CircuitBreaker ---------------------------
(***************************************************************************)
(* The circuit breaker of one destination (table circuit_breaker_states)   *)
(* and the deliveries that consult it.                                     *)
(*                                                                         *)
(* Runner.sendToDestinationWithPolicy asks the breaker once, makes up to   *)
(* MaxRetries attempts, and reports the outcome once.  Each of the three   *)
(* breaker calls holds breakerMu; nothing is held between them, so several *)
(* deliveries to the destination are between admission and report when the *)
(* breaker opens.  The row outlives the process.                           *)
(*                                                                         *)
(* Time is the cooldown that is left, in ticks; a missing row is the row   *)
(* with no failures and no opening.                                        *)
(***************************************************************************)
EXTENDS Integers, FiniteSets

CONSTANTS
  Senders,     \* deliveries to the destination that may be under way at once
  Threshold,   \* CircuitBreakerThreshold
  Cooldown,    \* CircuitBreakerCooldownSeconds, in ticks
  Attempts,    \* RetryPolicy.MaxRetries after normalisation
  MaxFaults    \* bound: reads and writes of the breaker table that fail

ASSUME PolicyAssumption ==
  /\ Threshold \in Nat \ {0} /\ Cooldown \in Nat \ {0} /\ Attempts \in Nat \ {0}
  /\ MaxFaults \in Nat
  /\ IsFiniteSet(Senders)

VARIABLES
  row,         \* ConsecutiveFailures, and OpenedUntil as set/unset and time left
  pc,          \* where each delivery is
  attempt,     \* the attempt it is at
  faults,      \* reads and writes of the table that failed so far
  (* history variables *)
  streak,      \* failures reported since the last success or opening, up to Threshold
  opener,      \* the streak that led to the last opening
  stragglers,  \* while it is open, the deliveries under way when it opened
  sentOpen     \* attempts started since then

vars == <<row, pc, attempt, faults, streak, opener, stragglers, sentOpen>>

NoRow == [failures |-> 0, opened |-> FALSE, left |-> -1]

(* OpenedUntil is set and lies in the future; at the very instant (left =  *)
(* 0) and after it (left = -1) deliveries are admitted.                    *)
MutOpen(r) == r.opened                  \* mutant: the time is not compared
Open(r) == r.opened /\ r.left > 0

Busy == {s \in Senders : pc[s] \in {"admitted", "sending", "waiting", "failed", "succeeded"}}

TypeOK ==
  /\ row \in [failures : 0 .. Threshold - 1, opened : BOOLEAN, left : -1 .. Cooldown]
  /\ pc \in [Senders ->
       {"idle", "diverted", "admitted", "sending", "waiting", "failed", "succeeded"}]
  /\ attempt \in [Senders -> 1 .. Attempts]
  /\ \A s \in Senders : pc[s] = "waiting" => attempt[s] < Attempts
  /\ streak \in 0 .. Threshold /\ opener \in 0 .. Threshold
  /\ faults \in 0 .. MaxFaults
  /\ stragglers \subseteq Senders
  /\ sentOpen \in Nat

Init ==
  /\ row = NoRow
  /\ pc = [s \in Senders |-> "idle"]
  /\ attempt = [s \in Senders |-> 1]
  /\ faults = 0
  /\ streak = 0 /\ opener = 0
  /\ stragglers = {} /\ sentOpen = 0

----------------------------------------------------------------------------
Goto(s, l) == pc' = [pc EXCEPT ![s] = l]
Leave(s)   == Goto(s, "idle") /\ attempt' = [attempt EXCEPT ![s] = 1]
History    == <<streak, opener, stragglers, sentOpen>>

(* An opening that is over is forgotten. *)
StillOpen == IF Open(row') THEN UNCHANGED <<stragglers, sentOpen>>
                           ELSE stragglers' = {} /\ sentOpen' = 0

(* A write of the row whose error the caller drops. *)
Save(r) == \/ row' = r /\ UNCHANGED faults
           \/ faults < MaxFaults /\ faults' = faults + 1 /\ UNCHANGED row

(* beforeSend refuses, or cannot read the row: the payload goes to the     *)
(* fallback queue.                                                         *)
Divert(s) ==
  /\ pc[s] = "idle"
  /\ \/ Open(row) /\ UNCHANGED faults
     \/ ~ Open(row) /\ faults < MaxFaults /\ faults' = faults + 1
  /\ Goto(s, "diverted")
  /\ UNCHANGED <<row, attempt, History>>

(* beforeSend admits; an opening that lies strictly in the past is cleared. *)
Cleared == IF row.opened /\ row.left < 0 THEN [row EXCEPT !.opened = FALSE] ELSE row
MutAdmits == row.failures < Threshold      \* mutant: counts, but ignores the opening
Admits == ~ Open(row)
Admit(s) ==
  /\ pc[s] = "idle"
  /\ Admits
  /\ Save(Cleared)
  /\ Goto(s, "admitted")
  /\ UNCHANGED <<attempt, History>>

(* The adapter's Send, within the attempt's time limit. *)
BeginAttempt(s) ==
  /\ pc[s] = "admitted"
  /\ Goto(s, "sending")
  /\ sentOpen' = IF Open(row) THEN sentOpen + 1 ELSE sentOpen
  /\ UNCHANGED <<row, attempt, faults, streak, opener, stragglers>>

AttemptSucceeds(s) ==
  /\ pc[s] = "sending"
  /\ Goto(s, "succeeded")
  /\ UNCHANGED <<row, attempt, faults, History>>

(* A failed attempt leads to the next one, after a pause if the delivery's *)
(* policy, which the user may edit between two deliveries, has one.        *)
MutIsLast(s) == attempt[s] > Attempts         \* mutant: one attempt too many
IsLast(s) == attempt[s] >= Attempts
AttemptFails(s) ==
  /\ pc[s] = "sending"
  /\ \/ IsLast(s) /\ Goto(s, "failed") /\ UNCHANGED attempt
     \/ ~ IsLast(s) /\ Goto(s, "waiting") /\ UNCHANGED attempt
     \/ ~ IsLast(s) /\ Goto(s, "admitted") /\ attempt' = [attempt EXCEPT ![s] = @ + 1]
  /\ UNCHANGED <<row, faults, History>>

PauseEnds(s) ==
  /\ pc[s] = "waiting"
  /\ Goto(s, "admitted")
  /\ attempt' = [attempt EXCEPT ![s] = @ + 1]
  /\ UNCHANGED <<row, faults, History>>

(* The context ends during the pause: nothing is reported to the breaker. *)
CancelPause(s) ==
  /\ pc[s] = "waiting"
  /\ Leave(s)
  /\ UNCHANGED <<row, faults, History>>

(* afterSendSuccess deletes the row, open or not. *)
AfterSuccess == NoRow
RecordSuccess(s) ==
  /\ pc[s] = "succeeded"
  /\ Save(AfterSuccess)
  /\ streak' = 0
  /\ Leave(s)
  /\ StillOpen
  /\ UNCHANGED opener

(* afterSendFailure counts and opens at the threshold; if it cannot read   *)
(* the row it writes nothing, which is what a lost write leaves.           *)
MutAfterFailureKept ==                \* mutant: the count is not reset on opening
  IF row.failures + 1 >= Threshold
  THEN [failures |-> row.failures + 1, opened |-> TRUE, left |-> Cooldown]
  ELSE [row EXCEPT !.failures = @ + 1]
MutAfterFailureForgets ==             \* mutant: OpenedUntil is rewritten at every failure
  IF row.failures + 1 >= Threshold
  THEN [failures |-> 0, opened |-> TRUE, left |-> Cooldown]
  ELSE [row EXCEPT !.failures = @ + 1, !.opened = FALSE, !.left = -1]
MutAfterFailureLow ==                 \* mutant: off by one
  IF row.failures + 2 >= Threshold
  THEN [failures |-> 0, opened |-> TRUE, left |-> Cooldown]
  ELSE [row EXCEPT !.failures = @ + 1]
AfterFailure ==
  IF row.failures + 1 >= Threshold
  THEN [failures |-> 0, opened |-> TRUE, left |-> Cooldown]
  ELSE [row EXCEPT !.failures = @ + 1]
NextStreak == IF streak < Threshold THEN streak + 1 ELSE streak
RecordFailure(s) ==
  /\ pc[s] = "failed"
  /\ Leave(s)
  /\ Save(AfterFailure)
  /\ IF row' = AfterFailure /\ row'.opened /\ row'.failures = 0
     THEN opener' = NextStreak /\ streak' = 0
     ELSE streak' = NextStreak /\ UNCHANGED opener
  /\ IF Open(row') /\ ~ Open(row)
     THEN stragglers' = Busy \ {s} /\ sentOpen' = 0
     ELSE UNCHANGED <<stragglers, sentOpen>>

(* The diverted payload is in the fallback queue; the delivery is over. *)
Return(s) ==
  /\ pc[s] = "diverted"
  /\ Goto(s, "idle")
  /\ UNCHANGED <<row, attempt, faults, History>>

Tick ==
  /\ row.opened /\ row.left >= 0
  /\ row' = [row EXCEPT !.left = @ - 1]
  /\ StillOpen
  /\ UNCHANGED <<pc, attempt, faults, streak, opener>>

(* The process stops and starts again: only the row is kept. *)
Restart ==
  /\ Busy # {}
  /\ pc' = [s \in Senders |-> "idle"]
  /\ attempt' = [s \in Senders |-> 1]
  /\ UNCHANGED <<row, faults, History>>

Deliver(s) ==
  \/ BeginAttempt(s) \/ AttemptSucceeds(s) \/ AttemptFails(s)
  \/ PauseEnds(s) \/ CancelPause(s) \/ RecordSuccess(s) \/ RecordFailure(s) \/ Return(s)

Next ==
  \/ \E s \in Senders : Divert(s) \/ Admit(s) \/ Deliver(s)
  \/ Tick
  \/ Restart

Spec == Init /\ [][Next]_vars

(* Time passes, and a delivery that was admitted runs to its end. *)
Fairness == WF_vars(Tick) /\ \A s \in Senders : WF_vars(Deliver(s))

FairSpec == Spec /\ Fairness

----------------------------------------------------------------------------
(* While the breaker is open, every delivery under way was already under   *)
(* way when it opened: none slips in between a check and an opening.       *)
AdmittedBeforeOpening == Open(row) => Busy \subseteq stragglers

(* Retries do not ask the breaker again, so an open breaker does not       *)
(* silence the destination at once; what it still receives is bounded by   *)
(* the attempts of the other deliveries that were under way.               *)
LoadWhileOpenBounded ==
  Open(row) => sentOpen <= Cardinality(stragglers) * Attempts

(* While no access to the store has failed, the breaker opens only after   *)
(* Threshold failed deliveries in a row, in the order of their reports,    *)
(* and no failure counts towards two openings: across restarts,            *)
(* cancellations and the opening that stragglers prolong.                  *)
OpensOnlyOnStreak == faults = 0 /\ row.opened => opener = Threshold

(* An open breaker closes before its cooldown is over only because a       *)
(* delivery admitted before the opening succeeded after all.               *)
ClosesEarlyOnlyOnSuccess ==
  [][Open(row) /\ ~ Open(row') /\ row.left > 1 =>
       \E s \in stragglers : pc[s] = "succeeded" /\ pc'[s] = "idle"]_vars

(* An open breaker lets deliveries through again. *)
ReopensForTraffic == Open(row) ~> ~ Open(row)
============================================================================
