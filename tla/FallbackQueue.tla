--------------------------- MODULE FallbackQueue ---------------------------
(***************************************************************************)
(* The local fallback queue (table local_fallback_storage).                *)
(*                                                                         *)
(* The runner stores here a payload that a destination refused.  Three     *)
(* kinds of caller work on the table without any lock: the scheduler's     *)
(* poll and the HTTP endpoint /api/fallback/flush, which both run          *)
(* Runner.FlushFallback over a snapshot of the pending rows, and           *)
(* /api/fallback/{id}/retry, which runs Runner.RetryFallbackItem on one    *)
(* row whatever its status.  Every write to a row is unconditional and     *)
(* its error is ignored.                                                   *)
(*                                                                         *)
(* A row is named by its place in the created_at order, so the order in    *)
(* which a flush walks its snapshot is the order of the numbers.           *)
(***************************************************************************)
EXTENDS Naturals, FiniteSets

CONSTANTS
  MaxItems,      \* bound: payloads handed to the queue
  Flushers,      \* callers of FlushFallback
  Scheduler,     \* the one of them that comes back by itself
  Retriers,      \* HTTP requests that call RetryFallbackItem
  MaxRetries,    \* the maxRetries argument of FlushFallback (10 in the code)
  MaxManual,     \* bound: manual retries in a behaviour
  MaxInterrupts, \* bound: callers cut short (crash, request context done)
  KeepFinished,  \* sent rows, and failed rows, that pruning keeps
  MaxFaults      \* bound: store writes that fail (the callers ignore the error)

ASSUME BoundsAssumption ==
  /\ MaxItems \in Nat /\ MaxRetries \in Nat \ {0} /\ KeepFinished \in Nat
  /\ MaxManual \in Nat /\ MaxInterrupts \in Nat /\ MaxFaults \in Nat
ASSUME CallersAssumption ==
  /\ Scheduler \in Flushers
  /\ Flushers \cap Retriers = {}
  /\ IsFiniteSet(Flushers) /\ IsFiniteSet(Retriers)

Items   == 1 .. MaxItems
Callers == Flushers \cup Retriers
Status  == {"pending", "sending", "sent", "failed"}

VARIABLES
  row,         \* row[i]: status and retry_count of payload i's row
  lastItem,    \* number of rows ever created
  orphans,     \* rows whose destination no longer exists
  pc,          \* where each caller is
  batch,       \* rows each caller still has to process
  seen,        \* retry_count of each row as the caller loaded it
  manual,      \* manual retries so far
  interrupts,  \* callers cut short so far
  faults,      \* store writes that failed so far
  (* history variables *)
  sends,       \* delivery attempts started, per row
  failures,    \* failed attempts (missing destination included), per row
  delivered,   \* rows whose payload the destination took at least once
  discarded    \* rows an operator deleted

table   == <<row, lastItem>>
bounds  == <<manual, interrupts, faults>>
callers == <<pc, batch, seen>>
history == <<sends, failures, delivered, discarded>>
vars    == <<row, lastItem, orphans, pc, batch, seen, manual, interrupts, faults, history>>

Absent == {"none", "gone"}          \* never created; deleted
Stored(i) == row[i].status \in Status

TypeOK ==
  /\ row \in [Items -> [status : Status \cup Absent, retries : Nat]]
  /\ lastItem \in 0 .. MaxItems
  /\ orphans \in SUBSET Items
  /\ pc \in [Callers -> {"idle", "loop", "sending", "accepted", "refused"}]
  /\ batch \in [Callers -> SUBSET Items]
  /\ seen \in [Callers -> [Items -> Nat]]
  /\ manual \in Nat /\ interrupts \in Nat /\ faults \in Nat
  /\ sends \in [Items -> Nat] /\ failures \in [Items -> Nat]
  /\ delivered \in SUBSET Items
  /\ discarded \in SUBSET Items

Unseen == [i \in Items |-> 0]        \* nothing loaded

Init ==
  /\ row = [i \in Items |-> [status |-> "none", retries |-> 0]]
  /\ lastItem = 0 /\ orphans = {}
  /\ pc = [c \in Callers |-> "idle"]
  /\ batch = [c \in Callers |-> {}]
  /\ seen = [c \in Callers |-> Unseen]
  /\ manual = 0 /\ interrupts = 0 /\ faults = 0
  /\ sends = [i \in Items |-> 0] /\ failures = [i \in Items |-> 0]
  /\ delivered = {} /\ discarded = {}

----------------------------------------------------------------------------
(* The repository's writes.  Each updates the row by id: when no row has   *)
(* the id nothing is written, and the caller ignores the error.            *)

SetStatus(i, s) == IF Stored(i) THEN [row EXCEPT ![i].status = s] ELSE row

IncrementRetry(i) ==
  IF Stored(i)
  THEN [row EXCEPT ![i] = [status |-> "pending", retries |-> @.retries + 1]]
  ELSE row

(* A write whose error the caller drops. *)
Write(newRow) ==
  \/ row' = newRow /\ UNCHANGED faults
  \/ faults < MaxFaults /\ faults' = faults + 1 /\ UNCHANGED row

(* Rows prune deletes: the ones past the age limit, any subset as far as   *)
(* the queue can tell, and the oldest beyond the ones to keep.             *)
Finished(r, s) == {i \in Items : r[i].status = s}
Surplus(r, s) ==
  {i \in Finished(r, s) : Cardinality({j \in Finished(r, s) : j > i}) >= KeepFinished}
MutPruned(r, aged) ==    \* mutant: pending rows count against the limit too
  LET out == Surplus(r, "pending") \cup Surplus(r, "failed") \cup aged
  IN  [i \in Items |-> IF i \in out THEN [r[i] EXCEPT !.status = "gone"] ELSE r[i]]
Pruned(r, aged) ==
  LET out == Surplus(r, "sent") \cup Surplus(r, "failed") \cup aged
  IN  [i \in Items |-> IF i \in out THEN [r[i] EXCEPT !.status = "gone"] ELSE r[i]]

----------------------------------------------------------------------------
(* Runner.enqueueFallback: Create a pending row, then prune. *)
Enqueue ==
  /\ lastItem < MaxItems
  /\ lastItem' = lastItem + 1
  /\ LET created == [row EXCEPT ![lastItem + 1] = [status |-> "pending", retries |-> 0]]
     IN  \E aged \in SUBSET (Finished(created, "sent") \cup Finished(created, "failed")) :
           row' = Pruned(created, aged)
  /\ UNCHANGED <<orphans, callers, bounds, history>>

(* The rows ListPending returns. *)
Loadable(i) == row[i].status = "pending"

(* FlushFallback begins: snapshot of the pending rows. *)
StartFlush(f) ==
  /\ pc[f] = "idle"
  /\ \E i \in Items : Loadable(i)
  /\ batch' = [batch EXCEPT ![f] = {i \in Items : Loadable(i)}]
  /\ seen' = [seen EXCEPT ![f] = [i \in Items |-> row[i].retries]]
  /\ pc' = [pc EXCEPT ![f] = "loop"]
  /\ UNCHANGED <<table, orphans, bounds, history>>

(* RetryFallbackItem begins: the row is loaded whatever its status. *)
StartRetry(r, i) ==
  /\ pc[r] = "idle" /\ manual < MaxManual
  /\ Stored(i)
  /\ manual' = manual + 1
  /\ batch' = [batch EXCEPT ![r] = {i}]
  /\ seen' = [seen EXCEPT ![r] = [j \in Items |-> row[j].retries]]
  /\ pc' = [pc EXCEPT ![r] = "loop"]
  /\ UNCHANGED <<table, orphans, interrupts, faults, history>>

(* The row a caller is working on: the oldest left of its snapshot. *)
Current(c, i) == i \in batch[c] /\ \A j \in batch[c] : i <= j

(* The caller is through with row i. *)
Advance(c, i) ==
  /\ batch' = [batch EXCEPT ![c] = @ \ {i}]
  /\ pc' = [pc EXCEPT ![c] = IF batch[c] = {i} THEN "idle" ELSE "loop"]
  /\ seen' = IF batch[c] = {i} THEN [seen EXCEPT ![c] = Unseen] ELSE seen

(* The retry count the flush loaded is already at the limit. *)
Exhausted(c, i) == c \in Flushers /\ seen[c][i] >= MaxRetries

GiveUp(c, i) ==
  /\ pc[c] = "loop" /\ Current(c, i)
  /\ Exhausted(c, i)
  /\ Write(SetStatus(i, "failed"))
  /\ Advance(c, i)
  /\ UNCHANGED <<lastItem, orphans, manual, interrupts, history>>

(* Destinations.FindByID fails: counted as a failed attempt. *)
NoDestination(c, i) ==
  /\ pc[c] = "loop" /\ Current(c, i)
  /\ ~ Exhausted(c, i) /\ i \in orphans
  /\ failures' = [failures EXCEPT ![i] = @ + 1]
  /\ Write(IncrementRetry(i))
  /\ Advance(c, i)
  /\ UNCHANGED <<lastItem, orphans, manual, interrupts, sends, delivered, discarded>>

(* MarkAsSending, then the adapter's Send starts.  (A payload that is no   *)
(* JSON object would be marked failed here at once; the only writer of the *)
(* table, Runner.enqueueFallback, encodes it from one.)                    *)
BeginSend(c, i) ==
  /\ pc[c] = "loop" /\ Current(c, i)
  /\ ~ Exhausted(c, i) /\ i \notin orphans
  /\ Write(SetStatus(i, "sending"))
  /\ sends' = [sends EXCEPT ![i] = @ + 1]
  /\ pc' = [pc EXCEPT ![c] = "sending"]
  /\ UNCHANGED <<lastItem, orphans, batch, seen, manual, interrupts, failures, delivered, discarded>>

(* The destination accepts the payload and the answer arrives. *)
SendAccepted(c, i) ==
  /\ pc[c] = "sending" /\ Current(c, i)
  /\ delivered' = delivered \cup {i}
  /\ pc' = [pc EXCEPT ![c] = "accepted"]
  /\ UNCHANGED <<table, orphans, batch, seen, bounds, sends, failures, discarded>>

(* Send returns an error; the payload may have been applied all the same   *)
(* (an answer lost on its way back).                                       *)
SendRefused(c, i) ==
  /\ pc[c] = "sending" /\ Current(c, i)
  /\ failures' = [failures EXCEPT ![i] = @ + 1]
  /\ delivered' \in {delivered, delivered \cup {i}}
  /\ pc' = [pc EXCEPT ![c] = "refused"]
  /\ UNCHANGED <<table, orphans, batch, seen, bounds, sends, discarded>>

RecordSent(c, i) ==
  /\ pc[c] = "accepted" /\ Current(c, i)
  /\ Write(SetStatus(i, "sent"))
  /\ Advance(c, i)
  /\ UNCHANGED <<lastItem, orphans, manual, interrupts, history>>

(* A flush gives up at the limit it computes from its snapshot; a manual   *)
(* retry always puts the row back to pending.                              *)
MutAfterRefusalUnknown(c, i) == SetStatus(i, "error")     \* mutant: a status nobody reads
MutAfterRefusalSent(c, i) == SetStatus(i, "sent")         \* mutant: branches swapped
MutAfterRefusalEarly(c, i) ==                             \* mutant: off by one
  IF c \in Flushers /\ seen[c][i] + 2 >= MaxRetries THEN SetStatus(i, "failed") ELSE IncrementRetry(i)
MutAfterRefusalUncounted(c, i) == SetStatus(i, "pending") \* mutant: retry_count left alone
MutAfterRefusalDropped(c, i) == row                       \* mutant: the row is left sending
AfterRefusal(c, i) ==
  IF c \in Flushers /\ seen[c][i] + 1 >= MaxRetries
  THEN SetStatus(i, "failed")
  ELSE IncrementRetry(i)

RecordRefusal(c, i) ==
  /\ pc[c] = "refused" /\ Current(c, i)
  /\ Write(AfterRefusal(c, i))
  /\ Advance(c, i)
  /\ UNCHANGED <<lastItem, orphans, manual, interrupts, history>>

(* DELETE /api/fallback/{id}. *)
Discard(i) ==
  /\ Stored(i)
  /\ row' = [row EXCEPT ![i].status = "gone"]
  /\ discarded' = discarded \cup {i}
  /\ UNCHANGED <<lastItem, orphans, callers, bounds, sends, failures, delivered>>

(* Saving an instance replaces its destinations: the id the row holds is   *)
(* not found any more.                                                     *)
RemoveDestination(i) ==
  /\ Stored(i) /\ i \notin orphans
  /\ orphans' = orphans \cup {i}
  /\ UNCHANGED <<table, callers, bounds, history>>

(* The process dies, or the request's context ends: every later store call *)
(* of the caller fails, so it has no further effect.                       *)
Interrupt(c) ==
  /\ pc[c] # "idle" /\ interrupts < MaxInterrupts
  /\ interrupts' = interrupts + 1
  /\ pc' = [pc EXCEPT ![c] = "idle"]
  /\ batch' = [batch EXCEPT ![c] = {}]
  /\ seen' = [seen EXCEPT ![c] = Unseen]
  /\ UNCHANGED <<table, orphans, manual, faults, history>>

CallerStep(c) ==
  \E i \in Items :
    \/ GiveUp(c, i) \/ NoDestination(c, i) \/ BeginSend(c, i)
    \/ SendAccepted(c, i) \/ SendRefused(c, i)
    \/ RecordSent(c, i) \/ RecordRefusal(c, i)

Next ==
  \/ Enqueue
  \/ \E f \in Flushers : StartFlush(f)
  \/ \E r \in Retriers, i \in Items : StartRetry(r, i)
  \/ \E c \in Callers : CallerStep(c)
  \/ \E i \in Items : Discard(i) \/ RemoveDestination(i)
  \/ \E c \in Callers : Interrupt(c)

Spec == Init /\ [][Next]_vars

(* The poll returns every interval, and a call that was started runs on:   *)
(* the adapter's Send ends (its client has a time limit).                  *)
Fairness ==
  /\ WF_vars(StartFlush(Scheduler))
  /\ \A c \in Callers : WF_vars(CallerStep(c))

FairSpec == Spec /\ Fairness

----------------------------------------------------------------------------
(* A row says "sent" only if the destination took the payload at least     *)
(* once, whatever flushes and manual retries overlap on the row.           *)
SentWasDelivered ==
  \A i \in Items : row[i].status = "sent" => i \in delivered

(* A row is "failed" only after MaxRetries attempts really failed: the     *)
(* limit is compared with counts read long before, which may be stale but  *)
(* never ahead of what happened.                                           *)
FailedOnlyAtLimit ==
  \A i \in Items : row[i].status = "failed" => failures[i] >= MaxRetries

(* However flushes overlap, each of them offers a payload at most once per *)
(* retry count, so the destination is called a bounded number of times:    *)
(* a row already sent can be revived by a stale snapshot, but only with a  *)
(* higher count.  A lost write can cost one attempt more.                  *)
AttemptsBounded ==
  \A i \in Items : sends[i] <= MaxRetries * Cardinality(Flushers) + manual + faults

(* No caller was cut short and no write was lost. *)
Undisturbed == interrupts = 0 /\ faults = 0

(* Every payload accepted by the queue ends delivered, given up or         *)
(* deleted, unless a caller is cut short or a write is lost on the way.    *)
PendingIsSettled ==
  \A i \in Items :
    row[i].status = "pending" ~> row[i].status \in {"sent", "failed", "gone"} \/ ~ Undisturbed

(* The promise of a store-and-forward queue: nothing is delivered that was *)
(* not handed over, no record comes back, and a payload is forgotten       *)
(* undelivered only when deleted or when its attempts were used up.        *)
Ledger == INSTANCE AtLeastOnce WITH
  Events    <- Items,
  accepted  <- 1 .. lastItem,
  delivered <- delivered,
  excused   <- discarded \cup {i \in Items : failures[i] >= MaxRetries},
  forgotten <- {i \in Items : row[i].status = "gone"}
LedgerSpec == Ledger!Spec
============================================================================
