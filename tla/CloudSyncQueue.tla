--------------------------- MODULE CloudSyncQueue ---------------------------
(***************************************************************************)
(* The queue of events for SparkCloud (table cloud_sync_queue) and the     *)
(* identity under which they are sent.                                     *)
(*                                                                         *)
(* cloudsync.Service.Flush runs from the scheduler's poll, from HTTP and   *)
(* from the remote job sync_now; RetryItem runs from HTTP.  They share no  *)
(* lock: each works on rows it loaded before and writes by id.  Producers  *)
(* read the provisioned identity first and enqueue later.  The handlers of *)
(* pair and connect replace the identity in four steps (save, MQTT         *)
(* connect, refresh of the service's configuration, discard of the events  *)
(* of other identities) and stop at the first that fails.                  *)
(*                                                                         *)
(* A row is named by its place in the created_at order.  The cloud is      *)
(* external: it applies a batch as a whole or not at all, recognises an    *)
(* event by its message_id, accepts a batch only under the identity its    *)
(* events belong to, and answers 409 only when it has every event of it.   *)
(***************************************************************************)
EXTENDS Integers, FiniteSets, Sequences

CONSTANTS
  MaxItems,     \* bound: events enqueued
  High,         \* the ones of high priority
  Flushers,     \* callers of Flush
  Scheduler,    \* the one of them that comes back by itself
  Retriers,     \* HTTP requests that call RetryItem
  Producers,    \* goroutines that report executions and jobs
  Edges,        \* identities the cloud hands out
  None,         \* no identity
  HasToken,     \* a manual sync token is configured
  Limit,        \* rows a flush loads (20, or 50)
  KeepFinished, \* sent rows, and failed rows, that pruning keeps
  MaxManual,    \* bound: flushes and retries on request
  MaxPairings,  \* bound: identity changes
  MaxFaults     \* bound: callers cut short and store accesses that fail

ASSUME BoundsAssumption ==
  /\ MaxItems \in Nat /\ High \subseteq 1 .. MaxItems
  /\ Limit \in Nat \ {0} /\ KeepFinished \in Nat
  /\ MaxManual \in Nat /\ MaxPairings \in Nat /\ MaxFaults \in Nat
  /\ HasToken \in BOOLEAN
ASSUME CallersAssumption ==
  /\ Scheduler \in Flushers /\ Flushers \cap Retriers = {}
  /\ None \notin Edges /\ Edges # {}

Items   == 1 .. MaxItems
Callers == Flushers \cup Retriers
Unsent  == {"pending", "failed"}
Stored  == Unsent \cup {"sent"}

VARIABLES
  row,        \* row[i]: status, owner (payload.edge_id) and whether next_retry_at is past
  lastItem,   \* rows ever created
  identity,   \* the provisioned edge in the identity table
  config,     \* Service.config.EdgeID (with its credentials)
  admin,      \* the step the pair/connect or remove handler is at
  loaded,     \* the identity each producer read, None when it is between events
  pc,         \* where each caller is
  groups,     \* the batches a caller has left, the first one under way
  sentAs,     \* the identity the request under way was made with
  outcome,    \* its answer
  manual, pairings, faults,
  (* history variables *)
  applied,    \* events the cloud has
  refused,    \* events with a failed attempt on record
  disowned,   \* events discarded because their identity was replaced
  deleted     \* events an operator deleted

producing == <<identity, config, admin, loaded>>
callers   == <<pc, groups, sentAs, outcome>>
bounds    == <<manual, pairings, faults>>
history   == <<applied, refused, disowned, deleted>>
vars == <<row, lastItem, producing, callers, bounds, history>>

TypeOK ==
  /\ row \in [Items -> [status : Stored \cup {"none", "gone"}, owner : Edges \cup {None}, due : BOOLEAN]]
  /\ lastItem \in 0 .. MaxItems
  /\ identity \in Edges \cup {None} /\ config \in Edges \cup {None}
  /\ admin \in {"idle", "paired", "connected", "refreshed", "removed"}
  /\ loaded \in [Producers -> Edges \cup {None}]
  /\ pc \in [Callers -> {"idle", "loop", "sending", "marking"}]
  /\ \A c \in Callers :
       /\ groups[c] \in Seq(SUBSET Items)
       /\ groups[c] = <<>> <=> pc[c] = "idle"
  /\ sentAs \in [Callers -> Edges \cup {None}]
  /\ outcome \in [Callers -> {"none", "ok", "conflict", "error"}]
  /\ manual \in 0 .. MaxManual /\ pairings \in 0 .. MaxPairings /\ faults \in 0 .. MaxFaults
  /\ \A h \in {applied, refused, disowned, deleted} : h \subseteq 1 .. lastItem

Init ==
  /\ row = [i \in Items |-> [status |-> "none", owner |-> None, due |-> TRUE]]
  /\ lastItem = 0
  /\ identity \in Edges /\ config = identity
  /\ admin = "idle" /\ loaded = [p \in Producers |-> None]
  /\ pc = [c \in Callers |-> "idle"] /\ groups = [c \in Callers |-> <<>>]
  /\ sentAs = [c \in Callers |-> None] /\ outcome = [c \in Callers |-> "none"]
  /\ manual = 0 /\ pairings = 0 /\ faults = 0
  /\ applied = {} /\ refused = {} /\ disowned = {} /\ deleted = {}

----------------------------------------------------------------------------
(* Producers. *)

(* Edge.Load: nothing is reported while the edge has no identity. *)
LoadIdentity(p) ==
  /\ loaded[p] = None /\ identity # None /\ lastItem < MaxItems
  /\ loaded' = [loaded EXCEPT ![p] = identity]
  /\ UNCHANGED <<row, lastItem, identity, config, admin, callers, bounds, history>>

With(r, s) == {i \in Items : r[i].status = s}
Surplus(r, s) == {i \in With(r, s) : Cardinality({j \in With(r, s) : j > i}) >= KeepFinished}
Without(r, gone) == [i \in Items |-> IF i \in gone THEN [r[i] EXCEPT !.status = "gone"] ELSE r[i]]

(* prune: by age any of the finished rows, by number the oldest. *)
MutPrunable(r) == With(r, "sent") \cup With(r, "failed") \cup With(r, "pending")  \* mutant: no status filter
Prunable(r) == With(r, "sent") \cup With(r, "failed")
Pruned(r, aged) == Without(r, Surplus(r, "sent") \cup Surplus(r, "failed") \cup aged)

(* EnqueueEvent with the identity the producer read, then prune. *)
Enqueue(p) ==
  /\ loaded[p] # None /\ lastItem < MaxItems
  /\ lastItem' = lastItem + 1
  /\ LET created == [row EXCEPT ![lastItem + 1] =
                       [status |-> "pending", owner |-> loaded[p], due |-> TRUE]]
     IN  \E aged \in SUBSET Prunable(created) : row' = Pruned(created, aged)
  /\ loaded' = [loaded EXCEPT ![p] = None]
  /\ UNCHANGED <<identity, config, admin, callers, bounds, history>>

----------------------------------------------------------------------------
(* Flush and RetryItem. *)

(* A base URL, and a token or the identity's credentials. *)
Configured == HasToken \/ config # None

(* The rows ListPending returns: unsent and due, by priority and age. *)
Before(i, j) == \/ i \in High /\ j \notin High
                \/ (i \in High <=> j \in High) /\ i < j
Ready == {i \in Items : row[i].status \in Unsent /\ row[i].due}
MutLoadable == {i \in Items : row[i].status = "pending"}   \* mutant: failed rows are not listed
Loadable == {i \in Ready : Cardinality({j \in Ready : Before(j, i)}) < Limit}

(* groupItemsForBatch: one batch per identity, in the order of the first   *)
(* item; with an identity configured there is a single one.                *)
Resolve(i) == IF config # None THEN config ELSE row[i].owner
FirstOf(S) == CHOOSE i \in S : \A j \in S \ {i} : Before(i, j)
Batches(S) ==
  LET edges   == {Resolve(i) : i \in S}
      of(e)   == {i \in S : Resolve(i) = e}
      rank(e) == Cardinality({f \in edges : f = e \/ Before(FirstOf(of(f)), FirstOf(of(e)))})
  IN  [k \in 1 .. Cardinality(edges) |-> of(CHOOSE e \in edges : rank(e) = k)]

Requested(c) == IF c = Scheduler THEN UNCHANGED manual
                ELSE manual < MaxManual /\ manual' = manual + 1

StartFlush(f) ==
  /\ pc[f] = "idle" /\ Configured
  /\ Loadable # {}
  /\ Requested(f)
  /\ groups' = [groups EXCEPT ![f] = Batches(Loadable)]
  /\ pc' = [pc EXCEPT ![f] = "loop"]
  /\ UNCHANGED <<row, lastItem, producing, sentAs, outcome, pairings, faults, history>>

(* Refused for a row already sent; skipped without configuration. *)
StartRetry(r, i) ==
  /\ pc[r] = "idle"
  /\ row[i].status \in Unsent /\ Configured
  /\ Requested(r)
  /\ groups' = [groups EXCEPT ![r] = <<{i}>>]
  /\ pc' = [pc EXCEPT ![r] = "loop"]
  /\ UNCHANGED <<row, lastItem, producing, sentAs, outcome, pairings, faults, history>>

Batch(c) == Head(groups[c])

(* sendBatch puts the request together: the identity is read again.        *)
(* Without credentials or token nothing is sent and the batch fails.       *)
BeginSend(c) ==
  /\ pc[c] = "loop"
  /\ IF Configured
     THEN /\ sentAs' = [sentAs EXCEPT ![c] = Resolve(FirstOf(Batch(c)))]
          /\ pc' = [pc EXCEPT ![c] = "sending"] /\ UNCHANGED outcome
     ELSE /\ outcome' = [outcome EXCEPT ![c] = "error"]
          /\ pc' = [pc EXCEPT ![c] = "marking"] /\ UNCHANGED sentAs
  /\ UNCHANGED <<row, lastItem, producing, groups, bounds, history>>

Answer(c, result, nowApplied) ==
  /\ pc' = [pc EXCEPT ![c] = "marking"]
  /\ outcome' = [outcome EXCEPT ![c] = result]
  /\ applied' = nowApplied
  /\ sentAs' = [sentAs EXCEPT ![c] = None]
  /\ UNCHANGED <<row, lastItem, producing, groups, bounds, refused, disowned, deleted>>

Authentic(c) == \A i \in Batch(c) : row[i].owner = sentAs[c]
Accepted(c) ==
  /\ pc[c] = "sending" /\ Authentic(c)
  /\ Answer(c, "ok", applied \cup Batch(c))
Conflict(c) ==
  /\ pc[c] = "sending" /\ Authentic(c) /\ Batch(c) \subseteq applied
  /\ Answer(c, "conflict", applied)
(* An error answer, or none: the batch may have been applied all the same. *)
Refused(c) ==
  /\ pc[c] = "sending"
  /\ \/ Answer(c, "error", applied)
     \/ Authentic(c) /\ Answer(c, "error", applied \cup Batch(c))

(* Only Flush takes a conflict for a delivery. *)
MutSucceeded(c) == outcome[c] # "none"       \* mutant: every answer is a success
Succeeded(c) ==
  \/ outcome[c] = "ok"
  \/ c \in Flushers /\ outcome[c] = "conflict"

(* MarkSent or MarkFailed by id: nothing happens to a row that is gone. *)
Mark(i, ok) ==
  IF row[i].status \notin Stored THEN row
  ELSE [row EXCEPT ![i].status = IF ok THEN "sent" ELSE "failed", ![i].due = ok]

(* The caller is through with an item, and with a batch after its last. *)
Advance(c, i) ==
  IF Batch(c) # {i}
  THEN /\ groups' = [groups EXCEPT ![c] = <<Batch(c) \ {i}>> \o Tail(@)]
       /\ UNCHANGED <<pc, outcome>>
  ELSE /\ groups' = [groups EXCEPT ![c] = Tail(@)]
       /\ pc' = [pc EXCEPT ![c] = IF Tail(groups[c]) = <<>> THEN "idle" ELSE "loop"]
       /\ outcome' = [outcome EXCEPT ![c] = "none"]

Record(c, i) ==
  /\ pc[c] = "marking" /\ i \in Batch(c) /\ i = FirstOf(Batch(c))
  /\ \/ row' = Mark(i, Succeeded(c)) /\ UNCHANGED faults
     \/ faults < MaxFaults /\ faults' = faults + 1 /\ UNCHANGED row
  /\ refused' = IF Succeeded(c) THEN refused ELSE refused \cup {i}
  /\ Advance(c, i)
  /\ UNCHANGED <<lastItem, producing, sentAs, manual, pairings, applied, disowned, deleted>>

(* next_retry_at passes. *)
BackoffEnds(i) ==
  /\ row[i].status = "failed" /\ ~ row[i].due
  /\ row' = [row EXCEPT ![i].due = TRUE]
  /\ UNCHANGED <<lastItem, producing, callers, bounds, history>>

(* DELETE /api/cloud-sync/{id}. *)
Delete(i) ==
  /\ row[i].status \in Stored
  /\ row' = Without(row, {i})
  /\ deleted' = deleted \cup {i}
  /\ UNCHANGED <<lastItem, producing, callers, bounds, applied, refused, disowned>>

(* The request's context ends: later store calls of the caller fail. *)
Interrupt(c) ==
  /\ pc[c] # "idle" /\ faults < MaxFaults
  /\ faults' = faults + 1
  /\ pc' = [pc EXCEPT ![c] = "idle"] /\ groups' = [groups EXCEPT ![c] = <<>>]
  /\ outcome' = [outcome EXCEPT ![c] = "none"] /\ sentAs' = [sentAs EXCEPT ![c] = None]
  /\ UNCHANGED <<row, lastItem, producing, manual, pairings, history>>

----------------------------------------------------------------------------
(* The identity. *)

(* The cloud registers the edge and SaveProvisioned stores who it is. *)
Pair ==
  /\ admin = "idle" /\ pairings < MaxPairings
  /\ pairings' = pairings + 1
  /\ identity' \in Edges \ {identity}
  /\ admin' = "paired"
  /\ UNCHANGED <<row, lastItem, config, loaded, callers, manual, faults, history>>

(* Reconnect with the new credentials; when it fails the handler ends. *)
PairConnects ==
  /\ admin = "paired"
  /\ admin' \in {"connected", "idle"}
  /\ UNCHANGED <<row, lastItem, identity, config, loaded, callers, bounds, history>>

(* Clear the identity; the cloud was told before. *)
Remove ==
  /\ admin = "idle" /\ pairings < MaxPairings /\ identity # None
  /\ pairings' = pairings + 1
  /\ identity' = None
  /\ admin' = "removed"
  /\ UNCHANGED <<row, lastItem, config, loaded, callers, manual, faults, history>>

(* refreshCloudSyncConfig: at the end of pair, connect and remove, and of  *)
(* the disconnect and reconnect handlers, which change nothing else here.  *)
(* When the identity cannot be read the service is left without one, until *)
(* the next refresh or restart.                                            *)
Refresh ==
  /\ admin \in {"connected", "removed", "idle"}
  /\ \/ config' = identity /\ UNCHANGED faults
     \/ faults < MaxFaults /\ faults' = faults + 1 /\ config' = None
  /\ admin' = IF admin = "connected" THEN "refreshed" ELSE "idle"
  /\ UNCHANGED <<row, lastItem, identity, loaded, callers, manual, pairings, history>>

(* DiscardMismatchedEdgeItems: unsent rows of another identity. *)
Foreign == {i \in Items : row[i].status \in Unsent /\ row[i].owner # identity}

DiscardForeign ==
  /\ row' = Without(row, Foreign)
  /\ disowned' = disowned \cup Foreign
  /\ UNCHANGED <<applied, refused, deleted>>

Discard ==
  /\ admin = "refreshed"
  /\ DiscardForeign
  /\ admin' = "idle"
  /\ UNCHANGED <<lastItem, identity, config, loaded, callers, bounds>>

(* The process stops and starts: app.New reads the identity, configures    *)
(* the service with it and discards what belongs to another.               *)
Restart ==
  /\ faults < MaxFaults /\ faults' = faults + 1
  /\ config' = identity /\ admin' = "idle"
  /\ loaded' = [p \in Producers |-> None]
  /\ pc' = [c \in Callers |-> "idle"] /\ groups' = [c \in Callers |-> <<>>]
  /\ outcome' = [c \in Callers |-> "none"] /\ sentAs' = [c \in Callers |-> None]
  /\ IF identity # None THEN DiscardForeign ELSE UNCHANGED <<row, history>>
  /\ UNCHANGED <<lastItem, identity, manual, pairings>>

CallerStep(c) ==
  \/ BeginSend(c) \/ Accepted(c) \/ Conflict(c) \/ Refused(c)
  \/ \E i \in Items : Record(c, i)

Next ==
  \/ \E p \in Producers : LoadIdentity(p) \/ Enqueue(p)
  \/ \E f \in Flushers : StartFlush(f)
  \/ \E r \in Retriers, i \in Items : StartRetry(r, i)
  \/ \E c \in Callers : CallerStep(c) \/ Interrupt(c)
  \/ \E i \in Items : BackoffEnds(i) \/ Delete(i)
  \/ Pair \/ PairConnects \/ Remove \/ Refresh \/ Discard
  \/ Restart

Spec == Init /\ [][Next]_vars

(* The poll returns, calls run to their end, backoffs end, and a request   *)
(* that is made over and over is accepted some time.                       *)
Fairness ==
  /\ WF_vars(StartFlush(Scheduler))
  /\ \A c \in Callers : WF_vars(CallerStep(c)) /\ SF_vars(Accepted(c))
  /\ \A i \in Items : WF_vars(BackoffEnds(i))

FairSpec == Spec /\ Fairness

----------------------------------------------------------------------------
(* A row says "sent" only if the cloud has the event: overlapping flushes, *)
(* manual retries, conflicts, lost answers and identity changes included.  *)
SentWasApplied == \A i \in Items : row[i].status = "sent" => i \in applied

(* The promise of a store-and-forward queue.  An event may be forgotten    *)
(* undelivered when an operator deletes it, when its identity is replaced, *)
(* and - since pruning takes "failed" rows, which are still to be retried  *)
(* - once an attempt at it has failed.                                     *)
Ledger == INSTANCE AtLeastOnce WITH
  Events    <- Items,
  accepted  <- 1 .. lastItem,
  delivered <- applied,
  excused   <- deleted \cup disowned \cup refused,
  forgotten <- With(row, "gone")
LedgerSpec == Ledger!Spec

(* With a stable identity, a service that is left configured with it, and  *)
(* a cloud that keeps answering, every event reaches the cloud or leaves   *)
(* the queue: priorities and the limit of a flush starve none, and what    *)
(* other callers left behind is picked up.  A service that a failed        *)
(* refresh left without an identity sends nothing until somebody refreshes *)
(* it: no step of the code does so by itself.                              *)
(* (Only finitely many flushes are requested here.  A caller that flushes  *)
(* along with the scheduler for ever can undo its marks each time, and a   *)
(* full batch of such events starves those behind it.)                     *)
EveryEventSettles ==
  <>[]Configured => \A i \in Items : i <= lastItem ~> i \in applied \/ row[i].status = "gone"

============================================================================
