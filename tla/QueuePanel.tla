----------------------------- MODULE QueuePanel -----------------------------
(***************************************************************************)
(* The two lists of stored messages of the web interface: the cloud        *)
(* synchronisation queue (panel "sync", in pages/CloudSettings.tsx) and    *)
(* the local fallback queue (panel "local", pages/LocalData.tsx with       *)
(* stores/fallback-store.ts). Both load the list, with counts that are     *)
(* left out here, and load it again after each operation; the first also   *)
(* polls.                                                                  *)
(***************************************************************************)
EXTENDS Requests

CONSTANTS Items,       \* messages
          MaxHandlers, \* bound on the handlers the user starts
          MaxNews      \* bound on what happens outside the page, failures included

ASSUME QueueAssumption == MaxHandlers \in Nat /\ MaxNews \in Nat

VARIABLES
  panel,
  queue,     \* the stored rows
  list,      \* the rows shown
  loading, flushing,
  hold,      \* itemActionLoading: what is being done to a row
  qnet,      \* requests of the page
  started, news,
  removed,   \* rows whose removal was carried out and reported
  fresh      \* what is shown was true when it was shown

qvars == <<panel, queue, list, loading, flushing, hold, qnet, started, news, removed, fresh>>

Statuses == {"pending", "failed", "sent"}
Rows == [Items -> Statuses \cup {"new", "gone"}]
Nothing == [i \in Items |-> "new"]

(* A handler: its number, what it does, and to which row.                  *)
Handler(n, kind, item) == [n |-> n, kind |-> kind, item |-> item]
Poll == Handler(0, "poll", None)

QueueTypeOK ==
  /\ panel \in {"sync", "local"} /\ queue \in Rows /\ list \in Rows
  /\ loading \in BOOLEAN /\ flushing \in BOOLEAN
  /\ hold \in [Items -> {"no", "retry", "delete"}]
  /\ \A r \in qnet : r.of.n \in 0..MaxHandlers /\ r.what \in {"list", "flush", "retry", "delete"}
  /\ removed \subseteq Items /\ fresh \in BOOLEAN

(* fetchSync and fetchItems: list and counts are asked for at once and     *)
(* waited for together, here as one request.                               *)
Load(h) == {Ask(h, "list", None)}

QueueInit ==
  /\ panel \in {"sync", "local"}
  /\ queue \in [Items -> {"pending", "new"}]
  /\ list = Nothing
  /\ loading = TRUE /\ flushing = FALSE /\ hold = [i \in Items |-> "no"]
  /\ qnet = Load(Handler(0, "load", None))
  /\ started = 0 /\ news = 0 /\ removed = {} /\ fresh = TRUE

-----------------------------------------------------------------------------
(* The user, and the timer.                                                *)

Start(kind, item, requests) ==
  /\ started < MaxHandlers /\ started' = started + 1
  /\ qnet' = qnet \cup requests
  /\ UNCHANGED <<panel, queue, list, news, removed, fresh>>

PressRefresh ==
  /\ ~loading /\ loading' = TRUE
  /\ Start("load", None, Load(Handler(started + 1, "load", None)))
  /\ UNCHANGED <<flushing, hold>>

PressFlush ==
  /\ ~flushing /\ (panel = "local" => \E i \in Items : list[i] = "pending")
  /\ flushing' = TRUE
  /\ Start("flush", None, {Ask(Handler(started + 1, "flush", None), "flush", None)})
  /\ UNCHANGED <<loading, hold>>

(* The buttons of a row: the cloud page disables them while one is at      *)
(* work on the row, the local page never does.                             *)
RowButton(kind, i) ==
  /\ list[i] \in Statuses
  /\ kind = "retry" => list[i] # "sent"
  /\ panel = "sync" => hold[i] = "no"

PressRow(kind, i) ==
  /\ RowButton(kind, i)
  /\ hold' = IF panel = "sync" THEN [hold EXCEPT ![i] = kind] ELSE hold
  /\ Start(kind, i, {Ask(Handler(started + 1, kind, i), kind, i)})
  /\ UNCHANGED <<loading, flushing>>

(* A bound: the next poll starts when the last one is over.                *)
StartPoll ==
  /\ panel = "sync" /\ \A r \in qnet : r.of # Poll
  /\ qnet' = qnet \cup Load(Poll)
  /\ UNCHANGED <<panel, queue, list, loading, flushing, hold, started, news, removed, fresh>>

-----------------------------------------------------------------------------
(* The edge. Sending fails or succeeds; a row that is gone is not found,   *)
(* which only the handlers of the cloud queue answer as a failure.         *)

AfterSend(rows, i) ==
  {[rows EXCEPT ![i] = s] : s \in IF rows[i] = "sent" THEN {"sent"} ELSE {"sent", "failed"}}

ServeQueue(r) ==
  /\ r.state = "sent"
  /\ CASE r.what = "list" -> queue' = queue /\ qnet' = Answer(qnet, r, queue)
       [] r.what = "flush" ->
            /\ queue' \in {q \in Rows : \A i \in Items :
                  q[i] = queue[i] \/ (queue[i] = "pending" /\ q[i] \in {"sent", "failed"})}
            /\ qnet' = Answer(IF queue' = queue THEN qnet ELSE Outdated(qnet, {}), r, None)
       [] r.what \in {"retry", "delete"} /\ queue[r.of.item] = "gone" ->
            /\ queue' = queue
            /\ qnet' = IF panel = "sync" THEN Fail(qnet, r) ELSE Answer(qnet, r, None)
       [] r.what = "retry" /\ queue[r.of.item] # "gone" ->
            /\ queue' \in AfterSend(queue, r.of.item)
            /\ qnet' = Answer(IF queue' = queue THEN qnet ELSE Outdated(qnet, {}), r, None)
       [] r.what = "delete" /\ queue[r.of.item] # "gone" ->
            /\ queue' = [queue EXCEPT ![r.of.item] = "gone"]
            /\ qnet' = Answer(Outdated(qnet, {}), r, None)
  /\ UNCHANGED <<panel, list, loading, flushing, hold, started, news, removed, fresh>>

QueueFail(r) ==
  /\ r.state = "sent" /\ news < MaxNews /\ news' = news + 1
  /\ qnet' = Fail(qnet, r)
  /\ UNCHANGED <<panel, queue, list, loading, flushing, hold, started, removed, fresh>>

(* The edge sends a row by itself, or stores a new one.                    *)
QueueMoves ==
  /\ news < MaxNews /\ news' = news + 1
  /\ \E i \in Items :
       \/ queue[i] \in {"pending", "failed"} /\ queue' \in AfterSend(queue, i)
       \/ queue[i] = "new" /\ queue' = [queue EXCEPT ![i] = "pending"]
  /\ queue' # queue /\ qnet' = Outdated(qnet, {})
  /\ UNCHANGED <<panel, list, loading, flushing, hold, started, removed, fresh>>

-----------------------------------------------------------------------------
(* The answers.                                                            *)

(* What ends with the handler: its flag, and the mark on its row.          *)
Over(h) ==
  /\ flushing' = IF h.kind = "flush" THEN FALSE ELSE flushing
  /\ hold' = IF panel = "sync" /\ h.kind \in {"retry", "delete"}
             THEN [hold EXCEPT ![h.item] = "no"] ELSE hold
  /\ removed' = IF h.kind = "delete" THEN removed \cup {h.item} ELSE removed
\* mutant: the answer of a poll is not shown
MutLoaded(r) ==
  /\ r.what = "list" /\ r.state = "served"
  /\ IF r.of = Poll THEN UNCHANGED <<list, fresh>> ELSE list' = r.answer /\ fresh' = ~r.stale
  /\ loading' = IF r.of = Poll THEN loading ELSE FALSE
  /\ qnet' = qnet \ {r}
  /\ Over(r.of)
  /\ UNCHANGED <<panel, queue, started, news>>

(* What has come is shown; the poll touches no flag.                       *)
Loaded(r) ==
  /\ r.what = "list" /\ r.state = "served"
  /\ list' = r.answer /\ fresh' = ~r.stale
  /\ loading' = IF r.of = Poll THEN loading ELSE FALSE
  /\ qnet' = qnet \ {r}
  /\ Over(r.of)
  /\ UNCHANGED <<panel, queue, started, news>>
\* mutant: a failed load shows its missing answer
MutLoadFails(r) ==
  /\ r.what = "list" /\ r.state = "failed"
  /\ list' = r.answer
  /\ loading' = IF r.of = Poll THEN loading ELSE FALSE
  /\ fresh' = (fresh /\ r.of = Poll)
  /\ qnet' = qnet \ {r}
  /\ Over(r.of)
  /\ UNCHANGED <<panel, queue, started, news>>

(* What is shown stays, and the handler that waits ends as if all were     *)
(* well.                                                                   *)
LoadFails(r) ==
  /\ r.what = "list" /\ r.state = "failed"
  /\ loading' = IF r.of = Poll THEN loading ELSE FALSE
  /\ fresh' = (fresh /\ r.of = Poll)
  /\ qnet' = qnet \ {r}
  /\ Over(r.of)
  /\ UNCHANGED <<panel, queue, list, started, news>>
\* mutant: after a deletion the list is not loaded again
MutOperationAnswered(r) ==
  /\ r.what \in {"flush", "retry", "delete"} /\ r.state = "served"
  /\ IF r.what = "delete"
     THEN qnet' = qnet \ {r} /\ Over(r.of) /\ UNCHANGED loading
     ELSE /\ loading' = TRUE /\ qnet' = (qnet \ {r}) \cup Load(r.of)
          /\ UNCHANGED <<flushing, hold, removed>>
  /\ UNCHANGED <<panel, queue, list, started, news, fresh>>

OperationAnswered(r) ==
  /\ r.what \in {"flush", "retry", "delete"} /\ r.state = "served"
  /\ loading' = TRUE
  /\ qnet' = (qnet \ {r}) \cup Load(r.of)
  /\ UNCHANGED <<panel, queue, list, flushing, hold, started, news, removed, fresh>>

OperationFailed(r) ==
  /\ r.what \in {"flush", "retry", "delete"} /\ r.state = "failed"
  /\ flushing' = IF r.what = "flush" THEN FALSE ELSE flushing
  /\ hold' = IF panel = "sync" /\ r.what # "flush" THEN [hold EXCEPT ![r.of.item] = "no"] ELSE hold
  /\ qnet' = qnet \ {r}
  /\ UNCHANGED <<panel, queue, list, loading, started, news, removed, fresh>>

QueueHandles ==
  \E r \in qnet : Loaded(r) \/ LoadFails(r) \/ OperationAnswered(r) \/ OperationFailed(r)

QueueServes == \E r \in qnet : ServeQueue(r)

QueueNext ==
  \/ PressRefresh
  \/ PressFlush
  \/ \E i \in Items, kind \in {"retry", "delete"} : PressRow(kind, i)
  \/ StartPoll
  \/ QueueMoves
  \/ QueueServes
  \/ QueueHandles
  \/ \E r \in qnet : QueueFail(r)

-----------------------------------------------------------------------------
(* The page reads its own writes: a row whose removal has been carried out *)
(* and reported is not listed again, unless the list on the page was       *)
(* already outdated when it came, or the load after the removal failed     *)
(* (the load that retry, delete and flush wait for).                       *)
ReadsOwnWrites == fresh => \A i \in removed : list[i] = "gone"

(* The poll of the cloud page repairs whatever a late or a failed answer   *)
(* left on it: at last the page shows the queue (the interval of 8 s).     *)
PollRepairs == panel = "sync" => <>[](list = queue)

=============================================================================
