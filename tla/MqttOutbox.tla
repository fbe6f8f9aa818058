----------------------------- MODULE MqttOutbox -----------------------------
(***************************************************************************)
(* The durable MQTT queue (table mqtt_queue) and the session that empties  *)
(* it.                                                                     *)
(*                                                                         *)
(* Execution events are stored first, then published, and stay in the      *)
(* queue until SparkCloud acknowledges their message_id; other messages    *)
(* are stored only when they cannot be published.  Client.Connect (from    *)
(* pair, connect, reconnect and start-up) and the callback of every        *)
(* (re)connection publish the queue again; the callback does nothing until *)
(* a Connect has gone through to its end (reconnectReady).                 *)
(*                                                                         *)
(* External: the broker library.  While the link is down it may still say  *)
(* it is connected (it is reconnecting); a publish that reports an error   *)
(* may have arrived; it reconnects by itself and calls back.               *)
(***************************************************************************)
EXTENDS Naturals, Sequences, FiniteSets

CONSTANTS
  Messages,    \* messages the edge has to say
  Critical,    \* the execution events among them
  Callbacks,   \* callback goroutines of (re)connections
  Admin,       \* the caller of Edge.Reconnect
  Long, Short, \* attempts after which RetryQueue drops: 100, and 5 in Reconnect
  KeepItems,   \* retention: rows kept
  Ages,        \* rows may be older than the retention time
  MaxCrashes   \* bound: process restarts

ASSUME BoundsAssumption ==
  /\ Critical \subseteq Messages
  /\ IsFiniteSet(Callbacks) /\ Admin \notin Callbacks
  /\ Long \in Nat \ {0} /\ Short \in 1 .. Long /\ KeepItems \in Nat \ {0}
  /\ Ages \in BOOLEAN /\ MaxCrashes \in Nat

Sessions == Callbacks \cup {Admin}

VARIABLES
  queue,       \* stored messages, oldest first
  attempts,    \* attempts column, 0 once a row is deleted; that of an event
               \* decides nothing and is counted no further than Long
  producer,    \* where the goroutine that says a message is
  link,        \* the broker can be reached
  client,      \* a broker client exists
  ready,       \* reconnectReady
  pc,          \* where each session is
  todo,        \* rows a RetryQueue has left
  seen,        \* attempts as it loaded them; of events nothing reads them
  failed,      \* it met a publish error
  acks,        \* acknowledgements on their way
  crashes,
  (* history variables *)
  arrived,     \* messages the cloud has
  acked,       \* acknowledgements received
  pruned,      \* rows retention deleted
  dropped      \* messages without ack given up, or lost in a crash before they were stored

session == <<pc, todo, seen, failed>>
history == <<arrived, acked, pruned, dropped>>
vars == <<queue, attempts, producer, link, client, ready, session, acks, crashes, history>>

Stored == {queue[k] : k \in 1 .. Len(queue)}
Cleared(m) == [attempts EXCEPT ![m] = 0]

TypeOK ==
  /\ queue \in Seq(Messages) /\ Cardinality(Stored) = Len(queue)
  /\ attempts \in [Messages -> Nat] /\ \A m \in Critical : attempts[m] <= Long
  /\ \A m \in Messages \ Critical : attempts[m] <= Long + Cardinality(Sessions)
  /\ producer \in [Messages -> {"idle", "stored", "publishing", "done"}]
  /\ link \in BOOLEAN /\ client \in BOOLEAN /\ ready \in BOOLEAN
  /\ pc \in [Sessions -> {"idle", "called", "dialing", "restoring", "loading", "retrying", "again"}]
  /\ todo \in [Sessions -> Seq(Messages)]
  /\ seen \in [Sessions -> [Messages -> Nat]]
  /\ failed \in [Sessions -> BOOLEAN]
  /\ acks \subseteq Critical /\ crashes \in 0 .. MaxCrashes
  /\ arrived \subseteq Messages /\ acked \subseteq Critical /\ pruned \subseteq Messages
  /\ dropped \subseteq Messages

Fresh == [m \in Messages |-> 0]

Init ==
  /\ queue = <<>> /\ attempts = Fresh
  /\ producer = [m \in Messages |-> "idle"]
  /\ link \in BOOLEAN /\ client = FALSE /\ ready = FALSE
  /\ pc = [s \in Sessions |-> "idle"] /\ todo = [s \in Sessions |-> <<>>]
  /\ seen = [s \in Sessions |-> Fresh]
  /\ failed = [s \in Sessions |-> FALSE]
  /\ acks = {} /\ crashes = 0
  /\ arrived = {} /\ acked = {} /\ pruned = {} /\ dropped = {}

----------------------------------------------------------------------------
(* The table. *)

(* q less the members of S, by positions: a form the proofs can open.      *)
Without(q, S) ==
  LET kept  == {k \in 1 .. Len(q) : q[k] \notin S}
      at(n) == CHOOSE k \in kept : Cardinality({j \in kept : j <= k}) = n
  IN  [n \in 1 .. Cardinality(kept) |-> q[at(n)]]

(* Create, then prune by age and by number, whatever the rows are. *)
Store(m) ==
  \E old \in {{}} \cup (IF Ages THEN SUBSET Stored ELSE {}) :
    LET young == Without(Append(queue, m), old)
        first == IF Len(young) > KeepItems THEN Len(young) - KeepItems + 1 ELSE 1
    IN  /\ queue' = SubSeq(young, first, Len(young))
        /\ pruned' = pruned \cup old \cup {young[k] : k \in 1 .. first - 1}

(* IsConnected: true as well while the client dials for the first time. *)
SaysConnected    == client \/ pc[Admin] = "dialing"
SaysDisconnected == ~ client \/ ~ link

(* What reaches the cloud of a publish that succeeds, and of one that      *)
(* reports an error.                                                       *)
Arrives(m)    == link /\ client /\ arrived' = arrived \cup {m}
MayArrive(m)  == UNCHANGED arrived \/ Arrives(m)

----------------------------------------------------------------------------
(* Producers. *)

Produce(m, to) == producer' = [producer EXCEPT ![m] = to]
ProducerFrame  == <<attempts, link, client, ready, session, acks, crashes, acked>>

(* PublishExecution stores the event before anything else. *)
StoreEvent(m) ==
  /\ m \in Critical /\ producer[m] = "idle"
  /\ Store(m)
  /\ Produce(m, "stored")
  /\ UNCHANGED <<ProducerFrame, arrived, dropped>>

(* Then it looks whether there is a connection. *)
CheckConnection(m) ==
  /\ producer[m] = "stored"
  /\ \/ SaysConnected /\ Produce(m, "publishing")
     \/ SaysDisconnected /\ Produce(m, "done")
  /\ UNCHANGED <<queue, ProducerFrame, arrived, pruned, dropped>>

(* publish for other messages: stored at once when there is no connection. *)
SendPlain(m) ==
  /\ m \notin Critical /\ producer[m] = "idle"
  /\ \/ SaysConnected /\ Produce(m, "publishing") /\ UNCHANGED <<queue, pruned>>
     \/ SaysDisconnected /\ Produce(m, "done") /\ Store(m)
  /\ UNCHANGED <<ProducerFrame, arrived, dropped>>

PublishOk(m) ==
  /\ producer[m] = "publishing"
  /\ Arrives(m)
  /\ Produce(m, "done")
  /\ UNCHANGED <<queue, ProducerFrame, pruned, dropped>>

(* An event is stored already; another message is stored now. *)
MutStoreOnFailure(m) == UNCHANGED <<queue, pruned>>   \* mutant: the failed message is forgotten
MutStoreOnFailureAgain(m) == Store(m)                 \* mutant: every failed message is stored
StoreOnFailure(m) == IF m \in Critical THEN UNCHANGED <<queue, pruned>> ELSE Store(m)
PublishFails(m) ==
  /\ producer[m] = "publishing"
  /\ MayArrive(m)
  /\ StoreOnFailure(m)
  /\ Produce(m, "done")
  /\ UNCHANGED <<ProducerFrame, dropped>>

----------------------------------------------------------------------------
(* The cloud. *)

(* It confirms what it applied, as often as it gets it. *)
CloudAcks(m) ==
  /\ m \in arrived \cap Critical /\ m \notin acks
  /\ m \in Stored                           \* a later one would change nothing
  /\ acks' = acks \cup {m}
  /\ UNCHANGED <<queue, attempts, producer, link, client, ready, session, crashes, history>>

(* handleAcknowledgement deletes the row by message_id. *)
ReceiveAck(m) ==
  /\ m \in acks /\ link /\ client
  /\ acks' = acks \ {m}
  /\ queue' = Without(queue, {m}) /\ attempts' = Cleared(m)
  /\ acked' = acked \cup {m}
  /\ UNCHANGED <<producer, link, client, ready, session, crashes, arrived, pruned, dropped>>

----------------------------------------------------------------------------
(* The session. *)

Goto(s, l) == pc' = [pc EXCEPT ![s] = l]
Kept       == <<queue, attempts, producer, acks, crashes, history>>

(* The network drops; a tunnel or broker may discard the session and the   *)
(* acknowledgements with it.                                               *)
LinkDrops ==
  /\ link /\ link' = FALSE
  /\ acks' \in {acks, {}}
  /\ UNCHANGED <<queue, attempts, producer, client, ready, session, crashes, history>>

(* The network is back: a client reconnects and calls back. *)
LinkReturns ==
  /\ ~ link /\ link' = TRUE
  /\ \/ ~ client /\ UNCHANGED pc
     \/ \E s \in Callbacks : client /\ pc[s] = "idle" /\ Goto(s, "called")
     \/ client /\ (\A s \in Callbacks : pc[s] # "idle") /\ UNCHANGED pc
  /\ UNCHANGED <<Kept, client, ready, todo, seen, failed>>

(* onBrokerConnected. *)
Skips == ~ ready
CallbackStarts(s) ==
  /\ s \in Callbacks /\ pc[s] = "called"
  /\ Goto(s, IF Skips THEN "idle" ELSE "restoring")
  /\ UNCHANGED <<Kept, link, client, ready, todo, seen, failed>>

(* Disconnect, the first step of Reconnect as well. *)
Disconnect ==
  /\ pc[Admin] = "idle" /\ client
  /\ client' = FALSE /\ ready' = FALSE
  /\ UNCHANGED <<Kept, link, session>>

(* Connect drops the previous client and dials. *)
Connect ==
  /\ pc[Admin] = "idle"
  /\ client' = FALSE /\ ready' = FALSE
  /\ Goto(Admin, "dialing")
  /\ UNCHANGED <<Kept, link, todo, seen, failed>>

DialOk ==
  /\ pc[Admin] = "dialing" /\ link
  /\ client' = TRUE
  /\ pc' \in {[pc EXCEPT ![Admin] = "restoring"]} \cup
             {[pc EXCEPT ![Admin] = "restoring", ![s] = "called"] : s \in {c \in Callbacks : pc[c] = "idle"}}
  /\ UNCHANGED <<Kept, link, ready, todo, seen, failed>>

(* The caller's context ends first. *)
DialFails ==
  /\ pc[Admin] = "dialing"
  /\ Goto(Admin, "idle")
  /\ UNCHANGED <<Kept, link, client, ready, todo, seen, failed>>

(* restoreSession and the status "online": on to the queue, or give up.    *)
RestoreOk(s) ==
  /\ pc[s] = "restoring" /\ link /\ client
  /\ Goto(s, "loading")
  /\ UNCHANGED <<Kept, link, client, ready, todo, seen, failed>>
RestoreFails(s) ==
  /\ pc[s] = "restoring"
  /\ Goto(s, "idle")
  /\ UNCHANGED <<Kept, link, client, ready, todo, seen, failed>>

(* RetryQueue: 100 attempts; a second time with 5 at the end of Reconnect. *)
LimitOf(s) == IF pc[s] = "again" THEN Short ELSE Long
MutListed(limit) == Without(queue, {m \in Messages : attempts[m] >= limit})  \* mutant: events have a limit too
Listed(limit) == Without(queue, {m \in Messages \ Critical : attempts[m] >= limit})
Load(s, limit) ==
  /\ todo' = [todo EXCEPT ![s] = Listed(limit)]
  /\ seen' = [seen EXCEPT ![s] = [m \in Messages |-> IF m \in Critical THEN 0 ELSE attempts[m]]]

StartRetry(s) ==
  /\ pc[s] = "loading"
  /\ Load(s, Long)
  /\ Goto(s, "retrying")
  /\ UNCHANGED <<Kept, link, client, ready, failed>>

Working(s) == pc[s] \in {"retrying", "again"} /\ todo[s] # <<>>

(* IncrementAttempt, by id.  An event is published again for as long as it *)
(* is not acknowledged: its count has no limit in the code; the model's is *)
(* the largest number anything is compared with.                           *)
Counted(m) ==
  IF m \notin Stored \/ (m \in Critical /\ attempts[m] = Long) THEN attempts
  ELSE [attempts EXCEPT ![m] = @ + 1]

(* A message that needs no ack is done with; an event waits for its own.   *)
MutAfterPublish(m) == Without(queue, {m})     \* mutant: events are deleted too
AfterPublish(m) == IF m \in Critical THEN queue ELSE Without(queue, {m})

RetryOk(s) ==
  /\ Working(s)
  /\ Arrives(Head(todo[s]))
  /\ queue' = AfterPublish(Head(todo[s]))
  /\ attempts' = IF Head(todo[s]) \in Critical THEN Counted(Head(todo[s])) ELSE Cleared(Head(todo[s]))
  /\ todo' = [todo EXCEPT ![s] = Tail(@)]
  /\ UNCHANGED <<producer, link, client, ready, pc, seen, failed, acks, crashes, acked, pruned, dropped>>

(* The attempt is counted by id, and the limit compared with the count     *)
(* that was loaded.                                                        *)
GivesUp(s, m) == m \notin Critical /\ seen[s][m] + 1 >= LimitOf(s)
RetryFails(s) ==
  /\ Working(s)
  /\ LET m == Head(todo[s])
     IN  /\ MayArrive(m)
         /\ attempts' = IF GivesUp(s, m) THEN Cleared(m) ELSE Counted(m)
         /\ queue' = IF GivesUp(s, m) THEN Without(queue, {m}) ELSE queue
         /\ dropped' = IF GivesUp(s, m) /\ m \notin Critical THEN dropped \cup {m} ELSE dropped
  /\ todo' = [todo EXCEPT ![s] = Tail(@)]
  /\ failed' = [failed EXCEPT ![s] = TRUE]
  /\ UNCHANGED <<producer, link, client, ready, pc, seen, acks, crashes, acked, pruned>>

(* The callback is through.  Connect turns ready only when every row could *)
(* be published; Reconnect then goes over the queue once more.             *)
RetryEnds(s) ==
  /\ pc[s] \in {"retrying", "again"} /\ todo[s] = <<>>
  /\ IF s = Admin /\ pc[s] = "retrying" /\ ~ failed[s]
     THEN Load(s, Short) /\ Goto(s, "again") /\ ready' = TRUE
     ELSE Goto(s, "idle") /\ seen' = [seen EXCEPT ![s] = Fresh] /\ UNCHANGED <<ready, todo>>
  /\ failed' = [failed EXCEPT ![s] = FALSE]
  /\ UNCHANGED <<Kept, link, client>>

(* The process stops; a message that was only in memory is lost. *)
Crash ==
  /\ crashes < MaxCrashes /\ crashes' = crashes + 1
  /\ client' = FALSE /\ ready' = FALSE
  /\ pc' = [s \in Sessions |-> "idle"] /\ todo' = [s \in Sessions |-> <<>>]
  /\ seen' = [s \in Sessions |-> Fresh] /\ failed' = [s \in Sessions |-> FALSE]
  /\ producer' = [m \in Messages |-> IF producer[m] = "idle" THEN "idle" ELSE "done"]
  /\ dropped' = dropped \cup {m \in Messages \ Critical : producer[m] = "publishing"}
  /\ UNCHANGED <<queue, attempts, link, acks, arrived, acked, pruned>>

ProducerStep(m) ==
  CheckConnection(m) \/ SendPlain(m) \/ PublishOk(m) \/ PublishFails(m)
SessionStep(s) ==
  \/ CallbackStarts(s) \/ RestoreOk(s) \/ RestoreFails(s)
  \/ StartRetry(s) \/ RetryOk(s) \/ RetryFails(s) \/ RetryEnds(s)

Next ==
  \/ \E m \in Messages : StoreEvent(m) \/ ProducerStep(m) \/ CloudAcks(m) \/ ReceiveAck(m)
  \/ \E s \in Sessions : SessionStep(s)
  \/ LinkDrops \/ LinkReturns
  \/ Disconnect \/ Connect \/ DialOk \/ DialFails
  \/ Crash

Spec == Init /\ [][Next]_vars

(* Goroutines run on, the cloud confirms what it got, and a confirmation   *)
(* comes through to a client that is connected often enough.               *)
Fairness ==
  /\ \A m \in Messages :
       WF_vars(ProducerStep(m)) /\ WF_vars(CloudAcks(m)) /\ SF_vars(ReceiveAck(m))
  /\ \A s \in Sessions : WF_vars(SessionStep(s))

FairSpec == Spec /\ Fairness

----------------------------------------------------------------------------
(* An execution event leaves the queue only when the cloud confirmed it or *)
(* retention displaced it: no retry, crash, lost acknowledgement or        *)
(* reconnection in between removes it.                                     *)
EventsHeldOrPruned ==
  \A m \in Critical : producer[m] # "idle" =>
    m \in Stored \/ m \in acked \/ m \in pruned

(* The promise of a store-and-forward queue, for all messages. *)
Ledger == INSTANCE AtLeastOnce WITH
  Events    <- Messages,
  accepted  <- {m \in Messages : producer[m] # "idle"},
  delivered <- arrived,
  excused   <- pruned \cup dropped,
  forgotten <- {m \in Messages : producer[m] = "done" /\ m \notin Stored}
LedgerSpec == Ledger!Spec

(* While the network stays up and Reconnects keep publishing the whole     *)
(* queue, every event is confirmed or displaced, however many attempts and *)
(* acknowledgements failed before.                                         *)
Restored == pc[Admin] = "again"
EventsSettle ==
  <>[]link /\ []<>Restored => \A m \in Critical : (m \in Stored) ~> (m \notin Stored)

============================================================================
