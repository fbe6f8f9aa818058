------------------------- MODULE MqttOutbox_proofs -------------------------
(***************************************************************************)
(* An execution event leaves the durable queue only confirmed or displaced *)
(* by retention: for any number of messages, callbacks, crashes and        *)
(* attempts.                                                               *)
(*                                                                         *)
(* What the argument rests on is what the helpers on the table keep. The   *)
(* sessions' lists (todo, seen) play no part: whatever stale row a session *)
(* has in hand, the code behind it deletes no event.                       *)
(***************************************************************************)
EXTENDS MqttOutbox, Integers, FiniteSetTheorems, SequenceTheorems, TLAPS

Rows == queue \in Seq(Stored)
Places == producer \in [Messages -> {"idle", "stored", "publishing", "done"}]

IInv == Rows /\ Places /\ EventsHeldOrPruned

RangeOf(q) == {q[k] : k \in 1 .. Len(q)}
IsUnique(q) == \A i, j \in 1 .. Len(q) : q[i] = q[j] => i = j

(* What w holds is taken from q, and q's last element at most last.        *)
TakenFrom(w, q) ==
  \A i \in 1 .. Len(w) :
    \E k \in 1 .. Len(q) : w[i] = q[k] /\ (i < Len(w) => k < Len(q))

----------------------------------------------------------------------------
LEMMA SeqOfItsRange ==
  ASSUME NEW T, NEW q \in Seq(T)
  PROVE  q \in Seq(RangeOf(q))
<1>1. Len(q) \in Nat /\ q \in [1 .. Len(q) -> T]
  BY LenProperties
<1>2. q \in [1 .. Len(q) -> RangeOf(q)]
  BY <1>1 DEF RangeOf
<1> QED BY <1>1, <1>2, SeqDef

(* Deleting rows keeps the others.                                         *)
LEMMA WithoutKeeps ==
  ASSUME NEW T, NEW q \in Seq(T), NEW S
  PROVE  /\ Without(q, S) \in Seq(RangeOf(Without(q, S)))
         /\ \A m \in RangeOf(q) \ S : m \in RangeOf(Without(q, S))
         /\ RangeOf(Without(q, S)) \cap S = {}
         /\ IsUnique(q) => IsUnique(Without(q, S))
         /\ TakenFrom(Without(q, S), q)
<1> DEFINE kept == {k \in 1 .. Len(q) : q[k] \notin S}
           upto(k) == {j \in kept : j <= k}
           n == Cardinality(kept)
           at(i) == CHOOSE k \in kept : Cardinality(upto(k)) = i
           w == Without(q, S)
<1>1. IsFiniteSet(kept) /\ n \in Nat
  <2>1. Len(q) \in Int /\ 1 \in Int
    BY LenProperties
  <2>2. IsFiniteSet(1 .. Len(q))
    BY <2>1, FS_Interval
  <2>3. kept \in SUBSET (1 .. Len(q))
    OBVIOUS
  <2> HIDE DEF kept
  <2> QED BY <2>2, <2>3, FS_Subset, FS_CardinalityType
<1>2. w = [i \in 1 .. n |-> q[at(i)]]
  BY DEF Without
<1>3. kept \subseteq Nat
  BY LenProperties
<1> HIDE DEF w, at
<1>4. ASSUME NEW k \in kept PROVE Cardinality(upto(k)) \in 1 .. n
  <2>1. upto(k) \in SUBSET kept /\ k \in upto(k)
    BY <1>3
  <2> HIDE DEF upto, kept
  <2>2. IsFiniteSet(upto(k)) /\ Cardinality(upto(k)) <= n /\ Cardinality(upto(k)) \in Nat
    BY <1>1, <2>1, FS_Subset, FS_CardinalityType
  <2>3. Cardinality(upto(k)) # 0
    BY <2>1, <2>2, FS_EmptySet
  <2> HIDE DEF n
  <2> QED BY <1>1, <2>2, <2>3
<1>5. ASSUME NEW k \in kept, NEW j \in kept, Cardinality(upto(k)) = Cardinality(upto(j)), k < j
      PROVE  FALSE
  <2>1. upto(k) \in SUBSET upto(j) /\ j \in upto(j) /\ j \notin upto(k) /\ upto(j) \in SUBSET kept
    BY <1>3, <1>5
  <2> HIDE DEF upto, kept
  <2>2. IsFiniteSet(upto(j))
    BY <1>1, <2>1, FS_Subset
  <2> QED BY <1>5, <2>1, <2>2, FS_Subset
<1>6. ASSUME NEW k \in kept PROVE at(Cardinality(upto(k))) = k
  <2>1. \A j \in kept : Cardinality(upto(j)) = Cardinality(upto(k)) => j = k
    BY <1>3, <1>5
  <2> HIDE DEF upto, kept
  <2> QED BY <2>1 DEF at
<1>7. Len(w) = n /\ w \in Seq(RangeOf(w))
  <2> DEFINE W == {w[i] : i \in 1 .. n}
  <2> HIDE DEF n
  <2>1. w \in [1 .. n -> W]
    BY <1>2
  <2> HIDE DEF W
  <2>2. w \in Seq(W)
    BY <1>1, <2>1, SeqDef
  <2>3. Len(w) \in Nat /\ DOMAIN w = 1 .. Len(w) /\ DOMAIN w = 1 .. n
    BY <2>1, <2>2, LenProperties
  <2>4. Len(w) = n
    <3>1. \A a, c \in Nat : 1 .. a = 1 .. c => a = c
      <4> TAKE a, c \in Nat
      <4>1. 1 .. a = 1 .. c => (a \in 1 .. c \/ a = 0) /\ (c \in 1 .. a \/ c = 0)
        OBVIOUS
      <4> QED BY <4>1
    <3> QED BY <1>1, <2>3, <3>1
  <2> QED BY <2>2, <2>4 DEF W, RangeOf
<1>8. ASSUME NEW m \in RangeOf(q) \ S PROVE m \in RangeOf(w)
  <2>1. PICK k \in kept : m = q[k]
    BY DEF RangeOf
  <2> DEFINE i == Cardinality(upto(k))
  <2>2. i \in 1 .. n /\ at(i) = k
    BY <1>4, <1>6
  <2> HIDE DEF i, n, kept
  <2>3. w[i] = m
    BY <1>2, <2>1, <2>2
  <2> QED BY <1>7, <2>2, <2>3 DEF RangeOf
<1>9. ASSUME NEW i \in 1 .. n
      PROVE  at(i) \in kept /\ Cardinality(upto(at(i))) = i
  <2> DEFINE f == [k \in kept |-> Cardinality(upto(k))]
  <2>1. f \in [kept -> 1 .. n]
    BY <1>4
  <2>2. \A k, j \in kept : f[k] = f[j] => k = j
    BY <1>3, <1>5
  <2>3. IsFiniteSet(1 .. n) /\ Cardinality(1 .. n) = n
    <3> HIDE DEF n
    <3>1. n \in Int /\ 1 \in Int
      BY <1>1
    <3> QED BY <1>1, <3>1, FS_Interval
  <2> HIDE DEF f, kept
  <2>4. f \in Injection(kept, 1 .. n)
    BY <2>1, <2>2 DEF Injection, IsInjective
  <2>5. f \in Surjection(kept, 1 .. n)
    BY <2>3, <2>4, FS_Injection
  <2>6. PICK k \in kept : f[k] = i
    BY <2>5 DEF Surjection
  <2> HIDE DEF upto
  <2>7. Cardinality(upto(k)) = i
    BY <2>6 DEF f
  <2> QED BY <2>7 DEF at
<1>10. ASSUME NEW i \in 1 .. n
       PROVE  \E k \in 1 .. Len(q) : w[i] = q[k] /\ (i < n => k < Len(q))
  <2>1. at(i) \in kept /\ at(i) \in 1 .. Len(q)
    BY <1>9
  <2>2. at(i) = Len(q) => i = n
    <3>1. at(i) = Len(q) => upto(at(i)) = kept
      BY <1>3, <2>1, LenProperties
    <3> QED BY <1>9, <3>1
  <2>3. w[i] = q[at(i)] /\ Len(q) \in Nat /\ n \in Nat
    BY <1>1, <1>2, LenProperties
  <2> HIDE DEF n, kept
  <2>4. i < n => at(i) < Len(q)
    BY <2>1, <2>2, <2>3
  <2> QED BY <2>1, <2>3, <2>4
<1>11. TakenFrom(w, q)
  <2> HIDE DEF n
  <2> QED BY <1>7, <1>10 DEF TakenFrom
<1>12. RangeOf(w) \cap S = {}
  <2>1. ASSUME NEW i \in 1 .. n PROVE w[i] \notin S
    BY <1>2, <1>9
  <2> HIDE DEF n
  <2> QED BY <1>7, <2>1 DEF RangeOf
<1>13. ASSUME IsUnique(q) PROVE IsUnique(w)
  <2> SUFFICES ASSUME NEW i \in 1 .. n, NEW j \in 1 .. n, w[i] = w[j] PROVE i = j
    <3> HIDE DEF n
    <3> QED BY <1>7 DEF IsUnique
  <2>1. /\ at(i) \in 1 .. Len(q) /\ at(j) \in 1 .. Len(q) /\ q[at(i)] = q[at(j)]
        /\ Cardinality(upto(at(i))) = i /\ Cardinality(upto(at(j))) = j
    BY <1>2, <1>9
  <2> HIDE DEF n, upto
  <2> QED BY <1>13, <2>1 DEF IsUnique
<1> QED BY <1>7, <1>8, <1>11, <1>12, <1>13 DEF w

LEMMA DeletionKeeps ==
  ASSUME Rows, NEW S, queue' = Without(queue, S)
  PROVE  Rows' /\ Stored' \subseteq Stored /\ \A m \in Stored \ S : m \in Stored'
<1>1. Stored = RangeOf(queue) /\ Stored' = RangeOf(Without(queue, S))
  BY DEF Stored, RangeOf
<1>2. Stored' \subseteq Stored
  <2>1. TakenFrom(Without(queue, S), queue)
    BY WithoutKeeps DEF Rows
  <2> QED BY <1>1, <2>1 DEF RangeOf, TakenFrom
<1> QED BY <1>1, <1>2, WithoutKeeps DEF Rows

(* Storing a message, with the retention behind it: what is gone from the  *)
(* table afterwards is on record as pruned.                                *)
LEMMA StoreKeeps ==
  ASSUME Rows, NEW m, Store(m)
  PROVE  /\ Rows' /\ pruned \subseteq pruned'
         /\ \A e \in Stored \cup {m} : e \in Stored' \/ e \in pruned'
         /\ Stored' \subseteq Stored \cup {m}
         /\ pruned' \subseteq pruned \cup Stored
         /\ IsUnique(queue) /\ m \notin Stored => IsUnique(queue')
<1> DEFINE longer == Append(queue, m)
<1>1. PICK old \in SUBSET Stored :
        LET young == Without(longer, old)
            first == IF Len(young) > KeepItems THEN Len(young) - KeepItems + 1 ELSE 1
        IN  /\ queue' = SubSeq(young, first, Len(young))
            /\ pruned' = pruned \cup old \cup {young[k] : k \in 1 .. first - 1}
  BY DEF Store
<1> DEFINE young == Without(longer, old)
           n == Len(young)
           first == IF n > KeepItems THEN n - KeepItems + 1 ELSE 1
           R == RangeOf(young)
<1>2. queue' = SubSeq(young, first, n) /\ pruned' = pruned \cup old \cup {young[k] : k \in 1 .. first - 1}
  BY <1>1
<1>3. longer \in Seq(Stored \cup {m}) /\ Stored \cup {m} \subseteq RangeOf(longer)
  <2>1. queue \in Seq(Stored \cup {m}) /\ queue \in Seq(Stored)
    BY DEF Rows, Stored
  <2>2. /\ longer \in Seq(Stored \cup {m}) /\ Len(longer) = Len(queue) + 1
        /\ longer[Len(queue) + 1] = m /\ \A k \in 1 .. Len(queue) : longer[k] = queue[k]
    BY <2>1, AppendProperties
  <2>3. Len(queue) \in Nat
    BY <2>1, LenProperties
  <2> HIDE DEF longer
  <2> QED BY <2>2, <2>3 DEF RangeOf, Stored
<1> HIDE DEF longer
<1>4. young \in Seq(R) /\ \A e \in Stored \cup {m} : e \in R \/ e \in old
  BY <1>3, WithoutKeeps
<1> HIDE DEF young, R
<1>5. n \in Nat /\ first \in 1 .. n + 1
  BY <1>4, LenProperties, BoundsAssumption
<1> HIDE DEF first
<1>6. /\ SubSeq(young, first, n) \in Seq(R)
      /\ Len(SubSeq(young, first, n)) = n - first + 1
      /\ \A i \in 1 .. n - first + 1 : SubSeq(young, first, n)[i] = young[first + i - 1]
  BY <1>4, <1>5, SubSeqProperties
<1>7. Rows'
  <2>1. Stored' = RangeOf(queue')
    BY DEF Stored, RangeOf
  <2> QED BY <1>2, <1>6, <2>1, SeqOfItsRange DEF Rows
<1>8. ASSUME NEW k \in first .. n PROVE young[k] \in Stored'
  <2>1. k - first + 1 \in 1 .. n - first + 1 /\ first + (k - first + 1) - 1 = k
    BY <1>5
  <2> QED BY <1>2, <1>6, <2>1 DEF Stored
<1>9. ASSUME NEW e \in R PROVE e \in Stored' \/ e \in pruned'
  <2>1. PICK k \in 1 .. n : e = young[k]
    BY DEF R, RangeOf
  <2>2. k \in first .. n \/ k \in 1 .. first - 1
    BY <1>5
  <2> QED BY <1>2, <1>8, <2>1, <2>2
<1>10. ASSUME NEW k \in 1 .. n
       PROVE  young[k] \in Stored \cup {m} /\ (k < n => young[k] \in Stored)
  <2>0. TakenFrom(young, longer)
    BY <1>3, WithoutKeeps DEF young
  <2>1. PICK j \in 1 .. Len(longer) : young[k] = longer[j] /\ (k < n => j < Len(longer))
    BY <2>0 DEF TakenFrom
  <2>2. longer[j] \in Stored \cup {m} /\ (j < Len(longer) => longer[j] \in Stored)
    <3>1. queue \in Seq(Stored \cup {m}) /\ Len(queue) \in Nat
      BY LenProperties DEF Rows, Stored
    <3>2. /\ Len(longer) = Len(queue) + 1 /\ longer[Len(queue) + 1] = m
          /\ \A i \in 1 .. Len(queue) : longer[i] = queue[i]
      BY <3>1, AppendProperties DEF longer
    <3> QED BY <3>1, <3>2 DEF Stored
  <2> QED BY <2>1, <2>2
<1>11. pruned' \subseteq pruned \cup Stored
  <2>1. \A k \in 1 .. first - 1 : k \in 1 .. n /\ k < n
    BY <1>4, <1>5, BoundsAssumption DEF first
  <2> QED BY <1>2, <1>10, <2>1
<1>12. Stored' \subseteq Stored \cup {m}
  <2>1. \A i \in 1 .. n - first + 1 : first + i - 1 \in 1 .. n
    BY <1>5
  <2>2. Len(queue') = n - first + 1 /\ \A i \in 1 .. n - first + 1 : queue'[i] = young[first + i - 1]
    BY <1>2, <1>5, <1>6
  <2> QED BY <1>10, <2>1, <2>2 DEF Stored
<1>13. ASSUME IsUnique(queue), m \notin Stored PROVE IsUnique(queue')
  <2>1. /\ Len(queue) \in Nat /\ Len(longer) = Len(queue) + 1 /\ longer[Len(queue) + 1] = m
        /\ \A i \in 1 .. Len(queue) : longer[i] = queue[i] /\ longer[i] # m
    <3>1. queue \in Seq(Stored \cup {m}) /\ Len(queue) \in Nat
      BY LenProperties DEF Rows, Stored
    <3> QED BY <1>13, <3>1, AppendProperties DEF longer, Stored
  <2>2. IsUnique(longer)
    BY <1>13, <2>1 DEF IsUnique
  <2>3. IsUnique(young)
    BY <1>3, <2>2, WithoutKeeps DEF young
  <2>4. /\ Len(queue') = n - first + 1
        /\ \A i \in 1 .. n - first + 1 : queue'[i] = young[first + i - 1] /\ first + i - 1 \in 1 .. n
    BY <1>2, <1>5, <1>6
  <2> QED BY <1>5, <2>3, <2>4 DEF IsUnique
<1> QED BY <1>2, <1>4, <1>7, <1>9, <1>11, <1>12, <1>13

----------------------------------------------------------------------------

LEMMA InitIInv == Init => IInv
<1> SUFFICES ASSUME Init PROVE IInv
  OBVIOUS
<1>1. queue \in Seq(Stored)
  BY EmptySeq DEF Init
<1>2. Places /\ EventsHeldOrPruned
  BY BoundsAssumption DEF Init, Places, EventsHeldOrPruned
<1> QED BY <1>1, <1>2 DEF IInv, Rows

(* Steps that leave the table and the producers alone.                     *)
LEMMA TableKept ==
  ASSUME IInv, UNCHANGED <<queue, producer>>, acked \subseteq acked', pruned \subseteq pruned'
  PROVE  IInv'
BY DEF IInv, Rows, Places, Stored, EventsHeldOrPruned

(* An event is stored before it is anywhere; another message is none.      *)
LEMMA ProducerStores ==
  ASSUME IInv, NEW m \in Messages, NEW to \in {"stored", "publishing", "done"},
         Produce(m, to), acked' = acked,
         Store(m) \/ (UNCHANGED <<queue, pruned>> /\ (m \in Critical => producer[m] # "idle"))
  PROVE  IInv'
<1>1. /\ Rows' /\ pruned \subseteq pruned'
      /\ \A e \in Stored : e \in Stored' \/ e \in pruned'
      /\ m \in Critical /\ producer[m] = "idle" => m \in Stored' \/ m \in pruned'
  BY StoreKeeps DEF IInv, Rows, Stored
<1>2. producer' = [producer EXCEPT ![m] = to] /\ Places
  BY DEF Produce, IInv
<1>3. Places' /\ \A e \in Messages \ {m} : producer'[e] = producer[e]
  BY <1>2 DEF Places
<1> QED BY <1>1, <1>3, BoundsAssumption DEF IInv, EventsHeldOrPruned

LEMMA ProducerIInv ==
  ASSUME IInv, NEW m \in Messages, StoreEvent(m) \/ ProducerStep(m)
  PROVE  IInv'
<1>1. CASE StoreEvent(m)
  BY <1>1, ProducerStores DEF StoreEvent, ProducerFrame
<1>2. CASE CheckConnection(m)
  BY <1>2, ProducerStores DEF CheckConnection, ProducerFrame
<1>3. CASE SendPlain(m)
  BY <1>3, ProducerStores DEF SendPlain, ProducerFrame
<1>4. CASE PublishOk(m)
  BY <1>4, ProducerStores DEF PublishOk, ProducerFrame
<1>5. CASE PublishFails(m)
  BY <1>5, ProducerStores DEF PublishFails, StoreOnFailure, ProducerFrame
<1> QED BY <1>1, <1>2, <1>3, <1>4, <1>5 DEF ProducerStep

(* The only deletion of an event: its confirmation.                        *)
LEMMA CloudIInv ==
  ASSUME IInv, NEW m \in Messages, CloudAcks(m) \/ ReceiveAck(m)
  PROVE  IInv'
<1>1. CASE CloudAcks(m)
  BY <1>1, TableKept DEF CloudAcks, history
<1>2. CASE ReceiveAck(m)
  <2>1. /\ Rows' /\ \A e \in Stored \ {m} : e \in Stored'
        /\ producer' = producer /\ pruned' = pruned /\ acked' = acked \cup {m}
    BY <1>2, DeletionKeeps DEF ReceiveAck, IInv
  <2> QED BY <2>1 DEF IInv, Places, EventsHeldOrPruned
<1> QED BY <1>1, <1>2

(* A session deletes what needs no confirmation, whatever it has in hand.  *)
LEMMA SessionIInv ==
  ASSUME IInv, NEW s \in Sessions, SessionStep(s)
  PROVE  IInv'
<1>1. ASSUME NEW m, m \notin Critical, queue' = queue \/ queue' = Without(queue, {m}),
             UNCHANGED <<producer, acked, pruned>>
      PROVE  IInv'
  <2>1. Rows' /\ \A e \in Stored \ {m} : e \in Stored'
    BY <1>1, DeletionKeeps DEF IInv, Rows, Stored
  <2> QED BY <1>1, <2>1 DEF IInv, Places, EventsHeldOrPruned
<1>2. CASE RetryOk(s)
  <2> DEFINE m == Head(todo[s])
  <2>1. queue' = AfterPublish(m) /\ UNCHANGED <<producer, acked, pruned>>
    BY <1>2 DEF RetryOk
  <2>2. CASE m \in Critical
    BY <2>1, <2>2, TableKept DEF AfterPublish
  <2>3. CASE m \notin Critical
    BY <1>1, <2>1, <2>3 DEF AfterPublish
  <2> QED BY <2>2, <2>3
<1>3. CASE RetryFails(s)
  <2> DEFINE m == Head(todo[s])
  <2>1. /\ queue' = IF GivesUp(s, m) THEN Without(queue, {m}) ELSE queue
        /\ UNCHANGED <<producer, acked, pruned>>
    BY <1>3 DEF RetryFails
  <2>2. CASE GivesUp(s, m)
    BY <1>1, <2>1, <2>2 DEF GivesUp
  <2>3. CASE ~ GivesUp(s, m)
    BY <2>1, <2>3, TableKept
  <2> QED BY <2>2, <2>3
<1>4. CASE CallbackStarts(s) \/ RestoreOk(s) \/ RestoreFails(s) \/ StartRetry(s) \/ RetryEnds(s)
  BY <1>4, TableKept DEF CallbackStarts, RestoreOk, RestoreFails, StartRetry, RetryEnds, Kept, history
<1> QED BY <1>2, <1>3, <1>4 DEF SessionStep

LEMMA LinkIInv ==
  ASSUME IInv, LinkDrops \/ LinkReturns \/ Disconnect \/ Connect \/ DialOk \/ DialFails
  PROVE  IInv'
BY TableKept DEF LinkDrops, LinkReturns, Disconnect, Connect, DialOk, DialFails, Kept, history

LEMMA CrashIInv ==
  ASSUME IInv, Crash
  PROVE  IInv'
<1>1. /\ producer' = [m \in Messages |-> IF producer[m] = "idle" THEN "idle" ELSE "done"]
      /\ UNCHANGED <<queue, acked, pruned>>
  BY DEF Crash
<1> QED BY <1>1, BoundsAssumption DEF IInv, Rows, Stored, Places, EventsHeldOrPruned

LEMMA NextIInv == IInv /\ [Next]_vars => IInv'
<1> SUFFICES ASSUME IInv, [Next]_vars PROVE IInv'
  OBVIOUS
<1>1. CASE UNCHANGED vars
  BY <1>1, TableKept DEF vars, history
<1>2. CASE Next
  BY <1>2, ProducerIInv, CloudIInv, SessionIInv, LinkIInv, CrashIInv DEF Next
<1> QED BY <1>1, <1>2

----------------------------------------------------------------------------
(* PublishExecution's promise: once an event has been stored it is in the  *)
(* queue until it is confirmed or retention takes it, whatever fails.      *)
THEOREM EventsAreHeld == Spec => []EventsHeldOrPruned
<1>1. IInv => EventsHeldOrPruned
  BY DEF IInv
<1> QED BY InitIInv, NextIInv, <1>1, PTL DEF Spec

-----------------------------------------------------------------------------
(***************************************************************************)
(* The durable MQTT queue implements AtLeastOnce, for any number of        *)
(* messages, callbacks, crashes and attempts: what it forgets has reached  *)
(* the cloud, was displaced by retention, or was given up.                 *)
(*                                                                         *)
(* Here the sessions' lists do play a part: a session may publish, and     *)
(* give up, a message whose row is gone, so the invariant follows where    *)
(* what it has in hand came from.                                          *)
(***************************************************************************)

Taken == {m \in Messages : producer[m] # "idle"}

(* Nothing is anywhere that no producer has said.                          *)
NothingMadeUp ==
  /\ Stored \subseteq Taken
  /\ arrived \subseteq Taken /\ pruned \subseteq Taken /\ dropped \subseteq Taken
  /\ todo \in [Sessions -> Seq(Taken)]

ConfirmedArrived == acks \subseteq arrived /\ acked \subseteq arrived

(* A message without acknowledgement is in memory until it is somewhere.   *)
PlainAccounted ==
  \A m \in Messages \ Critical :
    /\ producer[m] # "stored"
    /\ producer[m] = "done" => m \in Stored \cup arrived \cup pruned \cup dropped

LInv == NothingMadeUp /\ ConfirmedArrived /\ PlainAccounted

(* What a step may do to the ledger.                                       *)
Grows ==
  /\ arrived \subseteq arrived' /\ arrived' \subseteq Taken
  /\ pruned \cup dropped \subseteq pruned' \cup dropped'
  /\ pruned' \cup dropped' \subseteq Taken
  /\ \A m \in Messages : producer[m] = "done" =>
       producer'[m] = "done" /\ (m \in Stored' => m \in Stored)
  /\ UNCHANGED Taken \/ \E m \in Messages \ Taken : Taken' = Taken \cup {m}

Fine == LInv' /\ Grows

----------------------------------------------------------------------------
LEMMA SeqGrows ==
  ASSUME NEW S, NEW T, S \subseteq T
  PROVE  Seq(S) \subseteq Seq(T)
BY SeqDef

LEMMA ListedIsStored ==
  ASSUME Rows, NEW limit
  PROVE  Listed(limit) \in Seq(Stored)
<1> DEFINE w == Listed(limit)
<1>1. w \in Seq(RangeOf(w)) /\ TakenFrom(w, queue)
  BY WithoutKeeps DEF Rows, Listed
<1> HIDE DEF w
<1>2. RangeOf(w) \subseteq Stored
  BY <1>1 DEF RangeOf, TakenFrom, Stored
<1>3. w \in Seq(Stored)
  BY <1>1, <1>2, SeqGrows
<1> QED BY <1>3 DEF w

(* Steps of the sessions, the cloud and the link: no producer moves, and a *)
(* row that goes is accounted for.                                         *)
LEMMA NoProducer ==
  ASSUME IInv, LInv, producer' = producer, pruned' = pruned,
         Stored' \subseteq Stored,
         \A m \in Stored : m \in Stored' \cup arrived' \cup pruned' \cup dropped',
         arrived \subseteq arrived', arrived' \subseteq Taken,
         dropped \subseteq dropped', dropped' \subseteq Taken,
         acks' \subseteq arrived', acked' \subseteq arrived',
         todo' \in [Sessions -> Seq(Taken)]
  PROVE  Fine
<1>1. Taken' = Taken
  BY DEF Taken
<1>2. NothingMadeUp'
  BY <1>1 DEF LInv, NothingMadeUp
<1>3. PlainAccounted'
  BY DEF LInv, PlainAccounted
<1>4. Grows
  BY <1>1 DEF LInv, NothingMadeUp, Grows
<1> QED BY <1>2, <1>3, <1>4 DEF Fine, LInv, ConfirmedArrived

(* Steps of a producer: it stores, publishes, or both.                     *)
LEMMA OneProducer ==
  ASSUME IInv, LInv, NEW m \in Messages, NEW to \in {"stored", "publishing", "done"},
         producer[m] # "done", Produce(m, to), UNCHANGED <<todo, acks, acked, dropped>>,
         Store(m) \/ UNCHANGED <<queue, pruned>>,
         \/ arrived' = arrived
         \/ producer[m] # "idle" /\ arrived' = arrived \cup {m},
         m \notin Critical => /\ to # "stored"
                              /\ to = "done" => Store(m) \/ m \in arrived'
  PROVE  Fine
<1>1. producer' = [producer EXCEPT ![m] = to] /\ producer \in [Messages -> {"idle", "stored", "publishing", "done"}]
  BY DEF Produce, IInv, Places
<1>2. Taken' = Taken \cup {m} /\ m \in Taken' /\ Taken \subseteq Messages
  BY <1>1 DEF Taken
<1>3. /\ pruned \subseteq pruned' /\ pruned' \subseteq pruned \cup Stored
      /\ Stored' \subseteq Stored \cup {m}
      /\ \A e \in Stored : e \in Stored' \/ e \in pruned'
      /\ Store(m) => m \in Stored' \/ m \in pruned'
  BY StoreKeeps DEF IInv, Stored
<1>4. arrived' \subseteq Taken
  BY DEF LInv, NothingMadeUp, Taken
<1>5. todo' \in [Sessions -> Seq(Taken')]
  <2>1. Seq(Taken) \subseteq Seq(Taken')
    BY <1>2, SeqGrows
  <2> QED BY <2>1 DEF LInv, NothingMadeUp
<1>6. NothingMadeUp'
  BY <1>2, <1>3, <1>4, <1>5 DEF LInv, NothingMadeUp
<1>7. PlainAccounted'
  BY <1>1, <1>3 DEF LInv, PlainAccounted
<1>8. ConfirmedArrived'
  BY DEF LInv, ConfirmedArrived
<1>9. Grows
  <2>1. UNCHANGED Taken \/ \E e \in Messages \ Taken : Taken' = Taken \cup {e}
    BY <1>2
  <2>2. pruned' \cup dropped' \subseteq Taken /\ arrived \subseteq arrived'
    BY <1>3 DEF LInv, NothingMadeUp
  <2> QED BY <1>1, <1>3, <1>4, <2>1, <2>2 DEF Grows
<1> QED BY <1>6, <1>7, <1>8, <1>9 DEF Fine, LInv

----------------------------------------------------------------------------
LEMMA ProducerFine ==
  ASSUME IInv, LInv, NEW m \in Messages, StoreEvent(m) \/ ProducerStep(m)
  PROVE  Fine
<1>1. CASE StoreEvent(m)
  BY <1>1, OneProducer DEF StoreEvent, ProducerFrame, session
<1>2. CASE CheckConnection(m)
  <2>1. m \in Critical
    BY <1>2 DEF CheckConnection, LInv, PlainAccounted
  <2> QED BY <1>2, <2>1, OneProducer DEF CheckConnection, ProducerFrame, session
<1>3. CASE SendPlain(m)
  BY <1>3, OneProducer DEF SendPlain, ProducerFrame, session
<1>4. CASE PublishOk(m)
  BY <1>4, OneProducer DEF PublishOk, Arrives, ProducerFrame, session
<1>5. CASE PublishFails(m)
  BY <1>5, OneProducer DEF PublishFails, StoreOnFailure, MayArrive, Arrives, ProducerFrame, session
<1> QED BY <1>1, <1>2, <1>3, <1>4, <1>5 DEF ProducerStep

LEMMA CloudFine ==
  ASSUME IInv, LInv, NEW m \in Messages, CloudAcks(m) \/ ReceiveAck(m)
  PROVE  Fine
<1>1. CASE CloudAcks(m)
  BY <1>1, NoProducer DEF CloudAcks, history, session, Stored, LInv, ConfirmedArrived, NothingMadeUp
<1>2. CASE ReceiveAck(m)
  <2>1. Stored' \subseteq Stored /\ \A e \in Stored \ {m} : e \in Stored'
    BY <1>2, DeletionKeeps DEF ReceiveAck, IInv
  <2>2. m \in arrived /\ arrived' = arrived /\ acked' \subseteq arrived /\ acks' \subseteq arrived
    BY <1>2 DEF ReceiveAck, LInv, ConfirmedArrived
  <2> QED BY <1>2, <2>1, <2>2, NoProducer DEF ReceiveAck, session, LInv, NothingMadeUp
<1> QED BY <1>1, <1>2

LEMMA SessionFine ==
  ASSUME IInv, LInv, NEW s \in Sessions, SessionStep(s)
  PROVE  Fine
<1>1. todo \in [Sessions -> Seq(Taken)] /\ arrived \subseteq Taken /\ dropped \subseteq Taken
      /\ acks \subseteq arrived /\ acked \subseteq arrived
  BY DEF LInv, NothingMadeUp, ConfirmedArrived
(* The message a session has in hand, and the row it may delete.           *)
<1>2. ASSUME NEW m, m \in Taken,
             queue' = queue \/ (queue' = Without(queue, {m}) /\ m \in arrived' \cup dropped'),
             todo' = [todo EXCEPT ![s] = Tail(@)], todo[s] # <<>>,
             arrived' = arrived \/ arrived' = arrived \cup {m},
             dropped' = dropped \/ dropped' = dropped \cup {m},
             UNCHANGED <<producer, acks, acked, pruned>>
      PROVE  Fine
  <2>1. Stored' \subseteq Stored /\ \A e \in Stored : e \in Stored' \/ e \in arrived' \cup dropped'
    BY <1>2, DeletionKeeps DEF IInv, Stored
  <2>2. todo' \in [Sessions -> Seq(Taken)]
    BY <1>1, <1>2, HeadTailProperties
  <2> QED BY <1>1, <1>2, <2>1, <2>2, NoProducer
<1>3. todo[s] # <<>> => Head(todo[s]) \in Taken
  BY <1>1, HeadTailProperties
<1>4. CASE RetryOk(s)
  BY <1>2, <1>3, <1>4 DEF RetryOk, Working, Arrives, AfterPublish
<1>5. CASE RetryFails(s)
  <2> DEFINE m == Head(todo[s])
  <2>1. /\ arrived' = arrived \/ arrived' = arrived \cup {m}
        /\ queue' = IF GivesUp(s, m) THEN Without(queue, {m}) ELSE queue
        /\ dropped' = IF GivesUp(s, m) /\ m \notin Critical THEN dropped \cup {m} ELSE dropped
        /\ todo' = [todo EXCEPT ![s] = Tail(@)] /\ todo[s] # <<>>
        /\ UNCHANGED <<producer, acks, acked, pruned>>
    BY <1>5 DEF RetryFails, Working, MayArrive, Arrives
  <2>2. GivesUp(s, m) => m \notin Critical
    BY DEF GivesUp
  <2>3. m \in Taken
    BY <1>3, <2>1
  <2> HIDE DEF m
  <2> QED BY <1>2, <2>1, <2>2, <2>3
<1>6. CASE CallbackStarts(s) \/ RestoreOk(s) \/ RestoreFails(s)
  BY <1>1, <1>6, NoProducer DEF CallbackStarts, RestoreOk, RestoreFails, Kept, history, Stored
<1>7. CASE StartRetry(s) \/ RetryEnds(s)
  <2>1. UNCHANGED Kept /\ (todo' = todo \/ \E l : todo' = [todo EXCEPT ![s] = Listed(l)])
    BY <1>7 DEF StartRetry, RetryEnds, Load
  <2>2. todo' \in [Sessions -> Seq(Taken)]
    <3>1. \A l : Listed(l) \in Seq(Taken)
      BY ListedIsStored, SeqGrows DEF IInv, LInv, NothingMadeUp
    <3> QED BY <1>1, <2>1, <3>1
  <2> QED BY <1>1, <2>1, <2>2, NoProducer DEF Kept, history, Stored
<1> QED BY <1>4, <1>5, <1>6, <1>7 DEF SessionStep

LEMMA LinkFine ==
  ASSUME IInv, LInv,
         LinkDrops \/ LinkReturns \/ Disconnect \/ Connect \/ DialOk \/ DialFails \/ UNCHANGED vars
  PROVE  Fine
<1>1. /\ UNCHANGED <<queue, producer, todo, arrived, acked, pruned, dropped>>
      /\ acks' = acks \/ acks' = {}
  BY DEF LinkDrops, LinkReturns, Disconnect, Connect, DialOk, DialFails, Kept, history, session, vars
<1> QED BY <1>1, NoProducer DEF Stored, LInv, NothingMadeUp, ConfirmedArrived

(* What was in memory is lost, and on record as lost.                      *)
LEMMA CrashFine ==
  ASSUME IInv, LInv, Crash
  PROVE  Fine
<1>1. /\ producer' = [m \in Messages |-> IF producer[m] = "idle" THEN "idle" ELSE "done"]
      /\ todo' = [s \in Sessions |-> <<>>]
      /\ dropped' = dropped \cup {m \in Messages \ Critical : producer[m] = "publishing"}
      /\ UNCHANGED <<queue, acks, arrived, acked, pruned>>
  BY DEF Crash
<1>2. Taken' = Taken /\ Stored' = Stored
  BY <1>1 DEF Taken, Stored
<1>3. dropped' \subseteq Taken
  BY <1>1 DEF Taken, LInv, NothingMadeUp
<1>4. NothingMadeUp'
  <2>1. todo' \in [Sessions -> Seq(Taken)]
    BY <1>1, EmptySeq
  <2> QED BY <1>1, <1>2, <1>3, <2>1 DEF LInv, NothingMadeUp
<1>5. PlainAccounted'
  BY <1>1, <1>2 DEF LInv, PlainAccounted, IInv, Places
<1>6. Grows
  BY <1>1, <1>2, <1>3 DEF LInv, NothingMadeUp, Grows
<1> QED BY <1>1, <1>4, <1>5, <1>6 DEF Fine, LInv, ConfirmedArrived

LEMMA StepFine == IInv /\ LInv /\ [Next]_vars => Fine
BY ProducerFine, CloudFine, SessionFine, LinkFine, CrashFine DEF Next

LEMMA InitLInv == Init => LInv
<1> SUFFICES ASSUME Init PROVE LInv
  OBVIOUS
<1>1. Stored = {} /\ todo \in [Sessions -> Seq(Taken)]
  BY EmptySeq DEF Init, Stored
<1> QED BY <1>1 DEF Init, LInv, NothingMadeUp, ConfirmedArrived, PlainAccounted

----------------------------------------------------------------------------
LEMMA InitLedger == Init => Ledger!Init
BY DEF Init, Ledger!Init

LEMMA StepLedger ==
  ASSUME IInv', LInv', Grows
  PROVE  [Ledger!Next]_(Ledger!ledger)
<1> DEFINE gone == {m \in Messages : producer[m] = "done" /\ m \notin Stored}
<1>1. gone \subseteq gone'
  BY DEF Grows
<1>2. gone' \subseteq arrived' \cup (pruned' \cup dropped')
  <2> SUFFICES ASSUME NEW m \in Messages, producer'[m] = "done", m \notin Stored'
               PROVE  m \in arrived' \cup (pruned' \cup dropped')
    OBVIOUS
  <2>1. CASE m \in Critical
    BY <2>1 DEF IInv, EventsHeldOrPruned, LInv, ConfirmedArrived
  <2>2. CASE m \notin Critical
    BY <2>2 DEF LInv, PlainAccounted
  <2> QED BY <2>1, <2>2
<1> QED BY <1>1, <1>2 DEF Grows, Taken, Ledger!Next, Ledger!Accept, Ledger!Deliver, Ledger!Excuse, Ledger!Forget

(* The MQTT queue keeps the promise of a store-and-forward queue: what it  *)
(* forgets has arrived, was displaced by retention, or is a message        *)
(* without acknowledgement that was given up or lost with the process.     *)
THEOREM ImplementsLedger == Spec => LedgerSpec
<1>1. IInv /\ LInv /\ [Next]_vars => IInv' /\ LInv' /\ Grows
  BY NextIInv, StepFine DEF Fine
<1>2. IInv /\ LInv /\ [Next]_vars => [Ledger!Next]_(Ledger!ledger)
  BY <1>1, StepLedger
<1> QED BY InitIInv, InitLInv, InitLedger, <1>1, <1>2, PTL DEF Spec, LedgerSpec, Ledger!Spec

----------------------------------------------------------------------------
(***************************************************************************)
(* The type invariant. Two of its parts are more than types: no message is *)
(* stored twice, which needs that a producer stores once, and not again    *)
(* what it has stored; and the attempts at a message that needs no         *)
(* acknowledgement stay within its limit and the number of sessions, since *)
(* a session that has it in hand loaded it below the limit and counts one  *)
(* attempt more at most.                                                   *)
(***************************************************************************)
Domains ==
  /\ link \in BOOLEAN /\ client \in BOOLEAN /\ ready \in BOOLEAN
  /\ pc \in [Sessions -> {"idle", "called", "dialing", "restoring", "loading", "retrying", "again"}]
  /\ seen \in [Sessions -> [Messages -> Nat]]
  /\ failed \in [Sessions -> BOOLEAN]
  /\ acks \subseteq Critical /\ acked \subseteq Critical /\ crashes \in 0 .. MaxCrashes
  /\ attempts \in [Messages -> Nat]

(* A message that its producer may yet store.                              *)
Ahead(m) == producer[m] = "idle" \/ (m \notin Critical /\ producer[m] = "publishing")

StoredOnce == IsUnique(queue) /\ \A m \in Messages : Ahead(m) => m \notin Stored

Holders(m) == {s \in Sessions : m \in RangeOf(todo[s])}
AttemptsLimited ==
  /\ \A s \in Sessions : IsUnique(todo[s])
  /\ \A m \in Critical : attempts[m] <= Long
  /\ \A m \in Messages \ Critical :
       attempts[m] + Cardinality(Holders(m)) <= Long + Cardinality(Sessions)

TInv == Domains /\ StoredOnce /\ AttemptsLimited

LEMMA SessionsFinite ==
  /\ IsFiniteSet(Sessions) /\ Cardinality(Sessions) \in Nat
  /\ \A T \in SUBSET Sessions :
       IsFiniteSet(T) /\ Cardinality(T) \in Nat /\ Cardinality(T) <= Cardinality(Sessions)
<1>1. IsFiniteSet(Sessions)
  BY BoundsAssumption, FS_AddElement DEF Sessions
<1> QED BY <1>1, FS_Subset, FS_CardinalityType

LEMMA TailsAreUnique ==
  ASSUME NEW T, NEW q \in Seq(T), q # <<>>
  PROVE  /\ RangeOf(Tail(q)) \subseteq RangeOf(q) /\ Head(q) \in RangeOf(q)
         /\ IsUnique(q) => IsUnique(Tail(q)) /\ Head(q) \notin RangeOf(Tail(q))
<1>1. /\ Len(q) \in Nat /\ Len(q) # 0 /\ Head(q) = q[1]
      /\ Len(Tail(q)) = Len(q) - 1 /\ \A i \in 1 .. Len(Tail(q)) : Tail(q)[i] = q[i + 1]
  BY LenProperties, HeadTailProperties, EmptySeq
<1>2. \A i \in 1 .. Len(Tail(q)) : i + 1 \in 1 .. Len(q) /\ i + 1 # 1
  BY <1>1
<1> QED BY <1>1, <1>2 DEF RangeOf, IsUnique

LEMMA UniqueIsCounted ==
  ASSUME NEW T, NEW q \in Seq(T), IsUnique(q)
  PROVE  Cardinality(RangeOf(q)) = Len(q)
<1>1. Len(q) \in Nat
  BY LenProperties
<1>2. IsFiniteSet(1 .. Len(q)) /\ Cardinality(1 .. Len(q)) = Len(q)
  BY <1>1, FS_Interval
<1> DEFINE f == [k \in 1 .. Len(q) |-> q[k]]
<1>3. f \in Bijection(1 .. Len(q), RangeOf(q))
  BY DEF Bijection, Injection, Surjection, IsInjective, RangeOf, IsUnique
<1>4. ExistsBijection(1 .. Len(q), RangeOf(q))
  BY <1>3 DEF ExistsBijection
<1> QED BY <1>2, <1>4, FS_Bijection

(* What a session loads, it may try.                                       *)
LEMMA ListedIsLimited ==
  ASSUME IInv, StoredOnce, NEW limit
  PROVE  /\ IsUnique(Listed(limit))
         /\ \A m \in RangeOf(Listed(limit)) :
              m \in Stored /\ ~ (m \in Messages \ Critical /\ attempts[m] >= limit)
<1> DEFINE S == {m \in Messages \ Critical : attempts[m] >= limit}
<1>1. /\ IsUnique(Without(queue, S)) /\ RangeOf(Without(queue, S)) \cap S = {}
      /\ TakenFrom(Without(queue, S), queue)
  BY WithoutKeeps DEF IInv, Rows, StoredOnce
<1>2. RangeOf(Without(queue, S)) \subseteq Stored
  BY <1>1 DEF RangeOf, TakenFrom, Stored
<1>3. Listed(limit) = Without(queue, S)
  BY DEF Listed
<1> HIDE DEF S
<1> QED BY <1>1, <1>2, <1>3 DEF S

----------------------------------------------------------------------------
(* Rows that go, while no producer comes nearer to storing.                *)
LEMMA FewerRows ==
  ASSUME IInv, StoredOnce, \A m \in Messages : Ahead(m)' => Ahead(m),
         queue' = queue \/ \E S : queue' = Without(queue, S)
  PROVE  StoredOnce'
<1>1. IsUnique(queue')
  BY WithoutKeeps DEF IInv, Rows, StoredOnce
<1>2. Stored' \subseteq Stored
  BY DeletionKeeps DEF IInv, Stored
<1> QED BY <1>1, <1>2 DEF StoredOnce

(* A producer that stores was ahead of it and is no longer.                *)
LEMMA OneRowMore ==
  ASSUME IInv, StoredOnce, NEW m \in Messages, NEW to \in {"stored", "publishing", "done"},
         Produce(m, to), Ahead(m), Store(m), m \notin Critical => to = "done"
  PROVE  StoredOnce'
<1>1. m \notin Stored
  BY DEF StoredOnce
<1>2. IsUnique(queue') /\ Stored' \subseteq Stored \cup {m}
  BY <1>1, StoreKeeps DEF IInv, StoredOnce
<1>3. producer' = [producer EXCEPT ![m] = to] /\ m \in DOMAIN producer
  BY DEF Produce, IInv, Places
<1>4. ~ Ahead(m)' /\ \A e \in Messages \ {m} : Ahead(e)' => Ahead(e)
  BY <1>3 DEF Ahead
<1> QED BY <1>2, <1>4 DEF StoredOnce

(* A producer that stores nothing.                                         *)
LEMMA NoRowMore ==
  ASSUME IInv, StoredOnce, NEW m \in Messages, NEW to \in {"stored", "publishing", "done"},
         Produce(m, to), UNCHANGED queue,
         m \notin Critical /\ to = "publishing" => producer[m] = "idle"
  PROVE  StoredOnce'
<1>1. producer' = [producer EXCEPT ![m] = to] /\ m \in DOMAIN producer
  BY DEF Produce, IInv, Places
<1>2. \A e \in Messages : Ahead(e)' => Ahead(e)
  BY <1>1 DEF Ahead
<1> QED BY <1>2, FewerRows

LEMMA ProducerTyped ==
  ASSUME IInv, LInv, TInv, NEW m \in Messages, StoreEvent(m) \/ ProducerStep(m)
  PROVE  TInv'
<1>1. UNCHANGED ProducerFrame
  BY DEF StoreEvent, ProducerStep, CheckConnection, SendPlain, PublishOk, PublishFails, ProducerFrame
<1>2. Domains' /\ AttemptsLimited'
  BY <1>1 DEF ProducerFrame, session, TInv, Domains, AttemptsLimited, Holders
<1>3. StoredOnce'
  <2>1. CASE StoreEvent(m)
    BY <2>1, OneRowMore DEF StoreEvent, TInv, Ahead
  <2>2. CASE CheckConnection(m)
    <3>1. m \in Critical
      BY <2>2 DEF CheckConnection, LInv, PlainAccounted
    <3> QED BY <2>2, <3>1, NoRowMore DEF CheckConnection, TInv
  <2>3. CASE SendPlain(m)
    BY <2>3, OneRowMore, NoRowMore DEF SendPlain, TInv, Ahead
  <2>4. CASE PublishOk(m)
    BY <2>4, NoRowMore DEF PublishOk, TInv
  <2>5. CASE PublishFails(m)
    BY <2>5, OneRowMore, NoRowMore DEF PublishFails, StoreOnFailure, TInv, Ahead
  <2> QED BY <2>1, <2>2, <2>3, <2>4, <2>5 DEF ProducerStep
<1> QED BY <1>2, <1>3 DEF TInv

LEMMA CloudTyped ==
  ASSUME IInv, LInv, TInv, NEW m \in Messages, CloudAcks(m) \/ ReceiveAck(m)
  PROVE  TInv'
<1>1. /\ UNCHANGED <<producer, link, client, ready, session, crashes>>
      /\ attempts' = attempts \/ attempts' = [attempts EXCEPT ![m] = 0]
      /\ queue' = queue \/ queue' = Without(queue, {m})
      /\ acks' \subseteq Critical /\ acked' \subseteq Critical
  BY DEF CloudAcks, ReceiveAck, Cleared, history, TInv, Domains
<1>2. Domains' /\ AttemptsLimited'
  <2>1. attempts \in [Messages -> Nat] /\ Long \in Nat /\ Critical \subseteq Messages
    BY BoundsAssumption DEF TInv, Domains
  <2>2. attempts' \in [Messages -> Nat] /\ \A e \in Messages : attempts'[e] <= attempts[e]
    BY <1>1, <2>1
  <2>3. \A e \in Messages : Holders(e)' = Holders(e) /\ Cardinality(Holders(e)) \in Nat
    BY <1>1, SessionsFinite DEF session, Holders
  <2>4. \A e \in Critical : attempts'[e] <= Long
    BY <2>1, <2>2 DEF TInv, AttemptsLimited
  <2>5. \A e \in Messages \ Critical : attempts'[e] + Cardinality(Holders(e)') <= Long + Cardinality(Sessions)
    BY <2>1, <2>2, <2>3, SessionsFinite DEF TInv, AttemptsLimited
  <2>6. \A t \in Sessions : IsUnique(todo'[t])
    BY <1>1 DEF session, TInv, AttemptsLimited
  <2>7. Domains'
    BY <1>1, <2>2 DEF session, TInv, Domains
  <2> QED BY <2>4, <2>5, <2>6, <2>7 DEF AttemptsLimited
<1>3. StoredOnce'
  BY <1>1, FewerRows DEF TInv, Ahead
<1> QED BY <1>2, <1>3 DEF TInv

(* A session is done with the first message it has in hand, and counts at  *)
(* most one attempt for it, and none of an event at the model's largest.   *)
LEMMA OneInHandLess ==
  ASSUME IInv, LInv, TInv, NEW s \in Sessions, todo[s] # <<>>,
         todo' = [todo EXCEPT ![s] = Tail(@)],
         \/ attempts' = attempts
         \/ attempts' = [attempts EXCEPT ![Head(todo[s])] = 0]
         \/ /\ Head(todo[s]) \in Critical => attempts[Head(todo[s])] # Long
            /\ attempts' = [attempts EXCEPT ![Head(todo[s])] = @ + 1]
  PROVE  AttemptsLimited' /\ attempts' \in [Messages -> Nat]
<1>0. PICK h : h = Head(todo[s])
  OBVIOUS
<1>1. todo \in [Sessions -> Seq(Taken)]
  BY DEF LInv, NothingMadeUp
<1>2. /\ RangeOf(todo'[s]) \subseteq RangeOf(todo[s]) /\ h \in RangeOf(todo[s])
      /\ IsUnique(todo'[s]) /\ h \notin RangeOf(todo'[s])
  BY <1>0, <1>1, TailsAreUnique DEF TInv, AttemptsLimited
<1>3. \A t \in Sessions \ {s} : todo'[t] = todo[t]
  BY <1>1
<1>4. \A m \in Messages : Holders(m)' \subseteq Holders(m)
  BY <1>2, <1>3 DEF Holders
<1>5. s \in Holders(h) /\ Holders(h)' \subseteq Holders(h) \ {s}
  BY <1>2, <1>3 DEF Holders
<1>6. ASSUME NEW m \in Messages
      PROVE  /\ Cardinality(Holders(m)) \in Nat /\ Cardinality(Holders(m)') \in Nat
             /\ Cardinality(Holders(m)') <= Cardinality(Holders(m))
             /\ m = h => Cardinality(Holders(m)') <= Cardinality(Holders(m)) - 1
  <2>1. Holders(m) \in SUBSET Sessions /\ Holders(m)' \in SUBSET Sessions
    BY DEF Holders
  <2>2. IsFiniteSet(Holders(m)) /\ IsFiniteSet(Holders(m) \ {s})
    BY <2>1, SessionsFinite, FS_RemoveElement
  <2>3. Cardinality(Holders(m)') <= Cardinality(Holders(m))
    BY <1>4, <2>2, FS_Subset
  <2>4. ASSUME m = h PROVE Cardinality(Holders(m)') <= Cardinality(Holders(m)) - 1
    <3>1. s \in Holders(m) /\ Holders(m)' \in SUBSET (Holders(m) \ {s})
      BY <1>5, <2>4
    <3>2. Cardinality(Holders(m) \ {s}) = Cardinality(Holders(m)) - 1
      BY <2>2, <3>1, FS_RemoveElement
    <3>3. Cardinality(Holders(m)') <= Cardinality(Holders(m) \ {s})
      BY <2>2, <3>1, FS_Subset
    <3> QED BY <3>2, <3>3
  <2> QED BY <2>1, <2>3, <2>4, SessionsFinite
<1>7. /\ attempts \in [Messages -> Nat] /\ Long \in Nat /\ Critical \subseteq Messages
      /\ h \in Messages
  <2>1. Head(todo[s]) \in Taken
    BY <1>1, HeadTailProperties
  <2> QED BY <1>0, <2>1, BoundsAssumption DEF TInv, Domains, Taken
<1>11. \/ attempts' = attempts
       \/ attempts' = [attempts EXCEPT ![h] = 0]
       \/ (h \in Critical => attempts[h] # Long) /\ attempts' = [attempts EXCEPT ![h] = @ + 1]
  BY <1>0
<1>8. ASSUME NEW m \in Messages \ Critical
      PROVE  attempts'[m] + Cardinality(Holders(m)') <= Long + Cardinality(Sessions)
  <2>1. \/ attempts'[m] \in Nat /\ attempts'[m] <= attempts[m]
        \/ m = h /\ attempts'[m] = attempts[m] + 1
    BY <1>7, <1>11
  <2>2. attempts[m] + Cardinality(Holders(m)) <= Long + Cardinality(Sessions)
    BY DEF TInv, AttemptsLimited
  <2>3. Long \in Nat /\ Cardinality(Sessions) \in Nat /\ attempts[m] \in Nat
    BY <1>7, SessionsFinite, BoundsAssumption
  <2> QED BY <1>6, <2>1, <2>2, <2>3
<1>9. attempts' \in [Messages -> Nat] /\ \A m \in Critical : attempts'[m] <= Long
  <2>1. \A m \in Critical : attempts[m] <= Long /\ attempts[m] \in Nat
    BY <1>7 DEF TInv, AttemptsLimited
  <2>2. attempts' \in [Messages -> Nat]
    BY <1>7, <1>11
  <2>3. ASSUME NEW m \in Critical PROVE attempts'[m] <= Long
    BY <1>7, <1>11, <2>1
  <2> QED BY <2>2, <2>3
<1>10. \A t \in Sessions : IsUnique(todo'[t])
  BY <1>2, <1>3 DEF TInv, AttemptsLimited
<1> QED BY <1>8, <1>9, <1>10 DEF AttemptsLimited

(* A session loads what is below its limit.                                *)
LEMMA HandsFilled ==
  ASSUME IInv, LInv, TInv, NEW s \in Sessions, NEW limit \in 1 .. Long,
         Load(s, limit), UNCHANGED attempts
  PROVE  AttemptsLimited' /\ seen' \in [Sessions -> [Messages -> Nat]]
<1>0. PICK read : read = [m \in Messages |-> IF m \in Critical THEN 0 ELSE attempts[m]]
  OBVIOUS
<1>1. todo' = [todo EXCEPT ![s] = Listed(limit)] /\ seen' = [seen EXCEPT ![s] = read]
  BY <1>0 DEF Load
<1>2. todo \in [Sessions -> Seq(Taken)] /\ attempts \in [Messages -> Nat]
      /\ seen \in [Sessions -> [Messages -> Nat]] /\ read \in [Messages -> Nat]
  BY <1>0 DEF LInv, NothingMadeUp, TInv, Domains
<1>3. \A t \in Sessions : IsUnique(todo'[t])
  BY <1>1, <1>2, ListedIsLimited DEF TInv, AttemptsLimited
<1>4. Long \in Nat \ {0} /\ limit <= Long /\ limit \in Nat
  BY BoundsAssumption
<1>5. ASSUME NEW m \in Messages \ Critical
      PROVE  attempts[m] + Cardinality(Holders(m)') <= Long + Cardinality(Sessions)
  <2>1. Holders(m)' \in SUBSET Sessions /\ Holders(m) \in SUBSET Sessions
    BY DEF Holders
  <2>2. /\ Cardinality(Holders(m)') \in Nat /\ Cardinality(Holders(m)') <= Cardinality(Sessions)
        /\ Cardinality(Holders(m)) \in Nat /\ Cardinality(Sessions) \in Nat
        /\ IsFiniteSet(Holders(m))
    BY <2>1, SessionsFinite
  <2>3. attempts[m] \in Nat
    BY <1>2
  <2>4. CASE m \in RangeOf(Listed(limit))
    <3>1. ~ (attempts[m] >= limit)
      BY <2>4, ListedIsLimited DEF TInv
    <3> QED BY <1>4, <2>2, <2>3, <3>1
  <2>5. CASE m \notin RangeOf(Listed(limit))
    <3>1. Holders(m)' \subseteq Holders(m)
      BY <1>1, <1>2, <2>5 DEF Holders
    <3>2. Cardinality(Holders(m)') <= Cardinality(Holders(m))
      BY <2>2, <3>1, FS_Subset
    <3>3. attempts[m] + Cardinality(Holders(m)) <= Long + Cardinality(Sessions)
      BY DEF TInv, AttemptsLimited
    <3> QED BY <1>4, <2>2, <2>3, <3>2, <3>3
  <2> QED BY <2>4, <2>5
<1> QED BY <1>1, <1>2, <1>3, <1>5 DEF TInv, AttemptsLimited

LEMMA SessionTyped ==
  ASSUME IInv, LInv, TInv, NEW s \in Sessions, SessionStep(s)
  PROVE  TInv'
<1>1. \A m \in Messages : Ahead(m)' = Ahead(m)
  BY DEF SessionStep, CallbackStarts, RestoreOk, RestoreFails, StartRetry, RetryOk, RetryFails,
         RetryEnds, Kept, Ahead
<1>2. pc \in [Sessions -> {"idle", "called", "dialing", "restoring", "loading", "retrying", "again"}]
      /\ failed \in [Sessions -> BOOLEAN] /\ seen \in [Sessions -> [Messages -> Nat]]
  BY DEF TInv, Domains
<1>3. CASE CallbackStarts(s) \/ RestoreOk(s) \/ RestoreFails(s)
  <2>1. /\ UNCHANGED <<Kept, link, client, ready, todo, seen, failed>>
        /\ \E l \in {"idle", "restoring", "loading"} : pc' = [pc EXCEPT ![s] = l]
    BY <1>3 DEF CallbackStarts, RestoreOk, RestoreFails, Goto
  <2>2. Domains' /\ AttemptsLimited'
    BY <1>2, <2>1 DEF Kept, history, TInv, Domains, AttemptsLimited, Holders
  <2>3. StoredOnce'
    BY <1>1, <2>1, FewerRows DEF Kept, TInv
  <2> QED BY <2>2, <2>3 DEF TInv
<1>4. CASE RetryOk(s)
  <2>1. AttemptsLimited' /\ attempts' \in [Messages -> Nat]
    BY <1>4, OneInHandLess DEF RetryOk, Working, Counted, Cleared
  <2>2. Domains'
    BY <1>4, <2>1 DEF RetryOk, TInv, Domains
  <2>3. StoredOnce'
    BY <1>1, <1>4, FewerRows DEF RetryOk, AfterPublish, TInv
  <2> QED BY <2>1, <2>2, <2>3 DEF TInv
<1>5. CASE RetryFails(s)
  <2> DEFINE m == Head(todo[s])
  <2>1. /\ todo[s] # <<>> /\ todo' = [todo EXCEPT ![s] = Tail(@)]
        /\ \/ attempts' = attempts
           \/ attempts' = [attempts EXCEPT ![m] = 0]
           \/ (m \in Critical => attempts[m] # Long) /\ attempts' = [attempts EXCEPT ![m] = @ + 1]
        /\ queue' = queue \/ queue' = Without(queue, {m})
        /\ failed' = [failed EXCEPT ![s] = TRUE]
        /\ UNCHANGED <<producer, link, client, ready, pc, seen, acks, crashes, acked>>
    BY <1>5 DEF RetryFails, Working, Counted, Cleared
  <2>3. AttemptsLimited' /\ attempts' \in [Messages -> Nat]
    BY <2>1, OneInHandLess
  <2>4. Domains'
    BY <1>2, <2>1, <2>3 DEF TInv, Domains
  <2>5. StoredOnce'
    BY <1>1, <2>1, FewerRows DEF TInv
  <2> QED BY <2>3, <2>4, <2>5 DEF TInv
<1>6. CASE StartRetry(s) \/ RetryEnds(s)
  <2>1. /\ UNCHANGED <<Kept, link, client>>
        /\ failed' = failed \/ failed' = [failed EXCEPT ![s] = FALSE]
        /\ ready' = ready \/ ready' = TRUE
        /\ \E l \in {"idle", "retrying", "again"} : pc' = [pc EXCEPT ![s] = l]
        /\ \/ \E limit \in {Long, Short} : Load(s, limit)
           \/ todo' = todo /\ seen' = [seen EXCEPT ![s] = Fresh]
    BY <1>6 DEF StartRetry, RetryEnds, Goto
  <2>2. Long \in 1 .. Long /\ Short \in 1 .. Long /\ Fresh \in [Messages -> Nat]
    BY BoundsAssumption DEF Fresh
  <2>3. attempts' = attempts
    BY <2>1 DEF Kept
  <2>4. AttemptsLimited' /\ seen' \in [Sessions -> [Messages -> Nat]]
    <3>1. CASE \E limit \in {Long, Short} : Load(s, limit)
      BY <2>2, <2>3, <3>1, HandsFilled
    <3>2. CASE todo' = todo /\ seen' = [seen EXCEPT ![s] = Fresh]
      BY <1>2, <2>2, <2>3, <3>2 DEF TInv, AttemptsLimited, Holders
    <3> QED BY <2>1, <3>1, <3>2
  <2>5. Domains'
    BY <1>2, <2>1, <2>4 DEF Kept, history, TInv, Domains
  <2>6. StoredOnce'
    BY <1>1, <2>1, FewerRows DEF Kept, TInv
  <2> QED BY <2>4, <2>5, <2>6 DEF TInv
<1> QED BY <1>3, <1>4, <1>5, <1>6 DEF SessionStep

LEMMA LinkTyped ==
  ASSUME IInv, LInv, TInv,
         LinkDrops \/ LinkReturns \/ Disconnect \/ Connect \/ DialOk \/ DialFails \/ UNCHANGED vars
  PROVE  TInv'
<1> DEFINE Where == {"idle", "called", "dialing", "restoring", "loading", "retrying", "again"}
<1>1. /\ UNCHANGED <<queue, attempts, producer, crashes, todo, seen, failed, acked>>
      /\ acks' \subseteq acks
  BY DEF LinkDrops, LinkReturns, Disconnect, Connect, DialOk, DialFails, Kept, history, session, vars
<1>2. link' \in BOOLEAN /\ client' \in BOOLEAN /\ ready' \in BOOLEAN
  BY DEF LinkDrops, LinkReturns, Disconnect, Connect, DialOk, DialFails, Kept, session, vars, TInv, Domains
<1>3. pc' \in [Sessions -> Where]
  <2>1. pc \in [Sessions -> Where] /\ Admin \in Sessions /\ Callbacks \subseteq Sessions
    BY DEF TInv, Domains, Sessions
  <2>2. CASE LinkDrops \/ Disconnect \/ UNCHANGED vars
    BY <2>1, <2>2 DEF LinkDrops, Disconnect, session, vars
  <2>3. CASE LinkReturns
    BY <2>1, <2>3 DEF LinkReturns, Goto
  <2>4. CASE Connect \/ DialFails
    BY <2>1, <2>4 DEF Connect, DialFails, Goto
  <2>5. CASE DialOk
    BY <2>1, <2>5 DEF DialOk
  <2> QED BY <2>2, <2>3, <2>4, <2>5
<1>4. Domains' /\ AttemptsLimited'
  BY <1>1, <1>2, <1>3 DEF TInv, Domains, AttemptsLimited, Holders
<1>5. StoredOnce'
  BY <1>1, FewerRows DEF TInv, Ahead
<1> QED BY <1>4, <1>5 DEF TInv

LEMMA CrashTyped ==
  ASSUME IInv, LInv, TInv, Crash
  PROVE  TInv'
<1>1. /\ producer' = [m \in Messages |-> IF producer[m] = "idle" THEN "idle" ELSE "done"]
      /\ todo' = [s \in Sessions |-> <<>>] /\ pc' = [s \in Sessions |-> "idle"]
      /\ seen' = [s \in Sessions |-> Fresh] /\ failed' = [s \in Sessions |-> FALSE]
      /\ client' = FALSE /\ ready' = FALSE /\ crashes < MaxCrashes /\ crashes' = crashes + 1
      /\ UNCHANGED <<queue, attempts, link, acks, acked>>
  BY DEF Crash
<1>2. Fresh \in [Messages -> Nat] /\ MaxCrashes \in Nat
  BY BoundsAssumption DEF Fresh
<1>3. Domains'
  <2>1. crashes' \in 0 .. MaxCrashes
    BY <1>1, <1>2 DEF TInv, Domains
  <2>2. /\ seen' \in [Sessions -> [Messages -> Nat]] /\ failed' \in [Sessions -> BOOLEAN]
        /\ pc' \in [Sessions -> {"idle", "called", "dialing", "restoring", "loading", "retrying", "again"}]
    BY <1>1, <1>2
  <2> QED BY <1>1, <2>1, <2>2 DEF TInv, Domains
<1>4. ASSUME NEW m \in Messages
      PROVE  Holders(m)' \subseteq Holders(m)
  BY <1>1, EmptySeq DEF Holders, RangeOf
<1>5. ASSUME NEW m \in Messages \ Critical
      PROVE  attempts[m] + Cardinality(Holders(m)') <= Long + Cardinality(Sessions)
  <2>1. Holders(m) \in SUBSET Sessions /\ Holders(m)' \in SUBSET Sessions
    BY DEF Holders
  <2>2. IsFiniteSet(Holders(m))
    BY <2>1, SessionsFinite
  <2>3. Cardinality(Holders(m)') <= Cardinality(Holders(m))
    BY <1>4, <2>2, FS_Subset
  <2>4. attempts[m] \in Nat /\ attempts[m] + Cardinality(Holders(m)) <= Long + Cardinality(Sessions)
    BY DEF TInv, Domains, AttemptsLimited
  <2> QED BY <2>1, <2>3, <2>4, SessionsFinite, BoundsAssumption
<1>6. AttemptsLimited'
  <2>1. \A s \in Sessions : IsUnique(todo'[s])
    BY <1>1, EmptySeq DEF IsUnique
  <2> QED BY <1>1, <1>5, <2>1 DEF TInv, AttemptsLimited
<1>7. StoredOnce'
  <2>1. \A m \in Messages : Ahead(m)' => Ahead(m)
    BY <1>1 DEF Ahead
  <2> QED BY <1>1, <2>1, FewerRows DEF TInv
<1> QED BY <1>3, <1>6, <1>7 DEF TInv

LEMMA InitTInv == Init => TInv
<1> SUFFICES ASSUME Init PROVE TInv
  OBVIOUS
<1>1. Fresh \in [Messages -> Nat] /\ \A m \in Messages : Fresh[m] = 0
  BY DEF Fresh
<1>2. Len(<<>>) = 0
  BY EmptySeq
<1>3. Domains
  <2>1. /\ seen \in [Sessions -> [Messages -> Nat]] /\ failed \in [Sessions -> BOOLEAN]
        /\ pc \in [Sessions -> {"idle", "called", "dialing", "restoring", "loading", "retrying", "again"}]
    BY <1>1 DEF Init
  <2>2. crashes \in 0 .. MaxCrashes /\ attempts \in [Messages -> Nat]
    BY <1>1, BoundsAssumption DEF Init
  <2>3. /\ link \in BOOLEAN /\ client \in BOOLEAN /\ ready \in BOOLEAN
        /\ acks \subseteq Critical /\ acked \subseteq Critical
    BY DEF Init
  <2> QED BY <2>1, <2>2, <2>3 DEF Domains
<1>4. StoredOnce
  BY <1>2 DEF Init, StoredOnce, IsUnique, Stored
<1>5. \A m \in Messages : Holders(m) = {}
  BY <1>2 DEF Init, Holders, RangeOf
<1>6. AttemptsLimited
  BY <1>1, <1>2, <1>5, BoundsAssumption, SessionsFinite, FS_EmptySet DEF Init, AttemptsLimited, IsUnique
<1> QED BY <1>3, <1>4, <1>6 DEF TInv

LEMMA TypesFollow == IInv /\ LInv /\ TInv => TypeOK
<1> SUFFICES ASSUME IInv, LInv, TInv PROVE TypeOK
  OBVIOUS
<1>1. Stored \subseteq Messages /\ Taken \subseteq Messages
  BY DEF LInv, NothingMadeUp, Taken
<1>2. queue \in Seq(Messages) /\ Cardinality(Stored) = Len(queue)
  <2>1. queue \in Seq(Stored) /\ Stored = RangeOf(queue)
    BY DEF IInv, Rows, Stored, RangeOf
  <2> QED BY <1>1, <2>1, SeqGrows, UniqueIsCounted DEF TInv, StoredOnce
<1>3. todo \in [Sessions -> Seq(Messages)]
  <2>1. todo \in [Sessions -> Seq(Taken)] /\ Seq(Taken) \subseteq Seq(Messages)
    BY <1>1, SeqGrows DEF LInv, NothingMadeUp
  <2> QED BY <2>1
<1>4. /\ attempts \in [Messages -> Nat] /\ \A m \in Critical : attempts[m] <= Long
      /\ \A m \in Messages \ Critical : attempts[m] <= Long + Cardinality(Sessions)
  <2>1. ASSUME NEW m \in Messages \ Critical PROVE attempts[m] <= Long + Cardinality(Sessions)
    <3>1. Cardinality(Holders(m)) \in Nat
      BY SessionsFinite DEF Holders
    <3>2. attempts[m] \in Nat /\ attempts[m] + Cardinality(Holders(m)) <= Long + Cardinality(Sessions)
      BY DEF TInv, Domains, AttemptsLimited
    <3> QED BY <3>1, <3>2, SessionsFinite, BoundsAssumption
  <2> QED BY <2>1 DEF TInv, Domains, AttemptsLimited
<1>5. arrived \subseteq Messages /\ pruned \subseteq Messages /\ dropped \subseteq Messages
  BY <1>1 DEF LInv, NothingMadeUp
<1> QED BY <1>2, <1>3, <1>4, <1>5 DEF TypeOK, TInv, Domains, IInv, Places

(* Every reachable state has its type: no message is in the table twice,   *)
(* however often it is stored, retried and given up, and no message        *)
(* without acknowledgement is tried more often than its limit and the      *)
(* number of sessions allow.  (An event is tried until it is confirmed.)   *)
THEOREM TypeCorrect == Spec => []TypeOK
<1>1. IInv /\ LInv /\ TInv /\ [Next]_vars => IInv' /\ LInv' /\ TInv'
  BY NextIInv, StepFine, ProducerTyped, CloudTyped, SessionTyped, LinkTyped, CrashTyped DEF Fine, Next
<1> QED BY InitIInv, InitLInv, InitTInv, TypesFollow, <1>1, PTL DEF Spec

=============================================================================
