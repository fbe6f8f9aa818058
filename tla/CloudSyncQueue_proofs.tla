----------------------- MODULE CloudSyncQueue_proofs -----------------------
(***************************************************************************)
(* A row of the synchronisation queue says "sent" only if the cloud has    *)
(* the event: for any number of events, callers, identities, faults and    *)
(* identity changes.                                                       *)
(*                                                                         *)
(* The promise is not inductive: between the answer and the write for the  *)
(* last item of a batch a caller works through what it has left of it, so  *)
(* the invariant adds that an answer that counts as a success is one the   *)
(* cloud gave for every item still in the caller's hands.                  *)
(***************************************************************************)
EXTENDS CloudSyncQueue, FiniteSetTheorems, SequenceTheorems, TLAPS

Owners == Edges \cup {None}
Row == [status : Stored \cup {"none", "gone"}, owner : Owners, due : BOOLEAN]

Typed ==
  /\ row \in [Items -> Row] /\ lastItem \in Nat
  /\ identity \in Owners /\ config \in Owners /\ loaded \in [Producers -> Owners]
  /\ pc \in [Callers -> {"idle", "loop", "sending", "marking"}]
  /\ outcome \in [Callers -> {"none", "ok", "conflict", "error"}]
  /\ groups \in [Callers -> Seq(SUBSET Items)]
  /\ \A c \in Callers : pc[c] # "idle" => groups[c] # <<>>

AnswerBacked(c) ==
  outcome[c] \in {"ok", "conflict"} => pc[c] = "marking" /\ Batch(c) \subseteq applied

IInv ==
  /\ Typed
  /\ \A c \in Callers : AnswerBacked(c)
  /\ SentWasApplied

----------------------------------------------------------------------------
(* What the helpers return.                                                *)

LEMMA WithoutType ==
  ASSUME NEW r \in [Items -> Row], NEW gone
  PROVE  /\ Without(r, gone) \in [Items -> Row]
         /\ \A i \in Items : Without(r, gone)[i].status = "sent" => r[i].status = "sent"
BY DEF Without, Row

LEMMA MarkType ==
  ASSUME Typed, NEW i \in Items, NEW ok \in BOOLEAN
  PROVE  /\ Mark(i, ok) \in [Items -> Row]
         /\ \A j \in Items : Mark(i, ok)[j].status = "sent" => row[j].status = "sent" \/ (j = i /\ ok)
<1> DEFINE new == [row[i] EXCEPT !.status = IF ok THEN "sent" ELSE "failed", !.due = ok]
<1>1. row \in [Items -> Row] /\ row[i] \in Row
  BY DEF Typed
<1>2. new \in Row /\ (new.status = "sent" => ok)
  BY <1>1 DEF Row, Stored, Unsent
<1>3. Mark(i, ok) = IF row[i].status \notin Stored THEN row ELSE [row EXCEPT ![i] = new]
  BY <1>1 DEF Mark
<1> HIDE DEF new
<1> QED BY <1>1, <1>2, <1>3

LEMMA BatchesType ==
  ASSUME NEW S \in SUBSET Items, S # {}
  PROVE  Batches(S) \in Seq(SUBSET S) /\ Batches(S) # <<>>
<1> DEFINE edges == {Resolve(i) : i \in S}
           f == [i \in S |-> Resolve(i)]
           of(e) == {i \in S : Resolve(i) = e}
           rank(e) == Cardinality({g \in edges : g = e \/ Before(FirstOf(of(g)), FirstOf(of(e)))})
           n == Cardinality(edges)
<1>1. IsFiniteSet(S)
  <2>1. MaxItems \in Int /\ 1 \in Int
    BY BoundsAssumption
  <2>2. IsFiniteSet(Items)
    BY <2>1, FS_Interval DEF Items
  <2> QED BY <2>2, FS_Subset
<1>2. f \in Surjection(S, edges)
  <2>1. f \in [S -> edges]
    OBVIOUS
  <2>2. \A e \in edges : \E i \in S : f[i] = e
    OBVIOUS
  <2> HIDE DEF f, edges
  <2> QED BY <2>1, <2>2 DEF Surjection
<1>3. IsFiniteSet(edges)
  <2> HIDE DEF edges, f
  <2> QED BY <1>1, <1>2, FS_Surjection
<1>4. n \in Nat /\ n # 0
  <2>1. edges # {}
    OBVIOUS
  <2> HIDE DEF edges
  <2> QED BY <1>3, <2>1, FS_CardinalityType, FS_EmptySet
<1>5. Batches(S) = [k \in 1 .. n |-> of(CHOOSE e \in edges : rank(e) = k)]
  BY DEF Batches
<1>6. \A e : of(e) \in SUBSET S
  OBVIOUS
<1> HIDE DEF edges, of, rank, n
<1>7. Batches(S) \in [1 .. n -> SUBSET S]
  BY <1>5, <1>6
<1>8. Batches(S) \in Seq(SUBSET S)
  BY <1>4, <1>7, SeqDef
<1>9. DOMAIN Batches(S) = 1 .. n
  BY <1>5
<1>10. DOMAIN <<>> = {}
  OBVIOUS
<1>11. 1 \in 1 .. n
  BY <1>4
<1> QED BY <1>8, <1>9, <1>10, <1>11

(* The front of what is left after an item of the first batch.             *)
LEMMA RestType ==
  ASSUME NEW g \in Seq(SUBSET Items), g # <<>>, NEW i
  PROVE  LET rest == <<Head(g) \ {i}>> \o Tail(g)
         IN  rest \in Seq(SUBSET Items) /\ rest # <<>> /\ Head(rest) = Head(g) \ {i}
<1> DEFINE b == Head(g) \ {i}
<1>1. Head(g) \in SUBSET Items /\ Tail(g) \in Seq(SUBSET Items)
  BY HeadTailProperties
<1>2. <<b>> \in Seq(SUBSET Items) /\ Len(<<b>>) = 1 /\ <<b>>[1] = b
  BY <1>1
<1> HIDE DEF b
<1>3. <<b>> \o Tail(g) \in Seq(SUBSET Items)
  BY <1>1, <1>2, ConcatProperties
<1>4. Len(<<b>> \o Tail(g)) = 1 + Len(Tail(g)) /\ Len(Tail(g)) \in Nat
  BY <1>1, <1>2, ConcatProperties, LenProperties
<1>5. (<<b>> \o Tail(g))[1] = b
  BY <1>1, <1>2
<1>6. <<b>> \o Tail(g) # <<>>
  BY <1>4
<1>7. Head(<<b>> \o Tail(g)) = b
  BY <1>5
<1> QED BY <1>3, <1>6, <1>7 DEF b

----------------------------------------------------------------------------

LEMMA InitIInv == Init => IInv
BY EmptySeq DEF Init, IInv, Typed, Row, Owners, Stored, Unsent, AnswerBacked, SentWasApplied

(* Steps that leave the callers and the cloud alone, and say "sent" of no  *)
(* further row.                                                            *)
LEMMA RowsOnly ==
  ASSUME IInv, UNCHANGED <<callers, applied>>,
         row' \in [Items -> Row], lastItem' \in Nat,
         identity' \in Owners, config' \in Owners, loaded' \in [Producers -> Owners],
         \A i \in Items : row'[i].status = "sent" => row[i].status = "sent"
  PROVE  IInv'
BY DEF IInv, Typed, AnswerBacked, Batch, SentWasApplied, callers

LEMMA ProducerStep ==
  ASSUME IInv, NEW p \in Producers, LoadIdentity(p) \/ Enqueue(p)
  PROVE  IInv'
<1> USE DEF IInv, Typed
<1>1. CASE LoadIdentity(p)
  BY <1>1, RowsOnly DEF LoadIdentity, history, bounds
<1>2. CASE Enqueue(p)
  <2> DEFINE new == [status |-> "pending", owner |-> loaded[p], due |-> TRUE]
             created == [row EXCEPT ![lastItem + 1] = new]
  <2>1. new \in Row /\ new.status # "sent"
    BY DEF Row, Owners, Stored, Unsent
  <2>2. created \in [Items -> Row]
    BY <2>1
  <2>3. \A i \in Items : created[i].status = "sent" => row[i].status = "sent"
    BY <2>1
  <2>4. PICK aged : row' = Pruned(created, aged)
    BY <1>2 DEF Enqueue
  <2> HIDE DEF created
  <2>5. /\ row' \in [Items -> Row]
        /\ \A i \in Items : row'[i].status = "sent" => created[i].status = "sent"
    BY <2>2, <2>4, WithoutType DEF Pruned
  <2>6. /\ lastItem' \in Nat /\ identity' \in Owners /\ config' \in Owners
        /\ loaded' \in [Producers -> Owners] /\ UNCHANGED <<callers, applied>>
    BY <1>2 DEF Enqueue, Owners, history
  <2> QED BY <2>3, <2>5, <2>6, RowsOnly
<1> QED BY <1>1, <1>2

(* A caller loads a batch or is cut short: no answer is in its hands.      *)
LEMMA CallerOnly ==
  ASSUME IInv, NEW c \in Callers,
         UNCHANGED <<row, lastItem, identity, config, loaded, applied>>,
         NEW place \in {"idle", "loop"}, pc' = [pc EXCEPT ![c] = place],
         NEW g \in Seq(SUBSET Items), groups' = [groups EXCEPT ![c] = g],
         place # "idle" => g # <<>>,
         (outcome' = outcome /\ pc[c] = "idle") \/ outcome' = [outcome EXCEPT ![c] = "none"]
  PROVE  IInv'
<1>1. Typed'
  BY DEF IInv, Typed
<1>2. ASSUME NEW d \in Callers PROVE AnswerBacked(d)'
  BY DEF IInv, Typed, AnswerBacked, Batch
<1>3. SentWasApplied'
  BY DEF IInv, SentWasApplied
<1> QED BY <1>1, <1>2, <1>3 DEF IInv

LEMMA RequestStep ==
  ASSUME IInv,
         \/ \E f \in Flushers : StartFlush(f)
         \/ \E r \in Retriers, i \in Items : StartRetry(r, i)
         \/ \E c \in Callers : Interrupt(c)
  PROVE  IInv'
<1>1. ASSUME NEW f \in Flushers, StartFlush(f) PROVE IInv'
  <2>1. Loadable \in SUBSET Items /\ Loadable # {}
    BY <1>1 DEF StartFlush, Loadable, Ready
  <2>2. Batches(Loadable) \in Seq(SUBSET Items) /\ Batches(Loadable) # <<>>
    BY <2>1, BatchesType, SeqMonotonic, SUBSET Loadable \subseteq SUBSET Items
  <2>3. f \in Callers
    BY DEF Callers
  <2> QED BY <1>1, <2>2, <2>3, CallerOnly DEF StartFlush, producing, history
<1>2. ASSUME NEW r \in Retriers, NEW i \in Items, StartRetry(r, i) PROVE IInv'
  <2>1. <<{i}>> \in Seq(SUBSET Items) /\ <<{i}>> # <<>>
    OBVIOUS
  <2>2. r \in Callers
    BY DEF Callers
  <2> QED BY <1>2, <2>1, <2>2, CallerOnly DEF StartRetry, producing, history
<1>3. ASSUME NEW c \in Callers, Interrupt(c) PROVE IInv'
  BY <1>3, CallerOnly, EmptySeq DEF Interrupt, producing, history
<1> QED BY <1>1, <1>2, <1>3

(* Before an answer there is none; afterwards it is backed for the whole   *)
(* batch, which the cloud then has.                                        *)
LEMMA SendStep ==
  ASSUME IInv, NEW c \in Callers, BeginSend(c) \/ Accepted(c) \/ Conflict(c) \/ Refused(c)
  PROVE  IInv'
<1> USE DEF IInv, Typed
<1>1. CASE BeginSend(c)
  <2>1. UNCHANGED <<row, lastItem, identity, config, loaded, applied, groups>>
    BY <1>1 DEF BeginSend, producing, history
  <2>2. pc[c] = "loop"
    BY <1>1 DEF BeginSend
  <2>3. \/ pc' = [pc EXCEPT ![c] = "sending"] /\ UNCHANGED outcome
        \/ pc' = [pc EXCEPT ![c] = "marking"] /\ outcome' = [outcome EXCEPT ![c] = "error"]
    BY <1>1 DEF BeginSend
  <2>4. Typed' /\ SentWasApplied'
    BY <2>1, <2>2, <2>3 DEF SentWasApplied
  <2>5. ASSUME NEW d \in Callers PROVE AnswerBacked(d)'
    BY <2>1, <2>2, <2>3 DEF AnswerBacked, Batch
  <2> QED BY <2>4, <2>5
<1>2. ASSUME NEW result \in {"ok", "conflict", "error"}, NEW now, pc[c] = "sending",
             Answer(c, result, now), applied \subseteq now,
             result # "error" => Batch(c) \subseteq now
      PROVE  IInv'
  <2>1. /\ UNCHANGED <<row, lastItem, identity, config, loaded, groups>>
        /\ pc' = [pc EXCEPT ![c] = "marking"] /\ outcome' = [outcome EXCEPT ![c] = result]
        /\ applied' = now
    BY <1>2 DEF Answer, producing
  <2>2. Typed' /\ SentWasApplied'
    BY <1>2, <2>1 DEF SentWasApplied
  <2>3. ASSUME NEW d \in Callers PROVE AnswerBacked(d)'
    BY <1>2, <2>1 DEF AnswerBacked, Batch
  <2> QED BY <2>2, <2>3
<1>3. CASE Accepted(c)
  BY <1>2, <1>3 DEF Accepted
<1>4. CASE Conflict(c)
  BY <1>2, <1>4 DEF Conflict
<1>5. CASE Refused(c)
  BY <1>2, <1>5 DEF Refused
<1> QED BY <1>1, <1>3, <1>4, <1>5

(* The write for an item: "sent" is written only of an item of the batch   *)
(* the cloud has answered for.                                             *)
LEMMA RecordStep ==
  ASSUME IInv, NEW c \in Callers, NEW i \in Items, Record(c, i)
  PROVE  IInv'
<1> DEFINE g == groups[c]
           rest == <<Head(g) \ {i}>> \o Tail(g)
<1>1. Typed /\ SentWasApplied /\ \A d \in Callers : AnswerBacked(d)
  BY DEF IInv
<1>2. /\ pc[c] = "marking" /\ i \in Batch(c)
      /\ g \in Seq(SUBSET Items) /\ g # <<>>
      /\ UNCHANGED <<lastItem, identity, config, loaded, applied>>
  BY <1>1 DEF Typed, Record, producing
<1>3. Succeeded(c) \in BOOLEAN /\ (Succeeded(c) => i \in applied)
  BY <1>1, <1>2 DEF Succeeded, AnswerBacked
<1>4. row' = row \/ row' = Mark(i, Succeeded(c))
  BY DEF Record
<1>5. row' \in [Items -> Row] /\ SentWasApplied'
  BY <1>1, <1>2, <1>3, <1>4, MarkType DEF Typed, SentWasApplied
<1>6. rest \in Seq(SUBSET Items) /\ rest # <<>> /\ Head(rest) = Batch(c) \ {i}
  BY <1>2, RestType DEF Batch
<1>7. Tail(g) \in Seq(SUBSET Items)
  BY <1>2, HeadTailProperties
<1>8. \/ /\ groups' = [groups EXCEPT ![c] = rest] /\ UNCHANGED <<pc, outcome>>
      \/ /\ groups' = [groups EXCEPT ![c] = Tail(g)]
         /\ pc' = [pc EXCEPT ![c] = IF Tail(g) = <<>> THEN "idle" ELSE "loop"]
         /\ outcome' = [outcome EXCEPT ![c] = "none"]
  BY <1>1 DEF Typed, Record, Advance, Batch
<1> HIDE DEF rest
<1>9. Typed'
  <2>1. groups \in [Callers -> Seq(SUBSET Items)] /\ rest \in Seq(SUBSET Items) /\ rest # <<>>
    BY <1>1, <1>6 DEF Typed
  <2> DEFINE front == Tail(g)
             place == IF front = <<>> THEN "idle" ELSE "loop"
  <2>2. front \in Seq(SUBSET Items) /\ (place # "idle" => front # <<>>)
        /\ place \in {"idle", "loop"}
    BY <1>7
  <2>3. \/ groups' = [groups EXCEPT ![c] = rest] /\ UNCHANGED <<pc, outcome>>
        \/ /\ groups' = [groups EXCEPT ![c] = front] /\ pc' = [pc EXCEPT ![c] = place]
           /\ outcome' = [outcome EXCEPT ![c] = "none"]
    BY <1>8
  <2> HIDE DEF front, place, g
  <2>4. groups' \in [Callers -> Seq(SUBSET Items)]
    BY <2>1, <2>2, <2>3
  <2>5. \A d \in Callers : pc'[d] # "idle" => groups'[d] # <<>>
    BY <1>1, <2>1, <2>2, <2>3 DEF Typed
  <2>6. /\ pc' \in [Callers -> {"idle", "loop", "sending", "marking"}]
        /\ outcome' \in [Callers -> {"none", "ok", "conflict", "error"}]
    BY <1>1, <2>2, <2>3 DEF Typed
  <2> QED BY <1>1, <1>2, <1>5, <2>4, <2>5, <2>6 DEF Typed
<1>10. ASSUME NEW d \in Callers PROVE AnswerBacked(d)'
  BY <1>1, <1>2, <1>6, <1>8 DEF AnswerBacked, Batch, Typed
<1> QED BY <1>5, <1>9, <1>10 DEF IInv

LEMMA RowStep ==
  ASSUME IInv, NEW i \in Items, BackoffEnds(i) \/ Delete(i)
  PROVE  IInv'
<1> USE DEF IInv, Typed
<1>1. CASE BackoffEnds(i)
  <2>1. row' \in [Items -> Row] /\ \A j \in Items : row'[j].status = row[j].status
    <3>1. row' = [row EXCEPT ![i] = [row[i] EXCEPT !.due = TRUE]]
      BY <1>1 DEF BackoffEnds
    <3>2. row[i] \in Row
      OBVIOUS
    <3>3. [row[i] EXCEPT !.due = TRUE] \in Row /\ [row[i] EXCEPT !.due = TRUE].status = row[i].status
      BY <3>2 DEF Row
    <3> QED BY <3>1, <3>3
  <2> QED BY <1>1, <2>1, RowsOnly DEF BackoffEnds, producing, history
<1>2. CASE Delete(i)
  BY <1>2, WithoutType, RowsOnly DEF Delete, producing
<1> QED BY <1>1, <1>2

LEMMA IdentityStep ==
  ASSUME IInv, Pair \/ PairConnects \/ Remove \/ Refresh \/ Discard
  PROVE  IInv'
<1> USE DEF IInv, Typed
<1>1. CASE Discard
  BY <1>1, WithoutType, RowsOnly DEF Discard, DiscardForeign
<1>2. CASE Pair \/ PairConnects \/ Remove \/ Refresh
  <2>1. /\ identity' \in Owners /\ config' \in Owners
        /\ UNCHANGED <<row, lastItem, loaded, callers, applied>>
    BY <1>2 DEF Pair, PairConnects, Remove, Refresh, Owners, history
  <2> QED BY <2>1, RowsOnly
<1> QED BY <1>1, <1>2

(* Nothing is in any caller's hands after a restart.                       *)
LEMMA RestartStep ==
  ASSUME IInv, Restart
  PROVE  IInv'
<1>1. /\ row' \in [Items -> Row] /\ applied' = applied
      /\ \A i \in Items : row'[i].status = "sent" => row[i].status = "sent"
  BY WithoutType DEF IInv, Typed, Restart, DiscardForeign, history
<1>2. Typed'
  BY <1>1, EmptySeq DEF IInv, Typed, Restart, Owners
<1>3. ASSUME NEW c \in Callers PROVE AnswerBacked(c)'
  BY DEF Restart, AnswerBacked
<1> QED BY <1>1, <1>2, <1>3 DEF IInv, SentWasApplied

LEMMA NextIInv == IInv /\ [Next]_vars => IInv'
<1> SUFFICES ASSUME IInv, [Next]_vars PROVE IInv'
  OBVIOUS
<1>1. CASE UNCHANGED vars
  BY <1>1 DEF IInv, Typed, AnswerBacked, Batch, SentWasApplied, vars, producing, callers, history
<1>2. CASE Next
  BY <1>2, ProducerStep, RequestStep, SendStep, RecordStep, RowStep, IdentityStep, RestartStep
     DEF Next, CallerStep
<1> QED BY <1>1, <1>2

----------------------------------------------------------------------------
(* "sent" is true: whatever overlaps, fails, is answered twice or changes  *)
(* its identity, the cloud has every event whose row says so.              *)
THEOREM SentIsApplied == Spec => []SentWasApplied
<1>1. IInv => SentWasApplied
  BY DEF IInv
<1> QED BY InitIInv, NextIInv, <1>1, PTL DEF Spec

-----------------------------------------------------------------------------
(***************************************************************************)
(* The synchronisation queue implements AtLeastOnce, for any number of     *)
(* events, callers, identities, faults and restarts.                       *)
(*                                                                         *)
(* Retention takes "sent" and "failed" rows, so beside SentWasApplied the  *)
(* invariant keeps that a failed row has a failed attempt on record; and   *)
(* callers hold rows that were created, and no others.                     *)
(***************************************************************************)

Known == 1 .. lastItem
Excused == deleted \cup disowned \cup refused

NothingMadeUp ==
  /\ \A c \in Callers : groups[c] \in Seq(SUBSET Known)
  /\ applied \cup Excused \subseteq Known
  /\ \A i \in Items : i \notin Known => row[i].status = "none"

EndsBacked ==
  \A i \in Items : /\ row[i].status = "failed" => i \in refused
                   /\ row[i].status = "gone" => i \in applied \cup Excused

(* What a step may do to the ledger.                                       *)
Grows ==
  /\ applied \subseteq applied' /\ Excused \subseteq Excused'
  /\ \A i \in Items : row[i].status = "gone" => row'[i].status = "gone"
  /\ \/ lastItem' = lastItem
     \/ lastItem' = lastItem + 1 /\ lastItem + 1 \in Items /\ UNCHANGED history

Sound == NothingMadeUp /\ EndsBacked
Fine == Sound' /\ Grows

----------------------------------------------------------------------------

LEMMA Exists ==
  ASSUME NothingMadeUp, NEW i \in Items, row[i].status # "none"
  PROVE  i \in Known
BY DEF NothingMadeUp

(* A step that creates no row.                                             *)
LEMMA NoNewRow ==
  ASSUME Typed, Sound, lastItem' = lastItem,
         \A i \in Items :
           \/ row'[i].status = row[i].status
           \/ /\ row[i].status \in Stored
              /\ row'[i].status = "failed" => i \in refused'
              /\ row'[i].status = "gone" => i \in applied' \cup Excused',
         applied \subseteq applied', refused \subseteq refused',
         disowned \subseteq disowned', deleted \subseteq deleted',
         applied' \cup Excused' \subseteq Known,
         \A c \in Callers : groups'[c] \in Seq(SUBSET Known)
  PROVE  Fine
<1>1. Known' = Known /\ Excused \subseteq Excused'
  BY DEF Known, Excused
<1>2. "gone" \notin Stored /\ "none" \notin Stored
  BY DEF Stored, Unsent
<1>3. Grows
  BY <1>1, <1>2 DEF Grows
<1>4. NothingMadeUp'
  BY <1>1, <1>2 DEF Sound, NothingMadeUp
<1>5. EndsBacked'
  BY <1>1 DEF Sound, EndsBacked
<1> QED BY <1>3, <1>4, <1>5 DEF Fine, Sound

LEMMA NothingHappens ==
  ASSUME Typed, Sound, UNCHANGED <<row, lastItem, groups, history>>
  PROVE  Fine
BY NoNewRow DEF Sound, NothingMadeUp, history, Excused

LEMMA WithoutEffect ==
  ASSUME Typed, NEW gone
  PROVE  \A i \in Items : Without(row, gone)[i].status = IF i \in gone THEN "gone" ELSE row[i].status
BY DEF Typed, Without, Row

(* Creation, with the retention behind it.                                 *)
LEMMA EnqueueFine ==
  ASSUME IInv, Sound, NEW p \in Producers, Enqueue(p)
  PROVE  Fine
<1> DEFINE new == [status |-> "pending", owner |-> loaded[p], due |-> TRUE]
           created == [row EXCEPT ![lastItem + 1] = new]
<1>1. PICK aged \in SUBSET Prunable(created) : row' = Pruned(created, aged)
  BY DEF Enqueue
<1>2. /\ lastItem' = lastItem + 1 /\ lastItem \in Nat /\ lastItem + 1 \in Items
      /\ UNCHANGED history /\ UNCHANGED groups
  BY BoundsAssumption DEF Enqueue, IInv, Typed, Items, callers
<1>3. new \in Row /\ new.status = "pending"
  BY DEF IInv, Typed, Row, Owners, Stored, Unsent
<1>4. created \in [Items -> Row] /\ created[lastItem + 1].status = "pending"
      /\ \A i \in Items \ {lastItem + 1} : created[i] = row[i]
  BY <1>2, <1>3 DEF IInv, Typed
<1> HIDE DEF created
<1>5. ASSUME NEW i \in Items
      PROVE  \/ row'[i].status = created[i].status
             \/ created[i].status \in {"sent", "failed"} /\ row'[i].status = "gone"
  <2> DEFINE out == Surplus(created, "sent") \cup Surplus(created, "failed") \cup aged
  <2>1. i \in out => created[i].status \in {"sent", "failed"}
    BY <1>1 DEF Surplus, With, Prunable
  <2>2. row' = Without(created, out)
    BY <1>1 DEF Pruned
  <2> HIDE DEF out
  <2> QED BY <1>4, <2>1, <2>2 DEF Without, Row
<1>6. Known' = Known \cup {lastItem + 1} /\ lastItem + 1 \notin Known /\ Excused' = Excused
  BY <1>2 DEF Known, Excused, history
<1>7. row[lastItem + 1].status = "none"
  BY <1>2, <1>6 DEF Sound, NothingMadeUp
<1>8. Grows
  BY <1>2, <1>4, <1>5, <1>6, <1>7 DEF Grows, history
<1>9. NothingMadeUp'
  <2>1. \A c \in Callers : groups'[c] \in Seq(SUBSET Known')
    <3>1. SUBSET Known \subseteq SUBSET (Known')
      BY <1>6
    <3> QED BY <1>2, <3>1, SeqMonotonic DEF Sound, NothingMadeUp
  <2>2. applied' \cup Excused' \subseteq Known'
    BY <1>2, <1>6 DEF Sound, NothingMadeUp, history
  <2>3. ASSUME NEW i \in Items, i \notin Known' PROVE row'[i].status = "none"
    BY <1>4, <1>5, <1>6, <2>3 DEF Sound, NothingMadeUp
  <2> QED BY <2>1, <2>2, <2>3 DEF NothingMadeUp
<1>10. ASSUME NEW i \in Items
       PROVE  /\ row'[i].status = "failed" => i \in refused'
              /\ row'[i].status = "gone" => i \in applied' \cup Excused'
  <2>1. created[i].status # "pending" => created[i].status = row[i].status
    BY <1>4
  <2>2. row[i].status = "sent" => i \in applied
    BY DEF IInv, SentWasApplied
  <2>3. refused' = refused /\ applied' = applied /\ refused \subseteq Excused
    BY <1>2 DEF history, Excused
  <2> QED BY <1>4, <1>5, <1>6, <2>1, <2>2, <2>3 DEF Sound, EndsBacked
<1> QED BY <1>8, <1>9, <1>10 DEF Fine, Sound, EndsBacked

(* What a request takes up has been created.                               *)
LEMMA RequestFine ==
  ASSUME Typed, Sound,
         \/ \E f \in Flushers : StartFlush(f)
         \/ \E r \in Retriers, i \in Items : StartRetry(r, i)
         \/ \E c \in Callers : Interrupt(c)
  PROVE  Fine
<1>1. PICK c \in Callers, g \in Seq(SUBSET Known) : groups' = [groups EXCEPT ![c] = g]
  <2>1. ASSUME NEW f \in Flushers, StartFlush(f)
        PROVE  f \in Callers /\ Batches(Loadable) \in Seq(SUBSET Known)
    <3>1. Loadable \in SUBSET Items /\ Loadable # {} /\ Loadable \subseteq Known
      BY <2>1, Exists DEF StartFlush, Loadable, Ready, Unsent, Sound
    <3>2. SUBSET Loadable \subseteq SUBSET Known
      BY <3>1
    <3> QED BY <3>1, <3>2, BatchesType, SeqMonotonic DEF Callers
  <2>2. ASSUME NEW r \in Retriers, NEW i \in Items, StartRetry(r, i)
        PROVE  r \in Callers /\ <<{i}>> \in Seq(SUBSET Known)
    <3>1. i \in Known
      BY <2>2, Exists DEF StartRetry, Unsent, Sound
    <3> QED BY <3>1 DEF Callers
  <2>3. <<>> \in Seq(SUBSET Known)
    BY EmptySeq
  <2> QED BY <2>1, <2>2, <2>3 DEF StartFlush, StartRetry, Interrupt
<1>2. UNCHANGED <<row, lastItem, history>>
  BY DEF StartFlush, StartRetry, Interrupt
<1>3. \A d \in Callers : groups'[d] \in Seq(SUBSET Known)
  BY <1>1 DEF Sound, NothingMadeUp, Typed
<1>4. applied' \cup Excused' \subseteq Known
  BY <1>2 DEF Sound, NothingMadeUp, Excused, history
<1> QED BY <1>2, <1>3, <1>4, NoNewRow DEF history

LEMMA SendFine ==
  ASSUME Typed, Sound, NEW c \in Callers, BeginSend(c) \/ Accepted(c) \/ Conflict(c) \/ Refused(c)
  PROVE  Fine
<1>1. pc[c] # "idle"
  BY DEF BeginSend, Accepted, Conflict, Refused
<1>2. Batch(c) \subseteq Known
  <2>1. groups[c] \in Seq(SUBSET Known) /\ groups[c] # <<>>
    BY <1>1 DEF Sound, NothingMadeUp, Typed
  <2> QED BY <2>1, HeadTailProperties DEF Batch
<1>3. /\ UNCHANGED <<row, lastItem, groups, refused, disowned, deleted>>
      /\ applied' = applied \/ applied' = applied \cup Batch(c)
  BY DEF BeginSend, Accepted, Conflict, Refused, Answer, history
<1>4. applied' \cup Excused' \subseteq Known
  BY <1>2, <1>3 DEF Sound, NothingMadeUp, Excused
<1> QED BY <1>3, <1>4, NoNewRow DEF Sound, NothingMadeUp

(* A row is marked "failed" together with the failure on record.           *)
LEMMA RecordFine ==
  ASSUME Typed, Sound, NEW c \in Callers, NEW i \in Items, Record(c, i)
  PROVE  Fine
<1> DEFINE g == groups[c]
           rest == <<Head(g) \ {i}>> \o Tail(g)
<1>1. g \in Seq(SUBSET Known) /\ g # <<>> /\ i \in Head(g)
  BY DEF Record, Sound, NothingMadeUp, Typed, Batch
<1>2. Head(g) \in SUBSET Known /\ Tail(g) \in Seq(SUBSET Known) /\ i \in Known
  BY <1>1, HeadTailProperties
<1>3. rest \in Seq(SUBSET Known)
  <2>1. <<Head(g) \ {i}>> \in Seq(SUBSET Known)
    BY <1>2
  <2> QED BY <1>2, <2>1, ConcatProperties
<1>4. groups' = [groups EXCEPT ![c] = rest] \/ groups' = [groups EXCEPT ![c] = Tail(g)]
  BY DEF Record, Advance, Batch, Typed
<1> HIDE DEF rest
<1>5. \A d \in Callers : groups'[d] \in Seq(SUBSET Known)
  BY <1>2, <1>3, <1>4 DEF Sound, NothingMadeUp, Typed
<1>6. /\ UNCHANGED <<lastItem, applied, disowned, deleted>>
      /\ refused' = IF Succeeded(c) THEN refused ELSE refused \cup {i}
  BY DEF Record
<1>7. applied' \cup Excused' \subseteq Known
  BY <1>2, <1>6 DEF Sound, NothingMadeUp, Excused
<1>8. ASSUME NEW j \in Items
      PROVE  \/ row'[j].status = row[j].status
             \/ /\ row[j].status \in Stored /\ row'[j].status # "gone"
                /\ row'[j].status = "failed" => j \in refused'
  <2> DEFINE new == [row[i] EXCEPT !.status = IF Succeeded(c) THEN "sent" ELSE "failed",
                                   !.due = Succeeded(c)]
  <2>1. row' = row \/ (row[i].status \in Stored /\ row' = [row EXCEPT ![i] = new])
    BY DEF Record, Mark, Typed
  <2>2. new.status = IF Succeeded(c) THEN "sent" ELSE "failed"
    BY DEF Typed, Row
  <2> HIDE DEF new
  <2> QED BY <1>6, <2>1, <2>2 DEF Typed
<1> QED BY <1>5, <1>6, <1>7, <1>8, NoNewRow

LEMMA RowFine ==
  ASSUME Typed, Sound, NEW i \in Items, BackoffEnds(i) \/ Delete(i)
  PROVE  Fine
<1>1. CASE BackoffEnds(i)
  <2>1. \A j \in Items : row'[j].status = row[j].status
    <3>1. row' = [row EXCEPT ![i] = [row[i] EXCEPT !.due = TRUE]]
      BY <1>1 DEF BackoffEnds
    <3>2. [row[i] EXCEPT !.due = TRUE].status = row[i].status
      BY DEF Typed, Row
    <3> QED BY <3>1, <3>2 DEF Typed
  <2>2. UNCHANGED <<lastItem, groups, history>>
    BY <1>1 DEF BackoffEnds, callers
  <2> QED BY <2>1, <2>2, NoNewRow DEF Sound, NothingMadeUp, history, Excused
<1>2. CASE Delete(i)
  <2>1. /\ row' = Without(row, {i}) /\ deleted' = deleted \cup {i} /\ row[i].status \in Stored
        /\ UNCHANGED <<lastItem, groups, applied, refused, disowned>>
    BY <1>2 DEF Delete, callers
  <2>2. i \in Known
    BY <2>1, Exists DEF Stored, Unsent, Sound
  <2>3. applied' \cup Excused' \subseteq Known /\ i \in Excused'
    BY <2>1, <2>2 DEF Sound, NothingMadeUp, Excused
  <2>4. \A j \in Items : \/ row'[j].status = row[j].status
                         \/ row[j].status \in Stored /\ row'[j].status = "gone" /\ j \in Excused'
    BY <2>1, <2>3, WithoutEffect
  <2> QED BY <2>1, <2>3, <2>4, NoNewRow DEF Sound, NothingMadeUp
<1> QED BY <1>1, <1>2

(* Discarded events are on record as such.                                 *)
LEMMA DiscardFine ==
  ASSUME Typed, Sound, DiscardForeign, lastItem' = lastItem,
         \A c \in Callers : groups'[c] \in Seq(SUBSET Known)
  PROVE  Fine
<1>1. /\ row' = Without(row, Foreign) /\ disowned' = disowned \cup Foreign
      /\ UNCHANGED <<applied, refused, deleted>>
  BY DEF DiscardForeign
<1>2. \A i \in Foreign : i \in Items /\ row[i].status \in Stored /\ i \in Known
  BY Exists DEF Foreign, Stored, Unsent, Sound
<1>3. applied' \cup Excused' \subseteq Known /\ Foreign \subseteq Excused'
  BY <1>1, <1>2 DEF Sound, NothingMadeUp, Excused
<1>4. \A j \in Items : \/ row'[j].status = row[j].status
                       \/ row[j].status \in Stored /\ row'[j].status = "gone" /\ j \in Excused'
  BY <1>1, <1>2, <1>3, WithoutEffect
<1> QED BY <1>1, <1>3, <1>4, NoNewRow

LEMMA IdentityFine ==
  ASSUME Typed, Sound, Pair \/ PairConnects \/ Remove \/ Refresh \/ Discard \/ Restart
  PROVE  Fine
<1>1. CASE Pair \/ PairConnects \/ Remove \/ Refresh
  BY <1>1, NothingHappens DEF Pair, PairConnects, Remove, Refresh, callers
<1>2. CASE Discard
  BY <1>2, DiscardFine DEF Discard, callers, Sound, NothingMadeUp
<1>3. CASE Restart
  <2>1. \A c \in Callers : groups'[c] \in Seq(SUBSET Known)
    BY <1>3, EmptySeq DEF Restart
  <2>2. CASE identity # None
    BY <1>3, <2>1, <2>2, DiscardFine DEF Restart
  <2>3. CASE identity = None
    <3>1. UNCHANGED <<row, history, lastItem>>
      BY <1>3, <2>3 DEF Restart
    <3> QED BY <2>1, <3>1, NoNewRow DEF Sound, NothingMadeUp, history, Excused
  <2> QED BY <2>2, <2>3
<1> QED BY <1>1, <1>2, <1>3

LEMMA StepFine == IInv /\ Sound /\ [Next]_vars => Fine
<1> SUFFICES ASSUME IInv, Sound, [Next]_vars PROVE Fine
  OBVIOUS
<1>1. Typed
  BY DEF IInv
<1>2. CASE UNCHANGED vars
  BY <1>1, <1>2, NothingHappens DEF vars, callers
<1>3. ASSUME NEW p \in Producers, LoadIdentity(p) PROVE Fine
  BY <1>1, <1>3, NothingHappens DEF LoadIdentity, callers
<1>4. CASE Next
  BY <1>1, <1>3, <1>4, EnqueueFine, RequestFine, SendFine, RecordFine, RowFine, IdentityFine
     DEF Next, CallerStep
<1> QED BY <1>2, <1>4

LEMMA InitSound == Init => Sound
BY EmptySeq DEF Init, Sound, NothingMadeUp, EndsBacked, Excused

----------------------------------------------------------------------------
(* What was done to the queue, as the ledger sees it.                      *)
LEMMA InitLedger == Init => Ledger!Init
<1> SUFFICES ASSUME Init PROVE Ledger!Init
  OBVIOUS
<1>1. 1 .. lastItem = {} /\ With(row, "gone") = {}
  BY DEF Init, With
<1> QED BY <1>1 DEF Ledger!Init, Init

LEMMA StepLedger ==
  ASSUME Typed, Sound, Sound', Grows
  PROVE  [Ledger!Next]_(Ledger!ledger)
<1>1. applied' \subseteq 1 .. lastItem /\ Excused' \subseteq 1 .. lastItem
  BY DEF Sound, NothingMadeUp, Known, Grows, history, Excused
<1>2. With(row, "gone") \subseteq With(row, "gone")'
  BY DEF Grows, With
<1>3. With(row, "gone")' \subseteq applied' \cup Excused'
  BY DEF Sound, EndsBacked, With
<1>4. \/ 1 .. lastItem' = 1 .. lastItem
      \/ \E e \in Items : e \notin 1 .. lastItem /\ 1 .. lastItem' = (1 .. lastItem) \cup {e}
  <2>1. CASE lastItem' = lastItem + 1 /\ lastItem + 1 \in Items
    BY <2>1 DEF Typed
  <2> QED BY <2>1 DEF Grows
<1> QED BY <1>1, <1>2, <1>3, <1>4
        DEF Grows, Excused, Ledger!Next, Ledger!Accept, Ledger!Deliver, Ledger!Excuse, Ledger!Forget

(* The synchronisation queue keeps the promise of a store-and-forward      *)
(* queue: what it forgets undelivered was deleted by an operator, belonged *)
(* to a replaced identity, or had a failed attempt on record.              *)
THEOREM ImplementsLedger == Spec => LedgerSpec
<1>1. IInv /\ Sound /\ [Next]_vars => IInv' /\ Sound' /\ Grows
  BY NextIInv, StepFine DEF Fine
<1>2. IInv /\ Sound /\ [Next]_vars => [Ledger!Next]_(Ledger!ledger)
  BY <1>1, StepLedger DEF IInv
<1> QED BY InitIInv, InitSound, InitLedger, <1>1, <1>2, PTL DEF Spec, LedgerSpec, Ledger!Spec

=============================================================================
