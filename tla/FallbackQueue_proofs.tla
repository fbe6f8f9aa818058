------------------------ MODULE FallbackQueue_proofs ------------------------
(***************************************************************************)
(* Safety of the fallback queue for any number of payloads, callers and    *)
(* retries, with store faults and interruptions: type correctness, the two *)
(* promises SentWasDelivered and FailedOnlyAtLimit, and what the ledger    *)
(* below needs of retention, NoSilentLoss.                                 *)
(*                                                                         *)
(* None of the three is inductive alone: a caller decides from counts      *)
(* it read long before, so the invariant also says that every count in a   *)
(* caller's hands is backed by attempts that failed, that the count in the *)
(* table leaves room for every refusal still to be recorded, and that a    *)
(* caller holding an answer holds one that the history knows.              *)
(***************************************************************************)
EXTENDS FallbackQueue, FiniteSetTheorems, TLAPS

(* Callers that saw row i refused and have not yet recorded it. *)
Refused(i) == {c \in Callers : pc[c] = "refused" /\ Current(c, i)}

CountsBacked ==
  /\ \A i \in Items : row[i].retries + Cardinality(Refused(i)) <= failures[i]
  /\ \A c \in Callers, i \in Items : seen[c][i] <= failures[i]

AnswersBacked ==
  \A c \in Callers, i \in Items : Current(c, i) =>
    /\ pc[c] = "refused" => seen[c][i] + 1 <= failures[i]
    /\ pc[c] = "accepted" => i \in delivered

(* A payload leaves the table without having been delivered only by an     *)
(* operator's deletion or after its attempts were used up: pruning, which  *)
(* runs at every enqueue, never costs a payload that could still be sent.  *)
NoSilentLoss ==
  \A i \in Items :
    row[i].status = "gone" =>
      i \in discarded \/ i \in delivered \/ failures[i] >= MaxRetries

IInv ==
  /\ TypeOK
  /\ CountsBacked
  /\ AnswersBacked
  /\ SentWasDelivered
  /\ FailedOnlyAtLimit
  /\ NoSilentLoss

----------------------------------------------------------------------------
(* A caller works on one row at a time. *)
LEMMA CurrentUnique ==
  ASSUME NEW c \in Callers, NEW i \in Items, NEW j \in Items,
         Current(c, i), Current(c, j)
  PROVE  i = j
BY DEF Current, Items

LEMMA OneMore ==
  ASSUME NEW S, IsFiniteSet(S), NEW x, NEW T \in SUBSET (S \cup {x})
  PROVE  Cardinality(T) <= Cardinality(S) + 1
<1>1. /\ IsFiniteSet(S \cup {x}) /\ Cardinality(S) \in Nat
      /\ Cardinality(S \cup {x}) = IF x \in S THEN Cardinality(S) ELSE Cardinality(S) + 1
  BY FS_AddElement, FS_CardinalityType
<1>2. Cardinality(T) <= Cardinality(S \cup {x})
  BY <1>1, FS_Subset
<1>3. Cardinality(T) \in Nat
  BY <1>1, FS_Subset, FS_CardinalityType
<1> QED BY <1>1, <1>2, <1>3

LEMMA RefusedFinite ==
  ASSUME NEW i \in Items
  PROVE  /\ IsFiniteSet(Refused(i)) /\ Cardinality(Refused(i)) \in Nat
         /\ IsFiniteSet(Refused(i)') /\ Cardinality(Refused(i)') \in Nat
<1>1. IsFiniteSet(Callers)
  BY CallersAssumption, FS_Union DEF Callers
<1>2. Refused(i) \in SUBSET Callers /\ Refused(i)' \in SUBSET Callers
  BY DEF Refused
<1> QED BY <1>1, <1>2, FS_Subset, FS_CardinalityType

(* A step that adds no caller to Refused(i) does not raise its size. *)
LEMMA RefusedShrinks ==
  ASSUME NEW i \in Items, Refused(i)' \subseteq Refused(i)
  PROVE  Cardinality(Refused(i)') <= Cardinality(Refused(i))
BY RefusedFinite, FS_Subset

(* Such a step keeps the counts backed when it raises neither retry_count  *)
(* nor what a caller has seen, and forgets no failure.                     *)
LEMMA CountsStay ==
  ASSUME TypeOK, TypeOK', CountsBacked,
         \A i \in Items : row'[i].retries <= row[i].retries /\ failures'[i] >= failures[i],
         \A c \in Callers, i \in Items : seen'[c][i] <= failures'[i],
         \A i \in Items : Refused(i)' \subseteq Refused(i)
  PROVE  CountsBacked'
<1> SUFFICES ASSUME NEW i \in Items
             PROVE  row'[i].retries + Cardinality(Refused(i)') <= failures'[i]
  BY DEF CountsBacked
<1>1. /\ row[i].retries \in Nat /\ row'[i].retries \in Nat
      /\ failures[i] \in Nat /\ failures'[i] \in Nat
  BY DEF TypeOK
<1>2. row[i].retries + Cardinality(Refused(i)) <= failures[i]
  BY DEF CountsBacked
<1> QED BY <1>1, <1>2, RefusedFinite, RefusedShrinks

(* A caller through with a row keeps at most what it had loaded. *)
LEMMA AdvanceEffect ==
  ASSUME TypeOK, NEW c \in Callers, NEW i \in Items, Advance(c, i)
  PROVE  /\ seen' \in [Callers -> [Items -> Nat]]
         /\ \A d \in Callers, j \in Items : seen'[d][j] <= seen[d][j]
         /\ \A d \in Callers \ {c} : seen'[d] = seen[d]
         /\ pc'[c] \notin {"accepted", "refused"}
<1>1. /\ Unseen \in [Items -> Nat] /\ \A j \in Items : Unseen[j] = 0
      /\ seen \in [Callers -> [Items -> Nat]]
  BY DEF Unseen, TypeOK
<1>2. seen' = seen \/ seen' = [seen EXCEPT ![c] = Unseen]
  BY DEF Advance
<1>3. seen' \in [Callers -> [Items -> Nat]]
  BY <1>1, <1>2
<1>4. \A d \in Callers : seen'[d] = seen[d] \/ (d = c /\ seen'[d] = Unseen)
  BY <1>1, <1>2
<1>5. pc'[c] \notin {"accepted", "refused"}
  BY DEF Advance, TypeOK
<1> QED BY <1>1, <1>3, <1>4, <1>5

(* What the three writes do to a row, whether or not the store took them. *)
LEMMA SetStatusEffect ==
  ASSUME TypeOK, NEW i \in Items, NEW s \in Status, Write(SetStatus(i, s))
  PROVE  /\ row' \in [Items -> [status : Status \cup Absent, retries : Nat]]
         /\ \A j \in Items : row'[j].retries = row[j].retries
         /\ \A j \in Items : row'[j].status = row[j].status \/ (j = i /\ row'[j].status = s)
<1> DEFINE new == [row[i] EXCEPT !.status = s]
<1>1. row[i] \in [status : Status \cup Absent, retries : Nat]
  BY DEF TypeOK
<1>2. /\ new \in [status : Status \cup Absent, retries : Nat]
      /\ new.status = s /\ new.retries = row[i].retries
  BY <1>1
<1>3. row' = [row EXCEPT ![i] = new] \/ row' = row
  BY DEF Write, SetStatus
<1> HIDE DEF new
<1>4. \A j \in Items : row'[j] = row[j] \/ (j = i /\ row'[j] = new)
  BY <1>3 DEF TypeOK
<1>5. row' \in [Items -> [status : Status \cup Absent, retries : Nat]]
  BY <1>2, <1>3 DEF TypeOK
<1> QED BY <1>2, <1>4, <1>5

LEMMA IncrementEffect ==
  ASSUME TypeOK, NEW i \in Items, Write(IncrementRetry(i))
  PROVE  /\ row' \in [Items -> [status : Status \cup Absent, retries : Nat]]
         /\ \A j \in Items :
              \/ row'[j] = row[j]
              \/ j = i /\ row'[j].status = "pending" /\ row'[j].retries = row[j].retries + 1
<1> DEFINE new == [status |-> "pending", retries |-> row[i].retries + 1]
<1>1. row[i] \in [status : Status \cup Absent, retries : Nat]
  BY DEF TypeOK
<1>2. /\ new \in [status : Status \cup Absent, retries : Nat]
      /\ new.status = "pending" /\ new.retries = row[i].retries + 1
  BY <1>1 DEF Status
<1>3. row' = [row EXCEPT ![i] = new] \/ row' = row
  BY DEF Write, IncrementRetry
<1> HIDE DEF new
<1> QED BY <1>2, <1>3 DEF TypeOK

LEMMA PrunedEffect ==
  ASSUME NEW r \in [Items -> [status : Status \cup Absent, retries : Nat]],
         NEW aged \in SUBSET (Finished(r, "sent") \cup Finished(r, "failed"))
  PROVE  /\ Pruned(r, aged) \in [Items -> [status : Status \cup Absent, retries : Nat]]
         /\ \A j \in Items :
              /\ Pruned(r, aged)[j].retries = r[j].retries
              /\ \/ Pruned(r, aged)[j].status = r[j].status
                 \/ r[j].status \in {"sent", "failed"} /\ Pruned(r, aged)[j].status = "gone"
<1> DEFINE out == Surplus(r, "sent") \cup Surplus(r, "failed") \cup aged
<1>1. \A j \in out : j \in Items /\ r[j].status \in {"sent", "failed"}
  BY DEF Surplus, Finished
<1>2. Pruned(r, aged) = [i \in Items |-> IF i \in out THEN [r[i] EXCEPT !.status = "gone"] ELSE r[i]]
  BY DEF Pruned
<1> HIDE DEF out
<1>3. ASSUME NEW j \in Items
      PROVE  /\ [r[j] EXCEPT !.status = "gone"] \in [status : Status \cup Absent, retries : Nat]
             /\ [r[j] EXCEPT !.status = "gone"].status = "gone"
             /\ [r[j] EXCEPT !.status = "gone"].retries = r[j].retries
  BY DEF Absent
<1> QED BY <1>1, <1>2, <1>3

----------------------------------------------------------------------------
LEMMA InitIInv == Init => IInv
<1> SUFFICES ASSUME Init PROVE IInv
  OBVIOUS
<1>1. \A i \in Items : Refused(i) = {}
  BY DEF Init, Refused
<1>2. \A i \in Items : row[i].retries = 0 /\ Cardinality(Refused(i)) = 0 /\ failures[i] = 0
  BY <1>1, FS_EmptySet DEF Init
<1> QED
  BY <1>2, BoundsAssumption
     DEF Init, IInv, TypeOK, CountsBacked, AnswersBacked, Current, SentWasDelivered,
         FailedOnlyAtLimit, NoSilentLoss, Items, Status, Absent, Unseen

(* The history only grows: what was backed stays backed. *)
LEMMA StepIInv == IInv /\ [Next]_vars => IInv'
<1> SUFFICES ASSUME IInv, [Next]_vars PROVE IInv'
  OBVIOUS
<1> USE BoundsAssumption
<1>t. TypeOK /\ CountsBacked /\ AnswersBacked /\ SentWasDelivered /\ FailedOnlyAtLimit /\ NoSilentLoss
  BY DEF IInv
<1>1. CASE Enqueue
  <2> DEFINE r == [row EXCEPT ![lastItem + 1] = [status |-> "pending", retries |-> 0]]
  <2>1. PICK aged \in SUBSET (Finished(r, "sent") \cup Finished(r, "failed")) :
          row' = Pruned(r, aged)
    BY <1>1 DEF Enqueue
  <2>2. /\ r \in [Items -> [status : Status \cup Absent, retries : Nat]]
        /\ lastItem + 1 \in Items /\ lastItem' \in 0 .. MaxItems
    BY <1>1, <1>t DEF Enqueue, TypeOK, Items, Status
  <2>3. /\ r[lastItem + 1].status = "pending" /\ r[lastItem + 1].retries = 0
        /\ \A j \in Items \ {lastItem + 1} : r[j] = row[j]
    BY <2>2, <1>t DEF TypeOK
  <2> HIDE DEF r
  <2>4. /\ row' \in [Items -> [status : Status \cup Absent, retries : Nat]]
        /\ \A j \in Items :
             /\ row'[j].retries = r[j].retries
             /\ \/ row'[j].status = r[j].status
                \/ r[j].status \in {"sent", "failed"} /\ row'[j].status = "gone"
    BY <2>1, <2>2, PrunedEffect
  <2>5. TypeOK'
    BY <1>1, <1>t, <2>2, <2>4 DEF Enqueue, TypeOK, callers, bounds, history
  <2>6. CountsBacked' /\ AnswersBacked'
    <3>1. \A j \in Items : Refused(j)' \subseteq Refused(j)
      BY <1>1 DEF Enqueue, Refused, Current, callers
    <3>2. \A j \in Items : row'[j].retries <= row[j].retries
      BY <1>t, <2>3, <2>4 DEF TypeOK
    <3>3. failures' = failures /\ seen' = seen /\ pc' = pc /\ batch' = batch /\ delivered' = delivered
      BY <1>1 DEF Enqueue, callers, history
    <3>4. CountsBacked'
      <4>1. /\ \A j \in Items : failures'[j] >= failures[j]
            /\ \A c \in Callers, j \in Items : seen'[c][j] <= failures'[j]
        BY <1>t, <3>3 DEF TypeOK, CountsBacked
      <4> QED BY <1>t, <2>5, <3>1, <3>2, <4>1, CountsStay
    <3> QED BY <1>t, <3>3, <3>4 DEF AnswersBacked, Current
  <2>7. SentWasDelivered' /\ FailedOnlyAtLimit' /\ NoSilentLoss'
    BY <1>1, <1>t, <2>3, <2>4
       DEF Enqueue, SentWasDelivered, FailedOnlyAtLimit, NoSilentLoss, history
  <2> QED BY <2>5, <2>6, <2>7 DEF IInv
<1>2. ASSUME NEW f \in Flushers, StartFlush(f) PROVE IInv'
  <2>1. f \in Callers
    BY DEF Callers
  <2>2. TypeOK'
    BY <1>2, <1>t, <2>1 DEF StartFlush, TypeOK, table, bounds, history
  <2>3. CountsBacked'
    <3>1. \A j \in Items : Refused(j)' \subseteq Refused(j)
      BY <1>2, <1>t, <2>1 DEF StartFlush, TypeOK, Refused, Current
    <3>2. row' = row /\ failures' = failures
      BY <1>2 DEF StartFlush, table, history
    <3>3. \A c \in Callers, j \in Items : seen'[c][j] <= failures[j]
      <4>1. \A j \in Items : row[j].retries <= failures[j]
        BY <1>t, RefusedFinite DEF TypeOK, CountsBacked
      <4> QED BY <1>2, <1>t, <2>1, <4>1 DEF StartFlush, TypeOK, CountsBacked
    <3>4. \A j \in Items : row'[j].retries <= row[j].retries /\ failures'[j] >= failures[j]
      BY <1>t, <3>2 DEF TypeOK
    <3> QED BY <1>t, <2>2, <3>1, <3>2, <3>3, <3>4, CountsStay
  <2>4. AnswersBacked'
    BY <1>2, <1>t, <2>1 DEF StartFlush, TypeOK, AnswersBacked, Current, history
  <2> QED
    BY <1>2, <1>t, <2>2, <2>3, <2>4
       DEF StartFlush, IInv, SentWasDelivered, FailedOnlyAtLimit, NoSilentLoss, table, history
<1>3. ASSUME NEW q \in Retriers, NEW i \in Items, StartRetry(q, i) PROVE IInv'
  <2>1. q \in Callers
    BY DEF Callers
  <2>2. TypeOK'
    BY <1>3, <1>t, <2>1 DEF StartRetry, TypeOK, table, history
  <2>3. CountsBacked'
    <3>1. \A j \in Items : Refused(j)' \subseteq Refused(j)
      BY <1>3, <1>t, <2>1 DEF StartRetry, TypeOK, Refused, Current
    <3>2. row' = row /\ failures' = failures
      BY <1>3 DEF StartRetry, table, history
    <3>3. \A c \in Callers, j \in Items : seen'[c][j] <= failures[j]
      <4>1. \A j \in Items : row[j].retries <= failures[j]
        BY <1>t, RefusedFinite DEF TypeOK, CountsBacked
      <4> QED BY <1>3, <1>t, <2>1, <4>1 DEF StartRetry, TypeOK, CountsBacked
    <3>4. \A j \in Items : row'[j].retries <= row[j].retries /\ failures'[j] >= failures[j]
      BY <1>t, <3>2 DEF TypeOK
    <3> QED BY <1>t, <2>2, <3>1, <3>2, <3>3, <3>4, CountsStay
  <2>4. AnswersBacked'
    BY <1>3, <1>t, <2>1 DEF StartRetry, TypeOK, AnswersBacked, Current, history
  <2> QED
    BY <1>3, <1>t, <2>2, <2>3, <2>4
       DEF StartRetry, IInv, SentWasDelivered, FailedOnlyAtLimit, NoSilentLoss, table, history
<1>4. ASSUME NEW c \in Callers, NEW i \in Items, GiveUp(c, i) PROVE IInv'
  <2>a. /\ seen' \in [Callers -> [Items -> Nat]]
        /\ \A d \in Callers, j \in Items : seen'[d][j] <= seen[d][j]
        /\ \A d \in Callers \ {c} : seen'[d] = seen[d]
        /\ pc'[c] \notin {"accepted", "refused"}
    BY <1>4, <1>t, AdvanceEffect DEF GiveUp
  <2>1. /\ row' \in [Items -> [status : Status \cup Absent, retries : Nat]]
        /\ \A j \in Items : row'[j].retries = row[j].retries
        /\ \A j \in Items : row'[j].status = row[j].status \/ (j = i /\ row'[j].status = "failed")
    BY <1>4, <1>t, SetStatusEffect, "failed" \in Status DEF GiveUp, Status
  <2>2. TypeOK'
    BY <1>4, <1>t, <2>a, <2>1 DEF GiveUp, Write, Advance, TypeOK, history
  <2>3. CountsBacked'
    <3>1. \A j \in Items : Refused(j)' \subseteq Refused(j)
      BY <1>4, <1>t, <2>a DEF GiveUp, Advance, TypeOK, Refused, Current
    <3>2. /\ \A j \in Items : row'[j].retries <= row[j].retries /\ failures'[j] >= failures[j]
          /\ \A d \in Callers, j \in Items : seen'[d][j] <= failures'[j]
      BY <1>4, <1>t, <2>a, <2>1 DEF GiveUp, Advance, TypeOK, CountsBacked, history
    <3> QED BY <1>t, <2>2, <3>1, <3>2, CountsStay
  <2>4. AnswersBacked'
    BY <1>4, <1>t, <2>a DEF GiveUp, Advance, AnswersBacked, Current, TypeOK, history
  <2>5. failures[i] >= MaxRetries
    BY <1>4, <1>t DEF GiveUp, Exhausted, CountsBacked, TypeOK
  <2> QED
    BY <1>4, <1>t, <2>1, <2>2, <2>3, <2>4, <2>5
       DEF GiveUp, IInv, SentWasDelivered, FailedOnlyAtLimit, NoSilentLoss, history
<1>5. ASSUME NEW c \in Callers, NEW i \in Items, NoDestination(c, i) PROVE IInv'
  <2>a. /\ seen' \in [Callers -> [Items -> Nat]]
        /\ \A d \in Callers, j \in Items : seen'[d][j] <= seen[d][j]
        /\ \A d \in Callers \ {c} : seen'[d] = seen[d]
        /\ pc'[c] \notin {"accepted", "refused"}
    BY <1>5, <1>t, AdvanceEffect DEF NoDestination
  <2>1. /\ row' \in [Items -> [status : Status \cup Absent, retries : Nat]]
        /\ \A j \in Items :
             \/ row'[j] = row[j]
             \/ j = i /\ row'[j].status = "pending" /\ row'[j].retries = row[j].retries + 1
    BY <1>5, <1>t, IncrementEffect DEF NoDestination
  <2>2. /\ failures' \in [Items -> Nat] /\ failures'[i] = failures[i] + 1
        /\ \A j \in Items : failures'[j] >= failures[j]
    BY <1>5, <1>t DEF NoDestination, TypeOK
  <2>3. TypeOK'
    BY <1>5, <1>t, <2>a, <2>1, <2>2 DEF NoDestination, Write, Advance, TypeOK
  <2>4. CountsBacked'
    <3>1. \A j \in Items : Refused(j)' \subseteq Refused(j)
      BY <1>5, <1>t, <2>a DEF NoDestination, Advance, TypeOK, Refused, Current
    <3>2. \A d \in Callers, j \in Items : seen'[d][j] <= failures'[j]
      BY <1>5, <1>t, <2>a, <2>2 DEF NoDestination, Advance, TypeOK, CountsBacked
    <3>3. ASSUME NEW j \in Items
          PROVE  row'[j].retries + Cardinality(Refused(j)') <= failures'[j]
      <4>1. row[j].retries + Cardinality(Refused(j)) <= failures[j]
        BY <1>t DEF CountsBacked
      <4>2. /\ row[j].retries \in Nat /\ failures[j] \in Nat /\ failures'[j] \in Nat
            /\ failures'[j] = (IF j = i THEN failures[j] + 1 ELSE failures[j])
            /\ row'[j].retries = row[j].retries
                 \/ (j = i /\ row'[j].retries = row[j].retries + 1)
        BY <1>5, <1>t, <2>1, <2>2 DEF NoDestination, TypeOK
      <4> QED BY <3>1, <4>1, <4>2, RefusedFinite, RefusedShrinks
    <3> QED BY <3>2, <3>3 DEF CountsBacked
  <2>5. AnswersBacked'
    BY <1>5, <1>t, <2>a, <2>2 DEF NoDestination, Advance, AnswersBacked, Current, TypeOK
  <2>6. SentWasDelivered' /\ FailedOnlyAtLimit' /\ NoSilentLoss'
    BY <1>5, <1>t, <2>1, <2>2
       DEF NoDestination, SentWasDelivered, FailedOnlyAtLimit, NoSilentLoss, TypeOK
  <2> QED BY <2>3, <2>4, <2>5, <2>6 DEF IInv
<1>6. ASSUME NEW c \in Callers, NEW i \in Items, BeginSend(c, i) PROVE IInv'
  <2>1. /\ row' \in [Items -> [status : Status \cup Absent, retries : Nat]]
        /\ \A j \in Items : row'[j].retries = row[j].retries
        /\ \A j \in Items : row'[j].status = row[j].status \/ (j = i /\ row'[j].status = "sending")
    BY <1>6, <1>t, SetStatusEffect, "sending" \in Status DEF BeginSend, Status
  <2>2. TypeOK'
    BY <1>6, <1>t, <2>1 DEF BeginSend, Write, TypeOK
  <2>3. CountsBacked'
    <3>1. \A j \in Items : Refused(j)' \subseteq Refused(j)
      BY <1>6, <1>t DEF BeginSend, Advance, TypeOK, Refused, Current
    <3>2. /\ \A j \in Items : row'[j].retries <= row[j].retries /\ failures'[j] >= failures[j]
          /\ \A d \in Callers, j \in Items : seen'[d][j] <= failures'[j]
      BY <1>6, <1>t, <2>1 DEF BeginSend, Advance, TypeOK, CountsBacked
    <3> QED BY <1>t, <2>2, <3>1, <3>2, CountsStay
  <2>4. AnswersBacked'
    BY <1>6, <1>t DEF BeginSend, AnswersBacked, Current, TypeOK
  <2> QED
    BY <1>6, <1>t, <2>1, <2>2, <2>3, <2>4
       DEF BeginSend, IInv, SentWasDelivered, FailedOnlyAtLimit, NoSilentLoss
<1>7. ASSUME NEW c \in Callers, NEW i \in Items, SendAccepted(c, i) PROVE IInv'
  <2>1. /\ delivered' \in SUBSET Items /\ i \in delivered'
        /\ delivered \subseteq delivered'
    BY <1>7, <1>t DEF SendAccepted, TypeOK
  <2>2. TypeOK'
    BY <1>7, <1>t, <2>1 DEF SendAccepted, TypeOK, table, bounds
  <2>5. CountsBacked'
    <3>1. \A j \in Items : Refused(j)' \subseteq Refused(j)
      BY <1>7, <1>t DEF SendAccepted, TypeOK, Refused, Current
    <3>2. /\ \A j \in Items : row'[j].retries <= row[j].retries /\ failures'[j] >= failures[j]
          /\ \A d \in Callers, j \in Items : seen'[d][j] <= failures'[j]
      BY <1>7, <1>t DEF SendAccepted, TypeOK, CountsBacked, table
    <3> QED BY <1>t, <2>2, <3>1, <3>2, CountsStay
  <2>3. AnswersBacked'
    BY <1>7, <1>t, <2>1, CurrentUnique DEF SendAccepted, AnswersBacked, Current, TypeOK
  <2>4. SentWasDelivered' /\ FailedOnlyAtLimit' /\ NoSilentLoss'
    BY <1>7, <1>t, <2>1
       DEF SendAccepted, SentWasDelivered, FailedOnlyAtLimit, NoSilentLoss, table, TypeOK
  <2> QED BY <2>2, <2>3, <2>4, <2>5 DEF IInv
<1>8. ASSUME NEW c \in Callers, NEW i \in Items, SendRefused(c, i) PROVE IInv'
  <2>1. /\ failures' \in [Items -> Nat] /\ failures'[i] = failures[i] + 1
        /\ \A j \in Items : failures'[j] >= failures[j]
        /\ delivered' \in SUBSET Items /\ delivered \subseteq delivered'
    BY <1>8, <1>t DEF SendRefused, TypeOK
  <2>2. TypeOK'
    BY <1>8, <1>t, <2>1 DEF SendRefused, TypeOK, table, bounds
  <2>5. \A d \in Callers, j \in Items : seen'[d][j] <= failures'[j]
    BY <1>8, <1>t, <2>1 DEF SendRefused, TypeOK, CountsBacked
  <2>6. CountsBacked'
    <3> SUFFICES ASSUME NEW j \in Items
                 PROVE  row'[j].retries + Cardinality(Refused(j)') <= failures'[j]
      BY <2>5 DEF CountsBacked
    <3>1. row[j].retries + Cardinality(Refused(j)) <= failures[j]
      BY <1>t DEF CountsBacked
    <3>2. row' = row /\ row[j].retries \in Nat /\ failures[j] \in Nat /\ failures'[j] \in Nat
      BY <1>8, <1>t, <2>1 DEF SendRefused, TypeOK, table
    <3>3. CASE j = i
      <4>1. Refused(j)' \in SUBSET (Refused(j) \cup {c})
        BY <1>8, <1>t DEF SendRefused, TypeOK, Refused, Current
      <4>2. Cardinality(Refused(j)') <= Cardinality(Refused(j)) + 1
        BY <4>1, RefusedFinite, OneMore
      <4> QED BY <2>1, <3>1, <3>2, <3>3, <4>2, RefusedFinite
    <3>4. CASE j # i
      <4>1. ~ Current(c, j)
        BY <1>8, <3>4, CurrentUnique DEF SendRefused
      <4>2. Refused(j)' \subseteq Refused(j)
        BY <1>8, <1>t, <4>1 DEF SendRefused, TypeOK, Refused, Current
      <4> QED BY <2>1, <3>1, <3>2, <4>2, RefusedFinite, RefusedShrinks
    <3> QED BY <3>3, <3>4
  <2>3. AnswersBacked'
    <3> SUFFICES ASSUME NEW d \in Callers, NEW j \in Items, Current(d, j)'
                 PROVE  /\ pc'[d] = "refused" => seen'[d][j] + 1 <= failures'[j]
                        /\ pc'[d] = "accepted" => j \in delivered'
      BY DEF AnswersBacked
    <3>1. Current(d, j) /\ seen' = seen
      BY <1>8 DEF SendRefused, Current
    <3>2. CASE d = c
      BY <1>8, <1>t, <2>1, <3>1, <3>2, CurrentUnique
         DEF SendRefused, CountsBacked, TypeOK
    <3>3. CASE d # c
      BY <1>8, <1>t, <2>1, <3>1, <3>3 DEF SendRefused, AnswersBacked, TypeOK
    <3> QED BY <3>2, <3>3
  <2>4. SentWasDelivered' /\ FailedOnlyAtLimit' /\ NoSilentLoss'
    BY <1>8, <1>t, <2>1
       DEF SendRefused, SentWasDelivered, FailedOnlyAtLimit, NoSilentLoss, table, TypeOK
  <2> QED BY <2>2, <2>3, <2>4, <2>6 DEF IInv
<1>9. ASSUME NEW c \in Callers, NEW i \in Items, RecordSent(c, i) PROVE IInv'
  <2>a. /\ seen' \in [Callers -> [Items -> Nat]]
        /\ \A d \in Callers, j \in Items : seen'[d][j] <= seen[d][j]
        /\ \A d \in Callers \ {c} : seen'[d] = seen[d]
        /\ pc'[c] \notin {"accepted", "refused"}
    BY <1>9, <1>t, AdvanceEffect DEF RecordSent
  <2>1. /\ row' \in [Items -> [status : Status \cup Absent, retries : Nat]]
        /\ \A j \in Items : row'[j].retries = row[j].retries
        /\ \A j \in Items : row'[j].status = row[j].status \/ (j = i /\ row'[j].status = "sent")
    BY <1>9, <1>t, SetStatusEffect, "sent" \in Status DEF RecordSent, Status
  <2>2. TypeOK'
    BY <1>9, <1>t, <2>a, <2>1 DEF RecordSent, Write, Advance, TypeOK, history
  <2>3. CountsBacked'
    <3>1. \A j \in Items : Refused(j)' \subseteq Refused(j)
      BY <1>9, <1>t, <2>a DEF RecordSent, Advance, TypeOK, Refused, Current
    <3>2. /\ \A j \in Items : row'[j].retries <= row[j].retries /\ failures'[j] >= failures[j]
          /\ \A d \in Callers, j \in Items : seen'[d][j] <= failures'[j]
      BY <1>9, <1>t, <2>a, <2>1 DEF RecordSent, Advance, TypeOK, CountsBacked, history
    <3> QED BY <1>t, <2>2, <3>1, <3>2, CountsStay
  <2>4. AnswersBacked'
    BY <1>9, <1>t, <2>a DEF RecordSent, Advance, AnswersBacked, Current, TypeOK, history
  <2>5. i \in delivered
    BY <1>9, <1>t DEF RecordSent, AnswersBacked
  <2> QED
    BY <1>9, <1>t, <2>1, <2>2, <2>3, <2>4, <2>5
       DEF RecordSent, IInv, SentWasDelivered, FailedOnlyAtLimit, NoSilentLoss, history
<1>10. ASSUME NEW c \in Callers, NEW i \in Items, RecordRefusal(c, i) PROVE IInv'
  <2>a. /\ seen' \in [Callers -> [Items -> Nat]]
        /\ \A d \in Callers, j \in Items : seen'[d][j] <= seen[d][j]
        /\ \A d \in Callers \ {c} : seen'[d] = seen[d]
        /\ pc'[c] \notin {"accepted", "refused"}
    BY <1>10, <1>t, AdvanceEffect DEF RecordRefusal
  <2>1. failures[i] >= seen[c][i] + 1
    BY <1>10, <1>t DEF RecordRefusal, AnswersBacked
  <2>2. /\ row' \in [Items -> [status : Status \cup Absent, retries : Nat]]
        /\ \A j \in Items : row'[j].retries = row[j].retries
                            \/ (j = i /\ row'[j].retries = row[j].retries + 1)
        /\ \A j \in Items : \/ row'[j].status = row[j].status
                            \/ j = i /\ row'[j].status = "pending"
                            \/ j = i /\ row'[j].status = "failed" /\ failures[i] >= MaxRetries
    <3>1. CASE c \in Flushers /\ seen[c][i] + 1 >= MaxRetries
      <4>1. Write(SetStatus(i, "failed"))
        BY <1>10, <3>1 DEF RecordRefusal, AfterRefusal
      <4>2. failures[i] >= MaxRetries
        BY <1>t, <2>1, <3>1 DEF TypeOK
      <4> QED BY <1>t, <4>1, <4>2, SetStatusEffect DEF Status
    <3>2. CASE ~ (c \in Flushers /\ seen[c][i] + 1 >= MaxRetries)
      <4>1. Write(IncrementRetry(i))
        BY <1>10, <3>2 DEF RecordRefusal, AfterRefusal
      <4> QED BY <1>t, <4>1, IncrementEffect
    <3> QED BY <3>1, <3>2
  <2>3. TypeOK'
    BY <1>10, <1>t, <2>a, <2>2 DEF RecordRefusal, Write, Advance, TypeOK, history
  <2>4. CountsBacked'
    <3>1. \A d \in Callers, j \in Items : seen'[d][j] <= failures'[j]
      BY <1>10, <1>t, <2>a DEF RecordRefusal, TypeOK, CountsBacked, history
    <3>2. /\ \A j \in Items : Refused(j)' \subseteq Refused(j)
          /\ c \in Refused(i) /\ c \notin Refused(i)'
      BY <1>10, <1>t, <2>a DEF RecordRefusal, Advance, TypeOK, Refused, Current
    <3>3. Cardinality(Refused(i)') + 1 <= Cardinality(Refused(i))
      <4>1. Refused(i)' \in SUBSET (Refused(i) \ {c})
        BY <3>2
      <4>2. /\ Cardinality(Refused(i)') <= Cardinality(Refused(i) \ {c})
            /\ Cardinality(Refused(i) \ {c}) = Cardinality(Refused(i)) - 1
        BY <3>2, <4>1, RefusedFinite, FS_RemoveElement, FS_Subset
      <4> QED BY <4>2, RefusedFinite
    <3> SUFFICES ASSUME NEW j \in Items
                 PROVE  row'[j].retries + Cardinality(Refused(j)') <= failures'[j]
      BY <3>1 DEF CountsBacked
    <3>4. /\ row[j].retries + Cardinality(Refused(j)) <= failures[j]
          /\ row[j].retries \in Nat /\ failures[j] \in Nat /\ failures' = failures
      BY <1>10, <1>t DEF RecordRefusal, history, CountsBacked, TypeOK
    <3>5. CASE j = i
      BY <2>2, <3>3, <3>4, <3>5, RefusedFinite
    <3>6. CASE j # i
      BY <2>2, <3>2, <3>4, <3>6, RefusedFinite, RefusedShrinks
    <3> QED BY <3>5, <3>6
  <2>5. AnswersBacked'
    BY <1>10, <1>t, <2>a DEF RecordRefusal, Advance, AnswersBacked, Current, TypeOK, history
  <2>6. SentWasDelivered' /\ FailedOnlyAtLimit' /\ NoSilentLoss'
    BY <1>10, <1>t, <2>2
       DEF RecordRefusal, SentWasDelivered, FailedOnlyAtLimit, NoSilentLoss, history
  <2> QED BY <2>3, <2>4, <2>5, <2>6 DEF IInv
<1>11. ASSUME NEW i \in Items, Discard(i) PROVE IInv'
  <2> DEFINE new == [row[i] EXCEPT !.status = "gone"]
  <2>1. /\ new \in [status : Status \cup Absent, retries : Nat]
        /\ new.status = "gone" /\ new.retries = row[i].retries
        /\ row' = [row EXCEPT ![i] = new]
    BY <1>11, <1>t DEF Discard, TypeOK, Absent
  <2> HIDE DEF new
  <2>2. /\ row' \in [Items -> [status : Status \cup Absent, retries : Nat]]
        /\ \A j \in Items : row'[j].retries = row[j].retries
        /\ \A j \in Items : row'[j].status = row[j].status \/ (j = i /\ row'[j].status = "gone")
    BY <1>t, <2>1 DEF TypeOK
  <2>3. TypeOK'
    BY <1>11, <1>t, <2>2 DEF Discard, TypeOK, callers, bounds
  <2>4. CountsBacked' /\ AnswersBacked'
    <3>1. \A j \in Items : Refused(j)' \subseteq Refused(j)
      BY <1>11 DEF Discard, Refused, Current, callers
    <3>2. /\ \A j \in Items : row'[j].retries <= row[j].retries /\ failures'[j] >= failures[j]
          /\ \A d \in Callers, j \in Items : seen'[d][j] <= failures'[j]
      BY <1>11, <1>t, <2>2 DEF Discard, TypeOK, CountsBacked, callers
    <3>3. CountsBacked'
      BY <1>t, <2>3, <3>1, <3>2, CountsStay
    <3> QED BY <1>11, <1>t, <3>3 DEF Discard, AnswersBacked, Current, callers
  <2>5. SentWasDelivered' /\ FailedOnlyAtLimit' /\ NoSilentLoss'
    BY <1>11, <1>t, <2>2 DEF Discard, SentWasDelivered, FailedOnlyAtLimit, NoSilentLoss
  <2> QED BY <2>3, <2>4, <2>5 DEF IInv
<1>12. ASSUME NEW i \in Items, RemoveDestination(i) PROVE IInv'
  <2>1. TypeOK'
    BY <1>12, <1>t DEF RemoveDestination, TypeOK, table, callers, bounds, history
  <2>2. \A j \in Items : Refused(j)' \subseteq Refused(j)
    BY <1>12, <1>t DEF RemoveDestination, TypeOK, Refused, Current, callers
  <2>3. /\ \A j \in Items : row'[j].retries <= row[j].retries /\ failures'[j] >= failures[j]
        /\ \A d \in Callers, j \in Items : seen'[d][j] <= failures'[j]
    BY <1>12, <1>t DEF RemoveDestination, TypeOK, CountsBacked, table, callers, history
  <2>4. CountsBacked'
    BY <1>t, <2>1, <2>2, <2>3, CountsStay
  <2> QED
    BY <1>12, <1>t, <2>1, <2>4
       DEF RemoveDestination, IInv, TypeOK, AnswersBacked, Current,
           SentWasDelivered, FailedOnlyAtLimit, NoSilentLoss, table, callers, history
<1>13. ASSUME NEW c \in Callers, Interrupt(c) PROVE IInv'
  <2>a. /\ seen' \in [Callers -> [Items -> Nat]]
        /\ \A d \in Callers, j \in Items : seen'[d][j] <= seen[d][j]
        /\ \A d \in Callers \ {c} : seen'[d] = seen[d] /\ pc'[d] = pc[d]
        /\ pc'[c] = "idle"
    BY <1>13, <1>t DEF Interrupt, TypeOK, Unseen
  <2>1. TypeOK'
    BY <1>13, <1>t, <2>a DEF Interrupt, TypeOK, table, callers, bounds, history
  <2>2. \A j \in Items : Refused(j)' \subseteq Refused(j)
    BY <1>13, <1>t, <2>a DEF Interrupt, TypeOK, Refused, Current, callers
  <2>3. /\ \A j \in Items : row'[j].retries <= row[j].retries /\ failures'[j] >= failures[j]
        /\ \A d \in Callers, j \in Items : seen'[d][j] <= failures'[j]
    BY <1>13, <1>t, <2>a DEF Interrupt, TypeOK, CountsBacked, table, callers, history
  <2>4. CountsBacked'
    BY <1>t, <2>1, <2>2, <2>3, CountsStay
  <2> QED
    BY <1>13, <1>t, <2>a, <2>1, <2>4
       DEF Interrupt, IInv, TypeOK, AnswersBacked, Current,
           SentWasDelivered, FailedOnlyAtLimit, NoSilentLoss, table, callers, history
<1>14. CASE UNCHANGED vars
  <2>1. TypeOK'
    BY <1>14, <1>t DEF vars, TypeOK, table, callers, bounds, history
  <2>2. \A j \in Items : Refused(j)' \subseteq Refused(j)
    BY <1>14, <1>t DEF vars, TypeOK, Refused, Current, callers
  <2>3. /\ \A j \in Items : row'[j].retries <= row[j].retries /\ failures'[j] >= failures[j]
        /\ \A d \in Callers, j \in Items : seen'[d][j] <= failures'[j]
    BY <1>14, <1>t DEF vars, TypeOK, CountsBacked, table, callers, history
  <2>4. CountsBacked'
    BY <1>t, <2>1, <2>2, <2>3, CountsStay
  <2> QED
    BY <1>14, <1>t, <2>1, <2>4
       DEF vars, IInv, TypeOK, AnswersBacked, Current,
           SentWasDelivered, FailedOnlyAtLimit, NoSilentLoss, table, callers, history
<1> QED
  BY <1>1, <1>2, <1>3, <1>4, <1>5, <1>6, <1>7, <1>8, <1>9, <1>10, <1>11, <1>12, <1>13, <1>14
     DEF Next, CallerStep

(* The table, the callers' copies and the history always have their types. *)
THEOREM TypeCorrect == Spec => []TypeOK
<1>1. IInv => TypeOK
  BY DEF IInv
<1> QED BY <1>1, InitIInv, StepIInv, PTL DEF Spec

(* A row says "sent" only for a payload the destination took, for any      *)
(* number of overlapping flushes, manual retries, crashes and lost writes. *)
THEOREM SentIsDelivered == Spec => []SentWasDelivered
<1>1. IInv => SentWasDelivered
  BY DEF IInv
<1> QED BY <1>1, InitIInv, StepIInv, PTL DEF Spec

(* A payload is given up only after MaxRetries failed attempts. *)
THEOREM GivenUpAtLimit == Spec => []FailedOnlyAtLimit
<1>1. IInv => FailedOnlyAtLimit
  BY DEF IInv
<1> QED BY <1>1, InitIInv, StepIInv, PTL DEF Spec

-----------------------------------------------------------------------------
(***************************************************************************)
(* The fallback queue implements AtLeastOnce, for any number of payloads,  *)
(* callers, retries and faults: every step of the queue is a step of the   *)
(* ledger, or leaves it alone.                                             *)
(*                                                                         *)
(* The ledger is only ever told about payloads that were handed over, so   *)
(* the invariant adds that nothing happens to, and no caller holds, a row  *)
(* that has not been created; and that a row which is gone stays gone is   *)
(* due to the writes by id, which do nothing without the row.              *)
(*                                                                         *)
(* And how often it offers a payload: AttemptsBounded.                     *)
(***************************************************************************)

Untouched(i) ==
  /\ row[i].status = "none" /\ failures[i] = 0
  /\ i \notin delivered /\ i \notin discarded
  /\ \A c \in Callers : i \notin batch[c]

NothingMadeUp == \A i \in Items : i > lastItem => Untouched(i)

(* What a step may do to the ledger.                                       *)
Grows ==
  /\ delivered \subseteq delivered' /\ discarded \subseteq discarded'
  /\ \A i \in Items : failures'[i] >= failures[i]
  /\ \A i \in Items : row[i].status = "gone" => row'[i].status = "gone"
  /\ \/ lastItem' = lastItem
     \/ /\ lastItem' = lastItem + 1 /\ lastItem + 1 \in Items
        /\ UNCHANGED <<delivered, discarded, failures>>

Fine == NothingMadeUp' /\ Grows

----------------------------------------------------------------------------
(* A write by id does nothing without the row.                             *)
LEMMA WriteNeedsRow ==
  ASSUME TypeOK, NEW i \in Items, NEW s, Write(SetStatus(i, s)) \/ Write(IncrementRetry(i))
  PROVE  \A j \in Items : row[j].status \in Absent => row'[j] = row[j]
<1>1. row' = row \/ (Stored(i) /\ \E x : row' = [row EXCEPT ![i] = x])
  BY DEF Write, SetStatus, IncrementRetry
<1>2. Stored(i) => row[i].status \notin Absent
  BY DEF Stored, Status, Absent
<1> QED BY <1>1, <1>2 DEF TypeOK

(* A caller's write, whatever it is, and what it may add to the history of *)
(* a row in its hands.                                                     *)
LEMMA CallerWrites ==
  ASSUME TypeOK, NothingMadeUp, NEW c \in Callers, NEW i \in batch[c],
         \A j \in Items : row[j].status \in Absent => row'[j] = row[j],
         UNCHANGED <<lastItem, discarded>>,
         delivered' \in {delivered, delivered \cup {i}},
         failures' \in {failures, [failures EXCEPT ![i] = @ + 1]},
         \A d \in Callers : batch'[d] \subseteq batch[d]
  PROVE  Fine
<1>1. i \in Items /\ i <= lastItem
  BY DEF TypeOK, NothingMadeUp, Untouched, Items
<1>2. \A j \in Items : /\ failures[j] \in Nat /\ failures'[j] >= failures[j]
                       /\ j # i => failures'[j] = failures[j]
  BY <1>1 DEF TypeOK
<1>3. Grows
  BY <1>2 DEF Grows, Absent
<1>4. ASSUME NEW j \in Items, j > lastItem' PROVE Untouched(j)'
  <2>1. j > lastItem /\ j # i /\ Untouched(j)
    BY <1>1, <1>4 DEF NothingMadeUp, Items, TypeOK
  <2>2. row'[j] = row[j] /\ failures'[j] = failures[j]
    BY <1>2, <2>1 DEF Untouched, Absent
  <2>3. j \notin delivered' /\ \A d \in Callers : j \notin batch'[d]
    BY <2>1 DEF Untouched
  <2> QED BY <2>1, <2>2, <2>3 DEF Untouched
<1> QED BY <1>3, <1>4 DEF Fine, NothingMadeUp

LEMMA AdvanceShrinks ==
  ASSUME TypeOK, NEW c \in Callers, NEW i \in Items, Advance(c, i)
  PROVE  \A d \in Callers : batch'[d] \subseteq batch[d]
BY DEF Advance, TypeOK

LEMMA CallerFine ==
  ASSUME TypeOK, NothingMadeUp, NEW c \in Callers, CallerStep(c)
  PROVE  Fine
<1>1. PICK i \in Items :
        \/ GiveUp(c, i) \/ NoDestination(c, i) \/ BeginSend(c, i)
        \/ SendAccepted(c, i) \/ SendRefused(c, i)
        \/ RecordSent(c, i) \/ RecordRefusal(c, i)
  BY DEF CallerStep
<1>2. i \in batch[c]
  BY <1>1 DEF GiveUp, NoDestination, BeginSend, SendAccepted, SendRefused, RecordSent,
              RecordRefusal, Current
<1>3. CASE GiveUp(c, i)
  BY <1>2, <1>3, WriteNeedsRow, AdvanceShrinks, CallerWrites DEF GiveUp, history
<1>4. CASE NoDestination(c, i)
  BY <1>2, <1>4, WriteNeedsRow, AdvanceShrinks, CallerWrites DEF NoDestination
<1>5. CASE BeginSend(c, i)
  BY <1>2, <1>5, WriteNeedsRow, CallerWrites DEF BeginSend
<1>6. CASE SendAccepted(c, i)
  BY <1>2, <1>6, CallerWrites DEF SendAccepted, table
<1>7. CASE SendRefused(c, i)
  BY <1>2, <1>7, CallerWrites DEF SendRefused, table
<1>8. CASE RecordSent(c, i)
  BY <1>2, <1>8, WriteNeedsRow, AdvanceShrinks, CallerWrites DEF RecordSent, history
<1>9. CASE RecordRefusal(c, i)
  <2>1. Write(SetStatus(i, "failed")) \/ Write(IncrementRetry(i))
    BY <1>9 DEF RecordRefusal, AfterRefusal
  <2> QED BY <1>2, <1>9, <2>1, WriteNeedsRow, AdvanceShrinks, CallerWrites DEF RecordRefusal, history
<1> QED BY <1>1, <1>3, <1>4, <1>5, <1>6, <1>7, <1>8, <1>9

LEMMA EnqueueFine ==
  ASSUME TypeOK, NothingMadeUp, Enqueue
  PROVE  Fine
<1> DEFINE created == [row EXCEPT ![lastItem + 1] = [status |-> "pending", retries |-> 0]]
<1>1. PICK aged \in SUBSET (Finished(created, "sent") \cup Finished(created, "failed")) :
        row' = Pruned(created, aged)
  BY DEF Enqueue
<1>2. /\ lastItem + 1 \in Items /\ lastItem' = lastItem + 1 /\ lastItem \in Nat
      /\ UNCHANGED <<delivered, discarded, failures, batch>>
  BY BoundsAssumption DEF Enqueue, TypeOK, Items, callers, history
<1>3. /\ created \in [Items -> [status : Status \cup Absent, retries : Nat]]
      /\ \A j \in Items \ {lastItem + 1} : created[j] = row[j]
  BY <1>2 DEF TypeOK, Status
<1>4. row[lastItem + 1].status = "none"
  BY <1>2 DEF NothingMadeUp, Untouched, Items
<1> HIDE DEF created
<1>5. \A j \in Items : \/ row'[j].status = created[j].status
                       \/ created[j].status \in {"sent", "failed"} /\ row'[j].status = "gone"
  BY <1>1, <1>3, PrunedEffect
<1>6. Grows
  BY <1>2, <1>3, <1>4, <1>5 DEF Grows, TypeOK
<1>7. \A j \in Items : j > lastItem' => j > lastItem /\ j # lastItem + 1
  BY <1>2 DEF Items
<1>8. NothingMadeUp'
  BY <1>2, <1>3, <1>5, <1>7 DEF NothingMadeUp, Untouched
<1> QED BY <1>6, <1>8 DEF Fine

(* A flush and a retry take rows that are there; the rest takes none.      *)
LEMMA OtherFine ==
  ASSUME TypeOK, NothingMadeUp,
         \/ \E f \in Flushers : StartFlush(f)
         \/ \E r \in Retriers, i \in Items : StartRetry(r, i)
         \/ \E i \in Items : Discard(i) \/ RemoveDestination(i)
         \/ \E c \in Callers : Interrupt(c)
         \/ UNCHANGED vars
  PROVE  Fine
<1>1. CASE \E f \in Flushers : StartFlush(f)
  <2>1. PICK f \in Callers : batch' = [batch EXCEPT ![f] = {i \in Items : Loadable(i)}]
    BY <1>1 DEF StartFlush, Callers
  <2>2. UNCHANGED <<row, lastItem, failures, delivered, discarded>>
    BY <1>1 DEF StartFlush, table, history
  <2>3. \A i \in Items, c \in Callers : i \in batch'[c] => i \in batch[c] \/ row[i].status # "none"
    BY <2>1 DEF TypeOK, Loadable
  <2> QED BY <2>2, <2>3 DEF Fine, Grows, NothingMadeUp, Untouched, TypeOK
<1>2. CASE \E r \in Retriers, i \in Items : StartRetry(r, i)
  <2>1. PICK r \in Callers, k \in Items : Stored(k) /\ batch' = [batch EXCEPT ![r] = {k}]
    BY <1>2 DEF StartRetry, Callers
  <2>2. UNCHANGED <<row, lastItem, failures, delivered, discarded>>
    BY <1>2 DEF StartRetry, table, history
  <2>3. \A i \in Items, c \in Callers : i \in batch'[c] => i \in batch[c] \/ row[i].status # "none"
    BY <2>1 DEF TypeOK, Stored, Status
  <2> QED BY <2>2, <2>3 DEF Fine, Grows, NothingMadeUp, Untouched, TypeOK
<1>3. CASE \E i \in Items : Discard(i)
  <2>1. PICK i \in Items : Discard(i)
    BY <1>3
  <2>2. /\ row[i].status # "none" /\ discarded' = discarded \cup {i}
        /\ UNCHANGED <<lastItem, failures, delivered, batch>>
    BY <2>1 DEF Discard, Stored, Status, callers
  <2>3. row'[i].status = "gone" /\ \A j \in Items \ {i} : row'[j] = row[j]
    BY <2>1 DEF Discard, TypeOK
  <2>4. Grows
    BY <2>2, <2>3 DEF Grows, TypeOK
  <2>5. ASSUME NEW j \in Items, j > lastItem' PROVE Untouched(j)'
    <3>1. Untouched(j) /\ j # i
      BY <2>2, <2>5 DEF NothingMadeUp, Untouched
    <3> QED BY <2>2, <2>3, <3>1 DEF Untouched
  <2> QED BY <2>4, <2>5 DEF Fine, NothingMadeUp
<1>4. CASE \E i \in Items : RemoveDestination(i)
  BY <1>4 DEF RemoveDestination, table, callers, history,
              Fine, Grows, NothingMadeUp, Untouched, TypeOK
<1>5. CASE \E c \in Callers : Interrupt(c)
  BY <1>5 DEF Interrupt, table, history, Fine, Grows, NothingMadeUp, Untouched, TypeOK
<1>6. CASE UNCHANGED vars
  BY <1>6 DEF vars, history, Fine, Grows, NothingMadeUp, Untouched, TypeOK
<1> QED BY <1>1, <1>2, <1>3, <1>4, <1>5, <1>6

LEMMA StepFine == TypeOK /\ NothingMadeUp /\ [Next]_vars => Fine
BY CallerFine, EnqueueFine, OtherFine DEF Next

LEMMA InitMadeUp == Init => NothingMadeUp
BY DEF Init, NothingMadeUp, Untouched

----------------------------------------------------------------------------
(* What was done to the queue, as the ledger sees it.                      *)
LEMMA InitLedger == Init => Ledger!Init
<1> SUFFICES ASSUME Init PROVE Ledger!Init
  OBVIOUS
<1>1. 1 .. lastItem = {}
  BY DEF Init
<1>2. \A i \in Items : ~ (failures[i] >= MaxRetries) /\ row[i].status # "gone"
  BY BoundsAssumption DEF Init
<1> QED BY <1>1, <1>2 DEF Ledger!Init, Init

Excused == discarded \cup {i \in Items : failures[i] >= MaxRetries}

LEMMA StepLedger ==
  ASSUME IInv, IInv', NothingMadeUp, NothingMadeUp', Grows
  PROVE  [Ledger!Next]_(Ledger!ledger)
<1>1. /\ lastItem \in Nat /\ lastItem <= MaxItems
      /\ \A i \in Items : failures[i] \in Nat /\ failures'[i] \in Nat
      /\ delivered' \subseteq Items /\ discarded' \subseteq Items
      /\ MaxRetries \in Nat \ {0}
  BY BoundsAssumption DEF IInv, TypeOK
<1>2. Excused \subseteq Excused' /\ Excused' \subseteq Items
  BY <1>1 DEF Grows, Excused
<1>3. delivered' \subseteq 1 .. lastItem /\ Excused' \subseteq 1 .. lastItem
  <2> SUFFICES ASSUME NEW i \in Items, i \notin 1 .. lastItem
               PROVE  i \notin delivered' /\ i \notin Excused'
    BY <1>1, <1>2
  <2>1. i > lastItem
    BY <1>1 DEF Items
  <2>2. CASE lastItem' = lastItem
    <3>1. /\ i \notin delivered' /\ i \notin discarded' /\ failures'[i] = 0
      BY <2>1, <2>2 DEF NothingMadeUp, Untouched
    <3> QED BY <1>1, <3>1 DEF Excused
  <2>3. CASE UNCHANGED <<delivered, discarded, failures>>
    <3>1. /\ i \notin delivered /\ i \notin discarded /\ failures[i] = 0
      BY <2>1 DEF NothingMadeUp, Untouched
    <3> QED BY <1>1, <2>3, <3>1 DEF Excused
  <2> QED BY <2>2, <2>3 DEF Grows
<1>4. {i \in Items : row'[i].status = "gone"} \subseteq delivered' \cup Excused'
  BY DEF IInv, NoSilentLoss, Excused
<1>5. {i \in Items : row[i].status = "gone"} \subseteq {i \in Items : row'[i].status = "gone"}
  BY DEF Grows
<1>6. \/ 1 .. lastItem' = 1 .. lastItem
      \/ \E e \in Items : e \notin 1 .. lastItem /\ 1 .. lastItem' = (1 .. lastItem) \cup {e}
  <2>1. CASE lastItem' = lastItem + 1 /\ lastItem + 1 \in Items
    BY <1>1, <2>1
  <2> QED BY <2>1 DEF Grows
<1> QED BY <1>2, <1>3, <1>4, <1>5, <1>6
        DEF Grows, Excused, Ledger!Next, Ledger!Accept, Ledger!Deliver, Ledger!Excuse, Ledger!Forget

(* The fallback queue keeps the promise of a store-and-forward queue: what *)
(* it forgets undelivered was deleted by an operator or has failed         *)
(* MaxRetries times, and nothing it forgot comes back.                     *)
THEOREM ImplementsLedger == Spec => LedgerSpec
<1>1. IInv /\ NothingMadeUp /\ [Next]_vars => IInv' /\ NothingMadeUp' /\ Grows
  BY StepIInv, StepFine DEF IInv, Fine
<1>2. IInv /\ NothingMadeUp /\ [Next]_vars => [Ledger!Next]_(Ledger!ledger)
  BY <1>1, StepLedger
<1> QED BY InitIInv, InitMadeUp, InitLedger, <1>1, <1>2, PTL DEF Spec, LedgerSpec, Ledger!Spec

----------------------------------------------------------------------------
(* The attempts still to come.  A caller may start one for a row that      *)
(* waits in its batch, a flusher later on one for each count the row can   *)
(* still be found pending with; a row found pending again has a higher     *)
(* count than before, unless a write was lost.                             *)
Waits(c, i) ==
  i \in batch[c] /\ ~ (pc[c] \in {"sending", "accepted", "refused"} /\ Current(c, i))

Loads(i, k) ==
  \/ row[i].status = "none"
  \/ row[i].status = "pending" /\ k >= row[i].retries
  \/ row[i].status \in {"sending", "sent", "failed"} /\ k > row[i].retries

Chances(i) ==
  {p \in Flushers \X (0 .. MaxRetries - 1) :
     \/ Waits(p[1], i) /\ seen[p[1]][i] = p[2]
     \/ Loads(i, p[2])}
Requests(i) == {r \in Retriers : Waits(r, i)}

Budget    == MaxRetries * Cardinality(Flushers) + manual + faults
Spent(i)  == sends[i] + Cardinality(Chances(i)) + Cardinality(Requests(i))

Created      ==
  \A i \in Items : IF i > lastItem THEN row[i].status = "none" /\ row[i].retries = 0
                                   ELSE row[i].status # "none"
SeenBehind   == \A c \in Callers, i \in Items : seen[c][i] <= row[i].retries
WithinBudget == \A i \in Items : Spent(i) <= Budget

BInv == Created /\ SeenBehind /\ WithinBudget

LEMMA ChancesFinite ==
  ASSUME NEW i
  PROVE  /\ IsFiniteSet(Chances(i)) /\ Cardinality(Chances(i)) \in Nat
         /\ IsFiniteSet(Chances(i)') /\ Cardinality(Chances(i)') \in Nat
         /\ IsFiniteSet(Requests(i)) /\ Cardinality(Requests(i)) \in Nat
         /\ IsFiniteSet(Requests(i)') /\ Cardinality(Requests(i)') \in Nat
         /\ Cardinality(Chances(i)) <= MaxRetries * Cardinality(Flushers)
<1>1. IsFiniteSet(0 .. MaxRetries - 1) /\ Cardinality(0 .. MaxRetries - 1) = MaxRetries
  BY BoundsAssumption, FS_Interval
<1>2. /\ IsFiniteSet(Flushers \X (0 .. MaxRetries - 1))
      /\ Cardinality(Flushers \X (0 .. MaxRetries - 1)) = Cardinality(Flushers) * MaxRetries
  BY <1>1, CallersAssumption, FS_Product
<1>3. /\ Chances(i) \in SUBSET (Flushers \X (0 .. MaxRetries - 1))
      /\ Chances(i)' \in SUBSET (Flushers \X (0 .. MaxRetries - 1))
      /\ Requests(i) \in SUBSET Retriers /\ Requests(i)' \in SUBSET Retriers
  BY DEF Chances, Requests
<1>4. Cardinality(Flushers) \in Nat
  BY CallersAssumption, FS_CardinalityType
<1>5. Cardinality(Chances(i)) <= Cardinality(Flushers) * MaxRetries
  BY <1>2, <1>3, FS_Subset
<1>6. Cardinality(Flushers) * MaxRetries = MaxRetries * Cardinality(Flushers)
  BY <1>4, BoundsAssumption
<1> QED BY <1>2, <1>3, <1>5, <1>6, CallersAssumption, FS_Subset, FS_CardinalityType

(* A step that opens no chance keeps within the budget; so does one that   *)
(* uses a chance or a request up, or loses a write, for the attempt it     *)
(* starts, and a request that is counted.                                  *)
LEMMA SpendingStays ==
  ASSUME TypeOK, TypeOK', NEW i \in Items, Spent(i) <= Budget,
         Chances(i)' \subseteq Chances(i),
         manual' >= manual, faults' >= faults,
         \/ sends'[i] = sends[i] /\ Requests(i)' \subseteq Requests(i)
         \/ /\ sends'[i] = sends[i] /\ manual' = manual + 1
            /\ \E r : Requests(i)' \subseteq Requests(i) \cup {r}
         \/ /\ sends'[i] = sends[i] + 1 /\ Requests(i)' \subseteq Requests(i)
            /\ \/ faults' = faults + 1
               \/ \E p \in Chances(i) : p \notin Chances(i)'
               \/ \E r \in Requests(i) : r \notin Requests(i)'
  PROVE  (Spent(i) <= Budget)'
<1> DEFINE C == Cardinality(Chances(i))
           R == Cardinality(Requests(i))
<1>1. C \in Nat /\ R \in Nat /\ C' \in Nat /\ R' \in Nat /\ C' <= C
  BY ChancesFinite, FS_Subset
<1>2. /\ sends[i] \in Nat /\ sends'[i] \in Nat
      /\ manual \in Nat /\ faults \in Nat /\ manual' \in Nat /\ faults' \in Nat
  BY DEF TypeOK
<1>3. MaxRetries * Cardinality(Flushers) \in Nat
  BY BoundsAssumption, CallersAssumption, FS_CardinalityType
<1>4. Requests(i)' \subseteq Requests(i) => R' <= R
  BY ChancesFinite, FS_Subset
<1>5. (\E r : Requests(i)' \subseteq Requests(i) \cup {r}) => R' <= R + 1
  BY ChancesFinite, OneMore
<1>6. (\E p \in Chances(i) : p \notin Chances(i)') => C' <= C - 1
  <2> SUFFICES ASSUME NEW p \in Chances(i), p \notin Chances(i)' PROVE C' <= C - 1
    OBVIOUS
  <2>1. Chances(i)' \subseteq Chances(i) \ {p}
    OBVIOUS
  <2>2. IsFiniteSet(Chances(i) \ {p}) /\ Cardinality(Chances(i) \ {p}) = C - 1
    BY ChancesFinite, FS_RemoveElement
  <2> QED BY <2>1, <2>2, FS_Subset
<1>7. (\E r \in Requests(i) : r \notin Requests(i)') /\ Requests(i)' \subseteq Requests(i) => R' <= R - 1
  <2> SUFFICES ASSUME NEW r \in Requests(i), r \notin Requests(i)', Requests(i)' \subseteq Requests(i)
               PROVE  R' <= R - 1
    OBVIOUS
  <2>1. Requests(i)' \subseteq Requests(i) \ {r}
    OBVIOUS
  <2>2. IsFiniteSet(Requests(i) \ {r}) /\ Cardinality(Requests(i) \ {r}) = R - 1
    BY ChancesFinite, FS_RemoveElement
  <2> QED BY <2>1, <2>2, FS_Subset
<1> DEFINE M == MaxRetries * Cardinality(Flushers)
<1>8. sends[i] + C + R <= M + manual + faults
  BY DEF Spent, Budget
<1> SUFFICES sends'[i] + C' + R' <= M + manual' + faults'
  BY DEF Spent, Budget
<1> HIDE DEF C, R, M
<1>9. M \in Nat
  BY <1>3 DEF M
<1> QED BY <1>1, <1>2, <1>4, <1>5, <1>6, <1>7, <1>8, <1>9

(* What a step must leave: no row opens again at a count it had before.    *)
LoadsMove == \A j \in Items, k \in Nat : Loads(j, k)' => Loads(j, k)

RowsMove ==
  /\ LoadsMove
  /\ \A j \in Items : row'[j].retries >= row[j].retries
  /\ \A j \in Items : row[j].status = "none" => row'[j] = row[j]
  /\ \A j \in Items : row'[j].status = "none" => row[j].status = "none"

WaitersMove ==
  \A d \in Callers, j \in Items : Waits(d, j)' => Waits(d, j) /\ seen'[d][j] = seen[d][j]

LEMMA WriteMoves ==
  ASSUME TypeOK, NEW i \in Items,
         (\E s \in {"sending", "sent", "failed"} : Write(SetStatus(i, s))) \/ Write(IncrementRetry(i))
  PROVE  RowsMove
<1> USE DEF RowsMove, LoadsMove, Loads
<1>1. \A j \in Items : row[j].status \in Absent => row'[j] = row[j]
  BY WriteNeedsRow
<1>2. \A j \in Items : row[j].retries \in Nat /\ row[j].status \in Status \cup Absent
  BY DEF TypeOK
<1>3. ASSUME NEW s \in {"sending", "sent", "failed"}, Write(SetStatus(i, s)) PROVE RowsMove
  <2>1. /\ \A j \in Items : row'[j].retries = row[j].retries
        /\ \A j \in Items : row'[j].status = row[j].status \/ (j = i /\ row'[j].status = s)
    <3>1. s \in Status
      BY DEF Status
    <3> QED BY <1>3, <3>1, SetStatusEffect
  <2> QED BY <1>1, <1>2, <2>1 DEF Absent, Status
<1>4. CASE Write(IncrementRetry(i))
  <2>1. \A j \in Items :
          \/ row'[j] = row[j]
          \/ j = i /\ row'[j].status = "pending" /\ row'[j].retries = row[j].retries + 1
    BY <1>4, IncrementEffect
  <2> QED BY <1>1, <1>2, <2>1 DEF Absent, Status
<1> QED BY <1>3, <1>4

LEMMA AdvanceMoves ==
  ASSUME TypeOK, NEW c \in Callers, NEW i \in Items, Current(c, i), Advance(c, i)
  PROVE  WaitersMove
<1> SUFFICES ASSUME NEW d \in Callers, NEW j \in Items, Waits(d, j)'
             PROVE  Waits(d, j) /\ seen'[d][j] = seen[d][j]
  BY DEF WaitersMove
<1>1. CASE d = c
  <2>1. j \in batch[c] /\ j # i /\ batch[c] # {i}
    BY <1>1 DEF Advance, Waits, TypeOK
  <2>2. ~ Current(c, j)
    BY <2>1, CurrentUnique
  <2> QED BY <1>1, <2>1, <2>2 DEF Advance, Waits
<1>2. CASE d # c
  <2>1. batch'[d] = batch[d] /\ pc'[d] = pc[d] /\ seen'[d] = seen[d]
    BY <1>2 DEF Advance, TypeOK
  <2> QED BY <2>1 DEF Waits, Current
<1> QED BY <1>1, <1>2

LEMMA AttemptMoves ==
  ASSUME TypeOK, NEW c \in Callers, NEW i \in Items, Current(c, i), UNCHANGED <<batch, seen>>,
         NEW l \in {"sending", "accepted", "refused"}, pc' = [pc EXCEPT ![c] = l]
  PROVE  WaitersMove /\ ~ Waits(c, i)'
<1>1. /\ pc'[c] = l /\ \A d \in Callers \ {c} : pc'[d] = pc[d]
      /\ \A d \in Callers, j \in Items : Current(d, j)' <=> Current(d, j)
  BY DEF TypeOK, Current
<1>2. \A j \in Items : j # i => ~ Current(c, j)
  BY CurrentUnique
<1> QED BY <1>1, <1>2 DEF Waits, WaitersMove

(* Then nobody gains a chance, and the counts in hand stay behind.         *)
LEMMA NoChanceOpens ==
  ASSUME LoadsMove, WaitersMove
  PROVE  \A j \in Items : Chances(j)' \subseteq Chances(j) /\ Requests(j)' \subseteq Requests(j)
<1> SUFFICES ASSUME NEW j \in Items
             PROVE  Chances(j)' \subseteq Chances(j) /\ Requests(j)' \subseteq Requests(j)
  OBVIOUS
<1>1. Flushers \subseteq Callers /\ Retriers \subseteq Callers /\ 0 .. MaxRetries - 1 \subseteq Nat
  BY BoundsAssumption DEF Callers
<1> QED BY <1>1 DEF Chances, Requests, LoadsMove, WaitersMove

LEMMA CallerSpends ==
  ASSUME IInv, TypeOK', NothingMadeUp, BInv, NEW c \in Callers, CallerStep(c)
  PROVE  BInv'
<1> USE DEF IInv
<1>1. PICK i \in Items :
        \/ GiveUp(c, i) \/ NoDestination(c, i) \/ BeginSend(c, i)
        \/ SendAccepted(c, i) \/ SendRefused(c, i)
        \/ RecordSent(c, i) \/ RecordRefusal(c, i)
  BY DEF CallerStep
<1>2. RowsMove
  <2>1. \/ row' = row
        \/ \E s \in {"sending", "sent", "failed"} : Write(SetStatus(i, s))
        \/ Write(IncrementRetry(i))
    BY <1>1 DEF GiveUp, NoDestination, BeginSend, SendAccepted, SendRefused, RecordSent,
                RecordRefusal, AfterRefusal, table
  <2>2. row' = row => RowsMove
    BY DEF RowsMove, LoadsMove, Loads, TypeOK
  <2> QED BY <2>1, <2>2, WriteMoves
<1>3. Current(c, i) /\ lastItem' = lastItem /\ manual' = manual
  BY <1>1 DEF GiveUp, NoDestination, BeginSend, SendAccepted, SendRefused, RecordSent,
              RecordRefusal, table, bounds
<1>4. WaitersMove
  <2>1. CASE Advance(c, i)
    BY <1>3, <2>1, AdvanceMoves
  <2>2. CASE UNCHANGED <<batch, seen>> /\ \E l \in {"sending", "accepted", "refused"} : pc' = [pc EXCEPT ![c] = l]
    BY <1>3, <2>2, AttemptMoves
  <2> QED BY <1>1, <2>1, <2>2 DEF GiveUp, NoDestination, BeginSend, SendAccepted, SendRefused,
                RecordSent, RecordRefusal
<1>5. Created'
  BY <1>2, <1>3 DEF BInv, Created, RowsMove
<1>6. SeenBehind'
  <2>1. \A d \in Callers, j \in Items : seen'[d][j] <= seen[d][j]
    <3>1. Advance(c, i) \/ seen' = seen
      BY <1>1 DEF GiveUp, NoDestination, BeginSend, SendAccepted, SendRefused, RecordSent, RecordRefusal
    <3> QED BY <3>1, AdvanceEffect DEF TypeOK
  <2> QED BY <1>2, <2>1 DEF BInv, SeenBehind, RowsMove, TypeOK
<1>7. \A j \in Items : Chances(j)' \subseteq Chances(j) /\ Requests(j)' \subseteq Requests(j)
  BY <1>2, <1>4, NoChanceOpens DEF RowsMove
<1>8. manual' >= manual /\ faults' >= faults /\ TypeOK /\ \A j \in Items : Spent(j) <= Budget
  BY <1>3, <1>1 DEF GiveUp, NoDestination, BeginSend, SendAccepted, SendRefused, RecordSent,
              RecordRefusal, Write, bounds, TypeOK, BInv, WithinBudget
<1>9. ASSUME NEW j \in Items, sends'[j] = sends[j] PROVE (Spent(j) <= Budget)'
  BY <1>7, <1>8, <1>9, SpendingStays
<1>10. ASSUME BeginSend(c, i) PROVE (Spent(i) <= Budget)'
  <2>1. /\ sends'[i] = sends[i] + 1 /\ pc[c] = "loop" /\ ~ Exhausted(c, i)
        /\ ~ Waits(c, i)' /\ Waits(c, i)
    <3>1. ~ Waits(c, i)'
      BY <1>3, <1>10, AttemptMoves DEF BeginSend
    <3> QED BY <1>3, <1>10, <3>1 DEF BeginSend, Waits, Current, TypeOK
  <2>2. CASE faults' = faults + 1
    BY <1>7, <1>8, <2>1, <2>2, SpendingStays
  <2>3. CASE row' = SetStatus(i, "sending") /\ c \in Flushers
    <3>0. PICK k : k = seen[c][i]
      OBVIOUS
    <3>1. k \in 0 .. MaxRetries - 1 /\ k <= row[i].retries /\ row[i].retries \in Nat
      BY <2>1, <2>3, <3>0, BoundsAssumption DEF Exhausted, BInv, SeenBehind, TypeOK
    <3>2. <<c, k>> \in Chances(i)
      BY <2>1, <2>3, <3>0, <3>1 DEF Chances
    <3>3. ~ Loads(i, k)'
      <4>1. i <= lastItem /\ row[i].status # "none"
        BY <1>3 DEF NothingMadeUp, Untouched, Current, BInv, Created, Items, TypeOK
      <4>2. \/ row'[i].status = "sending" /\ row'[i].retries = row[i].retries
            \/ row'[i] = row[i] /\ row[i].status \in Absent
        BY <2>3 DEF SetStatus, Stored, TypeOK
      <4> QED BY <3>1, <4>1, <4>2 DEF Loads, Absent
    <3>4. <<c, k>> \notin Chances(i)'
      BY <2>1, <3>3 DEF Chances
    <3> QED BY <1>7, <1>8, <2>1, <3>2, <3>4, SpendingStays
  <2>4. CASE c \in Retriers
    <3>1. c \in Requests(i) /\ c \notin Requests(i)'
      BY <2>1, <2>4 DEF Requests
    <3> QED BY <1>7, <1>8, <2>1, <3>1, SpendingStays
  <2> QED BY <1>10, <2>2, <2>3, <2>4 DEF BeginSend, Write, Callers
<1>11. WithinBudget'
  <2>1. ~ BeginSend(c, i) => sends' = sends
    BY <1>1 DEF GiveUp, NoDestination, SendAccepted, SendRefused, RecordSent, RecordRefusal, history
  <2>2. BeginSend(c, i) => \A j \in Items \ {i} : sends'[j] = sends[j]
    BY DEF BeginSend, TypeOK
  <2> QED BY <1>9, <1>10, <2>1, <2>2 DEF WithinBudget
<1> QED BY <1>5, <1>6, <1>11 DEF BInv

(* Steps that start no attempt and take no rows.                           *)
LEMMA NothingSpent ==
  ASSUME TypeOK, TypeOK', BInv, LoadsMove, WaitersMove,
         sends' = sends, manual' >= manual, faults' >= faults
  PROVE  WithinBudget'
<1>1. \A j \in Items : Chances(j)' \subseteq Chances(j) /\ Requests(j)' \subseteq Requests(j)
  BY NoChanceOpens
<1>2. \A j \in Items : Spent(j) <= Budget
  BY DEF BInv, WithinBudget
<1>3. ASSUME NEW j \in Items PROVE (Spent(j) <= Budget)'
  BY <1>1, <1>2, SpendingStays
<1> QED BY <1>3 DEF WithinBudget

LEMMA EnqueueSpends ==
  ASSUME IInv, TypeOK', BInv, Enqueue
  PROVE  BInv'
<1> DEFINE created == [row EXCEPT ![lastItem + 1] = [status |-> "pending", retries |-> 0]]
<1>1. PICK aged \in SUBSET (Finished(created, "sent") \cup Finished(created, "failed")) :
        row' = Pruned(created, aged)
  BY DEF Enqueue
<1>t. TypeOK
  BY DEF IInv
<1>2. /\ lastItem + 1 \in Items /\ lastItem' = lastItem + 1 /\ lastItem \in Nat
      /\ UNCHANGED <<batch, seen, pc, manual, faults, sends>>
  BY <1>t, BoundsAssumption DEF Enqueue, TypeOK, Items, callers, history, bounds
<1>3. /\ created \in [Items -> [status : Status \cup Absent, retries : Nat]]
      /\ created[lastItem + 1].status = "pending" /\ created[lastItem + 1].retries = 0
      /\ \A j \in Items \ {lastItem + 1} : created[j] = row[j]
  BY <1>2, <1>t DEF TypeOK, Status
<1>4. row[lastItem + 1].status = "none" /\ row[lastItem + 1].retries = 0
  BY <1>2 DEF BInv, Created, Items
<1> HIDE DEF created
<1>5. \A j \in Items : /\ row'[j].retries = created[j].retries
                       /\ \/ row'[j].status = created[j].status
                          \/ created[j].status \in {"sent", "failed"} /\ row'[j].status = "gone"
  BY <1>1, <1>3, PrunedEffect
<1>6. LoadsMove
  <2> SUFFICES ASSUME NEW j \in Items, NEW k \in Nat, Loads(j, k)' PROVE Loads(j, k)
    BY DEF LoadsMove
  <2>1. CASE j = lastItem + 1
    BY <1>4, <2>1 DEF Loads
  <2>2. CASE j # lastItem + 1
    BY <1>3, <1>5, <2>2 DEF Loads
  <2> QED BY <2>1, <2>2
<1>7. WaitersMove
  BY <1>2 DEF WaitersMove, Waits, Current
<1>8. SeenBehind'
  BY <1>2, <1>3, <1>4, <1>5 DEF BInv, SeenBehind
<1>9. Created'
  BY <1>2, <1>3, <1>5 DEF BInv, Created, Items
<1>10. manual' >= manual /\ faults' >= faults
  BY <1>2, <1>t DEF TypeOK
<1>11. WithinBudget'
  BY <1>2, <1>t, <1>6, <1>7, <1>10, NothingSpent
<1> QED BY <1>8, <1>9, <1>11 DEF BInv

(* A flush finds pending rows only: the chances were there before it.      *)
LEMMA FlushSpends ==
  ASSUME IInv, TypeOK', BInv, NEW f \in Flushers, StartFlush(f)
  PROVE  BInv'
<1>1. /\ batch' = [batch EXCEPT ![f] = {i \in Items : Loadable(i)}]
      /\ seen' = [seen EXCEPT ![f] = [i \in Items |-> row[i].retries]]
      /\ pc' = [pc EXCEPT ![f] = "loop"]
      /\ UNCHANGED <<row, lastItem, manual, faults, sends>>
      /\ f \in Callers /\ f \notin Retriers /\ TypeOK
  BY CallersAssumption DEF StartFlush, table, bounds, history, Callers, IInv
<1>2. \A d \in Callers \ {f} : batch'[d] = batch[d] /\ seen'[d] = seen[d] /\ pc'[d] = pc[d]
  BY <1>1 DEF TypeOK
<1>3. \A j \in Items : seen'[f][j] = row[j].retries /\ (Waits(f, j)' => row[j].status = "pending")
  BY <1>1 DEF TypeOK, Waits, Loadable
<1>4. Created' /\ SeenBehind'
  BY <1>1, <1>2, <1>3 DEF BInv, Created, SeenBehind, TypeOK
<1>5. ASSUME NEW j \in Items
      PROVE  Chances(j)' \subseteq Chances(j) /\ Requests(j)' \subseteq Requests(j)
  <2>1. \A d \in Callers \ {f} : Waits(d, j)' => Waits(d, j)
    BY <1>2 DEF Waits, Current
  <2>2. \A k : Loads(j, k)' = Loads(j, k)
    BY <1>1 DEF Loads
  <2>3. Waits(f, j)' => Loads(j, seen'[f][j])
    BY <1>1, <1>3 DEF Loads, TypeOK
  <2>4. Flushers \subseteq Callers /\ Retriers \subseteq Callers \ {f}
    BY <1>1 DEF Callers
  <2> QED BY <1>2, <2>1, <2>2, <2>3, <2>4 DEF Chances, Requests
<1>6. manual' >= manual /\ faults' >= faults /\ \A j \in Items : Spent(j) <= Budget
  BY <1>1 DEF TypeOK, BInv, WithinBudget
<1>7. ASSUME NEW j \in Items PROVE (Spent(j) <= Budget)'
  BY <1>1, <1>5, <1>6, SpendingStays
<1> QED BY <1>4, <1>7 DEF BInv, WithinBudget

(* A manual retry is counted, and has one row in hand.                     *)
LEMMA RetrySpends ==
  ASSUME IInv, TypeOK', BInv, NEW r \in Retriers, NEW i \in Items, StartRetry(r, i)
  PROVE  BInv'
<1>1. /\ batch' = [batch EXCEPT ![r] = {i}]
      /\ seen' = [seen EXCEPT ![r] = [j \in Items |-> row[j].retries]]
      /\ pc' = [pc EXCEPT ![r] = "loop"] /\ manual' = manual + 1
      /\ UNCHANGED <<row, lastItem, faults, sends>>
      /\ r \in Callers /\ r \notin Flushers /\ TypeOK
  BY CallersAssumption DEF StartRetry, table, history, Callers, IInv
<1>2. \A d \in Callers \ {r} : batch'[d] = batch[d] /\ seen'[d] = seen[d] /\ pc'[d] = pc[d]
  BY <1>1 DEF TypeOK
<1>3. \A j \in Items : seen'[r][j] = row[j].retries
  BY <1>1 DEF TypeOK
<1>4. Created' /\ SeenBehind'
  BY <1>1, <1>2, <1>3 DEF BInv, Created, SeenBehind, TypeOK
<1>5. ASSUME NEW j \in Items
      PROVE  Chances(j)' \subseteq Chances(j) /\ Requests(j)' \subseteq Requests(j) \cup {r}
  <2>1. \A d \in Callers \ {r} : Waits(d, j)' => Waits(d, j)
    BY <1>2 DEF Waits, Current
  <2>2. \A k : Loads(j, k)' = Loads(j, k)
    BY <1>1 DEF Loads
  <2>3. Flushers \subseteq Callers \ {r} /\ Retriers \subseteq Callers
    BY <1>1 DEF Callers
  <2> QED BY <1>2, <2>1, <2>2, <2>3 DEF Chances, Requests
<1>6. manual' >= manual /\ faults' >= faults /\ \A j \in Items : Spent(j) <= Budget
  BY <1>1 DEF TypeOK, BInv, WithinBudget
<1>7. ASSUME NEW j \in Items PROVE (Spent(j) <= Budget)'
  BY <1>1, <1>5, <1>6, SpendingStays
<1> QED BY <1>4, <1>7 DEF BInv, WithinBudget

LEMMA OtherSpends ==
  ASSUME IInv, TypeOK', BInv,
         \/ \E i \in Items : Discard(i) \/ RemoveDestination(i)
         \/ \E c \in Callers : Interrupt(c)
         \/ UNCHANGED vars
  PROVE  BInv'
<1>1. TypeOK /\ lastItem' = lastItem /\ sends' = sends /\ manual' >= manual /\ faults' >= faults
  BY DEF Discard, RemoveDestination, Interrupt, vars, table, bounds, history, IInv, TypeOK
<1>2. RowsMove
  <2>1. CASE row' = row
    BY <1>1, <2>1 DEF RowsMove, LoadsMove, Loads, TypeOK
  <2>2. ASSUME NEW i \in Items, Discard(i) PROVE RowsMove
    <3>0. row[i].status # "none" /\ row' = [row EXCEPT ![i].status = "gone"]
      BY <2>2 DEF Discard, Stored, Status
    <3>1. /\ row'[i].status = "gone" /\ row'[i].retries = row[i].retries /\ row[i].status # "none"
          /\ \A j \in Items \ {i} : row'[j] = row[j]
      BY <1>1, <3>0 DEF TypeOK
    <3>2. \A j \in Items : row[j].retries \in Nat
      BY <1>1 DEF TypeOK
    <3>3. LoadsMove
      BY <3>1, <3>2 DEF LoadsMove, Loads
    <3>4. \A j \in Items : row'[j].retries >= row[j].retries
      BY <3>1, <3>2
    <3> QED BY <3>1, <3>3, <3>4 DEF RowsMove
  <2> QED BY <2>1, <2>2 DEF RemoveDestination, Interrupt, vars, table
<1>3. WaitersMove /\ \A d \in Callers, j \in Items : seen'[d][j] <= seen[d][j]
  <2>1. CASE UNCHANGED <<pc, batch, seen>>
    BY <1>1, <2>1 DEF WaitersMove, Waits, Current, TypeOK
  <2>2. ASSUME NEW c \in Callers, Interrupt(c)
        PROVE  WaitersMove /\ \A d \in Callers, j \in Items : seen'[d][j] <= seen[d][j]
    <3>1. /\ batch'[c] = {} /\ \A j \in Items : seen'[c][j] = 0
          /\ \A d \in Callers \ {c} : batch'[d] = batch[d] /\ seen'[d] = seen[d] /\ pc'[d] = pc[d]
      <4>1. /\ batch' = [batch EXCEPT ![c] = {}] /\ seen' = [seen EXCEPT ![c] = Unseen]
            /\ pc' = [pc EXCEPT ![c] = "idle"] /\ \A j \in Items : Unseen[j] = 0
        BY <2>2 DEF Interrupt, Unseen
      <4> QED BY <1>1, <4>1 DEF TypeOK
    <3>2. WaitersMove
      BY <3>1 DEF WaitersMove, Waits, Current
    <3>3. \A d \in Callers, j \in Items : seen[d][j] \in Nat
      BY <1>1 DEF TypeOK
    <3> QED BY <3>1, <3>2, <3>3
  <2> QED BY <2>1, <2>2 DEF Discard, RemoveDestination, vars, callers
<1>4. Created' /\ SeenBehind'
  BY <1>1, <1>2, <1>3 DEF BInv, Created, SeenBehind, RowsMove, TypeOK
<1>5. WithinBudget'
  BY <1>1, <1>2, <1>3, NothingSpent DEF RowsMove
<1> QED BY <1>4, <1>5 DEF BInv

LEMMA InitBInv == Init => BInv
<1> SUFFICES ASSUME Init PROVE BInv
  OBVIOUS
<1>1. Created /\ SeenBehind
  BY DEF Init, Created, SeenBehind, Unseen, Items
<1>2. ASSUME NEW i \in Items PROVE Spent(i) <= Budget
  <2>1. Requests(i) = {}
    BY DEF Init, Requests, Waits, Callers
  <2>2. Cardinality(Requests(i)) = 0 /\ sends[i] = 0 /\ manual = 0 /\ faults = 0
    BY <2>1, FS_EmptySet DEF Init
  <2>3. MaxRetries * Cardinality(Flushers) \in Nat
    BY BoundsAssumption, CallersAssumption, FS_CardinalityType
  <2>4. Cardinality(Chances(i)) \in Nat /\ Cardinality(Chances(i)) <= MaxRetries * Cardinality(Flushers)
    BY ChancesFinite
  <2> QED BY <2>2, <2>3, <2>4 DEF Spent, Budget
<1> QED BY <1>1, <1>2 DEF BInv, WithinBudget

(* A destination is offered a payload at most once by each flusher for     *)
(* each count below the limit, and once for each manual retry and each     *)
(* lost write, however stale the snapshots are that the flushers work on.  *)
THEOREM OffersBounded == Spec => []AttemptsBounded
<1>1. IInv /\ NothingMadeUp /\ BInv /\ [Next]_vars => IInv' /\ NothingMadeUp' /\ BInv'
  <2> SUFFICES ASSUME IInv, NothingMadeUp, BInv, [Next]_vars PROVE IInv' /\ NothingMadeUp' /\ BInv'
    OBVIOUS
  <2>1. IInv' /\ NothingMadeUp' /\ TypeOK'
    BY StepIInv, StepFine DEF IInv, Fine
  <2> QED BY <2>1, CallerSpends, EnqueueSpends, FlushSpends, RetrySpends, OtherSpends DEF Next
<1>2. IInv /\ BInv => AttemptsBounded
  <2> SUFFICES ASSUME IInv, BInv, NEW i \in Items
               PROVE  sends[i] <= MaxRetries * Cardinality(Flushers) + manual + faults
    BY DEF AttemptsBounded
  <2>1. MaxRetries * Cardinality(Flushers) \in Nat
    BY BoundsAssumption, CallersAssumption, FS_CardinalityType
  <2>2. sends[i] + Cardinality(Chances(i)) + Cardinality(Requests(i)) <= Budget
    BY DEF BInv, WithinBudget, Spent
  <2>3. sends[i] <= Budget
    BY <2>1, <2>2, ChancesFinite DEF IInv, TypeOK, Budget
  <2> QED BY <2>3 DEF Budget
<1> QED BY InitIInv, InitMadeUp, InitBInv, <1>1, <1>2, PTL DEF Spec

=============================================================================
