----------------------- MODULE CircuitBreaker_proofs -----------------------
(***************************************************************************)
(* What CircuitBreaker's runs show on three deliveries holds for any       *)
(* number of deliveries, any threshold, cooldown and number of attempts.   *)
(***************************************************************************)
EXTENDS CircuitBreaker, FiniteSetTheorems, TLAPS

USE PolicyAssumption

LEMMA InitType == Init => TypeOK
  BY DEF Init, TypeOK, NoRow

LEMMA SaveFaults ==
  ASSUME TypeOK, NEW r, Save(r) PROVE faults' \in 0 .. MaxFaults
  BY DEF TypeOK, Save

(* Every step keeps the types; in particular no interleaving of reports    *)
(* stores a failure count at or above the threshold.                       *)
LEMMA StepType == TypeOK /\ [Next]_vars => TypeOK'
<1> SUFFICES ASSUME TypeOK, [Next]_vars PROVE TypeOK'
  OBVIOUS
<1> USE DEF TypeOK, Goto, Leave, History
<1>1. ASSUME NEW s \in Senders, Divert(s) PROVE TypeOK'
  BY <1>1 DEF Divert
<1>2. ASSUME NEW s \in Senders, Admit(s) PROVE TypeOK'
  <2>1. row' = row \/ row' = [row EXCEPT !.opened = FALSE]
    BY <1>2 DEF Admit, Save, Cleared
  <2>2. row' \in [failures : 0 .. Threshold - 1, opened : BOOLEAN, left : -1 .. Cooldown]
    BY <2>1
  <2>3. attempt' \in [Senders -> 1 .. Attempts]
    BY <1>2 DEF Admit
  <2>4. faults' \in 0 .. MaxFaults
    BY <1>2, SaveFaults DEF Admit
  <2> QED
    BY <1>2, <2>2, <2>3, <2>4 DEF Admit
<1>3. ASSUME NEW s \in Senders, Deliver(s) PROVE TypeOK'
  <2>1. CASE BeginAttempt(s)
    BY <2>1 DEF BeginAttempt
  <2>2. CASE AttemptSucceeds(s)
    BY <2>2 DEF AttemptSucceeds
  <2>3. CASE AttemptFails(s)
    <3>1. CASE IsLast(s)
      BY <2>3, <3>1 DEF AttemptFails
    <3>2. CASE ~ IsLast(s) /\ Goto(s, "waiting") /\ UNCHANGED attempt
      BY <2>3, <3>2 DEF AttemptFails, IsLast
    <3>3. CASE /\ ~ IsLast(s) /\ Goto(s, "admitted")
               /\ attempt' = [attempt EXCEPT ![s] = @ + 1]
      <4>1. attempt[s] + 1 \in 1 .. Attempts
        BY <3>3 DEF IsLast
      <4>2. /\ attempt' = [attempt EXCEPT ![s] = attempt[s] + 1]
            /\ pc' = [pc EXCEPT ![s] = "admitted"]
        BY <3>3
      <4>3. attempt' \in [Senders -> 1 .. Attempts]
        BY <4>1, <4>2
      <4> QED
        BY <2>3, <4>2, <4>3 DEF AttemptFails
    <3> QED
      BY <2>3, <3>1, <3>2, <3>3 DEF AttemptFails
  <2>4. CASE PauseEnds(s)
    <3>1. attempt[s] + 1 \in 1 .. Attempts
      BY <2>4 DEF PauseEnds
    <3>2. /\ attempt' = [attempt EXCEPT ![s] = attempt[s] + 1]
          /\ pc' = [pc EXCEPT ![s] = "admitted"]
      BY <2>4 DEF PauseEnds
    <3>3. attempt' \in [Senders -> 1 .. Attempts]
      BY <3>1, <3>2
    <3> QED
      BY <2>4, <3>2, <3>3 DEF PauseEnds
  <2>5. CASE CancelPause(s)
    BY <2>5 DEF CancelPause
  <2>6. CASE RecordSuccess(s)
    <3>1. row' \in [failures : 0 .. Threshold - 1, opened : BOOLEAN, left : -1 .. Cooldown]
      <4>1. NoRow \in [failures : 0 .. Threshold - 1, opened : BOOLEAN, left : -1 .. Cooldown]
        BY DEF NoRow
      <4> QED
        BY <2>6, <4>1 DEF RecordSuccess, Save, AfterSuccess
    <3>2. faults' \in 0 .. MaxFaults
      BY <2>6, SaveFaults DEF RecordSuccess
    <3>3. stragglers' \subseteq Senders /\ sentOpen' \in Nat
      BY <2>6 DEF RecordSuccess, StillOpen
    <3> QED
      BY <2>6, <3>1, <3>2, <3>3 DEF RecordSuccess
  <2>7. CASE RecordFailure(s)
    <3>1. row' \in [failures : 0 .. Threshold - 1, opened : BOOLEAN, left : -1 .. Cooldown]
      <4>1. AfterFailure \in [failures : 0 .. Threshold - 1, opened : BOOLEAN, left : -1 .. Cooldown]
        <5>1. CASE row.failures + 1 >= Threshold
          BY <5>1 DEF AfterFailure
        <5>2. CASE ~ (row.failures + 1 >= Threshold)
          <6>1. row.failures + 1 \in 0 .. Threshold - 1
            BY <5>2
          <6> QED
            BY <5>2, <6>1 DEF AfterFailure
        <5> QED
          BY <5>1, <5>2
      <4>2. row' = AfterFailure \/ row' = row
        BY <2>7 DEF RecordFailure, Save
      <4> QED
        BY <4>1, <4>2
    <3>2. streak' \in 0 .. Threshold /\ opener' \in 0 .. Threshold
      BY <2>7 DEF RecordFailure, NextStreak
    <3>3. stragglers' \subseteq Senders /\ sentOpen' \in Nat
      BY <2>7 DEF RecordFailure, Busy
    <3>4. faults' \in 0 .. MaxFaults
      BY <2>7, SaveFaults DEF RecordFailure
    <3> QED
      BY <2>7, <3>1, <3>2, <3>3, <3>4 DEF RecordFailure
  <2>8. CASE Return(s)
    BY <2>8 DEF Return
  <2> QED
    BY <1>3, <2>1, <2>2, <2>3, <2>4, <2>5, <2>6, <2>7, <2>8 DEF Deliver
<1>4. ASSUME Tick PROVE TypeOK'
  <2>1. row.left - 1 \in -1 .. Cooldown
    BY <1>4 DEF Tick
  <2>2. stragglers' \subseteq Senders /\ sentOpen' \in Nat
    BY <1>4 DEF Tick, StillOpen
  <2> QED
    BY <1>4, <2>1, <2>2 DEF Tick
<1>5. ASSUME Restart PROVE TypeOK'
  BY <1>5 DEF Restart
<1>6. ASSUME UNCHANGED vars PROVE TypeOK'
  BY <1>6 DEF vars
<1> QED
  BY <1>1, <1>2, <1>3, <1>4, <1>5, <1>6 DEF Next

(* The stored failure count stays below the threshold, whatever deliveries *)
(* overlap and whatever writes are lost.                                   *)
THEOREM TypeCorrect == Spec => []TypeOK
  BY InitType, StepType, PTL DEF Spec

----------------------------------------------------------------------------
(* Deliveries that take a step of their own stay within Busy; only Admit   *)
(* adds one.                                                               *)
LEMMA DeliverBusy ==
  ASSUME TypeOK, NEW s \in Senders, Deliver(s) PROVE Busy' \subseteq Busy
  BY DEF TypeOK, Busy, Goto, Leave, Deliver, BeginAttempt, AttemptSucceeds, AttemptFails, PauseEnds,
         CancelPause, RecordSuccess, RecordFailure, Return

LEMMA StepAdmitted ==
  TypeOK /\ AdmittedBeforeOpening /\ [Next]_vars => AdmittedBeforeOpening'
<1> SUFFICES ASSUME TypeOK, AdmittedBeforeOpening, [Next]_vars, Open(row)'
             PROVE  Busy' \subseteq stragglers'
  BY DEF AdmittedBeforeOpening
<1>1. ASSUME NEW s \in Senders, Divert(s) PROVE Busy' \subseteq stragglers'
  BY <1>1 DEF Divert, Goto, History, Busy, TypeOK, AdmittedBeforeOpening, Open
<1>2. ASSUME NEW s \in Senders, Admit(s) PROVE FALSE
  BY <1>2 DEF Admit, Admits, Save, Cleared, Open, TypeOK
<1>3. ASSUME NEW s \in Senders, Deliver(s) PROVE Busy' \subseteq stragglers'
  <2>1. Busy' \subseteq Busy
    BY <1>3, DeliverBusy
  <2>2. CASE RecordFailure(s)
    <3>1. CASE Open(row)
      BY <2>1, <2>2, <3>1 DEF RecordFailure, AdmittedBeforeOpening
    <3>2. CASE ~ Open(row)
      <4>1. stragglers' = Busy \ {s}
        BY <2>2, <3>2 DEF RecordFailure, Open
      <4>2. s \notin Busy'
        BY <2>2 DEF RecordFailure, Leave, Goto, Busy, TypeOK
      <4> QED
        BY <2>1, <4>1, <4>2
    <3> QED
      BY <3>1, <3>2
  <2>3. CASE RecordSuccess(s)
    <3>1. row' = row /\ stragglers' = stragglers
      BY <2>3 DEF RecordSuccess, StillOpen, Save, AfterSuccess, NoRow, Open
    <3> QED
      BY <2>1, <3>1 DEF Open, AdmittedBeforeOpening
  <2>4. CASE UNCHANGED row /\ UNCHANGED stragglers
    BY <2>1, <2>4 DEF Open, AdmittedBeforeOpening
  <2> QED
    BY <1>3, <2>2, <2>3, <2>4 DEF Deliver, History, BeginAttempt, AttemptSucceeds,
       AttemptFails, PauseEnds, CancelPause, Return
<1>4. ASSUME Tick PROVE Busy' \subseteq stragglers'
  <2>1. Open(row) /\ stragglers' = stragglers /\ Busy' = Busy
    BY <1>4 DEF Tick, StillOpen, Open, Busy, TypeOK
  <2> QED
    BY <2>1 DEF AdmittedBeforeOpening
<1>5. ASSUME Restart PROVE Busy' \subseteq stragglers'
  BY <1>5 DEF Restart, Busy
<1>6. ASSUME UNCHANGED vars PROVE Busy' \subseteq stragglers'
  BY <1>6 DEF vars, Busy, Open, AdmittedBeforeOpening
<1> QED
  BY <1>1, <1>2, <1>3, <1>4, <1>5, <1>6 DEF Next

(* No delivery is admitted between a check and an opening: one that is     *)
(* under way while the breaker is open was under way when it opened.       *)
THEOREM NoneSlipsIn == Spec => []AdmittedBeforeOpening
<1>1. Init => AdmittedBeforeOpening
  BY DEF Init, NoRow, Open, AdmittedBeforeOpening
<1> QED
  BY <1>1, TypeCorrect, StepAdmitted, PTL DEF Spec

----------------------------------------------------------------------------
(* While no access to the store has failed, the stored count is the real   *)
(* one.                                                                    *)
CountIsStreak == faults = 0 => row.failures = streak
StreakInv == TypeOK /\ CountIsStreak /\ OpensOnlyOnStreak

LEMMA StepStreak == StreakInv /\ [Next]_vars => StreakInv'
<1> SUFFICES ASSUME StreakInv, [Next]_vars PROVE StreakInv'
  OBVIOUS
<1> USE DEF StreakInv, CountIsStreak, OpensOnlyOnStreak
<1>1. TypeOK'
  BY StepType
<1>2. CASE faults' # 0
  BY <1>1, <1>2
<1>3. ASSUME faults' = 0, NEW s \in Senders, Admit(s)
      PROVE  (CountIsStreak /\ OpensOnlyOnStreak)'
  BY <1>3 DEF Admit, Save, Cleared, History, TypeOK
<1>4. ASSUME faults' = 0, NEW s \in Senders, RecordSuccess(s)
      PROVE  (CountIsStreak /\ OpensOnlyOnStreak)'
  BY <1>4 DEF RecordSuccess, Save, AfterSuccess, NoRow, TypeOK
<1>5. ASSUME faults' = 0, NEW s \in Senders, RecordFailure(s)
      PROVE  (CountIsStreak /\ OpensOnlyOnStreak)'
  <2>1. row' = AfterFailure /\ faults = 0
    BY <1>5 DEF RecordFailure, Save, TypeOK
  <2>2. row.failures = streak /\ streak < Threshold
    BY <2>1 DEF TypeOK
  <2>3. NextStreak = row.failures + 1
    BY <2>2 DEF NextStreak
  <2>4. CASE row.failures + 1 >= Threshold
    <3>1. row' = [failures |-> 0, opened |-> TRUE, left |-> Cooldown]
      BY <2>1, <2>4 DEF AfterFailure
    <3>2. opener' = NextStreak /\ streak' = 0
      BY <1>5, <2>1, <3>1 DEF RecordFailure
    <3>3. row.failures + 1 = Threshold
      BY <2>4 DEF TypeOK
    <3> QED
      BY <2>3, <3>1, <3>2, <3>3
  <2>5. CASE ~ (row.failures + 1 >= Threshold)
    <3>1. row' = [row EXCEPT !.failures = @ + 1]
      BY <2>1, <2>5 DEF AfterFailure
    <3>2. row'.failures = row.failures + 1 /\ row'.opened = row.opened /\ row'.failures # 0
      BY <3>1 DEF TypeOK
    <3>3. streak' = NextStreak /\ opener' = opener
      BY <1>5, <3>2 DEF RecordFailure
    <3> QED
      BY <2>1, <2>3, <3>2, <3>3
  <2> QED
    BY <2>4, <2>5
<1>6. ASSUME Tick PROVE (CountIsStreak /\ OpensOnlyOnStreak)'
  BY <1>6 DEF Tick, History, TypeOK
<1>7. ASSUME NEW s \in Senders, Divert(s), faults' = 0
      PROVE  (CountIsStreak /\ OpensOnlyOnStreak)'
  BY <1>7 DEF Divert, History, TypeOK
<1>8. CASE UNCHANGED <<row, streak, opener, faults>>
  BY <1>1, <1>8
<1> QED
  BY <1>1, <1>2, <1>3, <1>4, <1>5, <1>6, <1>7, <1>8 DEF Next, Deliver, BeginAttempt,
     AttemptSucceeds, AttemptFails, PauseEnds, CancelPause, Return, Restart, History, vars

(* As long as no access to the store has failed, the breaker opens exactly *)
(* on Threshold failed deliveries since the last success or opening.       *)
THEOREM OpensOnStreak == Spec => []OpensOnlyOnStreak
<1>1. Init => StreakInv
  BY InitType DEF Init, NoRow, StreakInv, CountIsStreak, OpensOnlyOnStreak
<1>2. StreakInv => OpensOnlyOnStreak
  BY DEF StreakInv
<1> QED
  BY <1>1, <1>2, StepStreak, PTL DEF Spec

----------------------------------------------------------------------------
(* The attempts that deliveries under way may still start.                 *)
Ahead ==
  {p \in Busy \X (1 .. Attempts) :
     \/ pc[p[1]] = "admitted" /\ p[2] >= attempt[p[1]]
     \/ pc[p[1]] \in {"sending", "waiting"} /\ p[2] > attempt[p[1]]}

(* What an open breaker still lets through has been promised already: an   *)
(* attempt that starts is one less ahead.                                  *)
Allowance == Cardinality(stragglers) * Attempts
LoadInv   == Open(row) => sentOpen + Cardinality(Ahead) <= Allowance

LEMMA AheadWithin ==
  ASSUME NEW S \in SUBSET Senders, NEW A \in SUBSET (S \X (1 .. Attempts))
  PROVE  /\ IsFiniteSet(A) /\ Cardinality(A) \in Nat
         /\ Cardinality(A) <= Cardinality(S) * Attempts
<1>1. IsFiniteSet(S) /\ IsFiniteSet(1 .. Attempts) /\ Cardinality(1 .. Attempts) = Attempts
  BY FS_Subset, FS_Interval
<1>2. /\ IsFiniteSet(S \X (1 .. Attempts))
      /\ Cardinality(S \X (1 .. Attempts)) = Cardinality(S) * Attempts
  BY <1>1, FS_Product
<1> QED BY <1>2, FS_Subset, FS_CardinalityType

LEMMA AheadFinite ==
  /\ IsFiniteSet(Ahead) /\ Cardinality(Ahead) \in Nat
  /\ IsFiniteSet(Ahead') /\ Cardinality(Ahead') \in Nat
<1>1. /\ Busy \in SUBSET Senders /\ Ahead \in SUBSET (Busy \X (1 .. Attempts))
      /\ Busy' \in SUBSET Senders /\ Ahead' \in SUBSET (Busy' \X (1 .. Attempts))
  BY DEF Busy, Ahead
<1> QED BY <1>1, AheadWithin

(* No step of a delivery adds to what is ahead, and an attempt that starts *)
(* is ahead no more.                                                       *)
LEMMA AheadShrinks ==
  ASSUME TypeOK, NEW s \in Senders, Deliver(s)
  PROVE  /\ Ahead' \subseteq Ahead
         /\ BeginAttempt(s) => <<s, attempt[s]>> \in Ahead \ Ahead'
<1>1. Busy' \subseteq Busy
  BY DeliverBusy
<1>2. ASSUME NEW t \in Busy', NEW k \in 1 .. Attempts, <<t, k>> \in Ahead'
      PROVE  <<t, k>> \in Ahead
  <2>1. /\ t \in Busy /\ t \in Senders
        /\ \/ pc'[t] = "admitted" /\ k >= attempt'[t]
           \/ pc'[t] \in {"sending", "waiting"} /\ k > attempt'[t]
    BY <1>1, <1>2 DEF Ahead, Busy
  <2>2. \/ pc[t] = "admitted" /\ k >= attempt[t]
        \/ pc[t] \in {"sending", "waiting"} /\ k > attempt[t]
    <3>1. CASE t # s
      BY <2>1, <3>1 DEF TypeOK, Goto, Leave, Deliver, BeginAttempt, AttemptSucceeds, AttemptFails,
         PauseEnds, CancelPause, RecordSuccess, RecordFailure, Return
    <3>2. CASE t = s
      BY <2>1, <3>2 DEF TypeOK, Goto, Leave, Deliver, BeginAttempt, AttemptSucceeds, AttemptFails,
         PauseEnds, CancelPause, RecordSuccess, RecordFailure, Return
    <3> QED BY <3>1, <3>2
  <2> QED BY <2>1, <2>2 DEF Ahead
<1>3. Ahead' \subseteq Ahead
  BY <1>2 DEF Ahead
<1>4. ASSUME BeginAttempt(s) PROVE <<s, attempt[s]>> \in Ahead \ Ahead'
  BY <1>4 DEF BeginAttempt, Goto, Ahead, Busy, TypeOK
<1> QED BY <1>3, <1>4

LEMMA StepLoad == TypeOK /\ LoadInv /\ [Next]_vars => LoadInv'
<1> SUFFICES ASSUME TypeOK, LoadInv, [Next]_vars, Open(row)'
             PROVE  (sentOpen + Cardinality(Ahead) <= Allowance)'
  BY DEF LoadInv
<1>n. Cardinality(Ahead) \in Nat /\ Cardinality(Ahead') \in Nat /\ sentOpen \in Nat
  BY AheadFinite DEF TypeOK
<1>1. ASSUME Open(row), Ahead' \subseteq Ahead, UNCHANGED <<stragglers, sentOpen>>
      PROVE  (sentOpen + Cardinality(Ahead) <= Allowance)'
  <2>1. Cardinality(Ahead') <= Cardinality(Ahead)
    BY <1>1, AheadFinite, FS_Subset
  <2>2. Allowance' = Allowance /\ sentOpen' = sentOpen
    BY <1>1 DEF Allowance
  <2>3. sentOpen + Cardinality(Ahead) <= Allowance
    BY <1>1 DEF LoadInv
  <2>4. Allowance \in Nat
    BY AheadWithin, FS_Subset, FS_CardinalityType DEF Allowance, TypeOK
  <2> QED BY <1>n, <2>1, <2>2, <2>3, <2>4
<1>2. ASSUME NEW s \in Senders, Admit(s) PROVE FALSE
  BY <1>2 DEF Admit, Admits, Save, Cleared, Open, TypeOK
<1>3. ASSUME NEW s \in Senders, RecordFailure(s), ~ Open(row)
      PROVE  (sentOpen + Cardinality(Ahead) <= Allowance)'
  <2>1. stragglers' = Busy \ {s} /\ sentOpen' = 0
    BY <1>3 DEF RecordFailure, Open
  <2>2. Busy' \subseteq Busy \ {s} /\ Busy \subseteq Senders
    BY <1>3 DEF RecordFailure, Leave, Goto, Busy, TypeOK
  <2>3. Ahead' \in SUBSET (stragglers' \X (1 .. Attempts)) /\ stragglers' \in SUBSET Senders
    BY <2>1, <2>2 DEF Ahead
  <2>4. Cardinality(Ahead') <= Allowance'
    BY <2>3, AheadWithin DEF Allowance
  <2> QED BY <1>n, <2>1, <2>4
<1>4. ASSUME NEW s \in Senders, BeginAttempt(s)
      PROVE  (sentOpen + Cardinality(Ahead) <= Allowance)'
  <2>1. Open(row) /\ sentOpen' = sentOpen + 1 /\ Allowance' = Allowance
    BY <1>4 DEF BeginAttempt, Open, Allowance
  <2>2. sentOpen + Cardinality(Ahead) <= Allowance
    BY <2>1 DEF LoadInv
  <2>3. Cardinality(Ahead') + 1 <= Cardinality(Ahead)
    <3>1. Ahead' \subseteq Ahead \ {<<s, attempt[s]>>} /\ <<s, attempt[s]>> \in Ahead
      BY <1>4, AheadShrinks DEF Deliver
    <3>2. /\ Cardinality(Ahead \ {<<s, attempt[s]>>}) = Cardinality(Ahead) - 1
          /\ IsFiniteSet(Ahead \ {<<s, attempt[s]>>})
      BY <3>1, AheadFinite, FS_RemoveElement
    <3>3. Cardinality(Ahead') <= Cardinality(Ahead \ {<<s, attempt[s]>>})
      BY <3>1, <3>2, FS_Subset
    <3> QED BY <1>n, <3>2, <3>3
  <2>4. Allowance \in Nat
    BY AheadWithin, FS_Subset, FS_CardinalityType DEF Allowance, TypeOK
  <2> QED BY <1>n, <2>1, <2>2, <2>3, <2>4
<1>5. ASSUME NEW s \in Senders, Deliver(s), ~ BeginAttempt(s), ~ (RecordFailure(s) /\ ~ Open(row))
      PROVE  (sentOpen + Cardinality(Ahead) <= Allowance)'
  <2>1. Ahead' \subseteq Ahead
    BY <1>5, AheadShrinks
  <2>2. Open(row) /\ UNCHANGED <<stragglers, sentOpen>>
    BY <1>5 DEF Deliver, AttemptSucceeds, AttemptFails, PauseEnds, CancelPause, Return, RecordSuccess,
       RecordFailure, StillOpen, Save, AfterSuccess, NoRow, Open, History
  <2> QED BY <1>1, <2>1, <2>2
<1>6. CASE Tick
  <2>1. Open(row) /\ UNCHANGED <<stragglers, sentOpen, pc, attempt>>
    BY <1>6 DEF Tick, StillOpen, Open, TypeOK
  <2> QED BY <1>1, <2>1 DEF Ahead, Busy
<1>7. CASE Restart
  <2>1. Open(row) /\ UNCHANGED <<stragglers, sentOpen>>
    BY <1>7 DEF Restart, Open, History
  <2>2. Ahead' \subseteq Ahead
    BY <1>7 DEF Restart, Ahead, Busy
  <2> QED BY <1>1, <2>1, <2>2
<1>8. ASSUME NEW s \in Senders, Divert(s)
      PROVE  (sentOpen + Cardinality(Ahead) <= Allowance)'
  <2>1. Open(row) /\ UNCHANGED <<stragglers, sentOpen, attempt>>
    BY <1>8 DEF Divert, Open, History
  <2>2. Busy' \subseteq Busy /\ \A t \in Busy : pc'[t] = pc[t]
    BY <1>8 DEF Divert, Goto, Busy, TypeOK
  <2> QED BY <1>1, <2>1, <2>2 DEF Ahead
<1>9. CASE UNCHANGED vars
  BY <1>1, <1>9 DEF vars, Ahead, Busy, Open
<1> QED BY <1>2, <1>3, <1>4, <1>5, <1>6, <1>7, <1>8, <1>9 DEF Next

(* While the breaker is open, the deliveries that were under way when it   *)
(* opened load the destination with no more than their own attempts.       *)
THEOREM LoadBounded == Spec => []LoadWhileOpenBounded
<1>1. Init => LoadInv
  BY DEF Init, NoRow, Open, LoadInv
<1>2. TypeOK /\ LoadInv => LoadWhileOpenBounded
  <2> SUFFICES ASSUME TypeOK, LoadInv, Open(row)
               PROVE  sentOpen <= Cardinality(stragglers) * Attempts
    BY DEF LoadWhileOpenBounded
  <2>1. Allowance \in Nat
    BY AheadWithin, FS_Subset, FS_CardinalityType DEF Allowance, TypeOK
  <2>2. sentOpen <= Allowance
    BY <2>1, AheadFinite DEF LoadInv, TypeOK
  <2> QED BY <2>2 DEF Allowance
<1> QED BY <1>1, <1>2, TypeCorrect, StepLoad, PTL DEF Spec
----------------------------------------------------------------------------
(* An opening ends before its time only when a delivery that was under way *)
(* at the opening succeeds after all: nothing else clears it.              *)
THEOREM ClosesOnSuccess == Spec => ClosesEarlyOnlyOnSuccess
<1>1. TypeOK /\ AdmittedBeforeOpening /\ [Next]_vars =>
        [Open(row) /\ ~ Open(row') /\ row.left > 1 =>
           \E s \in stragglers : pc[s] = "succeeded" /\ pc'[s] = "idle"]_vars
  <2> SUFFICES ASSUME TypeOK, AdmittedBeforeOpening, Next, Open(row), ~ Open(row'), row.left > 1
               PROVE  \E s \in stragglers : pc[s] = "succeeded" /\ pc'[s] = "idle"
    OBVIOUS
  <2>1. CASE row' = row
    BY <2>1
  <2>2. ASSUME NEW s \in Senders, Admit(s) PROVE FALSE
    BY <2>2 DEF Admit, Admits
  <2>3. ASSUME NEW s \in Senders, RecordSuccess(s)
        PROVE  s \in stragglers /\ pc[s] = "succeeded" /\ pc'[s] = "idle"
    BY <2>3 DEF RecordSuccess, Leave, Goto, AdmittedBeforeOpening, Busy, TypeOK
  <2>4. ASSUME NEW s \in Senders, RecordFailure(s) PROVE FALSE
    BY <2>4 DEF RecordFailure, Save, AfterFailure, Open, TypeOK
  <2>5. CASE Tick
    BY <2>5 DEF Tick, Open, TypeOK
  <2> QED BY <2>1, <2>2, <2>3, <2>4, <2>5
          DEF Next, Deliver, Divert, BeginAttempt, AttemptSucceeds, AttemptFails, PauseEnds,
              CancelPause, Return, Restart
<1> QED BY <1>1, TypeCorrect, NoneSlipsIn, PTL DEF Spec, ClosesEarlyOnlyOnSuccess
============================================================================
