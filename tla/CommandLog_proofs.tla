------------------------- MODULE CommandLog_proofs -------------------------
(***************************************************************************)
(* A remote workflow keeps the promise of StepPlan, however often its      *)
(* command is delivered: CommandLog implements StepPlan, for every set of  *)
(* clients, commands and workflows. Two invariants carry the argument: one *)
(* on the callbacks, which says that one client at most is past the row of *)
(* a command and that none is on its way to a workflow that has begun; one *)
(* on the bookkeeping of the workflow, which says how "states", "pending"  *)
(* and "batch" describe what became of each step.                          *)
(***************************************************************************)
EXTENDS CommandLog, FiniteSetTheorems, TLAPS

Marks == {None, "pending", "received", "running", "done", "error"}
Before == {"claim", "receive", "tell received", "start", "tell running", "call"}
After == {"job", "done", "error", "tell done", "tell error"}
Callbacks == Before \cup After \cup {"idle", "find", "save"}

(* A callback that has stored the row of its command, in this process.     *)
Inside(r) == pc[r] \in Before \cup After

CommandsTypeOK ==
  /\ rows \in [Commands -> Marks]
  /\ pc \in [Clients -> Callbacks]
  /\ cmd \in [Clients -> Commands \cup {None}]
  /\ answers \in [Commands -> Seq({"done", "error", "lost"})]
  /\ \A r \in Clients : pc[r] # "idle" => cmd[r] \in Commands

InsideHasRow == \A r \in Clients : Inside(r) => rows[cmd[r]] # None
InsideAlone ==
  \A r, q \in Clients : Inside(r) /\ Inside(q) /\ cmd[r] = cmd[q] => r = q
BegunHasRow == wf # "none" => rows[Job] # None
NotBegunBefore ==
  \A r \in Clients : cmd[r] = Job /\ pc[r] \in Before => wf = "none"

(* The answer is the last thing a callback does about its command.         *)
AnsweredHasRow == \A c \in Commands : answers[c] # <<>> => rows[c] # None
InsideUnanswered == \A r \in Clients : Inside(r) => answers[cmd[r]] = <<>>

CommandsInv ==
  /\ CommandsTypeOK /\ InsideHasRow /\ InsideAlone /\ BegunHasRow /\ NotBegunBefore
  /\ AnsweredHasRow /\ InsideUnanswered /\ AnsweredOnce

-----------------------------------------------------------------------------

Ends == {"completed", "failed", "skipped"}
Of(k) == {t \in Steps : plan.key[t] = k}
Live == wf \in {"next", "scan", "launch"}

WorkflowTypeOK ==
  /\ plan \in Plans
  /\ wf \in {"none", "resolve", "next", "scan", "launch", "done", "error", "lost"}
  /\ pending \subseteq Steps /\ visit \subseteq Steps /\ batch \subseteq Steps
  /\ at \in [Steps -> Ends \cup {"waiting", "running"}]
  /\ states \in [Keys -> Ends \cup {None}]

NothingStarted ==
  wf \in {"none", "resolve"} =>
    /\ batch = {} /\ states = [k \in Keys |-> None]
    /\ \A s \in Steps : at[s] = "waiting"
Resolved == Live => \A s \in Steps : plan.needs[s] \subseteq Keys \ {plan.key[s]}
InMode == (wf = "next" => ~plan.parallel) /\ (wf = "scan" => plan.parallel)
PendingWaits == Live => \A s \in pending : at[s] = "waiting"
WaitingPends ==
  Live => \A s \in Steps :
            at[s] = "waiting" => s \in pending \/ (plan.parallel /\ s # Last(plan.key[s]))
LastOfKey == Live /\ plan.parallel => \A s \in pending \cup batch : s = Last(plan.key[s])
RunningInBatch ==
  \A s \in Steps : at[s] = "running" => wf = "lost" \/ (wf = "launch" /\ s \in batch)
BatchFits ==
  /\ wf = "next" => batch = {}
  /\ wf = "scan" => visit \subseteq pending /\ batch \subseteq pending \ visit
  /\ wf = "launch" => Cardinality(batch) <= plan.width
BatchMet == Live => \A s \in batch : Met(s)
StatesTrue == Live => \A k \in Keys : states[k] # None => \E t \in Of(k) : at[t] = states[k]
StatesMissing ==
  Live => \A k \in Keys :
            states[k] = None => \A t \in Of(k) : at[t] = "waiting" \/ t \in batch
KeyUntouched ==
  Live /\ plan.parallel => \A s \in pending \cup batch : states[plan.key[s]] = None
RoundLooked == wf = "scan" => \A s \in pending \ visit : s \in batch \/ ~Met(s)
NoneFatal == wf = "next" => ~Fatal

WorkflowInv ==
  /\ WorkflowTypeOK
  /\ NothingStarted /\ Resolved /\ InMode
  /\ PendingWaits /\ WaitingPends /\ LastOfKey
  /\ RunningInBatch /\ BatchFits /\ BatchMet
  /\ StatesTrue /\ StatesMissing /\ KeyUntouched /\ RoundLooked /\ NoneFatal

IInv == CommandsInv /\ WorkflowInv

-----------------------------------------------------------------------------
Topped(T) == \E x \in T : \A y \in T : x >= y

(* A non-empty finite set of naturals has a greatest element: a smallest   *)
(* subset without one would lose nothing by losing an element.             *)
LEMMA GreatestExists ==
  ASSUME NEW S \in SUBSET Nat, IsFiniteSet(S), S # {} PROVE Topped(S)
<1> DEFINE Bad == {T \in SUBSET S : T # {} /\ ~Topped(T)}
<1>1. SUFFICES ASSUME Bad # {} PROVE FALSE
  OBVIOUS
<1>2. PICK T \in Bad : \A U \in Bad : ~(<<U, T>> \in StrictSubsetOrdering(S))
  <2>1. Bad \subseteq FiniteSubsetsOf(S)
    BY FS_FiniteSubsetsOfFinite
  <2> HIDE DEF Bad
  <2> QED
    BY <1>1, <2>1, FS_StrictSubsetOrderingWellFounded, WFMin
<1>3. PICK x \in T : TRUE
  OBVIOUS
<1>4. <<T \ {x}, T>> \in StrictSubsetOrdering(S)
  BY <1>3 DEF StrictSubsetOrdering
<1>5. T \ {x} = {} \/ Topped(T \ {x})
  BY <1>2, <1>4
<1>6. Topped(T)
  <2>1. CASE T \ {x} = {}
    <3>1. T = {x} /\ x \in Nat
      BY <1>3, <2>1
    <3> QED
      BY <3>1 DEF Topped
  <2>2. CASE Topped(T \ {x})
    <3>1. PICK y \in T \ {x} : \A z \in T \ {x} : y >= z
      BY <2>2 DEF Topped
    <3>2. T \subseteq Nat
      OBVIOUS
    <3>3. CASE x >= y
      BY <1>3, <3>1, <3>2, <3>3 DEF Topped
    <3>4. CASE ~(x >= y)
      BY <1>3, <3>1, <3>2, <3>4 DEF Topped
    <3> QED
      BY <3>3, <3>4
  <2> QED
    BY <1>5, <2>1, <2>2
<1> QED
  BY <1>6

LEMMA MaxIsMember ==
  ASSUME NEW S \in SUBSET Nat, IsFiniteSet(S), S # {} PROVE Max(S) \in S
BY GreatestExists DEF Max, Topped

LEMMA MinOfTwo ==
  ASSUME NEW a \in Nat, NEW b \in Nat PROVE Min({a, b}) <= a
<1>1. \E x \in {a, b} : \A y \in {a, b} : x =< y
  OBVIOUS
<1> QED
  BY <1>1 DEF Min

(* What is read off the workflow alone stays while the workflow does.      *)
LEMMA PlanFixed ==
  ASSUME plan' = plan
  PROVE  /\ Steps' = Steps /\ Keys' = Keys
         /\ \A k : Of(k)' = Of(k) /\ Last(k)' = Last(k)
BY DEF Steps, Keys, Of, Last

LEMMA NoneIsNoWord == None \notin Ends \cup {"waiting", "running"}
BY WorkflowAssumption DEF Ends

LEMMA PlanFacts ==
  ASSUME WorkflowTypeOK
  PROVE  /\ IsFiniteSet(Steps) /\ Steps \subseteq Nat
         /\ plan.width \in Nat \ {0} /\ (plan.parallel \/ plan.width = 1)
BY WorkflowAssumption DEF WorkflowTypeOK, Steps

(* The last step of a key is one of its steps.                             *)
LEMMA LastIsStep ==
  ASSUME WorkflowTypeOK, NEW k \in Keys
  PROVE  Last(k) \in Of(k)
<1>1. {s \in Steps : plan.key[s] = k} # {}
  BY DEF Keys
<1>2. /\ {s \in Steps : plan.key[s] = k} \in SUBSET Nat
      /\ IsFiniteSet({s \in Steps : plan.key[s] = k})
  BY PlanFacts, FS_Subset
<1> QED
  BY <1>1, <1>2, MaxIsMember DEF Last, Of

(* The steps of a batch are not waiting once all of it has been started.   *)
LEMMA StartedOnce ==
  ASSUME WorkflowInv, wf = "launch", NEW s \in batch, s \notin pending
  PROVE  at[s] \in Ends \cup {"running"}
BY DEF WorkflowInv, WorkflowTypeOK, WaitingPends, LastOfKey, Live

(* A workflow that is over, with nothing running.                          *)
LEMMA OverKeeps ==
  ASSUME WorkflowInv, wf \in {"resolve", "next", "scan"}, wf' \in {"done", "error"},
         UNCHANGED <<plan, pending, visit, batch, states, at>>
  PROVE  WorkflowInv'
<1>1. Steps' = Steps /\ Keys' = Keys /\ \A k : Of(k)' = Of(k) /\ Last(k)' = Last(k)
  BY PlanFixed
<1>2. WorkflowTypeOK'
  BY <1>1 DEF WorkflowInv, WorkflowTypeOK
<1>3. RunningInBatch'
  BY <1>1 DEF WorkflowInv, WorkflowTypeOK, RunningInBatch, NothingStarted
<1>4. NothingStarted' /\ InMode' /\ BatchFits' /\ RoundLooked' /\ NoneFatal' /\ ~Live'
  BY DEF NothingStarted, InMode, BatchFits, RoundLooked, NoneFatal, Live
<1> QED
  BY <1>2, <1>3, <1>4 DEF WorkflowInv, Resolved, PendingWaits, WaitingPends, LastOfKey,
     BatchMet, StatesTrue, StatesMissing, KeyUntouched

LEMMA TakeKeeps == ASSUME WorkflowInv, NEW s \in Steps, Take(s) PROVE WorkflowInv'
<1>1. UNCHANGED plan /\ wf = "next" /\ batch = {} /\ ~plan.parallel
  BY DEF Take, WorkflowInv, InMode, BatchFits
<1>2. Steps' = Steps /\ Keys' = Keys /\ \A k : Of(k)' = Of(k) /\ Last(k)' = Last(k)
  BY <1>1, PlanFixed
<1>3. plan.key[s] \in Keys /\ None \notin Ends \cup {"waiting", "running"}
  BY NoneIsNoWord DEF Keys
<1>4. CASE Met(s)
  <2>1. batch' = {s} /\ wf' = "launch" /\ UNCHANGED <<plan, pending, visit, states, at>>
    BY <1>4 DEF Take
  <2>2. Cardinality(batch') <= plan.width
    BY <2>1, PlanFacts, FS_Singleton DEF WorkflowInv
  <2>3. WorkflowTypeOK'
    BY <1>1, <1>2, <1>4, <2>1, <2>2 DEF WorkflowInv, WorkflowTypeOK, Ends
  <2>4. NothingStarted' /\ Resolved' /\ InMode' /\ BatchFits' /\ NoneFatal'
    BY <1>1, <1>2, <1>4, <2>1, <2>2 DEF WorkflowInv, WorkflowTypeOK,
       NothingStarted, Resolved, InMode, BatchFits, NoneFatal, Live, Fatal
  <2>5. PendingWaits' /\ WaitingPends' /\ RunningInBatch'
    BY <1>1, <1>2, <1>4, <2>1, <2>2 DEF WorkflowInv, WorkflowTypeOK, PendingWaits,
       WaitingPends, RunningInBatch, Live, BatchFits, Ends
  <2>6. LastOfKey' /\ KeyUntouched'
    BY <1>1, <1>2, <1>4, <2>1, <2>2 DEF WorkflowInv, WorkflowTypeOK, LastOfKey,
       KeyUntouched, Live, BatchFits
  <2>7. BatchMet' /\ RoundLooked'
    BY <1>1, <1>2, <1>4, <2>1, <2>2 DEF WorkflowInv, WorkflowTypeOK, BatchMet,
       RoundLooked, Live, BatchFits, Met, KeyUntouched
  <2>8. StatesTrue' /\ StatesMissing'
    BY <1>1, <1>2, <1>4, <2>1, <2>2 DEF WorkflowInv, WorkflowTypeOK, StatesTrue,
       StatesMissing, Live, Of, Ends, BatchFits, PendingWaits
  <2> QED
    BY <2>3, <2>4, <2>5, <2>6, <2>7, <2>8 DEF WorkflowInv
<1>5. CASE ~Met(s) /\ s \in plan.optional
  <2>1. /\ at' = [at EXCEPT ![s] = "skipped"]
        /\ states' = [states EXCEPT ![plan.key[s]] = "skipped"]
        /\ pending' = pending \ {s}
        /\ UNCHANGED <<plan, wf, batch, visit>>
    BY <1>5 DEF Take
  <2>2. WorkflowTypeOK'
    BY <1>1, <1>2, <1>3, <1>5, <2>1 DEF WorkflowInv, WorkflowTypeOK, Ends
  <2>3. NothingStarted' /\ Resolved' /\ InMode' /\ BatchFits' /\ NoneFatal'
    BY <1>1, <1>2, <1>3, <1>5, <2>1 DEF WorkflowInv, WorkflowTypeOK,
       NothingStarted, Resolved, InMode, BatchFits, NoneFatal, Live, Fatal
  <2>4. PendingWaits' /\ WaitingPends' /\ RunningInBatch'
    BY <1>1, <1>2, <1>3, <1>5, <2>1 DEF WorkflowInv, WorkflowTypeOK, PendingWaits,
       WaitingPends, RunningInBatch, Live, BatchFits, Ends
  <2>5. LastOfKey' /\ KeyUntouched'
    BY <1>1, <1>2, <1>3, <1>5, <2>1 DEF WorkflowInv, WorkflowTypeOK, LastOfKey,
       KeyUntouched, Live, BatchFits
  <2>6. BatchMet' /\ RoundLooked'
    BY <1>1, <1>2, <1>3, <1>5, <2>1 DEF WorkflowInv, WorkflowTypeOK, BatchMet,
       RoundLooked, Live, BatchFits, Met, KeyUntouched
  <2>7. StatesTrue' /\ StatesMissing'
    BY <1>1, <1>2, <1>3, <1>5, <2>1 DEF WorkflowInv, WorkflowTypeOK, StatesTrue,
       StatesMissing, Live, Of, Ends, BatchFits, PendingWaits
  <2> QED
    BY <2>2, <2>3, <2>4, <2>5, <2>6, <2>7 DEF WorkflowInv
<1>6. CASE ~Met(s) /\ s \notin plan.optional
  BY <1>1, <1>6, OverKeeps DEF Take
<1> QED
  BY <1>4, <1>5, <1>6

LEMMA ResolveKeeps == ASSUME WorkflowInv, Resolve PROVE WorkflowInv'
<1>1. /\ UNCHANGED <<plan, batch, states, at>> /\ wf = "resolve"
      /\ \A s \in Steps : at[s] = "waiting"
  BY DEF Resolve, WorkflowInv, NothingStarted
<1>2. Steps' = Steps /\ Keys' = Keys /\ \A k : Of(k)' = Of(k) /\ Last(k)' = Last(k)
  BY <1>1, PlanFixed
<1>3. None \notin Ends \cup {"waiting", "running"}
  BY NoneIsNoWord
<1>4. states = [k \in Keys |-> None] /\ batch = {}
  BY <1>1 DEF WorkflowInv, NothingStarted
<1>5. CASE \A s \in Steps : plan.needs[s] \subseteq Keys \ {plan.key[s]}
  <2>1. /\ wf' = (IF plan.parallel THEN "scan" ELSE "next")
        /\ pending' = (IF plan.parallel THEN {Last(k) : k \in Keys} ELSE Steps)
        /\ visit' = (IF plan.parallel THEN pending' ELSE {})
    BY <1>5 DEF Resolve
  <2>2. \A k \in Keys : Last(k) \in Steps /\ plan.key[Last(k)] = k
    BY LastIsStep DEF Of, WorkflowInv
  <2>3. \A s \in Steps : plan.key[s] \in Keys
    BY DEF Keys
  <2>4. WorkflowTypeOK'
    BY <1>1, <1>2, <1>3, <1>4, <1>5, <2>1, <2>2, <2>3 DEF WorkflowInv,
       WorkflowTypeOK, Ends
  <2>5. NothingStarted' /\ Resolved' /\ InMode' /\ BatchFits' /\ NoneFatal'
    BY <1>1, <1>2, <1>3, <1>4, <1>5, <2>1, <2>2, <2>3 DEF WorkflowInv,
       WorkflowTypeOK, NothingStarted, Resolved, InMode, BatchFits, NoneFatal,
       Live, Fatal
  <2>6. PendingWaits' /\ WaitingPends' /\ RunningInBatch'
    BY <1>1, <1>2, <1>3, <1>4, <1>5, <2>1, <2>2, <2>3 DEF WorkflowInv,
       WorkflowTypeOK, PendingWaits, WaitingPends, RunningInBatch, Live, BatchFits,
       Ends
  <2>7. LastOfKey' /\ KeyUntouched'
    BY <1>1, <1>2, <1>3, <1>4, <1>5, <2>1, <2>2, <2>3 DEF WorkflowInv,
       WorkflowTypeOK, LastOfKey, KeyUntouched, Live, BatchFits
  <2>8. BatchMet' /\ RoundLooked'
    BY <1>1, <1>2, <1>3, <1>4, <1>5, <2>1, <2>2, <2>3 DEF WorkflowInv,
       WorkflowTypeOK, BatchMet, RoundLooked, Live, BatchFits, Met, KeyUntouched
  <2>9. StatesTrue' /\ StatesMissing'
    BY <1>1, <1>2, <1>3, <1>4, <1>5, <2>1, <2>2, <2>3 DEF WorkflowInv,
       WorkflowTypeOK, StatesTrue, StatesMissing, Live, Of, Ends, BatchFits,
       PendingWaits
  <2> QED
    BY <2>4, <2>5, <2>6, <2>7, <2>8, <2>9 DEF WorkflowInv
<1>6. CASE ~\A s \in Steps : plan.needs[s] \subseteq Keys \ {plan.key[s]}
  BY <1>1, <1>6, OverKeeps DEF Resolve
<1> QED
  BY <1>5, <1>6

LEMMA EndOfStepsKeeps == ASSUME WorkflowInv, EndOfSteps PROVE WorkflowInv'
BY OverKeeps DEF EndOfSteps

LEMMA VisitKeeps == ASSUME WorkflowInv, NEW s \in Steps, Visit(s) PROVE WorkflowInv'
<1>1. /\ UNCHANGED <<plan, wf>> /\ wf = "scan" /\ visit' = visit \ {s}
      /\ s \in pending /\ s \notin batch
  BY DEF Visit, WorkflowInv, BatchFits
<1>2. Steps' = Steps /\ Keys' = Keys /\ \A k : Of(k)' = Of(k) /\ Last(k)' = Last(k)
  BY <1>1, PlanFixed
<1>3. plan.key[s] \in Keys /\ None \notin Ends \cup {"waiting", "running"}
  BY NoneIsNoWord DEF Keys
<1>4. plan.parallel /\ at[s] = "waiting" /\ states[plan.key[s]] = None
  BY <1>1 DEF WorkflowInv, InMode, PendingWaits, KeyUntouched, Live
<1>5. CASE Barred(s)
  <2>1. /\ at' = [at EXCEPT ![s] = "skipped"]
        /\ states' = [states EXCEPT ![plan.key[s]] = "skipped"]
        /\ pending' = pending \ {s} /\ UNCHANGED batch
    BY <1>5 DEF Visit
  <2>2. \A t \in Steps : Met(t)' <=> Met(t) /\ plan.key[s] \notin plan.needs[t]
    BY <1>1, <1>2, <1>3, <1>4, <2>1 DEF WorkflowInv, WorkflowTypeOK, Resolved,
       Live, Met, Ends
  <2>3. \A t \in batch : Met(t) /\ plan.key[s] \notin plan.needs[t]
    BY <1>1, <1>3, <1>4 DEF WorkflowInv, BatchMet, Live, Met, Ends
  <2>4. WorkflowTypeOK'
    BY <1>1, <1>2, <1>3, <1>4, <1>5, <2>1, <2>2, <2>3 DEF WorkflowInv,
       WorkflowTypeOK, Ends
  <2>5. NothingStarted' /\ Resolved' /\ InMode' /\ BatchFits' /\ NoneFatal'
    BY <1>1, <1>2, <1>3, <1>4, <1>5, <2>1, <2>2, <2>3 DEF WorkflowInv,
       WorkflowTypeOK, NothingStarted, Resolved, InMode, BatchFits, NoneFatal,
       Live, Fatal
  <2>6. PendingWaits' /\ WaitingPends' /\ RunningInBatch'
    BY <1>1, <1>2, <1>3, <1>4, <1>5, <2>1, <2>2, <2>3 DEF WorkflowInv,
       WorkflowTypeOK, PendingWaits, WaitingPends, RunningInBatch, Live, BatchFits,
       Ends
  <2>7. LastOfKey' /\ KeyUntouched'
    BY <1>1, <1>2, <1>3, <1>4, <1>5, <2>1, <2>2, <2>3 DEF WorkflowInv,
       WorkflowTypeOK, LastOfKey, KeyUntouched, Live, BatchFits
  <2>8. BatchMet' /\ RoundLooked'
    BY <1>1, <1>2, <2>1, <2>2, <2>3 DEF WorkflowInv, WorkflowTypeOK, BatchMet,
       RoundLooked, BatchFits, Live
  <2>9. StatesTrue' /\ StatesMissing'
    BY <1>1, <1>2, <1>3, <1>4, <1>5, <2>1, <2>2, <2>3 DEF WorkflowInv,
       WorkflowTypeOK, StatesTrue, StatesMissing, Live, Of, Ends, BatchFits,
       PendingWaits
  <2> QED
    BY <2>4, <2>5, <2>6, <2>7, <2>8, <2>9 DEF WorkflowInv
<1>6. CASE ~Barred(s)
  <2>1. /\ batch' = IF Met(s) THEN batch \cup {s} ELSE batch
        /\ UNCHANGED <<at, states, pending>>
    BY <1>6 DEF Visit
  <2>2. WorkflowTypeOK'
    BY <1>1, <1>2, <1>4, <1>6, <2>1 DEF WorkflowInv, WorkflowTypeOK, Ends
  <2>3. NothingStarted' /\ Resolved' /\ InMode' /\ BatchFits' /\ NoneFatal'
    BY <1>1, <1>2, <1>4, <1>6, <2>1 DEF WorkflowInv, WorkflowTypeOK,
       NothingStarted, Resolved, InMode, BatchFits, NoneFatal, Live, Fatal
  <2>4. PendingWaits' /\ WaitingPends' /\ RunningInBatch'
    BY <1>1, <1>2, <1>4, <1>6, <2>1 DEF WorkflowInv, WorkflowTypeOK, PendingWaits,
       WaitingPends, RunningInBatch, Live, BatchFits, Ends
  <2>5. LastOfKey' /\ KeyUntouched'
    BY <1>1, <1>2, <1>4, <1>6, <2>1 DEF WorkflowInv, WorkflowTypeOK, LastOfKey,
       KeyUntouched, Live, BatchFits
  <2>6. BatchMet' /\ RoundLooked'
    BY <1>1, <1>2, <1>4, <1>6, <2>1 DEF WorkflowInv, WorkflowTypeOK, BatchMet,
       RoundLooked, Live, BatchFits, Met, KeyUntouched
  <2>7. StatesTrue' /\ StatesMissing'
    BY <1>1, <1>2, <1>4, <1>6, <2>1 DEF WorkflowInv, WorkflowTypeOK, StatesTrue,
       StatesMissing, Live, Of, Ends, BatchFits, PendingWaits
  <2> QED
    BY <2>2, <2>3, <2>4, <2>5, <2>6, <2>7 DEF WorkflowInv
<1> QED
  BY <1>5, <1>6

LEMMA LaunchKeeps == ASSUME WorkflowInv, NEW s \in Steps, Launch(s) PROVE WorkflowInv'
<1>1. /\ UNCHANGED <<plan, wf, visit, batch, states>> /\ wf = "launch"
      /\ s \in batch \cap pending
      /\ at' = [at EXCEPT ![s] = "running"] /\ pending' = pending \ {s}
  BY DEF Launch
<1>2. Steps' = Steps /\ Keys' = Keys /\ \A k : Of(k)' = Of(k) /\ Last(k)' = Last(k)
  BY <1>1, PlanFixed
<1>3. at[s] = "waiting"
  BY <1>1 DEF WorkflowInv, PendingWaits, Live
<1>4. None \notin Ends \cup {"waiting", "running"}
  BY NoneIsNoWord
<1>5. WorkflowTypeOK'
  BY <1>1, <1>2, <1>3, <1>4 DEF WorkflowInv, WorkflowTypeOK, Ends
<1>6. NothingStarted' /\ Resolved' /\ InMode' /\ BatchFits' /\ NoneFatal'
  BY <1>1, <1>2, <1>3, <1>4 DEF WorkflowInv, WorkflowTypeOK, NothingStarted,
     Resolved, InMode, BatchFits, NoneFatal, Live, Fatal
<1>7. PendingWaits' /\ WaitingPends' /\ RunningInBatch'
  BY <1>1, <1>2, <1>3, <1>4 DEF WorkflowInv, WorkflowTypeOK, PendingWaits,
     WaitingPends, RunningInBatch, Live, BatchFits, Ends
<1>8. LastOfKey' /\ KeyUntouched'
  BY <1>1, <1>2, <1>3, <1>4 DEF WorkflowInv, WorkflowTypeOK, LastOfKey,
     KeyUntouched, Live, BatchFits
<1>9. BatchMet' /\ RoundLooked'
  BY <1>1, <1>2, <1>3, <1>4 DEF WorkflowInv, WorkflowTypeOK, BatchMet, RoundLooked,
     Live, BatchFits, Met, KeyUntouched
<1>10. StatesTrue' /\ StatesMissing'
  BY <1>1, <1>2, <1>3, <1>4 DEF WorkflowInv, WorkflowTypeOK, StatesTrue,
     StatesMissing, Live, Of, Ends, BatchFits, PendingWaits
<1> QED
  BY <1>5, <1>6, <1>7, <1>8, <1>9, <1>10 DEF WorkflowInv

(* What a step does has ended.                                             *)
LEMMA SettlingKeeps ==
  ASSUME WorkflowInv, NEW s \in Steps, wf = "launch", at[s] = "running",
         NEW how \in {"completed", "failed"}, at' = [at EXCEPT ![s] = how],
         UNCHANGED <<plan, loop>>
  PROVE  WorkflowInv'
<1>1. UNCHANGED <<plan, wf, visit, batch, states, pending>> /\ s \in batch
  BY DEF loop, WorkflowInv, RunningInBatch
<1>2. Steps' = Steps /\ Keys' = Keys /\ \A k : Of(k)' = Of(k) /\ Last(k)' = Last(k)
  BY <1>1, PlanFixed
<1>3. s \notin pending
  BY DEF WorkflowInv, PendingWaits, Live
<1>4. None \notin Ends \cup {"waiting", "running"}
  BY NoneIsNoWord
<1>5. WorkflowTypeOK'
  BY <1>1, <1>2, <1>3, <1>4 DEF WorkflowInv, WorkflowTypeOK, Ends
<1>6. NothingStarted' /\ Resolved' /\ InMode' /\ BatchFits' /\ NoneFatal'
  BY <1>1, <1>2, <1>3, <1>4 DEF WorkflowInv, WorkflowTypeOK, NothingStarted,
     Resolved, InMode, BatchFits, NoneFatal, Live, Fatal
<1>7. PendingWaits' /\ WaitingPends' /\ RunningInBatch'
  BY <1>1, <1>2, <1>3, <1>4 DEF WorkflowInv, WorkflowTypeOK, PendingWaits,
     WaitingPends, RunningInBatch, Live, BatchFits, Ends
<1>8. LastOfKey' /\ KeyUntouched'
  BY <1>1, <1>2, <1>3, <1>4 DEF WorkflowInv, WorkflowTypeOK, LastOfKey,
     KeyUntouched, Live, BatchFits
<1>9. BatchMet' /\ RoundLooked'
  BY <1>1, <1>2, <1>3, <1>4 DEF WorkflowInv, WorkflowTypeOK, BatchMet, RoundLooked,
     Live, BatchFits, Met, KeyUntouched
<1>10. StatesTrue' /\ StatesMissing'
  BY <1>1, <1>2, <1>3, <1>4 DEF WorkflowInv, WorkflowTypeOK, StatesTrue,
     StatesMissing, Live, Of, Ends, BatchFits, PendingWaits
<1> QED
  BY <1>5, <1>6, <1>7, <1>8, <1>9, <1>10 DEF WorkflowInv

(* The rounds of a parallel workflow.                                      *)
LEMMA RoundEndsKeeps == ASSUME WorkflowInv, RoundEnds PROVE WorkflowInv'
<1>1. UNCHANGED <<plan, pending, states, at>> /\ wf = "scan" /\ visit = {}
  BY DEF RoundEnds
<1>2. Steps' = Steps /\ Keys' = Keys /\ \A k : Of(k)' = Of(k) /\ Last(k)' = Last(k)
  BY <1>1, PlanFixed
<1>3. CASE batch # {} /\ wf' = "launch"
  <2>1. /\ batch' \subseteq batch /\ UNCHANGED visit
        /\ Cardinality(batch') = Min({plan.width, Cardinality(batch)})
    BY <1>3 DEF RoundEnds, kSubset
  <2>2. IsFiniteSet(batch) /\ Cardinality(batch) \in Nat
    BY PlanFacts, FS_Subset, FS_CardinalityType DEF WorkflowInv, WorkflowTypeOK
  <2>3. Cardinality(batch') <= plan.width
    BY <2>1, <2>2, PlanFacts, MinOfTwo DEF WorkflowInv
  <2>4. WorkflowTypeOK'
    BY <1>1, <1>2, <1>3, <2>1, <2>2, <2>3 DEF WorkflowInv, WorkflowTypeOK, Ends
  <2>5. NothingStarted' /\ Resolved' /\ InMode' /\ BatchFits' /\ NoneFatal'
    BY <1>1, <1>2, <1>3, <2>1, <2>2, <2>3 DEF WorkflowInv, WorkflowTypeOK,
       NothingStarted, Resolved, InMode, BatchFits, NoneFatal, Live, Fatal
  <2>6. PendingWaits' /\ WaitingPends' /\ RunningInBatch'
    BY <1>1, <1>2, <1>3, <2>1, <2>2, <2>3 DEF WorkflowInv, WorkflowTypeOK,
       PendingWaits, WaitingPends, RunningInBatch, Live, BatchFits, Ends
  <2>7. LastOfKey' /\ KeyUntouched'
    BY <1>1, <1>2, <1>3, <2>1, <2>2, <2>3 DEF WorkflowInv, WorkflowTypeOK,
       LastOfKey, KeyUntouched, Live, BatchFits
  <2>8. BatchMet' /\ RoundLooked'
    BY <1>1, <1>2, <1>3, <2>1, <2>2, <2>3 DEF WorkflowInv, WorkflowTypeOK,
       BatchMet, RoundLooked, Live, BatchFits, Met, KeyUntouched
  <2>9. StatesTrue' /\ StatesMissing'
    BY <1>1, <1>2, <1>3, <2>1, <2>2, <2>3 DEF WorkflowInv, WorkflowTypeOK,
       StatesTrue, StatesMissing, Live, Of, Ends, BatchFits, PendingWaits
  <2> QED
    BY <2>4, <2>5, <2>6, <2>7, <2>8, <2>9 DEF WorkflowInv
<1>4. CASE batch = {} /\ wf' = "scan"
  <2>1. visit' = pending /\ UNCHANGED batch
    BY <1>4 DEF RoundEnds
  <2>2. WorkflowTypeOK'
    BY <1>1, <1>2, <1>4, <2>1 DEF WorkflowInv, WorkflowTypeOK, Ends
  <2>3. NothingStarted' /\ Resolved' /\ InMode' /\ BatchFits' /\ NoneFatal'
    BY <1>1, <1>2, <1>4, <2>1 DEF WorkflowInv, WorkflowTypeOK, NothingStarted,
       Resolved, InMode, BatchFits, NoneFatal, Live, Fatal
  <2>4. PendingWaits' /\ WaitingPends' /\ RunningInBatch'
    BY <1>1, <1>2, <1>4, <2>1 DEF WorkflowInv, WorkflowTypeOK, PendingWaits,
       WaitingPends, RunningInBatch, Live, BatchFits, Ends
  <2>5. LastOfKey' /\ KeyUntouched'
    BY <1>1, <1>2, <1>4, <2>1 DEF WorkflowInv, WorkflowTypeOK, LastOfKey,
       KeyUntouched, Live, BatchFits
  <2>6. BatchMet' /\ RoundLooked'
    BY <1>1, <1>2, <1>4, <2>1 DEF WorkflowInv, WorkflowTypeOK, BatchMet,
       RoundLooked, Live, BatchFits, Met, KeyUntouched
  <2>7. StatesTrue' /\ StatesMissing'
    BY <1>1, <1>2, <1>4, <2>1 DEF WorkflowInv, WorkflowTypeOK, StatesTrue,
       StatesMissing, Live, Of, Ends, BatchFits, PendingWaits
  <2> QED
    BY <2>2, <2>3, <2>4, <2>5, <2>6, <2>7 DEF WorkflowInv
<1>5. CASE wf' \in {"error", "done"}
  BY <1>1, <1>5, OverKeeps DEF RoundEnds
<1> QED
  BY <1>1, <1>3, <1>4, <1>5 DEF RoundEnds

LEMMA JoinKeeps == ASSUME WorkflowInv, Join PROVE WorkflowInv'
<1> DEFINE Keyed(k) == \E s \in batch : plan.key[s] = k
           Teller(k) == CHOOSE s \in batch : plan.key[s] = k
<1>1. /\ UNCHANGED <<plan, pending, at>> /\ wf = "launch" /\ batch' = {}
      /\ states' = [k \in Keys |-> IF Keyed(k) THEN at[Teller(k)] ELSE states[k]]
      /\ wf' = (IF plan.parallel THEN "scan" ELSE IF Fatal THEN "error" ELSE "next")
      /\ visit' = (IF plan.parallel THEN pending ELSE {})
  BY DEF Join
<1>2. Steps' = Steps /\ Keys' = Keys /\ \A k : Of(k)' = Of(k) /\ Last(k)' = Last(k)
  BY <1>1, PlanFixed
<1>3. \A s \in batch : s \in Steps /\ s \notin pending /\ at[s] \in Ends
  <2>1. \A s \in batch : s \notin pending /\ at[s] # "running"
    BY DEF Join
  <2> QED
    BY <1>1, <2>1, StartedOnce DEF WorkflowInv, WorkflowTypeOK
<1>4. \A k \in Keys : Keyed(k) => Teller(k) \in batch /\ plan.key[Teller(k)] = k
  OBVIOUS
<1>5. None \notin Ends \cup {"waiting", "running"}
  BY NoneIsNoWord
<1>6. \A s \in Steps : plan.key[s] \in Keys
  BY DEF Keys
<1> HIDE DEF Keyed, Teller
<1>7. WorkflowTypeOK'
  BY <1>1, <1>2, <1>3, <1>4, <1>5, <1>6 DEF WorkflowInv, WorkflowTypeOK, Ends
<1>8. NothingStarted' /\ Resolved' /\ InMode' /\ BatchFits' /\ NoneFatal'
  BY <1>1, <1>2, <1>3, <1>4, <1>5, <1>6 DEF WorkflowInv, WorkflowTypeOK,
     NothingStarted, Resolved, InMode, BatchFits, NoneFatal, Live, Fatal
<1>9. PendingWaits' /\ WaitingPends' /\ RunningInBatch'
  BY <1>1, <1>2, <1>3, <1>4, <1>5, <1>6 DEF WorkflowInv, WorkflowTypeOK,
     PendingWaits, WaitingPends, RunningInBatch, Live, BatchFits, Ends
<1>10. LastOfKey' /\ KeyUntouched'
  BY <1>1, <1>2, <1>3, <1>4, <1>5, <1>6 DEF WorkflowInv, WorkflowTypeOK, LastOfKey,
     KeyUntouched, Live, BatchFits
<1>11. BatchMet' /\ RoundLooked'
  BY <1>1, <1>2, <1>3, <1>4, <1>5, <1>6 DEF WorkflowInv, WorkflowTypeOK, BatchMet,
     RoundLooked, Live, BatchFits, Met, KeyUntouched
<1>12. StatesTrue'
  <2>1. SUFFICES ASSUME NEW k \in Keys, states'[k] # None
                 PROVE  \E t \in Of(k) : at[t] = states'[k]
    BY <1>1, <1>2 DEF StatesTrue
  <2>2. CASE Keyed(k)
    BY <1>1, <1>3, <1>4, <2>2 DEF Of
  <2>3. CASE ~Keyed(k)
    BY <1>1, <2>1, <2>3 DEF WorkflowInv, StatesTrue, Live
  <2> QED
    BY <2>2, <2>3
<1>13. StatesMissing'
  <2>1. SUFFICES ASSUME NEW k \in Keys, states'[k] = None, NEW t \in Of(k)
                 PROVE  at[t] = "waiting"
    BY <1>1, <1>2 DEF StatesMissing
  <2>2. ~Keyed(k)
    BY <1>1, <1>3, <1>4, <1>5, <2>1
  <2>3. t \notin batch
    BY <2>2 DEF Keyed, Of
  <2> QED
    BY <1>1, <2>1, <2>2, <2>3 DEF WorkflowInv, StatesMissing, Live
<1> QED
  BY <1>7, <1>8, <1>9, <1>10, <1>11, <1>12, <1>13 DEF WorkflowInv

-----------------------------------------------------------------------------
(* The workflow begins, and is cut short.                                  *)
LEMMA BeginKeeps == ASSUME WorkflowInv, BeginWorkflow PROVE WorkflowInv'
<1>1. /\ plan' = plan /\ wf' = "resolve" /\ pending' = {} /\ visit' = {} /\ batch' = {}
      /\ at' = [s \in Steps |-> "waiting"] /\ states' = [k \in Keys |-> None]
  BY DEF BeginWorkflow
<1>2. Steps' = Steps /\ Keys' = Keys /\ \A k : Of(k)' = Of(k) /\ Last(k)' = Last(k)
  BY <1>1, PlanFixed
<1>3. WorkflowTypeOK'
  BY <1>1, <1>2 DEF WorkflowInv, WorkflowTypeOK, Ends
<1>4. NothingStarted' /\ Resolved' /\ InMode' /\ BatchFits' /\ NoneFatal'
  BY <1>1, <1>2 DEF WorkflowInv, WorkflowTypeOK, NothingStarted, Resolved, InMode,
     BatchFits, NoneFatal, Live, Fatal
<1>5. PendingWaits' /\ WaitingPends' /\ RunningInBatch'
  BY <1>1, <1>2 DEF WorkflowInv, WorkflowTypeOK, PendingWaits, WaitingPends,
     RunningInBatch, Live, BatchFits, Ends
<1>6. LastOfKey' /\ KeyUntouched'
  BY <1>1, <1>2 DEF WorkflowInv, WorkflowTypeOK, LastOfKey, KeyUntouched, Live,
     BatchFits
<1>7. BatchMet' /\ RoundLooked'
  BY <1>1, <1>2 DEF WorkflowInv, WorkflowTypeOK, BatchMet, RoundLooked, Live,
     BatchFits, Met, KeyUntouched
<1>8. StatesTrue' /\ StatesMissing'
  BY <1>1, <1>2 DEF WorkflowInv, WorkflowTypeOK, StatesTrue, StatesMissing, Live,
     Of, Ends, BatchFits, PendingWaits
<1> QED
  BY <1>3, <1>4, <1>5, <1>6, <1>7, <1>8 DEF WorkflowInv

LEMMA HaltKeeps == ASSUME WorkflowInv, Halt PROVE WorkflowInv'
<1>1. /\ plan' = plan /\ at' = at /\ pending' = {} /\ visit' = {} /\ batch' = {}
      /\ wf' = (IF wf \in {"none", "done", "error"} THEN wf ELSE "lost")
      /\ states' = [k \in Keys |-> None]
  BY DEF Halt
<1>2. Steps' = Steps /\ Keys' = Keys /\ \A k : Of(k)' = Of(k) /\ Last(k)' = Last(k)
  BY <1>1, PlanFixed
<1>3. WorkflowTypeOK'
  BY <1>1, <1>2 DEF WorkflowInv, WorkflowTypeOK, Ends
<1>4. NothingStarted' /\ Resolved' /\ InMode' /\ BatchFits' /\ NoneFatal'
  BY <1>1, <1>2 DEF WorkflowInv, WorkflowTypeOK, NothingStarted, Resolved, InMode,
     BatchFits, NoneFatal, Live, Fatal
<1>5. PendingWaits' /\ WaitingPends' /\ RunningInBatch'
  BY <1>1, <1>2 DEF WorkflowInv, WorkflowTypeOK, PendingWaits, WaitingPends,
     RunningInBatch, Live, BatchFits, Ends
<1>6. LastOfKey' /\ KeyUntouched'
  BY <1>1, <1>2 DEF WorkflowInv, WorkflowTypeOK, LastOfKey, KeyUntouched, Live,
     BatchFits
<1>7. BatchMet' /\ RoundLooked'
  BY <1>1, <1>2 DEF WorkflowInv, WorkflowTypeOK, BatchMet, RoundLooked, Live,
     BatchFits, Met, KeyUntouched
<1>8. StatesTrue' /\ StatesMissing'
  BY <1>1, <1>2 DEF WorkflowInv, WorkflowTypeOK, StatesTrue, StatesMissing, Live,
     Of, Ends, BatchFits, PendingWaits
<1> QED
  BY <1>3, <1>4, <1>5, <1>6, <1>7, <1>8 DEF WorkflowInv

LEMMA WorkflowSame ==
  ASSUME WorkflowInv, UNCHANGED <<plan, loop, at>> PROVE WorkflowInv'
<1>1. UNCHANGED <<plan, wf, pending, visit, batch, states, at>>
  BY DEF loop
<1>2. Steps' = Steps /\ Keys' = Keys /\ \A k : Of(k)' = Of(k) /\ Last(k)' = Last(k)
  BY <1>1, PlanFixed
<1>3. WorkflowTypeOK'
  BY <1>1, <1>2 DEF WorkflowInv, WorkflowTypeOK, Ends
<1>4. NothingStarted' /\ Resolved' /\ InMode' /\ BatchFits' /\ NoneFatal'
  BY <1>1, <1>2 DEF WorkflowInv, WorkflowTypeOK, NothingStarted, Resolved, InMode,
     BatchFits, NoneFatal, Live, Fatal
<1>5. PendingWaits' /\ WaitingPends' /\ RunningInBatch'
  BY <1>1, <1>2 DEF WorkflowInv, WorkflowTypeOK, PendingWaits, WaitingPends,
     RunningInBatch, Live, BatchFits, Ends
<1>6. LastOfKey' /\ KeyUntouched'
  BY <1>1, <1>2 DEF WorkflowInv, WorkflowTypeOK, LastOfKey, KeyUntouched, Live,
     BatchFits
<1>7. BatchMet' /\ RoundLooked'
  BY <1>1, <1>2 DEF WorkflowInv, WorkflowTypeOK, BatchMet, RoundLooked, Live,
     BatchFits, Met, KeyUntouched
<1>8. StatesTrue' /\ StatesMissing'
  BY <1>1, <1>2 DEF WorkflowInv, WorkflowTypeOK, StatesTrue, StatesMissing, Live,
     Of, Ends, BatchFits, PendingWaits
<1> QED
  BY <1>3, <1>4, <1>5, <1>6, <1>7, <1>8 DEF WorkflowInv

LEMMA WorkflowBegins == WorkflowInit => WorkflowInv
<1> SUFFICES ASSUME WorkflowInit PROVE WorkflowInv
  OBVIOUS
<1>1. wf = "none" /\ batch = {} /\ pending = {} /\ visit = {}
  BY DEF WorkflowInit
<1>2. WorkflowTypeOK
  BY <1>1 DEF WorkflowInit, WorkflowTypeOK
<1>3. NothingStarted
  BY DEF WorkflowInit, NothingStarted
<1>4. InMode /\ BatchFits /\ RunningInBatch /\ RoundLooked /\ NoneFatal
  BY <1>1 DEF WorkflowInit, InMode, BatchFits, RunningInBatch, RoundLooked,
     NoneFatal
<1>5. ~Live
  BY <1>1 DEF Live
<1> QED
  BY <1>2, <1>3, <1>4, <1>5 DEF WorkflowInv, Resolved, PendingWaits, WaitingPends,
     LastOfKey, BatchMet,
    StatesTrue, StatesMissing, KeyUntouched

LEMMA WorkflowStepKeeps == WorkflowInv /\ WorkflowStep => WorkflowInv'
<1> SUFFICES ASSUME WorkflowInv, WorkflowStep PROVE WorkflowInv'
  OBVIOUS
<1>1. ASSUME NEW s \in Steps, Succeeds(s) \/ Fails(s) PROVE WorkflowInv'
  <2>1. CASE UNCHANGED at
    BY <1>1, <2>1, WorkflowSame DEF Succeeds, Fails
  <2>2. CASE at' # at
    <3>1. /\ wf = "launch" /\ at[s] = "running" /\ UNCHANGED <<plan, loop>>
          /\ at' = [at EXCEPT ![s] = "completed"] \/ at' = [at EXCEPT ![s] = "failed"]
      BY <1>1, <2>2 DEF Succeeds, Fails
    <3> QED
      BY <3>1, SettlingKeeps
  <2> QED
    BY <2>1, <2>2
<1> QED
  BY <1>1, ResolveKeeps, EndOfStepsKeeps, RoundEndsKeeps, JoinKeeps, TakeKeeps,
     VisitKeeps,
     LaunchKeeps DEF WorkflowStep

-----------------------------------------------------------------------------
(* The steps of the workflow are steps of the plan.                        *)

(* StepPlan counts as this module does.                                    *)
LEMMA SameCount == \A S : Promise!Cardinality(S) = Cardinality(S)
BY DEF Promise!Cardinality, Cardinality, Promise!IsFiniteSet, IsFiniteSet

(* What the end of a workflow claims.                                      *)
LEMMA ClosesDone ==
  ASSUME WorkflowInv, wf \in {"next", "scan"}, pending = {}, ~Fatal,
         wf' = "done", UNCHANGED <<plan, at>>
  PROVE  Promise!Close
<1>1. batch = {}
  BY DEF WorkflowInv, BatchFits
<1>2. Promise!Running = {}
  BY DEF Promise!Running, Promise!Steps, WorkflowInv, RunningInBatch, Steps
<1>3. ASSUME NEW s \in Steps, at[s] = "waiting" PROVE plan.parallel /\ Promise!Shared(s)
  <2>1. plan.parallel /\ s # Last(plan.key[s])
    BY <1>3 DEF WorkflowInv, WaitingPends, Live
  <2>2. Last(plan.key[s]) \in Of(plan.key[s]) /\ s \in Of(plan.key[s])
    BY LastIsStep DEF WorkflowInv, Keys, Of
  <2>3. IsFiniteSet(Of(plan.key[s]))
    BY PlanFacts, FS_Subset DEF Of, WorkflowInv
  <2>4. Cardinality(Of(plan.key[s])) > 1
    <3> DEFINE S == Of(plan.key[s])
               T == S \ {s}
    <3>1. IsFiniteSet(T) /\ Cardinality(T) = Cardinality(S) - 1 /\ Cardinality(S) \in Nat
      BY <2>2, <2>3, FS_RemoveElement, FS_CardinalityType
    <3>2. T # {}
      BY <2>1, <2>2
    <3>3. Cardinality(T) # 0 /\ Cardinality(T) \in Nat
      BY <3>1, <3>2, FS_EmptySet, FS_CardinalityType
    <3> HIDE DEF T, S
    <3> QED
      BY <3>1, <3>3 DEF S
  <2>5. Promise!Of(plan.key[s]) = Of(plan.key[s])
    BY DEF Promise!Of, Promise!Steps, Of, Steps
  <2> QED
    BY <2>1, <2>4, <2>5, SameCount DEF Promise!Shared
<1>4. ~Promise!Fatal
  BY DEF Promise!Fatal, Promise!Steps, Fatal, Steps
<1> QED
  BY <1>2, <1>3, <1>4 DEF Promise!Close, Promise!Steps, Steps

LEMMA ClosesError ==
  ASSUME WorkflowInv, wf \in {"resolve", "next", "scan", "launch"},
         \A s \in Steps : at[s] # "running",
         Fatal \/ \E s \in Steps : Promise!Stuck(s),
         wf' = "error", UNCHANGED <<plan, at>>
  PROVE  Promise!Close
<1>1. Promise!Running = {}
  BY DEF Promise!Running, Promise!Steps, Steps
<1>2. Promise!Fatal <=> Fatal
  BY DEF Promise!Fatal, Promise!Steps, Fatal, Steps
<1> QED
  BY <1>1, <1>2 DEF Promise!Close, Promise!Steps, Steps

(* A step that must wait still, because something it needs is not done.    *)
LEMMA UnmetIsStuck ==
  ASSUME WorkflowInv, Live, NEW s \in Steps, at[s] = "waiting", ~Met(s), batch = {}
  PROVE  /\ Promise!Stuck(s)
         /\ ~plan.parallel => \E k \in plan.needs[s] : \E t \in Of(k) :
                                at[t] \in {"failed", "skipped", "waiting"}
<1>1. PICK k \in plan.needs[s] : states[k] # "completed"
  BY DEF Met
<1>2. k \in Keys
  BY DEF WorkflowInv, Resolved
<1>3. PICK u \in Steps : plan.key[u] = k
  BY <1>2 DEF Keys
<1>4. \E t \in Of(k) : at[t] \in {"failed", "skipped", "waiting"}
  <2>1. CASE states[k] = None
    BY <1>2, <1>3, <2>1 DEF WorkflowInv, StatesMissing, Of
  <2>2. CASE states[k] # None
    BY <1>1, <1>2, <2>2 DEF WorkflowInv, WorkflowTypeOK, StatesTrue, Ends
  <2> QED
    BY <2>1, <2>2
<1>5. \E t \in Promise!Of(k) : at[t] # "completed"
  BY <1>4 DEF Promise!Of, Promise!Steps, Of, Steps
<1> QED
  BY <1>4, <1>5 DEF Promise!Stuck

LEMMA ResolveSteps == ASSUME WorkflowInv, Resolve PROVE [Promise!Next]_(Promise!board)
<1>1. wf = "resolve" /\ UNCHANGED <<plan, at>> /\ \A s \in Steps : at[s] = "waiting"
  BY DEF Resolve, WorkflowInv, NothingStarted
<1>2. CASE wf' # "error"
  BY <1>1, <1>2 DEF Resolve, Promise!board
<1>3. CASE wf' = "error"
  <2>1. PICK s \in Steps : ~(plan.needs[s] \subseteq Keys \ {plan.key[s]})
    BY <1>3 DEF Resolve
  <2>2. PICK k \in plan.needs[s] : k \notin Keys \/ k = plan.key[s]
    BY <2>1
  <2>3. Promise!Of(k) = {} \/ s \in Promise!Of(k)
    BY <2>2 DEF Promise!Of, Promise!Steps, Keys, Steps
  <2>4. Promise!Stuck(s)
    BY <1>1, <2>3 DEF Promise!Stuck
  <2>5. Promise!Close
    BY <1>1, <1>3, <2>4, ClosesError
  <2> QED
    BY <1>1, <2>5 DEF Promise!Next
<1> QED
  BY <1>2, <1>3

LEMMA TakeSteps ==
  ASSUME WorkflowInv, NEW s \in Steps, Take(s) PROVE [Promise!Next]_(Promise!board)
<1>1. /\ wf = "next" /\ s \in pending /\ at[s] = "waiting" /\ batch = {} /\ ~plan.parallel
      /\ UNCHANGED plan /\ Live
  BY DEF Take, WorkflowInv, PendingWaits, Live, BatchFits, InMode
<1>2. CASE Met(s)
  BY <1>1, <1>2 DEF Take, Promise!board
<1>3. CASE ~Met(s) /\ s \in plan.optional
  <2>1. \E k \in plan.needs[s] : \E t \in Of(k) : at[t] \in {"failed", "skipped", "waiting"}
    BY <1>1, <1>3, UnmetIsStuck
  <2>2. Promise!PassOver(s)
    BY <1>1, <1>3, <2>1 DEF Take, Promise!PassOver, Promise!Lacking, Promise!Of,
       Promise!Steps, Of, Steps
  <2> QED
    BY <1>1, <2>2 DEF Promise!Next, Promise!Steps, Steps
<1>4. CASE ~Met(s) /\ s \notin plan.optional
  <2>1. wf' = "error" /\ UNCHANGED at
    BY <1>4 DEF Take
  <2>2. Promise!Stuck(s)
    BY <1>1, <1>4, UnmetIsStuck
  <2>3. \A t \in Steps : at[t] # "running"
    BY <1>1 DEF WorkflowInv, RunningInBatch
  <2>4. Promise!Close
    BY <1>1, <2>1, <2>2, <2>3, ClosesError
  <2> QED
    BY <1>1, <2>4 DEF Promise!Next
<1> QED
  BY <1>2, <1>3, <1>4

LEMMA EndOfStepsSteps ==
  ASSUME WorkflowInv, EndOfSteps PROVE [Promise!Next]_(Promise!board)
<1>1. Promise!Close /\ plan' = plan
  BY ClosesDone DEF EndOfSteps, WorkflowInv, NoneFatal
<1> QED
  BY <1>1 DEF Promise!Next

LEMMA VisitSteps ==
  ASSUME WorkflowInv, NEW s \in Steps, Visit(s) PROVE [Promise!Next]_(Promise!board)
<1>1. wf = "scan" /\ s \in pending /\ at[s] = "waiting" /\ UNCHANGED <<plan, wf>> /\ Live
  BY DEF Visit, WorkflowInv, PendingWaits, Live, BatchFits
<1>2. CASE Barred(s)
  <2>1. PICK k \in plan.needs[s] : states[k] \in {"failed", "skipped"}
    BY <1>2 DEF Barred
  <2>2. k \in Keys /\ states[k] # None
    BY <1>1, <2>1, NoneIsNoWord DEF WorkflowInv, Resolved, Ends
  <2>3. \E t \in Of(k) : at[t] \in {"failed", "skipped"}
    BY <1>1, <2>1, <2>2 DEF WorkflowInv, StatesTrue
  <2>4. Promise!PassOver(s)
    BY <1>1, <1>2, <2>1, <2>3 DEF Visit, Promise!PassOver, Promise!Lacking,
       Promise!Of, Promise!Steps, Of, Steps
  <2> QED
    BY <1>1, <2>4 DEF Promise!Next, Promise!Steps, Steps
<1>3. CASE ~Barred(s)
  BY <1>1, <1>3 DEF Visit, Promise!board
<1> QED
  BY <1>2, <1>3

(* A knot: all that is pending was looked at, nothing was ready, and       *)
(* nothing was passed over.                                                *)
LEMMA RoundEndsSteps ==
  ASSUME WorkflowInv, RoundEnds PROVE [Promise!Next]_(Promise!board)
<1>1. wf = "scan" /\ visit = {} /\ UNCHANGED <<plan, at>> /\ Live
  BY DEF RoundEnds, Live
<1>2. \A t \in Steps : at[t] # "running"
  BY <1>1 DEF WorkflowInv, RunningInBatch
<1>3. CASE wf' \in {"scan", "launch"}
  BY <1>1, <1>3 DEF Promise!board
<1>4. CASE wf' = "error" /\ pending # {} /\ batch = {}
  <2>1. PICK s \in pending : ~Met(s)
    BY <1>1, <1>4 DEF WorkflowInv, RoundLooked
  <2>2. s \in Steps /\ at[s] = "waiting"
    BY <1>1 DEF WorkflowInv, WorkflowTypeOK, PendingWaits
  <2>3. Promise!Close
    BY <1>1, <1>2, <1>4, <2>1, <2>2, UnmetIsStuck, ClosesError
  <2> QED
    BY <1>1, <2>3 DEF Promise!Next
<1>5. CASE pending = {} /\ wf' = (IF Fatal THEN "error" ELSE "done")
  <2>1. Promise!Close
    BY <1>1, <1>2, <1>5, ClosesDone, ClosesError
  <2> QED
    BY <1>1, <2>1 DEF Promise!Next
<1> QED
  BY <1>1, <1>3, <1>4, <1>5 DEF RoundEnds

LEMMA LaunchSteps ==
  ASSUME WorkflowInv, NEW s \in Steps, Launch(s) PROVE Promise!Next
<1>1. /\ wf = "launch" /\ s \in batch \cap pending /\ UNCHANGED <<plan, wf>>
      /\ at' = [at EXCEPT ![s] = "running"] /\ Live
  BY DEF Launch, Live
<1>2. at[s] = "waiting"
  BY <1>1 DEF WorkflowInv, PendingWaits
<1>3. Cardinality(Promise!Running) < plan.width
  <2> DEFINE R == Promise!Running
  <2>1. R \subseteq batch \ {s}
    BY <1>1, <1>2 DEF WorkflowInv, RunningInBatch, Promise!Running, Promise!Steps,
       Steps
  <2>2. IsFiniteSet(batch) /\ Cardinality(batch) \in Nat /\ plan.width \in Nat
    BY PlanFacts, FS_Subset, FS_CardinalityType DEF WorkflowInv, WorkflowTypeOK
  <2>3. IsFiniteSet(batch \ {s}) /\ Cardinality(batch \ {s}) = Cardinality(batch) - 1
    BY <1>1, <2>2, FS_RemoveElement
  <2> HIDE DEF R
  <2>4. Cardinality(R) <= Cardinality(batch \ {s}) /\ Cardinality(R) \in Nat
    BY <2>1, <2>3, FS_Subset, FS_CardinalityType
  <2>5. Cardinality(batch) <= plan.width
    BY <1>1 DEF WorkflowInv, BatchFits
  <2>6. Cardinality(R) < plan.width
    BY <2>2, <2>3, <2>4, <2>5
  <2> QED
    BY <2>6 DEF R
<1>4. ASSUME NEW k \in plan.needs[s] PROVE \E t \in Promise!Of(k) : at[t] = "completed"
  <2>1. k \in Keys /\ states[k] = "completed"
    BY <1>1 DEF WorkflowInv, BatchMet, Met, Resolved
  <2>2. \E t \in Of(k) : at[t] = "completed"
    BY <1>1, <2>1, NoneIsNoWord DEF WorkflowInv, StatesTrue, Ends
  <2> QED
    BY <2>2 DEF Promise!Of, Promise!Steps, Of, Steps
<1>5. Promise!Launch(s)
  BY <1>1, <1>2, <1>3, <1>4, SameCount DEF Promise!Launch
<1> QED
  BY <1>1, <1>5 DEF Promise!Next, Promise!Steps, Steps

LEMMA SettlingSteps ==
  ASSUME NEW s \in Steps, Succeeds(s) \/ Fails(s) PROVE [Promise!Next]_(Promise!board)
<1>1. wf = "launch" /\ at[s] = "running" /\ UNCHANGED <<plan, wf>>
  BY DEF Succeeds, Fails, loop
<1>2. CASE UNCHANGED at
  BY <1>1, <1>2 DEF Promise!board
<1>3. CASE at' # at
  <2>1. Promise!Settle(s)
    BY <1>1, <1>3 DEF Succeeds, Fails, Promise!Settle
  <2> QED
    BY <1>1, <2>1 DEF Promise!Next, Promise!Steps, Steps
<1> QED
  BY <1>2, <1>3

LEMMA JoinSteps == ASSUME WorkflowInv, Join PROVE [Promise!Next]_(Promise!board)
<1>1. wf = "launch" /\ UNCHANGED <<plan, at>>
  BY DEF Join
<1>2. CASE wf' # "error"
  BY <1>1, <1>2 DEF Join, Promise!board
<1>3. CASE wf' = "error"
  <2>1. \A t \in Steps : at[t] # "running"
    BY <1>1 DEF Join, WorkflowInv, RunningInBatch
  <2>2. Fatal
    BY <1>3 DEF Join
  <2>3. Promise!Close
    BY <1>1, <1>3, <2>1, <2>2, ClosesError
  <2> QED
    BY <1>1, <2>3 DEF Promise!Next
<1> QED
  BY <1>2, <1>3

LEMMA WorkflowStepSteps ==
  WorkflowInv /\ WorkflowStep => [Promise!Next]_(Promise!board)
BY ResolveSteps, TakeSteps, EndOfStepsSteps, VisitSteps, RoundEndsSteps,
   LaunchSteps,
   SettlingSteps, JoinSteps DEF WorkflowStep

-----------------------------------------------------------------------------
(* The callbacks.                                                          *)

LEMMA NoneIsNoMark == Marks \ {None} = {"pending", "received", "running", "done", "error"}
BY CommandAssumption DEF Marks

(* A step of a callback leaves the bookkeeping of the workflow alone, but  *)
(* for the call of the workflow itself.                                    *)
Callback(r) ==
  \/ \E c \in Commands : Deliver(r, c)
  \/ Find(r) \/ GivesUp(r) \/ Save(r) \/ Claim(r) \/ Receive(r) \/ Told(r) \/ ToldLast(r)
  \/ MarkRunning(r) \/ CallOther(r) \/ JobReturns(r) \/ Finish(r)

LEMMA CallbackLeaves ==
  ASSUME NEW r \in Clients, Callback(r) PROVE UNCHANGED <<plan, loop, at, wf>>
BY DEF Callback, Deliver, GivesUp, Find, Save, Claim, Receive, Told, ToldLast, AfterLast, MarkRunning,
   CallOther, JobReturns, Finish, To, Mark, Answer, Report, wvars, loop

(* A callback goes from place to place, and marks its row.                 *)
LEMMA OneGoesOn ==
  ASSUME CommandsInv, NEW r \in Clients, NEW to \in Callbacks,
         pc[r] # "idle", pc' = [pc EXCEPT ![r] = to], UNCHANGED <<cmd, wf, answers>>,
         \/ rows' = rows
         \/ \E m \in Marks \ {None} : rows' = [rows EXCEPT ![cmd[r]] = m],
         to \in Before \cup After => Inside(r),
         to \in Before => pc[r] \in Before
  PROVE  CommandsInv'
<1>1. /\ pc'[r] = to /\ \A q \in Clients \ {r} : pc'[q] = pc[q]
      /\ cmd[r] \in Commands /\ pc' \in [Clients -> Callbacks]
  BY DEF CommandsInv, CommandsTypeOK
<1>2. /\ rows' \in [Commands -> Marks]
      /\ \A c \in Commands : rows[c] # None => rows'[c] # None
  BY <1>1, NoneIsNoMark DEF CommandsInv, CommandsTypeOK
<1>3. \A q \in Clients : Inside(q)' => Inside(q) /\ cmd[q] \in Commands
  <2>1. "idle" \notin Before \cup After
    BY DEF Before, After
  <2> QED BY <1>1, <2>1 DEF Inside, CommandsInv, CommandsTypeOK
<1>4. CommandsTypeOK'
  BY <1>1, <1>2 DEF CommandsInv, CommandsTypeOK
<1>5. InsideHasRow' /\ InsideAlone' /\ InsideUnanswered'
  BY <1>2, <1>3 DEF CommandsInv, InsideHasRow, InsideAlone, InsideUnanswered
<1>6. BegunHasRow' /\ AnsweredHasRow' /\ AnsweredOnce'
  BY <1>2, CommandAssumption DEF CommandsInv, BegunHasRow, AnsweredHasRow, AnsweredOnce
<1>7. NotBegunBefore'
  BY <1>1 DEF CommandsInv, NotBegunBefore
<1> QED
  BY <1>4, <1>5, <1>6, <1>7 DEF CommandsInv

LEMMA DeliverKeeps ==
  ASSUME CommandsInv, NEW r \in Clients, NEW c \in Commands, Deliver(r, c) PROVE CommandsInv'
<1>1. /\ pc' = [pc EXCEPT ![r] = "find"] /\ cmd' = [cmd EXCEPT ![r] = c]
      /\ UNCHANGED <<wf, rows, answers>>
  BY DEF Deliver, To, wvars, loop
<1>2. \A q \in Clients : (Inside(q)' => q # r) /\ (q # r => pc'[q] = pc[q] /\ cmd'[q] = cmd[q])
  BY <1>1 DEF Inside, Before, After, CommandsInv, CommandsTypeOK
<1>3. CommandsTypeOK'
  BY <1>1 DEF CommandsInv, CommandsTypeOK, Callbacks
<1>4. InsideHasRow' /\ InsideAlone' /\ InsideUnanswered'
  BY <1>1, <1>2 DEF CommandsInv, InsideHasRow, InsideAlone, InsideUnanswered, Inside
<1>5. NotBegunBefore'
  BY <1>1, <1>2 DEF CommandsInv, NotBegunBefore, Inside
<1> QED
  BY <1>1, <1>3, <1>4, <1>5 DEF CommandsInv, BegunHasRow, AnsweredHasRow, AnsweredOnce

(* Of two clients with the same command one fails to insert, so that who   *)
(* inserts is alone, and before the first answer.                          *)
LEMMA SaveKeeps ==
  ASSUME CommandsInv, NEW r \in Clients, Save(r) PROVE CommandsInv'
<1>1. CASE rows[cmd[r]] # None
  BY <1>1, OneGoesOn DEF Save, To, Callbacks, Before, After, wvars, loop
<1>2. CASE rows[cmd[r]] = None
  <2>1. /\ pc[r] = "save" /\ pc' = [pc EXCEPT ![r] = "claim"]
        /\ rows' = [rows EXCEPT ![cmd[r]] = "pending"]
        /\ UNCHANGED <<wf, cmd, answers>> /\ cmd[r] \in Commands
    BY <1>2 DEF Save, To, wvars, loop, CommandsInv, CommandsTypeOK
  <2>2. /\ \A q \in Clients \ {r} : pc'[q] = pc[q] /\ Inside(q)' = Inside(q)
        /\ rows' \in [Commands -> Marks] /\ pc' \in [Clients -> Callbacks]
        /\ \A c \in Commands : rows[c] # None => rows'[c] # None
        /\ rows'[cmd[r]] # None
    BY <2>1, CommandAssumption DEF CommandsInv, CommandsTypeOK, Marks, Callbacks, Before, After, Inside
  <2>3. \A q \in Clients : Inside(q) => cmd[q] # cmd[r] /\ cmd[q] \in Commands
    BY <1>2 DEF CommandsInv, InsideHasRow, CommandsTypeOK, Inside, Before, After
  <2>4. answers[cmd[r]] = <<>> /\ (cmd[r] = Job => wf = "none")
    BY <1>2, <2>1 DEF CommandsInv, AnsweredHasRow, BegunHasRow
  <2>5. CommandsTypeOK'
    BY <2>1, <2>2 DEF CommandsInv, CommandsTypeOK
  <2>6. InsideHasRow' /\ InsideAlone' /\ InsideUnanswered'
    BY <2>1, <2>2, <2>3, <2>4 DEF CommandsInv, InsideHasRow, InsideAlone, InsideUnanswered
  <2>7. BegunHasRow' /\ AnsweredHasRow' /\ AnsweredOnce'
    BY <2>1, <2>2, CommandAssumption DEF CommandsInv, BegunHasRow, AnsweredHasRow, AnsweredOnce
  <2>8. NotBegunBefore'
    BY <2>1, <2>2, <2>4 DEF CommandsInv, NotBegunBefore
  <2> QED
    BY <2>5, <2>6, <2>7, <2>8 DEF CommandsInv
<1> QED
  BY <1>1, <1>2

LEMMA ToldLastKeeps ==
  ASSUME CommandsInv, NEW r \in Clients, ToldLast(r) PROVE CommandsInv'
<1>1. /\ pc' = [pc EXCEPT ![r] = "idle"] /\ UNCHANGED <<wf, cmd, rows>>
      /\ \E a \in {"done", "error", "lost"} :
           answers' = [answers EXCEPT ![cmd[r]] = Append(@, a)]
      /\ Inside(r) /\ cmd[r] \in Commands
  BY DEF ToldLast, AfterLast, Answer, To, wvars, loop, Inside, After, CommandsInv, CommandsTypeOK
<1>2. answers[cmd[r]] = <<>> /\ rows[cmd[r]] # None
  BY <1>1 DEF CommandsInv, InsideUnanswered, InsideHasRow
<1>3. /\ answers' \in [Commands -> Seq({"done", "error", "lost"})]
      /\ Len(answers'[cmd[r]]) = 1
      /\ \A c \in Commands \ {cmd[r]} : answers'[c] = answers[c]
  BY <1>1, <1>2 DEF CommandsInv, CommandsTypeOK
<1>4. \A q \in Clients : Inside(q)' =>
        /\ Inside(q) /\ q # r /\ pc'[q] = pc[q] /\ cmd[q] \in Commands /\ cmd[q] # cmd[r]
  BY <1>1 DEF Inside, Before, After, CommandsInv, CommandsTypeOK, InsideAlone
<1>5. CommandsTypeOK'
  BY <1>1, <1>3 DEF CommandsInv, CommandsTypeOK, Callbacks
<1>6. InsideHasRow' /\ InsideAlone' /\ InsideUnanswered'
  BY <1>1, <1>3, <1>4 DEF CommandsInv, InsideHasRow, InsideAlone, InsideUnanswered
<1>7. BegunHasRow' /\ AnsweredHasRow' /\ AnsweredOnce'
  BY <1>1, <1>2, <1>3 DEF CommandsInv, BegunHasRow, AnsweredHasRow, AnsweredOnce
<1>8. NotBegunBefore'
  BY <1>1, <1>4 DEF CommandsInv, NotBegunBefore, Inside
<1> QED
  BY <1>5, <1>6, <1>7, <1>8 DEF CommandsInv

LEMMA CallbackKeeps ==
  ASSUME CommandsInv, NEW r \in Clients, Callback(r) PROVE CommandsInv'
<1>1. CASE Find(r) \/ GivesUp(r)
  BY <1>1, OneGoesOn DEF Find, GivesUp, To, Inside, Before, After, Callbacks, wvars, loop
<1>2. CASE Claim(r) \/ Told(r) \/ CallOther(r)
  BY <1>2, OneGoesOn DEF Claim, Told, CallOther, To, Inside, Before, After, Callbacks, wvars, loop
<1>3. CASE Receive(r) \/ MarkRunning(r) \/ Finish(r)
  BY <1>3, NoneIsNoMark, OneGoesOn
     DEF Receive, MarkRunning, Finish, To, Mark, Inside, Before, After, Callbacks, wvars, loop
<1>4. CASE JobReturns(r)
  BY <1>4, CallbackLeaves, OneGoesOn DEF JobReturns, Callback, To, Inside, Before, After, Callbacks, loop
<1> QED
  BY <1>1, <1>2, <1>3, <1>4, DeliverKeeps, SaveKeeps, ToldLastKeeps DEF Callback

LEMMA CallJobKeeps ==
  ASSUME CommandsInv, NEW r \in Clients, CallJob(r) PROVE CommandsInv'
BY DEF CallJob, BeginWorkflow, To, CommandsInv, CommandsTypeOK, InsideHasRow,
   InsideAlone,
   BegunHasRow, NotBegunBefore, AnsweredHasRow, InsideUnanswered,
   AnsweredOnce, Inside, Before, After, Callbacks

LEMMA CrashKeeps == ASSUME CommandsInv, Crash PROVE CommandsInv'
BY DEF Crash, Halt, CommandsInv, CommandsTypeOK, InsideHasRow, InsideAlone,
   BegunHasRow, NotBegunBefore, AnsweredHasRow, InsideUnanswered,
   AnsweredOnce, Inside, Before, After, Callbacks

(* A workflow that goes on has begun.                                      *)
LEMMA WorkflowKeepsCommands ==
  ASSUME CommandsInv, WorkflowInv, WorkflowStep, UNCHANGED cvars PROVE CommandsInv'
<1>1. wf # "none" /\ UNCHANGED <<rows, pc, cmd, answers>>
  BY DEF WorkflowStep, Resolve, EndOfSteps, RoundEnds, Join, Take, Visit, Launch,
     Succeeds, Fails, cvars
<1> QED
  BY <1>1 DEF CommandsInv, CommandsTypeOK, InsideHasRow, InsideAlone,
     BegunHasRow, NotBegunBefore, AnsweredHasRow, InsideUnanswered,
   AnsweredOnce, Inside, Before, After, Callbacks

-----------------------------------------------------------------------------

LEMMA InitIInv == Init => IInv
<1>1. Init => CommandsInv
  BY CommandAssumption DEF Init, WorkflowInit, CommandsInv, CommandsTypeOK,
     InsideHasRow, InsideAlone,
     BegunHasRow, NotBegunBefore, AnsweredHasRow, InsideUnanswered,
   AnsweredOnce, Inside, Before, After, Callbacks, Marks
<1> QED
  BY <1>1, WorkflowBegins DEF Init, IInv

(* Every step keeps the invariant, and is a step of the plan or none.      *)
LEMMA NextSteps ==
  ASSUME IInv, [Next]_vars PROVE IInv' /\ [Promise!Next]_(Promise!board)
<1>1. ASSUME NEW r \in Clients, Callback(r) PROVE IInv' /\ [Promise!Next]_(Promise!board)
  <2>1. UNCHANGED <<plan, loop, at, wf>>
    BY <1>1, CallbackLeaves
  <2> QED
    BY <1>1, <2>1, CallbackKeeps, WorkflowSame DEF IInv, Promise!board
<1>2. ASSUME NEW r \in Clients, CallJob(r) PROVE IInv' /\ [Promise!Next]_(Promise!board)
  <2>1. wf = "none" /\ BeginWorkflow
    BY <1>2 DEF CallJob, IInv, CommandsInv, NotBegunBefore, Before
  <2>2. \A s \in Steps : at[s] = "waiting"
    BY <2>1 DEF IInv, WorkflowInv, NothingStarted
  <2>3. at' = at /\ plan' = plan /\ wf' = "resolve"
    BY <2>1, <2>2 DEF BeginWorkflow, IInv, WorkflowInv, WorkflowTypeOK
  <2>4. Promise!Begin
    BY <2>1, <2>3 DEF Promise!Begin
  <2> QED
    BY <1>2, <2>1, <2>3, <2>4, CallJobKeeps, BeginKeeps DEF IInv, Promise!Next
<1>3. CASE WorkflowStep /\ UNCHANGED cvars
  BY <1>3, WorkflowStepKeeps, WorkflowStepSteps, WorkflowKeepsCommands DEF IInv
<1>4. CASE Crash
  <2>1. Halt
    BY <1>4 DEF Crash
  <2>2. (Promise!Interrupt /\ plan' = plan) \/ UNCHANGED Promise!board
    BY <2>1 DEF Halt, Promise!Interrupt, Promise!board, IInv, WorkflowInv,
       WorkflowTypeOK
  <2> QED
    BY <1>4, <2>1, <2>2, CrashKeeps, HaltKeeps DEF IInv, Promise!Next
<1>5. CASE UNCHANGED vars
  <2>1. UNCHANGED <<plan, loop, at, wf, rows, pc, cmd, answers>>
    BY <1>5 DEF vars, wvars, cvars, loop
  <2>2. CommandsInv'
    BY <2>1 DEF IInv, CommandsInv, CommandsTypeOK, InsideHasRow, InsideAlone,
       BegunHasRow, NotBegunBefore, AnsweredHasRow, InsideUnanswered,
   AnsweredOnce, Inside, Before, After, Callbacks
  <2> QED
    BY <2>1, <2>2, WorkflowSame DEF IInv, Promise!board
<1> QED
  BY <1>1, <1>2, <1>3, <1>4, <1>5 DEF Next, Handling, Callback

LEMMA InitSteps == Init => Promise!Init
BY DEF Init, WorkflowInit, Promise!Init, Promise!Steps, Steps

(* PlanSpec: however often the command of a remote workflow is delivered,  *)
(* to whichever client, with crashes and failing accesses in between, it   *)
(* is run once; each step is started once at most, after what it needs,    *)
(* and no more at a time than allowed; and when it is over nothing runs    *)
(* and the outcome is true (HandleCommand, runRemoteWorkflowSequential and *)
(* runRemoteWorkflowParallel).                                             *)
THEOREM ImplementsPlan == Spec => PlanSpec
<1>1. IInv /\ [Next]_vars => IInv' /\ [Promise!Next]_(Promise!board)
  BY NextSteps
<1> QED
  BY InitIInv, InitSteps, <1>1, PTL DEF Spec, PlanSpec, Promise!Spec

(* AnsweredOnce: a command has one final answer at most, since its answer  *)
(* is the last a callback does about it, one client at most is inside, and *)
(* none gets there again once there is a row (HandleCommand).              *)
THEOREM AnsweredAtMostOnce == Spec => []AnsweredOnce
<1>1. IInv /\ [Next]_vars => IInv'
  BY NextSteps
<1>2. IInv => AnsweredOnce
  BY DEF IInv, CommandsInv
<1> QED
  BY InitIInv, <1>1, <1>2, PTL DEF Spec
=============================================================================
