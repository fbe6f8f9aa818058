---------------------- MODULE InstanceLifecycle_proofs ----------------------
(***************************************************************************)
(* Theorems about InstanceLifecycle, for any instances and dependencies,   *)
(* any number of goroutines and any bounds.                                *)
(***************************************************************************)
EXTENDS InstanceLifecycle, TLAPS

(* A step of goroutine r that makes it g.                                  *)
Becomes(r, g) == run' = [run EXCEPT ![r] = g]

(* A sound goroutine put in the place of another keeps them all sound.     *)
LEMMA PutKeeps ==
  ASSUME RunsOK, NEW r \in Runs, NEW g \in Goroutine, Sound(g), Becomes(r, g)
  PROVE  RunsOK'
<1>1. run' \in [Runs -> Goroutine]
  BY DEF RunsOK, Becomes
<1>2. ASSUME NEW s \in Runs PROVE Sound(run'[s])
  <2>1. run'[s] = IF s = r THEN g ELSE run[s]
    BY DEF RunsOK, Becomes
  <2> QED BY <2>1 DEF RunsOK
<1> QED BY <1>1, <1>2 DEF RunsOK, Sound

(* What the steps put there.                                               *)
LEMMA IdleSound == Idle \in Goroutine /\ Sound(Idle)
BY DEF Idle, Fresh, Goroutine, Sound, RunStates, ChainStates

LEMMA SpawnedSound ==
  ASSUME NEW i \in Instances, NEW t \in {"interval", "request", "workflow"}
  PROVE  Spawned(i, t) \in Goroutine /\ Sound(Spawned(i, t))
BY InstancesAssumption DEF Spawned, Fresh, Goroutine, Sound, RunStates, ChainStates

LEMMA LookingSound ==
  ASSUME NEW S, S \subseteq Instances
  PROVE  Looking(S) \in Goroutine /\ Sound(Looking(S))
<1>1. CASE S = {}
  BY <1>1, IdleSound DEF Looking
<1>2. CASE S # {}
  BY <1>2 DEF Looking, Fresh, Goroutine, Sound, RunStates, ChainStates
<1> QED BY <1>1, <1>2

LEMMA DropSound ==
  ASSUME RunsOK, NEW r \in Runs, NEW d
  PROVE  Drop(r, d) \in Goroutine /\ Sound(Drop(r, d))
<1>1. run[r].free \ {d} \subseteq Instances
  BY DEF RunsOK, Goroutine
<1> QED BY <1>1, LookingSound DEF Drop

LEMMA EndedSound ==
  ASSUME RunsOK, NEW r \in Runs, run[r].pc \in RunStates
  PROVE  Ended(r) \in Goroutine /\ Sound(Ended(r))
<1>1. CASE Follows(r)
  <2>1. run[r].inst \in Instances
    BY DEF RunsOK, Goroutine, Sound
  <2> QED BY <1>1, <2>1, InstancesAssumption
          DEF Ended, Fresh, Goroutine, Sound, RunStates, ChainStates
<1>2. CASE ~ Follows(r)
  BY <1>2, IdleSound DEF Ended
<1> QED BY <1>1, <1>2

(* A step from one program point of a run to the next.                     *)
LEMMA GotoSound ==
  ASSUME RunsOK, NEW r \in Runs, NEW l \in RunStates, run[r].pc \in RunStates, Goto(r, l),
         l \in {"ran", "recorded", "reporting"} => run[r].result # "none"
  PROVE  RunsOK'
<1> DEFINE g == [run[r] EXCEPT !.pc = l]
<1>1. run[r] \in Goroutine /\ Sound(run[r])
  BY DEF RunsOK
<1>2. g \in Goroutine
  BY <1>1 DEF Goroutine
<1>3. Sound(g)
  BY <1>1 DEF Goroutine, Sound, RunStates
<1>4. Becomes(r, g)
  BY DEF Goto, Becomes
<1> QED BY <1>2, <1>3, <1>4, PutKeeps

(* The instance of a run.                                                  *)
LEMMA RunInstance ==
  ASSUME RunsOK, NEW r \in Runs, run[r].pc \in RunStates \cup {"listing", "beginning"}
  PROVE  run[r].inst \in Instances
BY DEF RunsOK, Goroutine, Sound

----------------------------------------------------------------------------
(* The variables of InstanceLifecycle always have their types: a goroutine *)
(* in a run has its instance and its trigger, and its result from Execute  *)
(* on (triggerInstance and triggerDependentInstances).                     *)
THEOREM TypeCorrect == Spec => []TypeOK
<1>1. Init => TypeOK
  <2> SUFFICES ASSUME Init PROVE TypeOK
    OBVIOUS
  <2>1. RunsOK
    BY IdleSound DEF Init, RunsOK
  <2>2. latest \in [Instances -> Execution]
    BY DEF Init, Execution
  <2>3. editing \in [inst : Instances \cup {None}, status : Status]
    BY DEF Init, NoEdit, Status
  <2>4. status \in [Instances -> Status] /\ due \in [Instances -> BOOLEAN]
    BY DEF Init, Status
  <2>5. requests \in 0 .. MaxRequests /\ crashes \in 0 .. MaxCrashes /\ edits \in 0 .. MaxEdits
    BY BoundsAssumption DEF Init
  <2>6. up \in BOOLEAN /\ link \in BOOLEAN
    BY DEF Init
  <2> QED BY <2>1, <2>2, <2>3, <2>4, <2>5, <2>6 DEF Init, TypeOK
<1>2. TypeOK /\ [Next]_vars => TypeOK'
  <2> SUFFICES ASSUME TypeOK, [Next]_vars PROVE TypeOK'
    OBVIOUS
  <2> USE DEF TypeOK
  <2>0. ASSUME UNCHANGED vars PROVE TypeOK'
    BY <2>0 DEF vars, table, bounds, RunsOK
  <2>1. ASSUME Start PROVE TypeOK'
    BY <2>1 DEF Start, table, bounds, RunsOK
  <2>2. ASSUME LinkDrops PROVE TypeOK'
    BY <2>2 DEF LinkDrops, table, bounds, RunsOK
  <2>3. ASSUME LinkReturns PROVE TypeOK'
    BY <2>3 DEF LinkReturns, table, bounds, RunsOK
  <2>4. ASSUME Crash PROVE TypeOK'
    <3>1. RunsOK'
      BY <2>4, IdleSound DEF Crash, RunsOK, Sound
    <3>2. crashes' \in 0 .. MaxCrashes
      BY <2>4, BoundsAssumption DEF Crash
    <3>3. editing' \in [inst : Instances \cup {None}, status : Status]
      BY <2>4 DEF Crash, NoEdit, Status
    <3> QED BY <2>4, <3>1, <3>2, <3>3 DEF Crash, table
  <2>5. ASSUME NEW i \in Interval, IntervalPasses(i) PROVE TypeOK'
    BY <2>5 DEF IntervalPasses, bounds, RunsOK
  <2>6. ASSUME PollLists PROVE TypeOK'
    BY <2>6 DEF PollLists, table, bounds, RunsOK
  <2>7. ASSUME NEW i \in Interval, PollSkips(i) PROVE TypeOK'
    BY <2>7 DEF PollSkips, table, bounds, RunsOK
  <2>8. ASSUME NEW i \in Interval, NEW r \in Runs, PollSpawns(i, r) PROVE TypeOK'
    <3>1. RunsOK'
      <4>1. i \in Instances
        BY InstancesAssumption
      <4>2. Becomes(r, Spawned(i, "interval"))
        BY <2>8 DEF PollSpawns, Becomes
      <4> QED BY <4>1, <4>2, SpawnedSound, PutKeeps
    <3> QED BY <2>8, <3>1 DEF PollSpawns, table, bounds
  <2>9. ASSUME NEW i \in Instances, NEW r \in Runs, Request(i, r) PROVE TypeOK'
    <3>1. RunsOK'
      <4>1. Becomes(r, Spawned(i, "request"))
        BY <2>9 DEF Request, Becomes
      <4> QED BY <4>1, SpawnedSound, PutKeeps
    <3>2. requests' \in 0 .. MaxRequests
      BY <2>9, BoundsAssumption DEF Request
    <3> QED BY <2>9, <3>1, <3>2 DEF Request, table
  <2>10. ASSUME NEW r \in Runs, CreateExecution(r) PROVE TypeOK'
    <3>1. RunsOK'
      BY <2>10, GotoSound DEF CreateExecution, At, RunStates
    <3>2. [state |-> "running", by |-> r] \in Execution
      BY DEF Execution
    <3>3. latest' \in [Instances -> Execution]
      BY <2>10, <3>2 DEF CreateExecution
    <3>4. due' \in [Instances -> BOOLEAN]
      BY <2>10 DEF CreateExecution
    <3> QED BY <2>10, <3>1, <3>3, <3>4 DEF CreateExecution, bounds
  <2>11. ASSUME NEW r \in Runs, MarkRunning(r) PROVE TypeOK'
    <3>1. RunsOK'
      BY <2>11, GotoSound DEF MarkRunning, At, RunStates
    <3>2. status' \in [Instances -> Status]
      BY <2>11 DEF MarkRunning, Status
    <3> QED BY <2>11, <3>1, <3>2 DEF MarkRunning, bounds
  <2>12. ASSUME NEW r \in Runs, Execute(r) PROVE TypeOK'
    <3>1. RunsOK'
      <4>1. PICK end \in {"success", "failed"} : run' = [run EXCEPT ![r].pc = "ran", ![r].result = end]
        BY <2>12 DEF Execute
      <4> DEFINE g == [run[r] EXCEPT !.pc = "ran", !.result = end]
      <4>2. run[r] \in Goroutine /\ Sound(run[r]) /\ run[r].pc = "executing"
        BY <2>12 DEF RunsOK, Execute, At
      <4>3. g \in Goroutine
        BY <4>2 DEF Goroutine, RunStates
      <4>4. Sound(g)
        BY <4>2 DEF Goroutine, Sound, RunStates
      <4>5. Becomes(r, g)
        BY <4>1 DEF Becomes, RunsOK
      <4> QED BY <4>3, <4>4, <4>5, PutKeeps
    <3> QED BY <2>12, <3>1 DEF Execute, table, bounds
  <2>13. ASSUME NEW r \in Runs, RecordExecution(r) PROVE TypeOK'
    <3>0. run[r] \in Goroutine /\ Sound(run[r]) /\ run[r].pc = "ran"
      BY <2>13 DEF RunsOK, RecordExecution, At
    <3>1. RunsOK'
      BY <2>13, <3>0, GotoSound DEF RecordExecution, Sound, RunStates
    <3>2. [state |-> run[r].result, by |-> None] \in Execution
      BY <3>0 DEF Goroutine, Sound, Execution
    <3>3. latest' \in [Instances -> Execution]
      BY <2>13, <3>2 DEF RecordExecution
    <3>4. unserved' \subseteq Instances
      BY <2>13 DEF RecordExecution, Dependents
    <3> QED BY <2>13, <3>1, <3>3, <3>4 DEF RecordExecution, bounds
  <2>14. ASSUME NEW r \in Runs, MarkEnded(r) PROVE TypeOK'
    <3>0. run[r] \in Goroutine /\ Sound(run[r]) /\ run[r].pc = "recorded"
      BY <2>14 DEF RunsOK, MarkEnded, At
    <3>1. RunsOK'
      BY <2>14, <3>0, GotoSound DEF MarkEnded, Sound, RunStates
    <3>2. status' \in [Instances -> Status]
      BY <2>14 DEF MarkEnded, Status, StatusAfter
    <3> QED BY <2>14, <3>1, <3>2 DEF MarkEnded, bounds
  <2>15. ASSUME NEW r \in Runs, Report(r) PROVE TypeOK'
    <3>1. RunsOK'
      BY <2>15, EndedSound, PutKeeps DEF Report, At, RunStates, Becomes
    <3> QED BY <2>15, <3>1 DEF Report, table, bounds
  <2>16. ASSUME NEW r \in Runs, Abandon(r) PROVE TypeOK'
    <3>1. RunsOK'
      <4>1. CASE run[r].pc \in {"recorded", "reporting"}
        <5>1. Becomes(r, Ended(r))
          BY <2>16, <4>1 DEF Abandon, Becomes
        <5> QED BY <4>1, <5>1, EndedSound, PutKeeps DEF RunStates
      <4>2. CASE run[r].pc \notin {"recorded", "reporting"}
        <5>1. Becomes(r, Idle)
          BY <2>16, <4>2 DEF Abandon, Becomes
        <5> QED BY <5>1, IdleSound, PutKeeps
      <4> QED BY <4>1, <4>2
    <3> QED BY <2>16, <3>1 DEF Abandon, table, bounds
  <2>17. ASSUME NEW r \in Runs, ListDependents(r) PROVE TypeOK'
    <3>1. RunsOK'
      <4> DEFINE free == {d \in Dependents(run[r].inst) : status[d] # "running"}
      <4>1. free \subseteq Instances
        BY DEF Dependents
      <4>2. Becomes(r, Looking(free))
        BY <2>17 DEF ListDependents, Becomes
      <4> QED BY <4>1, <4>2, LookingSound, PutKeeps
    <3>2. unserved' \subseteq Instances
      BY <2>17 DEF ListDependents
    <3> QED BY <2>17, <3>1, <3>2 DEF ListDependents, table, bounds
  <2>18. ASSUME NEW r \in Runs, NEW d \in Instances, NotReady(r, d) PROVE TypeOK'
    <3>1. RunsOK'
      BY <2>18, DropSound, PutKeeps DEF NotReady, Becomes
    <3> QED BY <2>18, <3>1 DEF NotReady, table, bounds
  <2>19. ASSUME NEW r \in Runs, NEW d \in Instances, Ready(r, d) PROVE TypeOK'
    <3>1. RunsOK'
      <4> DEFINE g == [run[r] EXCEPT !.pc = "beginning", !.inst = d]
      <4>1. run[r] \in Goroutine
        BY DEF RunsOK
      <4>2. g \in Goroutine
        BY <4>1 DEF Goroutine, ChainStates
      <4>3. Sound(g)
        BY <4>1, InstancesAssumption DEF Goroutine, Sound, RunStates
      <4>4. Becomes(r, g)
        BY <2>19 DEF Ready, Becomes, RunsOK
      <4> QED BY <4>2, <4>3, <4>4, PutKeeps
    <3> QED BY <2>19, <3>1 DEF Ready, table, bounds
  <2>20. ASSUME NEW r \in Runs, BeginRefused(r) PROVE TypeOK'
    <3>1. RunsOK'
      BY <2>20, DropSound, PutKeeps DEF BeginRefused, Becomes
    <3> QED BY <2>20, <3>1 DEF BeginRefused, table, bounds
  <2>21. ASSUME NEW r \in Runs, NEW s \in Runs, BeginDependent(r, s) PROVE TypeOK'
    <3>0. run[r].inst \in Instances
      BY <2>21, RunInstance DEF BeginDependent, At
    <3>1. RunsOK'
      <4> DEFINE d == run[r].inst
                 mid == [run EXCEPT ![r] = Drop(r, d)]
      <4>1. mid \in [Runs -> Goroutine] /\ \A t \in Runs : Sound(mid[t])
        BY DropSound DEF RunsOK
      <4>2. run' = [mid EXCEPT ![s] = Spawned(d, "workflow")]
        BY <2>21 DEF BeginDependent
      <4>3. Spawned(d, "workflow") \in Goroutine /\ Sound(Spawned(d, "workflow"))
        BY <3>0, SpawnedSound
      <4> HIDE DEF mid
      <4>4. run' \in [Runs -> Goroutine]
        BY <4>1, <4>2, <4>3
      <4>5. ASSUME NEW t \in Runs PROVE Sound(run'[t])
        <5>1. run'[t] = IF t = s THEN Spawned(d, "workflow") ELSE mid[t]
          BY <4>1, <4>2
        <5> QED BY <4>1, <4>3, <5>1
      <4> QED BY <4>4, <4>5 DEF RunsOK, Sound
    <3> QED BY <2>21, <3>0, <3>1 DEF BeginDependent, table, bounds
  <2>22. ASSUME NEW i \in Instances, EditReads(i) PROVE TypeOK'
    <3>1. edits' \in 0 .. MaxEdits
      BY <2>22, BoundsAssumption DEF EditReads
    <3>0. status[i] \in Status /\ "idle" \in Status
      BY DEF Status
    <3>2. editing' \in [inst : Instances \cup {None}, status : Status]
      BY <2>22, <3>0 DEF EditReads
    <3> QED BY <2>22, <3>1, <3>2 DEF EditReads, table, RunsOK
  <2>23. ASSUME EditSaves PROVE TypeOK'
    <3>1. status' \in [Instances -> Status]
      BY <2>23 DEF EditSaves, NoEdit, Status
    <3>2. editing' \in [inst : Instances \cup {None}, status : Status]
      BY <2>23 DEF EditSaves, NoEdit, Status
    <3> QED BY <2>23, <3>1, <3>2 DEF EditSaves, bounds, RunsOK
  <2> QED BY <2>0, <2>1, <2>2, <2>3, <2>4, <2>5, <2>6, <2>7, <2>8, <2>9, <2>10, <2>11, <2>12,
             <2>13, <2>14, <2>15, <2>16, <2>17, <2>18, <2>19, <2>20, <2>21, <2>22, <2>23
          DEF Next, Poll, RunStep, IntervalPasses
<1> QED BY <1>1, <1>2, PTL DEF Spec

----------------------------------------------------------------------------
(* A goroutine that is a workflow run of d.                                *)
Marks(g, d) == g.pc \in RunStates /\ g.trigger = "workflow" /\ g.inst = d

(* A goroutine in the place of one that is a workflow run of the same      *)
(* instances, with the marks left alone.                                   *)
LEMMA SameMarks ==
  ASSUME RunsOK, WorkflowRunsExclusive, NEW r \in Runs, NEW g, Becomes(r, g),
         \A d \in Instances : Marks(g, d) <=> Marks(run[r], d),
         inflight' = inflight
  PROVE  WorkflowRunsExclusive'
<1>1. \A s \in Runs : run'[s] = IF s = r THEN g ELSE run[s]
  BY DEF RunsOK, Becomes
<1>2. \A s \in Runs, d \in Instances : WorkflowRun(s, d)' <=> WorkflowRun(s, d)
  BY <1>1 DEF WorkflowRun, Marks
<1> QED BY <1>2 DEF WorkflowRunsExclusive

(* A step within a run.                                                    *)
LEMMA GotoMarks ==
  ASSUME RunsOK, WorkflowRunsExclusive, NEW r \in Runs, NEW l \in RunStates,
         run[r].pc \in RunStates, Goto(r, l), inflight' = inflight
  PROVE  WorkflowRunsExclusive'
<1> DEFINE g == [run[r] EXCEPT !.pc = l]
<1>1. run[r] \in Goroutine
  BY DEF RunsOK
<1>2. g.pc = l /\ g.trigger = run[r].trigger /\ g.inst = run[r].inst
  BY <1>1 DEF Goroutine
<1>3. Becomes(r, g)
  BY DEF Goto, Becomes, RunsOK
<1> HIDE DEF g
<1>4. \A d \in Instances : Marks(g, d) <=> Marks(run[r], d)
  BY <1>2 DEF Marks
<1> QED BY <1>3, <1>4, SameMarks

(* What carries no mark: goroutines between runs, and runs that were not   *)
(* triggered by the workflow.                                              *)
LEMMA NoMarks ==
  /\ \A d : ~ Marks(Idle, d)
  /\ \A S, d : ~ Marks(Looking(S), d)
  /\ \A r, e, d : ~ Marks(Drop(r, e), d)
  /\ \A r, d : ~ Marks(Ended(r), d)
  /\ \A i, d : ~ Marks(Spawned(i, "interval"), d) /\ ~ Marks(Spawned(i, "request"), d)
  /\ \A i, d : Marks(Spawned(i, "workflow"), d) <=> i = d
<1>1. \A d : ~ Marks(Idle, d)
  BY DEF Marks, Idle, Fresh
<1>2. \A S, d : ~ Marks(Looking(S), d)
  BY <1>1 DEF Looking, Marks, Fresh, RunStates
<1>3. \A r, e, d : ~ Marks(Drop(r, e), d)
  BY <1>2 DEF Drop
<1>4. \A r, d : ~ Marks(Ended(r), d)
  BY <1>1 DEF Ended, Marks, Fresh, RunStates
<1>5. \A i, d : ~ Marks(Spawned(i, "interval"), d) /\ ~ Marks(Spawned(i, "request"), d)
  BY DEF Spawned, Marks, Fresh
<1>6. \A i, d : Marks(Spawned(i, "workflow"), d) <=> i = d
  BY DEF Spawned, Marks, Fresh, RunStates
<1> QED BY <1>1, <1>2, <1>3, <1>4, <1>5, <1>6

(* beginWorkflowTrigger and endWorkflowTrigger: the instances marked in    *)
(* workflowInflight are those that have a workflow run, and each has one.  *)
THEOREM Exclusive == Spec => []WorkflowRunsExclusive
<1>1. Init => WorkflowRunsExclusive
  BY DEF Init, WorkflowRunsExclusive, WorkflowRun, Idle, Fresh, RunStates
<1>2. TypeOK /\ WorkflowRunsExclusive /\ [Next]_vars => WorkflowRunsExclusive'
  <2> SUFFICES ASSUME TypeOK, WorkflowRunsExclusive, [Next]_vars PROVE WorkflowRunsExclusive'
    OBVIOUS
  <2> USE NoMarks
  <2>0. RunsOK
    BY DEF TypeOK
  <2>1. ASSUME UNCHANGED <<run, inflight>> PROVE WorkflowRunsExclusive'
    BY <2>1 DEF WorkflowRunsExclusive, WorkflowRun
  <2>2. ASSUME Crash PROVE WorkflowRunsExclusive'
    BY <2>2 DEF Crash, WorkflowRunsExclusive, WorkflowRun, Idle, Fresh, RunStates
  <2>3. ASSUME NEW i \in Interval, NEW r \in Runs, PollSpawns(i, r) PROVE WorkflowRunsExclusive'
    <3>1. Becomes(r, Spawned(i, "interval")) /\ run[r].pc = "idle" /\ inflight' = inflight
      BY <2>3 DEF PollSpawns, Becomes, At
    <3>2. \A d \in Instances : ~ Marks(run[r], d)
      BY <3>1 DEF Marks, RunStates
    <3> QED BY <2>0, <3>1, <3>2, SameMarks
  <2>4. ASSUME NEW i \in Instances, NEW r \in Runs, Request(i, r) PROVE WorkflowRunsExclusive'
    <3>1. Becomes(r, Spawned(i, "request")) /\ run[r].pc = "idle" /\ inflight' = inflight
      BY <2>4 DEF Request, Becomes, At
    <3>2. \A d \in Instances : ~ Marks(run[r], d)
      BY <3>1 DEF Marks, RunStates
    <3> QED BY <2>0, <3>1, <3>2, SameMarks
  <2>5. ASSUME NEW r \in Runs,
               CreateExecution(r) \/ MarkRunning(r) \/ RecordExecution(r) \/ MarkEnded(r)
        PROVE  WorkflowRunsExclusive'
    <3>1. PICK l \in RunStates : Goto(r, l)
      BY <2>5 DEF CreateExecution, MarkRunning, RecordExecution, MarkEnded, RunStates
    <3>2. run[r].pc \in RunStates /\ inflight' = inflight
      BY <2>5 DEF CreateExecution, MarkRunning, RecordExecution, MarkEnded, At, RunStates
    <3> QED BY <2>0, <3>1, <3>2, GotoMarks
  <2>6. ASSUME NEW r \in Runs, Execute(r) PROVE WorkflowRunsExclusive'
    <3>1. PICK end \in {"success", "failed"} : run' = [run EXCEPT ![r].pc = "ran", ![r].result = end]
      BY <2>6 DEF Execute
    <3> DEFINE g == [run[r] EXCEPT !.pc = "ran", !.result = end]
    <3>2. run[r] \in Goroutine /\ run[r].pc = "executing" /\ inflight' = inflight
      BY <2>0, <2>6 DEF RunsOK, Execute, At
    <3>3. g.pc = "ran" /\ g.trigger = run[r].trigger /\ g.inst = run[r].inst
      BY <3>2 DEF Goroutine
    <3>4. Becomes(r, g)
      BY <2>0, <3>1 DEF Becomes, RunsOK
    <3> HIDE DEF g
    <3> QED BY <2>0, <3>2, <3>3, <3>4, SameMarks DEF Marks, RunStates
  <2>7. ASSUME NEW r \in Runs, Report(r) PROVE WorkflowRunsExclusive'
    <3>1. Becomes(r, Ended(r)) /\ run[r].pc = "reporting"
      BY <2>7 DEF Report, At, Becomes
    <3>2. CASE run[r].trigger = "workflow"
      <4> DEFINE e == run[r].inst
      <4>1. inflight' = inflight \ {e} /\ e \in Instances
        BY <2>0, <2>7, <3>1, <3>2, RunInstance DEF Report, RunStates
      <4>2. \A s \in Runs, d \in Instances : WorkflowRun(s, d)' <=> s # r /\ WorkflowRun(s, d)
        BY <2>0, <3>1 DEF RunsOK, Becomes, WorkflowRun, Marks
      <4>3. WorkflowRun(r, e)
        BY <3>1, <3>2 DEF WorkflowRun, RunStates
      <4>4. \A d \in Instances : WorkflowRun(r, d) => d = e
        BY DEF WorkflowRun
      <4> HIDE DEF e
      <4> QED BY <4>1, <4>2, <4>3, <4>4 DEF WorkflowRunsExclusive
    <3>3. CASE run[r].trigger # "workflow"
      <4>1. inflight' = inflight /\ \A d \in Instances : ~ Marks(run[r], d)
        BY <2>7, <3>3 DEF Report, Marks
      <4> QED BY <2>0, <3>1, <4>1, SameMarks
    <3> QED BY <3>2, <3>3
  <2>8. ASSUME NEW r \in Runs, Abandon(r) PROVE WorkflowRunsExclusive'
    <3>1. inflight' = inflight /\ \A d \in Instances : ~ Marks(run[r], d)
      BY <2>8 DEF Abandon, Marks
    <3>2. Becomes(r, Ended(r)) \/ Becomes(r, Idle)
      BY <2>8 DEF Abandon, Becomes
    <3> QED BY <2>0, <3>1, <3>2, SameMarks
  <2>9. ASSUME NEW r \in Runs, ListDependents(r) PROVE WorkflowRunsExclusive'
    <3>1. run[r].pc = "listing" /\ inflight' = inflight
      BY <2>9 DEF ListDependents, At
    <3>2. PICK S : Becomes(r, Looking(S))
      BY <2>9 DEF ListDependents, Becomes
    <3> QED BY <2>0, <3>1, <3>2, SameMarks DEF Marks, RunStates
  <2>10. ASSUME NEW r \in Runs, NEW d \in Instances, NotReady(r, d) PROVE WorkflowRunsExclusive'
    <3>1. run[r].pc = "checking" /\ inflight' = inflight /\ Becomes(r, Drop(r, d))
      BY <2>10 DEF NotReady, At, Becomes
    <3> QED BY <2>0, <3>1, SameMarks DEF Marks, RunStates
  <2>11. ASSUME NEW r \in Runs, NEW d \in Instances, Ready(r, d) PROVE WorkflowRunsExclusive'
    <3> DEFINE g == [run[r] EXCEPT !.pc = "beginning", !.inst = d]
    <3>1. run[r].pc = "checking" /\ inflight' = inflight /\ Becomes(r, g)
      BY <2>0, <2>11 DEF Ready, At, Becomes, RunsOK
    <3>2. g.pc = "beginning"
      BY <2>0 DEF RunsOK, Goroutine
    <3> HIDE DEF g
    <3> QED BY <2>0, <3>1, <3>2, SameMarks DEF Marks, RunStates
  <2>12. ASSUME NEW r \in Runs, BeginRefused(r) PROVE WorkflowRunsExclusive'
    <3>1. run[r].pc = "beginning" /\ inflight' = inflight /\ Becomes(r, Drop(r, run[r].inst))
      BY <2>12 DEF BeginRefused, At, Becomes
    <3> QED BY <2>0, <3>1, SameMarks DEF Marks, RunStates
  <2>13. ASSUME NEW r \in Runs, NEW s \in Runs, BeginDependent(r, s) PROVE WorkflowRunsExclusive'
    <3> DEFINE e == run[r].inst
    <3>1. /\ run[r].pc = "beginning" /\ e \notin inflight /\ inflight' = inflight \cup {e}
          /\ run[s].pc = "idle" \/ s = r
          /\ run' = [run EXCEPT ![r] = Drop(r, e), ![s] = Spawned(e, "workflow")]
      BY <2>13 DEF BeginDependent, At, Busy
    <3>2. e \in Instances
      BY <2>0, <3>1, RunInstance
    <3>3. \A d \in Instances : ~ WorkflowRun(r, d) /\ ~ WorkflowRun(s, d)
      BY <3>1 DEF WorkflowRun, RunStates
    <3>4. \A t \in Runs : run'[t] = IF t = s THEN Spawned(e, "workflow")
                                  ELSE IF t = r THEN Drop(r, e) ELSE run[t]
      BY <2>0, <3>1 DEF RunsOK
    <3>5. \A t \in Runs, d \in Instances :
            WorkflowRun(t, d)' <=> IF t = s THEN d = e ELSE WorkflowRun(t, d)
      BY <3>3, <3>4 DEF WorkflowRun, Marks
    <3>6. ~ \E t \in Runs : WorkflowRun(t, e)
      BY <3>1, <3>2 DEF WorkflowRunsExclusive
    <3> HIDE DEF e
    <3>7. ASSUME NEW d \in Instances
          PROVE  /\ d \in inflight' <=> \E t \in Runs : WorkflowRun(t, d)'
                 /\ \A t, u \in Runs : WorkflowRun(t, d)' /\ WorkflowRun(u, d)' => t = u
      <4>1. CASE d = e
        BY <3>1, <3>5, <3>6, <4>1
      <4>2. CASE d # e
        <5>1. \A t \in Runs : WorkflowRun(t, d)' <=> WorkflowRun(t, d)
          BY <3>3, <3>5, <4>2
        <5>2. d \in inflight' <=> d \in inflight
          BY <3>1, <4>2
        <5> QED BY <5>1, <5>2 DEF WorkflowRunsExclusive
      <4> QED BY <4>1, <4>2
    <3> QED BY <3>7 DEF WorkflowRunsExclusive
  <2>14. ASSUME \/ Start \/ LinkDrops \/ LinkReturns \/ PollLists \/ EditSaves \/ UNCHANGED vars
                \/ \E i \in Interval : IntervalPasses(i) \/ PollSkips(i)
                \/ \E i \in Instances : EditReads(i)
         PROVE  WorkflowRunsExclusive'
    BY <2>1, <2>14 DEF Start, LinkDrops, LinkReturns, PollLists, EditSaves, vars,
                       IntervalPasses, PollSkips, EditReads
  <2> QED BY <2>2, <2>3, <2>4, <2>5, <2>6, <2>7, <2>8, <2>9, <2>10, <2>11, <2>12, <2>13, <2>14
          DEF Next, Poll, RunStep, IntervalPasses
<1> QED BY <1>1, <1>2, TypeCorrect, PTL DEF Spec

----------------------------------------------------------------------------
(* A goroutine that will still look at d.                                  *)
Watches(g, d) ==
  \/ /\ g.pc \in {"recorded", "reporting"} /\ g.result = "success"
     /\ d \in Dependents(g.inst)
  \/ g.pc = "listing" /\ d \in Dependents(g.inst)
  \/ g.pc \in {"checking", "beginning"} /\ d \in g.free

(* The strengthening of JoinNotMissed: while a join is outstanding, some   *)
(* goroutine will look at it; only runs belong to a request.               *)
Watched  == \A d \in unserved : Succeeded(d) => \E r \in Runs : Watches(run[r], d)
Detached == \A r \in Runs : run[r].trigger = "request" => run[r].pc \in RunStates

(* Goroutine r becomes g, which looks at all that r was to look at and is  *)
(* still outstanding.                                                      *)
LEMMA StillWatched ==
  ASSUME RunsOK, Watched, NEW r \in Runs, NEW g, Becomes(r, g),
         unserved' \subseteq unserved,
         \A d \in unserved' : Succeeded(d)' => Succeeded(d),
         \A d \in unserved' : Succeeded(d)' /\ Watches(run[r], d) => Watches(g, d)
  PROVE  Watched'
<1> SUFFICES ASSUME NEW d \in unserved', Succeeded(d)'
             PROVE  \E s \in Runs : Watches(run'[s], d)
  BY DEF Watched, Watches
<1>1. PICK s \in Runs : Watches(run[s], d)
  BY DEF Watched
<1>2. run'[s] = IF s = r THEN g ELSE run[s]
  BY DEF RunsOK, Becomes
<1> QED BY <1>1, <1>2

LEMMA StillDetached ==
  ASSUME RunsOK, Detached, NEW r \in Runs, NEW g, Becomes(r, g),
         g.trigger = "request" => g.pc \in RunStates
  PROVE  Detached'
<1>1. \A s \in Runs : run'[s] = IF s = r THEN g ELSE run[s]
  BY DEF RunsOK, Becomes
<1> QED BY <1>1 DEF Detached

(* The latest executions decide whether dependencies have succeeded.       *)
LEMMA SameSucceeded ==
  ASSUME latest' = latest
  PROVE  \A d : Succeeded(d)' <=> Succeeded(d)
BY DEF Succeeded

(* What the goroutines of the next states look at.                         *)
LEMMA LookingWatches ==
  /\ \A S : \A d \in S : Watches(Looking(S), d)
  /\ \A r, e : \A d \in run[r].free : d # e => Watches(Drop(r, e), d)
  /\ \A r, d : Follows(r) => (Watches(Ended(r), d) <=> d \in Dependents(run[r].inst))
<1>1. \A S : \A d \in S : Watches(Looking(S), d)
  BY DEF Looking, Fresh, Watches
<1>2. \A r, e : \A d \in run[r].free : d # e => Watches(Drop(r, e), d)
  BY <1>1 DEF Drop
<1>3. \A r, d : Follows(r) => (Watches(Ended(r), d) <=> d \in Dependents(run[r].inst))
  BY DEF Ended, Fresh, Watches
<1> QED BY <1>1, <1>2, <1>3

LEMMA NoRequest ==
  /\ Idle.trigger # "request"
  /\ \A S : Looking(S).trigger # "request"
  /\ \A r, e : Drop(r, e).trigger # "request"
  /\ \A r : Ended(r).trigger # "request"
<1>1. Idle.trigger # "request"
  BY DEF Idle, Fresh
<1>2. \A S : Looking(S).trigger # "request"
  BY <1>1 DEF Looking, Fresh
<1>3. \A r, e : Drop(r, e).trigger # "request"
  BY <1>2 DEF Drop
<1>4. \A r : Ended(r).trigger # "request"
  BY <1>1 DEF Ended, Fresh
<1> QED BY <1>1, <1>2, <1>3, <1>4

(* finishExecution records a success before it turns to the dependents, so *)
(* between restarts no join is missed: when everything is quiet, every     *)
(* instance whose dependencies have all succeeded was triggered after the  *)
(* last of them, or was busy.                                              *)
THEOREM NoJoinMissed == Spec => []JoinNotMissed
<1> DEFINE IInv == Watched /\ Detached
<1>1. Init => IInv
  BY DEF Init, Watched, Detached, Idle, Fresh
<1>2. TypeOK /\ IInv /\ [Next]_vars => IInv'
  <2> SUFFICES ASSUME TypeOK, Watched, Detached, [Next]_vars PROVE Watched' /\ Detached'
    OBVIOUS
  <2>0. RunsOK
    BY DEF TypeOK
  <2>1. ASSUME UNCHANGED <<run, latest, unserved>> PROVE Watched' /\ Detached'
    BY <2>1 DEF Watched, Detached, Succeeded
  <2>2. ASSUME Crash PROVE Watched' /\ Detached'
    <3>1. unserved' = {} /\ \A r \in Runs : run'[r] = Idle
      BY <2>2 DEF Crash
    <3> QED BY <3>1 DEF Watched, Detached, Idle, Fresh
  <2>3. ASSUME NEW i, NEW r \in Runs, PollSpawns(i, r) \/ Request(i, r)
        PROVE  Watched' /\ Detached'
    <3>1. PICK t \in {"interval", "request"} : Becomes(r, Spawned(i, t))
      BY <2>3 DEF PollSpawns, Request, Becomes
    <3>2. run[r].pc = "idle" /\ latest' = latest /\ unserved' = unserved
      BY <2>3 DEF PollSpawns, Request, At, table
    <3>3. Spawned(i, t).pc \in RunStates
      BY DEF Spawned, Fresh, RunStates
    <3>4. \A d : ~ Watches(run[r], d)
      BY <3>2 DEF Watches
    <3>5. Watched'
      BY <2>0, <3>1, <3>2, <3>4, SameSucceeded, StillWatched
    <3> QED BY <2>0, <3>1, <3>3, <3>5, StillDetached
  <2>4. ASSUME NEW r \in Runs, CreateExecution(r) PROVE Watched' /\ Detached'
    <3> DEFINE g == [run[r] EXCEPT !.pc = "created"]
    <3>1. run[r] \in Goroutine /\ run[r].pc = "spawned" /\ Becomes(r, g) /\ unserved' = unserved
      BY <2>0, <2>4 DEF CreateExecution, At, Goto, Becomes, RunsOK
    <3>2. g.pc \in RunStates
      BY <3>1 DEF Goroutine, RunStates
    <3>3. \A d : ~ Watches(run[r], d)
      BY <3>1 DEF Watches
    <3>4. \A i \in Instances : latest'[i].state = "success" => latest[i].state = "success"
      BY <2>4 DEF CreateExecution, TypeOK
    <3>5. \A d \in unserved : Succeeded(d)' => Succeeded(d)
      BY <3>4, InstancesAssumption DEF Succeeded, TypeOK
    <3> HIDE DEF g
    <3>6. Watched'
      BY <2>0, <3>1, <3>3, <3>5, StillWatched
    <3> QED BY <2>0, <3>1, <3>2, <3>6, StillDetached
  <2>5. ASSUME NEW r \in Runs, MarkRunning(r) PROVE Watched' /\ Detached'
    <3> DEFINE g == [run[r] EXCEPT !.pc = "executing"]
    <3>1. /\ run[r] \in Goroutine /\ run[r].pc = "created" /\ Becomes(r, g)
          /\ unserved' = unserved /\ latest' = latest
      BY <2>0, <2>5 DEF MarkRunning, At, Goto, Becomes, RunsOK
    <3>2. g.pc \in RunStates
      BY <3>1 DEF Goroutine, RunStates
    <3>3. \A d : ~ Watches(run[r], d)
      BY <3>1 DEF Watches
    <3> HIDE DEF g
    <3>4. Watched'
      BY <2>0, <3>1, <3>3, SameSucceeded, StillWatched
    <3> QED BY <2>0, <3>1, <3>2, <3>4, StillDetached
  <2>6. ASSUME NEW r \in Runs, Execute(r) PROVE Watched' /\ Detached'
    <3>1. PICK end \in {"success", "failed"} : run' = [run EXCEPT ![r].pc = "ran", ![r].result = end]
      BY <2>6 DEF Execute
    <3> DEFINE g == [run[r] EXCEPT !.pc = "ran", !.result = end]
    <3>2. /\ run[r] \in Goroutine /\ run[r].pc = "executing" /\ Becomes(r, g)
          /\ unserved' = unserved /\ latest' = latest
      BY <2>0, <2>6, <3>1 DEF Execute, At, Becomes, RunsOK, table
    <3>3. g.pc \in RunStates
      BY <3>2 DEF Goroutine, RunStates
    <3>4. \A d : ~ Watches(run[r], d)
      BY <3>2 DEF Watches
    <3> HIDE DEF g
    <3>5. Watched'
      BY <2>0, <3>2, <3>4, SameSucceeded, StillWatched
    <3> QED BY <2>0, <3>2, <3>3, <3>5, StillDetached
  <2>7. ASSUME NEW r \in Runs, RecordExecution(r) PROVE Watched' /\ Detached'
    <3> DEFINE g == [run[r] EXCEPT !.pc = "recorded"]
               i == run[r].inst
    <3>1. run[r] \in Goroutine /\ run[r].pc = "ran" /\ Becomes(r, g)
      BY <2>0, <2>7 DEF RecordExecution, At, Goto, Becomes, RunsOK
    <3>2. g.pc = "recorded" /\ g.result = run[r].result /\ g.inst = i
      BY <3>1 DEF Goroutine
    <3>3. i \in Instances
      BY <2>0, <3>1, RunInstance DEF RunStates
    <3>4. \A d : ~ Watches(run[r], d)
      BY <3>1 DEF Watches
    <3>5. /\ latest' = IF latest[i].by = r
                       THEN [latest EXCEPT ![i] = [state |-> run[r].result, by |-> None]] ELSE latest
          /\ unserved' = IF run[r].result = "success" THEN unserved \cup Dependents(i) ELSE unserved
      BY <2>7 DEF RecordExecution
    <3>6. \A j \in Instances : latest'[j].state = "success" =>
             latest[j].state = "success" \/ (j = i /\ run[r].result = "success")
      BY <3>3, <3>5 DEF TypeOK
    <3>7. unserved \subseteq Instances /\ unserved' \subseteq Instances
      BY <3>5 DEF TypeOK, Dependents
    <3> HIDE DEF g, i
    <3>8. ASSUME NEW d \in unserved', Succeeded(d)'
          PROVE  \E s \in Runs : Watches(run'[s], d)
      <4>1. CASE run[r].result = "success" /\ d \in Dependents(i)
        <5>1. run'[r] = g
          BY <2>0, <3>1 DEF RunsOK, Becomes
        <5> QED BY <3>2, <4>1, <5>1 DEF Watches
      <4>2. CASE ~ (run[r].result = "success" /\ d \in Dependents(i))
        <5>1. d \in unserved
          BY <3>5, <4>2
        <5>2. Succeeded(d)
          BY <3>6, <3>7, <3>8, <4>2, <5>1, InstancesAssumption DEF Succeeded, Dependents
        <5>3. PICK s \in Runs : Watches(run[s], d)
          BY <5>1, <5>2 DEF Watched
        <5>4. run'[s] = run[s]
          BY <2>0, <3>1, <3>4, <5>3 DEF RunsOK, Becomes
        <5> QED BY <5>3, <5>4
      <4> QED BY <4>1, <4>2
    <3>9. Watched'
      BY <3>8 DEF Watched, Watches
    <3> QED BY <2>0, <3>1, <3>2, <3>9, StillDetached DEF RunStates
  <2>8. ASSUME NEW r \in Runs, MarkEnded(r) PROVE Watched' /\ Detached'
    <3> DEFINE g == [run[r] EXCEPT !.pc = "reporting"]
    <3>1. /\ run[r] \in Goroutine /\ run[r].pc = "recorded" /\ Becomes(r, g)
          /\ unserved' = unserved /\ latest' = latest
      BY <2>0, <2>8 DEF MarkEnded, At, Goto, Becomes, RunsOK
    <3>2. g.pc = "reporting" /\ g.result = run[r].result /\ g.inst = run[r].inst
      BY <3>1 DEF Goroutine
    <3> HIDE DEF g
    <3>3. \A d : Watches(run[r], d) => Watches(g, d)
      BY <3>1, <3>2 DEF Watches
    <3>4. Watched'
      BY <2>0, <3>1, <3>3, SameSucceeded, StillWatched
    <3> QED BY <2>0, <3>1, <3>2, <3>4, StillDetached DEF RunStates
  <2>9. ASSUME NEW r \in Runs, Report(r) \/ Abandon(r) PROVE Watched' /\ Detached'
    <3>1. latest' = latest /\ unserved' = unserved
      BY <2>9 DEF Report, Abandon, table
    <3>2. CASE run[r].pc \in {"recorded", "reporting"}
      <4>1. Becomes(r, Ended(r))
        BY <2>9, <3>2 DEF Report, Abandon, Becomes
      <4>2. \A d : Watches(run[r], d) => Watches(Ended(r), d)
        BY <3>2, LookingWatches DEF Watches, Follows
      <4>3. Watched'
        BY <2>0, <3>1, <4>1, <4>2, SameSucceeded, StillWatched
      <4> QED BY <2>0, <4>1, <4>3, NoRequest, StillDetached
    <3>3. CASE run[r].pc \notin {"recorded", "reporting"}
      <4>1. Becomes(r, Idle) /\ run[r].pc \in RunStates
        BY <2>9, <3>3 DEF Report, Abandon, At, Becomes, Detached
      <4>2. \A d : ~ Watches(run[r], d)
        BY <3>3, <4>1 DEF Watches, RunStates
      <4>3. Watched'
        BY <2>0, <3>1, <4>1, <4>2, SameSucceeded, StillWatched
      <4> QED BY <2>0, <4>1, <4>3, NoRequest, StillDetached
    <3> QED BY <3>2, <3>3
  <2>10. ASSUME NEW r \in Runs, ListDependents(r) PROVE Watched' /\ Detached'
    <3> DEFINE free == {d \in Dependents(run[r].inst) : status[d] # "running"}
    <3>1. /\ run[r].pc = "listing" /\ Becomes(r, Looking(free)) /\ latest' = latest
          /\ unserved' = unserved \ (Dependents(run[r].inst) \ free)
      BY <2>10 DEF ListDependents, At, Becomes, table
    <3>2. \A d \in unserved' : Watches(run[r], d) => d \in free
      BY <3>1 DEF Watches
    <3> HIDE DEF free
    <3>3. \A d \in unserved' : Watches(run[r], d) => Watches(Looking(free), d)
      BY <3>2, LookingWatches
    <3>4. Watched'
      BY <2>0, <3>1, <3>3, SameSucceeded, StillWatched
    <3> QED BY <2>0, <3>1, <3>4, NoRequest, StillDetached
  <2>11. ASSUME NEW r \in Runs, NEW d \in Instances, NotReady(r, d) PROVE Watched' /\ Detached'
    <3>1. /\ run[r].pc = "checking" /\ Becomes(r, Drop(r, d)) /\ ~ Succeeded(d)
          /\ latest' = latest /\ unserved' = unserved
      BY <2>11 DEF NotReady, At, Becomes, table
    <3>2. \A e : Watches(run[r], e) /\ Succeeded(e) => Watches(Drop(r, d), e)
      BY <3>1, LookingWatches DEF Watches
    <3>3. Watched'
      BY <2>0, <3>1, <3>2, SameSucceeded, StillWatched
    <3> QED BY <2>0, <3>1, <3>3, NoRequest, StillDetached
  <2>12. ASSUME NEW r \in Runs, NEW d \in Instances, Ready(r, d) PROVE Watched' /\ Detached'
    <3> DEFINE g == [run[r] EXCEPT !.pc = "beginning", !.inst = d]
    <3>1. /\ run[r] \in Goroutine /\ run[r].pc = "checking" /\ Becomes(r, g)
          /\ latest' = latest /\ unserved' = unserved
      BY <2>0, <2>12 DEF Ready, At, Becomes, RunsOK, table
    <3>2. g.pc = "beginning" /\ g.free = run[r].free /\ g.trigger = run[r].trigger
      BY <3>1 DEF Goroutine
    <3> HIDE DEF g
    <3>3. \A e : Watches(run[r], e) => Watches(g, e)
      BY <3>1, <3>2 DEF Watches
    <3>4. g.trigger # "request"
      BY <3>1, <3>2 DEF Detached, RunStates
    <3>5. Watched'
      BY <2>0, <3>1, <3>3, SameSucceeded, StillWatched
    <3> QED BY <2>0, <3>1, <3>4, <3>5, StillDetached
  <2>13. ASSUME NEW r \in Runs, BeginRefused(r) PROVE Watched' /\ Detached'
    <3> DEFINE e == run[r].inst
    <3>1. /\ run[r].pc = "beginning" /\ Becomes(r, Drop(r, e))
          /\ latest' = latest /\ unserved' = unserved \ {e}
      BY <2>13 DEF BeginRefused, At, Becomes, table
    <3>2. \A d \in unserved' : Watches(run[r], d) => Watches(Drop(r, e), d)
      BY <3>1, LookingWatches DEF Watches
    <3>3. Watched'
      BY <2>0, <3>1, <3>2, SameSucceeded, StillWatched
    <3> QED BY <2>0, <3>1, <3>3, NoRequest, StillDetached
  <2>14. ASSUME NEW r \in Runs, NEW s \in Runs, BeginDependent(r, s) PROVE Watched' /\ Detached'
    <3> DEFINE e == run[r].inst
    <3>1. /\ run[r].pc = "beginning" /\ latest' = latest /\ unserved' = unserved \ {e}
          /\ run[s].pc = "idle" \/ (s = r /\ run[r].free = {e})
          /\ run' = [run EXCEPT ![r] = Drop(r, e), ![s] = Spawned(e, "workflow")]
      BY <2>14 DEF BeginDependent, At, table
    <3>2. \A t \in Runs : run'[t] = IF t = s THEN Spawned(e, "workflow")
                                  ELSE IF t = r THEN Drop(r, e) ELSE run[t]
      BY <2>0, <3>1 DEF RunsOK
    <3>3. Spawned(e, "workflow").trigger # "request"
      BY DEF Spawned, Fresh
    <3> HIDE DEF e
    <3>4. ASSUME NEW d \in unserved', Succeeded(d)'
          PROVE  \E t \in Runs : Watches(run'[t], d)
      <4>1. d \in unserved /\ d # e /\ Succeeded(d)
        BY <3>1, <3>4, SameSucceeded
      <4>2. PICK t \in Runs : Watches(run[t], d)
        BY <4>1 DEF Watched
      <4>3. t # s
        BY <3>1, <4>1, <4>2 DEF Watches
      <4>4. CASE t = r
        <5>1. d \in run[r].free
          BY <3>1, <4>2, <4>4 DEF Watches
        <5>2. Watches(Drop(r, e), d)
          BY <4>1, <5>1, LookingWatches
        <5> QED BY <3>2, <4>3, <4>4, <5>2
      <4>5. CASE t # r
        BY <3>2, <4>2, <4>3, <4>5
      <4> QED BY <4>4, <4>5
    <3>5. Watched'
      BY <3>4 DEF Watched, Watches
    <3>6. Detached'
      BY <3>2, <3>3, NoRequest DEF Detached
    <3> QED BY <3>5, <3>6
  <2>15. ASSUME \/ Start \/ LinkDrops \/ LinkReturns \/ PollLists \/ EditSaves \/ UNCHANGED vars
                \/ \E i \in Interval : IntervalPasses(i) \/ PollSkips(i)
                \/ \E i \in Instances : EditReads(i)
         PROVE  Watched' /\ Detached'
    BY <2>1, <2>15 DEF Start, LinkDrops, LinkReturns, PollLists, EditSaves, vars, table,
                       IntervalPasses, PollSkips, EditReads
  <2> QED BY <2>2, <2>3, <2>4, <2>5, <2>6, <2>7, <2>8, <2>9, <2>10, <2>11, <2>12, <2>13,
             <2>14, <2>15
          DEF Next, Poll, RunStep, IntervalPasses
<1>3. IInv => JoinNotMissed
  BY DEF Watched, JoinNotMissed, Watches, At
<1> QED BY <1>1, <1>2, <1>3, TypeCorrect, PTL DEF Spec
============================================================================
