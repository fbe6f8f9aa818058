------------------------- MODULE InstanceLifecycle -------------------------
(***************************************************************************)
(* Instances and the goroutines that run them: the scheduler's poll, runs  *)
(* asked for from outside (HTTP, webhook), and the workflow triggers that  *)
(* follow a successful run to the instances that depend on it.             *)
(*                                                                         *)
(* Every run goes through App.triggerInstance: create the execution, mark  *)
(* the instance running, run the script, record the result, mark the       *)
(* instance, report the execution to the cloud, and only then look at the  *)
(* dependents.  No lock is held and nothing keeps two runs of an instance  *)
(* apart; the poll and the workflow triggers decide on the status and the  *)
(* latest execution they read.  A run for an HTTP request ends with the    *)
(* request's context: its later writes fail and the errors are dropped.    *)
(*                                                                         *)
(* A goroutine slot r is first a run and, after a success, the goroutine   *)
(* that triggers the dependents.  Of the executions of an instance only    *)
(* the latest created is ever read, so only that one is kept.              *)
(***************************************************************************)
EXTENDS Naturals, FiniteSets

CONSTANTS
  Instances,    \* active instances
  DependsOn,    \* for each of them the instances it depends on
  Interval,     \* the ones with an interval trigger
  Runs,         \* bound: goroutines at a time
  None,         \* no instance, no run
  Provisioned,  \* the edge has an identity: it reports to the cloud
  MaxRequests,  \* bound: runs asked for from outside
  MaxCrashes,   \* bound: process restarts
  MaxEdits,     \* bound: saves of an instance by the operator
  Abandons      \* an HTTP client may leave before its run is over

ASSUME InstancesAssumption ==
  /\ DependsOn \in [Instances -> SUBSET Instances]
  /\ \A i \in Instances : i \notin DependsOn[i]
  /\ Interval \subseteq Instances
  /\ None \notin Instances \cup Runs
ASSUME BoundsAssumption ==
  /\ MaxRequests \in Nat /\ MaxCrashes \in Nat /\ MaxEdits \in Nat
  /\ Provisioned \in BOOLEAN /\ Abandons \in BOOLEAN

VARIABLES
  up,        \* the scheduler and the HTTP server are started
  link,      \* the broker can be reached (of no interest to an edge without an identity)
  status,    \* status column of each instance
  latest,    \* latest execution of each instance: its status, and who will end it
  due,       \* its interval has passed since that one started
  todo,      \* instances the poll has still to look at
  run,       \* each goroutine: where it is, for which instance, what triggered
             \* it, its result, and the dependents it has still to look at
  inflight,  \* workflowInflight
  editing,   \* the instance being saved and the status to be written with it
  requests, crashes, edits,
  (* history variable *)
  unserved   \* instances with a success upstream, since the process started,
             \* that has neither triggered them nor found them busy

table  == <<status, latest, due>>
bounds == <<requests, crashes, edits>>
vars == <<up, link, table, todo, run, inflight, editing, bounds, unserved>>

Dependents(i) == {d \in Instances : i \in DependsOn[d]}

RunStates   == {"spawned", "created", "executing", "ran", "recorded", "reporting"}
ChainStates == {"listing", "checking", "beginning"}
Fresh(pc, inst, trigger, free) ==
  [pc |-> pc, inst |-> inst, trigger |-> trigger, result |-> "none", free |-> free]
Idle == Fresh("idle", None, "none", {})

Status     == {"idle", "running", "error"}
Execution  == [state : {"none", "running", "success", "failed"}, by : Runs \cup {None}]
Goroutine  == [pc : {"idle"} \cup RunStates \cup ChainStates,
               inst : Instances \cup {None},
               trigger : {"none", "interval", "request", "workflow"},
               result : {"none", "success", "failed"},
               free : SUBSET Instances]

Sound(g) ==
  /\ g.pc \in RunStates => g.inst # None /\ g.trigger # "none"
  /\ g.pc \in {"listing", "beginning"} => g.inst # None
  /\ g.pc \in {"ran", "recorded", "reporting"} => g.result # "none"
RunsOK == run \in [Runs -> Goroutine] /\ \A r \in Runs : Sound(run[r])

TypeOK ==
  /\ up \in BOOLEAN /\ link \in BOOLEAN
  /\ status \in [Instances -> Status]
  /\ latest \in [Instances -> Execution]
  /\ due \in [Instances -> BOOLEAN]
  /\ todo \subseteq Interval
  /\ RunsOK
  /\ inflight \subseteq Instances
  /\ editing \in [inst : Instances \cup {None}, status : Status]
  /\ requests \in 0 .. MaxRequests /\ crashes \in 0 .. MaxCrashes /\ edits \in 0 .. MaxEdits
  /\ unserved \subseteq Instances

NoEdit == [inst |-> None, status |-> "idle"]

Init ==
  /\ up = FALSE /\ link \in (IF Provisioned THEN BOOLEAN ELSE {TRUE})
  /\ status = [i \in Instances |-> "idle"]
  /\ latest = [i \in Instances |-> [state |-> "none", by |-> None]]
  /\ due = [i \in Instances |-> TRUE]
  /\ todo = {}
  /\ run = [r \in Runs |-> Idle]
  /\ inflight = {}
  /\ editing = NoEdit
  /\ requests = 0 /\ crashes = 0 /\ edits = 0
  /\ unserved = {}

----------------------------------------------------------------------------
At(r, l)   == run[r].pc = l
Goto(r, l) == run' = [run EXCEPT ![r].pc = l]

Spawned(i, t) == Fresh("spawned", i, t, {})

----------------------------------------------------------------------------
(* The process. *)

(* app.New waits for the first connection before it returns; then main     *)
(* starts the scheduler and the HTTP server.                               *)
Start ==
  /\ ~ up /\ (link \/ ~ Provisioned)
  /\ up' = TRUE
  /\ UNCHANGED <<link, table, todo, run, inflight, editing, bounds, unserved>>

LinkDrops ==
  /\ Provisioned /\ link
  /\ link' = FALSE
  /\ UNCHANGED <<up, table, todo, run, inflight, editing, bounds, unserved>>
LinkReturns ==
  /\ ~ link
  /\ link' = TRUE
  /\ UNCHANGED <<up, table, todo, run, inflight, editing, bounds, unserved>>

Crash ==
  /\ up /\ crashes < MaxCrashes
  /\ crashes' = crashes + 1
  /\ up' = FALSE /\ todo' = {}
  /\ run' = [r \in Runs |-> Idle]
  /\ inflight' = {}
  /\ editing' = NoEdit
  /\ unserved' = {}
  /\ UNCHANGED <<link, table, requests, edits>>

(* interval_seconds since the start of the latest execution. *)
IntervalPasses(i) ==
  /\ i \in Interval /\ ~ due[i]
  /\ due' = [due EXCEPT ![i] = TRUE]
  /\ UNCHANGED <<up, link, status, latest, todo, run, inflight, editing, bounds, unserved>>

----------------------------------------------------------------------------
(* Who starts runs. *)

(* A poll lists the instances and keeps the status they have now. *)
Schedulable(i) == status[i] # "running"
PollLists ==
  /\ up /\ todo = {}
  /\ todo' = {i \in Interval : Schedulable(i)}
  /\ UNCHANGED <<up, link, table, run, inflight, editing, bounds, unserved>>

(* The latest execution is read one instance after the other. *)
ToRun(i) == latest[i].state = "none" \/ due[i]
PollSkips(i) ==
  /\ i \in todo /\ ~ ToRun(i)
  /\ todo' = todo \ {i}
  /\ UNCHANGED <<up, link, table, run, inflight, editing, bounds, unserved>>
PollSpawns(i, r) ==
  /\ i \in todo /\ ToRun(i) /\ At(r, "idle")
  /\ todo' = todo \ {i}
  /\ run' = [run EXCEPT ![r] = Spawned(i, "interval")]
  /\ UNCHANGED <<up, link, table, inflight, editing, bounds, unserved>>

(* POST .../trigger or a webhook, whatever the instance is doing. *)
Request(i, r) ==
  /\ up /\ requests < MaxRequests /\ At(r, "idle")
  /\ requests' = requests + 1
  /\ run' = [run EXCEPT ![r] = Spawned(i, "request")]
  /\ UNCHANGED <<up, link, table, todo, inflight, editing, crashes, edits, unserved>>

----------------------------------------------------------------------------
(* triggerInstance. *)

CreateExecution(r) ==
  /\ At(r, "spawned")
  /\ latest' = [latest EXCEPT ![run[r].inst] = [state |-> "running", by |-> r]]
  /\ due' = [due EXCEPT ![run[r].inst] = FALSE]
  /\ Goto(r, "created")
  /\ UNCHANGED <<up, link, status, todo, inflight, editing, bounds, unserved>>

MarkRunning(r) ==
  /\ At(r, "created")
  /\ status' = [status EXCEPT ![run[r].inst] = "running"]
  /\ Goto(r, "executing")
  /\ UNCHANGED <<up, link, latest, due, todo, inflight, editing, bounds, unserved>>

(* Runner.Trigger: the script and its deliveries. *)
Execute(r) ==
  /\ At(r, "executing")
  /\ \E end \in {"success", "failed"} : run' = [run EXCEPT ![r].pc = "ran", ![r].result = end]
  /\ UNCHANGED <<up, link, table, todo, inflight, editing, bounds, unserved>>

(* finishExecution writes the end into its own execution ... *)
RecordExecution(r) ==
  /\ At(r, "ran")
  /\ LET i == run[r].inst
     IN  /\ latest' = IF latest[i].by = r
                      THEN [latest EXCEPT ![i] = [state |-> run[r].result, by |-> None]] ELSE latest
         /\ unserved' = IF run[r].result = "success" THEN unserved \cup Dependents(i) ELSE unserved
  /\ Goto(r, "recorded")
  /\ UNCHANGED <<up, link, status, due, todo, inflight, editing, bounds>>

(* ... then the status of the instance ... *)
MutStatusAfter(r) == IF run[r].result = "success" THEN "idle" ELSE "running"  \* mutant: a failed run does not reset it
MutStatusAfterResult(r) == run[r].result      \* mutant: the execution's status instead of the instance's
StatusAfter(r) == IF run[r].result = "success" THEN "idle" ELSE "error"
MarkEnded(r) ==
  /\ At(r, "recorded")
  /\ status' = [status EXCEPT ![run[r].inst] = StatusAfter(r)]
  /\ Goto(r, "reporting")
  /\ UNCHANGED <<up, link, latest, due, todo, inflight, editing, bounds, unserved>>

(* ... then publishes the execution, which waits for the broker, and       *)
(* enqueues it for the cloud.  After a success it goes on as the goroutine *)
(* that turns to the dependents.  A workflow trigger ends (deferred        *)
(* endWorkflowTrigger).                                                    *)
MutFollows(r) == run[r].result = "success" /\ run[r].trigger # "workflow" \* mutant: only first-level runs do
Follows(r) == run[r].result = "success"
Ended(r) == IF Follows(r) THEN Fresh("listing", run[r].inst, "none", {}) ELSE Idle
Report(r) ==
  /\ At(r, "reporting")
  /\ link \/ ~ Provisioned
  /\ run' = [run EXCEPT ![r] = Ended(r)]
  /\ inflight' = IF run[r].trigger = "workflow" THEN inflight \ {run[r].inst} ELSE inflight
  /\ UNCHANGED <<up, link, table, todo, editing, bounds, unserved>>

(* The HTTP client leaves, and its request's context ends: the script is   *)
(* killed and nothing is written any more.  A success that is on record    *)
(* still leads to the dependents.                                          *)
Abandon(r) ==
  /\ Abandons /\ run[r].trigger = "request"
  /\ run' = [run EXCEPT ![r] =
               IF run[r].pc \in {"recorded", "reporting"} THEN Ended(r) ELSE Idle]
  /\ UNCHANGED <<up, link, table, todo, inflight, editing, bounds, unserved>>

----------------------------------------------------------------------------
(* triggerDependentInstances. *)

Looking(S) == IF S = {} THEN Idle ELSE Fresh("checking", None, "none", S)
Drop(r, d) == Looking(run[r].free \ {d})

(* The dependents are listed with their status.  One that is running is    *)
(* skipped, now or never.                                                  *)
ListDependents(r) ==
  /\ At(r, "listing")
  /\ LET all  == Dependents(run[r].inst)
         free == {d \in all : status[d] # "running"}
     IN  /\ run' = [run EXCEPT ![r] = Looking(free)]
         /\ unserved' = unserved \ (all \ free)
  /\ UNCHANGED <<up, link, table, todo, inflight, editing, bounds>>

(* dependenciesSucceeded, on the latest execution of each dependency. *)
Succeeded(d) == \A i \in DependsOn[d] : latest[i].state = "success"

NotReady(r, d) ==
  /\ At(r, "checking") /\ d \in run[r].free /\ ~ Succeeded(d)
  /\ run' = [run EXCEPT ![r] = Drop(r, d)]
  /\ UNCHANGED <<up, link, table, todo, inflight, editing, bounds, unserved>>
Ready(r, d) ==
  /\ At(r, "checking") /\ d \in run[r].free /\ Succeeded(d)
  /\ run' = [run EXCEPT ![r].pc = "beginning", ![r].inst = d]
  /\ UNCHANGED <<up, link, table, todo, inflight, editing, bounds, unserved>>

(* beginWorkflowTrigger. *)
MutBusy(d) == status[d] = "running"          \* mutant: looks at the status instead
Busy(d) == d \in inflight

BeginRefused(r) ==
  /\ At(r, "beginning") /\ Busy(run[r].inst)
  /\ run' = [run EXCEPT ![r] = Drop(r, run[r].inst)]
  /\ unserved' = unserved \ {run[r].inst}
  /\ UNCHANGED <<up, link, table, todo, inflight, editing, bounds>>

(* The new goroutine takes slot s; the last dependent's may take the slot  *)
(* of the goroutine that ends with it.                                     *)
BeginDependent(r, s) ==
  /\ At(r, "beginning") /\ ~ Busy(run[r].inst)
  /\ At(s, "idle") \/ (s = r /\ run[r].free = {run[r].inst})
  /\ LET d == run[r].inst
     IN  /\ inflight' = inflight \cup {d}
         /\ unserved' = unserved \ {d}
         /\ run' = [run EXCEPT ![r] = Drop(r, d), ![s] = Spawned(d, "workflow")]
  /\ UNCHANGED <<up, link, table, todo, editing, bounds>>

----------------------------------------------------------------------------
(* A save reads the whole row and later writes the whole row: Update, of   *)
(* the switch "active", with the status it has read, Upsert, of the form,  *)
(* whose payload has no status, with "idle".                               *)
EditReads(i) ==
  /\ up /\ edits < MaxEdits /\ editing.inst = None
  /\ edits' = edits + 1
  /\ editing' \in [inst : {i}, status : {status[i], "idle"}]
  /\ UNCHANGED <<up, link, table, todo, run, inflight, requests, crashes, unserved>>
EditSaves ==
  /\ editing.inst # None
  /\ status' = [status EXCEPT ![editing.inst] = editing.status]
  /\ editing' = NoEdit
  /\ UNCHANGED <<up, link, latest, due, todo, run, inflight, bounds, unserved>>

Poll == PollLists \/ \E i \in Interval : PollSkips(i) \/ \E r \in Runs : PollSpawns(i, r)

RunStep(r) ==
  \/ CreateExecution(r) \/ MarkRunning(r) \/ Execute(r)
  \/ RecordExecution(r) \/ MarkEnded(r) \/ Report(r)
  \/ ListDependents(r) \/ BeginRefused(r)
  \/ \E d \in Instances : NotReady(r, d) \/ Ready(r, d)
  \/ \E s \in Runs : BeginDependent(r, s)

Next ==
  \/ Start \/ LinkDrops \/ LinkReturns \/ Crash \/ Poll \/ EditSaves
  \/ \E i \in Instances : IntervalPasses(i) \/ EditReads(i) \/ \E r \in Runs : Request(i, r)
  \/ \E r \in Runs : RunStep(r) \/ Abandon(r)

Spec == Init /\ [][Next]_vars

(* The process starts when it can, the poll comes back, time passes, a     *)
(* script that was started ends (it has a time limit), and what waits for  *)
(* the network gets through if the network keeps coming back.              *)
Fairness ==
  /\ SF_vars(Start) /\ WF_vars(EditSaves) /\ WF_vars(PollLists)
  /\ \A i \in Interval :
       /\ WF_vars(IntervalPasses(i)) /\ WF_vars(PollSkips(i))
       /\ SF_vars(\E r \in Runs : PollSpawns(i, r))
  /\ \A r \in Runs : WF_vars(RunStep(r)) /\ SF_vars(Report(r))
FairSpec == Spec /\ Fairness

(* The same with a network that does keep coming back. *)
OnlineSpec == FairSpec /\ WF_vars(LinkReturns)

----------------------------------------------------------------------------
(* beginWorkflowTrigger keeps workflow runs of an instance apart, however  *)
(* many upstream runs end at once, and no run leaves its mark behind.      *)
WorkflowRun(r, d) ==
  run[r].pc \in RunStates /\ run[r].trigger = "workflow" /\ run[r].inst = d
WorkflowRunsExclusive ==
  \A d \in Instances :
    /\ d \in inflight <=> \E r \in Runs : WorkflowRun(r, d)
    /\ \A r, s \in Runs : WorkflowRun(r, d) /\ WorkflowRun(s, d) => r = s

(* No join is missed: each run records its success before it looks at the  *)
(* other dependencies, so when several upstream runs end at the same time  *)
(* at least one of them sees all the successes.  When everything is quiet, *)
(* an instance whose dependencies all succeeded was triggered, or was busy *)
(* when it should have been.  (Only a crash forgets: nothing on disk says  *)
(* that a success has yet to turn to its dependents.)                      *)
JoinNotMissed ==
  (\A r \in Runs : At(r, "idle")) => \A d \in unserved : ~ Succeeded(d)

(* "executa rotinas periodicas e organiza instancias de coleta": an        *)
(* instance whose interval has passed runs.                                *)
KeepsCollecting == \A i \in Interval : due[i] ~> ~ due[i]

============================================================================
