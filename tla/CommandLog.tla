----------------------------- MODULE CommandLog -----------------------------
(***************************************************************************)
(* Commands of the cloud over MQTT (mqtt/client.go HandleCommand, with the *)
(* table mqtt_commands of sqlite/mqtt.go), the remote job among them with  *)
(* its workflow. The broker delivers a command at least once; a client     *)
(* that was replaced may still be in a handler when its successor gets the *)
(* same command again, and the edge may crash. Each of the three reports   *)
(* on a command is published before the callback goes on, and a publish    *)
(* waits for the broker's confirmation without any limit of time.          *)
(***************************************************************************)
EXTENDS RemoteWorkflow, Sequences

CONSTANTS Commands, Job,  \* command ids, and the one of the remote job
          Clients,        \* broker clients, each calling back one message at a time
          MaxDeliveries,  \* bound on deliveries
          MaxCrashes      \* bound on restarts

ASSUME CommandAssumption ==
  /\ Job \in Commands /\ MaxDeliveries \in Nat /\ MaxCrashes \in Nat
  /\ None \notin {"pending", "received", "running", "done", "error"}

VARIABLES
  rows,       \* status in mqtt_commands, None when there is no row
  processed,  \* ids this process has claimed
  pc,         \* where the callback of each client is
  cmd,        \* the command it handles
  answers,    \* final answers on each command, in order: confirmed by the
              \* broker or stored for it, "lost" when neither was possible
  deliveries, crashes

cvars == <<rows, processed, pc, cmd, answers, deliveries, crashes>>
vars == <<wvars, faults, cvars>>

Init ==
  /\ WorkflowInit
  /\ rows = [c \in Commands |-> None] /\ processed = {}
  /\ pc = [r \in Clients |-> "idle"] /\ cmd = [r \in Clients |-> None]
  /\ answers = [c \in Commands |-> <<>>]
  /\ deliveries = 0 /\ crashes = 0

-----------------------------------------------------------------------------

To(r, place) == pc' = [pc EXCEPT ![r] = place]

Deliver(r, c) ==
  /\ pc[r] = "idle" /\ deliveries < MaxDeliveries
  /\ To(r, "find") /\ cmd' = [cmd EXCEPT ![r] = c]
  /\ deliveries' = deliveries + 1
  /\ UNCHANGED <<wvars, faults, rows, processed, answers, crashes>>

(* The handler gives up: the command is acknowledged all the same.         *)
GivesUp(r) ==
  /\ pc[r] \in {"find", "save"} /\ faults < MaxFaults
  /\ To(r, "idle") /\ faults' = faults + 1
  /\ UNCHANGED <<wvars, rows, processed, cmd, answers, deliveries, crashes>>

Find(r) ==
  /\ pc[r] = "find"
  /\ To(r, IF rows[cmd[r]] = None THEN "save" ELSE "idle")
  /\ UNCHANGED <<wvars, faults, rows, processed, cmd, answers, deliveries, crashes>>

(* command_id is unique: of two clients one fails to insert.               *)
Save(r) ==
  /\ pc[r] = "save"
  /\ IF rows[cmd[r]] = None
     THEN rows' = [rows EXCEPT ![cmd[r]] = "pending"] /\ To(r, "claim")
     ELSE To(r, "idle") /\ UNCHANGED rows
  /\ UNCHANGED <<wvars, faults, processed, cmd, answers, deliveries, crashes>>

Claim(r) ==
  /\ pc[r] = "claim"
  /\ To(r, IF cmd[r] \in processed THEN "idle" ELSE "receive")
  /\ processed' = processed \cup {cmd[r]}
  /\ UNCHANGED <<wvars, faults, rows, cmd, answers, deliveries, crashes>>

(* UpdateStatus, whose failure is ignored.                                 *)
Mark(r, status) ==
  \/ rows' = [rows EXCEPT ![cmd[r]] = status] /\ UNCHANGED faults
  \/ faults < MaxFaults /\ faults' = faults + 1 /\ UNCHANGED rows

(* A handler is registered for the type of the command, or none is.        *)
Receive(r) ==
  /\ pc[r] = "receive"
  /\ Mark(r, "received") /\ To(r, "tell received")
  /\ UNCHANGED <<wvars, processed, cmd, answers, deliveries, crashes>>

MarkRunning(r) ==
  /\ pc[r] = "start"
  /\ Mark(r, "running") /\ To(r, "tell running")
  /\ UNCHANGED <<wvars, processed, cmd, answers, deliveries, crashes>>

(* PublishResponse: the wait is over, whatever came of it. Without a       *)
(* connection, or after an error, the response is stored for later.        *)
Telling == {"tell received", "tell running", "tell done", "tell error"}

Told(r) ==
  /\ \/ pc[r] = "tell received" /\ (To(r, "start") \/ (cmd[r] # Job /\ To(r, "error")))
     \/ pc[r] = "tell running" /\ To(r, "call")
  /\ UNCHANGED <<wvars, faults, rows, processed, cmd, answers, deliveries, crashes>>

Answer(r, status) == answers' = [answers EXCEPT ![cmd[r]] = Append(@, status)]

MutAfterLast(r) == IF pc[r] = "tell error" THEN "done" ELSE "idle"  \* mutant: no return after an error
AfterLast(r) == "idle"

ToldLast(r) ==
  /\ pc[r] \in {"tell done", "tell error"}
  /\ \/ Answer(r, IF pc[r] = "tell done" THEN "done" ELSE "error") /\ UNCHANGED faults
     \/ faults < MaxFaults /\ faults' = faults + 1 /\ Answer(r, "lost")
  /\ To(r, AfterLast(r))
  /\ UNCHANGED <<wvars, rows, processed, cmd, deliveries, crashes>>

CallJob(r) ==
  /\ pc[r] = "call" /\ cmd[r] = Job
  /\ BeginWorkflow /\ To(r, "job")
  /\ UNCHANGED <<rows, processed, cmd, answers, deliveries, crashes>>

(* Another handler: it returns.                                            *)
CallOther(r) ==
  /\ pc[r] = "call" /\ cmd[r] # Job
  /\ \E how \in {"done", "error"} : To(r, how)
  /\ UNCHANGED <<wvars, faults, rows, processed, cmd, answers, deliveries, crashes>>

(* The workflow has returned: the last report on the job.                  *)
JobReturns(r) ==
  /\ pc[r] = "job" /\ wf \in {"done", "error"}
  /\ Report(IF wf = "done" THEN "completed" ELSE "failed")
  /\ To(r, wf)
  /\ UNCHANGED <<plan, loop, at, tries, rows, processed, cmd, answers, deliveries, crashes>>

Finish(r) ==
  /\ pc[r] \in {"done", "error"}
  /\ Mark(r, pc[r]) /\ To(r, IF pc[r] = "done" THEN "tell done" ELSE "tell error")
  /\ UNCHANGED <<wvars, processed, cmd, answers, deliveries, crashes>>

Handling(r) ==
  \/ Find(r) \/ GivesUp(r) \/ Save(r) \/ Claim(r) \/ Receive(r)
  \/ MarkRunning(r) \/ CallJob(r) \/ CallOther(r) \/ JobReturns(r) \/ Finish(r)

(* What is in memory is gone; the row stays.                               *)
Crash ==
  /\ crashes < MaxCrashes /\ crashes' = crashes + 1
  /\ Halt
  /\ processed' = {} /\ pc' = [r \in Clients |-> "idle"]
  /\ UNCHANGED <<faults, rows, cmd, answers, deliveries>>

Next ==
  \/ \E r \in Clients : Handling(r) \/ Told(r) \/ ToldLast(r) \/ \E c \in Commands : Deliver(r, c)
  \/ WorkflowStep /\ UNCHANGED cvars
  \/ Crash

(* Goroutines go on, and what a step does ends, by itself or by its        *)
(* timeout. Nothing makes the broker deliver again, or confirm a publish.  *)
Spec ==
  /\ Init /\ [][Next]_vars
  /\ \A r \in Clients : WF_vars(Handling(r))
  /\ WF_vars(WorkflowStep /\ UNCHANGED cvars)

-----------------------------------------------------------------------------
(* The workflow keeps its promise however often its command is delivered,  *)
(* to whichever client, with crashes and failing accesses in between: it   *)
(* is run once, each step once at most and after what it needs, and none   *)
(* when it is over (HandleCommand, runRemoteWorkflowSequential and         *)
(* runRemoteWorkflowParallel).                                             *)
Promise == INSTANCE StepPlan WITH
  phase <- CASE wf = "none" -> "no"
             [] wf \in {"done", "error", "lost"} -> wf
             [] OTHER -> "open",
  state <- at
PlanSpec == Promise!Spec

(* A command has one final answer at most, however often it is delivered   *)
(* and wherever the edge crashes (HandleCommand).                          *)
AnsweredOnce == \A c \in Commands : Len(answers[c]) <= 1

(* While no publish waits for ever, a command that has a row gets a final  *)
(* answer unless the edge crashes, whatever its workflow's steps need of   *)
(* each other; and the last report on a job is the truth unless storing it *)
(* failed (HandleCommand, handleMqttRemoteJob).  Without the premise it    *)
(* may stay unanswered: the reports wait under context.Background().       *)
PublishesEnd == \A r \in Clients : []<>(pc[r] \notin Telling)
Answered(c) ==
  /\ answers[c] # <<>>
  /\ c = Job /\ faults = 0 =>
       told = IF answers[Job] = <<"done">> THEN "completed" ELSE "failed"
CommandsAnswered ==
  PublishesEnd => \A c \in Commands : rows[c] = "pending" ~> Answered(c) \/ crashes > 0

=============================================================================
