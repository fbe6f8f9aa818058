------------------------------ MODULE Updater ------------------------------
(***************************************************************************)
(* The assisted and the automatic update of the edge, internal/updater.    *)
(*                                                                         *)
(* The application answers check, download, apply, execute, rollback and   *)
(* restart requests and keeps their results in updates/state.json.         *)
(* execute also starts a worker process, which waits for the application   *)
(* to exit, replaces the installed files, starts the new version, waits    *)
(* for its health endpoint and, when that fails, restores the backup.      *)
(* The target is a Unix one: on Windows a rollback only prepares a script. *)
(* A backup holds config.yml as well, and restoring it restores the        *)
(* settings of its time; what is modelled of it is the version.            *)
(***************************************************************************)
EXTENDS Releases

CONSTANTS Healthy,     \* the releases whose process answers its health endpoint
          Workers,     \* worker processes
          HasCommand,  \* a restart command or a service name is configured
          Mixed,       \* files of two versions, or some missing
          MaxFaults    \* bound on failed copies and failed process starts

ASSUME UpdaterAssumption ==
  /\ Versions \subseteq Nat /\ 1 \in Versions /\ 1 \in Healthy
  /\ Healthy \subseteq Versions /\ MaxFaults \in Nat /\ HasCommand \in BOOLEAN
  /\ None \notin Nat /\ Mixed \notin Nat /\ None # Mixed

VARIABLES
  newest,     \* the latest compatible release
  disk,       \* the version the installed files are of, Mixed after a copy cut short
  proc,       \* the version of the running application, None when it is down
  stored,     \* updates/state.json
  healthURL,  \* the service's configuration has a health URL
  exiting,    \* execute has armed the timer that ends the process
  worker,     \* the worker processes
  rolling,    \* the state file as the rollback under way read it, None when none is
  faults,
  overlap     \* what disturbed an update, see Meeting, Torn and Remains

uvars == <<newest, disk, proc, stored, healthURL, exiting, worker, rolling, faults, overlap>>

Installed == Versions \cup {Mixed}

(* LastApplyResult: the version prepared, and what its backup holds.       *)
Applies == [version : Versions, backup : Installed, applied : BOOLEAN]

UpdateState ==
  [download : Versions \cup {None}, apply : Applies \cup {None},
   execute : Versions \cup {None}, rollback : Installed \cup {None},
   restart : {None, "planned", "manual", "executed"}]

EmptyState == [download |-> None, apply |-> None, execute |-> None,
               rollback |-> None, restart |-> None]

ASSUME StateAssumption == None \notin UpdateState

WorkerStates ==
  [pc : {"idle", "waiting", "ready", "copying", "swapped", "started"},
   version : Versions, backup : Installed, health : BOOLEAN,
   previous : UpdateState, own : BOOLEAN]

NoWorker == [pc |-> "idle", version |-> 1, backup |-> 1, health |-> FALSE,
             previous |-> EmptyState, own |-> FALSE]

UpdaterTypeOK ==
  /\ newest \in Versions /\ disk \in Installed /\ proc \in Versions \cup {None}
  /\ stored \in UpdateState /\ healthURL \in BOOLEAN /\ exiting \in BOOLEAN
  /\ worker \in [Workers -> WorkerStates]
  /\ rolling # None => rolling \in UpdateState /\ rolling.apply # None
  /\ faults \in 0..MaxFaults
  /\ overlap \subseteq {"execute", "start", "restart", "rollback", "mixed"}

UpdaterInit ==
  /\ newest \in Versions \cap {1, 2}
  /\ stored \in {EmptyState} \cup
       (IF newest = 2
        THEN {[EmptyState EXCEPT !.download = 2],
              [EmptyState EXCEPT !.apply = [version |-> 2, backup |-> 1, applied |-> FALSE]]}
        ELSE {})
  /\ disk = 1 /\ proc = 1
  /\ healthURL = TRUE /\ exiting = FALSE
  /\ worker = [w \in Workers |-> NoWorker]
  /\ rolling = None /\ faults = 0 /\ overlap = {}

-----------------------------------------------------------------------------
(* What the application does on request.                                   *)

Serving == proc \in Healthy

Publish ==
  /\ newest + 1 \in Versions
  /\ newest' = newest + 1
  /\ UNCHANGED <<disk, proc, stored, healthURL, exiting, worker, rolling, faults, overlap>>

(* DownloadLatest keeps of the state only the last execute result.         *)
DownloadLatest ==
  /\ Serving
  /\ stored' = [EmptyState EXCEPT !.download = newest, !.execute = stored.execute]
  /\ UNCHANGED <<newest, disk, proc, healthURL, exiting, worker, rolling, faults, overlap>>

AtWork(w) == worker[w].pc # "idle"

(* What is recorded of a request or of a start: "what" when it meets a     *)
(* worker at work, a backup made while a rollback replaces files, and an   *)
(* application that is left with, or started from, files of two versions.  *)
Meeting(what) == IF \E w \in Workers : AtWork(w) THEN {what} ELSE {}
Torn == IF rolling # None THEN {"rollback"} ELSE {}
Remains == IF disk = Mixed THEN {"mixed"} ELSE {}

(* What starts of the files installed. The executable is replaced first    *)
(* and whole: files of two versions start as one of them, if at all.       *)
Starts(files) == IF files = Mixed THEN {v \in Versions : v <= newest} \cup {None} ELSE {files}

(* The state ApplyDownloaded writes: a fresh backup of what is installed,  *)
(* and nothing else.                                                       *)
Prepared(v) ==
  [EmptyState EXCEPT !.apply = [version |-> v, backup |-> disk, applied |-> FALSE]]

ApplyDownloaded(v) ==
  /\ Serving
  /\ stored' = Prepared(v)
  /\ overlap' = overlap \cup Torn
  /\ UNCHANGED <<newest, disk, proc, healthURL, exiting, worker, rolling, faults>>
\* mutant: the worker does not wait for the application to end
MutExecuteDownloaded(v) ==
  /\ Serving
  /\ \E w \in Workers :
       /\ worker[w].pc = "idle"
       /\ worker' = [worker EXCEPT ![w] =
            [pc |-> "ready", version |-> v, backup |-> disk, health |-> healthURL,
             previous |-> EmptyState, own |-> FALSE]]
  /\ stored' = [Prepared(v) EXCEPT !.execute = v]
  /\ exiting' = TRUE
  /\ overlap' = overlap \cup Meeting("execute") \cup Torn
  /\ UNCHANGED <<newest, disk, proc, healthURL, rolling, faults>>

(* ExecuteDownloaded: prepare, launch the worker, record it, arm the exit. *)
ExecuteDownloaded(v) ==
  /\ Serving
  /\ \E w \in Workers :
       /\ worker[w].pc = "idle"
       /\ worker' = [worker EXCEPT ![w] =
            [pc |-> "waiting", version |-> v, backup |-> disk, health |-> healthURL,
             previous |-> EmptyState, own |-> FALSE]]
  /\ stored' = [Prepared(v) EXCEPT !.execute = v]
  /\ exiting' = TRUE
  /\ overlap' = overlap \cup Meeting("execute") \cup Torn
  /\ UNCHANGED <<newest, disk, proc, healthURL, rolling, faults>>

(* RollbackLatest: the state is read, the backup copied file by file over  *)
(* what is installed, and the result written with the state that was read. *)
RollbackBegins ==
  /\ Serving /\ rolling = None /\ stored.apply # None
  /\ rolling' = stored /\ disk' = Mixed
  /\ UNCHANGED <<newest, proc, stored, healthURL, exiting, worker, faults, overlap>>

RollbackEnds ==
  /\ rolling # None
  /\ disk' = rolling.apply.backup
  /\ stored' = [rolling EXCEPT !.rollback = rolling.apply.backup]
  /\ rolling' = None
  /\ UNCHANGED <<newest, proc, healthURL, exiting, worker, faults, overlap>>

(* A copy fails half way: the application is left with files of two        *)
(* versions, and the state file is not written.                            *)
RollbackFails ==
  /\ rolling # None /\ faults < MaxFaults /\ faults' = faults + 1
  /\ disk' = Mixed /\ rolling' = None
  /\ overlap' = overlap \cup {"mixed"}
  /\ UNCHANGED <<newest, proc, stored, healthURL, exiting, worker>>

(* The end of the application process frees the workers waiting for it.    *)
Freed == [w \in Workers |->
            [worker[w] EXCEPT !.own = FALSE,
                              !.pc = IF @ = "waiting" THEN "ready" ELSE @]]

Restart(execute) ==
  /\ Serving
  /\ IF ~HasCommand \/ ~execute
     THEN /\ stored' = [stored EXCEPT !.restart = IF HasCommand THEN "planned" ELSE "manual"]
          /\ UNCHANGED <<proc, exiting, healthURL, worker, rolling, overlap>>
     ELSE /\ stored' = [stored EXCEPT !.restart = "executed"]
          /\ proc' \in Starts(disk) /\ rolling' = None
          /\ exiting' = FALSE /\ healthURL' = TRUE /\ worker' = Freed
          /\ overlap' = overlap \cup Meeting("restart") \cup Remains
  /\ UNCHANGED <<newest, disk, faults>>

(* Saving any configuration hands the service a Config without HealthURL.  *)
UpdateConfig == healthURL' = FALSE

-----------------------------------------------------------------------------
(* The process, and the worker.                                            *)

Exit ==
  /\ exiting
  /\ exiting' = FALSE /\ proc' = None /\ worker' = Freed /\ rolling' = None
  /\ UNCHANGED <<newest, disk, stored, healthURL, faults, overlap>>

(* An operator or a service manager starts what is installed.              *)
OperatorStart ==
  /\ proc = None
  /\ proc' \in Starts(disk) \ {None} /\ healthURL' = TRUE
  /\ overlap' = overlap \cup Meeting("start") \cup Remains
  /\ UNCHANGED <<newest, disk, stored, exiting, worker, rolling, faults>>

(* A second application process finds the port taken and ends.             *)
Started(v) == IF proc = None THEN v ELSE proc

AppliedResult(w) ==
  [version |-> worker[w].version, backup |-> worker[w].backup, applied |-> TRUE]

(* The launcher that waited for the application starts no worker.          *)
LaunchFails(w) ==
  /\ worker[w].pc = "ready" /\ faults < MaxFaults /\ faults' = faults + 1
  /\ worker' = [worker EXCEPT ![w] = NoWorker]
  /\ UNCHANGED <<newest, disk, proc, stored, healthURL, exiting, rolling, overlap>>

(* applyPackageFiles, path by path, after the state has been read.         *)
Copy(w) ==
  /\ worker[w].pc = "ready"
  /\ disk' = Mixed
  /\ worker' = [worker EXCEPT ![w].pc = "copying", ![w].previous = stored]
  /\ UNCHANGED <<newest, proc, stored, healthURL, exiting, rolling, faults, overlap>>

Swap(w) ==
  /\ worker[w].pc = "copying"
  /\ disk' = worker[w].version
  /\ stored' = [worker[w].previous EXCEPT !.apply = AppliedResult(w)]
  /\ worker' = [worker EXCEPT ![w].pc = "swapped"]
  /\ UNCHANGED <<newest, proc, healthURL, exiting, rolling, faults, overlap>>

(* A copy fails: the worker records it and ends, whatever was replaced.    *)
SwapFails(w) ==
  /\ worker[w].pc = "copying" /\ faults < MaxFaults
  /\ stored' = worker[w].previous
  /\ worker' = [worker EXCEPT ![w] = NoWorker]
  /\ faults' = faults + 1
  /\ UNCHANGED <<newest, disk, proc, healthURL, exiting, rolling, overlap>>

StartNew(w) ==
  /\ worker[w].pc = "swapped"
  /\ proc' = Started(worker[w].version)
  /\ healthURL' = (proc = None \/ healthURL)
  /\ stored' = [worker[w].previous EXCEPT !.apply = AppliedResult(w), !.restart = "executed"]
  /\ worker' = [worker EXCEPT ![w].pc = "started", ![w].own = (proc = None)]
  /\ UNCHANGED <<newest, disk, exiting, rolling, faults, overlap>>
\* mutant: the previous version is restored and not started
MutRollBack(w, alive) ==
  /\ disk' = worker[w].backup
  /\ stored' = [worker[w].previous EXCEPT !.rollback = worker[w].backup]
  /\ proc' = alive /\ healthURL' = healthURL /\ rolling' = rolling
  /\ worker' = [IF alive = None THEN Freed ELSE worker EXCEPT ![w] = NoWorker]

(* rollbackAndRestartPrevious, from the state read before the files were   *)
(* replaced, after the worker's own process (if it had one) was killed.    *)
RollBack(w, alive) ==
  LET back == worker[w].backup IN
  /\ disk' = back
  /\ stored' = [worker[w].previous EXCEPT !.rollback = back]
  /\ proc' \in IF alive = None THEN Starts(back) ELSE {alive}
  /\ rolling' = IF alive = None THEN None ELSE rolling
  /\ healthURL' = (alive = None \/ healthURL)
  /\ worker' = [IF alive = None THEN Freed ELSE worker EXCEPT ![w] = NoWorker]

StartFails(w) ==
  /\ worker[w].pc = "swapped" /\ faults < MaxFaults
  /\ RollBack(w, proc)
  /\ faults' = faults + 1
  /\ UNCHANGED <<newest, exiting, overlap>>

HealthOk(w) ==
  /\ worker[w].pc = "started"
  /\ worker[w].health => Serving
  /\ stored' = [stored EXCEPT !.apply = AppliedResult(w), !.restart = "executed"]
  /\ worker' = [worker EXCEPT ![w] = NoWorker]
  /\ UNCHANGED <<newest, disk, proc, healthURL, exiting, rolling, faults, overlap>>

HealthFails(w) ==
  /\ worker[w].pc = "started" /\ worker[w].health
  /\ LET alive == IF worker[w].own THEN None ELSE proc IN
       /\ exiting' = (exiting /\ alive # None)
       /\ RollBack(w, alive)
  /\ UNCHANGED <<newest, faults, overlap>>

(* The restoring copy fails, after a failed start or a failed health       *)
(* check: nothing is started any more.                                     *)
RestoreFails(w) ==
  /\ worker[w].pc = "swapped" \/ (worker[w].pc = "started" /\ worker[w].health)
  /\ faults < MaxFaults
  /\ disk' \in {disk, Mixed}
  /\ proc' = IF worker[w].own THEN None ELSE proc
  /\ exiting' = (exiting /\ proc' # None)
  /\ rolling' = IF proc' = None THEN None ELSE rolling
  /\ stored' = worker[w].previous
  /\ worker' = [IF proc' = None THEN Freed ELSE worker EXCEPT ![w] = NoWorker]
  /\ faults' = faults + 1
  /\ UNCHANGED <<newest, healthURL, overlap>>

WorkerStep(w) ==
  \/ LaunchFails(w)
  \/ Copy(w)
  \/ Swap(w)
  \/ SwapFails(w)
  \/ StartNew(w)
  \/ StartFails(w)
  \/ HealthOk(w)
  \/ HealthFails(w)
  \/ RestoreFails(w)

(* The steps with which the process of the application ends.               *)
Ending ==
  \/ Exit
  \/ HasCommand /\ Restart(TRUE)
  \/ \E w \in Workers : worker[w].own /\ (HealthFails(w) \/ RestoreFails(w))

=============================================================================
