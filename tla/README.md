# SparkEdge: models, checks and proofs

SparkEdge is the agent that runs beside energy equipment. It runs Python
collection scripts, delivers what they return to destinations, keeps what could
not be delivered, reports executions to SparkCloud over MQTT and over HTTP, and
takes commands from it. Most of its code is the Go program under `src/internal` and
`src/cmd`, and the web interface under `src/webui`: a client of the program's HTTP
API, but one with state of its own (stores, forms, requests under way, timers) that
has to agree with the edge's. Both are modelled.

This directory holds TLA+ modules for the parts of that program where steps of
several actors meet: what a module says is translated from the code, and
`PROJECT.json` names the lines each definition stands for.

## 1. Inventory

| Component | Code | State | Operations | Works with |
|---|---|---|---|---|
| Local fallback queue | `sqlite/local_fallback.go`, `runtime/runner.go` | rows with a status and a retry count | enqueue + prune, flush, manual retry, delete | runner (producer), scheduler and HTTP (flush), destinations |
| Circuit breaker | `sqlite/circuit_breaker_states.go`, `runtime/runner.go` | failures in a row, opened until | ask before a delivery, report after it | runner, one row per destination |
| Cloud synchronisation | `cloudsync`, `sqlite/cloud_sync.go` | rows with status, priority, next retry and owner; configuration of the service | enqueue + prune, flush by batches, retry one, delete, discard | executions and jobs (producers), scheduler, HTTP and the remote job `sync_now` (flush), provisioning |
| MQTT client and queue | `mqtt/client.go`, `sqlite/mqtt.go` | stored messages, client, `reconnectReady` | publish, store, acknowledge, connect, reconnect callback, retry the queue | executions, heartbeats and statuses (producers), broker, provisioning |
| MQTT command log | `mqtt/client.go`, `sqlite/mqtt.go` | commands by id and their status | take a command, run its handler, answer | broker, remote jobs |
| Instance runs and scheduler | `app/scheduler.go`, `app/mqtt_handlers.go` | status of an instance, its executions | poll, trigger, finish | runner, cloud sync, MQTT, HTTP |
| Workflow orchestration | `app/orchestration.go` | `workflowInflight` | find dependents, check dependencies, begin, end | instance runs |
| Runner: scripts and dispatch | `runtime/runner.go`, `python/sparkit` | none of its own | script with retries, mapping, deliveries in sequence or in parallel | breaker, fallback queue, providers |
| Remote jobs and workflows | `app/mqtt_handlers.go` | steps of a workflow and their states | accept, run steps, report progress | command log, instance runs, cloud sync |
| Dispatchers | `app/dispatchers.go` | none | match an event, trigger instances | HTTP, instance runs |
| Edge provisioning | `edge` | identity, MQTT credentials, onboarding data | pair, connect, disconnect, reconnect, remove | cloud, MQTT client, cloud sync |
| Connectivity policy, snapshot | `connectivity/policy.go`, `app/operational.go` | none | classify counters | queues, MQTT |
| Updater | `updater` | state file, binaries, backup | check, download, apply, health check, roll back, restart | GitHub, service manager |
| Instances service | `instances/service.go` | instances, destinations, mappings | create, save, validate dependencies | SQLite |
| Scripts, auth, users, projects, tags, devices, executions, server catalogue | packages of those names | rows | create, read, update, delete | SQLite, HTTP |
| Providers | `providers` | clients | send | destinations outside |
| Configuration | `config/config.go` | `config.yml` | read; save: read, merge a partial update, write | pages of settings, updater |
| CLI, paths | `cmd`, `appfs` | files | read, write | |
| Web: session | `webui`: `stores/auth-store.ts`, `App.tsx` | user, project, API key, loading | sign in and out, register, load, new key | auth, projects |
| Web: lists | `webui`: `pages`, `stores`, dialogs | the rows shown | load, patch after an operation, load again | the services of the rows |
| Web: forms | `webui`: `components/add-*`, `device-dialog`, `ScriptEditPage`, `ScriptComposerPage` | form, tabs, requests, timers | load, edit, complete, save | instances, devices, scripts, servers |
| Web: settings | `webui`: `CloudSettings`, `LocalData`, `AdvancedSettings`, `UpdateSettings` | what is shown, busy flags, forms | load, poll, act, save | provisioning, queues, configuration, updater |

What makes the program hard, and what its correctness comes down to:

* **Nothing holds a lock across a decision and its consequence.** Queues are read
  into a snapshot, worked through, and written by id; poll, HTTP handlers and
  MQTT handlers do so at the same time. A row must still say what happened
  (`SentWasDelivered`, `SentWasApplied`, `FailedOnlyAtLimit`), and the work done
  for it must stay bounded (`AttemptsBounded`).
* **Errors of the store are dropped almost everywhere**, so each property has to
  survive a write that did not happen.
* **Retention runs inside every enqueue.** It must never cost data that is still
  to be delivered (`LedgerSpec`).
* **Processes and requests end anywhere**; what is in SQLite stays, what is in
  memory goes (`PendingIsSettled`, `KeepsCollecting`). A command that comes again must not be
  run again (`PlanSpec`), nor its end be reported again (`AnsweredOnce`).
* **Networks come and go**, answers and acknowledgements are lost
  (`EventsHeldOrPruned`, `EventsSettle`).
* **Runs trigger runs**: joins must be neither missed nor run twice at a time
  (`JoinNotMissed`, `WorkflowRunsExclusive`). A remote workflow must respect what its
  steps need, end whatever they need of each other, and be answered (`PlanSpec`,
  `CommandsAnswered`).
* **The edge replaces itself.** An update ends the process that started it; a
  version must be left that runs (`ComesBack`), and a backup that is whole
  (`BackupsAreWhole`).
* **A page waits for answers in no particular order** and keeps reacting while it
  does. What it shows must be what the edge has once it waits for nothing
  (`StepFollowsEdge`, `ReadsOwnWrites`, `ListFollowsServer`, `SessionSettles`), or
  must be repaired (`OpenPageIsRepaired`).
* **A form is a copy that gets old**: a save must change what the user changed and
  nothing else, or at least nothing but what it is known to overwrite (`OthersEditsKept`, `OthersSettingsKept`, `SavedAsMeant`,
  `NothingLost`, `RecordsSavedAsMeant`).

The full list, each hazard at the line where it bites, is `hazards` in
`PROJECT.json`; a hazard without a property says why.

## 2. Modules

| Module | Models | Proofs |
|---|---|---|
| `AtLeastOnce` | abstract: the promise of a store-and-forward queue | |
| `FallbackQueue` | `local_fallback_storage` and the callers of it; implements `AtLeastOnce` | `FallbackQueue_proofs` |
| `CircuitBreaker` | the breaker of one destination and the deliveries that ask it | `CircuitBreaker_proofs` |
| `CloudSyncQueue` | `cloud_sync_queue`, its callers, the identity; implements `AtLeastOnce` | `CloudSyncQueue_proofs` |
| `MqttOutbox` | `mqtt_queue`, producers, the MQTT session; implements `AtLeastOnce` | `MqttOutbox_proofs` |
| `InstanceLifecycle` | scheduler, runs, workflow triggers, process start | `InstanceLifecycle_proofs` |
| `MCInstanceLifecycle` | dependency graphs for TLC | |
| `StepPlan` | abstract: the promise of a remote workflow | |
| `RemoteWorkflow` | sequential and parallel execution of a remote job's steps, and the reports on it | |
| `CommandLog` | commands over MQTT and their table, with the workflow a command starts; implements `StepPlan` | `CommandLog_proofs` |
| `MCCommandLog` | workflows for TLC | |
| `Releases`, `Updater` | the updater, its worker processes and its state file | |
| `UpdatePage` | `pages/UpdateSettings.tsx` | |
| `UpdateFlow` | composes the two with the configuration | |
| `Requests` | an HTTP request as a page sees it | |
| `ConfigFile` | two saves of the configuration file that overlap; used by `AdvancedPage` and `UpdateFlow` | |
| `CloudPage`, `QueuePanel`, `AdvancedPage` | the cloud page, the two queue lists, the advanced settings, each with the handlers behind it | |
| `SettingsPages` | one of these three, or the update page with its updater, is open | `SettingsPages_proofs` |
| `MCSettingsPages` | the visits of a user of the update page for TLC | |
| `Session` | the store of the session | |
| `ListPages` | six pages with a list and operations on its rows | |
| `InstanceForm`, `ScriptComposer`, `RecordForms` | the forms of instances, script bundles, and of devices, script data and servers | |
| `WorkPages` | one of these five is open | `WorkPages_proofs` |

`RECURSIVE` is not used anywhere, so that every module can be proved about.

### AtLeastOnce

Four sets: taken over, delivered, excused, forgotten. A record is delivered only
after it was taken over, never comes back once forgotten, and is forgotten only
when delivered or excused. Each queue says in its refinement mapping what its
excuses are, which is where they differ: the fallback queue excuses what was
deleted or has used up its attempts; the cloud queue in addition everything that
once failed, because retention takes "failed" rows; the MQTT queue everything
retention took.

### FallbackQueue

A row is named by its place in creation order. `Enqueue` is
`Runner.enqueueFallback` with the prune `Create` ends in. `StartFlush` takes the
snapshot `FlushFallback` loads (`seen` keeps its retry counts), then each row is
one of `GiveUp`, `NoDestination`, or `BeginSend` - answer - `RecordSent` or
`RecordRefusal`; `StartRetry` is `RetryFallbackItem`, which does not look at the
status. Every one of these writes may fail unnoticed (`Write`). `Interrupt` is a
crash or the end of a request's context: a context error makes every later store
call of that caller fail, which is the same for the table as if it had stopped.
A payload that cannot be read back is marked failed at once (`runtime/runner.go:725`);
since `Enqueue` writes what the same program encoded, that branch is not reached.
`sends`, `failures`, `delivered` and `discarded` are history.

### CircuitBreaker

`row` is the stored state with the time left instead of a time stamp: `left > 0`
is open, `left = 0` the very instant of `OpenedUntil`, at which the code admits
without clearing, `left = -1` past. `Divert` and `Admit` are `beforeSend`, a
failed read being a refusal; `BeginAttempt` to `CancelPause` the loop of
`sendToDestinationWithPolicy`; `RecordSuccess` and `RecordFailure` the two
reports. Each breaker call holds `breakerMu`, so each is one step. A failure whose
report finds an open breaker counts as well and prolongs the opening when it
reaches the threshold, as in the code.

### CloudSyncQueue

`StartFlush` lists the first `Limit` unsent rows that are due, by priority and
age, and groups them by identity; `BeginSend` reads the identity again
(`resolveEdgeID` prefers the configured one), the cloud answers, and `Record`
marks the rows of the batch one after the other. `StartRetry` is `RetryItem`,
whose 409 is a failure where that of `Flush` is a delivery (`Succeeded`). The
identity changes in steps: `Pair` (cloud registration and `SaveProvisioned`),
`PairConnects`, `Refresh`, `Discard`; a failing connection ends the handler after
the first, and a refresh that cannot load the identity leaves the service without
one (`httpapi/cli_handlers.go:277`), in which it flushes nothing until the next refresh
or a restart: `EveryEventSettles` speaks of behaviours that end up with an identity. `Restart` is the part of `app.New` that reads the identity and discards
events of others. The cloud applies a batch as a whole or not at all and only
under the identity its events belong to; it may apply it and lose the answer; it
answers 409 only when it has all of it. These three are assumptions about
SparkCloud, whose code is not in the repository.

### MqttOutbox

Messages are either execution events (`Critical`: stored first, deleted by
acknowledgement) or plain (stored when publishing is not possible). `Admin` stands for
the caller of `Edge.Reconnect`, `Callbacks` for the goroutines the broker library
starts at every connection; both restore the session and go over the queue
(`RetryQueue`), the admin twice. Every attempt is counted (`Counted`), also of events,
though for them the count decides nothing; above `Long` it is not told apart. Removing a
row removes its count (`Cleared`). The library says "connected" while it
reconnects, so a producer may find a connection that does not carry. Errors of
the queue's own store are not modelled here.

### InstanceLifecycle

A goroutine slot is a run (`spawned` to `reporting`) and, after a success, the
goroutine that turns to the dependents (`listing`, `checking`, `beginning`).
`RecordExecution`, `MarkEnded` and `Report` are `finishExecution`, in its order;
`Report` waits for the broker on a provisioned edge, as `PublishExecution` does.
Only the latest execution of an instance is ever read, so it is all that is kept.
`Abandon` is an HTTP client that leaves: the run's later writes fail.
`EditReads`/`EditSaves` are a whole-row save: the partial `Update` with the status it
read, or the form's `Upsert` with "idle". `Start` is `main`: `app.New`
returns only when the first connection is there. Left out: the debounce window
(time between runs), the subscription sync and the two flushes inside the poll,
the execution rows' retention, failing store writes other than those of an
abandoned request, an administrator's disconnect.

### RemoteWorkflow and CommandLog

`StepPlan` is the promise: the workflow is run once, however often it is asked for;
a step starts once at most, after what it needs is completed, and no more steps at a
time than allowed; nothing runs once it is over, and the outcome is true.

`plan` is the workflow asked for: by step a key, the keys it needs, whether it may
fail (`continue_on_error`), and the mode, the width of a batch and the number of
attempts. `wf` says where the loop is, `at` and `tries` what became of each step,
`states` is `stepStates`, by key, from which both modes decide. `Resolve` checks the
needs. In sequence, `Take` looks at the next step: it runs, is skipped, or ends the
workflow. In parallel, a round (`Visit`) looks at every pending step in any order, as
Go walks a map; `RoundEnds` picks a batch of the ready ones, starts another round
when this one has skipped something, and gives up when nothing moved. `Launch`,
`Succeeds`, `Fails` are `executeWorkflowStep` with its retries, one goroutine for
each step of the batch, and `Join` is the wait for all of them. `told` is the status of the
last report stored in the queue for the cloud.

`CommandLog` follows `HandleCommand` call by call for each broker client: look for the
row (`Find`), insert it (`Save`, whose unique `command_id` lets one of two clients
win), claim the id in memory (`Claim`), mark it received and say so (`Receive`, `Told`), refuse it
when no handler is registered, mark it running and say so (`MarkRunning`, `Told`), call the handler
(`CallJob` starts the workflow), write the outcome (`Finish`) and answer it (`ToldLast`). Each
response waits for the broker without a limit, since the context is `context.Background()`
(`mqtt/client.go:460`, `mqtt/client.go:795`); that one is over is a step nothing forces. `answers` is the
sequence of final answers to each command, an answer that is neither sent nor stored among them as "lost". A failed status write goes unnoticed (`Mark`), a failed
look or insert ends the call (`GivesUp`), and the broker takes the message for
delivered in each case. A client calls back one message at a time; two clients overlap while one replaces the other.
`Crash` forgets the claims and the workflow and keeps the rows. Left
out: the content of the first two answers, payloads that cannot be read, and what a single step does, which
succeeds or fails (triggering an instance is `InstanceLifecycle`, flushing is
`CloudSyncQueue`; changing the configuration and restarting are not modelled).

### Updater and UpdateFlow

A release is its number. `disk` is the version installed (`Mixed` while files of
two versions lie there), `proc` the one that runs, `stored` the state file with
the results of download, apply, execute and rollback. `ApplyDownloaded` takes a
backup of what is on disk and records it; `ExecuteDownloaded` does the same, starts
a worker and arms the timer `Exit`. A worker (`worker[w]`) waits until its parent
is gone (`Freed`; the launcher may fail, `LaunchFails`), replaces the files (`Copy`, which
leaves the disk `Mixed`, then `Swap`), starts the result (`StartNew`), and looks at its health
(`HealthOk`, `HealthFails`); on a failure it restores the backup and starts it (`RollBack`,
`RestoreFails`). A rollback on request also copies the backup file by file, over a running
application (`RollbackBegins`, `RollbackEnds`), and may break off (`RollbackFails`); it writes the state it read
when it began. `Restart` is the request of that name. `OperatorStart` is someone, or a service manager, who
starts what lies there: the executable is replaced first and whole, so files of two versions
start as one of them (`Starts`). `overlap` records what has disturbed an update: an execute, a start by hand
or a restart that met a worker at work (`Meeting`), a backup made in the middle of a rollback (`Torn`), and an
application that a copy cut short has left with, or that was started from, `Mixed` files
(`Remains`). The code has no lock against any of them.

`UpdatePage` is the page with its handlers as asynchronous functions: `run` says
where each waits, `net` holds its requests. `UpdateFlow` serves the requests
(`Serve...`) with the updater's actions, refuses them (`ServeRefusal`), loses them when no process runs, and
adds the section of the configuration the page edits (`conf`), which another
administrator edits too (`OtherReads`, `OtherWrites`). A save is two steps, its read of the file and its
write of the whole file (`SaveBegins`, `SaveEnds`), as `ConfigFile` has it for both pages: `crossed` says
that another save was written in between, and a read in the middle of a write finds the
defaults. The end of the process cuts a save short (`CutShort`). `typed` and `intent` are history: the fields
the user changed, and those of them when the last save was pressed.

### The pages

All pages share `Requests`: a request is sent, then served by the edge, which fixes
the answer, or failed, and is handed to the handler later, so answers overtake
each other. Serving one operation is one step of the edge unless its steps matter to the page
(saving the configuration, rolling back, a save of a form that fails half way); what happens inside the
others is the subject of the modules above. Each page module has one action per button, per kind
of edit, and per continuation of a handler (the code after an `await`), and one
that changes the edge from outside. `stale` marks a request whose answer was
overtaken; the history variables made from it (`excused`, `fresh`, `misled`,
`off`) say in which situations a page cannot know better.

* `CloudPage`: `StatusAnswered` and `OnboardingAnswered` are the two halves of
  `fetchStatus`, each run with the manual override it was created with.
* `QueuePanel`: the list of the synchronisation queue (with its poll) and that of
  the fallback queue (a store); the load after an operation is part of the
  operation (`OperationAnswered`).
* `AdvancedPage`: secrets are shown blank and sent only when typed; one is emptied after a save, the
  other is not.
* `Session`: `gate` is `loading`. `MeAnswered` starts the load of the project without waiting for it;
  `SignedIn` chains the two. `KeyAnswered` writes a new API key into whatever user the store has by
  then, even none: a user without an id (`Keyed`) is left.
* `ListPages`: `InstanceOps` and its siblings say for each page whether an answer
  is patched into the list or the list is loaded again. `shown` counts the cards of each row, since
  a patch may add a row that a load has brought already; the order of cards is left out. `visit` tells requests of an earlier
  opening of the page apart, which a store still hears and the devices page does
  not.
* `InstanceForm`: the values are grouped by what is changed and completed
  together: `Simple` groups, the inputs of the script (completed by the script tab)
  and the destinations with their templates (completed by the mapping tab). What is stored
  has three groups more, which every save overwrites unseen (`Overwritten`): the status, the creator and the
  ids of the destinations. `SaveFails` is a save that wrote the row and broke off in
  `syncDestinations`, which removes all mappings and destinations and inserts the new ones one by one
  without a transaction; `cut` says that the last save did, `loaded` is the destinations the form was filled in with.
* `ScriptComposer`: `draft` is what the editor holds, `bundle` what is installed;
  `model` is a file the editor does not take. A file that is not UTF-8 comes damaged (`Decoded`), and
  requirements may get a line (`Required`). `HistoryFails` is a replacement whose history cannot be
  written: the files go back, the row keeps the new main file. Timers are the 700 ms and the step delays of the page.
* `RecordForms`: `Refill` is the effect that fills in the device form again at each new rendering.
  `Forgotten` names what a form is not filled in with and every save erases or overwrites (`Erased`): of a device
  its serial number and operation, of a server its headers and its owner (creator, project and time of creation).

## 3. Runs

Each passing run ends with no error; the violation run refutes one sentence of the
documentation, quoted in `findings`. Where possible the safety
and liveness properties of a component share a run, under its fair specification.

| Run | Instance | Shows |
|---|---|---|
| `fallback_race` | 1 row, poll + HTTP flush + retry, 1 interruption, 1 lost write | rows tell the truth, attempts are bounded; undisturbed, nothing is left "sending" and all settle |
| `fallback_retention` | 2 rows, keep 0, lost write, crash | refines `AtLeastOnce`: retention costs nothing that can still be sent, a sent row stays sent |
| `breaker` | 3 deliveries, threshold 3, cooldown 2, 2 attempts, 1 failing access, restarts | who slips in, what opens, what closes, and that traffic comes back |
| `cloudsync` | 2 events of 2 priorities, limit 1, scheduler + one flush or retry on request, 1 fault or restart | refines `AtLeastOnce`; no event starves while the service keeps an identity |
| `cloudsync_identity` | 2 identities, 2 changes, 1 producer, restart | "sent" is true under changing identities |
| `mqtt` | 1 event, 1 plain message, callback, admin, retention, crash | events leave by acknowledgement or retention only, and do leave; refines `AtLeastOnce` |
| `lifecycle` | diamond of 3, 3 goroutines, 2 requests, 1 crash, 1 stale save, clients that leave | joins are neither missed nor doubled, marks match the runs |
| `lifecycle_collect` | 1 instance, scheduler, 2 requests, flapping network | collection goes on |
| `settings` | one page open: 2 runs of `fetchStatus`, 2 actions; 1 message, 2 handlers; 4 settings, 2 saves; 1 change from outside or failure each, 1 save by another in two steps; or the update page: 3 releases of which the third never answers its health check, 2 workers, 1 fault, visits of 2 to 4 clicks, 1 edit by another in two steps | the step shown follows the edge, removed rows stay away, the poll repairs, a save keeps others' settings unless it is overtaken; backups are whole unless something left `Mixed` files to back up, the edge comes back |
| `work` | one page open: 2 users, 3 buttons; 2 rows, 2 operations, 1 reopening; 2 destinations, 2 saves; 2 edits, 2 installations; 3 changes, 2 saves; 1 failure each | the session settles, lists follow the edge, saves are as meant, also those that break off |
| `commands` | 17 workflows of 3 steps, 2 commands, the other one with a handler or without, 2 clients, 2 deliveries, 1 crash, 1 failing access | a workflow is run once, in order and within its width, in both modes; refines `StepPlan`; no command is answered twice, a recorded one is answered while no publish waits for ever, and the last report is true |
| `lifecycle_crash` | violation | a crash leaves "running" behind, and the scheduler skips the instance |

Things the models show that have no run of their own:

* A fallback row left "sending" by an interruption is never listed again;
  `PendingIsSettled` therefore speaks of behaviours in which
  nobody was interrupted and no write was lost (`Undisturbed`).
* A pairing whose MQTT connection fails ends before the discard
  (`httpapi/cli_handlers.go:64`), so that events of the replaced identity stay queued
  until a restart, although `cloudsync/service.go:124` and `app/app.go:124` say why they must not.
* A refresh of the cloud configuration that cannot load the identity leaves the service without one
  (`httpapi/cli_handlers.go:277`): events are stored and none is sent until another refresh or a restart.
* Retention of `mqtt_queue` takes unconfirmed execution events by number and by age
  (`sqlite/mqtt.go:173`), although `mqtt/client.go:74` calls them durable until confirmed.
* A provisioned edge that boots without network waits in `app.New` for the broker
  (`app/app.go:172`): neither scheduler nor HTTP server starts, although
  `README.md:20` promises routines without access to the outside.
* `prune` takes "failed" rows of the cloud queue, which are still to be retried;
  the refinement has to excuse every event that failed once.
* With `Abandons = TRUE` or `MaxEdits = 1`, `KeepsCollecting` fails for the same
  reason as after a crash: an abandoned request, or a whole-row save that read
  "running", leaves the status "running" with no run under way.
* With `FairSpec` instead of `OnlineSpec` a finished run can wait for the broker
  for ever in `Report`, and its dependents wait with it.
* In `MqttOutbox` a `Connect` that fails after dialling leaves `ready` FALSE and a
  live client; its later callbacks all skip. `EventsSettle` asks for
  Reconnects that go through for this reason.
* A second caller that flushes the cloud queue for ever beside the scheduler can
  undo its marks each time; a full batch of such events starves those behind it.
  `cloudsync` bounds the flushes on request (`MaxManual`).

In commands and workflows:

* A command that a crash cuts off after its row is written is neither answered nor run
  again: a redelivery finds the row and is dropped (`mqtt/client.go:495`). This is the
  price of running it once, and why `CommandsAnswered` excepts crashes.
* With the link down a response waits for the broker without a limit, and everything after it waits with
  it: the command is not even run before "running" is confirmed. `CommandsAnswered` therefore starts from
  `PublishesEnd`.
* Every report of a job with the same status carries the same `message_id`
  (`app/mqtt_handlers.go:818`), and a step that ends reports the job "completed" or
  "failed" before the workflow has, although `docs/edge-cloud-contract-v1.md:279`
  wants the id unique per publication.
* Steps that share a key: in parallel all but the last are silently left out,
  in sequence all run.
* A step held back by a failed one fails a sequential workflow unless it may fail
  itself; in parallel it is skipped and the workflow may still succeed.
* The handlers run inside the broker library's callback and publish from there
  (`mqtt/client.go:460`); that the library can do this is assumed.

In the updater:

* A worker whose copy fails half way ends: it neither restores nor restarts,
  although `docs/assisted-update-plan.md:72` has a rollback when the exchange fails. A
  backup skips files that are missing, a restore requires them.
* Two executes within the 1.5 s before the exit start two workers; a start by hand
  during an update overlaps its worker. Either may leave `Mixed` files or no process,
  which is why `ComesBack` excepts both, and `BackupsAreWhole` an overlap of any kind.
* The executable is replaced first, so an installation of two versions starts; the next apply or execute
  takes its backup from it. A rollback on request replaces files under the running application, and a
  backup made meanwhile is of two versions; when it breaks off, the application goes on over `Mixed` files.
* Saves of the configuration overlap (`config/config.go:271`): each reads, merges and writes the whole file
  without a lock, so the later write puts back what the other has saved; and since the write truncates the file
  first, a read in between finds no setting, and a save that starts from it stores the defaults.
* A restart accepted while a worker waits for the end of its parent starts the edge again beside
  the worker, which then replaces the files under it; an apply made in that time
  records a backup of `Mixed` files. This came out of the proof of `BackupsAreWhole`, whose
  first form excepted only an execute and a start by hand.
* A worker writes back the state it read at its start, and `DownloadLatest` drops the
  last apply, after which the installed version cannot be rolled back any more.
* Saving the update section drops the health URL from the running service, so that a worker
  only waits instead of asking.

In the web interface:

* Cloud page: saving the onboarding form replaces the tags, so that going back to
  a blank form and saving erases them; a failed `fetchStatus` shows the onboarding
  step even on a linked edge; the poll does not touch the step.
* Advanced page: after a first load that failed, a save sends every default. The token of
  the cloud is not cleared after a save and is sent again.
* Session: a new API key that comes after signing out leaves a user without an id in the store, whom the
  application takes for signed in. Signing out keeps the project in the store. A wrong password is answered with
  200 and an error field, which `login` takes for a success.
* Lists: a device removed on a page that was left and opened again stays
  listed; instances are never polled.
* Instance form: a save during a load that failed stores blanks over the
  instance; a second click in the 1.5 s before the form closes creates a second instance;
  showing the script or the mapping tab changes what is saved; the load that follows
  the project's arrival discards what was typed. Every save sets the status to "idle", also of an instance that
  runs, erases who created it and gives its destinations new ids. A save that breaks off has removed destinations; saving
  the same form again brings them back, but once the form is opened again they are gone. A creation that breaks off
  leaves an instance, and saving again creates another.
* Composer: a save before the script has come, or after its load failed, installs a new
  script from the sample; a save after the script and before its files replaces the
  bundle with the sample; files the editor does not take are dropped by a save, those that are not UTF-8 are
  damaged by it, and requirements get a line. When the history of a replacement cannot be written the old
  files are restored, but the row names the new main file.
* Records: the device form is filled in again while a save is under way, so that a
  second click saves the old values; a device loses its serial number, and its
  operation unless chosen again; a script edited after a failed load is saved blank, and its save may fail after
  it was stored; every save of a server erases its headers and overwrites its creator, its project and its time of
  creation, and stores a resource without an id anew each time; a server's second save creates a second server, and a resource that was removed
  comes back because only insertions and updates are made.

**Why the bounds are enough.** The races need at most three callers on one row
(two flushes with snapshots of different age and a retry, in `fallback_race`); a second row is there
where rows influence each other (retention, priorities, the order of a flush). The
bounds `MaxInterrupts`, `MaxFaults`, `MaxCrashes`, `MaxManual`, `MaxRequests`,
`MaxPairings` and `MaxEdits` cap how often the environment intervenes, never what
it can do; `MaxRetries = 2` leaves a first, a last and a stale attempt apart;
`Threshold = 3` a first failure, one in the middle and one that opens; `Cooldown = 2` an
early closing from one by time. The diamond is the smallest graph with a join
whose branches end together; `lifecycle` runs it on an edge without an identity,
since waiting for the broker only delays a step any run may delay anyway. Three releases are needed to
update twice, to one that works and to one that does not; two workers to overlap. Two
deliveries are two clients at once or a redelivery after a crash; three steps are a fan, a
chain and a knot beside a step that is free. On
the pages, two handlers or saves and one change from outside are what it takes for an
answer to be overtaken by an operation, by a load and by somebody else; pages are
open one at a time, since they share no state but the edge, and what the edge may do
behind a page's back is an action of that page's module. In `InstanceForm` and
`RecordForms` the groups stand for the fields that are changed and filled in
together. For the properties in section 5 the bounds do not
matter at all.

Deadlock is not checked in runs whose bounds let all work be done; in the
breaker's, where the system never stops, it is.

## 4. Fairness

* `WF(StartFlush(Scheduler))`, `WF(PollLists)`: the poll is a ticker.
* `WF` of every caller's, session's and goroutine's next step: a goroutine that can run does, and
  every send and script has a time limit.
* `WF(Tick)`, `WF(BackoffEnds)`, `WF(IntervalPasses)`: time passes.
* `SF(Accepted)` (cloud) and `SF(ReceiveAck)`: a request, or confirmation, that is made over and over gets through
  some time. This is an assumption about the network and the cloud, needed by any claim that data arrives.
* `SF(Start)`, `SF(Report)`, `SF(PollSpawns)`: what waits for the network goes on when
  the network is there again and again, and a new goroutine finds a slot (the slots are a bound
  of the model).
* `settings`, the update page: `WF(Exit)`, a timer that runs out, and `WF(WorkerStep(w))`, a process that was
  started goes on. Nothing makes an operator start the edge.
* `settings`, the queue panel: `WF(StartPoll)`, an interval of 8 s; `WF(QueueServes)`, `WF(QueueHandles)`: the
  edge, or the failure of the request, answers, and the browser runs the handler. A load under way
  does not keep the interval from starting the next one. Nothing makes the user press a button.
* `commands`: `WF(Handling(r))`, `WF(WorkflowStep)`: callbacks and the goroutines of a
  workflow go on, and what a step does ends, by its time limit at the latest. Nothing
  makes the broker deliver, or confirm a publish: that no response waits for ever is a premise of
  `CommandsAnswered` (`PublishesEnd`) and not a fairness of the model.
* `OnlineSpec` adds `WF(LinkReturns)`: the network keeps coming back. It is
  used where the claim is made for it, and not in the runs about operation
  without network.

The violation run uses the same fairness, so that its counterexample is not just a
system that stands still. `work` claims nothing about what must happen at last.

## 5. What is proved

All theorems are for every value of the constants allowed by the named assumptions.

* `FallbackQueue_proofs`: `TypeCorrect`, `SentIsDelivered` and `GivenUpAtLimit`. One
  inductive invariant stands behind the last two:
  `CountsBacked` says that no count a caller loaded exceeds the failures that
  really happened, and that the stored count together with the refusals met but
  not yet recorded does not either; `AnswersBacked` says that a caller that was
  told "accepted" or "refused" works on a row that really was. The limit check on
  a stale count is safe because counts only ever lag behind.
* In the same module, `ImplementsLedger` and `OffersBounded`.
  - The queue implements `AtLeastOnce`. The invariant adds that nothing is told of,
    and no caller holds, a row that was never created; a row that is gone stays gone
    because every write is by id and does nothing without the row; and
    a row that is gone undelivered was deleted or given up (`NoSilentLoss`): retention costs nothing
    because it takes only "sent" and "failed" rows, whose promises are part of the invariant.
  - How often a payload is offered. The invariant counts the chances that are left:
    the pairs of a flusher and a count for which that flusher either holds the row
    or could still load it. A row found pending again has a higher count than before,
    so an attempt uses a chance up, a manual retry brings its own, and a lost write
    pays for the one chance it keeps open. The sum of attempts, chances and requests
    never exceeds the chances there were to begin with plus the manual retries and lost writes so far.
* `CircuitBreaker_proofs`: `TypeCorrect`, `NoneSlipsIn`, `ClosesOnSuccess`,
  `LoadBounded` and `OpensOnStreak`. For `LoadBounded` the invariant adds the attempts that the
  deliveries under way may still start: one that starts is one less ahead, and a
  delivery that is not under way at the opening is not admitted during it. The
  invariant for the last ties the stored count to the streak of reports as long
  as no access to the store has failed; a lost write separates the two for good,
  which is why the property says so.
* `CloudSyncQueue_proofs`: `SentIsApplied`. The invariant adds that an answer that
  counts as a success was given for every event the caller still has in hand of its batch
  (`AnswerBacked`): between the answer and the last mark, the write is backed by
  what the cloud has, which never shrinks, whoever else sends, marks, prunes, discards
  or changes the identity meanwhile. The domains it needs (`Typed`) are part of it.
  `ImplementsLedger`: retention takes "failed" rows that are
  still to be retried, so the invariant keeps that a failed row has a failed attempt
  on record and a sent one is applied; callers hold created rows only, so nothing is
  delivered or refused that was not handed over.
* `MqttOutbox_proofs`: `EventsAreHeld`. What it rests on is what a deletion and a
  store keep in the table; the lists of the sessions play no part, since whatever
  stale row a session has in hand, the code behind it deletes no event.
  `ImplementsLedger`: here they do play a part. A session may publish and give up a message
  whose row is gone, so the invariant follows where the rows in hand came from, that
  confirmations are of what arrived, and that a message without acknowledgement is in its
  producer's memory until it is stored, arrived, displaced or given up.
  `TypeCorrect`: no message is in the table twice, because a producer stores once and not again
  what it has stored (`StoredOnce`); and the attempts at a message without acknowledgement stay bounded, because a session
  loads it below the limit and counts one more at most: attempts and sessions that have it in
  hand together never exceed the limit and the number of sessions (`AttemptsLimited`).
* `InstanceLifecycle_proofs`: `TypeCorrect`; `Exclusive`: the in-flight mark and
  the workflow run of an instance come and go together; `NoJoinMissed`, between
  restarts. Its inductive invariant says that an instance that is still owed a
  trigger and whose dependencies have all succeeded has some goroutine that will
  yet look at it (`Watched`): one between recording its success and listing the
  dependents, or one that has it on its list. The step that needs it is two
  dependencies that end together: whoever records last still has its look ahead.
  A crash forgets what was owed, so the promise starts anew.

* `CommandLog_proofs`: `ImplementsPlan`, that a workflow in both modes, however its command is
  delivered, refines `StepPlan`, and `AnsweredAtMostOnce`. The invariant of the command's side says that whoever
  is inside a handler has a row, is alone with it (`InsideAlone`) and has not answered yet (`InsideUnanswered`), and that an
  answered command has a row, which keeps later deliveries out; so the workflow is begun once. That of the workflow ties
  what the loop decides from (`pending`, `batch`, and `states`, which is by key) to what has become of
  the steps: a step waits exactly while it is pending (`PendingWaits`, `WaitingPends`), a batch
  fits and its needs are met (`BatchFits`, `BatchMet`), and a key says what the steps it stands for came to
  (`StatesTrue`, `StatesMissing`). Steps that share a key are the hard part: several write
  the same entry, and the last of them is the one the parallel mode keeps (`LastOfKey`). `GreatestExists`
  supplies the last one, by a well-founded ordering of finite sets from the library.
* `SettingsPages_proofs`: `TypeCorrect`, `StepIsTheEdges`, `OwnWritesAreRead`, `BackupsStayWhole`,
  `SavesLeaveOthersSettings` and `SavesLeaveOthersEdits`. One invariant per page says of each request
  on its way what its answer is worth:
  - cloud page (`CloudInv`): an answer that is not stale tells of the edge as it is (`True`), one
    action is under way at a time (`OneAction`), and while nothing is excused a step that asks to be linked is
    left behind once the edge is (`LinkedStepLeaves`), and what an action was told has happened is
    still so when its answer is handled (`CarriedOut`);
  - queue panel (`QueueInv`): a request of a handler that removes a row, once carried out, finds the row gone,
    and an up-to-date list is the queue;
  - advanced page (`AdvancedInv`): what the user left alone is as it was loaded, a save on its way
    carries only what was meant, and what a save is about to write differs from the file only in that, unless
    another was written since its read (`Drafted`);
  - update page (`PageInv`, `DraftInv`): what differs from the loaded configuration was typed, a save carries
    only that, and the same holds of what it is about to write;
  - updater (`UpdaterInv`): while nothing disturbs an update, one worker at most is at work (`OneWorker`),
    it replaces files only while no application runs, and a running application has `Mixed` files only in the
    middle of its own rollback (`ReplacesWhileDown`), and the result a worker or a rollback
    would write back has a whole backup (`HistoryWhole`). A backup is taken by a live application,
    so that it does not see `Mixed` files.
* `WorkPages_proofs`: `TypeCorrect`, `SessionSettled`, `ListsFollow`, `InstanceSavedAsMeant`,
  `ReplacingLosesNothing` and `RecordSavedAsMeant`.
  - Session (`SessionInv`): while the store and the cookie differ, a request is on its way that will tell
    the store; the same for the project of the user and for the key.
  - Lists (`ListInv`): unless the page cannot know better, either the list is being loaded, or will be once an
    operation is answered (`Reloading`), or what it lacks, and what it shows too much, is made good by
    the patches on their way (`PatchesRepair`). Patches go by id, so it adds that ids are not used again.
  - Instance form (`FormInv`): a group the user did not touch shows what is stored or a completion of
    it (`FormShows`), a save on its way carries what was meant (`SubmitsAsMeant`), and it is the only one. After a save
    that broke off the destinations are compared with those that were loaded, of which what is stored is a
    shortened part.
  - Composer (`ComposerInv`): once the files have been given to it, the editor holds each file
    of the bundle that the user did not meddle with, as it comes through JSON (`EditorShows`), and so does a replacement on its
    way (`ReplacesAsMeant`).
  - Records (`RecordInv`): while the form still shows the record, untouched fields are those
    stored, but for the ones it is not filled in with, which it shows blank (`FieldsShow`, `Unfilled`).

  The proof of the records led to a change of the model: a page that was left is not opened again by
  a load that fails.

Every safety property of the runs is stated by a theorem, `KeepsCollecting` of course excepted.
Assumptions on constants are those the code justifies: finite sets of callers, limits of at
least one where the code has one, sets that do not overlap.

Only model-checked: liveness (`PendingIsSettled`, `ReopensForTraffic`, `EveryEventSettles`, `EventsSettle`,
`KeepsCollecting`, `OpenPageIsRepaired`, `ComesBack`, `CommandsAnswered`), since the prover has no ENABLED.

## 6. Plan

1. *(done)* the queues, the breaker, the lifecycle, their abstract specification.
2. *(done)* the updater with its page, the settings pages, the session, the lists and the forms.
3. *(done)* `RemoteWorkflow` and `CommandLog` with their promise.
4. *(done)* Proofs: every safety property of the runs, and the four refinements.
5. `Dispatch`: `Runner.Trigger` and `dispatchDestinations`, with the breaker and
   the fallback queue behind them.

## 7. Not modelled

* The dispatch to several destinations: see the plan.
* Remote jobs that change the configuration or restart the edge.
* Event and state-change dispatchers: they select instances and request runs,
  which `InstanceLifecycle` has as requests. The connectivity policy and the
  operational snapshot classify counters and change nothing.
* The HTTP layer apart from the handlers named in `map`, validation of scripts (a
  function of text), provider adapters (I/O), migrations, the CLI.
* Updater: the scripts of a Windows rollback, the history entries, and what restoring
  `config.yml` from a backup does to the settings (those saved since are lost with it).
* Inside the scripts service, a replacement is one step apart from the history that fails; its row, its
  history and its folder are written one after the other in the code.
* The list of the synchronisation queue is of at most 100 rows (`httpapi/cloud_sync_handlers.go:15`); the model has fewer.
* Web interface: the details, playground, log, execution and overview pages, the JSON view,
  the search, dialogs that only select, and the library of widgets hold no copy of the
  edge that is saved back. Unused components (`instance-table.tsx`,
  `InstanceFormTabs` with `instances/tabs`, `EndpointMapping`, `add-instance.tsx`) are
  not modelled either. Trial runs of a draft, and the effect that
  replaces an operation's type by its configuration's as soon as it is shown
  (`server-builder-form.tsx:522`), are left out.
