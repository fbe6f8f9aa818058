----------------------------- MODULE UpdateFlow -----------------------------
(***************************************************************************)
(* The update page and the updater it drives, with the edge configuration  *)
(* the page edits and another administrator who edits it too.              *)
(***************************************************************************)
EXTENDS Updater, UpdatePage, ConfigFile

CONSTANTS MaxEdits,  \* bound on what the other administrator changes
          Uses,      \* what the users of a behaviour do: buttons used, "start", a bound on clicks
          MaxTyped   \* bound on the fields the user changes between two loads

VARIABLES
  conf,    \* the update section of config.yml
  drafts,  \* the saves of it under way
  edits,
  typed,   \* fields the user changed since the configuration was last shown
  intent,  \* those of them when the last save was pressed
  uses     \* the parts of the page this user uses

flowVars == <<uvars, pvars, conf, drafts, edits, typed, intent, uses>>

ASSUME FlowAssumption ==
  "enabled" \in Fields /\ {0, 1} \subseteq Entries /\ MaxEdits \in Nat /\ MaxTyped \in Nat

(* The section of an empty file.                                           *)
Standard == [f \in Fields |-> 1]

FlowTypeOK ==
  /\ UpdaterTypeOK /\ PageTypeOK
  /\ conf \in Configs /\ drafts \in SavesOf(Configs) /\ edits \in 0..MaxEdits
  /\ typed \subseteq Fields /\ intent \subseteq Fields /\ uses \in Uses

(* The page is opened on a fresh edge, or after an earlier visit has       *)
(* downloaded or prepared the second release.                              *)
FlowInit ==
  /\ UpdaterInit /\ PageInit
  /\ conf = Standard /\ drafts = NoSaves /\ edits = 0 /\ typed = {} /\ intent = {}
  /\ uses \in Uses /\ ("save" \in uses.parts => newest = 1)

-----------------------------------------------------------------------------
(* The HTTP handlers, update_handlers.go and cli_config_handlers.go.       *)

CheckAnswer ==
  IF conf["enabled"] = 0 THEN "disabled"
  ELSE IF newest > proc THEN "available" ELSE "current"

StatusAnswer ==
  [download |-> stored.download,
   apply |-> IF stored.apply = None THEN None ELSE stored.apply.version,
   execute |-> stored.execute, rollback |-> stored.rollback, restart |-> stored.restart]

Reads == {"check", "status", "config"}

(* A request that reads.                                                   *)
ServeRead(r) ==
  /\ r.what \in Reads
  /\ \E seen \in Readable(conf, drafts.ours, Standard) \cup
                  Readable(conf, drafts.theirs, Standard) :
       Served(r, CASE r.what = "check" -> CheckAnswer
                   [] r.what = "status" -> StatusAnswer
                   [] r.what = "config" -> seen)
  /\ UNCHANGED <<uvars, conf, drafts>>

(* A save reads the file, then writes it.                                  *)
SaveBegins(r) ==
  /\ r.what = "save" /\ drafts.ours = None
  /\ \E seen \in Readable(conf, drafts.theirs, Standard) :
       drafts' = OursRead(drafts, seen, conf, r.arg)
  /\ UNCHANGED <<uvars, net, conf>>

SaveEnds(r) ==
  /\ r.what = "save" /\ drafts.ours # None
  /\ conf' = drafts.ours /\ drafts' = OursDone(drafts)
  /\ UpdateConfig
  /\ Served(r, "ok")
  /\ UNCHANGED <<newest, disk, proc, stored, exiting, worker, rolling, faults, overlap>>

(* A request that changes something; the operation and its answer.         *)
ServeDownload(r) == r.what = "download" /\ DownloadLatest /\ Served(r, newest)

ServeApply(r) == r.what = "apply" /\ ApplyDownloaded(r.arg) /\ Served(r, r.arg)

ServeExecute(r) == r.what = "execute" /\ ExecuteDownloaded(r.arg) /\ Served(r, r.arg)

(* One of them fails: nothing is written, or what an execute prepared      *)
(* before the worker could not be launched.                                *)
ServeRefusal(r) ==
  /\ r.what \in {"download", "apply", "execute"}
  /\ UNCHANGED uvars \/ (r.what = "execute" /\ ApplyDownloaded(r.arg))
  /\ Failed(r)

(* RollbackLatest, or its refusal: no application is recorded, or nothing  *)
(* could be copied, as over an executable that is in use.                  *)
ServeRollback(r) ==
  /\ r.what = "rollback"
  /\ \/ rolling = None /\ UNCHANGED uvars /\ Failed(r)
     \/ RollbackBegins /\ UNCHANGED net
     \/ RollbackEnds /\ Served(r, disk')
     \/ RollbackFails /\ Failed(r)

ServeRestart(r) ==
  /\ r.what \in {"plan", "restart"}
  /\ Restart(r.what = "restart")
  /\ Served(r, stored'.restart)

(* The saves under way end with the process that serves them.              *)
CutShort == drafts' = IF Ending THEN NoSaves ELSE drafts

Serve(r) ==
  /\ Serving /\ r.state = "sent"
  /\ \/ ServeRead(r)
     \/ SaveBegins(r)
     \/ SaveEnds(r)
     \/ /\ \/ ServeDownload(r)
           \/ ServeApply(r)
           \/ ServeExecute(r)
           \/ ServeRefusal(r)
           \/ ServeRollback(r)
           \/ ServeRestart(r)
        /\ CutShort /\ UNCHANGED conf
  /\ UNCHANGED <<shown, config, form, busy, run, clicks, edits, typed, intent, uses>>

InTheMiddle(r) ==
  \/ r.what = "save" /\ drafts.ours # None
  \/ r.what = "rollback" /\ rolling # None

(* A request that does not get through, or whose answer gets lost: the     *)
(* application is down, or ends while it answers.                          *)
Lost(r) ==
  /\ ~Serving \/ exiting
  /\ r.state = "sent" => ~InTheMiddle(r)
  /\ r.state \in {"sent", "served"}
  /\ Failed(r)
  /\ UNCHANGED <<uvars, shown, config, form, busy, run, clicks, conf, drafts, edits, typed, intent, uses>>

(* The same endpoint serves another administrator's page.                  *)
OtherReads ==
  /\ "save" \in uses.parts /\ drafts.theirs = None /\ edits < MaxEdits /\ Serving
  /\ \E seen \in Readable(conf, drafts.ours, Standard), f \in Fields, v \in Entries :
       v # seen[f] /\ drafts' = TheirsRead(drafts, seen, [g \in {f} |-> v])
  /\ edits' = edits + 1
  /\ UNCHANGED <<uvars, pvars, conf, typed, intent, uses>>

OtherWrites ==
  /\ drafts.theirs # None /\ Serving
  /\ conf' = drafts.theirs /\ drafts' = TheirsDone(drafts)
  /\ UpdateConfig
  /\ UNCHANGED <<newest, disk, proc, stored, exiting, worker, rolling, faults, overlap,
                 pvars, edits, typed, intent, uses>>

-----------------------------------------------------------------------------

Types ==
  \E f \in Fields, v \in Entries :
    /\ "save" \in uses.parts /\ config # None /\ Cardinality(typed \cup {f}) <= MaxTyped
    /\ Edit(f, v)
    /\ typed' = typed \cup {f}
    /\ UNCHANGED <<uvars, conf, drafts, edits, intent, uses>>

Presses ==
  \E h \in Actions \cap uses.parts :
    /\ clicks < uses.clicks /\ Press(h)
    /\ intent' = IF h = "save" THEN typed ELSE intent
    /\ UNCHANGED <<uvars, conf, drafts, edits, typed, uses>>

Shows ==
  /\ \/ \E r \in net : Answered(r)
     \/ \E h \in Loads : LoadDone(h)
     \/ clicks < uses.clicks /\ "refresh" \in uses.parts /\ Refresh
  /\ typed' = IF config' # config \/ form' # form THEN {} ELSE typed
  /\ UNCHANGED <<uvars, conf, drafts, edits, intent, uses>>

Machine ==
  /\ \/ "download" \in uses.parts /\ Publish
     \/ Exit
     \/ "start" \in uses.parts /\ OperatorStart
     \/ \E w \in Workers : WorkerStep(w)
  /\ CutShort
  /\ UNCHANGED <<pvars, conf, edits, typed, intent, uses>>

FlowNext ==
  \/ \E r \in net : Serve(r) \/ Lost(r)
  \/ OtherReads
  \/ OtherWrites
  \/ Types
  \/ Presses
  \/ Shows
  \/ Machine

-----------------------------------------------------------------------------
(* The version that ran is not lost: every backup a worker or a rollback   *)
(* may restore holds one complete version. Files of two versions get into  *)
(* a backup only after an update, a restart or a start met a worker at     *)
(* work, through a backup made in the middle of a rollback, or from an     *)
(* application that a copy cut short has left with such files              *)
(* (backupCurrentInstallation, RollbackLatest and RunWorker).              *)
BackupsAreWhole ==
  overlap = {} =>
    /\ stored.apply # None => stored.apply.backup # Mixed
    /\ \A w \in Workers : AtWork(w) => worker[w].backup # Mixed

(* The scheduled exit of an automatic update is followed by an application *)
(* that runs again when every worker is through, the new version or the    *)
(* restored one, unless a copy or a start fails, two updates overlap, the  *)
(* edge is started by hand in the middle of one, or the backup may hold    *)
(* files of two versions                                                   *)
(* (ExecuteDownloaded, RunWorker and rollbackAndRestartPrevious).          *)
Back == proc # None /\ ~exiting /\ \A w \in Workers : ~AtWork(w)
ComesBack == exiting ~> Back \/ faults > 0 \/ overlap \ {"restart"} # {}

(* A save of the update section changes no field the user did not change:  *)
(* what another administrator saved in the meantime stays (the diff of     *)
(* handleSaveConfig, the merge of handleCliConfigUpdate), unless that save *)
(* was written between the read and the write of this one (Manager.Save).  *)
OthersEditsKept ==
  [][drafts'.theirs = drafts.theirs /\ ~drafts.crossed =>
       \A f \in Fields : conf'[f] # conf[f] => f \in intent]_flowVars

=============================================================================
