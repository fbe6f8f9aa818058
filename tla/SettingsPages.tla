--------------------------- MODULE SettingsPages ---------------------------
(***************************************************************************)
(* The pages of the web interface that show and change the settings of the *)
(* edge and what it holds back, with the updater behind one of them: one   *)
(* page is open in each behaviour.                                         *)
(***************************************************************************)
EXTENDS CloudPage, QueuePanel, AdvancedPage, UpdateFlow

VARIABLE open

vars == <<open, cvars, qvars, avars, flowVars>>

Places == {"cloud", "queue", "advanced", "update"}

TypeOK ==
  /\ open \in Places
  /\ CloudTypeOK /\ QueueTypeOK /\ AdvancedTypeOK /\ FlowTypeOK

(* What belongs to the pages that stay closed is any one initial state.    *)
Init ==
  /\ open \in Places
  /\ CloudInit /\ (open # "cloud" => edge.onboarding = "none" /\ ~edge.linked)
  /\ QueueInit /\ (open # "queue" => panel = "sync" /\ queue = Nothing)
  /\ AdvancedInit
  /\ FlowInit
  /\ open # "update" =>
       newest = 1 /\ stored = EmptyState /\ uses = CHOOSE u \in Uses : TRUE

Next ==
  \/ open = "cloud" /\ CloudNext /\ UNCHANGED <<open, qvars, avars, flowVars>>
  \/ open = "queue" /\ QueueNext /\ UNCHANGED <<open, cvars, avars, flowVars>>
  \/ open = "advanced" /\ AdvancedNext /\ UNCHANGED <<open, cvars, qvars, flowVars>>
  \/ open = "update" /\ FlowNext /\ UNCHANGED <<open, cvars, qvars, avars>>

OnQueue(A) == open = "queue" /\ A /\ UNCHANGED <<open, cvars, avars, flowVars>>
OfUpdater(A) ==
  /\ open = "update" /\ A
  /\ CutShort
  /\ UNCHANGED <<open, cvars, qvars, avars, pvars, conf, edits, typed, intent, uses>>

(* The interval of the open page fires, the edge answers, and the page     *)
(* looks at the answers; the timer of an update runs out, and a worker     *)
(* that was started goes on. Nothing makes anybody press a button or start *)
(* the edge by hand.                                                       *)
Spec ==
  /\ Init /\ [][Next]_vars
  /\ WF_vars(OnQueue(StartPoll))
  /\ WF_vars(OnQueue(QueueServes))
  /\ WF_vars(OnQueue(QueueHandles))
  /\ WF_vars(OfUpdater(Exit))
  /\ \A w \in Workers : WF_vars(OfUpdater(WorkerStep(w)))

(* PollRepairs, for the page that is open.                                 *)
OpenPageIsRepaired == open = "queue" => PollRepairs

=============================================================================
