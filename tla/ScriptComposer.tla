--------------------------- MODULE ScriptComposer ---------------------------
(***************************************************************************)
(* pages/ScriptComposerPage.tsx: a script is installed from an archive or  *)
(* from files written in an editor that starts with a sample, or the files *)
(* of an installed script are loaded into that editor and replaced as a    *)
(* whole. The editor is usable while the files are on their way.           *)
(***************************************************************************)
EXTENDS Requests

CONSTANTS MaxEdits,   \* bound on the changes in the editor
          MaxSends,   \* bound on the archives sent and on the installations
          MaxSlips    \* bound on the requests that fail

VARIABLES
  replacing,       \* the page was opened for an installed script
  bundle, entry,   \* its files and its main file, on the edge
  found, given,    \* the script has come; its files have, as they are by now
  draft, main, pick,   \* the editor: its files, its main file, the file shown
  meddled,         \* the files changed or removed since they were filled in
  asked,           \* those that the last installation was meant to change
  mode, step, unpacked, held,   \* the archive: what it holds, the edge has it
  timers, uploading, generating,
  mnet, edits, sends, slips

mvars == <<replacing, bundle, entry, found, given, draft, main, pick, meddled, asked, mode,
           step, unpacked, held, timers, uploading, generating, mnet, edits, sends, slips>>

(* "model" is a file the editor does not take: binary, or too large.       *)
Paths == {"main", "helper", "readme", "requirements", "model"}
Editable == Paths \ {"model"}
Python == {"main", "helper"}

(* defaultDraftFiles, and the script that is installed: as the editor      *)
(* would have written it, or from an archive with a file that is not UTF-8 *)
(* and requirements that name sparkit in a way of their own.               *)
Sample == [p \in {"main", "readme", "requirements"} |-> "sample"]
Installed == [p \in Paths |-> "installed"]
Archived == [Installed EXCEPT !.helper = "latin", !.requirements = "bare"]

(* Files, isEditableScriptContent and the JSON of their answer: what is    *)
(* not UTF-8 comes with U+FFFD in its place.                               *)
Decoded(text) == IF text = "latin" THEN "mangled" ELSE text

(* ensureSparkitRequirement.                                               *)
Required(p, text) == IF p = "requirements" /\ text = "bare" THEN "completed" ELSE text

(* The files with the text of one of them, which may be new.               *)
Written(files, p, text) ==
  [q \in DOMAIN files \cup {p} |-> IF q = p THEN text ELSE files[q]]

IsFiles(files) == DOMAIN files \subseteq Paths

ComposerTypeOK ==
  /\ IsFiles(bundle) /\ IsFiles(draft) /\ DOMAIN draft # {}
  /\ entry \in Python /\ main \in Python /\ pick \in DOMAIN draft
  /\ meddled \subseteq Paths /\ asked \subseteq Paths
  /\ mode \in {"zip", "editor"} /\ step \in 1..2
  /\ timers \subseteq {"step", "leave"}
  /\ {replacing, found, given, held, uploading, generating} \subseteq BOOLEAN

ComposerInit ==
  /\ replacing \in BOOLEAN
  /\ bundle \in (IF replacing THEN {Installed, Archived} ELSE {Installed})
  /\ entry \in (IF replacing THEN Python ELSE {"main"})
  /\ found = FALSE /\ given = FALSE
  /\ draft = Sample /\ main = "main" /\ pick = "main" /\ meddled = {} /\ asked = {}
  /\ mode = (IF replacing THEN "editor" ELSE "zip")
  /\ step = 1 /\ unpacked = {} /\ held = FALSE
  /\ timers = {} /\ uploading = FALSE /\ generating = FALSE
  /\ mnet = IF replacing THEN {Ask(0, "script", None)} ELSE {}
  /\ edits = 0 /\ sends = 0 /\ slips = 0

-----------------------------------------------------------------------------
(* The editor.                                                             *)

Editing == mode = "editor"

TypeText ==
  /\ draft' = [draft EXCEPT ![pick] = "typed"] /\ meddled' = meddled \cup {pick}
  /\ UNCHANGED <<main, pick>>

AddFile ==
  /\ \E p \in Editable \ DOMAIN draft :
       draft' = Written(draft, p, "typed") /\ meddled' = meddled \cup {p} /\ pick' = p
  /\ UNCHANGED main
\* mutant: the removed file stays selected
MutRemoveFile ==
  /\ \E p \in DOMAIN draft \ {main} :
       /\ draft' = [q \in DOMAIN draft \ {p} |-> draft[q]]
       /\ meddled' = meddled \cup {p}
  /\ UNCHANGED <<main, pick>>

RemoveFile ==
  /\ \E p \in DOMAIN draft \ {main} :
       /\ draft' = [q \in DOMAIN draft \ {p} |-> draft[q]]
       /\ meddled' = meddled \cup {p}
       /\ IF pick = p THEN pick' \in DOMAIN draft' ELSE pick' = pick
  /\ UNCHANGED main

ChooseFile ==
  /\ \/ pick' \in DOMAIN draft \ {pick} /\ main' = main
     \/ main' \in (DOMAIN draft \cap Python) \ {main} /\ pick' = pick
  /\ UNCHANGED <<draft, meddled>>

Compose ==
  /\ Editing /\ edits < MaxEdits /\ edits' = edits + 1
  /\ TypeText \/ AddFile \/ RemoveFile \/ ChooseFile
  /\ UNCHANGED <<replacing, bundle, entry, found, given, asked, mode, step, unpacked, held,
                 timers, uploading, generating, mnet, sends, slips>>

(* The tabs are there only for a new script.                               *)
SwitchMode ==
  /\ ~replacing /\ edits < MaxEdits /\ edits' = edits + 1
  /\ mode' = IF Editing THEN "zip" ELSE "editor"
  /\ UNCHANGED <<replacing, bundle, entry, found, given, draft, main, pick, meddled, asked, step,
                 unpacked, held, timers, uploading, generating, mnet, sends, slips>>

PressReadme ==
  /\ Editing /\ ~generating /\ generating' = TRUE
  /\ edits < MaxEdits /\ edits' = edits + 1
  /\ mnet' = mnet \cup {Ask(edits + 1, "readme", None)}
  /\ UNCHANGED <<replacing, bundle, entry, found, given, draft, main, pick, meddled, asked, mode,
                 step, unpacked, held, timers, uploading, sends, slips>>

-----------------------------------------------------------------------------
(* Sending: an archive, ...                                                *)

Sends(what, arg) ==
  /\ ~uploading /\ uploading' = TRUE
  /\ sends < MaxSends /\ sends' = sends + 1
  /\ mnet' = mnet \cup {Ask(sends + 1, what, arg)}
  /\ UNCHANGED <<replacing, bundle, entry, found, given, draft, main, pick, meddled, mode,
                 step, unpacked, held, timers, generating, edits, slips>>

Inspect ==
  /\ mode = "zip" /\ step = 1
  /\ \E files \in SUBSET Python : Sends("inspect", files)
  /\ UNCHANGED asked

(* ... its installation, ...                                               *)
Finalize ==
  /\ mode = "zip" /\ step = 2 /\ Sends("install", None) /\ UNCHANGED asked
\* mutant: only the Python files are sent
MutDraftFinalize ==
  /\ Editing /\ DOMAIN draft \cap Python # {}
  /\ Sends(IF found THEN "replace" ELSE "create",
           [files |-> [p \in DOMAIN draft \cap Python |-> draft[p]], main |-> main])
  /\ asked' = IF given THEN meddled ELSE Paths

(* ... or that of the files in the editor: without the script they are     *)
(* those of a new one.                                                     *)
DraftFinalize ==
  /\ Editing /\ DOMAIN draft \cap Python # {}
  /\ Sends(IF found THEN "replace" ELSE "create", [files |-> draft, main |-> main])
  /\ asked' = IF given THEN meddled ELSE Paths

BackToArchive ==
  /\ mode = "zip" /\ step = 2 /\ step' = 1
  /\ UNCHANGED <<replacing, bundle, entry, found, given, draft, main, pick, meddled, asked, mode,
                 unpacked, held, timers, uploading, generating, mnet, edits, sends, slips>>

(* 600 ms after an archive was unpacked; 700 ms after an installation the  *)
(* page is left, with everything it waits for.                             *)
StepTimer ==
  /\ "step" \in timers /\ timers' = timers \ {"step"} /\ step' = 2
  /\ UNCHANGED <<replacing, bundle, entry, found, given, draft, main, pick, meddled, asked, mode,
                 unpacked, held, uploading, generating, mnet, edits, sends, slips>>

LeaveTimer ==
  /\ "leave" \in timers /\ timers' = {}
  /\ mnet' = {r \in mnet : r.what \in {"replace", "create", "install"} /\ r.state = "sent"}
  /\ edits' = MaxEdits /\ sends' = MaxSends
  /\ UNCHANGED <<replacing, bundle, entry, found, given, draft, main, pick, meddled, asked, mode,
                 step, unpacked, held, uploading, generating, slips>>

-----------------------------------------------------------------------------
(* The edge.                                                               *)

(* writeDraftToTemp: a draft has its main file, and gets a README and      *)
(* requirements if it has none.                                            *)
Accepted(arg) == arg.main \in DOMAIN arg.files
Drafted(files) ==
  [p \in DOMAIN files \cup {"readme", "requirements"} |->
     IF p \in DOMAIN files THEN Required(p, files[p]) ELSE "default"]

(* What was unpacked is consumed by its installation, failed or not.       *)
ComposerServed(r) ==
  /\ r.state = "sent"
  /\ \/ /\ r.what \in {"script", "readme"} /\ mnet' = Answer(mnet, r, entry)
        /\ UNCHANGED <<bundle, entry, held>>
     \/ /\ r.what = "files"
        /\ mnet' = Answer(mnet, r, [p \in DOMAIN bundle \cap Editable |-> Decoded(bundle[p])])
        /\ UNCHANGED <<bundle, entry, held>>
     \/ /\ r.what = "inspect" /\ r.arg # {}
        /\ mnet' = Answer(mnet, r, r.arg) /\ held' = TRUE /\ UNCHANGED <<bundle, entry>>
     \/ /\ r.what = "install" /\ held
        /\ mnet' = Answer(mnet, r, None) /\ held' = FALSE /\ UNCHANGED <<bundle, entry>>
     \/ /\ r.what = "create" /\ Accepted(r.arg)
        /\ mnet' = Answer(mnet, r, None) /\ UNCHANGED <<bundle, entry, held>>
     \/ /\ r.what = "replace" /\ Accepted(r.arg)
        /\ bundle' = Drafted(r.arg.files) /\ entry' = r.arg.main
        /\ mnet' = Answer(Outdated(mnet, {}), r, None) /\ held' = held
  /\ UNCHANGED <<replacing, found, given, draft, main, pick, meddled, asked, mode, step,
                 unpacked, timers, uploading, generating, edits, sends, slips>>

(* What the edge refuses, and anything else that goes wrong.               *)
Refused(r) ==
  \/ r.what = "inspect" /\ r.arg = {}
  \/ r.what = "install" /\ ~held
  \/ r.what \in {"create", "replace"} /\ ~Accepted(r.arg)

ComposerFails(r) ==
  /\ r.state = "sent"
  /\ IF Refused(r) THEN slips' = slips ELSE slips < MaxSlips /\ slips' = slips + 1
  /\ mnet' = Fail(mnet, r)
  /\ held' = (held /\ r.what # "install")
  /\ UNCHANGED <<replacing, bundle, entry, found, given, draft, main, pick, meddled, asked, mode,
                 step, unpacked, timers, uploading, generating, edits, sends>>

(* replaceUpload after its Update of the row: recordHistory fails, the     *)
(* files of before are put back, and the row names the new main file.      *)
HistoryFails(r) ==
  /\ r.what = "replace" /\ r.state = "sent" /\ Accepted(r.arg)
  /\ slips < MaxSlips /\ slips' = slips + 1
  /\ entry' = r.arg.main /\ mnet' = Fail(mnet, r)
  /\ UNCHANGED <<replacing, bundle, found, given, draft, main, pick, meddled, asked, mode,
                 step, unpacked, held, timers, uploading, generating, edits, sends>>

-----------------------------------------------------------------------------
(* The answers.                                                            *)

ScriptCame(r) ==
  /\ r.what = "script" /\ r.state = "served"
  /\ found' = TRUE /\ mode' = "editor" /\ main' = r.answer
  /\ mnet' = (mnet \ {r}) \cup {Ask(0, "files", r.answer)}
  /\ UNCHANGED <<replacing, bundle, entry, given, draft, pick, meddled, asked, step,
                 unpacked, held, timers, uploading, generating, edits, sends, slips>>

(* What was written meanwhile is gone.                                     *)
FilesCame(r) ==
  /\ r.what = "files" /\ r.state = "served"
  /\ given' = (~r.stale /\ \A q \in mnet : q.what # "replace") /\ draft' = r.answer /\ meddled' = {}
  /\ IF r.arg \in DOMAIN r.answer THEN pick' = r.arg ELSE pick' \in DOMAIN r.answer
  /\ mnet' = mnet \ {r}
  /\ UNCHANGED <<replacing, bundle, entry, found, main, asked, mode, step,
                 unpacked, held, timers, uploading, generating, edits, sends, slips>>

LoadEnds(r) ==
  /\ r.what \in {"script", "files"} /\ r.state = "failed"
  /\ mnet' = mnet \ {r}
  /\ UNCHANGED <<replacing, bundle, entry, found, given, draft, main, pick, meddled, asked, mode,
                 step, unpacked, held, timers, uploading, generating, edits, sends, slips>>

(* The README, whatever was written into it or removed since.              *)
ReadmeCame(r) ==
  /\ r.what = "readme" /\ r.state # "sent"
  /\ generating' = FALSE /\ mnet' = mnet \ {r}
  /\ IF r.state = "served"
     THEN /\ draft' = Written(draft, "readme", "generated")
          /\ pick' = "readme" /\ meddled' = meddled \cup {"readme"}
     ELSE UNCHANGED <<draft, pick, meddled>>
  /\ UNCHANGED <<replacing, bundle, entry, found, given, main, asked, mode, step,
                 unpacked, held, timers, uploading, edits, sends, slips>>

Inspected(r) ==
  /\ r.what = "inspect" /\ r.state = "served"
  /\ unpacked' = r.answer /\ timers' = timers \cup {"step"} /\ uploading' = FALSE
  /\ main' = IF "main" \in r.answer THEN "main" ELSE "helper"
  /\ mnet' = mnet \ {r}
  /\ UNCHANGED <<replacing, bundle, entry, found, given, draft, pick, meddled, asked, mode,
                 step, held, generating, edits, sends, slips>>

InstallCame(r) ==
  /\ r.what \in {"install", "create", "replace"} /\ r.state = "served"
  /\ timers' = timers \cup {"leave"} /\ uploading' = FALSE /\ mnet' = mnet \ {r}
  /\ UNCHANGED <<replacing, bundle, entry, found, given, draft, main, pick, meddled, asked, mode,
                 step, unpacked, held, generating, edits, sends, slips>>

SendFailed(r) ==
  /\ r.what \in {"inspect", "install", "create", "replace"} /\ r.state = "failed"
  /\ uploading' = FALSE /\ mnet' = mnet \ {r}
  /\ UNCHANGED <<replacing, bundle, entry, found, given, draft, main, pick, meddled, asked, mode,
                 step, unpacked, held, timers, generating, edits, sends, slips>>

ComposerNext ==
  \/ Compose
  \/ SwitchMode
  \/ PressReadme
  \/ Inspect
  \/ Finalize
  \/ DraftFinalize
  \/ BackToArchive
  \/ StepTimer
  \/ LeaveTimer
  \/ \E r \in mnet :
       \/ ComposerServed(r)
       \/ ComposerFails(r)
       \/ HistoryFails(r)
       \/ ScriptCame(r)
       \/ FilesCame(r)
       \/ LoadEnds(r)
       \/ ReadmeCame(r)
       \/ Inspected(r)
       \/ InstallCame(r)
       \/ SendFailed(r)

-----------------------------------------------------------------------------
(* A replacement of an installed script keeps each file that was in the    *)
(* editor and that the user neither changed nor removed there, but for two *)
(* things: what is not UTF-8 is damaged by its way through the editor, and *)
(* requirements may get a line. This is not so of a replacement sent while *)
(* the editor held the sample, before the files had come, or the files of  *)
(* before such a replacement (loadExistingScript, handleDraftFinalize and  *)
(* handleGenerateReadme; Files, writeDraftToTemp and replaceUpload).       *)
NothingLost ==
  [][bundle' # bundle => \A p \in (DOMAIN bundle \cap Editable) \ asked :
       p \in DOMAIN bundle' /\ bundle'[p] = Required(p, Decoded(bundle[p]))]_mvars

=============================================================================
