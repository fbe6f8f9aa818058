---------------------------- MODULE AdvancedPage ----------------------------
(***************************************************************************)
(* The page of advanced settings, pages/AdvancedSettings.tsx: a form over  *)
(* the edge configuration, of which only what differs from the loaded      *)
(* configuration is saved. Another administrator edits the same file.      *)
(***************************************************************************)
EXTENDS ConfigFile

CONSTANTS Plain,    \* fields that the form shows
          Secret,   \* fields that the form leaves blank
          Cleared,  \* the secrets emptied as soon as they are saved
          Required, \* the plain fields without a default on the page
          Values,
          MaxTouched, \* bound on the fields changed between two loads
          MaxSaves, \* bound on the buttons pressed
          MaxForeign \* bound on the other administrator's saves and on failures

(* "" of a form is no value of the configuration; the secrets are fields   *)
(* of their own, and so are those that a save empties.                     *)
ASSUME AdvancedAssumption ==
  /\ Plain \cap Secret = {} /\ Required \subseteq Plain /\ Cleared \subseteq Secret
  /\ None \notin Values

VARIABLES
  file,      \* the configuration of the edge
  under,     \* the saves of it under way
  loaded,    \* the one last loaded, None before
  fields,    \* the form
  fetching, saving,
  anet,      \* requests of the page
  touched,   \* the fields the user changed since the form was last filled
  intended,  \* those of them when the last save was pressed
  saves, foreign

avars == <<file, under, loaded, fields, fetching, saving, anet, touched, intended, saves, foreign>>

All == Plain \cup Secret
Files == [All -> Values]
Preset == CHOOSE v \in Values : TRUE
Defaults == [f \in All |-> Preset]

AdvancedTypeOK ==
  /\ file \in Files /\ under \in SavesOf(Files) /\ loaded \in Files \cup {None}
  /\ fields \in [All -> Values \cup {None}]
  /\ fetching \in BOOLEAN /\ saving \in BOOLEAN /\ touched \subseteq All /\ intended \subseteq All
  /\ \A r \in anet : r.what \in {"config", "save"}

(* Filling the form: what the page shows, and blank secrets.               *)
Filled(cfg) == [f \in All |-> IF f \in Secret THEN None ELSE cfg[f]]

AdvancedInit ==
  /\ \E v \in Values \ {Preset} : file = [f \in All |-> v]
  /\ under = NoSaves /\ loaded = None
  /\ fields = [f \in All |-> IF f \in Plain \ Required THEN Preset ELSE None]
  /\ fetching = TRUE /\ saving = FALSE
  /\ anet = {Ask("mount", "config", None)}
  /\ touched = {} /\ intended = {} /\ saves = 0 /\ foreign = 0

-----------------------------------------------------------------------------
(* While the configuration is fetched the form gives way to a notice.      *)

Type ==
  /\ ~fetching
  /\ \E f \in All, v \in Values \cup {None} :
       /\ v # fields[f] /\ (v = None => f \in Secret)
       /\ Cardinality(touched \cup {f}) <= MaxTouched
       /\ fields' = [fields EXCEPT ![f] = v]
       /\ touched' = touched \cup {f}
  /\ UNCHANGED <<file, under, loaded, fetching, saving, anet, intended, saves, foreign>>

Reload ==
  /\ ~fetching /\ saves < MaxSaves
  /\ fetching' = TRUE /\ saves' = saves + 1
  /\ anet' = anet \cup {Ask("reload", "config", None)}
  /\ UNCHANGED <<file, under, loaded, fields, saving, touched, intended, foreign>>
\* mutant: every field that is shown is sent
MutUpdates == Plain \cup {f \in Secret : fields[f] # None}

(* A plain field is sent when it differs from the one loaded, as every one *)
(* does when none was; a secret when it is not blank.                      *)
Updates ==
  {f \in Plain : loaded = None \/ fields[f] # loaded[f]} \cup {f \in Secret : fields[f] # None}

Save ==
  /\ ~fetching /\ ~saving /\ saves < MaxSaves
  /\ \A f \in Required : fields[f] # None
  /\ Updates # {}
  /\ saving' = TRUE /\ saves' = saves + 1
  /\ anet' = anet \cup {Ask("save", "save", [f \in Updates |-> fields[f]])}
  /\ intended' = IF loaded = None THEN All ELSE touched
  /\ UNCHANGED <<file, under, loaded, fields, fetching, touched, foreign>>

-----------------------------------------------------------------------------

(* The handlers of the edge: the configuration is read for the page; a     *)
(* save reads the file and then writes it.                                 *)
ServeConfig(r) ==
  /\ r.what = "config" /\ r.state = "sent"
  /\ \E seen \in Readable(file, under.ours, Defaults) \cup
                  Readable(file, under.theirs, Defaults) :
       anet' = Answer(anet, r, seen)
  /\ UNCHANGED <<file, under, loaded, fields, fetching, saving, touched, intended, saves, foreign>>

SaveReads(r) ==
  /\ r.what = "save" /\ r.state = "sent" /\ under.ours = None
  /\ \E seen \in Readable(file, under.theirs, Defaults) :
       under' = OursRead(under, seen, file, r.arg)
  /\ UNCHANGED <<file, loaded, fields, fetching, saving, anet, touched, intended, saves, foreign>>

SaveWrites(r) ==
  /\ r.what = "save" /\ r.state = "sent" /\ under.ours # None
  /\ file' = under.ours /\ under' = OursDone(under)
  /\ anet' = Answer(anet, r, None)
  /\ UNCHANGED <<loaded, fields, fetching, saving, touched, intended, saves, foreign>>

AdvancedFail(r) ==
  /\ r.state = "sent" /\ foreign < MaxForeign /\ foreign' = foreign + 1
  /\ anet' = Fail(anet, r)
  /\ under' = IF r.what = "save" THEN OursDone(under) ELSE under
  /\ UNCHANGED <<file, loaded, fields, fetching, saving, touched, intended, saves>>

ForeignReads ==
  /\ under.theirs = None /\ foreign < MaxForeign /\ foreign' = foreign + 1
  /\ \E seen \in Readable(file, under.ours, Defaults), f \in All, v \in Values :
       v # seen[f] /\ under' = TheirsRead(under, seen, [g \in {f} |-> v])
  /\ UNCHANGED <<file, loaded, fields, fetching, saving, anet, touched, intended, saves>>

ForeignWrites ==
  /\ under.theirs # None
  /\ file' = under.theirs /\ under' = TheirsDone(under)
  /\ UNCHANGED <<loaded, fields, fetching, saving, anet, touched, intended, saves, foreign>>

-----------------------------------------------------------------------------

(* The configuration has come, or not; a save that waited for it is over.  *)
ConfigAnswered(r) ==
  /\ r.what = "config" /\ r.state # "sent"
  /\ fetching' = FALSE
  /\ saving' = IF r.of = "save" THEN FALSE ELSE saving
  /\ anet' = anet \ {r}
  /\ IF r.state = "failed"
     THEN UNCHANGED <<loaded, fields, touched>>
     ELSE loaded' = r.answer /\ fields' = Filled(r.answer) /\ touched' = {}
  /\ UNCHANGED <<file, under, intended, saves, foreign>>

(* After a save one secret is emptied and the configuration loaded again.  *)
SaveDone(r) ==
  /\ r.what = "save" /\ r.state = "served"
  /\ fetching' = TRUE
  /\ anet' = (anet \ {r}) \cup {Ask("save", "config", None)}
  /\ fields' = [f \in All |-> IF f \in Cleared THEN None ELSE fields[f]]
  /\ UNCHANGED <<file, under, loaded, saving, touched, intended, saves, foreign>>

SaveFailed(r) ==
  /\ r.what = "save" /\ r.state = "failed"
  /\ saving' = FALSE /\ anet' = anet \ {r}
  /\ UNCHANGED <<file, under, loaded, fields, fetching, touched, intended, saves, foreign>>

AdvancedNext ==
  \/ Type
  \/ Reload
  \/ Save
  \/ ForeignReads
  \/ ForeignWrites
  \/ \E r \in anet :
       \/ ServeConfig(r)
       \/ SaveReads(r)
       \/ SaveWrites(r)
       \/ AdvancedFail(r)
       \/ ConfigAnswered(r)
       \/ SaveDone(r)
       \/ SaveFailed(r)

-----------------------------------------------------------------------------
(* A save changes no setting the user did not change since the form was    *)
(* last filled: what another administrator saved stays, once the page has  *)
(* loaded a configuration to compare with (the differences of handleSave,  *)
(* against a configuration that loadConfig replaces with the form). Only a *)
(* save that another one overtakes between its read and its write puts     *)
(* back what that one saved (Manager.Save).                                *)
OthersSettingsKept ==
  [][under'.theirs = under.theirs /\ ~under.crossed =>
       \A f \in All : file'[f] # file[f] => f \in intended]_avars

=============================================================================
