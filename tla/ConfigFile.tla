----------------------------- MODULE ConfigFile -----------------------------
(***************************************************************************)
(* The configuration file of the edge, config.Manager of internal/config:  *)
(* Save reads the file, replaces the fields it was given and writes the    *)
(* whole file. Nothing keeps two saves apart, and a file being written is  *)
(* empty for a moment: who reads it then finds every field at its default. *)
(***************************************************************************)
EXTENDS Requests

(* The saves between their read and their write: the file that the save of *)
(* the page will write, the one another administrator's will, and whether  *)
(* the page's has been overtaken, since what it read is not the file.      *)
NoSaves == [ours |-> None, theirs |-> None, crossed |-> FALSE]

SavesOf(Contents) ==
  [ours : Contents \cup {None}, theirs : Contents \cup {None}, crossed : BOOLEAN]

(* applyUpdate: the fields of a part replace those of the file.            *)
Merged(cfg, part) ==
  [f \in DOMAIN cfg |-> IF f \in DOMAIN part THEN part[f] ELSE cfg[f]]

(* What readFile finds while the save "other" may be writing.              *)
Readable(cfg, other, defaults) == {cfg} \cup (IF other = None THEN {} ELSE {defaults})

OursRead(saves, seen, cfg, part) ==
  [saves EXCEPT !.ours = Merged(seen, part), !.crossed = (seen # cfg)]

OursDone(saves) == [saves EXCEPT !.ours = None, !.crossed = FALSE]

TheirsRead(saves, seen, part) == [saves EXCEPT !.theirs = Merged(seen, part)]

TheirsDone(saves) ==
  [saves EXCEPT !.theirs = None, !.crossed = (@ \/ saves.ours # None)]

=============================================================================
