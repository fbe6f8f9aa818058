---------------------------- MODULE MCCommandLog ----------------------------
EXTENDS CommandLog

(* Workflows of three steps.                                               *)
Workflow(parallel, width, key, needs, optional, attempts) ==
  [parallel |-> parallel, width |-> width, key |-> key, needs |-> needs,
   optional |-> optional, attempts |-> attempts]

abc == <<"a", "b", "c">>
Fan == <<{}, {"a"}, {"a"}>>
Chain == <<{}, {"a"}, {"b"}>>
Forward == <<{"c"}, {}, {"b"}>>
Knot == <<{}, {"c"}, {"b"}>>
Unknown == <<{}, {"z"}, {}>>

Workflows ==
  { Workflow(p, 1, abc, Chain, {1, 2}, 2) : p \in BOOLEAN }
  \cup { Workflow(p, 1, abc, Forward, {}, 1) : p \in BOOLEAN }
  \cup { Workflow(FALSE, 1, abc, n, {}, 1) : n \in {Chain, Unknown} }
  \cup { Workflow(TRUE, 2, abc, n, o, 1) : n \in {Fan, Knot}, o \in {{}, {1}} }
  \cup { Workflow(TRUE, 1, abc, Fan, {}, 1) }
  \cup { Workflow(p, IF p THEN 2 ELSE 1, <<"a", "a", "c">>, <<{}, {}, {"a"}>>, {1}, 1) : p \in BOOLEAN }

=============================================================================
