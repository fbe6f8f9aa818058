------------------------ MODULE MCInstanceLifecycle ------------------------
(* Small instances of InstanceLifecycle. *)
EXTENDS InstanceLifecycle, TLC

CONSTANTS a, b, c

(* Three instances: b depends on a, c on both. *)
Three   == {a, b, c}
Diamond == a :> {} @@ b :> {a} @@ c :> {a, b}

(* One instance that depends on nothing. *)
One   == {a}
Alone == a :> {}

(* Goroutines are interchangeable; safety only. *)
RunsSymmetry == Permutations(Runs)
============================================================================
