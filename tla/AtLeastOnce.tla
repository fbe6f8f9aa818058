---------------------------- MODULE AtLeastOnce ----------------------------
(***************************************************************************)
(* What every store-and-forward queue of the edge promises its producer,   *)
(* whatever its table, statuses, retries and retention look like: a record *)
(* that was taken over is delivered, perhaps several times and perhaps     *)
(* after its record is gone, and the queue forgets it undelivered only for *)
(* one of the reasons the queue admits to.                                 *)
(***************************************************************************)
CONSTANT Events

VARIABLES
  accepted,   \* taken over from the producer
  delivered,  \* the receiver has it
  excused,    \* may be forgotten undelivered
  forgotten   \* no record of it is left

ledger == <<accepted, delivered, excused, forgotten>>

Init == accepted = {} /\ delivered = {} /\ excused = {} /\ forgotten = {}

Accept(e) ==
  /\ e \in Events \ accepted
  /\ accepted' = accepted \cup {e}

(* Only what was taken over is delivered: nothing is made up. *)
Deliver == delivered' \in SUBSET accepted /\ delivered \subseteq delivered'

Excuse == excused' \in SUBSET accepted /\ excused \subseteq excused'

(* A record that is gone never comes back. *)
Forget ==
  /\ forgotten \subseteq forgotten'
  /\ forgotten' \subseteq delivered' \cup excused'

Next ==
  /\ UNCHANGED accepted \/ \E e \in Events : Accept(e)
  /\ Deliver /\ Excuse /\ Forget

Spec == Init /\ [][Next]_ledger
============================================================================
