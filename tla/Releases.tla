------------------------------ MODULE Releases ------------------------------
(* What the updater and its page both speak of.                            *)
EXTENDS Requests

CONSTANT Versions    \* releases, numbered in the order of their publication

=============================================================================
