--------------------------- MODULE MCCallbackOutbox ---------------------------
(* Small instances of CallbackOutbox for TLC. *)
EXTENDS CallbackOutbox, TLC

CONSTANTS d1, d2, w1, w2

OutboxSymmetry == Permutations({d1, d2}) \cup Permutations({w1, w2})
=============================================================================
