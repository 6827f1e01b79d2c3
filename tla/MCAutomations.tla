----------------------------- MODULE MCAutomations -----------------------------
(* A small instance of Automations for TLC. *)
EXTENDS Automations

\* Requests, edits and faults of one behaviour: two of them, of any kind.
TwoMishaps == calls' + edits' + faults' <= 2
=============================================================================
