----------------------------- MODULE MCEventStream -----------------------------
(* Small instances of EventStream for TLC. *)
EXTENDS EventStream

\* A constraint of MCStreamLocal.cfg and MCStreamGlobal.cfg: they look for events that are
\* lost without the live emitter going ahead.
Uncrossed == ~crossed
=============================================================================
