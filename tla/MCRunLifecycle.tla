--------------------------- MODULE MCRunLifecycle ---------------------------
(* Instances of RunLifecycle for TLC. *)
EXTENDS RunLifecycleRefinement, TLC

CONSTANTS s1, s2, m1, m2, m3, f1

\* One session, whose messages were allocated the sequences 1, 2 and 3.
OneSession == [m \in Messages |-> s1]
InSequence == [m \in Messages |-> IF m = m1 THEN 1 ELSE IF m = m2 THEN 2 ELSE 3]
\* Two sessions with a message each.
TwoSessions == [m \in Messages |-> IF m = m1 THEN s1 ELSE s2]

NothingScheduled == [m \in Messages |-> NoFollowUp]
\* m1 and m3 are two occurrences of one follow-up, m2 comes between them.
TwoOccurrences == [m \in Messages |-> IF m = m2 THEN NoFollowUp ELSE f1]

Symmetry == Permutations(Workers) \cup Permutations(Runs)

\* Bounds: the session is never archived, and its queue never paused.
NeverArchived == \A s \in Sessions : sessionStatus'[s] # "archived"
NeverPaused == queuePaused' = queuePaused
NoSteering == msgSteering' = msgSteering
=============================================================================
