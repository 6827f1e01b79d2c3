----------------------- MODULE RunLifecycleRefinement -----------------------
(* RunLifecycle implements SessionQueue: the turn of a session is its active *)
(* run, sealed once the run has published its response or its callback.      *)
EXTENDS RunLifecycle

StandingOf(m) ==
  CASE msgStatus[m] = "pending" -> "waiting"
    [] msgStatus[m] \in InFlight -> "working"
    [] OTHER -> msgStatus[m]

TurnOf(s) == UNION {runMessages[r] : r \in ActiveRuns(s)}

Sealed == {s \in Sessions : \E r \in ActiveRuns(s) : responded[r] \/ callbackQueued[r]}

Queue == INSTANCE SessionQueue WITH
  item   <- [m \in Messages |-> StandingOf(m)],
  turn   <- [s \in Sessions |-> TurnOf(s)],
  sealed <- Sealed

\* Whatever workers crash, stall, lose replies and take over, a session shows
\* one turn at a time, whose messages end together, and no turn whose answer is
\* out fails, is cancelled or runs again.
ImplementsSessionQueue == Queue!Spec
=============================================================================
