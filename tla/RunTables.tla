----------------------------- MODULE RunTables -----------------------------
(***************************************************************************)
(* The rows that the message queue and the runs of the control plane keep  *)
(* in Postgres (store/postgres.ts, db/migrations), the volatile state of   *)
(* the worker processes (worker/service.ts), and the conditions under      *)
(* which the store's guarded statements match a row.  RunLifecycle has the *)
(* actions.                                                                *)
(*                                                                         *)
(* A definition whose name ends in _Mutant is a plausible defect of the    *)
(* one that follows it; nothing uses it, except to see that a property     *)
(* notices the defect.                                                     *)
(***************************************************************************)
EXTENDS Naturals, FiniteSets

CONSTANTS
  Sessions,     \* session ids
  Messages,     \* message ids; a message is absent until it is created
  Runs,         \* run ids, the bound on the number of claims
  Workers,      \* lease owners; each process instance has its own (index.ts)
  NoRun,
  NoWorker,     \* lease_owner IS NULL
  NoSession,
  NoFollowUp,
  SessionOf,    \* SessionOf[m], the session a message is created in
  Seq,          \* Seq[m], the sequence allocated for m in its session
  FollowUpOf    \* FollowUpOf[m], the scheduled follow-up m is created by

FollowUps == {FollowUpOf[m] : m \in Messages} \ {NoFollowUp}

ASSUME ConstantsAssumption ==
  /\ SessionOf \in [Messages -> Sessions]
  /\ Seq \in [Messages -> Nat]
  /\ NoRun \notin Runs
  /\ NoWorker \notin Workers
  /\ NoSession \notin Sessions
  /\ \A m, n \in Messages :
       SessionOf[m] = SessionOf[n] /\ Seq[m] = Seq[n] => m = n
  /\ \A m, n \in Messages :
       FollowUpOf[m] = FollowUpOf[n] /\ FollowUpOf[m] # NoFollowUp
         => SessionOf[m] = SessionOf[n]

VARIABLES
  \* Table sessions.
  sessionStatus,    \* sessions.status
  queuePaused,      \* sessions.queue_paused_at IS NOT NULL
  liveFollowUps,    \* the scheduled_follow_ups whose status is 'active'
  \* Table messages.
  msgStatus,        \* messages.status, or "absent" before the INSERT
  msgSteering,      \* messages.steering
  \* Table runs.
  runStatus,        \* runs.status, or "absent" before the INSERT
  runSession,       \* runs.session_id
  runMessages,      \* runs.metadata.messageIds
  runOwner,         \* runs.lease_owner
  runLease,         \* runs.lease_expires_at against the processes' clocks
  \* What a run has published.
  responded,        \* an agent_response_final event exists for the run
  callbackQueued,   \* the completion callback of the run is in the outbox
  \* Worker processes (volatile).
  pc,               \* the next call of processNext
  job,              \* the run the worker is working on
  outcome,          \* how the runner ended: a result, nothing or an error
  steering,         \* steering messages claimed and not yet handed over
  handed            \* handed[r]: the messages the runner of r was given

sessionVars == <<sessionStatus, queuePaused, liveFollowUps>>
msgVars     == <<msgStatus, msgSteering>>
leaseVars   == <<runOwner, runLease>>
runVars     == <<runStatus, runSession, runMessages, runOwner, runLease>>
pubVars     == <<responded, callbackQueued>>
workerVars  == <<pc, job, outcome, steering, handed>>
dbVars      == <<sessionVars, msgVars, runVars, pubVars>>
vars == <<dbVars, workerVars>>

-----------------------------------------------------------------------------
(* Statuses.                                                               *)

SessionStatus == {"created", "queued", "active", "idle", "failed", "archived"}
MessageStatus == {"absent", "pending", "processing", "cancelling",
                  "completed", "failed", "cancelled"}
RunStatus == {"absent", "running", "completing", "cancelling",
              "completed", "failed", "cancelled", "stale"}

\* The statuses of the partial unique index runs_one_active_per_session_idx.
Active == {"running", "completing", "cancelling"}
InFlight == {"processing", "cancelling"}
Unfinished == {"pending"} \cup InFlight

\* A lease is "fresh" when every process's clock is before lease_expires_at,
\* "expired" when every clock is past it, and "disputed" in between: clocks
\* differ, and the `now` of a call is taken before it waits for its row lock.
LeaseState == {"fresh", "disputed", "expired"}
MaySeeLive(r) == runLease[r] # "expired"
MaySeeExpired(r) == runLease[r] # "fresh"

-----------------------------------------------------------------------------
(* The queue of a session.                                                 *)

Scheduled(m) == FollowUpOf[m] # NoFollowUp
Pending(s) == {m \in Messages : SessionOf[m] = s /\ msgStatus[m] = "pending"}
Before(m) == {n \in Pending(SessionOf[m]) : Seq[n] < Seq[m]}
ActiveRuns(s) == {r \in Runs : runSession[r] = s /\ runStatus[r] \in Active}

\* What a claim takes: the scheduled message that is first in the queue, alone,
\* or every message before the first scheduled one.
Batch_Mutant(s) ==
  {m \in Pending(s) : Scheduled(m) => Pending(s) = {m}}
Batch(s) ==
  {m \in Pending(s) : IF Scheduled(m) THEN Before(m) = {}
                                      ELSE \A n \in Before(m) : ~Scheduled(n)}

\* The runs that keep a session from being claimed.
Blocking_Mutant(s) == {r \in ActiveRuns(s) : runStatus[r] # "completing"}
Blocking(s) == ActiveRuns(s)

Claimable_Mutant(s) ==
  /\ ~queuePaused[s]
  /\ Blocking(s) = {}
  /\ Batch(s) # {}
Claimable(s) ==
  /\ sessionStatus[s] # "archived"
  /\ ~queuePaused[s]
  /\ Blocking(s) = {}
  /\ Batch(s) # {}

\* The follow-up f has no unfinished message.
Idle_Mutant(f) ==
  \A m \in Messages : FollowUpOf[m] = f => msgStatus[m] \notin {"pending", "processing"}
Idle(f) == \A m \in Messages : FollowUpOf[m] = f => msgStatus[m] \notin Unfinished

\* The failed messages that are retried in place.
Retryable(m) == msgStatus[m] = "failed" /\ Scheduled(m) /\ Idle(FollowUpOf[m])

\* sessions.status after the messages of s changed to those of the next state.
StatusOnSettle_Mutant(s) ==
  IF sessionStatus[s] # "archived" /\ \E m \in Messages : SessionOf[m] = s /\ msgStatus'[m] = "pending"
  THEN "queued" ELSE sessionStatus[s]
StatusOnSettle(s) ==
  CASE sessionStatus[s] = "archived" -> "archived"
    [] \E m \in Messages : SessionOf[m] = s /\ msgStatus'[m] = "pending" -> "queued"
    [] OTHER -> "idle"

-----------------------------------------------------------------------------
(* The rows the guarded statements on runs match.                           *)

\* WHERE lease_owner = w AND lease_expires_at > now: the row matches, and the
\* row does not match.
Holds_Mutant(w, r) == MaySeeLive(r)
Holds(w, r) == runOwner[r] = w /\ MaySeeLive(r)
Lost(w, r)  == runOwner[r] # w \/ MaySeeExpired(r)

\* Stale recovery requeues; a completion that lost its worker changes hands.
Recoverable_Mutant(r) == runStatus[r] \in Active
Recoverable(r) == runStatus[r] \in {"running", "cancelling"}

TakeableBy_Mutant(w, r) ==
  runStatus[r] = "completing" /\ MaySeeExpired(r) /\ runOwner[r] = w
TakeableBy(w, r) == runStatus[r] = "completing" /\ MaySeeExpired(r)

\* The messages of a stale run that go back to the queue, and as what.
RequeuedFrom_Mutant == {"processing"}
RequeuedFrom == InFlight
RequeuedAs == "pending"

\* A run that takes in steering messages, and one whose steering is done.
Steerable(w, r) == runStatus[r] = "running" /\ Holds(w, r)
SteeringDone_Mutant(w) == TRUE
SteeringDone(w) == steering[w] = {}

\* The statuses a run may leave for each final status.
FinishesFrom(status) ==
  CASE status = "cancelled" -> {"cancelling"}
    [] status = "completed" -> {"completing"}
    [] status = "failed"    -> {"running", "completing"}
CanFinish(w, r, status) == runStatus[r] \in FinishesFrom(status) /\ Holds(w, r)
CannotFinish(w, r, status) == runStatus[r] \notin FinishesFrom(status) \/ Lost(w, r)
=============================================================================
