---------------------------- MODULE RunLifecycle ----------------------------
(***************************************************************************)
(* The message queue of a session and the runs that process it, as the     *)
(* control plane keeps them in Postgres: enqueueing and cancelling         *)
(* messages, claiming a batch under a leased run, steering an active run,  *)
(* two-phase cancellation, the durable completion phase and its takeover,  *)
(* stale-lease recovery, archiving, queue pause, and worker processes that *)
(* may crash or lose a reply between any two of their database calls.      *)
(*                                                                         *)
(* One action is one transaction (or one read) of store/postgres.ts; a     *)
(* worker's calls in worker/service.ts are separate actions joined by pc,  *)
(* so every other process may act between a check and the write that      *)
(* follows it.                                                             *)
(*                                                                         *)
(* Not covered: prompts, contexts and event payloads; transcript-only      *)
(* messages, which never enter the queue; progress notifiers; and the      *)
(* statement-level interleaving inside one transaction.                    *)
(***************************************************************************)
EXTENDS RunTables

Init ==
  /\ sessionStatus = [s \in Sessions |-> "created"]
  /\ queuePaused = [s \in Sessions |-> FALSE]
  /\ liveFollowUps = FollowUps
  /\ msgStatus = [m \in Messages |-> "absent"]
  /\ msgSteering = [m \in Messages |-> FALSE]
  /\ runStatus = [r \in Runs |-> "absent"]
  /\ runSession = [r \in Runs |-> NoSession]
  /\ runMessages = [r \in Runs |-> {}]
  /\ runOwner = [r \in Runs |-> NoWorker]
  /\ runLease = [r \in Runs |-> "fresh"]
  /\ responded = [r \in Runs |-> FALSE]
  /\ callbackQueued = [r \in Runs |-> FALSE]
  /\ pc = [w \in Workers |-> "poll"]
  /\ job = [w \in Workers |-> NoRun]
  /\ outcome = [w \in Workers |-> "nothing"]
  /\ steering = [w \in Workers |-> {}]
  /\ handed = [r \in Runs |-> {}]

-----------------------------------------------------------------------------
(* The API: each handler is one store transaction.                         *)

\* A message joins the queue of a session that accepts messages.
JoinQueue(m) ==
  LET s == SessionOf[m] IN
  /\ sessionStatus[s] # "archived"
  /\ msgStatus' = [msgStatus EXCEPT ![m] = "pending"]
  /\ sessionStatus' = [sessionStatus EXCEPT ![s] = IF @ = "active" THEN @ ELSE "queued"]
  /\ UNCHANGED <<queuePaused, liveFollowUps, msgSteering, runVars, pubVars, workerVars>>

\* Sequences are allocated in a transaction of their own (nextMessageSequence),
\* so messages may be inserted out of order.
EnqueueMessage(m) ==
  /\ msgStatus[m] = "absent"
  /\ ~Scheduled(m)
  /\ JoinQueue(m)

\* The scheduler activates a due occurrence of an active follow-up; the
\* occurrence is skipped while a message of the follow-up is unfinished.
ActivateScheduled(m) ==
  /\ msgStatus[m] = "absent"
  /\ FollowUpOf[m] \in liveFollowUps
  /\ Idle(FollowUpOf[m])
  /\ JoinQueue(m)

\* A failed scheduled message is retried in place; a failed ordinary message
\* is retried as a new message (EnqueueMessage).
RetryScheduled(m) ==
  /\ Retryable(m)
  /\ JoinQueue(m)

\* An edit of a pending message may switch its steering flag.
EditSteering(m) ==
  /\ msgStatus[m] = "pending"
  /\ ~Scheduled(m)
  /\ msgSteering' = [msgSteering EXCEPT ![m] = ~@]
  /\ UNCHANGED <<sessionVars, msgStatus, runVars, pubVars, workerVars>>

CancelPending(m) ==
  LET s == SessionOf[m] IN
  /\ msgStatus[m] = "pending"
  /\ msgStatus' = [msgStatus EXCEPT ![m] = "cancelled"]
  /\ sessionStatus' = [sessionStatus EXCEPT ![s] =
       IF @ = "active" THEN "active" ELSE StatusOnSettle(s)]
  /\ UNCHANGED <<queuePaused, liveFollowUps, msgSteering, runVars, pubVars, workerVars>>

\* First phase of a cancellation.  A completing run is out of its reach.
RequestCancel(s) ==
  \E r \in ActiveRuns(s) :
    /\ runStatus[r] \in {"running", "cancelling"}
    /\ runStatus' = [runStatus EXCEPT ![r] = "cancelling"]
    /\ msgStatus' = [m \in Messages |->
         IF m \in runMessages[r] /\ msgStatus[m] \in InFlight
         THEN "cancelling" ELSE msgStatus[m]]
    /\ sessionStatus' = [sessionStatus EXCEPT ![s] =
         IF @ = "archived" THEN @ ELSE "active"]
    /\ UNCHANGED <<queuePaused, liveFollowUps, msgSteering, runSession, runMessages,
                   leaseVars, pubVars, workerVars>>

\* Archiving cancels the pending messages and the active follow-ups of the
\* session, and leaves its active run alone.
Archive(s) ==
  /\ sessionStatus[s] # "archived"
  /\ sessionStatus' = [sessionStatus EXCEPT ![s] = "archived"]
  /\ liveFollowUps' =
       liveFollowUps \ {FollowUpOf[m] : m \in {n \in Messages : SessionOf[n] = s}}
  /\ msgStatus' = [m \in Messages |->
       IF m \in Pending(s) THEN "cancelled" ELSE msgStatus[m]]
  /\ UNCHANGED <<queuePaused, msgSteering, runVars, pubVars, workerVars>>

Unarchive(s) ==
  /\ sessionStatus[s] = "archived"
  /\ sessionStatus' = [sessionStatus EXCEPT ![s] = "idle"]
  /\ UNCHANGED <<queuePaused, liveFollowUps, msgVars, runVars, pubVars, workerVars>>

\* pauseSessionQueue and resumeSessionQueue.
SetQueuePaused(s) ==
  /\ sessionStatus[s] # "archived"
  /\ queuePaused' = [queuePaused EXCEPT ![s] = ~@]
  /\ UNCHANGED <<sessionStatus, liveFollowUps, msgVars, runVars, pubVars, workerVars>>

-----------------------------------------------------------------------------
(* The polling half of processNext: take over a completion, recover stale   *)
(* runs, claim a batch.  Each looks with FOR UPDATE SKIP LOCKED, so it may   *)
(* miss a row that another transaction has locked.                          *)

Goto(w, label) == pc' = [pc EXCEPT ![w] = label]

\* processNext ends, and the worker loop calls it again.
Done(w) ==
  /\ Goto(w, "poll")
  /\ job' = [job EXCEPT ![w] = NoRun]
  /\ outcome' = [outcome EXCEPT ![w] = "nothing"]
  /\ steering' = [steering EXCEPT ![w] = {}]
  /\ UNCHANGED handed

\* claimExpiredRunCompletion: a completing run whose lease ran out changes
\* hands and keeps its result.
TakeOverCompletion(w, r) ==
  /\ pc[w] = "poll"
  /\ TakeableBy(w, r)
  /\ runOwner' = [runOwner EXCEPT ![r] = w]
  /\ runLease' = [runLease EXCEPT ![r] = "fresh"]
  /\ job' = [job EXCEPT ![w] = r]
  /\ Goto(w, "publish")
  /\ UNCHANGED <<sessionVars, msgVars, runStatus, runSession, runMessages, pubVars,
                 outcome, steering, handed>>

NoCompletionFound(w) ==
  /\ pc[w] = "poll"
  /\ Goto(w, "recover")
  /\ UNCHANGED <<dbVars, job, outcome, steering, handed>>

\* recoverStaleRuns: the runs S of one transaction (LIMIT, SKIP LOCKED) go
\* stale, their messages go back to the queue.
RecoverStaleRuns(w) ==
  \E S \in SUBSET {r \in Runs : Recoverable(r) /\ MaySeeExpired(r)} :
    /\ pc[w] = "recover"
    /\ runStatus' = [r \in Runs |-> IF r \in S THEN "stale" ELSE runStatus[r]]
    /\ runOwner' = [r \in Runs |-> IF r \in S THEN NoWorker ELSE runOwner[r]]
    /\ runLease' = [r \in Runs |-> IF r \in S THEN "fresh" ELSE runLease[r]]
    /\ msgStatus' = [m \in Messages |->
         IF msgStatus[m] \in RequeuedFrom /\ \E r \in S : m \in runMessages[r]
         THEN RequeuedAs ELSE msgStatus[m]]
    /\ sessionStatus' = [s \in Sessions |->
         IF \E r \in S : runSession[r] = s THEN StatusOnSettle(s) ELSE sessionStatus[s]]
    /\ Goto(w, "claim")
    /\ UNCHANGED <<queuePaused, liveFollowUps, msgSteering, runSession, runMessages,
                   pubVars, job, outcome, steering, handed>>

\* claimNextPendingMessageBatch.  The reply to its COMMIT may be lost: then
\* processNext throws, and the run stays behind without a worker.
ClaimBatch(w) ==
  \E s \in Sessions, r \in Runs, replied \in BOOLEAN :
    /\ pc[w] = "claim"
    /\ Claimable(s)
    /\ runStatus[r] = "absent"
    /\ msgStatus' = [m \in Messages |->
         IF m \in Batch(s) THEN "processing" ELSE msgStatus[m]]
    /\ runStatus' = [runStatus EXCEPT ![r] = "running"]
    /\ runSession' = [runSession EXCEPT ![r] = s]
    /\ runMessages' = [runMessages EXCEPT ![r] = Batch(s)]
    /\ runOwner' = [runOwner EXCEPT ![r] = w]
    /\ sessionStatus' = [sessionStatus EXCEPT ![s] = "active"]
    /\ job' = [job EXCEPT ![w] = IF replied THEN r ELSE NoRun]
    /\ Goto(w, IF replied THEN "launch" ELSE "poll")
    /\ UNCHANGED <<queuePaused, liveFollowUps, msgSteering, runLease, pubVars, outcome,
                   steering, handed>>

\* No session was found, or the unique index refused the run.
NothingClaimed(w) ==
  /\ pc[w] = "claim"
  /\ Goto(w, "poll")
  /\ UNCHANGED <<dbVars, job, outcome, steering, handed>>

-----------------------------------------------------------------------------
(* Executing a claimed batch: runWithHeartbeat and runClaimedMessage.       *)

Executing == {"launch", "execute", "aborting"}
Publishing == {"publish", "respond", "append", "callback", "enqueue", "complete"}

\* The sandbox is ready and persistActiveRunExecutionSignature matched: the
\* runner starts with the batch.
Launch(w) ==
  LET r == job[w] IN
  /\ pc[w] = "launch"
  /\ runStatus[r] = "running"
  /\ Holds(w, r)
  /\ handed' = [handed EXCEPT ![r] = runMessages[r]]
  /\ Goto(w, "execute")
  /\ UNCHANGED <<dbVars, job, outcome, steering>>

CancelSeen_Mutant(w) == pc[w] = "execute" /\ runStatus[job[w]] = "cancelled"

\* What makes a timer abort the runner, if it reads the row.
CancelSeen(w) == pc[w] = "execute" /\ runStatus[job[w]] = "cancelling"

\* The timer renews the lease while the run is active; a renewed row that says
\* cancelling, or no row, aborts the runner.
Heartbeat(w) ==
  LET r == job[w] IN
  /\ pc[w] \in Executing \cup Publishing
  /\ runStatus[r] \in Active
  /\ Holds(w, r)
  /\ runLease[r] = "disputed" \/ CancelSeen(w)
  /\ runLease' = [runLease EXCEPT ![r] = "fresh"]
  /\ Goto(w, IF CancelSeen(w) THEN "aborting" ELSE pc[w])
  /\ UNCHANGED <<sessionVars, msgVars, runStatus, runSession, runMessages, runOwner,
                 pubVars, job, outcome, steering, handed>>

HeartbeatLost(w) ==
  LET r == job[w] IN
  /\ pc[w] = "execute"
  /\ runStatus[r] \notin Active \/ Lost(w, r)
  /\ Goto(w, "aborting")
  /\ UNCHANGED <<dbVars, job, outcome, steering, handed>>

\* The cancellation poll reads the run between heartbeats.
PollCancellation(w) ==
  /\ CancelSeen(w)
  /\ Goto(w, "aborting")
  /\ UNCHANGED <<dbVars, job, outcome, steering, handed>>

\* claimPendingSteeringMessages.  S is the part of the steering messages whose
\* execution signature is that of the run, a matter of their contexts.  A lost
\* reply aborts the run.
ClaimSteering(w) ==
  LET r == job[w] IN
  /\ pc[w] = "execute"
  /\ steering[w] = {}
  /\ Steerable(w, r)
  /\ \E S \in SUBSET {m \in Pending(runSession[r]) : msgSteering[m]}, replied \in BOOLEAN :
       /\ S # {}
       /\ msgStatus' = [m \in Messages |-> IF m \in S THEN "processing" ELSE msgStatus[m]]
       /\ runMessages' = [runMessages EXCEPT ![r] = @ \cup S]
       /\ IF replied THEN steering' = [steering EXCEPT ![w] = S] /\ UNCHANGED <<pc, outcome>>
          ELSE /\ Goto(w, "aborting")
               /\ outcome' = [outcome EXCEPT ![w] = "error"]
               /\ UNCHANGED steering
       /\ UNCHANGED <<sessionVars, msgSteering, runStatus, runSession, leaseVars, pubVars,
                      job, handed>>

\* Each claimed steering message is handed to the runner in turn, if the run is
\* still strictly owned.
HandOver(w) ==
  LET r == job[w] IN
  \E m \in steering[w] :
    /\ pc[w] = "execute"
    /\ \A n \in steering[w] : Seq[m] <= Seq[n]
    /\ Steerable(w, r)
    /\ handed' = [handed EXCEPT ![r] = @ \cup {m}]
    /\ steering' = [steering EXCEPT ![w] = @ \ {m}]
    /\ UNCHANGED <<dbVars, pc, job, outcome>>

\* Ownership was lost, or the runner rejects the message: the run is aborted.
HandOverFails(w) ==
  /\ pc[w] = "execute"
  /\ steering[w] # {}
  /\ Goto(w, "aborting")
  /\ outcome' = [outcome EXCEPT ![w] = "error"]
  /\ UNCHANGED <<dbVars, job, steering, handed>>

\* The runner ended (steered messages are awaited first); the outcome o counts
\* as a result only if the run is neither cancelled nor lost.
RunnerEnds(w, o) ==
  /\ outcome' = [outcome EXCEPT ![w] = o]
  /\ steering' = [steering EXCEPT ![w] = {}]
  /\ Goto(w, "settle")
  /\ UNCHANGED <<dbVars, job, handed>>

RunnerReturns(w) ==
  LET r == job[w] IN
  /\ pc[w] = "execute"
  /\ SteeringDone(w)
  /\ \/ runStatus[r] \in {"running", "completing"} /\ Holds(w, r) /\ RunnerEnds(w, "result")
     \/ (runStatus[r] \notin {"running", "completing"} \/ Lost(w, r)) /\ RunnerEnds(w, "nothing")

RunnerAborts(w) ==
  /\ pc[w] = "aborting"
  /\ \/ outcome[w] # "error" /\ RunnerEnds(w, "nothing")
     \/ RunnerEnds(w, "error")

\* The sandbox, the signature guard or the runner throws.
RunThrows(w) ==
  /\ pc[w] \in {"launch", "execute"}
  /\ RunnerEnds(w, "error")

-----------------------------------------------------------------------------
(* Settling a run.                                                          *)

\* finishRunBatch, for run r and its messages.
FinishRun(r, status) ==
  LET s == runSession[r] IN
  /\ runStatus' = [runStatus EXCEPT ![r] = status]
  /\ runOwner' = [runOwner EXCEPT ![r] = NoWorker]
  /\ runLease' = [runLease EXCEPT ![r] = "fresh"]
  /\ msgStatus' = [m \in Messages |->
       IF m \in runMessages[r] /\ msgStatus[m] \in InFlight THEN status ELSE msgStatus[m]]
  /\ sessionStatus' = [sessionStatus EXCEPT ![s] =
       IF @ # "archived" /\ status = "failed" THEN "failed" ELSE StatusOnSettle(s)]
  /\ UNCHANGED <<queuePaused, liveFollowUps, msgSteering, runSession, runMessages, pubVars>>

\* Where processNext goes on when no cancellation was finalized.
GoesOn(o) ==
  CASE o = "result"  -> "commit"
    [] o = "nothing" -> "poll"
    [] o = "error"   -> "fail"

\* finalizeCancellationIfRequested: the read, and then the guarded write.
CheckCancellation(w) ==
  LET requested == runStatus[job[w]] \in {"cancelling", "cancelled"} IN
  /\ pc[w] = "settle"
  /\ IF ~requested /\ outcome[w] = "nothing" THEN Done(w)
     ELSE /\ Goto(w, IF requested THEN "finalize" ELSE GoesOn(outcome[w]))
          /\ UNCHANGED <<job, outcome, steering, handed>>
  /\ UNCHANGED dbVars

FinalizeCancellation(w) ==
  /\ pc[w] = "finalize"
  /\ CanFinish(w, job[w], "cancelled")
  /\ FinishRun(job[w], "cancelled")
  /\ Done(w)

FinalizeMisses(w) ==
  /\ pc[w] = "finalize"
  /\ CannotFinish(w, job[w], "cancelled")
  /\ IF outcome[w] = "nothing" THEN Done(w)
     ELSE Goto(w, GoesOn(outcome[w])) /\ UNCHANGED <<job, outcome, steering, handed>>
  /\ UNCHANGED dbVars

\* beginRunCompletion: from here on the result is durable.  When the reply is
\* lost, the catch clause takes over with an error.
BeginCompletion(w) ==
  LET r == job[w] IN
  \E replied \in BOOLEAN :
    /\ pc[w] = "commit"
    /\ runStatus[r] = "running"
    /\ Holds(w, r)
    /\ runStatus' = [runStatus EXCEPT ![r] = "completing"]
    /\ IF replied THEN Goto(w, "publish") /\ UNCHANGED outcome
       ELSE Goto(w, "settle") /\ outcome' = [outcome EXCEPT ![w] = "error"]
    /\ UNCHANGED <<sessionVars, msgVars, runSession, runMessages, leaseVars, pubVars,
                   job, steering, handed>>

\* A missed guard leaves one more look for a cancellation request.
Misses(w) ==
  /\ Goto(w, "settle")
  /\ outcome' = [outcome EXCEPT ![w] = "nothing"]
  /\ UNCHANGED <<dbVars, job, steering, handed>>

CompletionMisses(w) ==
  /\ pc[w] = "commit"
  /\ runStatus[job[w]] # "running" \/ Lost(w, job[w])
  /\ Misses(w)

\* failRunBatch, in the catch clause.
FailRun(w) ==
  /\ pc[w] = "fail"
  /\ CanFinish(w, job[w], "failed")
  /\ FinishRun(job[w], "failed")
  /\ Done(w)

FailMisses(w) ==
  /\ pc[w] = "fail"
  /\ CannotFinish(w, job[w], "failed")
  /\ Misses(w)

-----------------------------------------------------------------------------
(* The completion phase: publishCompletionWithHeartbeat.  Whatever throws   *)
(* here leaves the run completing, for a later takeover.                    *)

\* The first renewal.
RenewForPublication(w) ==
  LET r == job[w] IN
  /\ pc[w] = "publish"
  /\ runStatus[r] \in Active
  /\ Holds(w, r)
  /\ runLease' = [runLease EXCEPT ![r] = "fresh"]
  /\ Goto(w, "respond")
  /\ UNCHANGED <<sessionVars, msgVars, runStatus, runSession, runMessages, runOwner,
                 pubVars, job, outcome, steering, handed>>

LookForResponse_Mutant(w) ==
  /\ pc[w] = "respond"
  /\ Goto(w, "append")
  /\ UNCHANGED <<dbVars, job, outcome, steering, handed>>

\* The final response is looked up in the event log before it is appended.
LookForResponse(w) ==
  /\ pc[w] = "respond"
  /\ Goto(w, IF responded[job[w]] THEN "callback" ELSE "append")
  /\ UNCHANGED <<dbVars, job, outcome, steering, handed>>

\* appendForRun under the run's lease; a second final response of a run is
\* refused by events_one_final_response_per_run_message_idx.
AppendResponse(w) ==
  LET r == job[w] IN
  /\ pc[w] = "append"
  /\ runStatus[r] \in Active
  /\ Holds(w, r)
  /\ ~responded[r]
  /\ responded' = [responded EXCEPT ![r] = TRUE]
  /\ Goto(w, "callback")
  /\ UNCHANGED <<sessionVars, msgVars, runVars, callbackQueued, job, outcome, steering, handed>>

\* Ownership is read, and the callback enqueued by another call.
CheckOwnership(w) ==
  LET r == job[w] IN
  /\ pc[w] = "callback"
  /\ runStatus[r] \in Active
  /\ Holds(w, r)
  /\ Goto(w, "enqueue")
  /\ UNCHANGED <<dbVars, job, outcome, steering, handed>>

\* The id of a completion callback is derived from the run, so a second insert
\* of it is idempotent.
EnqueueCallback(w) ==
  /\ pc[w] = "enqueue"
  /\ callbackQueued' = [callbackQueued EXCEPT ![job[w]] = TRUE]
  /\ Goto(w, "complete")
  /\ UNCHANGED <<sessionVars, msgVars, runVars, responded, job, outcome, steering, handed>>

CompleteRun(w) ==
  /\ pc[w] = "complete"
  /\ CanFinish(w, job[w], "completed")
  /\ FinishRun(job[w], "completed")
  /\ Done(w)

\* A lost lease, a conflict or a failed database call ends the publication.
AbandonPublication(w) ==
  /\ pc[w] \in Publishing
  /\ Done(w)
  /\ UNCHANGED dbVars

\* A call outside the try block throws, processNext rejects, and the worker
\* loop polls again: the run stays active without a worker.
AbandonRun(w) ==
  /\ pc[w] \in {"launch", "settle", "finalize", "fail"}
  /\ Done(w)
  /\ UNCHANGED dbVars

-----------------------------------------------------------------------------
(* Time and crashes.                                                        *)

\* Time passes over the lease of an active run.
Lapse(r) ==
  /\ runStatus[r] \in Active
  /\ runLease[r] # "expired"
  /\ runLease' = [runLease EXCEPT ![r] = IF @ = "fresh" THEN "disputed" ELSE "expired"]
  /\ UNCHANGED <<sessionVars, msgVars, runStatus, runSession, runMessages, runOwner,
                 pubVars, workerVars>>

\* A process dies.  Its restart is another worker: the lease owner is derived
\* from the id of the process instance.  One instance stays up.
Crash(w) ==
  /\ pc[w] # "down"
  /\ \E v \in Workers \ {w} : pc[v] # "down"
  /\ Goto(w, "down")
  /\ job' = [job EXCEPT ![w] = NoRun]
  /\ outcome' = [outcome EXCEPT ![w] = "nothing"]
  /\ steering' = [steering EXCEPT ![w] = {}]
  /\ UNCHANGED <<dbVars, handed>>

UserStep ==
  \/ \E m \in Messages : \/ EnqueueMessage(m)
                         \/ ActivateScheduled(m)
                         \/ RetryScheduled(m)
                         \/ EditSteering(m)
                         \/ CancelPending(m)
  \/ \E s \in Sessions : \/ RequestCancel(s)
                         \/ Archive(s)
                         \/ Unarchive(s)
                         \/ SetQueuePaused(s)

PollStep(w) ==
  \/ \E r \in Runs : TakeOverCompletion(w, r)
  \/ NoCompletionFound(w)
  \/ RecoverStaleRuns(w)
  \/ ClaimBatch(w)
  \/ NothingClaimed(w)

ExecuteStep(w) ==
  \/ Launch(w)
  \/ Heartbeat(w)
  \/ HeartbeatLost(w)
  \/ PollCancellation(w)
  \/ ClaimSteering(w)
  \/ HandOver(w)
  \/ HandOverFails(w)
  \/ RunnerReturns(w)
  \/ RunnerAborts(w)
  \/ RunThrows(w)

SettleStep(w) ==
  \/ CheckCancellation(w)
  \/ FinalizeCancellation(w)
  \/ FinalizeMisses(w)
  \/ BeginCompletion(w)
  \/ CompletionMisses(w)
  \/ FailRun(w)
  \/ FailMisses(w)

PublishStep(w) ==
  \/ RenewForPublication(w)
  \/ LookForResponse(w)
  \/ AppendResponse(w)
  \/ CheckOwnership(w)
  \/ EnqueueCallback(w)
  \/ CompleteRun(w)

FaultStep(w) ==
  \/ AbandonPublication(w)
  \/ AbandonRun(w)
  \/ Crash(w)

Next ==
  \/ UserStep
  \/ \E w \in Workers : \/ PollStep(w)
                        \/ ExecuteStep(w)
                        \/ SettleStep(w)
                        \/ PublishStep(w)
                        \/ FaultStep(w)
  \/ \E r \in Runs : Lapse(r)

Spec == Init /\ [][Next]_vars

-----------------------------------------------------------------------------
(* Invariants.                                                              *)

\* The types of the rows, and of the workers.
RowsTyped ==
  /\ sessionStatus \in [Sessions -> SessionStatus]
  /\ queuePaused \in [Sessions -> BOOLEAN]
  /\ liveFollowUps \subseteq FollowUps
  /\ msgStatus \in [Messages -> MessageStatus]
  /\ msgSteering \in [Messages -> BOOLEAN]
  /\ runStatus \in [Runs -> RunStatus]
  /\ runSession \in [Runs -> Sessions \cup {NoSession}]
  /\ runMessages \in [Runs -> SUBSET Messages]
  /\ runOwner \in [Runs -> Workers \cup {NoWorker}]
  /\ runLease \in [Runs -> LeaseState]
  /\ responded \in [Runs -> BOOLEAN]
  /\ callbackQueued \in [Runs -> BOOLEAN]

WorkersTyped ==
  /\ pc \in [Workers -> {"poll", "recover", "claim", "settle", "finalize", "commit",
                         "fail", "down"} \cup Executing \cup Publishing]
  /\ job \in [Workers -> Runs \cup {NoRun}]
  /\ outcome \in [Workers -> {"nothing", "result", "error"}]
  /\ steering \in [Workers -> SUBSET Messages]
  /\ handed \in [Runs -> SUBSET Messages]

\* Every variable has its type: no call leaves a row in a status that the
\* tables do not know, or a worker at a call that is not there.
TypeOK == RowsTyped /\ WorkersTyped

\* A session is processed by one run at a time, whatever workers crash, stall
\* or come back (claim, recovery and takeover together).
OneActiveRun ==
  \A q, r \in Runs :
    /\ runStatus[q] \in Active
    /\ runStatus[r] \in Active
    /\ runSession[q] = runSession[r]
    => q = r

\* A message in flight belongs to an active run of its session: no crash,
\* cancellation or steering claim leaves it in processing with nobody to
\* settle or recover it.
NoStrandedMessage ==
  \A m \in Messages : msgStatus[m] \in InFlight =>
    \E r \in ActiveRuns(SessionOf[m]) : m \in runMessages[r]

\* An active run has messages, and all of them are in flight in the status that
\* goes with the run's: a settling worker, which takes messages[0] of the rows
\* it changed, always finds them.
ActiveRunHasItsMessages ==
  \A r \in Runs : runStatus[r] \in Active =>
    /\ runMessages[r] # {}
    /\ \A m \in runMessages[r] :
         /\ SessionOf[m] = runSession[r]
         /\ msgStatus[m] = IF runStatus[r] = "cancelling" THEN "cancelling" ELSE "processing"

\* What a run published is never taken back: once the final response or the
\* callback is out, the run is completing or completed, and is neither failed,
\* cancelled nor requeued, although the worker that published may be long gone.
PublishedRunCompletes ==
  \A r \in Runs : responded[r] \/ callbackQueued[r] =>
    runStatus[r] \in {"completing", "completed"}

\* A message is answered by at most one run, however often it was requeued.
AnsweredOnce ==
  \A q, r \in Runs :
    /\ responded[q] \/ callbackQueued[q]
    /\ responded[r] \/ callbackQueued[r]
    /\ runMessages[q] \cap runMessages[r] # {}
    => q = r

\* A run only completes with messages its runner was given: a steering message
\* that was claimed and never handed over is not reported as done.
CompletedWasHandedOver ==
  \A r \in Runs : runStatus[r] \in {"completing", "completed"} =>
    runMessages[r] \subseteq handed[r]

\* At most one message of a scheduled follow-up is unfinished, across
\* activations, retries of failed occurrences and recoveries.
OneUnfinishedPerFollowUp ==
  \A m, n \in Messages :
    /\ Scheduled(m) /\ FollowUpOf[m] = FollowUpOf[n]
    /\ msgStatus[m] \in Unfinished
    /\ msgStatus[n] \in Unfinished
    => m = n

\* The status shown for a session does not promise work that is not there: an
\* active session has an active run, a queued one a pending message or a run.
SessionStatusIsBacked ==
  \A s \in Sessions :
    /\ sessionStatus[s] = "active" => ActiveRuns(s) # {}
    /\ sessionStatus[s] = "queued" => Pending(s) \cup ActiveRuns(s) # {}

-----------------------------------------------------------------------------
(* What a step may never do.                                                *)

Starts(m) == msgStatus[m] = "pending" /\ msgStatus'[m] = "processing"

\* Nothing starts in an archived session, although a steering claim does not
\* look at the session and recovery may put messages back in an archived queue.
ArchivedStartsNothing ==
  [][\A m \in Messages : Starts(m) => sessionStatus[SessionOf[m]] # "archived"]_vars

\* A message only overtakes an earlier one of its session by steering.
StartsInOrder ==
  [][\A m \in Messages : Starts(m) /\ ~msgSteering[m] =>
       \A n \in Before(m) : Starts(n)]_vars

\* A finished run, a completed or cancelled message and a failed ordinary
\* message never change again, whichever worker still believes it owns them.
FinalIsFinal ==
  [][/\ \A r \in Runs : runStatus[r] \in {"completed", "failed", "cancelled", "stale"} =>
          runStatus'[r] = runStatus[r] /\ runMessages'[r] = runMessages[r]
     /\ \A m \in Messages :
          \/ msgStatus[m] \in {"completed", "cancelled"}
          \/ msgStatus[m] = "failed" /\ ~Scheduled(m)
          => msgStatus'[m] = msgStatus[m]]_vars

\* A worker that lost its run to a takeover changes neither the run nor its
\* messages when it wakes up (it may still enqueue the idempotent callback).
FencedOut ==
  [][\A w \in Workers : job[w] # NoRun /\ pc'[w] # pc[w] /\ runOwner[job[w]] # w =>
       UNCHANGED <<msgStatus, runVars, responded>>]_vars

\* docs/architecture.md: editing pauses the session queue until the edit is
\* saved or cancelled.
PausedQueueStartsNothing ==
  [][\A m \in Messages : Starts(m) => ~queuePaused[SessionOf[m]]]_vars

\* docs/architecture.md: a run whose cancellation was requested is finalized as
\* cancelled, and its messages with it.
CancellingEndsCancelled ==
  [][\A m \in Messages : msgStatus[m] = "cancelling" =>
       msgStatus'[m] \in {"cancelling", "cancelled"}]_vars

-----------------------------------------------------------------------------
(* Liveness.                                                                *)

\* A run is worked on while some live worker's loop is at it under its lease.
WorkedOn(r) == \E w \in Workers : job[w] = r /\ runOwner[r] = w

\* The worker loop keeps polling and an awaited call returns; a timer of the
\* run keeps firing; an aborted runner stops; time passes over the lease of a
\* run that nobody renews.  A row that polls look for over and over is not
\* locked each time.  Nothing makes a runner that is not aborted stop.
Fairness ==
  /\ \A w \in Workers :
       /\ WF_vars(PollStep(w))
       /\ WF_vars(Launch(w) \/ (pc[w] = "launch" /\ RunThrows(w)))
       /\ WF_vars(Heartbeat(w))
       /\ WF_vars(HeartbeatLost(w))
       /\ WF_vars(PollCancellation(w))
       /\ WF_vars(RunnerAborts(w))
       /\ WF_vars(SettleStep(w))
       /\ WF_vars(PublishStep(w) \/ AbandonPublication(w))
  /\ \A r \in Runs :
       /\ WF_vars(Lapse(r) /\ ~WorkedOn(r))
       /\ SF_vars(\E w \in Workers : TakeOverCompletion(w, r))
       /\ SF_vars(\E w \in Workers : RecoverStaleRuns(w) /\ runStatus'[r] = "stale")

\* A process that crashes, a run that is abandoned, a publication that throws
\* although its next call would be accepted, and a heartbeat that comes too late.
\* Giving up a publication whose call the database refuses is no fault.
Fault ==
  \/ \E w \in Workers : \/ Crash(w)
                         \/ AbandonRun(w)
                         \/ (AbandonPublication(w) /\ ENABLED PublishStep(w))
  \/ \E r \in Runs : Lapse(r) /\ WorkedOn(r)

\* Faults stop at some time: what follows holds however many came before.
LiveSpec == Spec /\ Fairness /\ <>[][~Fault]_vars

\* docs/architecture.md: worker crashes never strand messages in processing. An
\* active run nobody works on is taken over or goes stale.
OrphansAreRecovered ==
  \A r \in Runs : runStatus[r] \in Active /\ ~WorkedOn(r) ~>
                  runStatus[r] \notin Active \/ WorkedOn(r)

\* A requested cancellation takes effect: the run does not stay cancelling.
CancellationEnds ==
  \A r \in Runs : runStatus[r] = "cancelling" ~> runStatus[r] # "cancelling"

\* A durable result is eventually published: the run does not stay completing.
CompletionEnds ==
  \A r \in Runs : runStatus[r] = "completing" ~> runStatus[r] # "completing"
=============================================================================
