--------------------------- MODULE RunLifecycleProofs ---------------------------
(***************************************************************************)
(* Proofs about RunLifecycle, for any sets of sessions, messages, runs and *)
(* workers.                                                                *)
(*                                                                         *)
(* Safety: type correctness, which the other proofs rest on; one active    *)
(* run per session, no stranded message, and active runs that have their   *)
(* messages: three facts that hold together, none of them inductive alone. *)
(* Recovery and settling find the messages to change through               *)
(* runs.metadata.messageIds, so a message is only rescued from             *)
(* "processing" because the run that holds it is active, and only one run  *)
(* loses it because a session has one active run.  Then what a worker      *)
(* published, what it answered, and the fence around a worker that lost    *)
(* its lease.                                                              *)
(*                                                                         *)
(* The queue over time: in which order messages start, what archiving      *)
(* stops, what stays final, that a scheduled follow-up has one unfinished  *)
(* message, and that the status of a session has work behind it.           *)
(*                                                                         *)
(* Refinement: RunLifecycle implements SessionQueue; every step of it is a *)
(* step of the queue that the mapping shows, or none.                      *)
(***************************************************************************)
EXTENDS RunLifecycleRefinement, TLAPS

USE DEF sessionVars, msgVars, leaseVars, runVars, pubVars, dbVars, workerVars

-----------------------------------------------------------------------------
(* Type correctness.                                                       *)

\* An update inside the domain keeps the type, one outside of it does nothing.
LEMMA UpdateTypes ==
  ASSUME NEW S, NEW T, NEW f \in [S -> T], NEW x, NEW v, x \in S => v \in T
  PROVE  [f EXCEPT ![x] = v] \in [S -> T]
  OBVIOUS

\* The calls of the users (messages/service.ts, the archive route) keep the types.
LEMMA UserStepTypes == TypeOK /\ UserStep => TypeOK'
<1> SUFFICES ASSUME TypeOK, UserStep PROVE TypeOK'
  OBVIOUS
<1> USE ConstantsAssumption
<1> USE DEF TypeOK, RowsTyped, WorkersTyped, SessionStatus, MessageStatus, RunStatus, LeaseState
<1>1. ASSUME NEW m \in Messages, JoinQueue(m) PROVE TypeOK'
  BY <1>1 DEF JoinQueue
<1>2. ASSUME NEW m \in Messages, EditSteering(m) PROVE TypeOK'
  BY <1>2 DEF EditSteering
<1>3. ASSUME NEW m \in Messages, CancelPending(m) PROVE TypeOK'
  BY <1>3 DEF CancelPending, StatusOnSettle
<1>4. ASSUME NEW s \in Sessions, RequestCancel(s) PROVE TypeOK'
  BY <1>4 DEF RequestCancel, ActiveRuns
<1>5. ASSUME NEW s \in Sessions, Archive(s) PROVE TypeOK'
  BY <1>5 DEF Archive
<1>6. ASSUME NEW s \in Sessions, Unarchive(s) PROVE TypeOK'
  BY <1>6 DEF Unarchive
<1>7. ASSUME NEW s \in Sessions, SetQueuePaused(s) PROVE TypeOK'
  BY <1>7 DEF SetQueuePaused
<1> QED
  BY <1>1, <1>2, <1>3, <1>4, <1>5, <1>6, <1>7
     DEF UserStep, EnqueueMessage, ActivateScheduled, RetryScheduled

\* Takeover, stale recovery and claim (worker/service.ts, processNext) keep the types.
LEMMA PollStepTypes == ASSUME NEW w \in Workers, TypeOK, PollStep(w) PROVE TypeOK'
<1> USE ConstantsAssumption
<1> USE DEF TypeOK, RowsTyped, WorkersTyped, SessionStatus, MessageStatus, RunStatus, LeaseState, Goto,
            Executing, Publishing
<1>1. CASE \E r \in Runs : TakeOverCompletion(w, r)
  BY <1>1 DEF TakeOverCompletion
<1>2. CASE NoCompletionFound(w) \/ NothingClaimed(w)
  BY <1>2 DEF NoCompletionFound, NothingClaimed
<1>3. CASE RecoverStaleRuns(w)
  BY <1>3 DEF RecoverStaleRuns, StatusOnSettle, RequeuedAs
<1>4. CASE ClaimBatch(w)
  BY <1>4 DEF ClaimBatch, Batch, Pending
<1> QED
  BY <1>1, <1>2, <1>3, <1>4 DEF PollStep

\* The calls around a runner (runWithHeartbeat, runClaimedMessage) keep the types.
LEMMA ExecuteStepTypes == ASSUME NEW w \in Workers, TypeOK, ExecuteStep(w) PROVE TypeOK'
<1> USE ConstantsAssumption
<1> USE DEF TypeOK, RowsTyped, WorkersTyped, SessionStatus, MessageStatus, RunStatus, LeaseState, Goto,
            Executing, Publishing
<1>1. CASE Launch(w)
  BY <1>1 DEF Launch
<1>2. CASE Heartbeat(w)
  BY <1>2 DEF Heartbeat, CancelSeen
<1>3. CASE HeartbeatLost(w) \/ PollCancellation(w)
  BY <1>3 DEF HeartbeatLost, PollCancellation, CancelSeen
<1>4. CASE ClaimSteering(w)
  <2>1. PICK S \in SUBSET Messages :
          /\ msgStatus' = [m \in Messages |-> IF m \in S THEN "processing" ELSE msgStatus[m]]
          /\ runMessages' = [runMessages EXCEPT ![job[w]] = @ \cup S]
          /\ \/ steering' = [steering EXCEPT ![w] = S] /\ UNCHANGED <<pc, outcome>>
             \/ /\ pc' = [pc EXCEPT ![w] = "aborting"]
                /\ outcome' = [outcome EXCEPT ![w] = "error"]
                /\ UNCHANGED steering
          /\ UNCHANGED <<sessionVars, msgSteering, runStatus, runSession, leaseVars, pubVars,
                         job, handed>>
    BY <1>4 DEF ClaimSteering, Pending
  <2>2. runMessages' \in [Runs -> SUBSET Messages]
    BY <2>1
  <2>3. steering' \in [Workers -> SUBSET Messages]
    BY <2>1
  <2> QED
    BY <2>1, <2>2, <2>3
<1>5. CASE HandOver(w)
  <2>1. PICK m \in Messages :
          /\ handed' = [handed EXCEPT ![job[w]] = @ \cup {m}]
          /\ steering' = [steering EXCEPT ![w] = @ \ {m}]
    BY <1>5 DEF HandOver
  <2>2. handed' \in [Runs -> SUBSET Messages]
    <3>1. job[w] \in Runs => handed[job[w]] \cup {m} \in SUBSET Messages
      OBVIOUS
    <3>2. [handed EXCEPT ![job[w]] = handed[job[w]] \cup {m}] \in [Runs -> SUBSET Messages]
      BY <3>1, UpdateTypes
    <3> QED
      BY <2>1, <3>2
  <2>3. steering' \in [Workers -> SUBSET Messages]
    BY <2>1
  <2> QED
    BY <1>5, <2>2, <2>3 DEF HandOver
<1>6. CASE HandOverFails(w)
  BY <1>6 DEF HandOverFails
<1>7. CASE RunnerReturns(w) \/ RunnerAborts(w) \/ RunThrows(w)
  <2>1. PICK o \in {"nothing", "result", "error"} : RunnerEnds(w, o)
    BY <1>7 DEF RunnerReturns, RunnerAborts, RunThrows
  <2> QED
    BY <2>1 DEF RunnerEnds
<1> QED
  BY <1>1, <1>2, <1>3, <1>4, <1>5, <1>6, <1>7 DEF ExecuteStep

\* The end of processNext keeps the types of the workers.
LEMMA DoneTypes == ASSUME NEW w \in Workers, WorkersTyped, Done(w) PROVE WorkersTyped'
  BY DEF WorkersTyped, Done, Goto

\* finishRunBatch keeps the types of the rows, whatever it settles a run as.
LEMMA FinishRunTypes ==
  ASSUME NEW r, NEW status \in {"completed", "failed", "cancelled"},
         RowsTyped, FinishRun(r, status)
  PROVE  RowsTyped'
  BY DEF RowsTyped, FinishRun, StatusOnSettle, SessionStatus, MessageStatus, RunStatus, LeaseState

\* A worker that settles its run and ends processNext keeps the types.
LEMMA FinishTypes ==
  ASSUME NEW w \in Workers, NEW r, NEW status \in {"completed", "failed", "cancelled"},
         TypeOK, FinishRun(r, status), Done(w)
  PROVE  TypeOK'
<1>1. RowsTyped'
  BY FinishRunTypes DEF TypeOK
<1>2. WorkersTyped'
  BY DoneTypes DEF TypeOK
<1> QED
  BY <1>1, <1>2 DEF TypeOK

\* Finalizing, committing and failing a run keep the types.
LEMMA SettleStepTypes == ASSUME NEW w \in Workers, TypeOK, SettleStep(w) PROVE TypeOK'
<1>1. CASE FinalizeCancellation(w) \/ FailRun(w)
  BY <1>1, FinishTypes DEF FinalizeCancellation, FailRun
<1> USE DEF TypeOK, RowsTyped, WorkersTyped, SessionStatus, MessageStatus, RunStatus, LeaseState, Goto,
            Executing, Publishing, GoesOn
<1>2. CASE CheckCancellation(w)
  BY <1>2 DEF CheckCancellation, Done
<1>3. CASE FinalizeMisses(w)
  BY <1>3 DEF FinalizeMisses, Done
<1>4. CASE BeginCompletion(w)
  <2>1. outcome' \in [Workers -> {"nothing", "result", "error"}]
    BY <1>4 DEF BeginCompletion
  <2>2. pc' = [pc EXCEPT ![w] = "publish"] \/ pc' = [pc EXCEPT ![w] = "settle"]
    BY <1>4 DEF BeginCompletion
  <2>3. runStatus' = [runStatus EXCEPT ![job[w]] = "completing"]
    BY <1>4 DEF BeginCompletion
  <2>4. runStatus' \in [Runs -> RunStatus]
    BY <2>3, UpdateTypes
  <2> QED
    BY <1>4, <2>1, <2>2, <2>4 DEF BeginCompletion
<1>5. CASE CompletionMisses(w) \/ FailMisses(w)
  BY <1>5 DEF CompletionMisses, FailMisses, Misses
<1> QED
  BY <1>1, <1>2, <1>3, <1>4, <1>5 DEF SettleStep

\* The completion phase (publishCompletionWithHeartbeat) keeps the types.
LEMMA PublishStepTypes == ASSUME NEW w \in Workers, TypeOK, PublishStep(w) PROVE TypeOK'
<1>1. CASE CompleteRun(w)
  BY <1>1, FinishTypes DEF CompleteRun
<1> USE DEF TypeOK, RowsTyped, WorkersTyped, LeaseState, Goto, Executing, Publishing
<1>2. CASE RenewForPublication(w)
  BY <1>2 DEF RenewForPublication
<1>3. CASE LookForResponse(w) \/ CheckOwnership(w)
  BY <1>3 DEF LookForResponse, CheckOwnership
<1>4. CASE AppendResponse(w)
  BY <1>4 DEF AppendResponse
<1>5. CASE EnqueueCallback(w)
  BY <1>5 DEF EnqueueCallback
<1> QED
  BY <1>1, <1>2, <1>3, <1>4, <1>5 DEF PublishStep

\* Faults and the passing of time keep the types.
LEMMA OtherStepTypes ==
  ASSUME TypeOK, (\E w \in Workers : FaultStep(w)) \/ (\E r \in Runs : Lapse(r))
  PROVE  TypeOK'
<1>1. ASSUME NEW w \in Workers, AbandonPublication(w) \/ AbandonRun(w) PROVE TypeOK'
  <2>1. UNCHANGED dbVars /\ Done(w)
    BY <1>1 DEF AbandonPublication, AbandonRun
  <2>2. RowsTyped'
    BY <2>1 DEF TypeOK, RowsTyped
  <2>3. WorkersTyped'
    BY <2>1, DoneTypes DEF TypeOK
  <2> QED
    BY <2>2, <2>3 DEF TypeOK
<1>2. ASSUME NEW w \in Workers, Crash(w) PROVE TypeOK'
  BY <1>2 DEF Crash, TypeOK, RowsTyped, WorkersTyped, Goto
<1>3. ASSUME NEW r \in Runs, Lapse(r) PROVE TypeOK'
  BY <1>3 DEF Lapse, TypeOK, RowsTyped, WorkersTyped, LeaseState
<1> QED
  BY <1>1, <1>2, <1>3 DEF FaultStep

\* Every variable keeps its type, in every instance.
THEOREM TypeCorrect == Spec => []TypeOK
<1>1. Init => TypeOK
  BY ConstantsAssumption
     DEF Init, TypeOK, RowsTyped, WorkersTyped, SessionStatus, MessageStatus, RunStatus, LeaseState
<1>2. TypeOK /\ [Next]_vars => TypeOK'
  <2> SUFFICES ASSUME TypeOK, [Next]_vars PROVE TypeOK'
    OBVIOUS
  <2>1. CASE UNCHANGED vars
    BY <2>1 DEF vars, TypeOK, RowsTyped, WorkersTyped
  <2> QED
    BY <2>1, UserStepTypes, PollStepTypes, ExecuteStepTypes, SettleStepTypes,
       PublishStepTypes, OtherStepTypes DEF Next
<1> QED
  BY <1>1, <1>2, PTL DEF Spec

-----------------------------------------------------------------------------
(* The messages in flight and the active runs.                             *)

\* A worker past its claim has a run.
BusyHasJob ==
  \A w \in Workers : pc[w] \notin {"poll", "recover", "claim", "down"} => job[w] \in Runs

\* The messages in flight and the active runs of a session agree.
QueueInv == OneActiveRun /\ NoStrandedMessage /\ ActiveRunHasItsMessages
\* The inductive invariant.
IInv == TypeOK /\ BusyHasJob /\ QueueInv

\* Messages that are not in flight come and go without the runs.
LEMMA QueueChanges ==
  ASSUME TypeOK, QueueInv, UNCHANGED <<runStatus, runSession, runMessages>>,
         \A m \in Messages : \/ msgStatus'[m] = msgStatus[m]
                             \/ msgStatus[m] \notin InFlight /\ msgStatus'[m] \notin InFlight
  PROVE  QueueInv'
<1>1. OneActiveRun'
  BY DEF QueueInv, OneActiveRun
<1>2. NoStrandedMessage'
  BY DEF QueueInv, NoStrandedMessage, ActiveRuns
<1>3. ActiveRunHasItsMessages'
  <2> SUFFICES ASSUME NEW r \in Runs, runStatus[r] \in Active, NEW m \in Messages, m \in runMessages[r]
               PROVE  msgStatus'[m] = msgStatus[m]
    BY DEF QueueInv, ActiveRunHasItsMessages, TypeOK, RowsTyped
  <2>1. msgStatus[m] = "cancelling" \/ msgStatus[m] = "processing"
    BY DEF QueueInv, ActiveRunHasItsMessages
  <2> QED
    BY <2>1 DEF InFlight
<1> QED
  BY <1>1, <1>2, <1>3 DEF QueueInv

\* The active runs S end, and their messages are no longer in flight.
LEMMA RunsEnd ==
  ASSUME TypeOK, QueueInv, UNCHANGED <<runSession, runMessages>>,
         NEW S \in SUBSET Runs,
         \A r \in S : runStatus[r] \in Active /\ runStatus'[r] \notin Active,
         \A r \in Runs \ S : runStatus'[r] = runStatus[r],
         \A m \in Messages :
           IF msgStatus[m] \in InFlight /\ \E r \in S : m \in runMessages[r]
           THEN msgStatus'[m] \notin InFlight
           ELSE msgStatus'[m] = msgStatus[m]
  PROVE  QueueInv'
<1>1. OneActiveRun'
  BY DEF QueueInv, OneActiveRun
<1>2. NoStrandedMessage'
  <2> SUFFICES ASSUME NEW m \in Messages, msgStatus'[m] \in InFlight
               PROVE  \E r \in Runs : /\ runSession[r] = SessionOf[m]
                                      /\ runStatus'[r] \in Active
                                      /\ m \in runMessages[r]
    BY DEF NoStrandedMessage, ActiveRuns
  <2>1. msgStatus[m] \in InFlight /\ \A r \in S : m \notin runMessages[r]
    OBVIOUS
  <2>2. PICK r \in Runs : runSession[r] = SessionOf[m] /\ runStatus[r] \in Active /\ m \in runMessages[r]
    BY <2>1 DEF QueueInv, NoStrandedMessage, ActiveRuns
  <2>3. r \notin S
    BY <2>1, <2>2
  <2> QED
    BY <2>2, <2>3
<1>3. ActiveRunHasItsMessages'
  <2> SUFFICES ASSUME NEW r \in Runs, runStatus'[r] \in Active
               PROVE  /\ runMessages[r] # {}
                      /\ \A m \in runMessages[r] :
                           /\ SessionOf[m] = runSession[r]
                           /\ msgStatus'[m] = IF runStatus'[r] = "cancelling"
                                              THEN "cancelling" ELSE "processing"
    BY DEF ActiveRunHasItsMessages
  <2>1. r \notin S /\ runStatus'[r] = runStatus[r] /\ runStatus[r] \in Active
    OBVIOUS
  <2>2. runMessages[r] # {}
    BY <2>1 DEF QueueInv, ActiveRunHasItsMessages
  <2>3. ASSUME NEW m \in runMessages[r] PROVE SessionOf[m] = runSession[r] /\ msgStatus'[m] = msgStatus[m]
    <3>1. m \in Messages
      BY DEF TypeOK, RowsTyped
    <3>2. SessionOf[m] = runSession[r]
      BY <2>1 DEF QueueInv, ActiveRunHasItsMessages
    <3>3. ASSUME NEW q \in S, m \in runMessages[q] PROVE FALSE
      <4>1. q \in Runs /\ runStatus[q] \in Active /\ runSession[q] = SessionOf[m]
        BY <3>3 DEF QueueInv, ActiveRunHasItsMessages
      <4> QED
        BY <2>1, <3>2, <4>1 DEF QueueInv, OneActiveRun
    <3> QED
      BY <3>1, <3>2, <3>3
  <2> QED
    BY <2>1, <2>2, <2>3 DEF QueueInv, ActiveRunHasItsMessages
<1> QED
  BY <1>1, <1>2, <1>3 DEF QueueInv

\* The calls of the users.
LEMMA UserStepSafe == ASSUME TypeOK, QueueInv, UserStep PROVE QueueInv'
<1>1. ASSUME NEW m \in Messages, msgStatus[m] \notin InFlight, JoinQueue(m) PROVE QueueInv'
  <2>1. msgStatus' = [msgStatus EXCEPT ![m] = "pending"]
        /\ UNCHANGED <<runStatus, runSession, runMessages>>
    BY <1>1 DEF JoinQueue
  <2> QED
    BY <1>1, <2>1, QueueChanges DEF InFlight, TypeOK, RowsTyped
<1>2. ASSUME NEW m \in Messages, EnqueueMessage(m) \/ ActivateScheduled(m) \/ RetryScheduled(m)
      PROVE  QueueInv'
  <2>1. msgStatus[m] \notin InFlight /\ JoinQueue(m)
    BY <1>2 DEF EnqueueMessage, ActivateScheduled, RetryScheduled, Retryable, InFlight
  <2> QED
    BY <1>1, <2>1
<1>3. ASSUME NEW m \in Messages, CancelPending(m) PROVE QueueInv'
  <2>1. msgStatus[m] = "pending" /\ msgStatus' = [msgStatus EXCEPT ![m] = "cancelled"]
        /\ UNCHANGED <<runStatus, runSession, runMessages>>
    BY <1>3 DEF CancelPending
  <2> QED
    BY <2>1, QueueChanges DEF InFlight, TypeOK, RowsTyped
<1>4. ASSUME NEW s \in Sessions, Archive(s) PROVE QueueInv'
  <2>1. msgStatus' = [m \in Messages |-> IF m \in Pending(s) THEN "cancelled" ELSE msgStatus[m]]
        /\ UNCHANGED <<runStatus, runSession, runMessages>>
    BY <1>4 DEF Archive
  <2> QED
    BY <2>1, QueueChanges DEF InFlight, Pending
<1>5. ASSUME NEW s \in Sessions, RequestCancel(s) PROVE QueueInv'
  <2>1. PICK r \in ActiveRuns(s) :
          /\ runStatus[r] \in {"running", "cancelling"}
          /\ runStatus' = [runStatus EXCEPT ![r] = "cancelling"]
          /\ msgStatus' = [m \in Messages |->
               IF m \in runMessages[r] /\ msgStatus[m] \in InFlight
               THEN "cancelling" ELSE msgStatus[m]]
          /\ UNCHANGED <<runSession, runMessages>>
    BY <1>5 DEF RequestCancel
  <2>2. r \in Runs /\ runStatus[r] \in Active /\ "cancelling" \in Active
    BY DEF ActiveRuns, Active
  <2>3. \A q \in Runs : runStatus'[q] \in Active <=> runStatus[q] \in Active
    BY <2>1, <2>2 DEF TypeOK, RowsTyped
  <2>4. \A m \in Messages : msgStatus'[m] \in InFlight <=> msgStatus[m] \in InFlight
    BY <2>1 DEF InFlight
  <2>5. OneActiveRun'
    BY <2>1, <2>3 DEF QueueInv, OneActiveRun
  <2>6. NoStrandedMessage'
    BY <2>1, <2>3, <2>4 DEF QueueInv, NoStrandedMessage, ActiveRuns
  <2>7. ActiveRunHasItsMessages'
    <3> SUFFICES ASSUME NEW q \in Runs, runStatus[q] \in Active, NEW m \in Messages, m \in runMessages[q]
                 PROVE  msgStatus'[m] = IF runStatus'[q] = "cancelling" THEN "cancelling" ELSE "processing"
      BY <2>1, <2>3 DEF QueueInv, ActiveRunHasItsMessages, TypeOK, RowsTyped
    <3>1. SessionOf[m] = runSession[q]
          /\ msgStatus[m] = IF runStatus[q] = "cancelling" THEN "cancelling" ELSE "processing"
      BY DEF QueueInv, ActiveRunHasItsMessages
    <3>2. CASE q = r
      BY <2>1, <2>2, <3>1, <3>2 DEF InFlight, TypeOK, RowsTyped
    <3>3. CASE q # r
      <4>1. m \notin runMessages[r]
        BY <2>2, <3>1, <3>3 DEF QueueInv, ActiveRunHasItsMessages, OneActiveRun
      <4> QED
        BY <2>1, <2>2, <3>1, <3>3, <4>1 DEF TypeOK, RowsTyped
    <3> QED
      BY <3>2, <3>3
  <2> QED
    BY <2>5, <2>6, <2>7 DEF QueueInv
<1>6. ASSUME UNCHANGED <<msgStatus, runStatus, runSession, runMessages>> PROVE QueueInv'
  BY <1>6, QueueChanges
<1> QED
  BY <1>2, <1>3, <1>4, <1>5, <1>6
     DEF UserStep, EditSteering, Unarchive, SetQueuePaused

\* Settling the run r: whatever status it ends with.
LEMMA FinishRunSafe ==
  ASSUME TypeOK, QueueInv, NEW r \in Runs, NEW w \in Workers,
         NEW status \in {"completed", "failed", "cancelled"},
         CanFinish(w, r, status), FinishRun(r, status)
  PROVE  QueueInv'
<1>1. runStatus[r] \in Active /\ status \notin Active /\ status \notin InFlight
  BY DEF CanFinish, FinishesFrom, Active, InFlight
<1>2. /\ runStatus' = [runStatus EXCEPT ![r] = status]
      /\ msgStatus' = [m \in Messages |->
           IF m \in runMessages[r] /\ msgStatus[m] \in InFlight THEN status ELSE msgStatus[m]]
      /\ UNCHANGED <<runSession, runMessages>>
  BY DEF FinishRun
<1> DEFINE S == {r}
<1>3. \A q \in S : runStatus[q] \in Active /\ runStatus'[q] \notin Active
  BY <1>1, <1>2 DEF TypeOK, RowsTyped
<1>4. \A q \in Runs \ S : runStatus'[q] = runStatus[q]
  BY <1>2 DEF TypeOK, RowsTyped
<1>5. \A m \in Messages :
        IF msgStatus[m] \in InFlight /\ \E q \in S : m \in runMessages[q]
        THEN msgStatus'[m] \notin InFlight
        ELSE msgStatus'[m] = msgStatus[m]
  BY <1>1, <1>2
<1> HIDE DEF S
<1>6. S \in SUBSET Runs
  BY DEF S
<1> QED
  BY <1>2, <1>3, <1>4, <1>5, <1>6, RunsEnd

\* A poll takes over, recovers or claims.
LEMMA PollStepSafe == ASSUME TypeOK, QueueInv, NEW w \in Workers, PollStep(w) PROVE QueueInv'
<1>1. CASE RecoverStaleRuns(w)
  <2>1. PICK S \in SUBSET {r \in Runs : Recoverable(r) /\ MaySeeExpired(r)} :
          /\ runStatus' = [r \in Runs |-> IF r \in S THEN "stale" ELSE runStatus[r]]
          /\ msgStatus' = [m \in Messages |->
               IF msgStatus[m] \in RequeuedFrom /\ \E r \in S : m \in runMessages[r]
               THEN RequeuedAs ELSE msgStatus[m]]
          /\ UNCHANGED <<runSession, runMessages>>
    BY <1>1 DEF RecoverStaleRuns
  <2>2. S \in SUBSET Runs
    OBVIOUS
  <2>3. \A r \in S : runStatus[r] \in Active /\ runStatus'[r] \notin Active
    BY <2>1 DEF Recoverable, Active
  <2>4. \A r \in Runs \ S : runStatus'[r] = runStatus[r]
    BY <2>1
  <2>5. \A m \in Messages :
          IF msgStatus[m] \in InFlight /\ \E r \in S : m \in runMessages[r]
          THEN msgStatus'[m] \notin InFlight
          ELSE msgStatus'[m] = msgStatus[m]
    BY <2>1 DEF RequeuedFrom, RequeuedAs, InFlight
  <2> QED
    BY <2>1, <2>2, <2>3, <2>4, <2>5, RunsEnd
<1>2. CASE ClaimBatch(w)
  <2>1. PICK s \in Sessions, r \in Runs :
          /\ Claimable(s)
          /\ runStatus[r] = "absent"
          /\ msgStatus' = [m \in Messages |-> IF m \in Batch(s) THEN "processing" ELSE msgStatus[m]]
          /\ runStatus' = [runStatus EXCEPT ![r] = "running"]
          /\ runSession' = [runSession EXCEPT ![r] = s]
          /\ runMessages' = [runMessages EXCEPT ![r] = Batch(s)]
    BY <1>2 DEF ClaimBatch
  <2>2. \A q \in Runs : runStatus[q] \in Active => runSession[q] # s /\ q # r
    BY <2>1 DEF Claimable, Blocking, ActiveRuns, Active
  <2>3. \A q \in Runs \ {r} : /\ runStatus'[q] = runStatus[q]
                              /\ runSession'[q] = runSession[q]
                              /\ runMessages'[q] = runMessages[q]
    BY <2>1 DEF TypeOK, RowsTyped
  <2>4. /\ runStatus'[r] = "running"
        /\ runSession'[r] = s
        /\ runMessages'[r] = Batch(s)
        /\ "running" \in Active
    BY <2>1 DEF TypeOK, RowsTyped, Active
  <2>5. \A m \in Batch(s) : m \in Messages /\ SessionOf[m] = s /\ msgStatus[m] = "pending"
    BY DEF Batch, Pending
  <2>6. OneActiveRun'
    BY <2>2, <2>3, <2>4 DEF QueueInv, OneActiveRun
  <2>7. NoStrandedMessage'
    <3> SUFFICES ASSUME NEW m \in Messages, msgStatus'[m] \in InFlight
                 PROVE  \E q \in Runs : /\ runSession'[q] = SessionOf[m]
                                        /\ runStatus'[q] \in Active
                                        /\ m \in runMessages'[q]
      BY DEF NoStrandedMessage, ActiveRuns
    <3>1. CASE m \in Batch(s)
      BY <2>4, <2>5, <3>1
    <3>2. CASE m \notin Batch(s)
      <4>1. msgStatus[m] \in InFlight
        BY <2>1, <3>2
      <4>2. PICK q \in Runs : runSession[q] = SessionOf[m] /\ runStatus[q] \in Active /\ m \in runMessages[q]
        BY <4>1 DEF QueueInv, NoStrandedMessage, ActiveRuns
      <4> QED
        BY <2>2, <2>3, <4>2
    <3> QED
      BY <3>1, <3>2
  <2>8. ActiveRunHasItsMessages'
    <3> SUFFICES ASSUME NEW q \in Runs, runStatus'[q] \in Active
                 PROVE  /\ runMessages'[q] # {}
                        /\ \A m \in runMessages'[q] :
                             /\ SessionOf[m] = runSession'[q]
                             /\ msgStatus'[m] = IF runStatus'[q] = "cancelling"
                                                THEN "cancelling" ELSE "processing"
      BY DEF ActiveRunHasItsMessages
    <3>1. CASE q = r
      BY <2>1, <2>4, <2>5, <3>1 DEF Claimable
    <3>2. CASE q # r
      <4>1. runStatus[q] \in Active
        BY <2>3, <3>2
      <4>2. ASSUME NEW m \in runMessages[q] PROVE msgStatus'[m] = msgStatus[m]
        <5>1. m \in Messages
          BY DEF TypeOK, RowsTyped
        <5>2. SessionOf[m] = runSession[q]
          BY <4>1 DEF QueueInv, ActiveRunHasItsMessages
        <5>3. m \notin Batch(s)
          BY <2>2, <2>5, <4>1, <5>2
        <5> QED
          BY <2>1, <5>1, <5>3
      <4> QED
        BY <2>3, <3>2, <4>1, <4>2 DEF QueueInv, ActiveRunHasItsMessages
    <3> QED
      BY <3>1, <3>2
  <2> QED
    BY <2>6, <2>7, <2>8 DEF QueueInv
<1>3. ASSUME UNCHANGED <<msgStatus, runStatus, runSession, runMessages>> PROVE QueueInv'
  BY <1>3, QueueChanges
<1> QED
  BY <1>1, <1>2, <1>3 DEF PollStep, TakeOverCompletion, NoCompletionFound, NothingClaimed

\* Steering adds pending messages of the session to its running run.
LEMMA ClaimSteeringSafe ==
  ASSUME TypeOK, QueueInv, NEW w \in Workers, job[w] \in Runs, ClaimSteering(w)
  PROVE  QueueInv'
<1> DEFINE r == job[w]
<1>1. PICK S \in SUBSET Messages :
        /\ \A m \in S : SessionOf[m] = runSession[r] /\ msgStatus[m] = "pending"
        /\ msgStatus' = [m \in Messages |-> IF m \in S THEN "processing" ELSE msgStatus[m]]
        /\ runMessages' = [runMessages EXCEPT ![r] = @ \cup S]
        /\ UNCHANGED <<runStatus, runSession>>
  BY DEF ClaimSteering, Pending
<1>2. r \in Runs /\ runStatus[r] = "running" /\ "running" \in Active
  BY DEF ClaimSteering, Steerable, Active
<1> HIDE DEF r
<1>3. runMessages'[r] = runMessages[r] \cup S
  BY <1>1, <1>2 DEF TypeOK, RowsTyped
<1>4. \A q \in Runs \ {r} : runMessages'[q] = runMessages[q]
  BY <1>1 DEF TypeOK, RowsTyped
<1>5. OneActiveRun'
  BY <1>1 DEF QueueInv, OneActiveRun
<1>6. NoStrandedMessage'
  <2> SUFFICES ASSUME NEW m \in Messages, msgStatus'[m] \in InFlight
               PROVE  \E q \in Runs : /\ runSession[q] = SessionOf[m]
                                      /\ runStatus[q] \in Active
                                      /\ m \in runMessages'[q]
    BY <1>1 DEF NoStrandedMessage, ActiveRuns
  <2>1. CASE m \in S
    BY <1>1, <1>2, <1>3, <2>1
  <2>2. CASE m \notin S
    <3>1. msgStatus[m] \in InFlight
      BY <1>1, <2>2
    <3>2. PICK q \in Runs : runSession[q] = SessionOf[m] /\ runStatus[q] \in Active /\ m \in runMessages[q]
      BY <3>1 DEF QueueInv, NoStrandedMessage, ActiveRuns
    <3> QED
      BY <1>3, <1>4, <3>2
  <2> QED
    BY <2>1, <2>2
<1>7. ActiveRunHasItsMessages'
  <2> SUFFICES ASSUME NEW q \in Runs, runStatus[q] \in Active
               PROVE  /\ runMessages'[q] # {}
                      /\ \A m \in runMessages'[q] :
                           /\ SessionOf[m] = runSession[q]
                           /\ msgStatus'[m] = IF runStatus[q] = "cancelling"
                                              THEN "cancelling" ELSE "processing"
    BY <1>1 DEF ActiveRunHasItsMessages
  <2>1. ASSUME NEW m \in runMessages[q]
        PROVE  /\ SessionOf[m] = runSession[q]
               /\ msgStatus'[m] = IF runStatus[q] = "cancelling" THEN "cancelling" ELSE "processing"
    <3>1. m \in Messages
      BY DEF TypeOK, RowsTyped
    <3>2. SessionOf[m] = runSession[q]
      BY DEF QueueInv, ActiveRunHasItsMessages
    <3>3. msgStatus[m] = IF runStatus[q] = "cancelling" THEN "cancelling" ELSE "processing"
      BY DEF QueueInv, ActiveRunHasItsMessages
    <3>4. m \notin S
      BY <1>1, <3>3
    <3> QED
      BY <1>1, <3>1, <3>2, <3>3, <3>4
  <2>2. runMessages[q] # {}
    BY DEF QueueInv, ActiveRunHasItsMessages
  <2>3. CASE q = r
    BY <1>1, <1>2, <1>3, <2>1, <2>2, <2>3
  <2>4. CASE q # r
    BY <1>4, <2>1, <2>2, <2>4
  <2> QED
    BY <2>3, <2>4
<1> QED
  BY <1>5, <1>6, <1>7 DEF QueueInv

\* beginRunCompletion moves the run to completing and leaves its messages alone.
LEMMA BeginCompletionSafe ==
  ASSUME TypeOK, QueueInv, NEW w \in Workers, job[w] \in Runs, BeginCompletion(w)
  PROVE  QueueInv'
<1>1. /\ runStatus[job[w]] = "running"
      /\ runStatus' = [runStatus EXCEPT ![job[w]] = "completing"]
      /\ UNCHANGED <<msgStatus, runSession, runMessages>>
  BY DEF BeginCompletion
<1>2. \A q \in Runs : runStatus'[q] \in Active <=> runStatus[q] \in Active
  BY <1>1 DEF Active, TypeOK, RowsTyped
<1>3. \A q \in Runs : runStatus'[q] = "cancelling" <=> runStatus[q] = "cancelling"
  BY <1>1 DEF TypeOK, RowsTyped
<1> QED
  BY <1>1, <1>2, <1>3
     DEF QueueInv, OneActiveRun, NoStrandedMessage, ActiveRunHasItsMessages, ActiveRuns

\* The other calls of a worker leave the queue and the runs' messages alone.
LEMMA WorkStepSafe ==
  ASSUME TypeOK, BusyHasJob, QueueInv, NEW w \in Workers,
         ExecuteStep(w) \/ SettleStep(w) \/ PublishStep(w) \/ FaultStep(w)
  PROVE  QueueInv'
<1>1. CASE ClaimSteering(w)
  <2>1. job[w] \in Runs
    BY <1>1 DEF ClaimSteering, BusyHasJob
  <2> QED
    BY <1>1, <2>1, ClaimSteeringSafe
<1>2. CASE BeginCompletion(w)
  <2>1. job[w] \in Runs
    BY <1>2 DEF BeginCompletion, BusyHasJob
  <2> QED
    BY <1>2, <2>1, BeginCompletionSafe
<1>3. CASE FinalizeCancellation(w) \/ FailRun(w) \/ CompleteRun(w)
  <2>1. job[w] \in Runs
    BY <1>3 DEF FinalizeCancellation, FailRun, CompleteRun, BusyHasJob
  <2>2. \E status \in {"completed", "failed", "cancelled"} :
          CanFinish(w, job[w], status) /\ FinishRun(job[w], status)
    BY <1>3 DEF FinalizeCancellation, FailRun, CompleteRun
  <2> QED
    BY <2>1, <2>2, FinishRunSafe
<1>4. ASSUME UNCHANGED <<msgStatus, runStatus, runSession, runMessages>> PROVE QueueInv'
  BY <1>4, QueueChanges
<1>5. CASE \/ Launch(w) \/ Heartbeat(w) \/ HeartbeatLost(w) \/ PollCancellation(w)
           \/ HandOver(w) \/ HandOverFails(w) \/ RunnerReturns(w) \/ RunnerAborts(w)
           \/ RunThrows(w)
  BY <1>4, <1>5
     DEF Launch, Heartbeat, HeartbeatLost, PollCancellation, CancelSeen, HandOver, HandOverFails,
         RunnerReturns, RunnerAborts, RunThrows, RunnerEnds
<1>6. CASE \/ CheckCancellation(w) \/ FinalizeMisses(w) \/ CompletionMisses(w) \/ FailMisses(w)
  BY <1>4, <1>6 DEF CheckCancellation, FinalizeMisses, CompletionMisses, FailMisses, Misses
<1>7. CASE \/ RenewForPublication(w) \/ LookForResponse(w) \/ AppendResponse(w)
           \/ CheckOwnership(w) \/ EnqueueCallback(w)
  BY <1>4, <1>7
     DEF RenewForPublication, LookForResponse, AppendResponse, CheckOwnership, EnqueueCallback
<1>8. CASE FaultStep(w)
  BY <1>4, <1>8 DEF FaultStep, AbandonPublication, AbandonRun, Crash
<1> QED
  BY <1>1, <1>2, <1>3, <1>5, <1>6, <1>7, <1>8 DEF ExecuteStep, SettleStep, PublishStep

\* A worker gets its run when it claims or takes over, and keeps it until Done.
LEMMA BusyHasJobKept ==
  ASSUME TypeOK, BusyHasJob, [Next]_vars
  PROVE  BusyHasJob'
<1> DEFINE Free == {"poll", "recover", "claim", "down"}
<1>1. ASSUME NEW w \in Workers, \A v \in Workers \ {w} : pc'[v] = pc[v] /\ job'[v] = job[v],
             pc'[w] \in Free \/ job'[w] \in Runs
      PROVE  BusyHasJob'
  BY <1>1 DEF BusyHasJob
<1>2. CASE UNCHANGED <<pc, job>>
  BY <1>2 DEF BusyHasJob
<1> USE DEF TypeOK, WorkersTyped, Goto
<1>3. ASSUME NEW w \in Workers, Done(w) PROVE BusyHasJob'
  BY <1>1, <1>3 DEF Done
<1>4. ASSUME NEW w \in Workers, PollStep(w) PROVE BusyHasJob'
  <2>1. CASE \E r \in Runs : TakeOverCompletion(w, r)
    BY <1>1, <2>1 DEF TakeOverCompletion
  <2>2. CASE NoCompletionFound(w) \/ RecoverStaleRuns(w) \/ NothingClaimed(w)
    BY <1>1, <2>2 DEF NoCompletionFound, RecoverStaleRuns, NothingClaimed
  <2>3. CASE ClaimBatch(w)
    <3>1. PICK r \in Runs, replied \in BOOLEAN :
            /\ job' = [job EXCEPT ![w] = IF replied THEN r ELSE NoRun]
            /\ pc' = [pc EXCEPT ![w] = IF replied THEN "launch" ELSE "poll"]
      BY <2>3 DEF ClaimBatch
    <3> QED
      BY <1>1, <3>1
  <2> QED
    BY <1>4, <2>1, <2>2, <2>3 DEF PollStep
\* Every other call keeps job, and pc was busy before it.
<1>5. ASSUME NEW w \in Workers, job[w] \in Runs, job' = job,
             \A v \in Workers \ {w} : pc'[v] = pc[v]
      PROVE  BusyHasJob'
  BY <1>1, <1>5
<1>6. ASSUME NEW w \in Workers, ExecuteStep(w) PROVE BusyHasJob'
  <2>1. job[w] \in Runs
    BY <1>6 DEF BusyHasJob, ExecuteStep, Launch, Heartbeat, HeartbeatLost, PollCancellation, CancelSeen,
                ClaimSteering, HandOver, HandOverFails, RunnerReturns, RunnerAborts, RunThrows,
                Executing, Publishing
  <2>2. job' = job /\ \A v \in Workers \ {w} : pc'[v] = pc[v]
    BY <1>6 DEF ExecuteStep, Launch, Heartbeat, HeartbeatLost, PollCancellation, CancelSeen,
                ClaimSteering, HandOver, HandOverFails, RunnerReturns, RunnerAborts, RunThrows,
                RunnerEnds
  <2> QED
    BY <1>5, <2>1, <2>2
<1>7. ASSUME NEW w \in Workers, SettleStep(w) \/ PublishStep(w) PROVE BusyHasJob'
  <2>1. job[w] \in Runs
    BY <1>7 DEF BusyHasJob, SettleStep, CheckCancellation, FinalizeCancellation, FinalizeMisses,
                BeginCompletion, CompletionMisses, FailRun, FailMisses, PublishStep,
                RenewForPublication, LookForResponse, AppendResponse, CheckOwnership,
                EnqueueCallback, CompleteRun
  <2>2. Done(w) \/ (job' = job /\ \A v \in Workers \ {w} : pc'[v] = pc[v])
    BY <1>7 DEF SettleStep, CheckCancellation, FinalizeCancellation, FinalizeMisses,
                BeginCompletion, CompletionMisses, FailRun, FailMisses, Misses, PublishStep,
                RenewForPublication, LookForResponse, AppendResponse, CheckOwnership,
                EnqueueCallback, CompleteRun
  <2> QED
    BY <1>3, <1>5, <2>1, <2>2
<1>8. ASSUME NEW w \in Workers, FaultStep(w) PROVE BusyHasJob'
  <2>1. Done(w) \/ (pc' = [pc EXCEPT ![w] = "down"] /\ job' = [job EXCEPT ![w] = NoRun])
    BY <1>8 DEF FaultStep, AbandonPublication, AbandonRun, Crash
  <2> QED
    BY <1>1, <1>3, <2>1
<1>9. ASSUME UserStep \/ (\E r \in Runs : Lapse(r)) PROVE BusyHasJob'
  BY <1>2, <1>9 DEF UserStep, EnqueueMessage, ActivateScheduled, RetryScheduled, JoinQueue,
                    EditSteering, CancelPending, RequestCancel, Archive, Unarchive,
                    SetQueuePaused, Lapse
<1> QED
  BY <1>2, <1>4, <1>6, <1>7, <1>8, <1>9 DEF Next, vars

\* The types, the workers' hold on their runs, and the agreement of sessions,
\* runs and messages hold in every reachable state: the inductive invariant.
THEOREM QueueInvariant == Spec => []IInv
<1>1. Init => IInv
  <2> SUFFICES ASSUME Init PROVE IInv
    OBVIOUS
  <2>1. TypeOK
    BY ConstantsAssumption
       DEF Init, TypeOK, RowsTyped, WorkersTyped, SessionStatus, MessageStatus, RunStatus, LeaseState
  <2>2. BusyHasJob
    BY DEF Init, BusyHasJob
  <2>3. QueueInv
    BY DEF Init, QueueInv, OneActiveRun, NoStrandedMessage, ActiveRunHasItsMessages, Active, InFlight
  <2> QED
    BY <2>1, <2>2, <2>3 DEF IInv
<1>2. TypeOK /\ TypeOK' /\ IInv /\ [Next]_vars => IInv'
  <2> SUFFICES ASSUME TypeOK', IInv, [Next]_vars PROVE IInv'
    OBVIOUS
  <2>1. TypeOK /\ BusyHasJob /\ QueueInv
    BY DEF IInv
  <2>2. BusyHasJob'
    BY <2>1, BusyHasJobKept
  <2>3. CASE UNCHANGED vars \/ (\E r \in Runs : Lapse(r))
    <3>1. UNCHANGED <<msgStatus, runStatus, runSession, runMessages>>
      BY <2>3 DEF vars, Lapse
    <3>2. QueueInv'
      BY <2>1, <3>1, QueueChanges
    <3> QED
      BY <2>2, <3>2 DEF IInv
  <2>4. CASE UserStep
    BY <2>1, <2>2, <2>4, UserStepSafe DEF IInv
  <2>5. CASE \E w \in Workers : PollStep(w)
    BY <2>1, <2>2, <2>5, PollStepSafe DEF IInv
  <2>6. CASE \E w \in Workers : ExecuteStep(w) \/ SettleStep(w) \/ PublishStep(w) \/ FaultStep(w)
    BY <2>1, <2>2, <2>6, WorkStepSafe DEF IInv
  <2> QED
    BY <2>3, <2>4, <2>5, <2>6 DEF Next
<1> QED
  BY <1>1, <1>2, TypeCorrect, PTL DEF Spec

\* A session is processed by one run at a time (claimNextPendingMessageBatch,
\* recoverStaleRuns and claimExpiredRunCompletion), for any number of workers.
THEOREM OneRunPerSession == Spec => []OneActiveRun
  BY QueueInvariant, PTL DEF IInv, QueueInv

\* No message stays in flight without an active run to settle or recover it.
THEOREM NoMessageStranded == Spec => []NoStrandedMessage
  BY QueueInvariant, PTL DEF IInv, QueueInv

\* finishRunBatch and requestRunCancellation find all messages of an active run
\* in the status that goes with the run's.
THEOREM RunHasItsMessages == Spec => []ActiveRunHasItsMessages
  BY QueueInvariant, PTL DEF IInv, QueueInv

-----------------------------------------------------------------------------
(***************************************************************************)
(* What a run published is never taken back, and a message is answered     *)
(* once.  The guards that keep an old owner from failing, cancelling or    *)
(* requeuing a published run only look at the run's row: what makes them   *)
(* enough is that the owner of such a run is publishing it too, or works   *)
(* on something else.                                                      *)
(***************************************************************************)

\* A run is touched once it has published something, or somebody publishes it.
Touched(r) ==
  \/ responded[r] \/ callbackQueued[r]
  \/ \E w \in Workers : pc[w] \in Publishing /\ job[w] = r

\* A touched run can only complete.
TouchedCompletes == \A r \in Runs : Touched(r) => runStatus[r] \in {"completing", "completed"}

\* A worker that works on a touched run it owns is publishing it: it is not
\* about to fail the run after a lost reply of beginRunCompletion.
OwnersPublish ==
  \A r \in Runs, w \in Workers :
    Touched(r) /\ job[w] = r /\ runOwner[r] = w => pc[w] \in Publishing

PublishInv == TouchedCompletes /\ OwnersPublish

\* Steps that leave the status of runs alone, and publish nothing new.
LEMMA PublishChanges ==
  ASSUME PublishInv,
         \A r \in Runs : Touched(r)' => Touched(r) /\ runStatus'[r] = runStatus[r],
         \A r \in Runs, w \in Workers :
           Touched(r) /\ job'[w] = r /\ runOwner'[r] = w =>
             \/ job[w] = r /\ runOwner[r] = w /\ (pc[w] \in Publishing => pc'[w] \in Publishing)
             \/ pc'[w] \in Publishing
  PROVE  PublishInv'
  BY DEF PublishInv, TouchedCompletes, OwnersPublish

\* A step of w that leads to no call of the publication touches no run.
LEMMA NotTouched ==
  ASSUME NEW w \in Workers, UNCHANGED <<responded, callbackQueued>>,
         \A v \in Workers \ {w} : pc'[v] = pc[v] /\ job'[v] = job[v],
         pc'[w] \in Publishing => pc[w] \in Publishing /\ job'[w] = job[w]
  PROVE  \A r \in Runs : Touched(r)' => Touched(r)
  BY DEF Touched

\* A user's call, and time, leave touched runs alone.
LEMMA UserPublish ==
  ASSUME TypeOK, PublishInv, UserStep \/ (\E r \in Runs : Lapse(r)) \/ UNCHANGED vars
  PROVE  PublishInv'
<1>1. UNCHANGED <<responded, callbackQueued, pc, job, runOwner>>
  BY DEF UserStep, EnqueueMessage, ActivateScheduled, RetryScheduled, JoinQueue, EditSteering,
         CancelPending, RequestCancel, Archive, Unarchive, SetQueuePaused, Lapse, vars
<1>2. \A r \in Runs : Touched(r)' => Touched(r)
  BY <1>1 DEF Touched
<1>3. \A r \in Runs : runStatus[r] \in {"completing", "completed"} => runStatus'[r] = runStatus[r]
  <2>1. CASE \E s \in Sessions : RequestCancel(s)
    BY <2>1 DEF RequestCancel, TypeOK, RowsTyped
  <2>2. CASE UNCHANGED runStatus
    BY <2>2
  <2> QED
    BY <2>1, <2>2
       DEF UserStep, EnqueueMessage, ActivateScheduled, RetryScheduled, JoinQueue, EditSteering,
           CancelPending, Archive, Unarchive, SetQueuePaused, Lapse, vars
<1>4. \A r \in Runs : Touched(r)' => Touched(r) /\ runStatus'[r] = runStatus[r]
  BY <1>2, <1>3 DEF PublishInv, TouchedCompletes
<1> QED
  BY <1>1, <1>4, PublishChanges

\* A worker settles a run of its own: as completed if it is touched.
LEMMA FinishPublish ==
  ASSUME TypeOK, PublishInv, NEW w \in Workers, NEW r \in Runs,
         NEW status \in {"completed", "failed", "cancelled"},
         job[w] = r, status = "failed" => pc[w] \notin Publishing,
         CanFinish(w, r, status), FinishRun(r, status), Done(w)
  PROVE  PublishInv'
<1>1. /\ runStatus' = [runStatus EXCEPT ![r] = status]
      /\ runOwner' = [runOwner EXCEPT ![r] = NoWorker]
      /\ UNCHANGED <<responded, callbackQueued>>
  BY DEF FinishRun
<1>2. /\ pc' = [pc EXCEPT ![w] = "poll"]
      /\ job' = [job EXCEPT ![w] = NoRun]
  BY DEF Done, Goto
<1>3. \A q \in Runs : Touched(q)' => Touched(q)
  BY <1>1, <1>2, NotTouched DEF TypeOK, WorkersTyped, Publishing
<1>4. \A q \in Runs \ {r} : runStatus'[q] = runStatus[q] /\ runOwner'[q] = runOwner[q]
  BY <1>1 DEF TypeOK, RowsTyped
<1>5. runStatus'[r] = status /\ runOwner'[r] = NoWorker
  BY <1>1 DEF TypeOK, RowsTyped
<1>6. Touched(r) => status = "completed"
  BY DEF PublishInv, TouchedCompletes, OwnersPublish, CanFinish, FinishesFrom, Holds
<1>7. TouchedCompletes'
  BY <1>3, <1>4, <1>5, <1>6 DEF PublishInv, TouchedCompletes
<1>8. OwnersPublish'
  <2> SUFFICES ASSUME NEW q \in Runs, NEW v \in Workers,
                      Touched(q)', job'[v] = q, runOwner'[q] = v
               PROVE  pc'[v] \in Publishing
    BY DEF OwnersPublish
  <2>1. q # r /\ v # w
    BY <1>2, <1>5, ConstantsAssumption DEF TypeOK, WorkersTyped
  <2>2. Touched(q) /\ job[v] = q /\ runOwner[q] = v /\ pc'[v] = pc[v]
    BY <1>2, <1>3, <1>4, <2>1 DEF TypeOK, WorkersTyped
  <2> QED
    BY <2>2 DEF PublishInv, OwnersPublish
<1> QED
  BY <1>7, <1>8 DEF PublishInv

\* A poll takes over a completion, recovers runs nobody touched, or claims.
LEMMA PollPublish ==
  ASSUME TypeOK, PublishInv, NEW w \in Workers, PollStep(w)
  PROVE  PublishInv'
<1> USE DEF TypeOK, RowsTyped, WorkersTyped, Goto
<1>1. UNCHANGED <<responded, callbackQueued>> /\ pc[w] \notin Publishing
      /\ \A v \in Workers \ {w} : pc'[v] = pc[v] /\ job'[v] = job[v]
  BY DEF PollStep, TakeOverCompletion, NoCompletionFound, RecoverStaleRuns, ClaimBatch,
         NothingClaimed, Publishing
<1>2. CASE \E r \in Runs : TakeOverCompletion(w, r)
  <2>1. PICK r \in Runs : TakeOverCompletion(w, r)
    BY <1>2
  <2>2. /\ runStatus[r] = "completing" /\ runStatus' = runStatus
        /\ runOwner' = [runOwner EXCEPT ![r] = w]
        /\ job'[w] = r /\ pc'[w] = "publish" /\ "publish" \in Publishing
    BY <2>1 DEF TakeOverCompletion, TakeableBy, Publishing
  <2>3. \A q \in Runs \ {r} : runOwner'[q] = runOwner[q] /\ (Touched(q)' => Touched(q))
    BY <1>1, <2>2 DEF Touched
  <2>4. TouchedCompletes'
    BY <2>2, <2>3 DEF PublishInv, TouchedCompletes
  <2>5. OwnersPublish'
    BY <1>1, <2>2, <2>3 DEF PublishInv, OwnersPublish
  <2> QED
    BY <2>4, <2>5 DEF PublishInv
<1>3. CASE NoCompletionFound(w) \/ RecoverStaleRuns(w) \/ ClaimBatch(w) \/ NothingClaimed(w)
  <2>1. pc'[w] \notin Publishing
    BY <1>3 DEF NoCompletionFound, RecoverStaleRuns, ClaimBatch, NothingClaimed, Publishing
  <2>2. \A r \in Runs : Touched(r)' => Touched(r)
    BY <1>1, <2>1, NotTouched
  <2>3. \A r \in Runs : runStatus[r] \in {"completing", "completed"} =>
          runStatus'[r] = runStatus[r] /\ runOwner'[r] = runOwner[r] /\ (job'[w] = r => job[w] = r)
    <3>1. CASE RecoverStaleRuns(w)
      BY <3>1 DEF RecoverStaleRuns, Recoverable
    <3>2. CASE ClaimBatch(w)
      <4>1. PICK r \in Runs, replied \in BOOLEAN :
              /\ runStatus[r] = "absent"
              /\ runStatus' = [runStatus EXCEPT ![r] = "running"]
              /\ runOwner' = [runOwner EXCEPT ![r] = w]
              /\ job' = [job EXCEPT ![w] = IF replied THEN r ELSE NoRun]
        BY <3>2 DEF ClaimBatch
      <4> QED
        BY <4>1, ConstantsAssumption
    <3> QED
      BY <1>3, <3>1, <3>2 DEF NoCompletionFound, NothingClaimed
  <2>4. \A r \in Runs : Touched(r) => /\ runStatus'[r] = runStatus[r]
                                      /\ runOwner'[r] = runOwner[r]
                                      /\ (job'[w] = r => job[w] = r)
    BY <2>3 DEF PublishInv, TouchedCompletes
  <2> QED
    BY <1>1, <2>2, <2>4, PublishChanges
<1> QED
  BY <1>2, <1>3 DEF PollStep

\* A worker goes on to a call outside the publication, and changes no status.
LEMMA WorkerGoesOn ==
  ASSUME PublishInv, NEW w \in Workers, UNCHANGED <<responded, callbackQueued, runStatus, runOwner>>,
         \A v \in Workers \ {w} : pc'[v] = pc[v] /\ job'[v] = job[v],
         job'[w] = job[w] \/ job'[w] \notin Runs,
         IF pc[w] \in Publishing THEN (pc'[w] \in Publishing /\ job'[w] = job[w]) \/ job'[w] \notin Runs
                                 ELSE pc'[w] \notin Publishing,
         job'[w] \notin Runs => pc'[w] \notin Publishing
  PROVE  PublishInv'
<1>1. \A r \in Runs : Touched(r)' => Touched(r)
  BY NotTouched
<1> QED
  BY <1>1, PublishChanges

\* While its runner works, a worker publishes nothing.
LEMMA ExecutePublish ==
  ASSUME TypeOK, BusyHasJob, PublishInv, NEW w \in Workers, ExecuteStep(w)
  PROVE  PublishInv'
<1> USE DEF TypeOK, RowsTyped, WorkersTyped, Goto
<1>1. UNCHANGED <<responded, callbackQueued, runStatus, runOwner, job>>
      /\ \A v \in Workers \ {w} : pc'[v] = pc[v]
  BY DEF ExecuteStep, Launch, Heartbeat, HeartbeatLost, PollCancellation, CancelSeen, ClaimSteering, HandOver,
         HandOverFails, RunnerReturns, RunnerAborts, RunThrows, RunnerEnds
<1>2. pc'[w] = pc[w] \/ (pc[w] \notin Publishing /\ pc'[w] \notin Publishing)
  BY DEF ExecuteStep, Launch, Heartbeat, HeartbeatLost, PollCancellation, CancelSeen, ClaimSteering, HandOver,
         HandOverFails, RunnerReturns, RunnerAborts, RunThrows, RunnerEnds, Publishing
<1>3. job[w] \in Runs
  BY DEF BusyHasJob, ExecuteStep, Launch, Heartbeat, HeartbeatLost, PollCancellation, CancelSeen,
         ClaimSteering, HandOver, HandOverFails, RunnerReturns, RunnerAborts, RunThrows,
         Executing, Publishing
<1> QED
  BY <1>1, <1>2, <1>3, WorkerGoesOn

\* Settling: a run that begins its completion was not touched before.
LEMMA SettlePublish ==
  ASSUME TypeOK, BusyHasJob, PublishInv, NEW w \in Workers, SettleStep(w)
  PROVE  PublishInv'
<1> USE DEF TypeOK, RowsTyped, WorkersTyped, Goto
<1>1. job[w] \in Runs /\ pc[w] \notin Publishing
  BY DEF BusyHasJob, SettleStep, CheckCancellation, FinalizeCancellation, FinalizeMisses,
         BeginCompletion, CompletionMisses, FailRun, FailMisses, Publishing
<1>2. CASE FinalizeCancellation(w) \/ FailRun(w)
  BY <1>1, <1>2, FinishPublish DEF FinalizeCancellation, FailRun
<1>3. CASE BeginCompletion(w)
  <2> DEFINE r == job[w]
  <2>1. /\ runStatus[r] = "running" /\ runOwner[r] = w
        /\ runStatus' = [runStatus EXCEPT ![r] = "completing"]
        /\ UNCHANGED <<responded, callbackQueued, runOwner, job>>
        /\ \A v \in Workers \ {w} : pc'[v] = pc[v]
        /\ pc'[w] = "publish" \/ pc'[w] = "settle"
    BY <1>3 DEF BeginCompletion, Holds
  <2>2. ~Touched(r)
    BY <1>1, <2>1 DEF PublishInv, TouchedCompletes
  <2>3. r \in Runs /\ runStatus'[r] = "completing" /\ \A q \in Runs \ {r} : runStatus'[q] = runStatus[q]
    BY <1>1, <2>1
  <2>4. \A q \in Runs \ {r} : Touched(q)' => Touched(q)
    BY <2>1 DEF Touched
  <2>5. TouchedCompletes'
    BY <2>3, <2>4 DEF PublishInv, TouchedCompletes
  <2>6. OwnersPublish'
    <3> SUFFICES ASSUME NEW q \in Runs, NEW v \in Workers, Touched(q)', job[v] = q, runOwner[q] = v
                 PROVE  pc'[v] \in Publishing
      BY <2>1 DEF OwnersPublish
    <3>1. CASE q = r
      <4>1. v = w
        BY <2>1, <3>1
      <4>2. PICK u \in Workers : pc'[u] \in Publishing /\ job[u] = r
        BY <2>1, <2>2, <3>1 DEF Touched
      <4>3. u = w
        BY <1>1, <2>1, <2>2, <4>2 DEF Touched
      <4> QED
        BY <4>1, <4>2, <4>3
    <3>2. CASE q # r
      <4>1. pc[v] \in Publishing
        BY <2>4, <3>2 DEF PublishInv, OwnersPublish
      <4> QED
        BY <2>1, <3>2, <4>1
    <3> QED
      BY <3>1, <3>2
  <2> QED
    BY <2>5, <2>6 DEF PublishInv
<1>4. CASE CheckCancellation(w) \/ FinalizeMisses(w) \/ CompletionMisses(w) \/ FailMisses(w)
  <2>1. /\ UNCHANGED <<responded, callbackQueued, runStatus, runOwner>>
        /\ \A v \in Workers \ {w} : pc'[v] = pc[v] /\ job'[v] = job[v]
        /\ job'[w] = job[w] \/ job'[w] \notin Runs
    BY <1>4, ConstantsAssumption
       DEF CheckCancellation, FinalizeMisses, CompletionMisses, FailMisses, Misses, Done
  <2>2. pc'[w] \notin Publishing
    BY <1>4 DEF CheckCancellation, FinalizeMisses, CompletionMisses, FailMisses, Misses, Done,
                GoesOn, Publishing
  <2> QED
    BY <1>1, <2>1, <2>2, WorkerGoesOn
<1> QED
  BY <1>2, <1>3, <1>4 DEF SettleStep

\* The publication itself: what it publishes is of a touched run.
LEMMA PublishPublish ==
  ASSUME TypeOK, BusyHasJob, PublishInv, NEW w \in Workers, PublishStep(w)
  PROVE  PublishInv'
<1> USE DEF TypeOK, RowsTyped, WorkersTyped, Goto
<1>1. job[w] \in Runs /\ pc[w] \in Publishing
  BY DEF BusyHasJob, PublishStep, RenewForPublication, LookForResponse, AppendResponse,
         CheckOwnership, EnqueueCallback, CompleteRun, Publishing
<1>2. CASE CompleteRun(w)
  BY <1>1, <1>2, FinishPublish DEF CompleteRun
<1>3. CASE \/ RenewForPublication(w) \/ LookForResponse(w) \/ AppendResponse(w)
           \/ CheckOwnership(w) \/ EnqueueCallback(w)
  <2>1. UNCHANGED <<runStatus, runOwner, job>> /\ \A v \in Workers \ {w} : pc'[v] = pc[v]
    BY <1>3 DEF RenewForPublication, LookForResponse, AppendResponse, CheckOwnership, EnqueueCallback
  <2>2. pc'[w] \in Publishing
    BY <1>3 DEF RenewForPublication, LookForResponse, AppendResponse, CheckOwnership,
                EnqueueCallback, Publishing
  <2>3. \A r \in Runs \ {job[w]} : responded'[r] = responded[r] /\ callbackQueued'[r] = callbackQueued[r]
    BY <1>3 DEF RenewForPublication, LookForResponse, AppendResponse, CheckOwnership, EnqueueCallback
  <2>4. \A r \in Runs : Touched(r)' => Touched(r)
    BY <1>1, <2>1, <2>3 DEF Touched
  <2> QED
    BY <1>1, <2>1, <2>2, <2>4, PublishChanges
<1> QED
  BY <1>2, <1>3 DEF PublishStep

\* Whoever stops publishing leaves what is published to the next owner.
LEMMA FaultPublish ==
  ASSUME TypeOK, PublishInv, NEW w \in Workers, FaultStep(w)
  PROVE  PublishInv'
<1>1. /\ UNCHANGED <<responded, callbackQueued, runStatus, runOwner>>
      /\ job' = [job EXCEPT ![w] = NoRun]
      /\ pc' = [pc EXCEPT ![w] = "poll"] \/ pc' = [pc EXCEPT ![w] = "down"]
  BY DEF FaultStep, AbandonPublication, AbandonRun, Crash, Done, Goto
<1>2. pc'[w] \notin Publishing /\ job'[w] \notin Runs
  BY <1>1, ConstantsAssumption DEF TypeOK, WorkersTyped, Publishing
<1>3. \A v \in Workers \ {w} : pc'[v] = pc[v] /\ job'[v] = job[v]
  BY <1>1 DEF TypeOK, WorkersTyped
<1> QED
  BY <1>1, <1>2, <1>3, WorkerGoesOn

\* A touched run can only complete, and its owner publishes it or is elsewhere.
THEOREM PublicationInvariant == Spec => []PublishInv
<1>1. Init => PublishInv
  BY DEF Init, PublishInv, TouchedCompletes, OwnersPublish, Touched, Publishing
<1>2. IInv /\ PublishInv /\ [Next]_vars => PublishInv'
  BY UserPublish, PollPublish, ExecutePublish, SettlePublish, PublishPublish, FaultPublish
     DEF IInv, Next
<1> QED
  BY <1>1, <1>2, QueueInvariant, PTL DEF Spec

\* What a run published is never taken back: the run is completing or completed
\* (publishCompletedResult, recoverStaleRuns, failRunBatch, finishRunBatch).
THEOREM NothingPublishedIsTakenBack == Spec => []PublishedRunCompletes
<1>1. PublishInv => PublishedRunCompletes
  BY DEF PublishInv, TouchedCompletes, Touched, PublishedRunCompletes
<1> QED
  BY <1>1, PublicationInvariant, PTL

-----------------------------------------------------------------------------
(* Answers.  A completed run keeps its messages for good, so no other run    *)
(* can take one of them, and two active runs never share one.                *)

\* The messages of a completed run are completed, and are of no other one.
CompletedInv ==
  \A r \in Runs : runStatus[r] = "completed" =>
    /\ \A m \in runMessages[r] : msgStatus[m] = "completed"
    /\ \A q \in Runs \ {r} : runStatus[q] = "completed" =>
         runMessages[q] \cap runMessages[r] = {}

\* Steps that complete no run and change no completed message.
LEMMA CompletedChanges ==
  ASSUME TypeOK, CompletedInv,
         \A r \in Runs : runStatus'[r] = "completed" =>
           runStatus[r] = "completed" /\ runMessages'[r] = runMessages[r],
         \A m \in Messages : msgStatus[m] = "completed" => msgStatus'[m] = "completed"
  PROVE  CompletedInv'
  BY DEF CompletedInv, TypeOK, RowsTyped

\* A run that ends takes its messages, which are in flight, out of it together.
LEMMA FinishCompletes ==
  ASSUME TypeOK, QueueInv, CompletedInv, NEW w \in Workers, NEW r \in Runs,
         NEW status \in {"completed", "failed", "cancelled"},
         CanFinish(w, r, status), FinishRun(r, status)
  PROVE  CompletedInv'
<1>1. /\ runStatus' = [runStatus EXCEPT ![r] = status]
      /\ msgStatus' = [m \in Messages |->
           IF m \in runMessages[r] /\ msgStatus[m] \in InFlight THEN status ELSE msgStatus[m]]
      /\ UNCHANGED runMessages
  BY DEF FinishRun
<1>2. \A m \in Messages : msgStatus[m] = "completed" => msgStatus'[m] = "completed"
  BY <1>1 DEF InFlight
<1>3. CASE status # "completed"
  BY <1>1, <1>2, <1>3, CompletedChanges DEF TypeOK, RowsTyped
<1>4. CASE status = "completed"
  <2>1. runStatus[r] = "completing" /\ runStatus[r] \in Active
    BY <1>4 DEF CanFinish, FinishesFrom, Active
  <2>2. \A m \in runMessages[r] : m \in Messages /\ msgStatus[m] = "processing"
    BY <2>1 DEF QueueInv, ActiveRunHasItsMessages, TypeOK, RowsTyped
  <2>3. \A m \in runMessages[r] : msgStatus'[m] = "completed"
    BY <1>1, <1>4, <2>2 DEF InFlight
  <2>4. \A q \in Runs \ {r} : runStatus'[q] = runStatus[q]
    BY <1>1 DEF TypeOK, RowsTyped
  <2>5. \A q \in Runs \ {r} : runStatus[q] = "completed" => runMessages[q] \cap runMessages[r] = {}
    BY <2>2 DEF CompletedInv
  <2>6. \A q \in Runs \ {r} : runStatus[q] = "completed" =>
          \A m \in runMessages[q] : msgStatus'[m] = "completed"
    BY <1>2 DEF CompletedInv, TypeOK, RowsTyped
  <2> QED
    BY <1>1, <2>3, <2>4, <2>5, <2>6 DEF CompletedInv
<1> QED
  BY <1>3, <1>4

\* The steps of users and polls complete nothing.
LEMMA UserPollCompletes ==
  ASSUME TypeOK, CompletedInv, UserStep \/ (\E w \in Workers : PollStep(w))
  PROVE  CompletedInv'
<1> USE DEF TypeOK, RowsTyped
<1>1. ASSUME NEW m \in Messages,
             \/ EnqueueMessage(m) \/ ActivateScheduled(m) \/ RetryScheduled(m)
             \/ EditSteering(m) \/ CancelPending(m)
      PROVE  CompletedInv'
  BY <1>1, CompletedChanges
     DEF EnqueueMessage, ActivateScheduled, RetryScheduled, Retryable, JoinQueue, EditSteering,
         CancelPending
<1>2. ASSUME NEW s \in Sessions, RequestCancel(s) PROVE CompletedInv'
  BY <1>2, CompletedChanges DEF RequestCancel, ActiveRuns, InFlight
<1>3. ASSUME NEW s \in Sessions, Archive(s) \/ Unarchive(s) \/ SetQueuePaused(s) PROVE CompletedInv'
  BY <1>3, CompletedChanges DEF Archive, Pending, Unarchive, SetQueuePaused
<1>4. ASSUME NEW w \in Workers, RecoverStaleRuns(w) PROVE CompletedInv'
  BY <1>4, CompletedChanges DEF RecoverStaleRuns, RequeuedFrom, InFlight
<1>5. ASSUME NEW w \in Workers, ClaimBatch(w) PROVE CompletedInv'
  BY <1>5, CompletedChanges DEF ClaimBatch, Batch, Pending
<1>6. ASSUME UNCHANGED <<msgStatus, runStatus, runMessages>> PROVE CompletedInv'
  BY <1>6, CompletedChanges
<1> QED
  BY <1>1, <1>2, <1>3, <1>4, <1>5, <1>6
     DEF UserStep, PollStep, TakeOverCompletion, NoCompletionFound, NothingClaimed

\* A worker completes a run with all its messages, or changes no completed one.
LEMMA WorkCompletes ==
  ASSUME TypeOK, BusyHasJob, QueueInv, CompletedInv, NEW w \in Workers,
         ExecuteStep(w) \/ SettleStep(w) \/ PublishStep(w) \/ FaultStep(w)
  PROVE  CompletedInv'
<1>1. CASE FinalizeCancellation(w) \/ FailRun(w) \/ CompleteRun(w)
  <2>1. job[w] \in Runs
    BY <1>1 DEF FinalizeCancellation, FailRun, CompleteRun, BusyHasJob
  <2>2. \E status \in {"completed", "failed", "cancelled"} :
          CanFinish(w, job[w], status) /\ FinishRun(job[w], status)
    BY <1>1 DEF FinalizeCancellation, FailRun, CompleteRun
  <2> QED
    BY <2>1, <2>2, FinishCompletes
<1>2. CASE ClaimSteering(w)
  <2>1. PICK S \in SUBSET Pending(runSession[job[w]]) :
          /\ msgStatus' = [m \in Messages |-> IF m \in S THEN "processing" ELSE msgStatus[m]]
          /\ runMessages' = [runMessages EXCEPT ![job[w]] = @ \cup S]
          /\ UNCHANGED runStatus
          /\ runStatus[job[w]] = "running"
    BY <1>2 DEF ClaimSteering, Steerable
  <2> QED
    BY <2>1, CompletedChanges DEF Pending, TypeOK, RowsTyped
<1>3. CASE BeginCompletion(w)
  BY <1>3, CompletedChanges DEF BeginCompletion, TypeOK, RowsTyped
<1>4. ASSUME UNCHANGED <<msgStatus, runStatus, runMessages>> PROVE CompletedInv'
  BY <1>4, CompletedChanges
<1>5. CASE \/ Launch(w) \/ Heartbeat(w) \/ HeartbeatLost(w) \/ PollCancellation(w)
           \/ HandOver(w) \/ HandOverFails(w) \/ RunnerReturns(w) \/ RunnerAborts(w)
           \/ RunThrows(w)
  BY <1>4, <1>5
     DEF Launch, Heartbeat, HeartbeatLost, PollCancellation, CancelSeen, HandOver, HandOverFails,
         RunnerReturns, RunnerAborts, RunThrows, RunnerEnds
<1>6. CASE \/ CheckCancellation(w) \/ FinalizeMisses(w) \/ CompletionMisses(w) \/ FailMisses(w)
  BY <1>4, <1>6 DEF CheckCancellation, FinalizeMisses, CompletionMisses, FailMisses, Misses
<1>7. CASE \/ RenewForPublication(w) \/ LookForResponse(w) \/ AppendResponse(w)
           \/ CheckOwnership(w) \/ EnqueueCallback(w)
  BY <1>4, <1>7
     DEF RenewForPublication, LookForResponse, AppendResponse, CheckOwnership, EnqueueCallback
<1>8. CASE FaultStep(w)
  BY <1>4, <1>8 DEF FaultStep, AbandonPublication, AbandonRun, Crash
<1> QED
  BY <1>1, <1>2, <1>3, <1>5, <1>6, <1>7, <1>8 DEF ExecuteStep, SettleStep, PublishStep

\* The messages of completed runs are completed for good.
THEOREM CompletedInvariant == Spec => []CompletedInv
<1>1. Init => CompletedInv
  BY DEF Init, CompletedInv
<1>2. IInv /\ CompletedInv /\ [Next]_vars => CompletedInv'
  <2> SUFFICES ASSUME IInv, CompletedInv, [Next]_vars PROVE CompletedInv'
    OBVIOUS
  <2>1. CASE UNCHANGED vars \/ (\E r \in Runs : Lapse(r))
    BY <2>1, CompletedChanges DEF vars, Lapse, IInv
  <2> QED
    BY <2>1, UserPollCompletes, WorkCompletes DEF IInv, Next
<1> QED
  BY <1>1, <1>2, QueueInvariant, PTL DEF Spec

\* A message is answered by at most one run, however often it was requeued
\* (recoverStaleRuns, publishCompletedResult).
THEOREM NoMessageIsAnsweredTwice == Spec => []AnsweredOnce
<1>1. IInv /\ PublishInv /\ CompletedInv => AnsweredOnce
  <2> SUFFICES ASSUME IInv, PublishInv, CompletedInv,
                      NEW q \in Runs, responded[q] \/ callbackQueued[q],
                      NEW r \in Runs, responded[r] \/ callbackQueued[r],
                      NEW m \in runMessages[q] \cap runMessages[r],
                      q # r
               PROVE  FALSE
    BY DEF AnsweredOnce
  <2>1. /\ runStatus[q] \in {"completing", "completed"}
        /\ runStatus[r] \in {"completing", "completed"}
    BY DEF PublishInv, TouchedCompletes, Touched
  <2>2. ASSUME NEW p \in {q, r}, runStatus[p] = "completing"
        PROVE  runStatus[p] \in Active /\ SessionOf[m] = runSession[p] /\ msgStatus[m] = "processing"
    BY <2>2 DEF IInv, QueueInv, ActiveRunHasItsMessages, Active
  <2>3. ASSUME NEW p \in {q, r}, runStatus[p] = "completed" PROVE msgStatus[m] = "completed"
    BY <2>3 DEF CompletedInv
  <2>4. CASE runStatus[q] = "completing" /\ runStatus[r] = "completing"
    BY <2>2, <2>4 DEF IInv, QueueInv, OneActiveRun
  <2>5. CASE runStatus[q] = "completed" /\ runStatus[r] = "completed"
    BY <2>5 DEF CompletedInv
  <2> QED
    BY <2>1, <2>2, <2>3, <2>4, <2>5
<1> QED
  BY <1>1, QueueInvariant, PublicationInvariant, CompletedInvariant, PTL

-----------------------------------------------------------------------------
(* Handing over.  What a runner was given is only known to the worker, so    *)
(* the guard of beginRunCompletion cannot ask for it: the worker only comes  *)
(* to it with a result, and a result implies that nothing was withheld.      *)

\* The worker w still owns the run it works on, and the run is running.
OwnsRunning(w) == job[w] \in Runs /\ runOwner[job[w]] = w /\ runStatus[job[w]] = "running"

HandedBy(w) ==
  /\ pc[w] = "commit" => outcome[w] = "result"
  /\ OwnsRunning(w) /\ pc[w] = "execute" => runMessages[job[w]] \subseteq handed[job[w]] \cup steering[w]
  /\ OwnsRunning(w) /\ pc[w] \in {"settle", "finalize", "commit"} /\ outcome[w] = "result" =>
       runMessages[job[w]] \subseteq handed[job[w]]

HandedInv == CompletedWasHandedOver /\ \A w \in Workers : HandedBy(w)

\* A worker that nothing happened to.
LEMMA HandedFrame ==
  ASSUME NEW w, HandedBy(w),
         pc'[w] = pc[w], job'[w] = job[w], outcome'[w] = outcome[w], steering'[w] = steering[w],
         OwnsRunning(w)' => /\ OwnsRunning(w)
                      /\ runMessages'[job[w]] = runMessages[job[w]]
                      /\ handed[job[w]] \subseteq handed'[job[w]]
  PROVE  HandedBy(w)'
  BY DEF HandedBy

\* Runs keep their messages and what was handed over, and none begins to complete.
LEMMA CompletedFrame ==
  ASSUME CompletedWasHandedOver,
         \A r \in Runs : runStatus'[r] \in {"completing", "completed"} =>
           /\ runStatus[r] \in {"completing", "completed"}
           /\ runMessages'[r] = runMessages[r]
           /\ handed[r] \subseteq handed'[r]
  PROVE  CompletedWasHandedOver'
  BY DEF CompletedWasHandedOver

\* Users and time give nothing to a running run.
LEMMA UserHands ==
  ASSUME TypeOK, HandedInv, UserStep \/ (\E r \in Runs : Lapse(r)) \/ UNCHANGED vars
  PROVE  HandedInv'
<1>1. UNCHANGED <<runMessages, runOwner, pc, job, outcome, steering, handed>>
  BY DEF UserStep, EnqueueMessage, ActivateScheduled, RetryScheduled, JoinQueue, EditSteering,
         CancelPending, RequestCancel, Archive, Unarchive, SetQueuePaused, Lapse, vars
<1>2. \A r \in Runs : runStatus'[r] = runStatus[r] \/ runStatus'[r] = "cancelling"
  <2>1. CASE \E s \in Sessions : RequestCancel(s)
    BY <2>1 DEF RequestCancel, TypeOK, RowsTyped
  <2>2. CASE UNCHANGED runStatus
    BY <2>2
  <2> QED
    BY <2>1, <2>2
       DEF UserStep, EnqueueMessage, ActivateScheduled, RetryScheduled, JoinQueue, EditSteering,
           CancelPending, Archive, Unarchive, SetQueuePaused, Lapse, vars
<1>3. CompletedWasHandedOver'
  BY <1>1, <1>2, CompletedFrame DEF HandedInv
<1>4. ASSUME NEW w \in Workers PROVE HandedBy(w)'
  BY <1>1, <1>2, HandedFrame DEF HandedInv, OwnsRunning
<1> QED
  BY <1>3, <1>4 DEF HandedInv

\* A step of w gives nothing to the runs of others, and takes nothing from them.
LEMMA OthersHand ==
  ASSUME TypeOK, BusyHasJob, HandedInv, NEW w \in Workers,
         PollStep(w) \/ ExecuteStep(w) \/ SettleStep(w) \/ PublishStep(w) \/ FaultStep(w)
  PROVE  \A v \in Workers \ {w} : HandedBy(v)'
<1> USE DEF TypeOK, RowsTyped, WorkersTyped, Goto
<1> DEFINE Apart ==
      \A r \in Runs : runStatus'[r] = "running" /\ runOwner'[r] # w =>
        /\ runStatus[r] = "running" /\ runOwner'[r] = runOwner[r]
        /\ runMessages'[r] = runMessages[r] /\ handed'[r] = handed[r]
<1>1. \A v \in Workers \ {w} : /\ pc'[v] = pc[v] /\ job'[v] = job[v]
                               /\ outcome'[v] = outcome[v] /\ steering'[v] = steering[v]
  <2>1. CASE PollStep(w)
    BY <2>1 DEF PollStep, TakeOverCompletion, NoCompletionFound, RecoverStaleRuns, ClaimBatch,
                NothingClaimed
  <2>2. CASE ExecuteStep(w)
    BY <2>2 DEF ExecuteStep, Launch, Heartbeat, HeartbeatLost, PollCancellation, CancelSeen, ClaimSteering,
                HandOver, HandOverFails, RunnerReturns, RunnerAborts, RunThrows, RunnerEnds
  <2>3. CASE SettleStep(w)
    BY <2>3 DEF SettleStep, CheckCancellation, FinalizeCancellation, FinalizeMisses,
                BeginCompletion, CompletionMisses, FailRun, FailMisses, Misses, Done
  <2>4. CASE PublishStep(w) \/ FaultStep(w)
    BY <2>4 DEF PublishStep, RenewForPublication, LookForResponse, AppendResponse, CheckOwnership,
                EnqueueCallback, CompleteRun, FaultStep, AbandonPublication, AbandonRun, Crash, Done
  <2> QED
    BY <2>1, <2>2, <2>3, <2>4
<1>2. Apart
  <2>1. CASE \E r \in Runs : TakeOverCompletion(w, r)
    BY <2>1 DEF TakeOverCompletion
  <2>2. CASE RecoverStaleRuns(w)
    BY <2>2 DEF RecoverStaleRuns
  <2>3. CASE ClaimBatch(w)
    BY <2>3 DEF ClaimBatch
  <2>4. CASE Launch(w) \/ HandOver(w) \/ ClaimSteering(w)
    <3>1. /\ runOwner[job[w]] = w /\ UNCHANGED <<runStatus, runOwner>>
          /\ \A r \in Runs \ {job[w]} : runMessages'[r] = runMessages[r] /\ handed'[r] = handed[r]
      BY <2>4 DEF Launch, HandOver, ClaimSteering, Steerable, Holds
    <3> QED
      BY <3>1
  <2>5. CASE FinalizeCancellation(w) \/ FailRun(w) \/ CompleteRun(w)
    <3>1. PICK status \in {"completed", "failed", "cancelled"} : FinishRun(job[w], status) /\ UNCHANGED handed
      BY <2>5 DEF FinalizeCancellation, FailRun, CompleteRun, Done
    <3>2. \A r \in Runs : runStatus'[r] = "running" => r # job[w]
      BY <3>1 DEF FinishRun
    <3> QED
      BY <3>1, <3>2 DEF FinishRun
  <2>6. CASE BeginCompletion(w)
    BY <2>6 DEF BeginCompletion
  <2>7. CASE UNCHANGED <<runStatus, runOwner, runMessages, handed>>
    BY <2>7
  <2>8. CASE \/ NoCompletionFound(w) \/ NothingClaimed(w) \/ Heartbeat(w) \/ HeartbeatLost(w)
             \/ PollCancellation(w) \/ HandOverFails(w) \/ RunnerReturns(w) \/ RunnerAborts(w)
             \/ RunThrows(w)
    BY <2>7, <2>8
       DEF NoCompletionFound, NothingClaimed, Heartbeat, HeartbeatLost, PollCancellation, CancelSeen,
           HandOverFails, RunnerReturns, RunnerAborts, RunThrows, RunnerEnds
  <2>9. CASE \/ CheckCancellation(w) \/ FinalizeMisses(w) \/ CompletionMisses(w) \/ FailMisses(w)
             \/ RenewForPublication(w) \/ LookForResponse(w) \/ AppendResponse(w)
             \/ CheckOwnership(w) \/ EnqueueCallback(w) \/ FaultStep(w)
    BY <2>7, <2>9
       DEF CheckCancellation, FinalizeMisses, CompletionMisses, FailMisses, Misses, Done,
           RenewForPublication, LookForResponse, AppendResponse, CheckOwnership, EnqueueCallback,
           FaultStep, AbandonPublication, AbandonRun, Crash
  <2> QED
    BY <2>1, <2>2, <2>3, <2>4, <2>5, <2>6, <2>8, <2>9 DEF PollStep, ExecuteStep, SettleStep, PublishStep
<1> SUFFICES ASSUME NEW v \in Workers \ {w} PROVE HandedBy(v)'
  OBVIOUS
<1>3. OwnsRunning(v)' => /\ OwnsRunning(v)
                   /\ runMessages'[job[v]] = runMessages[job[v]]
                   /\ handed[job[v]] \subseteq handed'[job[v]]
  BY <1>1, <1>2 DEF OwnsRunning
<1>4. HandedBy(v)
  BY DEF HandedInv
<1> QED
  BY <1>1, <1>3, <1>4, HandedFrame

\* Takeover, recovery and claim leave completing and completed runs as they are.
LEMMA PollHands ==
  ASSUME TypeOK, HandedInv, NEW w \in Workers, PollStep(w)
  PROVE  CompletedWasHandedOver' /\ HandedBy(w)'
<1> USE DEF TypeOK, RowsTyped, WorkersTyped, Goto
<1>1. pc'[w] \notin {"commit", "execute", "settle", "finalize"}
  BY DEF PollStep, TakeOverCompletion, NoCompletionFound, RecoverStaleRuns, ClaimBatch, NothingClaimed
<1>2. CompletedWasHandedOver'
  <2>1. CASE RecoverStaleRuns(w)
    BY <2>1, CompletedFrame DEF HandedInv, RecoverStaleRuns
  <2>2. CASE ClaimBatch(w)
    BY <2>2, CompletedFrame DEF HandedInv, ClaimBatch
  <2>3. CASE UNCHANGED <<runStatus, runMessages, handed>>
    BY <2>3, CompletedFrame DEF HandedInv
  <2> QED
    BY <2>1, <2>2, <2>3 DEF PollStep, TakeOverCompletion, NoCompletionFound, NothingClaimed
<1> QED
  BY <1>1, <1>2 DEF HandedBy

\* While its runner works, a worker holds what it has not handed over.
LEMMA ExecuteHands ==
  ASSUME TypeOK, BusyHasJob, HandedInv, NEW w \in Workers, ExecuteStep(w)
  PROVE  CompletedWasHandedOver' /\ HandedBy(w)'
<1> USE DEF TypeOK, RowsTyped, WorkersTyped, Goto
<1> DEFINE r == job[w]
<1>1. r \in Runs /\ HandedBy(w) /\ UNCHANGED <<runStatus, runOwner, job>>
  BY DEF HandedInv, BusyHasJob, ExecuteStep, Launch, Heartbeat, HeartbeatLost, PollCancellation, CancelSeen,
         ClaimSteering, HandOver, HandOverFails, RunnerReturns, RunnerAborts, RunThrows, RunnerEnds,
         Executing, Publishing
<1>2. CASE Launch(w)
  <2>1. handed'[r] = runMessages[r] /\ runStatus[r] = "running" /\ UNCHANGED runMessages
        /\ pc'[w] = "execute"
    BY <1>1, <1>2 DEF Launch
  <2>2. \A q \in Runs \ {r} : handed'[q] = handed[q]
    BY <1>2 DEF Launch
  <2>3. CompletedWasHandedOver'
    BY <1>1, <2>1, <2>2, CompletedFrame DEF HandedInv
  <2>4. HandedBy(w)'
    BY <1>1, <2>1 DEF HandedBy
  <2> QED
    BY <2>3, <2>4
<1>3. CASE ClaimSteering(w)
  <2>1. /\ runStatus[r] = "running" /\ UNCHANGED handed /\ pc[w] = "execute" /\ runOwner[r] = w
        /\ \E S : /\ runMessages' = [runMessages EXCEPT ![r] = @ \cup S]
                  /\ \/ steering' = [steering EXCEPT ![w] = S] /\ UNCHANGED <<pc, outcome>>
                     \/ pc'[w] = "aborting"
    BY <1>3 DEF ClaimSteering, Steerable, Holds
  <2>2. CompletedWasHandedOver'
    BY <1>1, <2>1, CompletedFrame DEF HandedInv
  <2>3. steering[w] = {}
    BY <1>3 DEF ClaimSteering
  <2>4. runMessages[r] \subseteq handed[r]
    BY <1>1, <2>1, <2>3 DEF HandedBy, OwnsRunning
  <2>5. CASE pc'[w] = "aborting"
    BY <2>2, <2>5 DEF HandedBy
  <2>6. CASE pc'[w] # "aborting"
    <3>1. PICK S : /\ runMessages' = [runMessages EXCEPT ![r] = @ \cup S]
                   /\ steering' = [steering EXCEPT ![w] = S] /\ UNCHANGED pc
      BY <2>1, <2>6
    <3>2. runMessages'[r] = runMessages[r] \cup S /\ steering'[w] = S
      BY <1>1, <3>1
    <3> QED
      BY <1>1, <2>1, <2>2, <2>4, <3>1, <3>2 DEF HandedBy
  <2> QED
    BY <2>5, <2>6
<1>4. CASE HandOver(w)
  <2>1. PICK m : /\ handed' = [handed EXCEPT ![r] = @ \cup {m}]
                 /\ steering' = [steering EXCEPT ![w] = @ \ {m}]
                 /\ UNCHANGED <<runMessages, pc>> /\ pc[w] = "execute"
    BY <1>4 DEF HandOver
  <2>2. handed'[r] = handed[r] \cup {m} /\ steering'[w] = steering[w] \ {m}
    BY <1>1, <2>1
  <2>3. \A q \in Runs \ {r} : handed'[q] = handed[q]
    BY <2>1
  <2>4. CompletedWasHandedOver'
    BY <1>1, <2>1, <2>2, <2>3, CompletedFrame DEF HandedInv
  <2>5. HandedBy(w)'
    BY <1>1, <2>1, <2>2 DEF HandedBy, OwnsRunning
  <2> QED
    BY <2>4, <2>5
<1>5. ASSUME UNCHANGED <<runMessages, handed, steering>>, pc'[w] \notin {"commit", "execute"},
             pc'[w] \in {"settle", "finalize"} /\ outcome'[w] = "result" =>
               pc[w] = "execute" /\ steering[w] = {}
      PROVE  CompletedWasHandedOver' /\ HandedBy(w)'
  <2>1. CompletedWasHandedOver'
    BY <1>1, <1>5, CompletedFrame DEF HandedInv
  <2>2. HandedBy(w)'
    BY <1>1, <1>5 DEF HandedBy, OwnsRunning
  <2> QED
    BY <2>1, <2>2
<1>6. CASE UNCHANGED <<runMessages, handed, steering, pc, outcome>>
  <2>1. CompletedWasHandedOver'
    BY <1>1, <1>6, CompletedFrame DEF HandedInv
  <2>2. HandedBy(w)'
    BY <1>1, <1>6 DEF HandedBy, OwnsRunning
  <2> QED
    BY <2>1, <2>2
<1>7. CASE Heartbeat(w)
  <2>1. pc' = pc \/ pc'[w] = "aborting"
    BY <1>7 DEF Heartbeat, CancelSeen
  <2> QED
    BY <1>5, <1>6, <1>7, <2>1 DEF Heartbeat, CancelSeen
<1>8. CASE HeartbeatLost(w) \/ PollCancellation(w) \/ HandOverFails(w)
  BY <1>5, <1>8 DEF HeartbeatLost, PollCancellation, CancelSeen, HandOverFails
\* RunnerEnds drops the steering messages; with a result there are none.
<1>9. CASE RunnerReturns(w) \/ RunnerAborts(w) \/ RunThrows(w)
  <2>1. /\ UNCHANGED <<runMessages, handed>> /\ pc'[w] = "settle"
        /\ outcome'[w] = "result" => pc[w] = "execute" /\ steering[w] = {}
    BY <1>9 DEF RunnerReturns, RunnerAborts, RunThrows, RunnerEnds, SteeringDone
  <2>2. CompletedWasHandedOver'
    BY <1>1, <2>1, CompletedFrame DEF HandedInv
  <2>3. HandedBy(w)'
    BY <1>1, <2>1 DEF HandedBy, OwnsRunning
  <2> QED
    BY <2>2, <2>3
<1> QED
  BY <1>2, <1>3, <1>4, <1>7, <1>8, <1>9 DEF ExecuteStep

\* Settling: a worker that begins the completion has handed over everything.
LEMMA SettleHands ==
  ASSUME TypeOK, BusyHasJob, HandedInv, NEW w \in Workers, SettleStep(w)
  PROVE  CompletedWasHandedOver' /\ HandedBy(w)'
<1> USE DEF TypeOK, RowsTyped, WorkersTyped, Goto
<1>1. job[w] \in Runs /\ HandedBy(w) /\ UNCHANGED <<runMessages, handed>>
  BY DEF HandedInv, BusyHasJob, SettleStep, CheckCancellation, FinalizeCancellation, FinalizeMisses,
         BeginCompletion, CompletionMisses, FailRun, FailMisses, Misses, FinishRun, Done
<1>2. CASE FinalizeCancellation(w) \/ FailRun(w)
  <2>1. pc'[w] = "poll" /\ \E status \in {"cancelled", "failed"} :
          runStatus' = [runStatus EXCEPT ![job[w]] = status]
    BY <1>2 DEF FinalizeCancellation, FailRun, FinishRun, Done
  <2>2. CompletedWasHandedOver'
    BY <1>1, <2>1, CompletedFrame DEF HandedInv
  <2> QED
    BY <2>1, <2>2 DEF HandedBy
<1>3. CASE BeginCompletion(w)
  <2> DEFINE r == job[w]
  <2>1. /\ pc[w] = "commit" /\ runStatus[r] = "running" /\ runOwner[r] = w
        /\ runStatus' = [runStatus EXCEPT ![r] = "completing"] /\ job' = job
    BY <1>3 DEF BeginCompletion, Holds
  <2>2. runMessages[r] \subseteq handed[r]
    BY <1>1, <2>1 DEF HandedBy, OwnsRunning
  <2>3. CompletedWasHandedOver'
    BY <1>1, <2>1, <2>2 DEF HandedInv, CompletedWasHandedOver
  <2>4. ~OwnsRunning(w)' /\ pc'[w] # "commit"
    BY <1>1, <1>3, <2>1 DEF OwnsRunning, BeginCompletion
  <2> QED
    BY <2>3, <2>4 DEF HandedBy
<1>4. CASE CheckCancellation(w) \/ FinalizeMisses(w)
  <2>1. /\ UNCHANGED <<runStatus, runOwner>> /\ pc[w] \in {"settle", "finalize"}
        /\ \/ pc'[w] = "poll"
           \/ UNCHANGED <<job, outcome>> /\ pc'[w] \in {"finalize", GoesOn(outcome[w])}
    BY <1>4 DEF CheckCancellation, FinalizeMisses, Done
  <2>2. CompletedWasHandedOver'
    BY <1>1, <2>1, CompletedFrame DEF HandedInv
  <2>3. CASE pc'[w] = "poll"
    BY <2>2, <2>3 DEF HandedBy
  <2>4. CASE UNCHANGED <<job, outcome>> /\ pc'[w] \in {"finalize", GoesOn(outcome[w])}
    BY <1>1, <2>1, <2>2, <2>4 DEF HandedBy, OwnsRunning, GoesOn
  <2> QED
    BY <2>1, <2>3, <2>4
<1>5. CASE CompletionMisses(w) \/ FailMisses(w)
  <2>1. /\ UNCHANGED <<runStatus, runOwner>> /\ pc'[w] = "settle" /\ outcome'[w] = "nothing"
    BY <1>5 DEF CompletionMisses, FailMisses, Misses
  <2>2. CompletedWasHandedOver'
    BY <1>1, <2>1, CompletedFrame DEF HandedInv
  <2> QED
    BY <2>1, <2>2 DEF HandedBy
<1> QED
  BY <1>2, <1>3, <1>4, <1>5 DEF SettleStep

\* The publication, and whatever ends it, hand nothing over.
LEMMA PublishHands ==
  ASSUME TypeOK, HandedInv, NEW w \in Workers, PublishStep(w) \/ FaultStep(w)
  PROVE  CompletedWasHandedOver' /\ HandedBy(w)'
<1> USE DEF TypeOK, RowsTyped, WorkersTyped, Goto
<1>1. UNCHANGED <<runMessages, handed>> /\ pc'[w] \notin {"commit", "execute", "settle", "finalize"}
  BY DEF PublishStep, RenewForPublication, LookForResponse, AppendResponse, CheckOwnership,
         EnqueueCallback, CompleteRun, FinishRun, FaultStep, AbandonPublication, AbandonRun, Crash, Done
<1>2. CompletedWasHandedOver'
  <2>1. CASE CompleteRun(w)
    <3>1. runStatus[job[w]] = "completing" /\ runStatus' = [runStatus EXCEPT ![job[w]] = "completed"]
      BY <2>1 DEF CompleteRun, CanFinish, FinishesFrom, FinishRun
    <3> QED
      BY <1>1, <3>1, CompletedFrame DEF HandedInv
  <2>2. CASE UNCHANGED runStatus
    BY <1>1, <2>2, CompletedFrame DEF HandedInv
  <2> QED
    BY <2>1, <2>2
       DEF PublishStep, RenewForPublication, LookForResponse, AppendResponse, CheckOwnership,
           EnqueueCallback, FaultStep, AbandonPublication, AbandonRun, Crash
<1> QED
  BY <1>1, <1>2 DEF HandedBy

\* Completing and completed runs were handed over, and so is what a worker that
\* is about to begin a completion holds.
THEOREM HandedInvariant == Spec => []HandedInv
<1>1. Init => HandedInv
  BY DEF Init, HandedInv, CompletedWasHandedOver, HandedBy
<1>2. IInv /\ HandedInv /\ [Next]_vars => HandedInv'
  <2> SUFFICES ASSUME IInv, HandedInv, [Next]_vars PROVE HandedInv'
    OBVIOUS
  <2>1. CASE UserStep \/ (\E r \in Runs : Lapse(r)) \/ UNCHANGED vars
    BY <2>1, UserHands DEF IInv
  <2>2. ASSUME NEW w \in Workers,
               PollStep(w) \/ ExecuteStep(w) \/ SettleStep(w) \/ PublishStep(w) \/ FaultStep(w)
        PROVE  HandedInv'
    <3>1. CompletedWasHandedOver' /\ HandedBy(w)'
      BY <2>2, PollHands, ExecuteHands, SettleHands, PublishHands DEF IInv
    <3>2. \A v \in Workers \ {w} : HandedBy(v)'
      BY <2>2, OthersHand DEF IInv
    <3> QED
      BY <3>1, <3>2 DEF HandedInv
  <2> QED
    BY <2>1, <2>2 DEF Next
<1> QED
  BY <1>1, <1>2, QueueInvariant, PTL DEF Spec

\* A steering message that was claimed and never handed over is not completed
\* with the run (runWithHeartbeat, beginRunCompletion).
THEOREM OnlyHandedOverCompletes == Spec => []CompletedWasHandedOver
  BY HandedInvariant, PTL DEF HandedInv

-----------------------------------------------------------------------------
(* Fencing.  Every write of a worker that has a run names it as the owner.   *)

\* A worker that polls has no run.
IdleHasNoJob ==
  \A w \in Workers : pc[w] \in {"poll", "recover", "claim", "down"} => job[w] = NoRun

\* A worker drops its run whenever it goes back to polling.
LEMMA IdleHasNoJobKept ==
  ASSUME TypeOK, IdleHasNoJob, [Next]_vars
  PROVE  IdleHasNoJob'
<1> USE DEF TypeOK, WorkersTyped, Goto
<1>1. ASSUME NEW w \in Workers, \A v \in Workers \ {w} : pc'[v] = pc[v] /\ job'[v] = job[v],
             pc'[w] \in {"poll", "recover", "claim", "down"} => job'[w] = NoRun
      PROVE  IdleHasNoJob'
  BY <1>1 DEF IdleHasNoJob
<1>2. ASSUME NEW w \in Workers, Done(w) PROVE IdleHasNoJob'
  BY <1>1, <1>2 DEF Done
<1>3. ASSUME NEW w \in Workers, PollStep(w) PROVE IdleHasNoJob'
  <2>1. CASE \E r \in Runs : TakeOverCompletion(w, r)
    BY <1>1, <2>1 DEF TakeOverCompletion
  <2>2. CASE NoCompletionFound(w) \/ RecoverStaleRuns(w) \/ NothingClaimed(w)
    BY <1>1, <2>2 DEF NoCompletionFound, RecoverStaleRuns, NothingClaimed, IdleHasNoJob
  <2>3. CASE ClaimBatch(w)
    BY <1>1, <2>3 DEF ClaimBatch
  <2> QED
    BY <1>3, <2>1, <2>2, <2>3 DEF PollStep
<1>4. ASSUME NEW w \in Workers, ExecuteStep(w) PROVE IdleHasNoJob'
  <2>1. job' = job /\ (pc' = pc \/ \E next \in {"execute", "aborting", "settle"} : pc' = [pc EXCEPT ![w] = next])
    BY <1>4 DEF ExecuteStep, Launch, Heartbeat, HeartbeatLost, PollCancellation, CancelSeen, ClaimSteering,
                HandOver, HandOverFails, RunnerReturns, RunnerAborts, RunThrows, RunnerEnds
  <2> QED
    BY <2>1 DEF IdleHasNoJob
<1>5. ASSUME NEW w \in Workers, SettleStep(w) \/ PublishStep(w) \/ FaultStep(w) PROVE IdleHasNoJob'
  <2>1. CASE Done(w)
    BY <1>2, <2>1
  <2>2. CASE Crash(w)
    BY <1>1, <2>2 DEF Crash
  <2>3. CASE ~Done(w) /\ ~Crash(w)
    <3>1. job' = job /\ \E next \in {"finalize", "commit", "fail", "publish", "settle"} \cup Publishing :
            pc' = [pc EXCEPT ![w] = next]
      BY <1>5, <2>3
         DEF SettleStep, CheckCancellation, FinalizeCancellation, FinalizeMisses, BeginCompletion,
             CompletionMisses, FailRun, FailMisses, Misses, GoesOn, PublishStep, RenewForPublication,
             LookForResponse, AppendResponse, CheckOwnership, EnqueueCallback, CompleteRun,
             FaultStep, AbandonPublication, AbandonRun, Publishing
    <3> QED
      BY <3>1 DEF IdleHasNoJob, Publishing
  <2> QED
    BY <2>1, <2>2, <2>3
<1>6. ASSUME UNCHANGED <<pc, job>> PROVE IdleHasNoJob'
  BY <1>6 DEF IdleHasNoJob
<1> QED
  BY <1>3, <1>4, <1>5, <1>6
     DEF Next, vars, UserStep, EnqueueMessage, ActivateScheduled, RetryScheduled, JoinQueue,
         EditSteering, CancelPending, RequestCancel, Archive, Unarchive, SetQueuePaused, Lapse

\* A step of a worker that has a run and does not own it changes no row of the
\* queue, of the runs, and no response.
LEMMA StepIsFenced ==
  ASSUME TypeOK, NEW w \in Workers, runOwner[job[w]] # w,
         ExecuteStep(w) \/ SettleStep(w) \/ PublishStep(w) \/ FaultStep(w)
  PROVE  UNCHANGED <<msgStatus, runVars, responded>>
<1>1. CASE ExecuteStep(w)
  BY <1>1 DEF ExecuteStep, Launch, Heartbeat, HeartbeatLost, PollCancellation, CancelSeen, ClaimSteering,
              HandOver, HandOverFails, RunnerReturns, RunnerAborts, RunThrows, RunnerEnds,
              Steerable, Holds
<1>2. CASE SettleStep(w)
  BY <1>2 DEF SettleStep, CheckCancellation, FinalizeCancellation, FinalizeMisses, BeginCompletion,
              CompletionMisses, FailRun, FailMisses, Misses, CanFinish, Holds
<1>3. CASE PublishStep(w)
  BY <1>3 DEF PublishStep, RenewForPublication, LookForResponse, AppendResponse, CheckOwnership,
              EnqueueCallback, CompleteRun, CanFinish, Holds
<1>4. CASE FaultStep(w)
  BY <1>4 DEF FaultStep, AbandonPublication, AbandonRun, Crash
<1> QED
  BY <1>1, <1>2, <1>3, <1>4

\* A worker that lost its run to a takeover or to recovery changes neither the
\* run nor any message when it wakes up (the lease guards of store/postgres.ts).
THEOREM LostWorkersAreFenced == Spec => FencedOut
<1>1. Init => IdleHasNoJob
  BY DEF Init, IdleHasNoJob
<1>2. TypeOK /\ IdleHasNoJob /\ [Next]_vars => IdleHasNoJob'
  BY IdleHasNoJobKept
<1> DEFINE Fenced ==
      \A w \in Workers : job[w] # NoRun /\ pc'[w] # pc[w] /\ runOwner[job[w]] # w =>
        UNCHANGED <<msgStatus, runVars, responded>>
<1>3. TypeOK /\ IdleHasNoJob /\ [Next]_vars => [Fenced]_vars
  <2> SUFFICES ASSUME TypeOK, IdleHasNoJob, Next,
                      NEW w \in Workers, job[w] # NoRun, pc'[w] # pc[w], runOwner[job[w]] # w
               PROVE  UNCHANGED <<msgStatus, runVars, responded>>
    OBVIOUS
  <2>1. UserStep \/ (\E r \in Runs : Lapse(r)) => pc' = pc
    BY DEF UserStep, EnqueueMessage, ActivateScheduled, RetryScheduled, JoinQueue, EditSteering,
           CancelPending, RequestCancel, Archive, Unarchive, SetQueuePaused, Lapse
  <2>2. ASSUME NEW v \in Workers,
               PollStep(v) \/ ExecuteStep(v) \/ SettleStep(v) \/ PublishStep(v) \/ FaultStep(v)
        PROVE  pc' = pc \/ \E next : pc' = [pc EXCEPT ![v] = next]
    <3>1. CASE PollStep(v) \/ ExecuteStep(v)
      BY <3>1 DEF Goto, PollStep, TakeOverCompletion, NoCompletionFound, RecoverStaleRuns, ClaimBatch,
                  NothingClaimed, ExecuteStep, Launch, Heartbeat, HeartbeatLost, PollCancellation, CancelSeen,
                  ClaimSteering, HandOver, HandOverFails, RunnerReturns, RunnerAborts, RunThrows,
                  RunnerEnds
    <3>2. CASE SettleStep(v) \/ PublishStep(v) \/ FaultStep(v)
      BY <3>2 DEF Goto, SettleStep, CheckCancellation, FinalizeCancellation, FinalizeMisses,
                  BeginCompletion, CompletionMisses, FailRun, FailMisses, Misses, Done, PublishStep,
                  RenewForPublication, LookForResponse, AppendResponse, CheckOwnership,
                  EnqueueCallback, CompleteRun, FaultStep, AbandonPublication, AbandonRun, Crash
    <3> QED
      BY <2>2, <3>1, <3>2
  <2>3. PollStep(w) \/ ExecuteStep(w) \/ SettleStep(w) \/ PublishStep(w) \/ FaultStep(w)
    <3>1. PICK v \in Workers :
            PollStep(v) \/ ExecuteStep(v) \/ SettleStep(v) \/ PublishStep(v) \/ FaultStep(v)
      BY <2>1 DEF Next
    <3>2. v = w
      BY <2>2, <3>1 DEF TypeOK, WorkersTyped
    <3> QED
      BY <3>1, <3>2
  <2>4. ~PollStep(w)
    BY DEF IdleHasNoJob, PollStep, TakeOverCompletion, NoCompletionFound, RecoverStaleRuns,
           ClaimBatch, NothingClaimed
  <2> QED
    BY <2>3, <2>4, StepIsFenced
<1>4. Spec => [][Fenced]_vars
  BY <1>1, <1>2, <1>3, TypeCorrect, PTL DEF Spec
<1> QED
  BY <1>4 DEF FencedOut

-----------------------------------------------------------------------------
(* How a step changes the messages: one lemma for all that follows.         *)

\* The statuses that a run settles its messages with.
Settled == {"completed", "failed", "cancelled"}

\* A message joins the queue, which its follow-up allows.
Joins(m) ==
  /\ msgStatus[m] = "absent" \/ (msgStatus[m] = "failed" /\ Scheduled(m))
  /\ Scheduled(m) => Idle(FollowUpOf[m])
  /\ sessionStatus[SessionOf[m]] # "archived"
  /\ msgStatus' = [msgStatus EXCEPT ![m] = "pending"]
  /\ sessionStatus' = [sessionStatus EXCEPT ![SessionOf[m]] = IF @ = "active" THEN @ ELSE "queued"]

\* Whatever a step does, it does one of these to all messages.
MessageChange ==
  \/ UNCHANGED msgStatus
  \/ \E m \in Messages : Joins(m)
  \/ \A m \in Messages :
       \/ msgStatus'[m] = msgStatus[m]
       \/ msgStatus[m] = "pending" /\ msgStatus'[m] \in {"processing", "cancelled"}
       \/ msgStatus[m] \in InFlight /\ msgStatus'[m] \in {"pending", "cancelling"} \cup Settled

\* Users join messages to the queue, withdraw them, or request a cancellation.
LEMMA UserMessageChange == ASSUME TypeOK, UserStep PROVE MessageChange
<1> USE DEF TypeOK, RowsTyped
<1>1. ASSUME NEW m \in Messages, EnqueueMessage(m) \/ ActivateScheduled(m) \/ RetryScheduled(m)
      PROVE  Joins(m)
  BY <1>1 DEF EnqueueMessage, ActivateScheduled, RetryScheduled, Retryable, JoinQueue, Joins,
              Scheduled, FollowUps
<1>2. ASSUME NEW m \in Messages, CancelPending(m) PROVE MessageChange
  BY <1>2 DEF CancelPending, MessageChange
<1>3. ASSUME NEW s \in Sessions, RequestCancel(s) PROVE MessageChange
  BY <1>3 DEF RequestCancel, MessageChange
<1>4. ASSUME NEW s \in Sessions, Archive(s) PROVE MessageChange
  BY <1>4 DEF Archive, Pending, MessageChange
<1> QED
  BY <1>1, <1>2, <1>3, <1>4
     DEF UserStep, EditSteering, Unarchive, SetQueuePaused, MessageChange

\* Workers claim, requeue and settle messages.
LEMMA WorkerMessageChange ==
  ASSUME TypeOK, NEW w \in Workers,
         PollStep(w) \/ ExecuteStep(w) \/ SettleStep(w) \/ PublishStep(w) \/ FaultStep(w)
  PROVE  MessageChange
<1> USE DEF MessageChange
<1>1. CASE RecoverStaleRuns(w)
  BY <1>1 DEF RecoverStaleRuns, RequeuedFrom, RequeuedAs
<1>2. CASE ClaimBatch(w)
  BY <1>2 DEF ClaimBatch, Batch, Pending
<1>3. CASE ClaimSteering(w)
  BY <1>3 DEF ClaimSteering, Pending
<1>4. CASE FinalizeCancellation(w) \/ FailRun(w) \/ CompleteRun(w)
  <2>1. PICK status \in Settled : FinishRun(job[w], status)
    BY <1>4 DEF FinalizeCancellation, FailRun, CompleteRun, Settled
  <2> QED
    BY <2>1 DEF FinishRun
<1>5. CASE \/ (\E r \in Runs : TakeOverCompletion(w, r)) \/ NoCompletionFound(w) \/ NothingClaimed(w)
           \/ Launch(w) \/ Heartbeat(w) \/ HeartbeatLost(w) \/ PollCancellation(w)
           \/ HandOver(w) \/ HandOverFails(w) \/ RunnerReturns(w) \/ RunnerAborts(w) \/ RunThrows(w)
  BY <1>5
     DEF TakeOverCompletion, NoCompletionFound, NothingClaimed, Launch, Heartbeat, HeartbeatLost,
         PollCancellation, CancelSeen, HandOver, HandOverFails, RunnerReturns, RunnerAborts, RunThrows, RunnerEnds
<1>6. CASE \/ CheckCancellation(w) \/ FinalizeMisses(w) \/ BeginCompletion(w) \/ CompletionMisses(w)
           \/ FailMisses(w) \/ RenewForPublication(w) \/ LookForResponse(w) \/ AppendResponse(w)
           \/ CheckOwnership(w) \/ EnqueueCallback(w) \/ FaultStep(w)
  BY <1>6
     DEF CheckCancellation, FinalizeMisses, BeginCompletion, CompletionMisses, FailMisses, Misses,
         RenewForPublication, LookForResponse, AppendResponse, CheckOwnership, EnqueueCallback,
         FaultStep, AbandonPublication, AbandonRun, Crash
<1> QED
  BY <1>1, <1>2, <1>3, <1>4, <1>5, <1>6 DEF PollStep, ExecuteStep, SettleStep, PublishStep

\* Every step changes the messages in one of these ways.
LEMMA StepMessageChange == ASSUME TypeOK, [Next]_vars PROVE MessageChange
<1>1. CASE UNCHANGED vars \/ (\E r \in Runs : Lapse(r))
  BY <1>1 DEF vars, Lapse, MessageChange
<1> QED
  BY <1>1, UserMessageChange, WorkerMessageChange DEF Next

-----------------------------------------------------------------------------
(* Scheduled follow-ups.                                                    *)

\* At most one message of a follow-up is unfinished, across activations,
\* retries of failed occurrences and recoveries (activateDueScheduledFollowUp,
\* retryScheduledMessage, recoverStaleRuns).
THEOREM FollowUpHasOneUnfinished == Spec => []OneUnfinishedPerFollowUp
<1>1. Init => OneUnfinishedPerFollowUp
  BY DEF Init, OneUnfinishedPerFollowUp, Unfinished, InFlight
<1>2. TypeOK /\ OneUnfinishedPerFollowUp /\ [Next]_vars => OneUnfinishedPerFollowUp'
  <2> SUFFICES ASSUME TypeOK, OneUnfinishedPerFollowUp, [Next]_vars
               PROVE  OneUnfinishedPerFollowUp'
    OBVIOUS
  <2>1. ASSUME NEW m \in Messages, Joins(m) PROVE OneUnfinishedPerFollowUp'
    BY <2>1 DEF Joins, Idle, Unfinished, OneUnfinishedPerFollowUp, Scheduled, TypeOK, RowsTyped
  <2>2. CASE \A m \in Messages : msgStatus'[m] \in Unfinished => msgStatus[m] \in Unfinished
    BY <2>2 DEF OneUnfinishedPerFollowUp, Scheduled
  <2>3. (\E m \in Messages : Joins(m))
        \/ \A m \in Messages : msgStatus'[m] \in Unfinished => msgStatus[m] \in Unfinished
    BY StepMessageChange DEF MessageChange, Unfinished, InFlight, Settled
  <2> QED
    BY <2>1, <2>2, <2>3
<1> QED
  BY <1>1, <1>2, TypeCorrect, PTL DEF Spec

-----------------------------------------------------------------------------
(* What is final.                                                           *)

FinalRuns == {"completed", "failed", "cancelled", "stale"}

\* No step touches a run that ended.
LEMMA EndedRunsStay ==
  ASSUME TypeOK, [Next]_vars, NEW r \in Runs, runStatus[r] \in FinalRuns
  PROVE  runStatus'[r] = runStatus[r] /\ runMessages'[r] = runMessages[r]
<1> USE DEF TypeOK, RowsTyped, FinalRuns
<1>1. ASSUME UNCHANGED <<runStatus, runMessages>>
      PROVE  runStatus'[r] = runStatus[r] /\ runMessages'[r] = runMessages[r]
  BY <1>1
<1>2. CASE UserStep \/ (\E q \in Runs : Lapse(q)) \/ UNCHANGED vars
  <2>1. CASE \E s \in Sessions : RequestCancel(s)
    BY <2>1 DEF RequestCancel
  <2> QED
    BY <1>1, <1>2, <2>1
       DEF UserStep, EnqueueMessage, ActivateScheduled, RetryScheduled, JoinQueue, EditSteering,
           CancelPending, Archive, Unarchive, SetQueuePaused, Lapse, vars
<1>3. ASSUME NEW w \in Workers, PollStep(w)
      PROVE  runStatus'[r] = runStatus[r] /\ runMessages'[r] = runMessages[r]
  BY <1>3 DEF PollStep, TakeOverCompletion, NoCompletionFound, RecoverStaleRuns, Recoverable,
              ClaimBatch, NothingClaimed
<1>4. ASSUME NEW w \in Workers, ExecuteStep(w)
      PROVE  runStatus'[r] = runStatus[r] /\ runMessages'[r] = runMessages[r]
  BY <1>4 DEF ExecuteStep, Launch, Heartbeat, HeartbeatLost, PollCancellation, CancelSeen, ClaimSteering,
              Steerable, HandOver, HandOverFails, RunnerReturns, RunnerAborts, RunThrows, RunnerEnds
<1>5. ASSUME NEW w \in Workers, SettleStep(w) \/ PublishStep(w) \/ FaultStep(w)
      PROVE  runStatus'[r] = runStatus[r] /\ runMessages'[r] = runMessages[r]
  <2>1. CASE FinalizeCancellation(w) \/ FailRun(w) \/ CompleteRun(w)
    <3>1. PICK status \in {"completed", "failed", "cancelled"} :
            CanFinish(w, job[w], status) /\ FinishRun(job[w], status)
      BY <2>1 DEF FinalizeCancellation, FailRun, CompleteRun
    <3>2. job[w] # r
      BY <3>1 DEF CanFinish, FinishesFrom
    <3> QED
      BY <3>1, <3>2 DEF FinishRun
  <2>2. CASE BeginCompletion(w)
    BY <2>2 DEF BeginCompletion
  <2> QED
    BY <1>1, <1>5, <2>1, <2>2
       DEF SettleStep, CheckCancellation, FinalizeMisses, CompletionMisses, FailMisses, Misses,
           PublishStep, RenewForPublication, LookForResponse, AppendResponse, CheckOwnership,
           EnqueueCallback, FaultStep, AbandonPublication, AbandonRun, Crash
<1> QED
  BY <1>2, <1>3, <1>4, <1>5 DEF Next

\* A finished run, a completed or cancelled message and a failed ordinary
\* message never change again (finishRunBatch and its guards).
THEOREM FinalStaysFinal == Spec => FinalIsFinal
<1> DEFINE Final ==
      /\ \A r \in Runs : runStatus[r] \in {"completed", "failed", "cancelled", "stale"} =>
           runStatus'[r] = runStatus[r] /\ runMessages'[r] = runMessages[r]
      /\ \A m \in Messages :
           \/ msgStatus[m] \in {"completed", "cancelled"}
           \/ msgStatus[m] = "failed" /\ ~Scheduled(m)
           => msgStatus'[m] = msgStatus[m]
<1>1. TypeOK /\ [Next]_vars => [Final]_vars
  <2> SUFFICES ASSUME TypeOK, [Next]_vars PROVE Final
    OBVIOUS
  <2>1. ASSUME NEW r \in Runs, runStatus[r] \in {"completed", "failed", "cancelled", "stale"}
        PROVE  runStatus'[r] = runStatus[r] /\ runMessages'[r] = runMessages[r]
    BY <2>1, EndedRunsStay DEF FinalRuns
  <2>2. MessageChange
    BY StepMessageChange
  <2>3. ASSUME NEW m \in Messages,
               msgStatus[m] \in {"completed", "cancelled"} \/ (msgStatus[m] = "failed" /\ ~Scheduled(m))
        PROVE  msgStatus'[m] = msgStatus[m]
    BY <2>2, <2>3 DEF MessageChange, Joins, InFlight, TypeOK, RowsTyped
  <2> QED
    BY <2>1, <2>3
<1>2. Spec => [][Final]_vars
  BY <1>1, TypeCorrect, PTL DEF Spec
<1> QED
  BY <1>2 DEF FinalIsFinal

-----------------------------------------------------------------------------
(* Starting.                                                                *)

\* Only a claim and a steering claim start messages.
LEMMA StartingSteps ==
  ASSUME TypeOK, [Next]_vars, NEW m \in Messages, Starts(m)
  PROVE  \E w \in Workers : ClaimBatch(w) \/ ClaimSteering(w)
<1> SUFFICES ASSUME ~\E w \in Workers : ClaimBatch(w) \/ ClaimSteering(w)
             PROVE  msgStatus'[m] # "processing" \/ msgStatus[m] # "pending"
  BY DEF Starts
<1> USE DEF TypeOK, RowsTyped
<1>1. CASE UserStep \/ (\E q \in Runs : Lapse(q)) \/ UNCHANGED vars
  BY <1>1
     DEF UserStep, EnqueueMessage, ActivateScheduled, RetryScheduled, JoinQueue, EditSteering,
         CancelPending, RequestCancel, Archive, Unarchive, SetQueuePaused, InFlight, Lapse, vars
<1>2. ASSUME NEW w \in Workers, PollStep(w)
      PROVE  msgStatus'[m] # "processing" \/ msgStatus[m] # "pending"
  BY <1>2 DEF PollStep, TakeOverCompletion, NoCompletionFound, RecoverStaleRuns, RequeuedAs,
              NothingClaimed
<1>3. ASSUME NEW w \in Workers, ExecuteStep(w)
      PROVE  msgStatus'[m] # "processing" \/ msgStatus[m] # "pending"
  BY <1>3 DEF ExecuteStep, Launch, Heartbeat, HeartbeatLost, PollCancellation, CancelSeen, HandOver,
              HandOverFails, RunnerReturns, RunnerAborts, RunThrows, RunnerEnds
<1>4. ASSUME NEW w \in Workers, SettleStep(w) \/ PublishStep(w) \/ FaultStep(w)
      PROVE  msgStatus'[m] # "processing" \/ msgStatus[m] # "pending"
  <2>1. CASE FinalizeCancellation(w) \/ FailRun(w) \/ CompleteRun(w)
    <3>1. PICK status \in {"completed", "failed", "cancelled"} : FinishRun(job[w], status)
      BY <2>1 DEF FinalizeCancellation, FailRun, CompleteRun
    <3> QED
      BY <3>1 DEF FinishRun, InFlight
  <2>2. CASE UNCHANGED msgStatus
    BY <2>2
  <2> QED
    BY <1>4, <2>1, <2>2
       DEF SettleStep, CheckCancellation, FinalizeMisses, BeginCompletion, CompletionMisses,
           FailMisses, Misses, PublishStep, RenewForPublication, LookForResponse, AppendResponse,
           CheckOwnership, EnqueueCallback, FaultStep, AbandonPublication, AbandonRun, Crash
<1> QED
  BY <1>1, <1>2, <1>3, <1>4 DEF Next

\* The batch of a session is closed: with a message it has every earlier one.
LEMMA BatchIsPrefix ==
  ASSUME NEW s \in Sessions, NEW m \in Batch(s), NEW n \in Before(m)
  PROVE  n \in Batch(s)
<1>1. SessionOf[m] = s /\ m \in Messages /\ n \in Pending(s) /\ Seq[n] < Seq[m] /\ n \in Messages
  BY DEF Batch, Pending, Before
<1>2. ~Scheduled(m) /\ ~Scheduled(n)
  BY <1>1 DEF Batch
<1>3. \A k \in Before(n) : k \in Before(m)
  BY <1>1, ConstantsAssumption DEF Before, Pending
<1> QED
  BY <1>1, <1>2, <1>3 DEF Batch

\* A message only overtakes an earlier one of its session by steering
\* (claimNextPendingMessageBatch).
THEOREM MessagesStartInOrder == Spec => StartsInOrder
<1> DEFINE InOrder ==
      \A m \in Messages : Starts(m) /\ ~msgSteering[m] => \A n \in Before(m) : Starts(n)
<1>1. TypeOK /\ [Next]_vars => [InOrder]_vars
  <2> SUFFICES ASSUME TypeOK, [Next]_vars, NEW m \in Messages, Starts(m), ~msgSteering[m],
                      NEW n \in Before(m)
               PROVE  Starts(n)
    OBVIOUS
  <2>1. PICK w \in Workers : ClaimBatch(w) \/ ClaimSteering(w)
    BY StartingSteps
  <2>2. CASE ClaimSteering(w)
    BY <2>2 DEF ClaimSteering, Starts
  <2>3. CASE ClaimBatch(w)
    <3>1. PICK s \in Sessions :
            msgStatus' = [k \in Messages |-> IF k \in Batch(s) THEN "processing" ELSE msgStatus[k]]
      BY <2>3 DEF ClaimBatch
    <3>2. m \in Batch(s)
      BY <3>1 DEF Starts
    <3>3. n \in Batch(s) /\ n \in Messages /\ msgStatus[n] = "pending"
      BY <3>2, BatchIsPrefix DEF Before, Pending
    <3> QED
      BY <3>1, <3>3 DEF Starts
  <2> QED
    BY <2>1, <2>2, <2>3
<1>2. Spec => [][InOrder]_vars
  BY <1>1, TypeCorrect, PTL DEF Spec
<1> QED
  BY <1>2 DEF StartsInOrder

-----------------------------------------------------------------------------
(* Sessions.  Their status is written by every kind of step.                *)

\* The status of s has work behind it, and an archived session that is still
\* being worked on has nothing that could start.
SessionOK(s) ==
  /\ sessionStatus[s] = "active" => ActiveRuns(s) # {}
  /\ sessionStatus[s] = "queued" => Pending(s) \cup ActiveRuns(s) # {}
  /\ sessionStatus[s] = "archived" /\ ActiveRuns(s) # {} => Pending(s) = {}

SessionInv == \A s \in Sessions : SessionOK(s)

\* A session that nothing happened to.
LEMMA SessionFrame ==
  ASSUME NEW s, SessionOK(s), sessionStatus'[s] = sessionStatus[s],
         \A m \in Messages : SessionOf[m] = s => (msgStatus'[m] = "pending" <=> msgStatus[m] = "pending"),
         \A r \in Runs : (runSession'[r] = s /\ runStatus'[r] \in Active)
                           <=> (runSession[r] = s /\ runStatus[r] \in Active)
  PROVE  SessionOK(s)'
<1>1. Pending(s)' = Pending(s)
  BY DEF Pending
<1>2. ActiveRuns(s)' = ActiveRuns(s)
  BY DEF ActiveRuns
<1> QED
  BY <1>1, <1>2 DEF SessionOK

\* The calls of the users.
LEMMA UserSessions ==
  ASSUME TypeOK, SessionInv, UserStep
  PROVE  SessionInv'
<1> USE DEF TypeOK, RowsTyped
<1>1. ASSUME NEW m \in Messages, JoinQueue(m) PROVE SessionInv'
  <2> SUFFICES ASSUME NEW s \in Sessions PROVE SessionOK(s)'
    BY DEF SessionInv
  <2>1. /\ SessionOf[m] \in Sessions /\ msgStatus' = [msgStatus EXCEPT ![m] = "pending"]
        /\ sessionStatus' = [sessionStatus EXCEPT ![SessionOf[m]] = IF @ = "active" THEN @ ELSE "queued"]
        /\ UNCHANGED <<runStatus, runSession>>
    BY <1>1, ConstantsAssumption DEF JoinQueue
  <2>2. SessionOK(s)
    BY DEF SessionInv
  <2>3. CASE s = SessionOf[m]
    <3>1. sessionStatus'[s] \in {"active", "queued"}
          /\ (sessionStatus'[s] = "active" => sessionStatus[s] = "active")
      BY <2>1, <2>3
    <3>2. m \in Pending(s)'
      BY <2>1, <2>3 DEF Pending
    <3>3. ActiveRuns(s)' = ActiveRuns(s)
      BY <2>1 DEF ActiveRuns
    <3> QED
      BY <2>2, <3>1, <3>2, <3>3 DEF SessionOK
  <2>4. CASE s # SessionOf[m]
    BY <2>1, <2>2, <2>4, SessionFrame
  <2> QED
    BY <2>3, <2>4
<1>2. ASSUME NEW m \in Messages, CancelPending(m) PROVE SessionInv'
  <2> SUFFICES ASSUME NEW s \in Sessions PROVE SessionOK(s)'
    BY DEF SessionInv
  <2>1. /\ msgStatus' = [msgStatus EXCEPT ![m] = "cancelled"] /\ msgStatus[m] = "pending"
        /\ sessionStatus' = [sessionStatus EXCEPT ![SessionOf[m]] =
             IF @ = "active" THEN "active" ELSE StatusOnSettle(SessionOf[m])]
        /\ UNCHANGED <<runStatus, runSession>>
    BY <1>2 DEF CancelPending
  <2>2. SessionOK(s)
    BY DEF SessionInv
  <2>3. CASE s = SessionOf[m]
    <3>1. ActiveRuns(s)' = ActiveRuns(s) /\ Pending(s)' \subseteq Pending(s)
      BY <2>1 DEF ActiveRuns, Pending
    <3>2. sessionStatus'[s] = "queued" => Pending(s)' # {}
      BY <2>1, <2>3 DEF StatusOnSettle, Pending
    <3>3. sessionStatus'[s] \in {"active", "archived"} => sessionStatus'[s] = sessionStatus[s]
      BY <2>1, <2>3 DEF StatusOnSettle
    <3> QED
      BY <2>2, <3>1, <3>2, <3>3 DEF SessionOK
  <2>4. CASE s # SessionOf[m]
    BY <2>1, <2>2, <2>4, SessionFrame
  <2> QED
    BY <2>3, <2>4
<1>3. ASSUME NEW t \in Sessions, RequestCancel(t) PROVE SessionInv'
  <2> SUFFICES ASSUME NEW s \in Sessions PROVE SessionOK(s)'
    BY DEF SessionInv
  <2>1. PICK r \in ActiveRuns(t) :
          /\ runStatus' = [runStatus EXCEPT ![r] = "cancelling"]
          /\ sessionStatus' = [sessionStatus EXCEPT ![t] = IF @ = "archived" THEN @ ELSE "active"]
          /\ \A m \in Messages : msgStatus'[m] = "pending" <=> msgStatus[m] = "pending"
          /\ UNCHANGED runSession
    BY <1>3 DEF RequestCancel, InFlight
  <2>2. SessionOK(s)
    BY DEF SessionInv
  <2>3. ActiveRuns(s)' = ActiveRuns(s) /\ Pending(s)' = Pending(s)
    BY <2>1 DEF ActiveRuns, Active, Pending
  <2>4. sessionStatus'[s] = sessionStatus[s] \/ (s = t /\ sessionStatus'[s] = "active" /\ r \in ActiveRuns(s))
    BY <2>1
  <2> QED
    BY <2>2, <2>3, <2>4 DEF SessionOK
<1>4. ASSUME NEW t \in Sessions, Archive(t) PROVE SessionInv'
  <2> SUFFICES ASSUME NEW s \in Sessions PROVE SessionOK(s)'
    BY DEF SessionInv
  <2>1. /\ sessionStatus' = [sessionStatus EXCEPT ![t] = "archived"]
        /\ msgStatus' = [m \in Messages |-> IF m \in Pending(t) THEN "cancelled" ELSE msgStatus[m]]
        /\ UNCHANGED <<runStatus, runSession>>
    BY <1>4 DEF Archive
  <2>2. CASE s = t
    <3>1. sessionStatus'[s] = "archived" /\ Pending(s)' = {}
      BY <2>1, <2>2 DEF Pending
    <3> QED
      BY <3>1 DEF SessionOK
  <2>3. CASE s # t
    BY <2>1, <2>3, SessionFrame DEF SessionInv, Pending
  <2> QED
    BY <2>2, <2>3
<1>5. ASSUME NEW t \in Sessions, Unarchive(t) PROVE SessionInv'
  <2> SUFFICES ASSUME NEW s \in Sessions PROVE SessionOK(s)'
    BY DEF SessionInv
  <2>1. sessionStatus' = [sessionStatus EXCEPT ![t] = "idle"]
        /\ UNCHANGED <<runStatus, runSession, msgStatus>>
    BY <1>5 DEF Unarchive
  <2>2. CASE s = t
    BY <2>1, <2>2 DEF SessionOK
  <2>3. CASE s # t
    BY <2>1, <2>3, SessionFrame DEF SessionInv
  <2> QED
    BY <2>2, <2>3
<1>6. ASSUME UNCHANGED <<sessionStatus, runStatus, runSession, msgStatus>> PROVE SessionInv'
  BY <1>6, SessionFrame DEF SessionInv
<1> QED
  BY <1>1, <1>2, <1>3, <1>4, <1>5, <1>6
     DEF UserStep, EnqueueMessage, ActivateScheduled, RetryScheduled, EditSteering, SetQueuePaused

\* Recovery requeues the messages of sessions that it leaves without a run.
LEMMA RecoverSessions ==
  ASSUME TypeOK, QueueInv, SessionInv, NEW w \in Workers, RecoverStaleRuns(w)
  PROVE  SessionInv'
<1> USE DEF TypeOK, RowsTyped
<1>1. PICK S \in SUBSET {r \in Runs : Recoverable(r) /\ MaySeeExpired(r)} :
        /\ runStatus' = [r \in Runs |-> IF r \in S THEN "stale" ELSE runStatus[r]]
        /\ msgStatus' = [m \in Messages |->
             IF msgStatus[m] \in RequeuedFrom /\ \E r \in S : m \in runMessages[r]
             THEN RequeuedAs ELSE msgStatus[m]]
        /\ sessionStatus' = [s \in Sessions |->
             IF \E r \in S : runSession[r] = s THEN StatusOnSettle(s) ELSE sessionStatus[s]]
        /\ UNCHANGED runSession
  BY DEF RecoverStaleRuns
<1>2. \A r \in S : r \in Runs /\ runStatus[r] \in Active
  BY DEF Recoverable, Active
<1> SUFFICES ASSUME NEW s \in Sessions PROVE SessionOK(s)'
  BY DEF SessionInv
<1>3. CASE \E r \in S : runSession[r] = s
  <2>1. PICK r \in S : runSession[r] = s
    BY <1>3
  <2>2. ActiveRuns(s)' = {}
    <3> SUFFICES ASSUME NEW q \in Runs, runSession[q] = s, runStatus'[q] \in Active PROVE FALSE
      BY <1>1 DEF ActiveRuns
    <3>1. q \notin S /\ runStatus[q] \in Active
      BY <1>1 DEF Active
    <3> QED
      BY <1>2, <2>1, <3>1 DEF QueueInv, OneActiveRun
  <2>3. sessionStatus'[s] = StatusOnSettle(s)
    BY <1>1, <1>3
  <2>4. sessionStatus'[s] # "active" /\ (sessionStatus'[s] = "queued" => Pending(s)' # {})
    BY <2>3 DEF StatusOnSettle, Pending
  <2> QED
    BY <2>2, <2>4 DEF SessionOK
<1>4. CASE ~\E r \in S : runSession[r] = s
  <2>1. sessionStatus'[s] = sessionStatus[s]
    BY <1>1, <1>4
  <2>2. \A m \in Messages : SessionOf[m] = s => msgStatus'[m] = msgStatus[m]
    <3> SUFFICES ASSUME NEW m \in Messages, SessionOf[m] = s, NEW r \in S, m \in runMessages[r]
                 PROVE  FALSE
      BY <1>1
    <3> QED
      BY <1>2, <1>4 DEF QueueInv, ActiveRunHasItsMessages
  <2>3. \A r \in Runs : (runSession'[r] = s /\ runStatus'[r] \in Active)
                          <=> (runSession[r] = s /\ runStatus[r] \in Active)
    BY <1>1, <1>4
  <2> QED
    BY <2>1, <2>2, <2>3, SessionFrame DEF SessionInv
<1> QED
  BY <1>3, <1>4

\* The session of a claim becomes active, with a run.
LEMMA ClaimSessions ==
  ASSUME TypeOK, SessionInv, NEW w \in Workers, ClaimBatch(w)
  PROVE  SessionInv'
<1> USE DEF TypeOK, RowsTyped
<1>1. PICK t \in Sessions, r \in Runs :
        /\ runStatus[r] = "absent"
        /\ msgStatus' = [m \in Messages |-> IF m \in Batch(t) THEN "processing" ELSE msgStatus[m]]
        /\ runStatus' = [runStatus EXCEPT ![r] = "running"]
        /\ runSession' = [runSession EXCEPT ![r] = t]
        /\ sessionStatus' = [sessionStatus EXCEPT ![t] = "active"]
  BY DEF ClaimBatch
<1> SUFFICES ASSUME NEW s \in Sessions PROVE SessionOK(s)'
  BY DEF SessionInv
<1>2. CASE s = t
  <2>1. r \in ActiveRuns(s)' /\ sessionStatus'[s] = "active"
    BY <1>1, <1>2 DEF ActiveRuns, Active
  <2> QED
    BY <2>1 DEF SessionOK
<1>3. CASE s # t
  <2>1. \A q \in Runs : (runSession'[q] = s /\ runStatus'[q] \in Active)
                          <=> (runSession[q] = s /\ runStatus[q] \in Active)
    BY <1>1, <1>3 DEF Active
  <2>2. \A m \in Messages : SessionOf[m] = s => msgStatus'[m] = msgStatus[m]
    BY <1>1, <1>3 DEF Batch, Pending
  <2> QED
    BY <1>1, <1>3, <2>1, <2>2, SessionFrame DEF SessionInv
<1> QED
  BY <1>2, <1>3

\* The session of a run that ends is left without a run.
LEMMA FinishSessions ==
  ASSUME TypeOK, QueueInv, SessionInv, NEW w \in Workers, NEW r \in Runs,
         NEW status \in {"completed", "failed", "cancelled"},
         CanFinish(w, r, status), FinishRun(r, status)
  PROVE  SessionInv'
<1> USE DEF TypeOK, RowsTyped
<1>1. /\ runStatus' = [runStatus EXCEPT ![r] = status] /\ UNCHANGED runSession
      /\ \A m \in Messages : msgStatus'[m] = "pending" <=> msgStatus[m] = "pending"
      /\ sessionStatus' = [sessionStatus EXCEPT ![runSession[r]] =
           IF @ # "archived" /\ status = "failed" THEN "failed" ELSE StatusOnSettle(runSession[r])]
  BY DEF FinishRun, InFlight
<1>2. runStatus[r] \in Active
  BY DEF CanFinish, FinishesFrom, Active
<1> SUFFICES ASSUME NEW s \in Sessions PROVE SessionOK(s)'
  BY DEF SessionInv
<1>3. CASE s = runSession[r]
  <2>1. ActiveRuns(s)' = {}
    BY <1>1, <1>2, <1>3 DEF ActiveRuns, Active, QueueInv, OneActiveRun
  <2>2. sessionStatus'[s] # "active" /\ (sessionStatus'[s] = "queued" => Pending(s)' # {})
    BY <1>1, <1>3 DEF StatusOnSettle, Pending
  <2> QED
    BY <2>1, <2>2 DEF SessionOK
<1>4. CASE s # runSession[r]
  BY <1>1, <1>4, SessionFrame DEF SessionInv
<1> QED
  BY <1>3, <1>4

\* Steering takes pending messages into the run of an active session.
LEMMA SteeringSessions ==
  ASSUME TypeOK, SessionInv, NEW w \in Workers, job[w] \in Runs, ClaimSteering(w)
  PROVE  SessionInv'
<1> USE DEF TypeOK, RowsTyped
<1>1. /\ UNCHANGED <<sessionStatus, runStatus, runSession>>
      /\ job[w] \in ActiveRuns(runSession[job[w]])
      /\ \E S \in SUBSET Pending(runSession[job[w]]) :
           msgStatus' = [m \in Messages |-> IF m \in S THEN "processing" ELSE msgStatus[m]]
  BY DEF ClaimSteering, Steerable, ActiveRuns, Active
<1> SUFFICES ASSUME NEW s \in Sessions PROVE SessionOK(s)'
  BY DEF SessionInv
<1>2. SessionOK(s) /\ ActiveRuns(s)' = ActiveRuns(s)
  BY <1>1 DEF SessionInv, ActiveRuns
<1>3. CASE s = runSession[job[w]]
  <2>1. Pending(s)' \subseteq Pending(s) /\ ActiveRuns(s) # {}
    BY <1>1, <1>3 DEF Pending
  <2> QED
    BY <1>1, <1>2, <2>1 DEF SessionOK
<1>4. CASE s # runSession[job[w]]
  BY <1>1, <1>2, <1>4, SessionFrame DEF Pending
<1> QED
  BY <1>3, <1>4

\* The other calls of a worker leave sessions alone.
LEMMA WorkerSessions ==
  ASSUME TypeOK, BusyHasJob, QueueInv, SessionInv, NEW w \in Workers,
         PollStep(w) \/ ExecuteStep(w) \/ SettleStep(w) \/ PublishStep(w) \/ FaultStep(w)
  PROVE  SessionInv'
<1>1. CASE RecoverStaleRuns(w) \/ ClaimBatch(w)
  BY <1>1, RecoverSessions, ClaimSessions
<1>2. CASE ClaimSteering(w)
  BY <1>2, SteeringSessions DEF ClaimSteering, BusyHasJob
<1>3. CASE FinalizeCancellation(w) \/ FailRun(w) \/ CompleteRun(w)
  <2>1. job[w] \in Runs
    BY <1>3 DEF FinalizeCancellation, FailRun, CompleteRun, BusyHasJob
  <2>2. \E status \in {"completed", "failed", "cancelled"} :
          CanFinish(w, job[w], status) /\ FinishRun(job[w], status)
    BY <1>3 DEF FinalizeCancellation, FailRun, CompleteRun
  <2> QED
    BY <2>1, <2>2, FinishSessions
<1>4. CASE BeginCompletion(w)
  BY <1>4, SessionFrame DEF BeginCompletion, Active, SessionInv, TypeOK, RowsTyped
<1>5. CASE UNCHANGED <<sessionStatus, runStatus, runSession, msgStatus>>
  BY <1>5, SessionFrame DEF SessionInv
<1>6. CASE \/ (\E r \in Runs : TakeOverCompletion(w, r)) \/ NoCompletionFound(w) \/ NothingClaimed(w)
           \/ Launch(w) \/ Heartbeat(w) \/ HeartbeatLost(w) \/ PollCancellation(w)
           \/ HandOver(w) \/ HandOverFails(w) \/ RunnerReturns(w) \/ RunnerAborts(w) \/ RunThrows(w)
  BY <1>5, <1>6
     DEF TakeOverCompletion, NoCompletionFound, NothingClaimed, Launch, Heartbeat, HeartbeatLost,
         PollCancellation, CancelSeen, HandOver, HandOverFails, RunnerReturns, RunnerAborts, RunThrows, RunnerEnds
<1>7. CASE \/ CheckCancellation(w) \/ FinalizeMisses(w) \/ CompletionMisses(w)
           \/ FailMisses(w) \/ RenewForPublication(w) \/ LookForResponse(w) \/ AppendResponse(w)
           \/ CheckOwnership(w) \/ EnqueueCallback(w) \/ FaultStep(w)
  BY <1>5, <1>7
     DEF CheckCancellation, FinalizeMisses, CompletionMisses, FailMisses, Misses,
         RenewForPublication, LookForResponse, AppendResponse, CheckOwnership, EnqueueCallback,
         FaultStep, AbandonPublication, AbandonRun, Crash
<1> QED
  BY <1>1, <1>2, <1>3, <1>4, <1>6, <1>7 DEF PollStep, ExecuteStep, SettleStep, PublishStep

\* The status of every session has work behind it.
THEOREM SessionInvariant == Spec => []SessionInv
<1>1. Init => SessionInv
  BY DEF Init, SessionInv, SessionOK, ActiveRuns, Active
<1>2. IInv /\ SessionInv /\ [Next]_vars => SessionInv'
  <2> SUFFICES ASSUME IInv, SessionInv, [Next]_vars PROVE SessionInv'
    OBVIOUS
  <2>1. TypeOK /\ BusyHasJob /\ QueueInv
    BY DEF IInv
  <2>2. CASE UNCHANGED vars \/ (\E r \in Runs : Lapse(r))
    BY <2>2, SessionFrame DEF vars, Lapse, SessionInv
  <2> QED
    BY <2>1, <2>2, UserSessions, WorkerSessions DEF Next
<1> QED
  BY <1>1, <1>2, QueueInvariant, PTL DEF Spec

\* An active session has an active run, a queued one a pending message or a run
\* (every UPDATE of sessions.status in store/postgres.ts).
THEOREM StatusIsBacked == Spec => []SessionStatusIsBacked
<1>1. SessionInv => SessionStatusIsBacked
  BY DEF SessionInv, SessionOK, SessionStatusIsBacked
<1> QED
  BY <1>1, SessionInvariant, PTL

\* Nothing starts in an archived session: the claim looks at its status, and the
\* steering claim finds nothing pending (archiveSession, claimPendingSteeringMessages).
THEOREM NothingStartsWhenArchived == Spec => ArchivedStartsNothing
<1> DEFINE Quiet ==
      \A m \in Messages : Starts(m) => sessionStatus[SessionOf[m]] # "archived"
<1>1. IInv /\ SessionInv /\ [Next]_vars => [Quiet]_vars
  <2> SUFFICES ASSUME IInv, SessionInv, [Next]_vars, NEW m \in Messages, Starts(m)
               PROVE  sessionStatus[SessionOf[m]] # "archived"
    OBVIOUS
  <2>1. TypeOK /\ BusyHasJob
    BY DEF IInv
  <2>2. PICK w \in Workers : ClaimBatch(w) \/ ClaimSteering(w)
    BY <2>1, StartingSteps
  <2>3. CASE ClaimBatch(w)
    <3>1. PICK s \in Sessions :
            /\ Claimable(s)
            /\ msgStatus' = [k \in Messages |-> IF k \in Batch(s) THEN "processing" ELSE msgStatus[k]]
      BY <2>3 DEF ClaimBatch
    <3>2. m \in Batch(s)
      BY <3>1 DEF Starts
    <3> QED
      BY <3>1, <3>2 DEF Claimable, Batch, Pending
  <2>4. CASE ClaimSteering(w)
    <3>1. PICK S \in SUBSET Pending(runSession[job[w]]) :
            msgStatus' = [k \in Messages |-> IF k \in S THEN "processing" ELSE msgStatus[k]]
      BY <2>4 DEF ClaimSteering
    <3>2. m \in S /\ SessionOf[m] = runSession[job[w]] /\ SessionOf[m] \in Sessions
      BY <3>1, ConstantsAssumption DEF Starts, Pending
    <3>3. job[w] \in ActiveRuns(SessionOf[m]) /\ m \in Pending(SessionOf[m])
      BY <2>1, <2>4, <3>1, <3>2 DEF BusyHasJob, ClaimSteering, Steerable, ActiveRuns, Active
    <3> QED
      BY <3>2, <3>3 DEF SessionInv, SessionOK
  <2> QED
    BY <2>2, <2>3, <2>4
<1>2. Spec => [][Quiet]_vars
  BY <1>1, QueueInvariant, SessionInvariant, PTL DEF Spec
<1> QED
  BY <1>2 DEF ArchivedStartsNothing

-----------------------------------------------------------------------------
(* The implementation of SessionQueue.                                      *)

\* A worker completes a run only after its callback is in the outbox.
CompletesAfterCallback == \A w \in Workers : pc[w] = "complete" => callbackQueued[job[w]]

\* What the mapping needs to know of a state.
MapInv == IInv /\ PublishInv /\ CompletesAfterCallback

-----------------------------------------------------------------------------
(* What the mapping shows.                                                  *)

LEMMA Standings ==
  ASSUME NEW m \in Messages
  PROVE  /\ msgStatus[m] = "pending" => StandingOf(m) = "waiting"
         /\ msgStatus[m] \in InFlight => StandingOf(m) = "working"
         /\ msgStatus[m] \notin InFlight \cup {"pending"} => StandingOf(m) = msgStatus[m]
  BY DEF StandingOf, InFlight

LEMMA NextStandings ==
  ASSUME NEW m \in Messages
  PROVE  /\ msgStatus'[m] = "pending" => StandingOf(m)' = "waiting"
         /\ msgStatus'[m] \in InFlight => StandingOf(m)' = "working"
         /\ msgStatus'[m] \notin InFlight \cup {"pending"} => StandingOf(m)' = msgStatus'[m]
  BY DEF StandingOf, InFlight

\* The turn of a session is its only active run.
LEMMA TurnOfRun ==
  ASSUME IInv, NEW r \in Runs, runStatus[r] \in Active
  PROVE  /\ runSession[r] \in Sessions
         /\ ActiveRuns(runSession[r]) = {r}
         /\ TurnOf(runSession[r]) = runMessages[r]
         /\ runMessages[r] # {}
         /\ runSession[r] \in Sealed <=> responded[r] \/ callbackQueued[r]
<1>1. runMessages[r] # {} /\ runSession[r] \in Sessions
  <2>1. PICK m \in runMessages[r] : SessionOf[m] = runSession[r]
    BY DEF IInv, QueueInv, ActiveRunHasItsMessages
  <2>2. m \in Messages
    BY DEF IInv, TypeOK, RowsTyped
  <2> QED
    BY <2>1, <2>2, ConstantsAssumption
<1>2. ActiveRuns(runSession[r]) = {r}
  BY DEF ActiveRuns, IInv, QueueInv, OneActiveRun
<1> QED
  BY <1>1, <1>2 DEF TurnOf, Sealed

\* The messages of a session in flight are its turn.
LEMMA WorkingIsTurn ==
  ASSUME IInv, NEW r \in Runs, runStatus[r] \in Active, NEW m \in runMessages[r]
  PROVE  m \in Messages /\ msgStatus[m] \in InFlight /\ SessionOf[m] = runSession[r]
  BY DEF IInv, TypeOK, RowsTyped, QueueInv, ActiveRunHasItsMessages, InFlight

\* A step that moves no message and ends, begins, extends and publishes no run.
LEMMA QueueStutters ==
  ASSUME UNCHANGED <<runSession, runMessages, pubVars>>,
         \A m \in Messages : StandingOf(m)' = StandingOf(m),
         \A r \in Runs : runStatus'[r] \in Active <=> runStatus[r] \in Active
  PROVE  UNCHANGED Queue!vars
<1>1. \A s \in Sessions : ActiveRuns(s)' = ActiveRuns(s)
  BY DEF ActiveRuns
<1>2. \A s \in Sessions : TurnOf(s)' = TurnOf(s)
  BY <1>1 DEF TurnOf
<1>3. Sealed' = Sealed
  BY <1>1 DEF Sealed
<1> QED
  BY <1>2, <1>3 DEF Queue!vars

LEMMA FrameStutters ==
  ASSUME UNCHANGED <<msgStatus, runStatus, runSession, runMessages, pubVars>>
  PROVE  UNCHANGED Queue!vars
<1>1. \A m \in Messages : StandingOf(m)' = StandingOf(m)
  BY DEF StandingOf
<1> QED
  BY <1>1, QueueStutters

\* Steps that move messages which are not in flight, and no run.
LEMMA MessagesMove ==
  ASSUME UNCHANGED <<runStatus, runSession, runMessages, pubVars>>,
         NEW S \in SUBSET Messages, NEW standing,
         \A m \in S : StandingOf(m)' = standing,
         \A m \in Messages \ S : StandingOf(m)' = StandingOf(m)
  PROVE  Queue!Put(S, standing) /\ UNCHANGED <<[s \in Sessions |-> TurnOf(s)], Sealed>>
<1>1. \A s \in Sessions : TurnOf(s)' = TurnOf(s)
  BY DEF TurnOf, ActiveRuns
<1>2. Sealed' = Sealed
  BY DEF Sealed, ActiveRuns
<1> QED
  BY <1>1, <1>2 DEF Queue!Put

-----------------------------------------------------------------------------
(* The steps of the users.                                                  *)

LEMMA UserMaps == ASSUME TypeOK, UserStep PROVE Queue!Next \/ UNCHANGED Queue!vars
<1> USE DEF TypeOK, RowsTyped
<1>1. ASSUME NEW m \in Messages, EnqueueMessage(m) \/ ActivateScheduled(m) \/ RetryScheduled(m)
      PROVE  Queue!Next
  <2>1. /\ msgStatus[m] \in {"absent", "failed"}
        /\ msgStatus' = [msgStatus EXCEPT ![m] = "pending"]
        /\ UNCHANGED <<runStatus, runSession, runMessages, pubVars>>
    BY <1>1 DEF EnqueueMessage, ActivateScheduled, RetryScheduled, Retryable, JoinQueue
  <2>2. StandingOf(m) \in {"absent", "failed"} /\ StandingOf(m)' = "waiting"
    BY <2>1, Standings, NextStandings DEF InFlight
  <2>3. {m} \in SUBSET Messages /\ \A n \in Messages \ {m} : StandingOf(n)' = StandingOf(n)
    BY <2>1 DEF StandingOf
  <2>4. Queue!Put({m}, "waiting") /\ UNCHANGED <<[s \in Sessions |-> TurnOf(s)], Sealed>>
    BY <2>1, <2>2, <2>3, MessagesMove
  <2> QED
    BY <2>2, <2>4 DEF Queue!Submit, Queue!Next
<1>2. ASSUME NEW s \in Sessions, NEW S \in SUBSET Pending(s),
             msgStatus' = [m \in Messages |-> IF m \in S THEN "cancelled" ELSE msgStatus[m]],
             UNCHANGED <<runStatus, runSession, runMessages, pubVars>>
      PROVE  Queue!Next
  <2>1. S \in SUBSET Messages /\ \A m \in S : StandingOf(m)' = "cancelled"
    BY <1>2, NextStandings DEF Pending, InFlight
  <2>2. \A m \in Messages \ S : StandingOf(m)' = StandingOf(m)
    BY <1>2 DEF StandingOf
  <2>3. Queue!Put(S, "cancelled") /\ UNCHANGED <<[t \in Sessions |-> TurnOf(t)], Sealed>>
    BY <1>2, <2>1, <2>2, MessagesMove
  <2>4. S \in SUBSET Queue!Waiting(s)
    BY Standings DEF Pending, Queue!Waiting
  <2> QED
    BY <2>3, <2>4 DEF Queue!Withdraw, Queue!Next
<1>3. ASSUME NEW m \in Messages, CancelPending(m) PROVE Queue!Next
  <2>1. /\ SessionOf[m] \in Sessions /\ {m} \in SUBSET Pending(SessionOf[m])
        /\ msgStatus' = [n \in Messages |-> IF n \in {m} THEN "cancelled" ELSE msgStatus[n]]
        /\ UNCHANGED <<runStatus, runSession, runMessages, pubVars>>
    BY <1>3, ConstantsAssumption DEF CancelPending, Pending
  <2> QED
    BY <2>1, <1>2
<1>4. ASSUME NEW s \in Sessions, Archive(s) PROVE Queue!Next
  <2>1. /\ Pending(s) \in SUBSET Pending(s)
        /\ msgStatus' = [m \in Messages |-> IF m \in Pending(s) THEN "cancelled" ELSE msgStatus[m]]
        /\ UNCHANGED <<runStatus, runSession, runMessages, pubVars>>
    BY <1>4 DEF Archive
  <2> QED
    BY <2>1, <1>2
<1>5. ASSUME NEW s \in Sessions, RequestCancel(s) PROVE UNCHANGED Queue!vars
  <2>1. PICK r \in ActiveRuns(s) :
          /\ runStatus' = [runStatus EXCEPT ![r] = "cancelling"]
          /\ msgStatus' = [m \in Messages |->
               IF m \in runMessages[r] /\ msgStatus[m] \in InFlight
               THEN "cancelling" ELSE msgStatus[m]]
          /\ UNCHANGED <<runSession, runMessages, pubVars>>
    BY <1>5 DEF RequestCancel
  <2>2. \A q \in Runs : runStatus'[q] \in Active <=> runStatus[q] \in Active
    BY <2>1 DEF ActiveRuns, Active
  <2>3. \A m \in Messages : StandingOf(m)' = StandingOf(m)
    BY <2>1 DEF StandingOf, InFlight
  <2> QED
    BY <2>1, <2>2, <2>3, QueueStutters
<1>6. ASSUME UNCHANGED <<msgStatus, runVars, pubVars>> PROVE UNCHANGED Queue!vars
  BY <1>6, FrameStutters
<1> QED
  BY <1>1, <1>3, <1>4, <1>5, <1>6
     DEF UserStep, EditSteering, Unarchive, SetQueuePaused

-----------------------------------------------------------------------------
(* The steps of the workers that move the queue.                            *)

\* A claim begins the turn of a session that has none.
LEMMA ClaimMaps == ASSUME IInv, PublishInv, NEW w \in Workers, ClaimBatch(w) PROVE Queue!Next
<1>1. PICK s \in Sessions, r \in Runs :
        /\ Claimable(s)
        /\ runStatus[r] = "absent"
        /\ msgStatus' = [m \in Messages |-> IF m \in Batch(s) THEN "processing" ELSE msgStatus[m]]
        /\ runStatus' = [runStatus EXCEPT ![r] = "running"]
        /\ runSession' = [runSession EXCEPT ![r] = s]
        /\ runMessages' = [runMessages EXCEPT ![r] = Batch(s)]
        /\ UNCHANGED pubVars
  BY DEF ClaimBatch
<1>2. Batch(s) \in (SUBSET Queue!Waiting(s)) \ {{}}
  <2>1. \A m \in Batch(s) : m \in Messages /\ SessionOf[m] = s /\ StandingOf(m) = "waiting"
    BY Standings DEF Batch, Pending
  <2>2. Batch(s) # {}
    BY <1>1 DEF Claimable
  <2>3. Batch(s) \in SUBSET Queue!Waiting(s)
    BY <2>1 DEF Queue!Waiting
  <2> QED
    BY <2>2, <2>3
<1>3. TurnOf(s) = {} /\ s \notin Sealed
  BY <1>1 DEF Claimable, Blocking, TurnOf, Sealed
<1>4. /\ runStatus'[r] = "running" /\ runSession'[r] = s /\ runMessages'[r] = Batch(s)
      /\ \A q \in Runs \ {r} : /\ runStatus'[q] = runStatus[q] /\ runSession'[q] = runSession[q]
                               /\ runMessages'[q] = runMessages[q]
  BY <1>1 DEF IInv, TypeOK, RowsTyped
<1>5. ActiveRuns(s)' = {r} /\ \A t \in Sessions \ {s} : ActiveRuns(t)' = ActiveRuns(t) /\ r \notin ActiveRuns(t)
  BY <1>1, <1>4 DEF Claimable, Blocking, ActiveRuns, Active
<1>6. \A t \in Sessions : TurnOf(t)' = IF t = s THEN Batch(s) ELSE TurnOf(t)
  <2>1. TurnOf(s)' = Batch(s)
    BY <1>4, <1>5 DEF TurnOf
  <2>2. ASSUME NEW t \in Sessions \ {s} PROVE TurnOf(t)' = TurnOf(t)
    <3>1. \A q \in ActiveRuns(t) : runMessages'[q] = runMessages[q]
      BY <1>4, <1>5 DEF ActiveRuns
    <3> QED
      BY <1>5, <3>1 DEF TurnOf
  <2> QED
    BY <2>1, <2>2
<1>7. Sealed' = Sealed
  <2>1. ~responded[r] /\ ~callbackQueued[r]
    BY <1>1 DEF PublishInv, TouchedCompletes, Touched
  <2> QED
    BY <1>1, <1>3, <1>5, <2>1 DEF Sealed
<1>8. Queue!Put(Batch(s), "working")
  <2>1. \A m \in Messages : m \in Batch(s) => StandingOf(m)' = "working"
    BY <1>1, NextStandings DEF InFlight
  <2>2. \A m \in Messages : m \notin Batch(s) => StandingOf(m)' = StandingOf(m)
    BY <1>1 DEF StandingOf
  <2> QED
    BY <2>1, <2>2 DEF Queue!Put
<1>9. Queue!Begin(s)
  BY <1>2, <1>3, <1>6, <1>7, <1>8 DEF Queue!Begin
<1> QED
  BY <1>9 DEF Queue!Next

\* A steering claim joins messages to the turn of a run that has not published.
LEMMA SteeringMaps ==
  ASSUME IInv, PublishInv, NEW w \in Workers, ClaimSteering(w)
  PROVE  Queue!Next
<1>1. PICK r \in Runs : r = job[w] /\ runStatus[r] = "running" /\ runStatus[r] \in Active
  BY DEF ClaimSteering, Steerable, Active, IInv, BusyHasJob
<1>10. PICK s \in Sessions : s = runSession[r]
  BY <1>1, TurnOfRun
<1>2. PICK S \in SUBSET Pending(s) :
        /\ msgStatus' = [m \in Messages |-> IF m \in S THEN "processing" ELSE msgStatus[m]]
        /\ runMessages' = [runMessages EXCEPT ![r] = @ \cup S]
        /\ UNCHANGED <<runStatus, runSession, pubVars>>
  BY <1>1, <1>10 DEF ClaimSteering
<1>3. /\ ActiveRuns(s) = {r} /\ TurnOf(s) = runMessages[r]
      /\ runMessages[r] # {} /\ s \notin Sealed
  <2>1. ~responded[r] /\ ~callbackQueued[r]
    BY <1>1 DEF PublishInv, TouchedCompletes, Touched
  <2> QED
    BY <1>1, <1>10, <2>1, TurnOfRun
<1>4. S \in SUBSET Queue!Waiting(s)
  BY <1>2, Standings DEF Pending, Queue!Waiting
<1>5. \A t \in Sessions : ActiveRuns(t)' = ActiveRuns(t)
  BY <1>2 DEF ActiveRuns
<1>6. Sealed' = Sealed
  BY <1>2, <1>5 DEF Sealed
<1>7. \A t \in Sessions : TurnOf(t)' = IF t = s THEN TurnOf(s) \cup S ELSE TurnOf(t)
  <2>1. runMessages'[r] = runMessages[r] \cup S
        /\ \A q \in Runs \ {r} : runMessages'[q] = runMessages[q]
    BY <1>1, <1>2 DEF IInv, TypeOK, RowsTyped
  <2>2. TurnOf(s)' = runMessages[r] \cup S
    <3>1. TurnOf(s)' = UNION {runMessages'[q] : q \in {r}}
      BY <1>3, <1>5 DEF TurnOf
    <3> QED
      BY <2>1, <3>1
  <2>3. ASSUME NEW t \in Sessions \ {s} PROVE TurnOf(t)' = TurnOf(t)
    <3>1. \A q \in ActiveRuns(t) : q \in Runs \ {r}
      BY <1>10 DEF ActiveRuns
    <3> QED
      BY <1>5, <2>1, <3>1 DEF TurnOf
  <2> QED
    BY <1>3, <2>2, <2>3
<1>8. Queue!Put(S, "working")
  <2>1. \A m \in Messages : m \in S => StandingOf(m)' = "working"
    BY <1>2, NextStandings DEF InFlight
  <2>2. \A m \in Messages : m \notin S => StandingOf(m)' = StandingOf(m)
    BY <1>2 DEF StandingOf
  <2> QED
    BY <2>1, <2>2 DEF Queue!Put
<1>9. Queue!Join(s)
  BY <1>3, <1>4, <1>6, <1>7, <1>8 DEF Queue!Join
<1> QED
  BY <1>9 DEF Queue!Next

\* Settling ends the turn: a sealed one completes, and no other does.
LEMMA SettleMaps ==
  ASSUME IInv, NEW w \in Workers, NEW r \in Runs, NEW status \in Queue!Verdicts,
         CanFinish(w, r, status), FinishRun(r, status),
         responded[r] \/ callbackQueued[r] <=> status = "completed"
  PROVE  Queue!Next
<1>1. /\ runStatus' = [runStatus EXCEPT ![r] = status]
      /\ msgStatus' = [m \in Messages |->
           IF m \in runMessages[r] /\ msgStatus[m] \in InFlight THEN status ELSE msgStatus[m]]
      /\ UNCHANGED <<runSession, runMessages, pubVars>>
  BY DEF FinishRun
<1>2. runStatus[r] \in Active /\ status \notin Active \cup InFlight \cup {"pending"}
  BY DEF CanFinish, FinishesFrom, Active, InFlight, Queue!Verdicts
<1>3. PICK s \in Sessions :
        /\ runSession[r] = s /\ ActiveRuns(s) = {r} /\ TurnOf(s) = runMessages[r]
        /\ runMessages[r] # {}
        /\ s \in Sealed <=> status = "completed"
  BY <1>2, TurnOfRun
<1>4. runStatus'[r] \notin Active /\ \A q \in Runs \ {r} : runStatus'[q] = runStatus[q]
  BY <1>1, <1>2 DEF IInv, TypeOK, RowsTyped
<1>5. ActiveRuns(s)' = {} /\ \A t \in Sessions \ {s} : ActiveRuns(t)' = ActiveRuns(t)
  BY <1>1, <1>3, <1>4 DEF ActiveRuns
<1>6. \A t \in Sessions : TurnOf(t)' = IF t = s THEN {} ELSE TurnOf(t)
  BY <1>1, <1>5 DEF TurnOf
<1>7. Sealed' = Sealed \ {s}
  BY <1>1, <1>5 DEF Sealed
<1>8. Queue!Put(TurnOf(s), status)
  <2>1. \A m \in Messages : m \in TurnOf(s) => StandingOf(m)' = status
    BY <1>1, <1>2, <1>3, WorkingIsTurn, NextStandings
  <2>2. \A m \in Messages : m \notin TurnOf(s) => StandingOf(m)' = StandingOf(m)
    BY <1>1, <1>3 DEF StandingOf
  <2> QED
    BY <2>1, <2>2 DEF Queue!Put
<1>9. Queue!Settle(s)
  BY <1>3, <1>6, <1>7, <1>8 DEF Queue!Settle
<1> QED
  BY <1>9 DEF Queue!Next

\* Recovery gives up turns that are not sealed.
LEMMA RecoverMaps ==
  ASSUME IInv, PublishInv, NEW w \in Workers, RecoverStaleRuns(w)
  PROVE  Queue!Next
<1>1. PICK S \in SUBSET {r \in Runs : Recoverable(r) /\ MaySeeExpired(r)} :
        /\ runStatus' = [r \in Runs |-> IF r \in S THEN "stale" ELSE runStatus[r]]
        /\ msgStatus' = [m \in Messages |->
             IF msgStatus[m] \in RequeuedFrom /\ \E r \in S : m \in runMessages[r]
             THEN RequeuedAs ELSE msgStatus[m]]
        /\ UNCHANGED <<runSession, runMessages, pubVars>>
  BY DEF RecoverStaleRuns
<1>0. PICK T : T = {runSession[r] : r \in S}
  OBVIOUS
<1>2. \A r \in S : /\ r \in Runs /\ runStatus[r] \in Active /\ runStatus'[r] \notin Active
                   /\ ~responded[r] /\ ~callbackQueued[r]
  BY <1>1 DEF Recoverable, Active, PublishInv, TouchedCompletes, Touched
<1>3. \A r \in S : /\ runSession[r] \in Sessions /\ ActiveRuns(runSession[r]) = {r}
                   /\ TurnOf(runSession[r]) = runMessages[r] /\ runSession[r] \notin Sealed
  BY <1>2, TurnOfRun
<1>4. T \in SUBSET Sessions /\ T \cap Sealed = {}
  BY <1>0, <1>3
<1>5. \A s \in Sessions : ActiveRuns(s)' = IF s \in T THEN {} ELSE ActiveRuns(s)
  <2>1. ASSUME NEW s \in T PROVE ActiveRuns(s)' = {}
    <3>1. PICK r \in S : s = runSession[r]
      BY <1>0
    <3> QED
      BY <1>1, <1>2, <1>3, <3>1 DEF ActiveRuns
  <2>2. ASSUME NEW s \in Sessions, s \notin T PROVE ActiveRuns(s)' = ActiveRuns(s)
    BY <1>0, <1>1, <2>2 DEF ActiveRuns
  <2> QED
    BY <2>1, <2>2
<1>6. UNION {TurnOf(s) : s \in T} = UNION {runMessages[r] : r \in S}
  BY <1>0, <1>3
<1>7. \A s \in Sessions : TurnOf(s)' = IF s \in T THEN {} ELSE TurnOf(s)
  BY <1>1, <1>5 DEF TurnOf
<1>8. Sealed' = Sealed
  BY <1>1, <1>4, <1>5 DEF Sealed
<1>9. Queue!Put(UNION {TurnOf(s) : s \in T}, "waiting")
  <2>1. ASSUME NEW m \in Messages, NEW r \in S, m \in runMessages[r] PROVE StandingOf(m)' = "waiting"
    <3>1. msgStatus[m] \in InFlight
      BY <1>2, <2>1, WorkingIsTurn
    <3> QED
      BY <1>1, <2>1, <3>1, NextStandings DEF RequeuedFrom, RequeuedAs
  <2>2. ASSUME NEW m \in Messages, \A r \in S : m \notin runMessages[r]
        PROVE  StandingOf(m)' = StandingOf(m)
    BY <1>1, <2>2 DEF StandingOf
  <2> QED
    BY <1>6, <2>1, <2>2 DEF Queue!Put
<1>10. UNION {[t \in Sessions |-> TurnOf(t)][s] : s \in T} = UNION {TurnOf(s) : s \in T}
  BY <1>4
<1>11. Queue!GiveUp(T)
  BY <1>4, <1>7, <1>8, <1>9, <1>10 DEF Queue!GiveUp
<1> QED
  BY <1>4, <1>11 DEF Queue!Next

\* Publishing seals the turn; a callback that is enqueued once more does not.
LEMMA PublicationMaps ==
  ASSUME IInv, PublishInv, NEW w \in Workers, AppendResponse(w) \/ EnqueueCallback(w)
  PROVE  Queue!Next \/ UNCHANGED Queue!vars
<1> DEFINE r == job[w]
           s == runSession[r]
<1>1. r \in Runs /\ Touched(r) /\ UNCHANGED <<msgStatus, runStatus, runSession, runMessages>>
  BY DEF AppendResponse, EnqueueCallback, IInv, BusyHasJob, Touched, Publishing
<1>2. /\ responded'[r] \/ callbackQueued'[r]
      /\ \A q \in Runs \ {r} : responded'[q] = responded[q] /\ callbackQueued'[q] = callbackQueued[q]
  BY <1>1 DEF AppendResponse, EnqueueCallback, IInv, TypeOK, RowsTyped
<1>3. /\ \A t \in Sessions : ActiveRuns(t)' = ActiveRuns(t) /\ TurnOf(t)' = TurnOf(t)
      /\ \A m \in Messages : StandingOf(m)' = StandingOf(m)
  BY <1>1 DEF ActiveRuns, TurnOf, StandingOf
<1>4. CASE runStatus[r] \in Active
  <2>1. s \in Sessions /\ ActiveRuns(s) = {r} /\ TurnOf(s) # {}
    BY <1>1, <1>4, TurnOfRun
  <2>2. \A t \in Sessions \ {s} : r \notin ActiveRuns(t)
    BY DEF ActiveRuns
  <2> HIDE DEF r, s
  <2>3. Sealed' = Sealed \cup {s}
    <3>1. \A t \in Sessions \ {s} : \A q \in ActiveRuns(t) : q \in Runs \ {r}
      BY <2>2 DEF ActiveRuns
    <3> QED
      BY <1>2, <1>3, <2>1, <3>1 DEF Sealed
  <2>4. Queue!Seal(s)
    BY <1>3, <2>1, <2>3 DEF Queue!Seal
  <2> QED
    BY <2>1, <2>4 DEF Queue!Next
<1>5. CASE runStatus[r] \notin Active
  <2>1. \A t \in Sessions : \A q \in ActiveRuns(t) : q \in Runs \ {r}
    BY <1>5 DEF ActiveRuns
  <2> HIDE DEF r, s
  <2>2. Sealed' = Sealed
    BY <1>2, <1>3, <2>1 DEF Sealed
  <2> QED
    BY <1>3, <2>2 DEF Queue!vars
<1> QED
  BY <1>4, <1>5

\* A run that completes has its callback in the outbox; one that fails or is
\* cancelled has published nothing.
LEMMA FinishMaps ==
  ASSUME MapInv, NEW w \in Workers, FinalizeCancellation(w) \/ FailRun(w) \/ CompleteRun(w)
  PROVE  Queue!Next
<1>1. job[w] \in Runs /\ pc[w] \notin {"poll", "recover", "claim", "down"}
  BY DEF MapInv, IInv, BusyHasJob, FinalizeCancellation, FailRun, CompleteRun
<1>2. CASE FinalizeCancellation(w)
  <2>1. runStatus[job[w]] = "cancelling"
    BY <1>2 DEF FinalizeCancellation, CanFinish, FinishesFrom
  <2>2. ~responded[job[w]] /\ ~callbackQueued[job[w]]
    BY <1>1, <2>1 DEF MapInv, PublishInv, TouchedCompletes, Touched
  <2> QED
    BY <1>1, <1>2, <2>2, SettleMaps DEF FinalizeCancellation, Queue!Verdicts, MapInv
<1>3. CASE FailRun(w)
  <2>1. pc[w] \notin Publishing /\ runOwner[job[w]] = w
    BY <1>3 DEF FailRun, CanFinish, Holds, Publishing
  <2>2. ~responded[job[w]] /\ ~callbackQueued[job[w]]
    BY <1>1, <2>1 DEF MapInv, PublishInv, OwnersPublish, Touched
  <2> QED
    BY <1>1, <1>3, <2>2, SettleMaps DEF FailRun, Queue!Verdicts, MapInv
<1>4. CASE CompleteRun(w)
  <2>1. callbackQueued[job[w]]
    BY <1>4 DEF CompleteRun, MapInv, CompletesAfterCallback
  <2> QED
    BY <1>1, <1>4, <2>1, SettleMaps DEF CompleteRun, Queue!Verdicts, MapInv
<1> QED
  BY <1>2, <1>3, <1>4

\* Every step of a worker.
LEMMA WorkerMaps ==
  ASSUME MapInv, NEW w \in Workers,
         PollStep(w) \/ ExecuteStep(w) \/ SettleStep(w) \/ PublishStep(w) \/ FaultStep(w)
  PROVE  Queue!Next \/ UNCHANGED Queue!vars
<1>1. CASE PollStep(w)
  <2>1. ASSUME UNCHANGED <<msgStatus, runStatus, runSession, runMessages, pubVars>>
        PROVE  UNCHANGED Queue!vars
    BY <2>1, FrameStutters
  <2> QED
    BY <1>1, <2>1, ClaimMaps, RecoverMaps
       DEF PollStep, TakeOverCompletion, NoCompletionFound, NothingClaimed, MapInv
<1>2. CASE ExecuteStep(w)
  <2>1. CASE ClaimSteering(w)
    BY <2>1, SteeringMaps DEF MapInv
  <2>2. CASE UNCHANGED <<msgStatus, runStatus, runSession, runMessages, pubVars>>
    BY <2>2, FrameStutters
  <2> QED
    BY <1>2, <2>1, <2>2
       DEF ExecuteStep, Launch, Heartbeat, HeartbeatLost, PollCancellation, CancelSeen, HandOver,
           HandOverFails, RunnerReturns, RunnerAborts, RunThrows, RunnerEnds
<1>3. CASE SettleStep(w)
  <2>1. CASE FinalizeCancellation(w) \/ FailRun(w)
    BY <2>1, FinishMaps
  <2>2. CASE BeginCompletion(w)
    <3>1. /\ job[w] \in Runs /\ runStatus[job[w]] = "running"
          /\ runStatus' = [runStatus EXCEPT ![job[w]] = "completing"]
          /\ UNCHANGED <<msgStatus, runSession, runMessages, pubVars>>
      BY <2>2 DEF BeginCompletion, MapInv, IInv, BusyHasJob
    <3>2. \A r \in Runs : runStatus'[r] \in Active <=> runStatus[r] \in Active
      BY <3>1 DEF Active, MapInv, IInv, TypeOK, RowsTyped
    <3>3. \A m \in Messages : StandingOf(m)' = StandingOf(m)
      BY <3>1 DEF StandingOf
    <3> QED
      BY <3>1, <3>2, <3>3, QueueStutters
  <2>3. CASE UNCHANGED <<msgStatus, runStatus, runSession, runMessages, pubVars>>
    BY <2>3, FrameStutters
  <2> QED
    BY <1>3, <2>1, <2>2, <2>3
       DEF SettleStep, CheckCancellation, FinalizeMisses, CompletionMisses, FailMisses, Misses
<1>4. CASE PublishStep(w)
  <2>1. CASE CompleteRun(w)
    BY <2>1, FinishMaps
  <2>2. CASE AppendResponse(w) \/ EnqueueCallback(w)
    BY <2>2, PublicationMaps DEF MapInv
  <2>3. CASE UNCHANGED <<msgStatus, runStatus, runSession, runMessages, pubVars>>
    BY <2>3, FrameStutters
  <2> QED
    BY <1>4, <2>1, <2>2, <2>3 DEF PublishStep, RenewForPublication, LookForResponse, CheckOwnership
<1>5. CASE FaultStep(w)
  BY <1>5, FrameStutters DEF FaultStep, AbandonPublication, AbandonRun, Crash
<1> QED
  BY <1>1, <1>2, <1>3, <1>4, <1>5

\* Nothing takes a callback out of the outbox, and only its insert leads to the
\* completion of the run.
LEMMA CallbackBeforeCompletion ==
  ASSUME TypeOK, BusyHasJob, CompletesAfterCallback, [Next]_vars
  PROVE  CompletesAfterCallback'
<1> USE DEF TypeOK, RowsTyped, WorkersTyped, Goto
<1>1. ASSUME UNCHANGED <<pc, job, callbackQueued>> PROVE CompletesAfterCallback'
  BY <1>1 DEF CompletesAfterCallback
<1>2. CASE UserStep \/ (\E r \in Runs : Lapse(r)) \/ UNCHANGED vars
  BY <1>1, <1>2
     DEF UserStep, EnqueueMessage, ActivateScheduled, RetryScheduled, JoinQueue, EditSteering,
         CancelPending, RequestCancel, Archive, Unarchive, SetQueuePaused, Lapse, vars
<1>3. ASSUME NEW w \in Workers, UNCHANGED callbackQueued,
             \A v \in Workers \ {w} : pc'[v] = pc[v] /\ job'[v] = job[v],
             pc'[w] = "complete" => pc[w] = "complete" /\ job'[w] = job[w]
      PROVE  CompletesAfterCallback'
  BY <1>3 DEF CompletesAfterCallback
<1>4. ASSUME NEW w \in Workers, PollStep(w) PROVE CompletesAfterCallback'
  <2>1. UNCHANGED callbackQueued /\ pc'[w] # "complete"
    BY <1>4 DEF PollStep, TakeOverCompletion, NoCompletionFound, RecoverStaleRuns, ClaimBatch, NothingClaimed
  <2>2. \A v \in Workers \ {w} : pc'[v] = pc[v] /\ job'[v] = job[v]
    BY <1>4 DEF PollStep, TakeOverCompletion, NoCompletionFound, RecoverStaleRuns, ClaimBatch, NothingClaimed
  <2> QED
    BY <2>1, <2>2, <1>3
<1>5. ASSUME NEW w \in Workers, ExecuteStep(w) PROVE CompletesAfterCallback'
  <2>1. UNCHANGED <<callbackQueued, job>> /\ (pc'[w] = "complete" => pc[w] = "complete")
    BY <1>5
       DEF ExecuteStep, Launch, Heartbeat, HeartbeatLost, PollCancellation, CancelSeen, ClaimSteering, HandOver,
           HandOverFails, RunnerReturns, RunnerAborts, RunThrows, RunnerEnds
  <2>2. \A v \in Workers \ {w} : pc'[v] = pc[v]
    BY <1>5
       DEF ExecuteStep, Launch, Heartbeat, HeartbeatLost, PollCancellation, CancelSeen, ClaimSteering, HandOver,
           HandOverFails, RunnerReturns, RunnerAborts, RunThrows, RunnerEnds
  <2> QED
    BY <2>1, <2>2, <1>3
<1>6. ASSUME NEW w \in Workers, SettleStep(w) PROVE CompletesAfterCallback'
  <2>1. UNCHANGED callbackQueued /\ pc'[w] # "complete"
    BY <1>6
       DEF SettleStep, CheckCancellation, FinalizeCancellation, FinalizeMisses, BeginCompletion,
           CompletionMisses, FailRun, FailMisses, Misses, FinishRun, Done, GoesOn
  <2>2. \A v \in Workers \ {w} : pc'[v] = pc[v] /\ job'[v] = job[v]
    BY <1>6
       DEF SettleStep, CheckCancellation, FinalizeCancellation, FinalizeMisses, BeginCompletion,
           CompletionMisses, FailRun, FailMisses, Misses, Done
  <2> QED
    BY <2>1, <2>2, <1>3
<1>7. ASSUME NEW w \in Workers, PublishStep(w) \/ FaultStep(w) PROVE CompletesAfterCallback'
  <2>1. CASE EnqueueCallback(w)
    <3>1. /\ job[w] \in Runs /\ callbackQueued'[job[w]] /\ UNCHANGED job
          /\ \A v \in Workers \ {w} : pc'[v] = pc[v]
      BY <2>1 DEF EnqueueCallback, BusyHasJob
    <3>2. \A r \in Runs : callbackQueued[r] => callbackQueued'[r]
      BY <2>1, <3>1 DEF EnqueueCallback
    <3>3. \A v \in Workers : pc[v] = "complete" => job[v] \in Runs
      BY DEF BusyHasJob
    <3> QED
      BY <3>1, <3>2, <3>3 DEF CompletesAfterCallback
  <2>2. CASE ~EnqueueCallback(w)
    <3>1. UNCHANGED callbackQueued /\ pc'[w] # "complete"
      BY <1>7, <2>2
         DEF PublishStep, RenewForPublication, LookForResponse, AppendResponse, CheckOwnership,
             CompleteRun, FinishRun, FaultStep, AbandonPublication, AbandonRun, Crash, Done
    <3>2. \A v \in Workers \ {w} : pc'[v] = pc[v] /\ job'[v] = job[v]
      BY <1>7, <2>2
         DEF PublishStep, RenewForPublication, LookForResponse, AppendResponse, CheckOwnership,
             CompleteRun, FaultStep, AbandonPublication, AbandonRun, Crash, Done
    <3> QED
      BY <3>1, <3>2, <1>3
  <2> QED
    BY <2>1, <2>2
<1> QED
  BY <1>2, <1>4, <1>5, <1>6, <1>7 DEF Next

\* The queue and the runs keep the promise of SessionQueue: a session shows one
\* turn at a time, whose messages end together, and a turn whose answer is out
\* ends completed, whatever workers crash, stall and take over.
THEOREM QueueIsImplemented == Spec => ImplementsSessionQueue
<1>1. Init => Queue!Init
  <2> SUFFICES ASSUME Init PROVE Queue!Init
    OBVIOUS
  <2>1. \A m \in Messages : StandingOf(m) = "absent"
    BY Standings DEF Init, InFlight
  <2>2. \A s \in Sessions : ActiveRuns(s) = {}
    BY DEF Init, ActiveRuns, Active
  <2>3. (\A s \in Sessions : TurnOf(s) = {}) /\ Sealed = {}
    BY <2>2 DEF TurnOf, Sealed
  <2> QED
    BY <2>1, <2>3 DEF Queue!Init
<1>2. MapInv /\ [Next]_vars => [Queue!Next]_Queue!vars
  <2> SUFFICES ASSUME MapInv, [Next]_vars PROVE Queue!Next \/ UNCHANGED Queue!vars
    OBVIOUS
  <2>1. CASE UserStep
    BY <2>1, UserMaps DEF MapInv, IInv
  <2>2. CASE (\E r \in Runs : Lapse(r)) \/ UNCHANGED vars
    BY <2>2, FrameStutters DEF Lapse, vars
  <2> QED
    BY <2>1, <2>2, WorkerMaps DEF Next
<1>3. Init => CompletesAfterCallback
  BY DEF Init, CompletesAfterCallback
<1>4. IInv /\ CompletesAfterCallback /\ [Next]_vars => CompletesAfterCallback'
  BY CallbackBeforeCompletion DEF IInv
<1>5. Spec => []CompletesAfterCallback
  BY <1>3, <1>4, QueueInvariant, PTL DEF Spec
<1>6. Spec => []MapInv
  BY <1>5, QueueInvariant, PublicationInvariant, PTL DEF MapInv
<1> QED
  BY <1>1, <1>2, <1>6, PTL DEF Spec, ImplementsSessionQueue, Queue!Spec
=============================================================================
