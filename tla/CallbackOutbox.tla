---------------------------- MODULE CallbackOutbox ----------------------------
(***************************************************************************)
(* The outbox of completion callbacks (table callback_deliveries) and its  *)
(* dispatchers: a worker whose poll finds no run claims the due deliveries,*)
(* sends them one after the other and records each result under the token  *)
(* of its claim.  The provider may accept a delivery whose answer is lost; *)
(* a dispatcher may crash or throw between any two calls, and a delivery   *)
(* that is "sending" for too long is claimed again.                        *)
(*                                                                         *)
(* Payloads and targets are left out, and so is the order within a batch.  *)
(* A definition whose name ends in _Mutant is a plausible defect of the    *)
(* one that follows it, and is not used.                                   *)
(***************************************************************************)
EXTENDS Naturals, FiniteSets, FiniteSetsExt

CONSTANTS
  Deliveries,
  Workers,
  MaxAttempts,    \* callback_deliveries.max_attempts of a new delivery
  BatchSize,      \* CallbackDispatcher.batchSize
  AttemptsBound   \* replays stop there; the code has no such bound

ASSUME OutboxAssumption ==
  /\ MaxAttempts \in Nat \ {0}
  /\ BatchSize \in Nat \ {0}
  /\ AttemptsBound \in Nat

VARIABLES
  status,       \* callback_deliveries.status, or "absent"
  attempts,     \* attempts
  maxAttempts,  \* max_attempts
  claimToken,   \* claim_token: the attempt it was drawn for, 0 for NULL
  due,          \* next_attempt_at IS NULL OR next_attempt_at <= now
  overdue,      \* last_attempt_at <= now - staleCallbackSendingMs
  batch,        \* batch[w]: the claimed deliveries w has not yet sent
  sent,         \* sent[w]: the one w is sending, or {}
  step,         \* what the worker w does next, of polls and dispatcher's calls
  received      \* received[d]: how often the provider accepted d

rowVars == <<status, attempts, maxAttempts, claimToken, due, overdue>>
dispatchVars == <<batch, sent, step>>
vars == <<rowVars, dispatchVars, received>>

\* A claimed row, as the dispatcher keeps it: terminal says that its attempts
\* reached max_attempts when it was claimed.
Claim == [id : Deliveries, token : Nat, terminal : BOOLEAN]

Init ==
  /\ status = [d \in Deliveries |-> "absent"]
  /\ attempts = [d \in Deliveries |-> 0]
  /\ maxAttempts = [d \in Deliveries |-> MaxAttempts]
  /\ claimToken = [d \in Deliveries |-> 0]
  /\ due = [d \in Deliveries |-> TRUE]
  /\ overdue = [d \in Deliveries |-> FALSE]
  /\ batch = [w \in Workers |-> {}]
  /\ sent = [w \in Workers |-> {}]
  /\ step = [w \in Workers |-> "poll"]
  /\ received = [d \in Deliveries |-> 0]

-----------------------------------------------------------------------------
(* The outbox.                                                              *)

\* The worker's enqueueCompletion; an insert of the same id changes nothing.
Enqueue(d) ==
  /\ status[d] = "absent"
  /\ status' = [status EXCEPT ![d] = "pending"]
  /\ UNCHANGED <<attempts, maxAttempts, claimToken, due, overdue, dispatchVars, received>>

\* A failed delivery gets at least one more attempt.
ReplayedMax_Mutant(d) == maxAttempts[d]
ReplayedMax(d) == Max({maxAttempts[d], attempts[d] + 1})
RequestReplay(d) ==
  /\ status[d] = "failed"
  /\ attempts[d] < AttemptsBound
  /\ status' = [status EXCEPT ![d] = "pending"]
  /\ due' = [due EXCEPT ![d] = TRUE]
  /\ maxAttempts' = [maxAttempts EXCEPT ![d] = ReplayedMax(d)]
  /\ UNCHANGED <<attempts, claimToken, overdue, dispatchVars, received>>

\* The backoff of a delivery ends.
BecomesDue(d) ==
  /\ ~due[d]
  /\ due' = [due EXCEPT ![d] = TRUE]
  /\ UNCHANGED <<status, attempts, maxAttempts, claimToken, overdue, dispatchVars, received>>

\* A delivery has been sending for staleCallbackSendingMs.
BecomesOverdue(d) ==
  /\ status[d] = "sending"
  /\ ~overdue[d]
  /\ overdue' = [overdue EXCEPT ![d] = TRUE]
  /\ UNCHANGED <<status, attempts, maxAttempts, claimToken, due, dispatchVars, received>>

-----------------------------------------------------------------------------
(* The dispatcher.                                                          *)

\* processNext claimed no run.  A worker that has runs to work on stays where
\* it is.
FindNoRun(w) ==
  /\ step[w] = "poll"
  /\ step' = [step EXCEPT ![w] = "claim"]
  /\ UNCHANGED <<rowVars, batch, sent, received>>

\* No row is due, or those that are have been locked by another claim.
NothingDue(w) ==
  /\ step[w] = "claim"
  /\ step' = [step EXCEPT ![w] = "poll"]
  /\ UNCHANGED <<rowVars, batch, sent, received>>

Claimable(d) ==
  /\ due[d]
  /\ attempts[d] < maxAttempts[d]
  /\ status[d] = "pending" \/ (status[d] = "sending" /\ overdue[d])

\* Every claim draws a token of its own.
NewToken_Mutant(d) == IF claimToken[d] = 0 THEN attempts[d] + 1 ELSE claimToken[d]
NewToken(d) == attempts[d] + 1

\* Whether the attempt that is being claimed is the last.
IsTerminal(d) == attempts[d] + 1 >= maxAttempts[d]

\* claimDueCallbackDeliveries takes the due rows that no other claim has locked.
\* The reply to its COMMIT may be lost.
ClaimDue(w) ==
  \E S \in SUBSET {d \in Deliveries : Claimable(d)}, replied \in BOOLEAN :
    /\ step[w] = "claim"
    /\ S # {} /\ Cardinality(S) <= BatchSize
    /\ status' = [d \in Deliveries |-> IF d \in S THEN "sending" ELSE status[d]]
    /\ attempts' = [d \in Deliveries |-> IF d \in S THEN attempts[d] + 1 ELSE attempts[d]]
    /\ claimToken' = [d \in Deliveries |-> IF d \in S THEN NewToken(d) ELSE claimToken[d]]
    /\ overdue' = [d \in Deliveries |-> d \notin S /\ overdue[d]]
    /\ IF replied
       THEN /\ batch' = [batch EXCEPT ![w] =
                 {[id |-> d, token |-> NewToken(d), terminal |-> IsTerminal(d)] : d \in S}]
            /\ step' = [step EXCEPT ![w] = "deliver"]
       ELSE step' = [step EXCEPT ![w] = "poll"] /\ UNCHANGED batch
    /\ UNCHANGED <<maxAttempts, due, sent, received>>

\* The sender's call: accepted and answered, accepted with the answer lost, or
\* refused.
Deliver(w) ==
  \E c \in batch[w], accepted, answered \in BOOLEAN :
    /\ step[w] = "deliver"
    /\ answered => accepted
    /\ batch' = [batch EXCEPT ![w] = @ \ {c}]
    /\ sent' = [sent EXCEPT ![w] = {c}]
    /\ step' = [step EXCEPT ![w] = IF answered THEN "markSent" ELSE "markFailed"]
    /\ received' = [received EXCEPT ![c.id] = IF accepted THEN @ + 1 ELSE @]
    /\ UNCHANGED rowVars

\* The dispatcher goes on with the next delivery, or returns.
Continue_Mutant(w) ==
  /\ batch' = [batch EXCEPT ![w] = {}]
  /\ sent' = [sent EXCEPT ![w] = {}]
  /\ step' = [step EXCEPT ![w] = "poll"]
Continue(w) ==
  /\ sent' = [sent EXCEPT ![w] = {}]
  /\ step' = [step EXCEPT ![w] = IF batch[w] = {} THEN "poll" ELSE "deliver"]
  /\ UNCHANGED batch

\* WHERE claim_token = the token of the claim.
HoldsClaim(c) == claimToken[c.id] = c.token

\* markCallbackDeliverySent.  Its event may fail to be appended, and the catch
\* clause then tries to record a failure.
MarkSent(w) ==
  \E c \in sent[w] :
    /\ step[w] = "markSent"
    /\ HoldsClaim(c)
    /\ status' = [status EXCEPT ![c.id] = "sent"]
    /\ claimToken' = [claimToken EXCEPT ![c.id] = 0]
    /\ due' = [due EXCEPT ![c.id] = TRUE]
    /\ \/ Continue(w)
       \/ step' = [step EXCEPT ![w] = "markFailed"] /\ UNCHANGED <<batch, sent>>
    /\ UNCHANGED <<attempts, maxAttempts, overdue, received>>

\* The claim was lost, or the call fails.
MarkSentThrows(w) ==
  /\ step[w] = "markSent"
  /\ step' = [step EXCEPT ![w] = "markFailed"]
  /\ UNCHANGED <<rowVars, batch, sent, received>>

\* What a failed attempt leaves behind: a retry with backoff, or the end.
AfterFailure_Mutant(c) == "failed"
AfterFailure(c) == IF c.terminal THEN "failed" ELSE "pending"

\* markCallbackDeliveryFailed.
MarkFailed(w) ==
  \E c \in sent[w] :
    /\ step[w] = "markFailed"
    /\ HoldsClaim(c)
    /\ status' = [status EXCEPT ![c.id] = AfterFailure(c)]
    /\ claimToken' = [claimToken EXCEPT ![c.id] = 0]
    /\ due' = [due EXCEPT ![c.id] = c.terminal]
    /\ Continue(w)
    /\ UNCHANGED <<attempts, maxAttempts, overdue, received>>

\* dispatchDue ends with a delivery in hand: what is left of its batch stays
\* "sending".
LeaveBatch(w) ==
  /\ batch' = [batch EXCEPT ![w] = {}]
  /\ sent' = [sent EXCEPT ![w] = {}]
  /\ step' = [step EXCEPT ![w] = "poll"]
  /\ UNCHANGED <<rowVars, received>>

\* No row has the token of the result that w has to record.
TooLate(w) == step[w] = "markFailed" /\ \E c \in sent[w] : ~HoldsClaim(c)

\* The error of a result that is too late leaves the catch clause, and with it
\* dispatchDue.
Refused(w) == TooLate(w) /\ LeaveBatch(w)

\* A crash, or a query of the catch clause that fails.  Where the result is too
\* late anyhow, it comes to the same.
Break(w) ==
  /\ step[w] \notin {"poll", "claim"}
  /\ ~TooLate(w)
  /\ LeaveBatch(w)

Next ==
  \/ \E d \in Deliveries : \/ Enqueue(d)
                           \/ RequestReplay(d)
                           \/ BecomesDue(d)
                           \/ BecomesOverdue(d)
  \/ \E w \in Workers : \/ FindNoRun(w)
                        \/ NothingDue(w)
                        \/ ClaimDue(w)
                        \/ Deliver(w)
                        \/ MarkSent(w)
                        \/ MarkSentThrows(w)
                        \/ MarkFailed(w)
                        \/ Refused(w)
                        \/ Break(w)

Spec == Init /\ [][Next]_vars

-----------------------------------------------------------------------------
\* Every variable has its type: no call leaves a delivery in a status that no
\* other call looks for.
TypeOK ==
  /\ status \in [Deliveries -> {"absent", "pending", "sending", "sent", "failed"}]
  /\ attempts \in [Deliveries -> Nat]
  /\ maxAttempts \in [Deliveries -> Nat]
  /\ claimToken \in [Deliveries -> Nat]
  /\ due \in [Deliveries -> BOOLEAN]
  /\ overdue \in [Deliveries -> BOOLEAN]
  /\ batch \in [Workers -> SUBSET Claim]
  /\ sent \in [Workers -> SUBSET Claim]
  /\ step \in [Workers -> {"poll", "claim", "deliver", "markSent", "markFailed"}]
  /\ received \in [Deliveries -> Nat]

\* The retries of a delivery are bounded: the provider is never called more
\* often than max_attempts allows, whatever dispatchers crash or overlap.
WithinBudget ==
  \A d \in Deliveries : received[d] <= attempts[d] /\ attempts[d] <= maxAttempts[d]

\* A waiting delivery has an attempt left, and one is only given up when none
\* is, however often it was replayed: no row waits for a claim that its
\* attempts will never allow.
BudgetDecides ==
  \A d \in Deliveries :
    /\ status[d] = "pending" => attempts[d] < maxAttempts[d]
    /\ status[d] = "failed" => attempts[d] = maxAttempts[d]

\* The result of an attempt is recorded by the dispatcher that made the latest
\* one: a dispatcher whose delivery was claimed again meanwhile has no say.
LatestAttemptDecides ==
  [][\A d \in Deliveries : status[d] = "sending" /\ status'[d] # "sending" =>
       \E w \in Workers : \E c \in sent[w] : c.id = d /\ c.token = attempts[d]]_vars

\* A delivery that was recorded as sent was accepted by the provider, and is
\* never sent or recorded again by a dispatcher that is late.
SentIsFinal ==
  [][\A d \in Deliveries : status[d] = "sent" =>
       received[d] > 0 /\ status'[d] = "sent" /\ attempts'[d] = attempts[d]]_vars

\* A delivery in its last attempt.
Exhausted(d) == status[d] = "sending" /\ attempts[d] = maxAttempts[d]

\* Some dispatcher has the claim of the latest attempt.
Held(d) == \E w \in Workers : \E c \in batch[w] \cup sent[w] : c.id = d /\ HoldsClaim(c)

\* No claim and no replay will ever look at it again.
Forgotten(d) == Exhausted(d) /\ ~Held(d)

\* The result of c has no row to go to: the delivery was claimed again while it
\* was being sent, or it is recorded as sent and only the event was not appended.
Superseded(c) == attempts[c.id] > c.token \/ status[c.id] = "sent"

\* The dispatcher that has d breaks off, the reply to its claim is lost, or d is still
\* unsent in a batch whose dispatcher came too late with an earlier delivery.
LetGo(d) ==
  \E w \in Workers :
    \/ ClaimDue(w) /\ UNCHANGED batch /\ Claimable(d)
    \/ Break(w) /\ \E c \in batch[w] \cup sent[w] : c.id = d
    \/ /\ Refused(w)
       /\ \E c \in batch[w] : c.id = d
       /\ \E c \in sent[w] : c.id # d /\ Superseded(c)

\* A delivery is only forgotten when it is let go in one of the three ways of LetGo
\* (dispatchDue, claimDueCallbackDeliveries).  No result that is recorded forgets one.
ForgottenIsExplained ==
  [][\A d \in Deliveries : Forgotten(d)' => Forgotten(d) \/ LetGo(d)]_vars

\* How a DeliveryLedger shows in the rows.
Standing(d) == IF status[d] \in {"pending", "sending"} THEN "open" ELSE status[d]

Ledger ==
  INSTANCE DeliveryLedger
  WITH standing <- [d \in Deliveries |-> Standing(d)],
       budget <- maxAttempts,
       tried <- attempts,
       accepted <- received

\* docs/integrations.md:578: "terminal failure after `max_attempts`"; :127: callback_sent
\* is recorded on success.  Rows and dispatchers together keep such a ledger, whatever
\* claims, answers and results are lost, late or overlap.
ImplementsLedger == Ledger!Spec

-----------------------------------------------------------------------------
(* Liveness.  Time passes, and awaited calls return or throw.  A worker that *)
(* has come to the claim goes through with it, and a due row is not locked   *)
(* each time.  Nothing makes a poll find no run.                             *)

Fairness ==
  /\ \A d \in Deliveries : WF_vars(BecomesDue(d)) /\ WF_vars(BecomesOverdue(d))
  /\ SF_vars(\E w \in Workers : ClaimDue(w))
  /\ \A w \in Workers : /\ WF_vars(ClaimDue(w) \/ NothingDue(w))
                        /\ WF_vars(Deliver(w))
                        /\ WF_vars(MarkSent(w) \/ MarkSentThrows(w))
                        /\ WF_vars(MarkFailed(w) \/ Refused(w))

LiveSpec == Spec /\ Fairness

\* From some time on every poll of every worker finds a run.
Starved == <>[](\A w \in Workers : step[w] # "claim")

\* A delivery that waits is sent or given up, or forgotten in a way that
\* ForgottenIsExplained names, however often dispatchers break off, overlap or come
\* late, unless the queue starves the dispatchers: they only have a turn when there is
\* nothing to run (processNext).
DeliveryIsDecided ==
  \/ Starved
  \/ \A d \in Deliveries :
       status[d] = "pending" ~> status[d] \in {"sent", "failed"} \/ Forgotten(d)

\* docs/integrations.md: the dispatcher records callback_sent on success, and
\* callback_failed after terminal failure.  One of them is recorded in the end.
DeliveryEnds ==
  \/ Starved
  \/ \A d \in Deliveries : status[d] = "pending" ~> status[d] \in {"sent", "failed"}
=============================================================================
