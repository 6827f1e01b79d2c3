----------------------------- MODULE OutboxProofs -----------------------------
(***************************************************************************)
(* The outbox of completion callbacks, for any number of deliveries and    *)
(* dispatchers: types, the token that tells the latest claim of a delivery *)
(* from the others, the calls that a delivery's attempts pay for, and the  *)
(* ledger that all of it keeps.                                            *)
(***************************************************************************)
EXTENDS CallbackOutbox, FiniteSetTheorems, TLAPS

USE DEF rowVars, dispatchVars

\* A worker that comes to the claim, or finds nothing there.
Turns(w) == FindNoRun(w) \/ NothingDue(w)

\* The steps of a worker.
LEMMA Steps ==
  ASSUME Next
  PROVE  \/ \E d \in Deliveries : \/ Enqueue(d) \/ RequestReplay(d)
                                 \/ BecomesDue(d) \/ BecomesOverdue(d)
         \/ \E w \in Workers : \/ ClaimDue(w) \/ Deliver(w) \/ MarkSent(w) \/ MarkFailed(w)
                              \/ MarkSentThrows(w) \/ LeaveBatch(w) \/ Turns(w)
BY DEF Next, Refused, Break, Turns

-----------------------------------------------------------------------------
(* Types.                                                                   *)

LEMMA ReplayedMaxIs ==
  ASSUME TypeOK, NEW d \in Deliveries
  PROVE  /\ ReplayedMax(d) \in Nat
         /\ ReplayedMax(d) \in {maxAttempts[d], attempts[d] + 1}
         /\ ReplayedMax(d) >= maxAttempts[d]
         /\ ReplayedMax(d) > attempts[d]
<1>1. maxAttempts[d] \in Nat /\ attempts[d] + 1 \in Nat
  BY DEF TypeOK
<1>2. \E x \in {maxAttempts[d], attempts[d] + 1} : \A y \in {maxAttempts[d], attempts[d] + 1} : x >= y
  BY <1>1
<1>3. /\ ReplayedMax(d) \in {maxAttempts[d], attempts[d] + 1}
      /\ ReplayedMax(d) >= maxAttempts[d]
      /\ ReplayedMax(d) >= attempts[d] + 1
  BY <1>2 DEF ReplayedMax, Max
<1> QED
  BY <1>1, <1>3 DEF TypeOK

LEMMA OutboxTypes == TypeOK /\ [Next]_vars => TypeOK'
<1> SUFFICES ASSUME TypeOK, [Next]_vars PROVE TypeOK'
  OBVIOUS
<1> USE DEF TypeOK
<1>1. ASSUME NEW d \in Deliveries, Enqueue(d) \/ BecomesDue(d) \/ BecomesOverdue(d) PROVE TypeOK'
  BY <1>1 DEF Enqueue, BecomesDue, BecomesOverdue
<1>2. ASSUME NEW d \in Deliveries, RequestReplay(d) PROVE TypeOK'
  BY <1>2, ReplayedMaxIs DEF RequestReplay
<1>3. ASSUME NEW w \in Workers, ClaimDue(w) PROVE TypeOK'
  <2>1. PICK S \in SUBSET Deliveries, replied \in BOOLEAN :
          /\ status' = [d \in Deliveries |-> IF d \in S THEN "sending" ELSE status[d]]
          /\ attempts' = [d \in Deliveries |-> IF d \in S THEN attempts[d] + 1 ELSE attempts[d]]
          /\ claimToken' = [d \in Deliveries |-> IF d \in S THEN NewToken(d) ELSE claimToken[d]]
          /\ overdue' = [d \in Deliveries |-> d \notin S /\ overdue[d]]
          /\ IF replied
             THEN /\ batch' = [batch EXCEPT ![w] =
                       {[id |-> d, token |-> NewToken(d), terminal |-> IsTerminal(d)] : d \in S}]
                  /\ step' = [step EXCEPT ![w] = "deliver"]
             ELSE step' = [step EXCEPT ![w] = "poll"] /\ UNCHANGED batch
          /\ UNCHANGED <<maxAttempts, due, sent, received>>
    BY <1>3 DEF ClaimDue
  <2>2. \A d \in Deliveries : NewToken(d) \in Nat /\ IsTerminal(d) \in BOOLEAN
    BY DEF NewToken, IsTerminal
  <2>3. {[id |-> d, token |-> NewToken(d), terminal |-> IsTerminal(d)] : d \in S} \in SUBSET Claim
    BY <2>2 DEF Claim
  <2>4. batch' \in [Workers -> SUBSET Claim] /\ step' \in [Workers -> {"poll", "claim", "deliver", "markSent", "markFailed"}]
    BY <2>1, <2>3
  <2>5. /\ status' \in [Deliveries -> {"absent", "pending", "sending", "sent", "failed"}]
        /\ attempts' \in [Deliveries -> Nat]
        /\ claimToken' \in [Deliveries -> Nat]
    BY <2>1, <2>2
  <2>6. overdue' \in [Deliveries -> BOOLEAN]
    BY <2>1
  <2> QED
    BY <2>1, <2>4, <2>5, <2>6
<1>4. ASSUME NEW w \in Workers, Deliver(w) PROVE TypeOK'
  <2>1. PICK c \in batch[w], accepted \in BOOLEAN, answered \in BOOLEAN :
          /\ batch' = [batch EXCEPT ![w] = @ \ {c}]
          /\ sent' = [sent EXCEPT ![w] = {c}]
          /\ step' = [step EXCEPT ![w] = IF answered THEN "markSent" ELSE "markFailed"]
          /\ received' = [received EXCEPT ![c.id] = IF accepted THEN @ + 1 ELSE @]
          /\ UNCHANGED rowVars
    BY <1>4 DEF Deliver
  <2>2. c \in Claim /\ c.id \in Deliveries
    BY DEF Claim
  <2>3. received' \in [Deliveries -> Nat]
    BY <2>1, <2>2
  <2>4. step' \in [Workers -> {"poll", "claim", "deliver", "markSent", "markFailed"}]
    BY <2>1
  <2> QED
    BY <2>1, <2>2, <2>3, <2>4
<1>5. ASSUME NEW w \in Workers, MarkSent(w) PROVE TypeOK'
  BY <1>5 DEF MarkSent, Continue, Claim
<1>6. ASSUME NEW w \in Workers, MarkFailed(w) PROVE TypeOK'
  <2>1. PICK c \in sent[w] :
          /\ status' = [status EXCEPT ![c.id] = AfterFailure(c)]
          /\ claimToken' = [claimToken EXCEPT ![c.id] = 0]
          /\ due' = [due EXCEPT ![c.id] = c.terminal]
          /\ Continue(w)
          /\ UNCHANGED <<attempts, maxAttempts, overdue, received>>
    BY <1>6 DEF MarkFailed
  <2>2. c.terminal \in BOOLEAN /\ AfterFailure(c) \in {"failed", "pending"}
    BY DEF Claim, AfterFailure
  <2> QED
    BY <2>1, <2>2 DEF Continue
<1>7. ASSUME NEW w \in Workers, MarkSentThrows(w) \/ LeaveBatch(w) \/ Turns(w) PROVE TypeOK'
  BY <1>7 DEF MarkSentThrows, LeaveBatch, Turns, FindNoRun, NothingDue
<1> QED
  BY <1>1, <1>2, <1>3, <1>4, <1>5, <1>6, <1>7, Steps DEF vars

\* Every variable of CallbackOutbox has its type.
THEOREM OutboxTyped == Spec => []TypeOK
<1>1. Init => TypeOK
  BY OutboxAssumption DEF Init, TypeOK
<1> QED
  BY <1>1, OutboxTypes, PTL DEF Spec

-----------------------------------------------------------------------------
(* Claims and tokens.                                                       *)

\* A delivery has a token while it is sending: that of its latest attempt.
TokensOK ==
  \A d \in Deliveries : claimToken[d] = IF status[d] = "sending" THEN attempts[d] ELSE 0

\* A claim that still holds its delivery knows whether its attempt is the last;
\* any other claim has the token of an earlier attempt.
ClaimOK(c) ==
  /\ c.token > 0 /\ c.token <= attempts[c.id]
  /\ HoldsClaim(c) => (c.terminal <=> attempts[c.id] = maxAttempts[c.id])
ClaimsOK == \A w \in Workers : \A c \in batch[w] \cup sent[w] : ClaimOK(c)

RowOK(d) ==
  /\ attempts[d] <= maxAttempts[d]
  /\ status[d] \in {"absent", "pending"} => attempts[d] < maxAttempts[d]
  /\ status[d] = "failed" => attempts[d] = maxAttempts[d]
  /\ status[d] = "sent" => received[d] > 0

\* Only what the provider answered is about to be recorded as sent.
AnsweredOK == \A w \in Workers : step[w] = "markSent" => \A c \in sent[w] : received[c.id] > 0

ClaimInv == TypeOK /\ TokensOK /\ ClaimsOK /\ (\A d \in Deliveries : RowOK(d)) /\ AnsweredOK

\* No new claim is made: claims stay right, or lose their delivery.
LEMMA ClaimsKept ==
  ASSUME TypeOK, ClaimsOK, UNCHANGED attempts,
         \A w \in Workers : batch'[w] \cup sent'[w] \subseteq batch[w] \cup sent[w],
         \A d \in Deliveries : \/ claimToken'[d] = 0
                               \/ claimToken'[d] = claimToken[d] /\ maxAttempts'[d] = maxAttempts[d]
  PROVE  ClaimsOK'
<1> SUFFICES ASSUME NEW w \in Workers, NEW c \in batch'[w] \cup sent'[w] PROVE ClaimOK(c)'
  BY DEF ClaimsOK
<1>1. c \in Claim /\ ClaimOK(c)
  BY DEF ClaimsOK, TypeOK
<1>2. c.id \in Deliveries /\ c.token \in Nat
  BY <1>1 DEF Claim
<1> QED
  BY <1>1, <1>2 DEF ClaimOK, HoldsClaim

\* What happens to a delivery while nobody claims or records it.
LEMMA RowSteps ==
  ASSUME ClaimInv, NEW d \in Deliveries,
         Enqueue(d) \/ RequestReplay(d) \/ BecomesDue(d) \/ BecomesOverdue(d)
  PROVE  TokensOK' /\ ClaimsOK' /\ (\A e \in Deliveries : RowOK(e)') /\ AnsweredOK'
<1>1. UNCHANGED <<attempts, claimToken, batch, sent, step, received>>
  BY DEF Enqueue, RequestReplay, BecomesDue, BecomesOverdue
<1>2. \A e \in Deliveries \ {d} : status'[e] = status[e] /\ maxAttempts'[e] = maxAttempts[e]
  BY DEF Enqueue, RequestReplay, BecomesDue, BecomesOverdue, ClaimInv, TypeOK
<1>3. \/ status'[d] = status[d] /\ maxAttempts'[d] = maxAttempts[d]
      \/ status[d] = "absent" /\ status'[d] = "pending" /\ maxAttempts'[d] = maxAttempts[d]
      \/ status[d] = "failed" /\ status'[d] = "pending" /\ maxAttempts'[d] = ReplayedMax(d)
  BY DEF Enqueue, RequestReplay, BecomesDue, BecomesOverdue, ClaimInv, TypeOK
<1>4. TokensOK'
  BY <1>1, <1>2, <1>3 DEF ClaimInv, TokensOK
<1>5. \A e \in Deliveries : \/ claimToken'[e] = 0
                            \/ claimToken'[e] = claimToken[e] /\ maxAttempts'[e] = maxAttempts[e]
  BY <1>1, <1>2, <1>3 DEF ClaimInv, TokensOK
<1>6. ClaimsOK'
  BY <1>1, <1>5, ClaimsKept DEF ClaimInv
<1>7. RowOK(d)'
  BY <1>1, <1>3, ReplayedMaxIs DEF ClaimInv, RowOK, TypeOK
<1>8. \A e \in Deliveries \ {d} : RowOK(e)'
  BY <1>1, <1>2 DEF ClaimInv, RowOK
<1>9. AnsweredOK'
  BY <1>1 DEF ClaimInv, AnsweredOK
<1> QED
  BY <1>4, <1>6, <1>7, <1>8, <1>9

\* A claim draws tokens that no earlier claim has.
LEMMA ClaimStep ==
  ASSUME ClaimInv, NEW w \in Workers, ClaimDue(w)
  PROVE  TokensOK' /\ ClaimsOK' /\ (\A e \in Deliveries : RowOK(e)') /\ AnsweredOK'
<1> USE DEF ClaimInv
<1>1. PICK S \in SUBSET {d \in Deliveries : Claimable(d)} :
        /\ status' = [d \in Deliveries |-> IF d \in S THEN "sending" ELSE status[d]]
        /\ attempts' = [d \in Deliveries |-> IF d \in S THEN attempts[d] + 1 ELSE attempts[d]]
        /\ claimToken' = [d \in Deliveries |-> IF d \in S THEN attempts[d] + 1 ELSE claimToken[d]]
        /\ \/ batch' = [batch EXCEPT ![w] =
                   {[id |-> d, token |-> NewToken(d), terminal |-> IsTerminal(d)] : d \in S}]
           \/ UNCHANGED batch
        /\ \/ step' = [step EXCEPT ![w] = "deliver"]
           \/ step' = [step EXCEPT ![w] = "poll"]
        /\ UNCHANGED <<maxAttempts, sent, received>>
  BY DEF ClaimDue, NewToken
<1>2. \A d \in S : d \in Deliveries /\ attempts[d] < maxAttempts[d]
  BY DEF Claimable
<1>3. TokensOK'
  BY <1>1 DEF TokensOK
<1>4. \A d \in Deliveries : RowOK(d)'
  BY <1>1, <1>2 DEF RowOK, TypeOK
<1>5. AnsweredOK'
  BY <1>1 DEF AnsweredOK, TypeOK
<1>6. ASSUME NEW v \in Workers, NEW c \in batch[v] \cup sent[v] PROVE ClaimOK(c)'
  <2>1. c \in Claim /\ ClaimOK(c)
    BY DEF ClaimsOK, TypeOK
  <2>2. c.id \in Deliveries /\ c.token \in Nat /\ attempts[c.id] \in Nat
    BY <2>1 DEF Claim, TypeOK
  <2> QED
    BY <1>1, <2>1, <2>2 DEF ClaimOK, HoldsClaim
<1>7. ASSUME NEW d \in S, NEW c,
             c = [id |-> d, token |-> attempts[d] + 1, terminal |-> IsTerminal(d)]
      PROVE  ClaimOK(c)'
  <2>1. /\ d \in Deliveries /\ attempts[d] \in Nat /\ maxAttempts[d] \in Nat
        /\ attempts[d] < maxAttempts[d]
        /\ attempts'[d] = attempts[d] + 1 /\ maxAttempts'[d] = maxAttempts[d]
    BY <1>1, <1>2 DEF TypeOK
  <2>2. c.id = d /\ c.token = attempts[d] + 1 /\ (c.terminal <=> attempts[d] + 1 >= maxAttempts[d])
    BY <1>7 DEF IsTerminal
  <2> QED
    BY <2>1, <2>2 DEF ClaimOK
<1>8. ClaimsOK'
  <2> SUFFICES ASSUME NEW v \in Workers, NEW c \in batch'[v] \cup sent'[v] PROVE ClaimOK(c)'
    BY DEF ClaimsOK
  <2>1. CASE c \in batch[v] \cup sent[v]
    BY <1>6, <2>1
  <2>2. CASE c \notin batch[v] \cup sent[v]
    <3>1. \E d \in S : c = [id |-> d, token |-> NewToken(d), terminal |-> IsTerminal(d)]
      BY <1>1, <2>2 DEF TypeOK
    <3> QED
      BY <1>7, <3>1 DEF NewToken
  <2> QED
    BY <2>1, <2>2
<1> QED
  BY <1>3, <1>4, <1>5, <1>8

\* Steps of a dispatcher that record nothing.
LEMMA DispatchSteps ==
  ASSUME ClaimInv, NEW w \in Workers, Deliver(w) \/ MarkSentThrows(w) \/ LeaveBatch(w) \/ Turns(w)
  PROVE  TokensOK' /\ ClaimsOK' /\ (\A e \in Deliveries : RowOK(e)') /\ AnsweredOK'
<1> USE DEF ClaimInv
<1>1. UNCHANGED <<status, attempts, maxAttempts, claimToken>>
  BY DEF Deliver, MarkSentThrows, LeaveBatch, Turns, FindNoRun, NothingDue
<1>2. \A v \in Workers : batch'[v] \cup sent'[v] \subseteq batch[v] \cup sent[v]
  BY DEF Deliver, MarkSentThrows, LeaveBatch, Turns, FindNoRun, NothingDue, TypeOK
<1>3. \A d \in Deliveries : received'[d] \in Nat /\ received'[d] >= received[d]
  <2>1. CASE Deliver(w)
    BY <2>1 DEF Deliver, TypeOK, Claim
  <2>2. CASE MarkSentThrows(w) \/ LeaveBatch(w) \/ Turns(w)
    BY <2>2 DEF MarkSentThrows, LeaveBatch, Turns, FindNoRun, NothingDue, TypeOK
  <2> QED
    BY <2>1, <2>2
<1>4. TokensOK'
  BY <1>1 DEF TokensOK
<1>5. ClaimsOK'
  BY <1>1, <1>2, ClaimsKept
<1>6. \A e \in Deliveries : RowOK(e)'
  BY <1>1, <1>3 DEF RowOK, TypeOK
<1>7. AnsweredOK'
  <2> SUFFICES ASSUME NEW v \in Workers, step'[v] = "markSent", NEW c \in sent'[v]
               PROVE  received'[c.id] > 0
    BY DEF AnsweredOK
  <2>1. CASE step[v] = "markSent" /\ sent'[v] = sent[v]
    <3>1. received[c.id] > 0 /\ c.id \in Deliveries
      BY <2>1 DEF AnsweredOK, TypeOK, Claim
    <3> QED
      BY <1>3, <3>1 DEF TypeOK
  <2>2. CASE ~(step[v] = "markSent" /\ sent'[v] = sent[v])
    <3>1. PICK k \in batch[w], accepted \in BOOLEAN, answered \in BOOLEAN :
            /\ answered => accepted
            /\ sent' = [sent EXCEPT ![w] = {k}]
            /\ step' = [step EXCEPT ![w] = IF answered THEN "markSent" ELSE "markFailed"]
            /\ received' = [received EXCEPT ![k.id] = IF accepted THEN @ + 1 ELSE @]
      BY <2>2 DEF Deliver, MarkSentThrows, LeaveBatch, Turns, FindNoRun, NothingDue, TypeOK
    <3>2. v = w /\ c = k /\ accepted
      BY <2>2, <3>1 DEF TypeOK
    <3>3. k.id \in Deliveries
      BY DEF TypeOK, Claim
    <3> QED
      BY <3>1, <3>2, <3>3 DEF TypeOK
  <2> QED
    BY <2>1, <2>2
<1> QED
  BY <1>4, <1>5, <1>6, <1>7

\* The holder of the latest claim records what became of it.
LEMMA RecordSteps ==
  ASSUME ClaimInv, NEW w \in Workers, MarkSent(w) \/ MarkFailed(w)
  PROVE  TokensOK' /\ ClaimsOK' /\ (\A e \in Deliveries : RowOK(e)') /\ AnsweredOK'
<1> USE DEF ClaimInv
<1>1. PICK c \in sent[w] :
        /\ HoldsClaim(c)
        /\ \/ step[w] = "markSent" /\ status' = [status EXCEPT ![c.id] = "sent"]
           \/ status' = [status EXCEPT ![c.id] = AfterFailure(c)]
        /\ claimToken' = [claimToken EXCEPT ![c.id] = 0]
        /\ UNCHANGED <<attempts, maxAttempts, received>>
  BY DEF MarkSent, MarkFailed
<1>2. /\ c \in Claim /\ c.id \in Deliveries /\ ClaimOK(c) /\ c.token \in Nat
      /\ attempts[c.id] \in Nat /\ maxAttempts[c.id] \in Nat
  BY DEF ClaimsOK, TypeOK, Claim
<1>3. status[c.id] = "sending"
  BY <1>1, <1>2 DEF TokensOK, HoldsClaim, ClaimOK
<1>4. status'[c.id] # "sending" /\ claimToken'[c.id] = 0
      /\ \A d \in Deliveries \ {c.id} : status'[d] = status[d] /\ claimToken'[d] = claimToken[d]
  BY <1>1, <1>2 DEF AfterFailure, TypeOK
<1>5. TokensOK'
  BY <1>1, <1>2, <1>4 DEF TokensOK
<1>6. ClaimsOK'
  <2>1. \A v \in Workers : batch'[v] \cup sent'[v] \subseteq batch[v] \cup sent[v]
    BY DEF MarkSent, MarkFailed, Continue, TypeOK
  <2> QED
    BY <1>1, <1>4, <2>1, ClaimsKept
<1>7. RowOK(c.id)'
  <2>1. RowOK(c.id) /\ (c.terminal <=> attempts[c.id] = maxAttempts[c.id])
    BY <1>1, <1>2 DEF ClaimOK
  <2>2. CASE step[w] = "markSent" /\ status' = [status EXCEPT ![c.id] = "sent"]
    BY <1>1, <1>2, <2>1, <2>2 DEF RowOK, AnsweredOK, TypeOK
  <2>3. CASE status' = [status EXCEPT ![c.id] = AfterFailure(c)]
    <3>1. status'[c.id] = IF attempts[c.id] = maxAttempts[c.id] THEN "failed" ELSE "pending"
      BY <1>2, <2>1, <2>3 DEF AfterFailure, TypeOK
    <3> QED
      BY <1>1, <1>2, <2>1, <3>1 DEF RowOK
  <2> QED
    BY <1>1, <2>2, <2>3
<1>8. \A d \in Deliveries \ {c.id} : RowOK(d)'
  BY <1>1, <1>4 DEF RowOK
<1>9. AnsweredOK'
  <2>1. \A v \in Workers : step'[v] = "markSent" => step[v] = "markSent" /\ sent'[v] = sent[v]
    BY DEF MarkSent, MarkFailed, Continue, TypeOK
  <2> QED
    BY <1>1, <2>1 DEF AnsweredOK
<1> QED
  BY <1>5, <1>6, <1>7, <1>8, <1>9

\* Tokens, claims and rows agree.
THEOREM ClaimInvariant == Spec => []ClaimInv
<1>1. Init => ClaimInv
  BY OutboxAssumption
     DEF Init, ClaimInv, TypeOK, TokensOK, ClaimsOK, ClaimOK, RowOK, AnsweredOK
<1>2. ClaimInv /\ [Next]_vars => ClaimInv'
  <2> SUFFICES ASSUME ClaimInv, [Next]_vars PROVE ClaimInv'
    OBVIOUS
  <2>1. TypeOK'
    BY OutboxTypes DEF ClaimInv
  <2>2. CASE Next
    BY <2>1, <2>2, RowSteps, ClaimStep, DispatchSteps, RecordSteps, Steps DEF ClaimInv
  <2>3. CASE UNCHANGED vars
    BY <2>3
       DEF vars, ClaimInv, TypeOK, TokensOK, ClaimsOK, ClaimOK, HoldsClaim, RowOK, AnsweredOK
  <2> QED
    BY <2>2, <2>3
<1> QED
  BY <1>1, <1>2, PTL DEF Spec

\* A waiting delivery has an attempt left, and one is given up only when none
\* is (claimDueCallbackDeliveries, markCallbackDeliveryFailed, replay).
THEOREM AttemptsDecide == Spec => []BudgetDecides
<1>1. ClaimInv => BudgetDecides
  BY DEF ClaimInv, RowOK, BudgetDecides
<1> QED
  BY <1>1, ClaimInvariant, PTL

\* Only the dispatcher of the latest attempt records its result.
THEOREM LatestDecides == Spec => LatestAttemptDecides
<1> DEFINE Decided == \A d \in Deliveries : status[d] = "sending" /\ status'[d] # "sending" =>
                        \E w \in Workers : \E c \in sent[w] : c.id = d /\ c.token = attempts[d]
<1>1. ClaimInv /\ [Next]_vars => [Decided]_vars
  <2> SUFFICES ASSUME ClaimInv, Next,
                      NEW d \in Deliveries, status[d] = "sending", status'[d] # "sending"
               PROVE  \E w \in Workers : \E c \in sent[w] : c.id = d /\ c.token = attempts[d]
    OBVIOUS
  <2>1. PICK w \in Workers : MarkSent(w) \/ MarkFailed(w)
    BY Steps DEF Enqueue, RequestReplay, BecomesDue, BecomesOverdue, ClaimDue, Deliver,
           MarkSentThrows, LeaveBatch, Turns, FindNoRun, NothingDue, ClaimInv, TypeOK
  <2>2. PICK c \in sent[w] : HoldsClaim(c) /\ \E new : status' = [status EXCEPT ![c.id] = new]
    BY <2>1 DEF MarkSent, MarkFailed
  <2>3. c.id = d
    BY <2>2 DEF ClaimInv, TypeOK
  <2> QED
    BY <2>2, <2>3 DEF HoldsClaim, ClaimInv, TokensOK
<1> QED
  BY <1>1, ClaimInvariant, PTL DEF Spec, LatestAttemptDecides

\* A delivery recorded as sent was accepted, and stays as it is.
THEOREM SentStaysSent == Spec => SentIsFinal
<1> DEFINE Final == \A d \in Deliveries : status[d] = "sent" =>
                      received[d] > 0 /\ status'[d] = "sent" /\ attempts'[d] = attempts[d]
<1>1. ClaimInv /\ [Next]_vars => [Final]_vars
  <2> SUFFICES ASSUME ClaimInv, Next, NEW d \in Deliveries, status[d] = "sent"
               PROVE  received[d] > 0 /\ status'[d] = "sent" /\ attempts'[d] = attempts[d]
    OBVIOUS
  <2>1. received[d] > 0 /\ claimToken[d] = 0
    BY DEF ClaimInv, RowOK, TokensOK
  <2>2. ASSUME NEW w \in Workers, MarkSent(w) \/ MarkFailed(w)
        PROVE  status'[d] = "sent" /\ attempts'[d] = attempts[d]
    <3>1. PICK c \in sent[w] : HoldsClaim(c) /\ (\E new : status' = [status EXCEPT ![c.id] = new])
                               /\ UNCHANGED attempts
      BY <2>2 DEF MarkSent, MarkFailed
    <3>2. c.token > 0
      BY DEF ClaimInv, ClaimsOK, ClaimOK
    <3> QED
      BY <2>1, <3>1, <3>2 DEF HoldsClaim, ClaimInv, TypeOK
  <2>3. ASSUME NEW w \in Workers, ClaimDue(w)
        PROVE  status'[d] = "sent" /\ attempts'[d] = attempts[d]
    BY <2>3 DEF ClaimDue, Claimable
  <2> QED
    BY <2>1, <2>2, <2>3, Steps
       DEF Enqueue, RequestReplay, BecomesDue, BecomesOverdue, Deliver, MarkSentThrows,
           LeaveBatch, Turns, FindNoRun, NothingDue, ClaimInv, TypeOK
<1> QED
  BY <1>1, ClaimInvariant, PTL DEF Spec, SentIsFinal

-----------------------------------------------------------------------------
(* Every call of the provider is paid for by an attempt.  A claim that was   *)
(* not sent yet is worth a call, so what counts is the calls made and those  *)
(* still possible; claims of a dispatcher that crashed are lost.             *)

Unsent(d) == {u \in Workers \X Claim : u[2] \in batch[u[1]] /\ u[2].id = d}

PaidFor(d) == /\ IsFiniteSet(Unsent(d))
              /\ received[d] + Cardinality(Unsent(d)) <= attempts[d]

BudgetInv == /\ \A d \in Deliveries : PaidFor(d)
             /\ \A w \in Workers : step[w] \in {"poll", "claim"} => batch[w] = {}

\* Claims may be dropped.
LEMMA Dropped ==
  ASSUME TypeOK, NEW d \in Deliveries, PaidFor(d), UNCHANGED <<attempts, received>>,
         \A w \in Workers : batch'[w] \subseteq batch[w]
  PROVE  PaidFor(d)'
<1>1. Unsent(d)' \in SUBSET Unsent(d)
  BY DEF Unsent
<1>2. /\ IsFiniteSet(Unsent(d)') /\ Cardinality(Unsent(d)') <= Cardinality(Unsent(d))
      /\ Cardinality(Unsent(d)') \in Nat /\ Cardinality(Unsent(d)) \in Nat
  BY <1>1, FS_Subset, FS_CardinalityType DEF PaidFor
<1> QED
  BY <1>2 DEF PaidFor, TypeOK

\* A claim adds an attempt and at most one unsent claim to each of its deliveries.
LEMMA ClaimPays ==
  ASSUME TypeOK, BudgetInv, NEW w \in Workers, ClaimDue(w)
  PROVE  \A d \in Deliveries : PaidFor(d)'
<1>1. PICK S \in SUBSET Deliveries :
        /\ attempts' = [d \in Deliveries |-> IF d \in S THEN attempts[d] + 1 ELSE attempts[d]]
        /\ \/ batch' = [batch EXCEPT ![w] =
                   {[id |-> d, token |-> NewToken(d), terminal |-> IsTerminal(d)] : d \in S}]
           \/ UNCHANGED batch
        /\ UNCHANGED received
  BY DEF ClaimDue
<1>2. batch[w] = {}
  BY DEF ClaimDue, BudgetInv
<1> SUFFICES ASSUME NEW d \in Deliveries PROVE PaidFor(d)'
  OBVIOUS
<1>3. /\ IsFiniteSet(Unsent(d)) /\ Cardinality(Unsent(d)) \in Nat
      /\ received[d] \in Nat /\ attempts[d] \in Nat
      /\ received[d] + Cardinality(Unsent(d)) <= attempts[d]
  BY FS_CardinalityType DEF BudgetInv, PaidFor, TypeOK
<1>4. CASE d \in S /\ ~UNCHANGED batch
  <2>1. PICK c \in Claim : c = [id |-> d, token |-> NewToken(d), terminal |-> IsTerminal(d)]
    <3>1. NewToken(d) \in Nat /\ IsTerminal(d) \in BOOLEAN
      BY DEF NewToken, IsTerminal, TypeOK
    <3>2. [id |-> d, token |-> NewToken(d), terminal |-> IsTerminal(d)] \in Claim
      BY <3>1 DEF Claim
    <3> QED
      BY <3>2
  <2>2. \A k \in batch'[w] : k.id = d => k = c
    BY <1>1, <1>4, <2>1 DEF TypeOK
  <2>3. c \in batch'[w] /\ c.id = d
    BY <1>1, <1>4, <2>1 DEF TypeOK
  <2>4. \A v \in Workers \ {w} : batch'[v] = batch[v]
    BY <1>1, <1>4 DEF TypeOK
  <2>5. Unsent(d)' = Unsent(d) \cup {<<w, c>>}
    BY <1>2, <2>2, <2>3, <2>4 DEF Unsent
  <2>6. IsFiniteSet(Unsent(d)') /\ Cardinality(Unsent(d)') <= Cardinality(Unsent(d)) + 1
        /\ Cardinality(Unsent(d)') \in Nat
    <3>1. /\ IsFiniteSet(Unsent(d) \cup {<<w, c>>})
          /\ \/ Cardinality(Unsent(d) \cup {<<w, c>>}) = Cardinality(Unsent(d))
             \/ Cardinality(Unsent(d) \cup {<<w, c>>}) = Cardinality(Unsent(d)) + 1
      BY <1>3, FS_AddElement, Zenon
    <3> QED
      BY <1>3, <2>5, <3>1
  <2>7. attempts'[d] = attempts[d] + 1 /\ received'[d] = received[d]
    BY <1>1, <1>4
  <2> QED
    BY <1>3, <2>6, <2>7 DEF PaidFor
<1>5. CASE d \notin S \/ UNCHANGED batch
  <2>1. Unsent(d)' = Unsent(d)
    <3>1. CASE UNCHANGED batch
      BY <3>1 DEF Unsent
    <3>2. CASE d \notin S /\ ~UNCHANGED batch
      <4>1. \A k \in batch'[w] : k.id # d
        BY <1>1, <3>2 DEF TypeOK
      <4>2. \A v \in Workers \ {w} : batch'[v] = batch[v]
        BY <1>1, <3>2 DEF TypeOK
      <4> QED
        BY <1>2, <4>1, <4>2 DEF Unsent
    <3> QED
      BY <1>5, <3>1, <3>2
  <2>2. attempts'[d] \in Nat /\ attempts'[d] >= attempts[d] /\ received'[d] = received[d]
    BY <1>1, <1>3
  <2> QED
    BY <1>3, <2>1, <2>2 DEF PaidFor
<1> QED
  BY <1>4, <1>5

\* A call uses up the claim it is made for.
LEMMA DeliverPays ==
  ASSUME TypeOK, BudgetInv, NEW w \in Workers, Deliver(w)
  PROVE  \A d \in Deliveries : PaidFor(d)'
<1>1. PICK c \in batch[w], accepted \in BOOLEAN :
        /\ batch' = [batch EXCEPT ![w] = @ \ {c}]
        /\ received' = [received EXCEPT ![c.id] = IF accepted THEN @ + 1 ELSE @]
        /\ UNCHANGED attempts
  BY DEF Deliver
<1>2. c \in Claim /\ c.id \in Deliveries
  BY DEF TypeOK, Claim
<1>3. \A d \in Deliveries : d # c.id => PaidFor(d)'
  <2> SUFFICES ASSUME NEW d \in Deliveries, d # c.id PROVE PaidFor(d)'
    OBVIOUS
  <2>1. Unsent(d)' = Unsent(d)
    BY <1>1 DEF Unsent, TypeOK
  <2>2. attempts'[d] = attempts[d] /\ received'[d] = received[d]
    BY <1>1, <1>2 DEF TypeOK
  <2> QED
    BY <2>1, <2>2 DEF PaidFor, BudgetInv
<1>4. PICK d \in Deliveries : d = c.id
  BY <1>2
<1>5. PaidFor(d)'
  <2>1. /\ IsFiniteSet(Unsent(d)) /\ Cardinality(Unsent(d)) \in Nat
        /\ received[d] \in Nat /\ attempts[d] \in Nat
        /\ received[d] + Cardinality(Unsent(d)) <= attempts[d]
    BY FS_CardinalityType DEF BudgetInv, PaidFor, TypeOK
  <2>2. <<w, c>> \in Unsent(d)
    BY <1>2, <1>4 DEF Unsent
  <2>3. Unsent(d)' = Unsent(d) \ {<<w, c>>}
    BY <1>1, <1>4 DEF Unsent, TypeOK
  <2>4. IsFiniteSet(Unsent(d)') /\ Cardinality(Unsent(d)') = Cardinality(Unsent(d)) - 1
    <3>1. /\ IsFiniteSet(Unsent(d) \ {<<w, c>>})
          /\ Cardinality(Unsent(d) \ {<<w, c>>}) = Cardinality(Unsent(d)) - 1
      BY <2>1, <2>2, FS_RemoveElement, Zenon
    <3> QED
      BY <2>3, <3>1
  <2>5. attempts'[d] = attempts[d] /\ received'[d] <= received[d] + 1 /\ received'[d] \in Nat
    BY <1>1, <1>4, <2>1 DEF TypeOK
  <2> QED
    BY <2>1, <2>4, <2>5 DEF PaidFor
<1> QED
  BY <1>3, <1>4, <1>5

LEMMA StartsUnpaid == Init => BudgetInv
<1> SUFFICES ASSUME Init, NEW d \in Deliveries PROVE PaidFor(d)
  BY DEF Init, BudgetInv
<1>1. Unsent(d) = {}
  BY DEF Init, Unsent
<1> QED
  BY <1>1, FS_EmptySet DEF Init, PaidFor

LEMMA BudgetStep == TypeOK /\ BudgetInv /\ [Next]_vars => BudgetInv'
<1> SUFFICES ASSUME TypeOK, BudgetInv, [Next]_vars PROVE BudgetInv'
  OBVIOUS
<1>1. \A d \in Deliveries : PaidFor(d)'
  <2>1. CASE \E w \in Workers : ClaimDue(w) \/ Deliver(w)
    BY <2>1, ClaimPays, DeliverPays
  <2>2. CASE ~\E w \in Workers : ClaimDue(w) \/ Deliver(w)
    <3>1. UNCHANGED <<attempts, received>>
      BY <2>2, Steps DEF Enqueue, RequestReplay, BecomesDue, BecomesOverdue, MarkSent,
                  MarkSentThrows, MarkFailed, LeaveBatch, Turns, FindNoRun, NothingDue, vars
    <3>2. \A v \in Workers : batch'[v] \subseteq batch[v]
      BY <2>2, Steps DEF Enqueue, RequestReplay, BecomesDue, BecomesOverdue, MarkSent,
                  MarkSentThrows, MarkFailed, LeaveBatch, Turns, FindNoRun, NothingDue, Continue, vars, TypeOK
    <3> QED
      BY <3>1, <3>2, Dropped DEF BudgetInv
  <2> QED
    BY <2>1, <2>2
<1>2. ASSUME NEW v \in Workers, step'[v] \in {"poll", "claim"} PROVE batch'[v] = {}
  <2>1. CASE step'[v] = step[v] /\ batch'[v] = batch[v]
    BY <1>2, <2>1 DEF BudgetInv
  <2>2. CASE ~(step'[v] = step[v] /\ batch'[v] = batch[v])
    <3>1. ASSUME NEW w \in Workers, ClaimDue(w) PROVE batch'[v] = {}
      BY <1>2, <2>2, <3>1 DEF ClaimDue, BudgetInv, TypeOK
    <3>2. ASSUME NEW w \in Workers, Deliver(w) PROVE batch'[v] = {}
      BY <1>2, <2>2, <3>2 DEF Deliver, TypeOK
    <3>3. ASSUME NEW w \in Workers, MarkSent(w) \/ MarkFailed(w) PROVE batch'[v] = {}
      BY <1>2, <2>2, <3>3 DEF MarkSent, MarkFailed, Continue, TypeOK
    <3>4. ASSUME NEW w \in Workers, MarkSentThrows(w) \/ LeaveBatch(w) \/ Turns(w) PROVE batch'[v] = {}
      BY <1>2, <2>2, <3>4 DEF MarkSentThrows, LeaveBatch, Turns, FindNoRun, NothingDue, BudgetInv, TypeOK
    <3> QED
      BY <2>2, <3>1, <3>2, <3>3, <3>4, Steps
         DEF Enqueue, RequestReplay, BecomesDue, BecomesOverdue, vars
  <2> QED
    BY <2>1, <2>2
<1> QED
  BY <1>1, <1>2 DEF BudgetInv

\* The provider is never called more often than max_attempts allows, whatever
\* dispatchers crash, overlap or lose replies (claimDueCallbackDeliveries).
THEOREM CallsAreBounded == Spec => []WithinBudget
<1>1. Init => BudgetInv
  BY StartsUnpaid
<1>2. ClaimInv /\ BudgetInv => WithinBudget
  <2> SUFFICES ASSUME ClaimInv, BudgetInv, NEW d \in Deliveries
               PROVE  received[d] <= attempts[d] /\ attempts[d] <= maxAttempts[d]
    BY DEF WithinBudget
  <2>1. /\ Cardinality(Unsent(d)) \in Nat /\ received[d] \in Nat /\ attempts[d] \in Nat
        /\ received[d] + Cardinality(Unsent(d)) <= attempts[d]
    BY FS_CardinalityType DEF ClaimInv, BudgetInv, PaidFor, TypeOK
  <2> QED
    BY <2>1 DEF ClaimInv, RowOK
<1> QED
  BY <1>1, <1>2, BudgetStep, OutboxTyped, ClaimInvariant, PTL DEF Spec

-----------------------------------------------------------------------------
(* What is forgotten.                                                        *)

\* A dispatcher sends one delivery after the other.
OneAtATime ==
  \A w \in Workers : /\ step[w] \in {"poll", "claim", "deliver"} => sent[w] = {}
                     /\ \A c, k \in sent[w] : c = k

LEMMA OneAtATimeStep == TypeOK /\ OneAtATime /\ [Next]_vars => OneAtATime'
<1> SUFFICES ASSUME TypeOK, OneAtATime, [Next]_vars, NEW v \in Workers
             PROVE  /\ step'[v] \in {"poll", "claim", "deliver"} => sent'[v] = {}
                    /\ \A c, k \in sent'[v] : c = k
  BY DEF OneAtATime
<1>1. ASSUME NEW w \in Workers, ClaimDue(w)
      PROVE  /\ sent'[v] = sent[v]
             /\ step'[v] = step[v] \/ (step[v] = "claim" /\ step'[v] \in {"poll", "deliver"})
  BY <1>1 DEF ClaimDue, TypeOK
<1>2. ASSUME NEW w \in Workers, Deliver(w) \/ MarkSent(w) \/ MarkSentThrows(w) \/ MarkFailed(w)
                                \/ LeaveBatch(w) \/ Turns(w)
      PROVE  \/ sent'[v] = sent[v] /\ step'[v] = step[v]
             \/ sent'[v] = {}
             \/ sent'[v] = sent[v] /\ step[v] \in {"poll", "claim"}
             \/ step'[v] \in {"markSent", "markFailed"} /\ sent'[v] = sent[v]
             \/ step'[v] \in {"markSent", "markFailed"} /\ \E c \in batch[w] : sent'[v] = {c}
  BY <1>2 DEF Deliver, MarkSent, MarkSentThrows, MarkFailed, Continue, LeaveBatch, Turns, FindNoRun, NothingDue, TypeOK
<1>3. CASE UNCHANGED <<sent, step>>
  BY <1>3 DEF OneAtATime
<1>4. \/ UNCHANGED <<sent, step>>
      \/ \E w \in Workers : ClaimDue(w)
      \/ \E w \in Workers : Deliver(w) \/ MarkSent(w) \/ MarkSentThrows(w) \/ MarkFailed(w)
                            \/ LeaveBatch(w) \/ Turns(w)
  BY Steps DEF Enqueue, RequestReplay, BecomesDue, BecomesOverdue, vars, dispatchVars
<1>5. CASE \E w \in Workers : ClaimDue(w)
  BY <1>1, <1>5 DEF OneAtATime
<1>6. CASE \E w \in Workers : Deliver(w) \/ MarkSent(w) \/ MarkSentThrows(w) \/ MarkFailed(w)
                              \/ LeaveBatch(w) \/ Turns(w)
  BY <1>2, <1>6 DEF OneAtATime
<1> QED
  BY <1>3, <1>4, <1>5, <1>6

\* A dispatcher has one claim of a delivery at a time, and no two dispatchers have
\* a claim with the same token.
ClaimsDiffer ==
  \A v, w \in Workers : \A c \in batch[v] \cup sent[v], k \in batch[w] \cup sent[w] :
    c.id = k.id => \/ v # w /\ c.token # k.token
                   \/ v = w /\ c = k /\ ~(c \in batch[w] /\ c \in sent[w])

\* A claim without a row was superseded, and before it is sent only by a later claim.
LostIsSuperseded ==
  \A w \in Workers : /\ \A c \in batch[w] : HoldsClaim(c) \/ attempts[c.id] > c.token
                     /\ \A c \in sent[w] : HoldsClaim(c) \/ Superseded(c)

HeldInv == OneAtATime /\ ClaimsDiffer /\ LostIsSuperseded

\* Where rows keep their attempts and tokens, and what was sent stays sent, claims that
\* stay where they are stay right.
LEMMA HeldKept ==
  ASSUME ClaimInv, HeldInv, UNCHANGED <<attempts, claimToken, batch, sent>>,
         \A d \in Deliveries : status[d] = "sent" => status'[d] = "sent"
  PROVE  ClaimsDiffer' /\ LostIsSuperseded'
<1>1. \A w \in Workers : \A c \in batch[w] \cup sent[w] : c.id \in Deliveries
  BY DEF ClaimInv, TypeOK, Claim
<1> QED
  BY <1>1 DEF HeldInv, ClaimsDiffer, LostIsSuperseded, HoldsClaim, Superseded

LEMMA HeldClaim ==
  ASSUME ClaimInv, BudgetInv, HeldInv, NEW w \in Workers, ClaimDue(w)
  PROVE  ClaimsDiffer' /\ LostIsSuperseded'
<1> USE DEF ClaimInv
<1>1. PICK S \in SUBSET {d \in Deliveries : Claimable(d)} :
        /\ status' = [d \in Deliveries |-> IF d \in S THEN "sending" ELSE status[d]]
        /\ attempts' = [d \in Deliveries |-> IF d \in S THEN attempts[d] + 1 ELSE attempts[d]]
        /\ claimToken' = [d \in Deliveries |-> IF d \in S THEN attempts[d] + 1 ELSE claimToken[d]]
        /\ \/ batch' = [batch EXCEPT ![w] =
                   {[id |-> d, token |-> NewToken(d), terminal |-> IsTerminal(d)] : d \in S}]
           \/ UNCHANGED batch
        /\ UNCHANGED sent
  BY DEF ClaimDue, NewToken
<1>2. batch[w] = {} /\ sent[w] = {}
  BY DEF ClaimDue, BudgetInv, HeldInv, OneAtATime
<1>3. ASSUME NEW v \in Workers, NEW c \in batch[v] \cup sent[v]
      PROVE  /\ c.id \in Deliveries /\ c.token \in Nat /\ attempts[c.id] \in Nat
             /\ c.token <= attempts[c.id]
             /\ c.id \in S => attempts'[c.id] > c.token
             /\ c.id \notin S => attempts'[c.id] = attempts[c.id] /\ claimToken'[c.id] = claimToken[c.id]
                                 /\ status'[c.id] = status[c.id]
  <2>1. c.id \in Deliveries /\ c.token \in Nat /\ c.token <= attempts[c.id]
    BY <1>3 DEF ClaimsOK, ClaimOK, TypeOK, Claim
  <2> QED
    BY <1>1, <2>1 DEF TypeOK
<1>4. ASSUME NEW v \in Workers, NEW c \in batch'[v] \cup sent'[v], c \notin batch[v] \cup sent[v]
      PROVE  /\ v = w /\ c \in batch'[w] /\ c \notin sent'[w] /\ c.id \in S
             /\ c = [id |-> c.id, token |-> attempts[c.id] + 1, terminal |-> IsTerminal(c.id)]
             /\ c.token = attempts[c.id] + 1
  BY <1>1, <1>2, <1>4 DEF TypeOK, NewToken
<1>5. \A v \in Workers : sent'[v] = sent[v] /\ (batch'[v] = batch[v] \/ v = w)
  BY <1>1 DEF TypeOK
<1>6. ClaimsDiffer'
  <2> SUFFICES ASSUME NEW u \in Workers, NEW v \in Workers, NEW c \in batch'[u] \cup sent'[u],
                      NEW k \in batch'[v] \cup sent'[v], c.id = k.id,
                      ~(u # v /\ c.token # k.token)
               PROVE  u = v /\ c = k /\ ~(c \in batch'[v] /\ c \in sent'[v])
    BY DEF ClaimsDiffer
  <2>1. CASE c \in batch[u] \cup sent[u] /\ k \in batch[v] \cup sent[v]
    BY <1>2, <1>5, <2>1 DEF HeldInv, ClaimsDiffer
  <2>2. CASE c \notin batch[u] \cup sent[u] /\ k \notin batch[v] \cup sent[v]
    <3>1. u = w /\ v = w /\ c \notin sent'[w]
      BY <1>4, <2>2
    <3>2. c = k
      BY <1>4, <2>2
    <3> QED
      BY <3>1, <3>2
  <2>3. CASE c \in batch[u] \cup sent[u] /\ k \notin batch[v] \cup sent[v]
    BY <1>2, <1>3, <1>4, <2>3
  <2>4. CASE c \notin batch[u] \cup sent[u] /\ k \in batch[v] \cup sent[v]
    BY <1>2, <1>3, <1>4, <2>4
  <2> QED
    BY <2>1, <2>2, <2>3, <2>4
<1>7. LostIsSuperseded'
  <2>1. ASSUME NEW v \in Workers, NEW c \in batch'[v] \cup sent'[v], c \notin batch[v] \cup sent[v]
        PROVE  HoldsClaim(c)'
    BY <1>1, <1>4, <2>1 DEF HoldsClaim
  <2>2. ASSUME NEW v \in Workers, NEW c \in batch[v]
        PROVE  HoldsClaim(c)' \/ attempts'[c.id] > c.token
    BY <1>3, <2>2 DEF HeldInv, LostIsSuperseded, HoldsClaim
  <2>3. ASSUME NEW v \in Workers, NEW c \in sent[v] PROVE HoldsClaim(c)' \/ Superseded(c)'
    BY <1>3, <2>3 DEF HeldInv, LostIsSuperseded, HoldsClaim, Superseded
  <2>4. ASSUME NEW v \in Workers, NEW c \in batch'[v]
        PROVE  HoldsClaim(c)' \/ attempts'[c.id] > c.token
    <3>1. CASE c \in batch[v]
      BY <2>2, <3>1
    <3>2. CASE c \notin batch[v]
      <4>1. c \notin sent[v]
        BY <1>2, <1>5, <2>4, <3>2
      <4> QED
        BY <2>1, <2>4, <3>2, <4>1
    <3> QED
      BY <3>1, <3>2
  <2>5. ASSUME NEW v \in Workers, NEW c \in sent'[v] PROVE HoldsClaim(c)' \/ Superseded(c)'
    BY <1>5, <2>3, <2>5
  <2> QED
    BY <2>4, <2>5 DEF LostIsSuperseded
<1> QED
  BY <1>6, <1>7

LEMMA HeldDispatch ==
  ASSUME ClaimInv, HeldInv, NEW w \in Workers,
         Deliver(w) \/ MarkSentThrows(w) \/ LeaveBatch(w) \/ Turns(w)
  PROVE  ClaimsDiffer' /\ LostIsSuperseded'
<1> USE DEF ClaimInv
<1>1. UNCHANGED <<status, attempts, claimToken>>
  BY DEF Deliver, MarkSentThrows, LeaveBatch, Turns, FindNoRun, NothingDue
<1>2. /\ \A v \in Workers : batch'[v] \cup sent'[v] \subseteq batch[v] \cup sent[v]
      /\ \A v \in Workers : batch'[v] \subseteq batch[v]
      /\ \A v \in Workers : sent'[v] \subseteq sent[v] \/ (sent[v] = {} /\ batch'[v] \cap sent'[v] = {})
  BY DEF Deliver, MarkSentThrows, LeaveBatch, Turns, FindNoRun, NothingDue, HeldInv, OneAtATime, TypeOK
<1>3. ClaimsDiffer'
  BY <1>2 DEF HeldInv, ClaimsDiffer
<1>4. LostIsSuperseded'
  BY <1>1, <1>2 DEF HeldInv, LostIsSuperseded, HoldsClaim, Superseded
<1> QED
  BY <1>3, <1>4

LEMMA HeldRecord ==
  ASSUME ClaimInv, HeldInv, NEW w \in Workers, MarkSent(w) \/ MarkFailed(w)
  PROVE  ClaimsDiffer' /\ LostIsSuperseded'
<1> USE DEF ClaimInv
<1>1. PICK c \in sent[w] :
        /\ HoldsClaim(c)
        /\ \/ status' = [status EXCEPT ![c.id] = "sent"]
           \/ status' = [status EXCEPT ![c.id] = AfterFailure(c)] /\ sent'[w] = {}
        /\ claimToken' = [claimToken EXCEPT ![c.id] = 0]
        /\ UNCHANGED attempts
        /\ UNCHANGED batch
        /\ \A v \in Workers : sent'[v] = sent[v] \/ (v = w /\ sent'[v] = {})
  BY DEF MarkSent, MarkFailed, Continue, TypeOK
<1>2. c.id \in Deliveries /\ c.token > 0 /\ c.token \in Nat
  BY DEF ClaimsOK, ClaimOK, TypeOK, Claim
<1>3. status[c.id] = "sending" /\ c.token = attempts[c.id]
  BY <1>1, <1>2 DEF TokensOK, HoldsClaim
<1>4. ASSUME NEW v \in Workers, NEW k \in batch'[v] \cup sent'[v], k.id = c.id
      PROVE  attempts'[k.id] > k.token \/ (k \in sent'[v] /\ k \notin batch'[v] /\ status'[k.id] = "sent")
  <2>1. k \in batch[v] \cup sent[v] /\ k.token \in Nat /\ k.token <= attempts[k.id] /\ attempts[k.id] \in Nat
    BY <1>1, <1>4 DEF ClaimsOK, ClaimOK, TypeOK, Claim
  <2>2. CASE k.token # c.token
    BY <1>1, <1>3, <1>4, <2>1, <2>2
  <2>3. CASE k.token = c.token
    <3>1. v = w /\ k = c /\ ~(k \in batch[w] /\ k \in sent[w])
      BY <1>1, <1>4, <2>1, <2>3 DEF HeldInv, ClaimsDiffer
    <3> QED
      BY <1>1, <1>2, <3>1 DEF TypeOK
  <2> QED
    BY <2>2, <2>3
<1>5. ASSUME NEW v \in Workers, NEW k \in batch'[v] \cup sent'[v], k.id # c.id
      PROVE  /\ HoldsClaim(k) => HoldsClaim(k)'
             /\ Superseded(k) => Superseded(k)'
  <2>1. k.id \in Deliveries
    BY <1>1 DEF TypeOK, Claim
  <2> QED
    BY <1>1, <1>5, <2>1 DEF HoldsClaim, Superseded, TypeOK
<1>6. ClaimsDiffer'
  BY <1>1 DEF HeldInv, ClaimsDiffer
<1>7. LostIsSuperseded'
  <2>1. ASSUME NEW v \in Workers, NEW k \in batch'[v]
        PROVE  HoldsClaim(k)' \/ attempts'[k.id] > k.token
    BY <1>1, <1>4, <1>5, <2>1 DEF HeldInv, LostIsSuperseded
  <2>2. ASSUME NEW v \in Workers, NEW k \in sent'[v] PROVE HoldsClaim(k)' \/ Superseded(k)'
    <3>1. k \in sent[v]
      BY <1>1, <2>2
    <3>2. CASE k.id = c.id
      BY <1>4, <2>2, <3>2 DEF Superseded
    <3>3. CASE k.id # c.id
      BY <1>5, <2>2, <3>1, <3>3 DEF HeldInv, LostIsSuperseded
    <3> QED
      BY <3>2, <3>3
  <2> QED
    BY <2>1, <2>2 DEF LostIsSuperseded
<1> QED
  BY <1>6, <1>7

LEMMA HeldStep == ClaimInv /\ BudgetInv /\ HeldInv /\ [Next]_vars => HeldInv'
<1> SUFFICES ASSUME ClaimInv, BudgetInv, HeldInv, [Next]_vars PROVE HeldInv'
  OBVIOUS
<1>1. OneAtATime'
  BY OneAtATimeStep DEF ClaimInv, HeldInv
<1>2. ASSUME NEW d \in Deliveries,
             Enqueue(d) \/ RequestReplay(d) \/ BecomesDue(d) \/ BecomesOverdue(d)
      PROVE  ClaimsDiffer' /\ LostIsSuperseded'
  <2>1. UNCHANGED <<attempts, claimToken, batch, sent>>
    BY <1>2 DEF Enqueue, RequestReplay, BecomesDue, BecomesOverdue
  <2>2. \A e \in Deliveries : status[e] = "sent" => status'[e] = "sent"
    BY <1>2 DEF Enqueue, RequestReplay, BecomesDue, BecomesOverdue, ClaimInv, TypeOK
  <2> QED
    BY <2>1, <2>2, HeldKept
<1>3. CASE UNCHANGED vars
  <2>1. UNCHANGED <<attempts, claimToken, batch, sent>>
    BY <1>3 DEF vars, rowVars, dispatchVars
  <2>2. UNCHANGED status
    BY <1>3 DEF vars, rowVars
  <2> QED
    BY <1>1, <2>1, <2>2, HeldKept DEF HeldInv
<1> QED
  BY <1>1, <1>2, <1>3, Steps, HeldClaim, HeldDispatch, HeldRecord DEF HeldInv

\* A newly forgotten delivery was in the hands of a dispatcher that broke off, lost
\* the reply to its claim, or waits in a batch behind a delivery that was claimed again
\* or recorded meanwhile (dispatchDue, claimDueCallbackDeliveries): no result that is
\* recorded, and no claim that overlaps, forgets one.
THEOREM ForgettingHasAReason == Spec => ForgottenIsExplained
<1>1. Init => HeldInv
  BY DEF Init, HeldInv, OneAtATime, ClaimsDiffer, LostIsSuperseded
<1>2. Init => BudgetInv
  BY StartsUnpaid
<1>3. ClaimInv /\ BudgetInv /\ HeldInv /\ [Next]_vars => 
      [\A d \in Deliveries : Forgotten(d)' => Forgotten(d) \/ LetGo(d)]_vars
  <2> SUFFICES ASSUME ClaimInv, BudgetInv, HeldInv, Next, NEW d \in Deliveries,
                      Exhausted(d)', ~Held(d)', ~LetGo(d)
               PROVE  Exhausted(d) /\ ~Held(d)
    BY DEF Forgotten
  <2> USE DEF ClaimInv
  <2>1. ASSUME NEW e \in Deliveries,
               Enqueue(e) \/ RequestReplay(e) \/ BecomesDue(e) \/ BecomesOverdue(e)
        PROVE  Exhausted(d) /\ ~Held(d)
    <3>1. UNCHANGED <<attempts, claimToken, batch, sent>>
      BY <2>1 DEF Enqueue, RequestReplay, BecomesDue, BecomesOverdue
    <3>2. status[d] = "sending" /\ maxAttempts'[d] = maxAttempts[d]
      BY <2>1 DEF Enqueue, RequestReplay, BecomesDue, BecomesOverdue, Exhausted, TypeOK
    <3> QED
      BY <3>1, <3>2 DEF Exhausted, Held, HoldsClaim
  <2>2. ASSUME NEW w \in Workers, ClaimDue(w) PROVE Exhausted(d) /\ ~Held(d)
    <3>1. PICK S \in SUBSET {e \in Deliveries : Claimable(e)} :
            /\ status' = [e \in Deliveries |-> IF e \in S THEN "sending" ELSE status[e]]
            /\ attempts' = [e \in Deliveries |-> IF e \in S THEN attempts[e] + 1 ELSE attempts[e]]
            /\ claimToken' = [e \in Deliveries |-> IF e \in S THEN NewToken(e) ELSE claimToken[e]]
            /\ \/ batch' = [batch EXCEPT ![w] =
                       {[id |-> e, token |-> NewToken(e), terminal |-> IsTerminal(e)] : e \in S}]
               \/ UNCHANGED batch
            /\ UNCHANGED <<maxAttempts, sent>>
      BY <2>2 DEF ClaimDue
    <3>3. d \notin S
      <4> SUFFICES ASSUME d \in S PROVE FALSE
        OBVIOUS
      <4> DEFINE c == [id |-> d, token |-> NewToken(d), terminal |-> IsTerminal(d)]
      <4>0. Claimable(d)
        OBVIOUS
      <4>1. c \in batch'[w]
        BY <2>2, <3>1, <4>0 DEF LetGo, TypeOK
      <4>2. c.id = d /\ claimToken'[d] = c.token
        BY <3>1
      <4> QED
        BY <4>1, <4>2 DEF Held, HoldsClaim
    <3>4. Exhausted(d) /\ claimToken'[d] = claimToken[d]
      BY <3>1, <3>3 DEF Exhausted
    <3>5. batch[w] = {}
      BY <2>2 DEF ClaimDue, BudgetInv
    <3>6. \A v \in Workers : batch[v] \cup sent[v] \subseteq batch'[v] \cup sent'[v]
      BY <3>1, <3>5 DEF TypeOK
    <3> QED
      BY <3>4, <3>6 DEF Held, HoldsClaim
  <2>3. ASSUME NEW w \in Workers, Deliver(w) \/ MarkSentThrows(w) \/ Turns(w) PROVE Exhausted(d) /\ ~Held(d)
    <3>1. UNCHANGED <<status, attempts, maxAttempts, claimToken>>
      BY <2>3 DEF Deliver, MarkSentThrows, Turns, FindNoRun, NothingDue, rowVars
    <3>2. \A v \in Workers : batch[v] \cup sent[v] \subseteq batch'[v] \cup sent'[v]
      BY <2>3 DEF Deliver, MarkSentThrows, Turns, FindNoRun, NothingDue, HeldInv, OneAtATime, TypeOK
    <3> QED
      BY <3>1, <3>2 DEF Exhausted, Held, HoldsClaim
  <2>4. ASSUME NEW w \in Workers, MarkSent(w) \/ MarkFailed(w) PROVE Exhausted(d) /\ ~Held(d)
    <3>1. PICK c \in sent[w] :
            /\ HoldsClaim(c)
            /\ \/ status' = [status EXCEPT ![c.id] = "sent"]
               \/ status' = [status EXCEPT ![c.id] = AfterFailure(c)]
            /\ claimToken' = [claimToken EXCEPT ![c.id] = 0]
            /\ UNCHANGED <<attempts, maxAttempts, batch>>
            /\ \A v \in Workers : sent'[v] = sent[v] \/ (v = w /\ sent'[v] = {})
      BY <2>4 DEF MarkSent, MarkFailed, Continue, TypeOK
    <3>2. c.id # d
      BY <3>1 DEF Exhausted, AfterFailure, TypeOK
    <3>3. Exhausted(d) /\ claimToken'[d] = claimToken[d]
      BY <3>1, <3>2 DEF Exhausted, TypeOK
    <3>4. ASSUME NEW v \in Workers, NEW k \in batch[v] \cup sent[v], k.id = d
          PROVE  k \in batch'[v] \cup sent'[v]
      BY <3>1, <3>2, <3>4 DEF HeldInv, OneAtATime
    <3> QED
      BY <3>3, <3>4 DEF Held, HoldsClaim
  <2>5. ASSUME NEW w \in Workers, Break(w) \/ Refused(w) PROVE Exhausted(d) /\ ~Held(d)
    <3>1. LeaveBatch(w)
      BY <2>5 DEF Break, Refused
    <3>2. /\ UNCHANGED <<status, attempts, maxAttempts, claimToken>>
          /\ \A v \in Workers \ {w} : batch'[v] = batch[v] /\ sent'[v] = sent[v]
      BY <3>1 DEF LeaveBatch, TypeOK
    <3> SUFFICES ASSUME Held(d) PROVE FALSE
      BY <3>2 DEF Exhausted
    <3>3. PICK c \in batch[w] \cup sent[w] : c.id = d /\ HoldsClaim(c)
      BY <3>2 DEF Held, HoldsClaim
    <3>4. CASE Break(w)
      BY <3>3, <3>4 DEF LetGo
    <3>5. CASE Refused(w)
      <4>1. PICK k \in sent[w] : ~HoldsClaim(k)
        BY <3>5 DEF Refused, TooLate
      <4>2. c \in batch[w]
        BY <3>3, <4>1 DEF HeldInv, OneAtATime
      <4>3. Superseded(k)
        BY <4>1 DEF HeldInv, LostIsSuperseded
      <4>4. k.id # d
        <5>1. k.id = d => k = c
          BY <3>3, <4>1, <4>2 DEF HeldInv, ClaimsDiffer
        <5> QED
          BY <3>3, <4>1, <5>1
      <4> QED
        BY <3>3, <3>5, <4>1, <4>2, <4>3, <4>4 DEF LetGo
    <3> QED
      BY <2>5, <3>4, <3>5
  <2> QED
    BY <2>1, <2>2, <2>3, <2>4, <2>5 DEF Next, Turns
<1> QED
  BY <1>1, <1>2, <1>3, HeldStep, BudgetStep, OutboxTyped, ClaimInvariant, PTL
     DEF Spec, ForgottenIsExplained

-----------------------------------------------------------------------------
(* The outbox is a DeliveryLedger.                                           *)

\* Where no row changes its standing, the ledger sees the same standings.
LEMMA SameStanding ==
  ASSUME \A d \in Deliveries : Standing(d)' = Standing(d)
  PROVE  [d \in Deliveries |-> Standing(d)]' = [d \in Deliveries |-> Standing(d)]
OBVIOUS

\* One row changes its standing.
LEMMA OneStanding ==
  ASSUME NEW d \in Deliveries, NEW s, Standing(d)' = s,
         \A e \in Deliveries \ {d} : Standing(e)' = Standing(e)
  PROVE  [e \in Deliveries |-> Standing(e)]' = [[e \in Deliveries |-> Standing(e)] EXCEPT ![d] = s]
OBVIOUS

\* Enqueue opens, a replay reopens with one more attempt, time does not show.
LEMMA RowsShow ==
  ASSUME ClaimInv, NEW d \in Deliveries,
         Enqueue(d) \/ RequestReplay(d) \/ BecomesDue(d) \/ BecomesOverdue(d)
  PROVE  [Ledger!Next]_Ledger!ledger
<1> USE DEF ClaimInv
<1>1. CASE Enqueue(d)
  <2>1. Standing(d) = "absent" /\ Standing(d)' = "open"
        /\ \A e \in Deliveries \ {d} : Standing(e)' = Standing(e)
    BY <1>1 DEF Enqueue, Standing, TypeOK
  <2>2. Ledger!Open(d)
    BY <1>1, <2>1, OneStanding DEF Enqueue, Ledger!Open
  <2> QED
    BY <2>2 DEF Ledger!Next
<1>2. CASE RequestReplay(d)
  <2>1. Standing(d) = "failed" /\ Standing(d)' = "open"
        /\ \A e \in Deliveries \ {d} : Standing(e)' = Standing(e)
    BY <1>2 DEF RequestReplay, Standing, TypeOK
  <2>2. /\ attempts[d] = maxAttempts[d] /\ attempts[d] \in Nat
        /\ maxAttempts' = [maxAttempts EXCEPT ![d] = ReplayedMax(d)]
        /\ UNCHANGED <<attempts, received>>
    BY <1>2 DEF RequestReplay, RowOK, TypeOK
  <2>3. ReplayedMax(d) = maxAttempts[d] + 1
    BY <2>2, ReplayedMaxIs DEF TypeOK
  <2>4. Ledger!Reopen(d)
    BY <2>1, <2>2, <2>3, OneStanding DEF Ledger!Reopen
  <2> QED
    BY <2>4 DEF Ledger!Next
<1>3. CASE BecomesDue(d) \/ BecomesOverdue(d)
  <2>1. UNCHANGED <<status, attempts, maxAttempts, received>>
    BY <1>3 DEF BecomesDue, BecomesOverdue
  <2> QED
    BY <2>1, SameStanding DEF Standing, Ledger!ledger
<1> QED
  BY <1>1, <1>2, <1>3

\* A claim tries its batch.
LEMMA ClaimIsTry ==
  ASSUME ClaimInv, NEW w \in Workers, ClaimDue(w)
  PROVE  [Ledger!Next]_Ledger!ledger
<1>1. PICK S \in SUBSET {d \in Deliveries : Claimable(d)} :
        /\ status' = [d \in Deliveries |-> IF d \in S THEN "sending" ELSE status[d]]
        /\ attempts' = [d \in Deliveries |-> IF d \in S THEN attempts[d] + 1 ELSE attempts[d]]
        /\ UNCHANGED <<maxAttempts, received>>
  BY DEF ClaimDue
<1>2. \A d \in S : d \in Deliveries /\ Standing(d) = "open" /\ attempts[d] < maxAttempts[d]
  BY DEF Claimable, Standing
<1>3. \A d \in Deliveries : Standing(d)' = Standing(d)
  BY <1>1, <1>2 DEF Standing
<1>4. S \in SUBSET Deliveries /\ Ledger!Try(S)
  BY <1>1, <1>2, <1>3, SameStanding DEF Ledger!Try
<1> QED
  BY <1>4 DEF Ledger!Next

\* A call that the provider takes is one of those that were paid for.
LEMMA DeliverIsAccept ==
  ASSUME ClaimInv, BudgetInv, NEW w \in Workers, Deliver(w)
  PROVE  [Ledger!Next]_Ledger!ledger
<1> USE DEF ClaimInv
<1>1. PICK c \in batch[w], accepted \in BOOLEAN :
        /\ received' = [received EXCEPT ![c.id] = IF accepted THEN @ + 1 ELSE @]
        /\ UNCHANGED <<status, attempts, maxAttempts>>
  BY DEF Deliver, rowVars
<1>2. PICK d \in Deliveries : d = c.id
  BY DEF TypeOK, Claim
<1>3. \A e \in Deliveries : Standing(e)' = Standing(e)
  BY <1>1 DEF Standing
<1>4. CASE accepted
  <2>1. received'[d] = received[d] + 1 /\ received[d] \in Nat /\ attempts[d] \in Nat
    BY <1>1, <1>2, <1>4 DEF TypeOK
  <2>2. PaidFor(d)'
    BY DeliverPays
  <2>3. received'[d] <= attempts[d]
    <3>1. Cardinality(Unsent(d)') \in Nat /\ received'[d] + Cardinality(Unsent(d)') <= attempts'[d]
      BY <2>2, FS_CardinalityType DEF PaidFor
    <3> QED
      BY <1>1, <2>1, <3>1
  <2>4. Ledger!Accept(d)
    BY <1>1, <1>2, <1>3, <1>4, <2>1, <2>3, SameStanding DEF Ledger!Accept
  <2> QED
    BY <2>4 DEF Ledger!Next
<1>5. CASE ~accepted
  <2>1. UNCHANGED received
    BY <1>1, <1>2, <1>5 DEF TypeOK
  <2> QED
    BY <1>1, <1>3, <2>1, SameStanding DEF Ledger!ledger
<1> QED
  BY <1>4, <1>5

\* A result that is recorded confirms, gives up, or leaves the delivery open.
LEMMA RecordsShow ==
  ASSUME ClaimInv, NEW w \in Workers, MarkSent(w) \/ MarkFailed(w)
  PROVE  [Ledger!Next]_Ledger!ledger
<1> USE DEF ClaimInv
<1>1. PICK c \in sent[w] :
        /\ HoldsClaim(c)
        /\ \/ step[w] = "markSent" /\ status' = [status EXCEPT ![c.id] = "sent"]
           \/ status' = [status EXCEPT ![c.id] = AfterFailure(c)]
        /\ UNCHANGED <<attempts, maxAttempts, received>>
  BY DEF MarkSent, MarkFailed
<1>2. /\ c.id \in Deliveries /\ ClaimOK(c) /\ c.token \in Nat
      /\ attempts[c.id] \in Nat /\ maxAttempts[c.id] \in Nat
  BY DEF ClaimsOK, TypeOK, Claim
<1>3. PICK d \in Deliveries : d = c.id
  BY <1>2
<1>4. status[d] = "sending" /\ (c.terminal <=> attempts[d] = maxAttempts[d])
  BY <1>1, <1>2, <1>3 DEF TokensOK, HoldsClaim, ClaimOK
<1>5. Standing(d) = "open" /\ \A e \in Deliveries \ {d} : Standing(e)' = Standing(e)
  BY <1>1, <1>3, <1>4 DEF Standing, TypeOK
<1>6. CASE step[w] = "markSent" /\ status' = [status EXCEPT ![c.id] = "sent"]
  <2>1. Standing(d)' = "sent" /\ received[d] > 0
    BY <1>3, <1>6 DEF Standing, TypeOK, AnsweredOK
  <2>2. Ledger!Confirm(d)
    BY <1>1, <1>5, <2>1, OneStanding DEF Ledger!Confirm
  <2> QED
    BY <2>2 DEF Ledger!Next
<1>7. CASE status' = [status EXCEPT ![c.id] = AfterFailure(c)] /\ c.terminal
  <2>1. Standing(d)' = "failed"
    BY <1>3, <1>7 DEF Standing, AfterFailure, TypeOK
  <2>2. Ledger!GiveUp(d)
    BY <1>1, <1>4, <1>5, <1>7, <2>1, OneStanding DEF Ledger!GiveUp
  <2> QED
    BY <2>2 DEF Ledger!Next
<1>8. CASE status' = [status EXCEPT ![c.id] = AfterFailure(c)] /\ ~c.terminal
  <2>1. \A e \in Deliveries : Standing(e)' = Standing(e)
    BY <1>3, <1>5, <1>8 DEF Standing, AfterFailure, TypeOK
  <2> QED
    BY <1>1, <2>1, SameStanding DEF Ledger!ledger
<1> QED
  BY <1>1, <1>6, <1>7, <1>8

\* Every step of the outbox and its dispatchers is one step of the ledger or none.
LEMMA LedgerStep == ClaimInv /\ BudgetInv /\ [Next]_vars => [Ledger!Next]_Ledger!ledger
<1> SUFFICES ASSUME ClaimInv, BudgetInv, [Next]_vars PROVE [Ledger!Next]_Ledger!ledger
  OBVIOUS
<1>1. ASSUME UNCHANGED <<status, attempts, maxAttempts, received>>
      PROVE  UNCHANGED Ledger!ledger
  BY <1>1, SameStanding DEF Standing, Ledger!ledger
<1>2. CASE \E w \in Workers : MarkSentThrows(w) \/ LeaveBatch(w) \/ Turns(w)
  BY <1>1, <1>2 DEF MarkSentThrows, LeaveBatch, Turns, FindNoRun, NothingDue, rowVars
<1>3. CASE UNCHANGED vars
  BY <1>1, <1>3 DEF vars, rowVars
<1> QED
  BY <1>2, <1>3, RowsShow, ClaimIsTry, DeliverIsAccept, RecordsShow, Steps

\* Rows and dispatchers keep a DeliveryLedger (claimDueCallbackDeliveries,
\* dispatchDue, markCallbackDeliverySent, markCallbackDeliveryFailed, replay).
THEOREM LedgerIsImplemented == Spec => ImplementsLedger
<1>1. Init => Ledger!Init
  BY DEF Init, Ledger!Init, Standing
<1>2. Init => BudgetInv
  BY StartsUnpaid
<1> QED
  BY <1>1, <1>2, LedgerStep, BudgetStep, OutboxTyped, ClaimInvariant, PTL
     DEF Spec, ImplementsLedger, Ledger!Spec
=============================================================================
