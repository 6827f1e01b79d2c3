---------------------------- MODULE DeliveryLedger ----------------------------
(***************************************************************************)
(* What the outbox promises of a delivery: it is tried as often as its     *)
(* budget allows and no oftener, each attempt is accepted at most once, it *)
(* is confirmed only if the provider accepted it, given up only when its   *)
(* budget is spent, and final when it is confirmed.  Asking for it again   *)
(* buys one more attempt.                                                  *)
(***************************************************************************)
EXTENDS Naturals

CONSTANTS Deliveries, MaxAttempts

VARIABLES
  standing,  \* absent, open, sent or failed
  budget,    \* attempts it may have
  tried,     \* attempts it had
  accepted   \* those the provider accepted

ledger == <<standing, budget, tried, accepted>>

Init ==
  /\ standing = [d \in Deliveries |-> "absent"]
  /\ budget = [d \in Deliveries |-> MaxAttempts]
  /\ tried = [d \in Deliveries |-> 0]
  /\ accepted = [d \in Deliveries |-> 0]

Open(d) ==
  /\ standing[d] = "absent"
  /\ standing' = [standing EXCEPT ![d] = "open"]
  /\ UNCHANGED <<budget, tried, accepted>>

Try(S) ==
  /\ \A d \in S : standing[d] = "open" /\ tried[d] < budget[d]
  /\ tried' = [d \in Deliveries |-> IF d \in S THEN tried[d] + 1 ELSE tried[d]]
  /\ UNCHANGED <<standing, budget, accepted>>

\* Also when the attempt is late, and the delivery is no longer open.
Accept(d) ==
  /\ accepted[d] < tried[d]
  /\ accepted' = [accepted EXCEPT ![d] = @ + 1]
  /\ UNCHANGED <<standing, budget, tried>>

Confirm(d) ==
  /\ standing[d] = "open" /\ accepted[d] > 0
  /\ standing' = [standing EXCEPT ![d] = "sent"]
  /\ UNCHANGED <<budget, tried, accepted>>

GiveUp(d) ==
  /\ standing[d] = "open" /\ tried[d] = budget[d]
  /\ standing' = [standing EXCEPT ![d] = "failed"]
  /\ UNCHANGED <<budget, tried, accepted>>

Reopen(d) ==
  /\ standing[d] = "failed"
  /\ standing' = [standing EXCEPT ![d] = "open"]
  /\ budget' = [budget EXCEPT ![d] = @ + 1]
  /\ UNCHANGED <<tried, accepted>>

Next ==
  \/ \E S \in SUBSET Deliveries : Try(S)
  \/ \E d \in Deliveries : Open(d) \/ Accept(d) \/ Confirm(d) \/ GiveUp(d) \/ Reopen(d)

Spec == Init /\ [][Next]_ledger
=============================================================================
