--------------------------- MODULE AutomationProofs ---------------------------
(***************************************************************************)
(* Proofs about the invocations of an automation, for any number of        *)
(* schedulers, requests, edits and faults: what a row says of its session  *)
(* is true, and no claimed time is passed over without one that ended.     *)
(***************************************************************************)
EXTENDS Automations, TLAPS

LEMMA FollowingLater ==
    ASSUME NEW c \in Crons, NEW t \in Nat
    PROVE  Following(c, t) \in Nat /\ Following(c, t) > t
<1>1. c \in Nat /\ c > 0
  BY CronsAssumption
<1>2. t \div c \in Nat /\ t = (t \div c) * c + (t % c) /\ t % c \in 0..(c - 1)
  BY <1>1
<1>3. (t \div c + 1) * c = (t \div c) * c + c
  BY <1>1, <1>2
<1>4. (t \div c) * c \in Nat
  BY <1>1, <1>2
<1> QED
  BY <1>1, <1>2, <1>3, <1>4 DEF Following

-----------------------------------------------------------------------------
(***************************************************************************)
(* Types.                                                                  *)
(***************************************************************************)
Working == Trying \cup {"rescue", "recover", "fail"}
InvRow == [trigger: {"none", "scheduled", "manual"},
           status: {"none", "creating", "created", "skipped", "failed"}, at: Nat]
ClaimRow == [cron: Crons, at: Nat, now: Nat, allowDisabled: BOOLEAN]

RowTyped ==
    /\ clock \in 0..MaxTime
    /\ enabled \in BOOLEAN /\ archived \in BOOLEAN /\ cron \in Crons /\ next \in Nat
    /\ owner \in Callers \cup {Nobody} /\ held \in BOOLEAN
    /\ calls \in 0..MaxInputs /\ edits \in 0..MaxInputs /\ faults \in 0..MaxFaults
    /\ overran \in BOOLEAN
WorkTyped == inv \in [Invs -> InvRow] /\ session \in [Invs -> {"none", "empty", "busy", "over"}]
CallTyped ==
    /\ pc \in [Callers -> Steps] /\ claim \in [Callers -> ClaimRow]
    /\ mine \in [Callers -> Invs \cup {NoInv}]
    /\ \A p \in Callers : pc[p] \in Working => mine[p] \in Made

LEMMA TypeParts == TypeOK <=> RowTyped /\ WorkTyped /\ CallTyped
  BY DEF TypeOK, RowTyped, WorkTyped, CallTyped, InvRow, ClaimRow, Working

LEMMA NoClaimTyped == NoClaim \in ClaimRow /\ NotMade \in InvRow
  BY CronsAssumption DEF NoClaim, ClaimRow, NotMade, InvRow

\* A new row takes an id nobody used, and is there from then on.

LEMMA InsertMakes ==
    ASSUME TypeOK, NEW p \in Callers, NEW i \in Invs,
           NEW status \in {"creating", "created", "skipped", "failed"}, Insert(p, i, status)
    PROVE  /\ i \notin Made /\ Made' = Made \cup {i} /\ inv' \in [Invs -> InvRow]
           /\ inv'[i] = [trigger |-> Trigger(p), status |-> status, at |-> claim[p].at]
           /\ inv'[i].trigger = Trigger(p) /\ inv'[i].status = status /\ inv'[i].at = claim[p].at
           /\ \A j \in Invs \ {i} : inv'[j] = inv[j]
<1> DEFINE new == [trigger |-> Trigger(p), status |-> status, at |-> claim[p].at]
<1>1. inv \in [Invs -> InvRow] /\ claim[p].at \in Nat /\ i \notin Made
  BY DEF TypeOK, InvRow, Insert
<1>2. new \in InvRow /\ new # NotMade
  BY <1>1 DEF InvRow, NotMade, Trigger
<1>3. inv' = [inv EXCEPT ![i] = new]
  BY DEF Insert
<1> HIDE DEF new
<1>4. inv' \in [Invs -> InvRow] /\ inv'[i] = new /\ \A j \in Invs \ {i} : inv'[j] = inv[j]
  BY <1>1, <1>2, <1>3
<1>5. Made' = Made \cup {i}
  BY <1>2, <1>4 DEF Made
<1> QED
  BY <1>1, <1>4, <1>5 DEF new

\* Settling keeps the rows that are made, and their times.
LEMMA SettleKeeps ==
    ASSUME TypeOK, NEW p \in Callers, mine[p] \in Made,
           NEW status \in {"created", "failed"}, Settle(p, status)
    PROVE  /\ Made' = Made /\ inv' \in [Invs -> InvRow]
           /\ \A j \in Invs \ {mine[p]} : inv'[j] = inv[j]
           /\ inv'[mine[p]] = [inv[mine[p]] EXCEPT !.status = status]
           /\ inv'[mine[p]].status = status
           /\ inv'[mine[p]].trigger = inv[mine[p]].trigger /\ inv'[mine[p]].at = inv[mine[p]].at
<1>1. inv \in [Invs -> InvRow] /\ mine[p] \in Invs
  BY DEF TypeOK, InvRow, Made
<1>2. PICK new : new = [inv[mine[p]] EXCEPT !.status = status]
  OBVIOUS
<1>3. /\ new \in InvRow /\ new.status = status /\ new.trigger = inv[mine[p]].trigger
      /\ new.at = inv[mine[p]].at
  BY <1>1, <1>2 DEF InvRow
<1>4. new # NotMade
  BY <1>3 DEF NotMade
<1>5. inv' = [inv EXCEPT ![mine[p]] = new]
  BY <1>2 DEF Settle
<1>6. /\ inv' \in [Invs -> InvRow] /\ inv'[mine[p]] = new
      /\ \A j \in Invs \ {mine[p]} : inv'[j] = inv[j]
  BY <1>1, <1>3, <1>5
<1>7. Made' = Made
  <2>1. \A j \in Invs : inv'[j] # NotMade <=> inv[j] # NotMade
    BY <1>4, <1>6 DEF Made
  <2> QED
    BY <2>1 DEF Made
<1> QED
  BY <1>2, <1>3, <1>6, <1>7

\* How a caller moves on: with what it has, or back to its loop.
LEMMA GotoTyped ==
    ASSUME TypeOK, NEW p \in Callers, NEW s \in Steps, Goto(p, s),
           claim' = claim, mine' = mine, Made \subseteq Made',
           s \in Working => mine[p] \in Made'
    PROVE  CallTyped'
<1>1. CallTyped
  BY TypeParts
<1>2. pc' \in [Callers -> Steps] /\ pc'[p] = s /\ \A q \in Callers \ {p} : pc'[q] = pc[q]
  BY <1>1 DEF CallTyped, Goto
<1>3. ASSUME NEW q \in Callers, pc'[q] \in Working PROVE mine'[q] \in Made'
  BY <1>1, <1>2, <1>3 DEF CallTyped
<1> QED
  BY <1>1, <1>2, <1>3 DEF CallTyped

LEMMA IdleTyped ==
    ASSUME TypeOK, NEW p \in Callers, Idle(p), Made \subseteq Made'
    PROVE  CallTyped'
<1>1. CallTyped /\ "idle" \in Steps /\ "idle" \notin Working
  BY TypeParts DEF Steps, Trying, Working
<1>2. pc' \in [Callers -> Steps] /\ pc'[p] = "idle" /\ \A q \in Callers \ {p} : pc'[q] = pc[q]
  BY <1>1 DEF CallTyped, Idle, Goto
<1>3. PICK c \in ClaimRow : c = NoClaim
  BY NoClaimTyped
<1>4. /\ claim' \in [Callers -> ClaimRow] /\ mine' \in [Callers -> Invs \cup {NoInv}]
      /\ \A q \in Callers \ {p} : mine'[q] = mine[q]
  BY <1>1, <1>3 DEF CallTyped, Idle
<1>5. ASSUME NEW q \in Callers, pc'[q] \in Working PROVE mine'[q] \in Made'
  BY <1>1, <1>2, <1>4, <1>5 DEF CallTyped
<1> QED
  BY <1>2, <1>4, <1>5 DEF CallTyped

\* A claim, and the step it begins with.
LEMMA ClaimTyped ==
    ASSUME TypeOK, NEW p \in Callers, NEW s \in Steps \ Working, NEW c \in ClaimRow,
           Goto(p, s), claim' = [claim EXCEPT ![p] = c], UNCHANGED <<inv, mine>>
    PROVE  CallTyped'
<1>1. CallTyped
  BY TypeParts
<1>2. pc' \in [Callers -> Steps] /\ pc'[p] = s /\ \A q \in Callers \ {p} : pc'[q] = pc[q]
  BY <1>1 DEF CallTyped, Goto
<1>3. claim' \in [Callers -> ClaimRow] /\ Made' = Made
  BY <1>1 DEF CallTyped, Made
<1> QED
  BY <1>1, <1>2, <1>3 DEF CallTyped

LEMMA TypeStep == TypeOK /\ [Next]_vars => TypeOK'
<1> SUFFICES ASSUME TypeOK, [Next]_vars PROVE TypeOK'
  OBVIOUS
<1>t. RowTyped /\ WorkTyped /\ CallTyped
  BY TypeParts
<1>m. ASSUME inv' = inv PROVE Made' = Made
  BY <1>m DEF Made
<1> SUFFICES RowTyped' /\ WorkTyped' /\ CallTyped'
  BY TypeParts DEF TypeOK, RowTyped, WorkTyped, CallTyped, InvRow, ClaimRow, Working, Made
<1>s. \A s \in {"idle", "look", "blocking", "skip", "reserve", "catch", "complete", "release"} :
         s \in Steps /\ s \notin Working
  BY DEF Steps, Trying, Working
<1>w. Working \subseteq Steps
  BY DEF Steps, Trying, Working
<1>1. ASSUME NEW p \in Callers, Claim(p) PROVE RowTyped' /\ WorkTyped' /\ CallTyped'
  <2>1. PICK c \in ClaimRow : claim' = [claim EXCEPT ![p] = c]
    <3>1. [NoClaim EXCEPT !.cron = cron, !.at = next, !.now = clock] \in ClaimRow
      <4>1. cron \in Crons /\ next \in Nat /\ clock \in Nat
        BY <1>t, BoundsAssumption DEF RowTyped
      <4> QED
        BY <4>1 DEF ClaimRow, NoClaim
    <3> QED
      BY <1>1, <3>1 DEF Claim
  <2>2. CallTyped'
    BY <1>1, <1>s, <2>1, ClaimTyped DEF Claim, work
  <2> QED
    BY <1>1, <1>t, <2>2 DEF Claim, RowTyped, WorkTyped, work, bounds
<1>2. ASSUME NEW p \in Callers, ClaimManually(p) PROVE RowTyped' /\ WorkTyped' /\ CallTyped'
  <2>1. PICK a \in BOOLEAN :
           /\ claim' = [claim EXCEPT ![p] = [NoClaim EXCEPT !.allowDisabled = a]]
           /\ Goto(p, IF enabled \/ a THEN "blocking" ELSE "release")
    BY <1>2 DEF ClaimManually
  <2>2. PICK c \in ClaimRow : claim' = [claim EXCEPT ![p] = c]
    <3>1. [NoClaim EXCEPT !.allowDisabled = a] \in ClaimRow
      BY NoClaimTyped DEF ClaimRow
    <3> QED
      BY <2>1, <3>1
  <2>3. CallTyped'
    <3>1. PICK s \in Steps \ Working : Goto(p, s)
      BY <2>1, <1>s
    <3> QED
      BY <1>2, <2>2, <3>1, ClaimTyped DEF ClaimManually, work
  <2>4. calls' \in 0..MaxInputs
    BY <1>2, <1>t, BoundsAssumption DEF ClaimManually, RowTyped
  <2> QED
    BY <1>2, <1>t, <2>3, <2>4 DEF ClaimManually, RowTyped, WorkTyped, work
<1>3. ASSUME NEW p \in Callers, Look(p) PROVE RowTyped' /\ WorkTyped' /\ CallTyped'
  <2>1. CallTyped'
    <3>1. Made' = Made
      BY <1>3, <1>m DEF Look, work
    <3>2. CASE mine' = mine /\ \E s \in {"skip", "blocking", "complete"} : Goto(p, s)
      <4>1. PICK s \in Steps \ Working : Goto(p, s)
        BY <3>2, <1>s
      <4> QED
        BY <1>3, <3>1, <3>2, <4>1, GotoTyped DEF Look
    <3>3. CASE \E i \in Made : Goto(p, "check") /\ mine' = [mine EXCEPT ![p] = i]
      <4>1. PICK i \in Made : Goto(p, "check") /\ mine' = [mine EXCEPT ![p] = i]
        BY <3>3
      <4>2. "check" \in Steps
        BY DEF Steps, Trying
      <4>3. i \in Invs
        BY DEF Made
      <4>4. pc' \in [Callers -> Steps] /\ \A q \in Callers \ {p} : pc'[q] = pc[q]
        BY <1>t, <4>1, <4>2 DEF CallTyped, Goto
      <4>5. /\ mine' \in [Callers -> Invs \cup {NoInv}] /\ mine'[p] = i
            /\ \A q \in Callers \ {p} : mine'[q] = mine[q]
        BY <1>t, <4>1, <4>3 DEF CallTyped
      <4> QED
        BY <1>3, <1>t, <3>1, <4>4, <4>5 DEF CallTyped, Look
    <3> QED
      BY <1>3, <3>2, <3>3 DEF Look
  <2> QED
    BY <1>3, <1>t, <2>1 DEF Look, RowTyped, WorkTyped, row, work, bounds
<1>4. ASSUME NEW p \in Callers, Block(p) PROVE RowTyped' /\ WorkTyped' /\ CallTyped'
  <2>1. PICK s \in Steps \ Working : Goto(p, s)
    BY <1>4, <1>s DEF Block
  <2>2. CallTyped'
    BY <1>4, <1>m, <2>1, GotoTyped DEF Block, work
  <2> QED
    BY <1>4, <1>t, <2>2 DEF Block, RowTyped, WorkTyped, row, work, bounds
<1>5. ASSUME NEW p \in Callers, Skip(p) \/ RecordFailure(p) \/ Unresolved(p)
      PROVE  RowTyped' /\ WorkTyped' /\ CallTyped'
  <2>1. inv' \in [Invs -> InvRow] /\ Made \subseteq Made'
    <3>1. CASE UNCHANGED inv
      BY <3>1, <1>t, <1>m DEF WorkTyped
    <3>2. CASE ~UNCHANGED inv
      <4>1. PICK i \in Invs, s \in {"creating", "created", "skipped", "failed"} : Insert(p, i, s)
        BY <1>5, <3>2 DEF Skip, RecordFailure, Unresolved
      <4> QED
        BY <4>1, InsertMakes
    <3> QED
      BY <3>1, <3>2
  <2>2. PICK s \in Steps \ Working : Goto(p, s)
    BY <1>5, <1>s DEF Skip, RecordFailure, Unresolved, Thrown, Leave
  <2>3. CallTyped'
    BY <1>5, <2>1, <2>2, GotoTyped DEF Skip, RecordFailure, Unresolved
  <2>4. faults' \in 0..MaxFaults
    BY <1>5, <1>t, BoundsAssumption DEF Skip, RecordFailure, Unresolved, RowTyped, bounds
  <2> QED
    BY <1>5, <1>t, <2>1, <2>3, <2>4
      DEF Skip, RecordFailure, Unresolved, RowTyped, WorkTyped, row, work, bounds
<1>6. ASSUME NEW p \in Callers, Complete(p) \/ Release(p)
      PROVE  RowTyped' /\ WorkTyped' /\ CallTyped'
  <2>1. CallTyped'
    BY <1>6, <1>m, IdleTyped DEF Complete, Release, work
  <2>2. claim[p].cron \in Crons /\ claim[p].now \in Nat
    BY <1>t DEF CallTyped, ClaimRow
  <2>3. Following(claim[p].cron, claim[p].now) \in Nat
    BY <2>2, FollowingLater
  <2> QED
    BY <1>6, <1>t, <2>1, <2>3 DEF Complete, Release, RowTyped, WorkTyped, work, bounds
<1>7. ASSUME NEW p \in Callers, Reserve(p) PROVE RowTyped' /\ WorkTyped' /\ CallTyped'
  <2>1. CASE Refused(p)
    <3>1. PICK s \in Steps \ Working : Goto(p, s)
      BY <1>7, <2>1, <1>s DEF Reserve, Thrown
    <3>2. CallTyped'
      BY <1>7, <1>m, <2>1, <3>1, GotoTyped DEF Reserve
    <3> QED
      BY <1>7, <1>t, <2>1, <3>2 DEF Reserve, RowTyped, WorkTyped, row, bounds
  <2>2. CASE ~Refused(p)
    <3>1. PICK i \in Invs : /\ Insert(p, i, "creating")
                            /\ mine' = [mine EXCEPT ![p] = i] /\ Goto(p, "check")
      BY <1>7, <2>2 DEF Reserve
    <3>2. inv' \in [Invs -> InvRow] /\ Made' = Made \cup {i}
      BY <3>1, InsertMakes
    <3>3. "check" \in Steps
      BY DEF Steps, Trying
    <3>4. pc' \in [Callers -> Steps] /\ \A q \in Callers \ {p} : pc'[q] = pc[q]
      BY <1>t, <3>1, <3>3 DEF CallTyped, Goto
    <3>5. /\ mine' \in [Callers -> Invs \cup {NoInv}] /\ mine'[p] = i
          /\ \A q \in Callers \ {p} : mine'[q] = mine[q]
      BY <1>t, <3>1 DEF CallTyped
    <3>6. CallTyped'
      BY <1>7, <1>t, <3>2, <3>4, <3>5 DEF CallTyped, Reserve
    <3> QED
      BY <1>7, <1>t, <3>2, <3>6 DEF Reserve, RowTyped, WorkTyped, row, bounds
  <2> QED
    BY <2>1, <2>2
<1>8. ASSUME NEW p \in Callers, Check(p) \/ FindSession(p) \/ FindMessage(p) \/ Rescue(p)
      PROVE  RowTyped' /\ WorkTyped' /\ CallTyped'
  <2>1. mine[p] \in Made
    BY <1>8, <1>t
      DEF CallTyped, Check, FindSession, FindMessage, Rescue, At, Working, Trying
  <2>2. PICK s \in Working : Goto(p, s)
    BY <1>8 DEF Check, FindSession, FindMessage, Rescue, Working, Trying
  <2>3. UNCHANGED <<clock, row, work, claim, mine, bounds>>
    BY <1>8 DEF Check, FindSession, FindMessage, Rescue
  <2>4. CallTyped'
    BY <1>m, <1>w, <2>1, <2>2, <2>3, GotoTyped DEF work
  <2> QED
    BY <1>t, <2>3, <2>4 DEF RowTyped, WorkTyped, row, work, bounds
<1>9. ASSUME NEW p \in Callers, CreateSession(p) \/ EnqueueMessage(p)
      PROVE  RowTyped' /\ WorkTyped' /\ CallTyped'
  <2>1. mine[p] \in Made
    BY <1>9, <1>t DEF CallTyped, CreateSession, EnqueueMessage, At, Working, Trying
  <2>2. PICK s \in Working : Goto(p, s)
    BY <1>9 DEF CreateSession, EnqueueMessage, Working, Trying
  <2>3. UNCHANGED <<clock, row, inv, claim, mine, bounds>>
    BY <1>9 DEF CreateSession, EnqueueMessage
  <2>4. CallTyped'
    BY <1>m, <1>w, <2>1, <2>2, <2>3, GotoTyped
  <2>5. session' \in [Invs -> {"none", "empty", "busy", "over"}]
    BY <1>9, <1>t DEF CreateSession, EnqueueMessage, WorkTyped
  <2> QED
    BY <1>t, <2>3, <2>4, <2>5 DEF RowTyped, WorkTyped, row, bounds
<1>10. ASSUME NEW p \in Callers, Finish(p) \/ Fail(p) PROVE RowTyped' /\ WorkTyped' /\ CallTyped'
  <2>1. mine[p] \in Made
    BY <1>10, <1>t DEF CallTyped, Finish, Fail, At, Working, Trying
  <2>2. PICK s \in {"created", "failed"} : Settle(p, s)
    BY <1>10 DEF Finish, Fail
  <2>3. Made' = Made /\ inv' \in [Invs -> InvRow]
    BY <2>1, <2>2, SettleKeeps
  <2>4. PICK to \in Steps \ Working : Goto(p, to)
    BY <2>2, <1>s DEF Settle, Leave
  <2>5. CallTyped'
    BY <2>2, <2>3, <2>4, GotoTyped DEF Settle
  <2> QED
    BY <1>t, <2>2, <2>3, <2>5 DEF Settle, RowTyped, WorkTyped, row, bounds
<1>11. ASSUME NEW p \in Callers, Throw(p) PROVE RowTyped' /\ WorkTyped' /\ CallTyped'
  <2>1. Made' = Made
    BY <1>11, <1>m DEF Throw, work
  <2>2. faults' \in 0..MaxFaults
    BY <1>11, <1>t, BoundsAssumption DEF Throw, RowTyped
  <2>3. CASE Idle(p)
    BY <1>11, <1>t, <2>1, <2>2, <2>3, IdleTyped DEF Throw, RowTyped, WorkTyped, row, work
  <2>4. CASE pc[p] \in Trying /\ Goto(p, "rescue") /\ UNCHANGED <<claim, mine>>
    <3>1. mine[p] \in Made /\ "rescue" \in Steps
      BY <1>t, <2>4 DEF CallTyped, Working, Steps
    <3>2. CallTyped'
      BY <2>1, <2>4, <3>1, GotoTyped
    <3> QED
      BY <1>11, <1>t, <2>2, <3>2 DEF Throw, RowTyped, WorkTyped, row, work
  <2>5. CASE (Goto(p, "complete") \/ Thrown(p)) /\ UNCHANGED <<claim, mine>>
    <3>1. PICK s \in Steps \ Working : Goto(p, s)
      BY <2>5, <1>s DEF Thrown
    <3>2. CallTyped'
      BY <2>1, <2>5, <3>1, GotoTyped
    <3> QED
      BY <1>11, <1>t, <2>2, <3>2 DEF Throw, RowTyped, WorkTyped, row, work
  <2> QED
    BY <1>11, <2>3, <2>4, <2>5 DEF Throw
<1>12. ASSUME NEW p \in Callers, Crash(p) PROVE RowTyped' /\ WorkTyped' /\ CallTyped'
  <2>1. CallTyped'
    BY <1>12, <1>m, IdleTyped DEF Crash, work
  <2>2. faults' \in 0..MaxFaults
    BY <1>12, <1>t, BoundsAssumption DEF Crash, RowTyped
  <2> QED
    BY <1>12, <1>t, <2>1, <2>2 DEF Crash, RowTyped, WorkTyped, row, work
<1>13. CASE ChangeEnabled \/ ChangeCron \/ Archive \/ Unarchive
  <2>1. UNCHANGED <<clock, work, calling, calls, faults, overran>> /\ edits' \in 0..MaxInputs
    BY <1>13, <1>t, BoundsAssumption
      DEF ChangeEnabled, ChangeCron, Archive, Unarchive, Edit, RowTyped
  <2>2. cron' \in Crons
    BY <1>13, <1>t DEF ChangeEnabled, ChangeCron, Archive, Unarchive, RowTyped
  <2>3. Following(cron', clock) \in Nat
    BY <2>2, <1>t, FollowingLater, BoundsAssumption DEF RowTyped
  <2>4. next' \in Nat
    BY <1>13, <1>t, <2>3 DEF ChangeEnabled, ChangeCron, Archive, Unarchive, RowTyped
  <2>5. enabled' \in BOOLEAN /\ archived' \in BOOLEAN /\ held' \in BOOLEAN
        /\ owner' \in Callers \cup {Nobody}
    BY <1>13, <1>t DEF ChangeEnabled, ChangeCron, Archive, Unarchive, RowTyped
  <2>6. RowTyped'
    BY <1>t, <2>1, <2>2, <2>4, <2>5 DEF RowTyped
  <2> QED
    BY <1>t, <1>m, <2>1, <2>6 DEF WorkTyped, CallTyped, work, calling
<1>14. ASSUME NEW i \in Invs, SessionEnds(i) PROVE RowTyped' /\ WorkTyped' /\ CallTyped'
  BY <1>14, <1>t, <1>m DEF SessionEnds, RowTyped, WorkTyped, CallTyped, row, calling, bounds
<1>15. CASE Tick
  <2>1. clock' \in 0..MaxTime /\ overran' \in BOOLEAN
    BY <1>15, <1>t, BoundsAssumption DEF Tick, RowTyped
  <2>2. RowTyped'
    BY <1>15, <1>t, <2>1 DEF Tick, RowTyped
  <2> QED
    BY <1>15, <1>t, <1>m, <2>2 DEF Tick, WorkTyped, CallTyped, work, calling
<1>16. CASE UNCHANGED vars
  BY <1>16, <1>t, <1>m DEF vars, RowTyped, WorkTyped, CallTyped
<1> QED
  BY <1>1, <1>2, <1>3, <1>4, <1>5, <1>6, <1>7, <1>8, <1>9, <1>10, <1>11, <1>12, <1>13, <1>14,
     <1>15, <1>16 DEF Next, Proceed, CreateInvocation

LEMMA TypeInit == Init => TypeOK
<1> SUFFICES ASSUME Init PROVE TypeOK
  OBVIOUS
<1>1. RowTyped
  <2>1. Following(FirstCron, 0) \in Nat
    BY FollowingLater, CronsAssumption
  <2>2. 0 \in 0..MaxTime /\ 0 \in 0..MaxInputs /\ 0 \in 0..MaxFaults
    BY BoundsAssumption
  <2>3. clock \in 0..MaxTime /\ calls \in 0..MaxInputs /\ edits \in 0..MaxInputs
        /\ faults \in 0..MaxFaults /\ next \in Nat /\ cron \in Crons
    BY <2>1, <2>2, CronsAssumption DEF Init
  <2> QED
    BY <2>3 DEF Init, RowTyped
<1>2. WorkTyped
  BY NoClaimTyped DEF Init, WorkTyped
<1>3. CallTyped
  BY NoClaimTyped DEF Init, CallTyped, Steps, Trying, Working
<1> QED
  BY <1>1, <1>2, <1>3, TypeParts

(***************************************************************************)
(* The rows and the callers keep the shape the code gives them.            *)
(***************************************************************************)
THEOREM AutomationTyped == Spec => []TypeOK
<1>1. TypeOK /\ [Next]_vars => TypeOK'
  BY TypeStep
<1> QED
  BY <1>1, TypeInit, PTL DEF Spec

-----------------------------------------------------------------------------
(***************************************************************************)
(* The invariant behind the rest.  SoleInv is where the claim counts: as   *)
(* long as no caller outlives it, at most one scheduler is at work, and an *)
(* invocation has one caller.                                              *)
(***************************************************************************)
RoleInv == \A p \in Manual : pc[p] \notin {"look", "skip", "catch", "complete"}

RowInv ==
    /\ \A i \in Invs \ Made : session[i] = "none"
    /\ \A i \in Made : /\ inv[i].status = "created" => HasMessage(i)
                       /\ inv[i].status = "skipped" => session[i] = "none"

CallInv ==
    \A p \in Callers : pc[p] \in Working =>
       /\ inv[mine[p]].trigger = Trigger(p) /\ inv[mine[p]].at = claim[p].at
       /\ inv[mine[p]].status # "skipped"
       /\ pc[p] \in {"finish", "recover"} => HasMessage(mine[p])
       /\ \A q \in Callers : p \in Manual /\ pc[q] \in Working /\ mine[q] = mine[p] => q = p

SoleInv ==
    ~overran =>
       /\ \A p \in Schedulers : pc[p] # "idle" =>
             /\ (owner = p /\ held) \/ ~enabled \/ next > clock
             /\ claim[p].now = clock
             /\ \A q \in Schedulers : pc[q] # "idle" => q = p
       /\ \A p \in Callers : pc[p] \in Working =>
             /\ inv[mine[p]].status = "creating"
             /\ pc[p] = "fail" => ~HasMessage(mine[p])
       /\ \A i \in Made : inv[i].status = "failed" => ~HasMessage(i)

Recorded(p) == \E i \in Made : inv[i].trigger = "scheduled" /\ inv[i].at = claim[p].at

RecordInv ==
    /\ archived => owner = Nobody
    /\ \A p \in Schedulers : owner = p =>
          /\ pc[p] = "complete" => Recorded(p) \/ faults >= 2
          /\ pc[p] = "catch" => Recorded(p) \/ faults >= 1

\* A caller that is to create the session or the message of its invocation has found it
\* missing, and nobody else creates it.
PathInv ==
    ~overran => \A p \in Callers :
       /\ pc[p] = "session" => session[mine[p]] = "none"
       /\ pc[p] = "message" => session[mine[p]] # "none"
       /\ pc[p] = "enqueue" => session[mine[p]] = "empty"

\* An invocation is rescued after a fault or an edit.
RescueInv ==
    /\ \A p \in Schedulers : pc[p] # "idle" => (enabled /\ ~archived) \/ edits > 0
    /\ ~overran => \A p \in Schedulers :
          pc[p] \in {"rescue", "recover", "fail"} => faults > 0 \/ edits > 0

\* A scheduler makes an invocation for a time that has none, and somebody works on what
\* is begun unless there was a fault.
BegunInv ==
    ~overran =>
       /\ \A p \in Schedulers : pc[p] \in {"blocking", "skip", "reserve"} => ~Recorded(p)
       /\ \A i \in Begun :
             faults > 0 \/ \E p \in Schedulers : pc[p] \in Working /\ mine[p] = i

\* The time that p claimed has an invocation that came to its end.
Ended(p) == \E i \in Made : /\ inv[i].trigger = "scheduled" /\ inv[i].at = claim[p].at
                            /\ inv[i].status # "creating"

EndInv ==
    ~overran => \A p \in Schedulers : owner = p =>
       /\ pc[p] = "catch" => faults > 0 /\ (Recorded(p) => Ended(p) \/ TwoWentWrong)
       /\ pc[p] = "complete" => Ended(p) \/ TwoWentWrong

AutomationInv ==
    /\ TypeOK /\ RoleInv /\ RowInv /\ CallInv /\ SoleInv /\ RecordInv
    /\ PathInv /\ RescueInv /\ BegunInv /\ EndInv

-----------------------------------------------------------------------------
(***************************************************************************)
(* What a step leaves alone.                                               *)
(***************************************************************************)
Acts(p) == Claim(p) \/ ClaimManually(p) \/ Proceed(p) \/ Unresolved(p) \/ Throw(p) \/ Crash(p)
Outside ==
    \/ ChangeEnabled \/ ChangeCron \/ Archive \/ Unarchive
    \/ \E i \in Invs : SessionEnds(i)
    \/ Tick
    \/ UNCHANGED vars

LEMMA StepIsCases == [Next]_vars => (\E p \in Callers : Acts(p)) \/ Outside
  BY DEF Next, Acts, Outside

LEMMA OutsideKeepsCalls == ASSUME Outside PROVE UNCHANGED <<pc, claim, mine, inv, faults>>
  BY DEF Outside, ChangeEnabled, ChangeCron, Archive, Unarchive, Edit, SessionEnds, Tick, vars,
         calling, work, bounds

LEMMA OneMoves ==
    ASSUME TypeOK, NEW p \in Callers, Acts(p), NEW q \in Callers, q # p
    PROVE  pc'[q] = pc[q] /\ claim'[q] = claim[q] /\ mine'[q] = mine[q]
<1>1. CallTyped
  BY TypeParts
<1>2. pc'[q] = pc[q]
  <2>1. \E s : Goto(p, s)
    BY DEF Acts, Proceed, CreateInvocation, Claim, ClaimManually, Look, Block, Skip, RecordFailure,
           Complete, Release, Reserve, Check, FindSession, CreateSession, FindMessage,
           EnqueueMessage, Finish, Rescue, Fail, Settle, Unresolved, Throw, Crash, Idle, Leave, Thrown
  <2> QED
    BY <1>1, <2>1 DEF Goto, CallTyped
<1>3. claim'[q] = claim[q]
  BY <1>1 DEF CallTyped, Acts, Proceed, CreateInvocation, Claim, ClaimManually, Look, Block, Skip,
              RecordFailure, Complete, Release, Reserve, Check, FindSession, CreateSession,
              FindMessage, EnqueueMessage, Finish, Rescue, Fail, Settle, Unresolved, Throw,
              Crash, Idle
<1>4. mine'[q] = mine[q]
  BY <1>1 DEF CallTyped, Acts, Proceed, CreateInvocation, Claim, ClaimManually, Look, Block, Skip,
              RecordFailure, Complete, Release, Reserve, Check, FindSession, CreateSession,
              FindMessage, EnqueueMessage, Finish, Rescue, Fail, Settle, Unresolved, Throw,
              Crash, Idle
<1> QED
  BY <1>2, <1>3, <1>4

\* The rows change by an insert, by a settlement, or not at all.
Inserts(p) ==
    \E i \in Invs : \/ Insert(p, i, "skipped") /\ Skip(p)
                    \/ Insert(p, i, "failed") /\ (RecordFailure(p) \/ Unresolved(p))
                    \/ Insert(p, i, "creating") /\ Reserve(p)

LEMMA RowChanges ==
    ASSUME NEW p \in Callers, Acts(p), inv' # inv
    PROVE  Finish(p) \/ Fail(p) \/ Inserts(p)
  BY DEF Acts, Proceed, CreateInvocation, Claim, ClaimManually, Look, Block, Skip, RecordFailure,
         Complete, Release, Reserve, Check, FindSession, CreateSession, FindMessage,
         EnqueueMessage, Finish, Rescue, Fail, Unresolved, Throw, Crash, Inserts, work

LEMMA SettledIsMade ==
    ASSUME TypeOK, NEW p \in Callers, Finish(p) \/ Fail(p)
    PROVE  mine[p] \in Made
  BY DEF TypeOK, Finish, Fail, At, Trying

LEMMA InsertKeepsSession ==
    ASSUME NEW p \in Callers, Inserts(p) PROVE session' = session
  BY DEF Inserts, Skip, RecordFailure, Unresolved, Reserve

LEMMA RowsStay ==
    ASSUME TypeOK, [Next]_vars, NEW i \in Made
    PROVE  i \in Made' /\ inv'[i].trigger = inv[i].trigger /\ inv'[i].at = inv[i].at
<1>1. CASE inv' = inv
  BY <1>1 DEF Made
<1>2. CASE inv' # inv
  <2>1. PICK p \in Callers : Finish(p) \/ Fail(p) \/ Inserts(p)
    BY <1>2, StepIsCases, OutsideKeepsCalls, RowChanges
  <2>2. CASE Finish(p) \/ Fail(p)
    <3>1. PICK s \in {"created", "failed"} : Settle(p, s)
      BY <2>2 DEF Finish, Fail
    <3>2. mine[p] \in Made
      BY <2>2, SettledIsMade
    <3> QED
      BY <3>1, <3>2, SettleKeeps DEF Made
  <2>3. CASE Inserts(p)
    <3>1. PICK j \in Invs, s \in {"creating", "created", "skipped", "failed"} : Insert(p, j, s)
      BY <2>3 DEF Inserts
    <3> QED
      BY <3>1, InsertMakes DEF Made
  <2> QED
    BY <2>1, <2>2, <2>3
<1> QED
  BY <1>1, <1>2

\* A status changes only by a settlement.
LEMMA StatusChanges ==
    ASSUME TypeOK, [Next]_vars, NEW i \in Made, inv'[i].status # inv[i].status
    PROVE  \E p \in Callers : /\ mine[p] = i
                              /\ \/ Finish(p) /\ inv'[i].status = "created"
                                 \/ Fail(p) /\ inv'[i].status = "failed"
<1>1. inv' # inv
  OBVIOUS
<1>2. PICK p \in Callers : Finish(p) \/ Fail(p) \/ Inserts(p)
  BY <1>1, StepIsCases, OutsideKeepsCalls, RowChanges
<1>3. ~Inserts(p)
  <2>1. ASSUME Inserts(p) PROVE FALSE
    <3>1. PICK j \in Invs, s \in {"creating", "created", "skipped", "failed"} : Insert(p, j, s)
      BY <2>1 DEF Inserts
    <3> QED
      BY <3>1, InsertMakes DEF Made
  <2> QED
    BY <2>1
<1>4. mine[p] \in Made
  BY <1>2, <1>3, SettledIsMade
<1>5. CASE Finish(p)
  <2>1. Settle(p, "created")
    BY <1>5 DEF Finish
  <2> QED
    BY <1>4, <1>5, <2>1, SettleKeeps DEF Made
<1>6. CASE Fail(p)
  <2>1. Settle(p, "failed")
    BY <1>6 DEF Fail
  <2> QED
    BY <1>4, <1>6, <2>1, SettleKeeps DEF Made
<1> QED
  BY <1>2, <1>3, <1>5, <1>6

LEMMA InsertsOne ==
    ASSUME TypeOK, NEW p \in Callers, Inserts(p)
    PROVE  \E j \in Invs : /\ Made' = Made \cup {j}
                           /\ inv'[j].status \in {"creating", "skipped", "failed"}
<1>1. PICK j \in Invs :
         Insert(p, j, "skipped") \/ Insert(p, j, "failed") \/ Insert(p, j, "creating")
  BY DEF Inserts
<1>2. CASE Insert(p, j, "skipped")
  BY <1>2, InsertMakes
<1>3. CASE Insert(p, j, "failed")
  BY <1>3, InsertMakes
<1>4. CASE Insert(p, j, "creating")
  BY <1>4, InsertMakes
<1> QED
  BY <1>1, <1>2, <1>3, <1>4

\* A row that was not there.
LEMMA NewRows ==
    ASSUME TypeOK, [Next]_vars, NEW i \in Made', i \notin Made
    PROVE  /\ inv'[i].status \in {"creating", "skipped", "failed"} /\ session' = session
           /\ \E p \in Callers : Inserts(p)
<1>0. inv' # inv
  BY DEF Made
<1>1. PICK p \in Callers : Finish(p) \/ Fail(p) \/ Inserts(p)
  BY <1>0, StepIsCases, OutsideKeepsCalls, RowChanges
<1>2. CASE Finish(p) \/ Fail(p)
  <2>1. PICK s \in {"created", "failed"} : Settle(p, s)
    BY <1>2 DEF Finish, Fail
  <2>2. mine[p] \in Made
    BY <1>2, SettledIsMade
  <2> QED
    BY <2>1, <2>2, SettleKeeps
<1>3. CASE Inserts(p)
  <2>1. PICK j \in Invs : /\ Made' = Made \cup {j}
                          /\ inv'[j].status \in {"creating", "skipped", "failed"}
    BY <1>3, InsertsOne
  <2> QED
    BY <1>3, <2>1, InsertKeepsSession
<1> QED
  BY <1>1, <1>2, <1>3

\* A session changes when its run ends, or by the caller of its invocation.
LEMMA SessionChanges ==
    ASSUME TypeOK, [Next]_vars, NEW i \in Invs, session'[i] # session[i]
    PROVE  \/ SessionEnds(i)
           \/ \E p \in Callers : mine[p] = i /\ (CreateSession(p) \/ EnqueueMessage(p))
<1>0. session' # session /\ session \in [Invs -> {"none", "empty", "busy", "over"}]
  BY DEF TypeOK
<1>1. (\E j \in Invs : SessionEnds(j)) \/ (\E p \in Callers : CreateSession(p) \/ EnqueueMessage(p))
  BY <1>0 DEF Next, Proceed, CreateInvocation, Claim, ClaimManually, Look, Block, Skip, RecordFailure,
         Complete, Release, Reserve, Check, FindSession, FindMessage, Finish, Rescue, Fail, Settle,
         Unresolved, Throw, Crash, ChangeEnabled, ChangeCron, Archive, Unarchive, Edit, Tick,
         vars, work
<1>2. ASSUME NEW j \in Invs, SessionEnds(j) PROVE i = j
  BY <1>0, <1>2 DEF SessionEnds
<1>3. ASSUME NEW p \in Callers, CreateSession(p) \/ EnqueueMessage(p) PROVE mine[p] = i
  BY <1>0, <1>3 DEF CreateSession, EnqueueMessage
<1> QED
  BY <1>1, <1>2, <1>3

LEMMA MessagesStay ==
    ASSUME TypeOK, [Next]_vars, NEW i \in Invs, HasMessage(i)
    PROVE  HasMessage(i)'
<1>1. session \in [Invs -> {"none", "empty", "busy", "over"}]
  BY DEF TypeOK
<1>2. CASE session'[i] = session[i]
  BY <1>2 DEF HasMessage
<1>3. ASSUME SessionEnds(i) PROVE HasMessage(i)'
  BY <1>1, <1>3 DEF SessionEnds, HasMessage
<1>4. ASSUME NEW p \in Callers, mine[p] = i, CreateSession(p) \/ EnqueueMessage(p)
      PROVE  HasMessage(i)'
  BY <1>1, <1>4 DEF CreateSession, EnqueueMessage, HasMessage
<1> QED
  BY <1>2, <1>3, <1>4, SessionChanges

\* Nothing happens to a session without a row.
LEMMA RowInvStep ==
    ASSUME TypeOK, TypeOK', RowInv, CallInv, [Next]_vars PROVE RowInv'
<1>0. \A p \in Callers : CreateSession(p) \/ EnqueueMessage(p) \/ Finish(p) \/ Fail(p)
                            => pc[p] \in Working /\ mine[p] \in Made
  BY DEF CreateSession, EnqueueMessage, Finish, Fail, At, Working, Trying, TypeOK
<1>1. ASSUME NEW i \in Invs, i \notin Made' PROVE session'[i] = "none"
  <2>1. i \notin Made
    BY <1>1, RowsStay
  <2>2. session[i] = "none"
    BY <2>1 DEF RowInv
  <2>3. ~SessionEnds(i)
    BY <2>2 DEF SessionEnds
  <2> QED
    BY <1>0, <2>1, <2>2, <2>3, SessionChanges
<1>2. ASSUME NEW i \in Made', inv'[i].status = "created" PROVE HasMessage(i)'
  <2>1. i \in Made
    BY <1>2, NewRows
  <2>2. CASE inv[i].status = "created"
    BY <2>1, <2>2, MessagesStay DEF RowInv, Made
  <2>3. CASE inv[i].status # "created"
    <3>1. PICK p \in Callers : mine[p] = i /\ Finish(p)
      BY <1>2, <2>1, <2>3, StatusChanges
    <3>2. HasMessage(i)
      BY <1>0, <3>1 DEF CallInv, Finish, At
    <3> QED
      BY <2>1, <3>2, MessagesStay DEF Made
  <2> QED
    BY <2>2, <2>3
<1>3. ASSUME NEW i \in Made', inv'[i].status = "skipped" PROVE session'[i] = "none"
  <2>1. CASE i \notin Made
    <3>1. session' = session /\ i \in Invs
      BY <2>1, NewRows DEF Made
    <3> QED
      BY <2>1, <3>1 DEF RowInv
  <2>2. CASE i \in Made
    <3>1. inv[i].status = "skipped"
      BY <1>3, <2>2, StatusChanges
    <3>2. session[i] = "none" /\ i \in Invs
      BY <2>2, <3>1 DEF RowInv, Made
    <3>3. ~SessionEnds(i)
      BY <3>2 DEF SessionEnds
    <3>4. \A p \in Callers : mine[p] = i => ~(CreateSession(p) \/ EnqueueMessage(p))
      BY <1>0, <3>1 DEF CallInv
    <3> QED
      BY <3>2, <3>3, <3>4, SessionChanges
  <2> QED
    BY <2>1, <2>2
<1> QED
  BY <1>1, <1>2, <1>3 DEF RowInv

\* How a caller comes to work on an invocation.
LEMMA CallMoves ==
    ASSUME TypeOK, RoleInv, [Next]_vars, NEW p \in Callers, pc'[p] \in Working
    PROVE  \/ pc[p] \in Working /\ mine'[p] = mine[p] /\ claim'[p] = claim[p]
           \/ /\ Look(p) /\ p \in Schedulers /\ UNCHANGED <<row, work, claim>>
              /\ mine'[p] \in Made /\ inv[mine'[p]].trigger = "scheduled"
              /\ inv[mine'[p]].at = claim[p].at /\ inv[mine'[p]].status = "creating"
              /\ pc'[p] = "check"
           \/ /\ Reserve(p) /\ Insert(p, mine'[p], "creating") /\ mine'[p] \in Invs
              /\ claim' = claim /\ pc'[p] = "check"
<1>0. CallTyped /\ "idle" \notin Working
  BY TypeParts DEF Working, Trying
<1>1. CASE Outside
  BY <1>1, OutsideKeepsCalls
<1>2. ASSUME NEW q \in Callers, q # p, Acts(q)
      PROVE  pc[p] \in Working /\ mine'[p] = mine[p] /\ claim'[p] = claim[p]
  BY <1>2, OneMoves
<1>3. CASE Acts(p)
  <2>1. CASE Look(p)
    <3>1. p \in Schedulers
      BY <2>1 DEF RoleInv, Look, At, Callers
    <3>2. PICK i \in Made : /\ inv[i].trigger = "scheduled" /\ inv[i].at = claim[p].at
                            /\ inv[i].status = "creating"
                            /\ Goto(p, "check") /\ mine' = [mine EXCEPT ![p] = i]
      BY <1>0, <2>1 DEF Look, Goto, CallTyped, Working, Trying
    <3>3. mine'[p] = i /\ pc'[p] = "check"
      BY <1>0, <3>2 DEF Goto, CallTyped
    <3> QED
      BY <2>1, <3>1, <3>2, <3>3 DEF Look
  <2>2. CASE Reserve(p)
    <3>1. PICK i \in Invs : /\ Insert(p, i, "creating")
                            /\ mine' = [mine EXCEPT ![p] = i] /\ Goto(p, "check")
      BY <1>0, <2>2 DEF Reserve, Thrown, Goto, CallTyped, Working, Trying
    <3>2. mine'[p] = i /\ pc'[p] = "check"
      BY <1>0, <3>1 DEF Goto, CallTyped
    <3> QED
      BY <2>2, <3>1, <3>2 DEF Reserve
  <2>3. CASE Check(p) \/ FindSession(p) \/ CreateSession(p) \/ FindMessage(p)
             \/ EnqueueMessage(p) \/ Rescue(p)
    BY <2>3 DEF Check, FindSession, CreateSession, FindMessage, EnqueueMessage, Rescue, At,
                Working, Trying
  <2>4. CASE Finish(p) \/ Fail(p) \/ Skip(p) \/ RecordFailure(p) \/ Block(p) \/ Unresolved(p)
             \/ Claim(p) \/ ClaimManually(p)
    <3>1. \E s \in {"complete", "release", "catch", "skip", "reserve", "look", "blocking"} :
             Goto(p, s)
      BY <2>4 DEF Finish, Fail, Settle, Skip, RecordFailure, Block, Unresolved, Claim,
                  ClaimManually, Leave, Thrown
    <3>2. pc'[p] \notin Working
      BY <1>0, <3>1 DEF Goto, CallTyped, Working, Trying
    <3> QED
      BY <3>2
  <2>5. CASE Complete(p) \/ Release(p) \/ Crash(p) \/ Throw(p)
    <3>1. CASE Idle(p)
      BY <1>0, <3>1 DEF Idle, Goto, CallTyped
    <3>2. CASE ~Idle(p)
      <4>1. CASE pc[p] \in Trying
        BY <2>5, <3>2, <4>1 DEF Throw, Complete, Release, Crash, Working
      <4>2. CASE pc[p] \notin Trying
        <5>1. \E s \in {"complete", "release", "catch"} : Goto(p, s)
          BY <2>5, <3>2, <4>2 DEF Throw, Complete, Release, Crash, Thrown
        <5> QED
          BY <1>0, <5>1 DEF Goto, CallTyped, Working, Trying
      <4> QED
        BY <4>1, <4>2
    <3> QED
      BY <3>1, <3>2
  <2> QED
    BY <1>3, <2>1, <2>2, <2>3, <2>4, <2>5 DEF Acts, Proceed, CreateInvocation
<1> QED
  BY <1>1, <1>2, <1>3, StepIsCases

\* Nobody comes to the last update without a message to tell of.
LEMMA FinishReached ==
    ASSUME TypeOK, [Next]_vars, NEW p \in Callers,
           pc'[p] \in {"finish", "recover"}, pc[p] # pc'[p], mine'[p] = mine[p], mine[p] \in Invs
    PROVE  HasMessage(mine[p])'
<1>0. CallTyped /\ WorkTyped
  BY TypeParts
<1>1. Acts(p)
  BY StepIsCases, OutsideKeepsCalls, OneMoves
<1>2. FindMessage(p) \/ EnqueueMessage(p) \/ Rescue(p)
  <2>1. CASE Idle(p)
    BY <1>0, <2>1 DEF Idle, Goto, CallTyped
  <2>2. CASE ~Idle(p)
    BY <1>0, <1>1, <2>2
      DEF Acts, Proceed, CreateInvocation, Claim, ClaimManually, Look, Block, Skip, RecordFailure,
          Complete, Release, Reserve, Check, FindSession, CreateSession, Finish, Fail, Settle,
          Unresolved, Throw, Crash, Leave, Thrown, Goto, CallTyped
  <2> QED
    BY <2>1, <2>2
<1>3. CASE FindMessage(p) \/ Rescue(p)
  <2>1. HasMessage(mine[p])
    BY <1>0, <1>3 DEF FindMessage, Rescue, Goto, CallTyped
  <2> QED
    BY <2>1, MessagesStay
<1>4. CASE EnqueueMessage(p)
  <2>1. session' = [session EXCEPT ![mine[p]] = "busy"]
    BY <1>0, <1>4 DEF EnqueueMessage, Goto, CallTyped
  <2> QED
    BY <1>0, <2>1 DEF HasMessage, WorkTyped
<1> QED
  BY <1>2, <1>3, <1>4

LEMMA RoleInvStep == ASSUME TypeOK, RoleInv, [Next]_vars PROVE RoleInv'
<1>0. CallTyped
  BY TypeParts
<1> SUFFICES ASSUME NEW p \in Manual PROVE pc'[p] \notin {"look", "skip", "catch", "complete"}
  BY DEF RoleInv
<1>1. p \in Callers /\ p \notin Schedulers
  BY CallersAssumption DEF Callers
<1>2. CASE Outside
  BY <1>2, OutsideKeepsCalls DEF RoleInv
<1>3. ASSUME NEW q \in Callers, q # p, Acts(q)
      PROVE  pc'[p] \notin {"look", "skip", "catch", "complete"}
  BY <1>1, <1>3, OneMoves DEF RoleInv
<1>4. CASE Acts(p)
  <2>1. \E s \in Working \cup {"idle", "release", "blocking", "reserve"} : Goto(p, s)
    BY <1>1, <1>4
      DEF RoleInv, Acts, Proceed, CreateInvocation, Claim, ClaimManually, Look, Block, Skip,
          RecordFailure, Complete, Release, Reserve, Check, FindSession, CreateSession,
          FindMessage, EnqueueMessage, Finish, Rescue, Fail, Settle, Unresolved, Throw, Crash,
          Idle, Leave, Thrown, At, Working, Trying
  <2> QED
    BY <1>0, <1>1, <2>1 DEF Goto, CallTyped, Working, Trying
<1> QED
  BY <1>2, <1>3, <1>4, StepIsCases

LEMMA CallInvStep ==
    ASSUME TypeOK, TypeOK', RoleInv, RowInv, CallInv, [Next]_vars PROVE CallInv'
<1>0. CallTyped /\ WorkTyped /\ CallTyped'
  BY TypeParts DEF TypeOK, CallTyped, Working, Made, ClaimRow, InvRow, RowTyped, WorkTyped
<1>1. ASSUME NEW p \in Callers, pc[p] \in Working, pc'[p] \in Working, mine'[p] = mine[p],
             claim'[p] = claim[p]
      PROVE  /\ inv'[mine'[p]].trigger = Trigger(p) /\ inv'[mine'[p]].at = claim'[p].at
             /\ inv'[mine'[p]].status # "skipped"
             /\ pc'[p] \in {"finish", "recover"} => HasMessage(mine[p])'
             /\ \A q \in Callers :
                   p \in Manual /\ pc'[q] \in Working /\ mine'[q] = mine'[p] => q = p
  <2>1. mine[p] \in Made /\ mine[p] \in Invs
    BY <1>0, <1>1 DEF CallTyped, Made
  <2>2. inv'[mine'[p]].trigger = Trigger(p) /\ inv'[mine'[p]].at = claim'[p].at
    BY <1>1, <2>1, RowsStay DEF CallInv
  <2>3. inv'[mine'[p]].status # "skipped"
    BY <1>1, <2>1, StatusChanges DEF CallInv
  <2>4. ASSUME pc'[p] \in {"finish", "recover"} PROVE HasMessage(mine[p])'
    <3>1. CASE pc'[p] = pc[p]
      BY <1>1, <2>1, <2>4, <3>1, MessagesStay DEF CallInv
    <3>2. CASE pc'[p] # pc[p]
      BY <1>1, <2>1, <2>4, <3>2, FinishReached
    <3> QED
      BY <3>1, <3>2
  <2>5. ASSUME NEW q \in Callers, p \in Manual, pc'[q] \in Working, mine'[q] = mine'[p]
        PROVE  q = p
    <3>1. inv[mine[p]].trigger = "manual"
      BY <1>1, <2>5, CallersAssumption DEF CallInv, Trigger
    <3>2. CASE pc[q] \in Working /\ mine'[q] = mine[q]
      BY <1>1, <2>5, <3>2 DEF CallInv
    <3>3. CASE inv[mine'[q]].trigger = "scheduled"
      BY <1>1, <2>5, <3>1, <3>3
    <3>4. CASE Insert(q, mine'[q], "creating")
      BY <1>1, <2>1, <2>5, <3>4 DEF Insert
    <3> QED
      BY <2>5, <3>2, <3>3, <3>4, CallMoves
  <2> QED
    BY <2>2, <2>3, <2>4, <2>5
<1>2. ASSUME NEW p \in Callers, p \in Schedulers, UNCHANGED <<row, work, claim>>,
             inv[mine'[p]].trigger = "scheduled", inv[mine'[p]].at = claim[p].at,
             inv[mine'[p]].status = "creating", pc'[p] = "check"
      PROVE  /\ inv'[mine'[p]].trigger = Trigger(p) /\ inv'[mine'[p]].at = claim'[p].at
             /\ inv'[mine'[p]].status # "skipped"
             /\ pc'[p] \notin {"finish", "recover"} /\ p \notin Manual
  BY <1>2, CallersAssumption DEF work, Trigger
<1>3. ASSUME NEW p \in Callers, Reserve(p), mine'[p] \in Invs, Insert(p, mine'[p], "creating"),
             claim' = claim, pc'[p] = "check"
      PROVE  /\ inv'[mine'[p]].trigger = Trigger(p) /\ inv'[mine'[p]].at = claim'[p].at
             /\ inv'[mine'[p]].status # "skipped"
             /\ pc'[p] \notin {"finish", "recover"}
             /\ \A q \in Callers : pc'[q] \in Working /\ mine'[q] = mine'[p] => q = p
  <2>1. PICK i \in Invs : i = mine'[p]
    BY <1>3
  <2>2. /\ i \notin Made
        /\ inv'[i] = [trigger |-> Trigger(p), status |-> "creating", at |-> claim[p].at]
    BY <1>3, <2>1, InsertMakes
  <2>3. ASSUME NEW q \in Callers, pc'[q] \in Working, mine'[q] = i, q # p PROVE FALSE
    BY <1>0, <1>3, <2>2, <2>3, OneMoves DEF CallTyped, Acts, Proceed, CreateInvocation
  <2> QED
    BY <1>3, <2>1, <2>2, <2>3
<1>4. ASSUME NEW p \in Callers, pc'[p] \in Working
      PROVE  /\ inv'[mine'[p]].trigger = Trigger(p) /\ inv'[mine'[p]].at = claim'[p].at
             /\ inv'[mine'[p]].status # "skipped"
             /\ pc'[p] \in {"finish", "recover"} => session'[mine'[p]] \in {"busy", "over"}
             /\ \A q \in Callers :
                   p \in Manual /\ pc'[q] \in Working /\ mine'[q] = mine'[p] => q = p
  <2>1. CASE pc[p] \in Working /\ mine'[p] = mine[p] /\ claim'[p] = claim[p]
    BY <1>1, <1>4, <2>1 DEF HasMessage
  <2>2. CASE ~(pc[p] \in Working /\ mine'[p] = mine[p] /\ claim'[p] = claim[p])
    BY <1>2, <1>3, <1>4, <2>2, CallMoves
  <2> QED
    BY <2>1, <2>2
<1> QED
  BY <1>4 DEF CallInv, HasMessage, Trigger

-----------------------------------------------------------------------------
(***************************************************************************)
(* What a caller does to the claim.                                        *)
(***************************************************************************)
LEMMA ActsRow ==
    ASSUME NEW p \in Callers, Acts(p)
    PROVE  /\ UNCHANGED <<clock, enabled, archived, cron, overran>>
           /\ \/ UNCHANGED <<next, owner, held>>
              \/ Claim(p) \/ ClaimManually(p) \/ Complete(p) \/ Release(p)
<1>1. UNCHANGED <<clock, enabled, archived, cron, overran>>
  BY DEF Acts, Proceed, CreateInvocation, Claim, ClaimManually, Look, Block, Skip, RecordFailure,
         Complete, Release, Reserve, Check, FindSession, CreateSession, FindMessage,
         EnqueueMessage, Finish, Rescue, Fail, Settle, Unresolved, Throw, Crash, row, bounds
<1>2. CASE Claim(p) \/ ClaimManually(p) \/ Complete(p) \/ Release(p)
  BY <1>1, <1>2
<1>3. CASE ~(Claim(p) \/ ClaimManually(p) \/ Complete(p) \/ Release(p))
  BY <1>1, <1>3
    DEF Acts, Proceed, CreateInvocation, Look, Block, Skip, RecordFailure, Reserve, Check,
        FindSession, CreateSession, FindMessage, EnqueueMessage, Finish, Rescue, Fail, Settle,
        Unresolved, Throw, Crash, row
<1> QED
  BY <1>2, <1>3

LEMMA IdleActs ==
    ASSUME NEW p \in Callers, Acts(p), pc[p] = "idle" PROVE Claim(p) \/ ClaimManually(p)
  BY DEF Acts, Proceed, CreateInvocation, Look, Block, Skip, RecordFailure, Complete, Release,
         Reserve, Check, FindSession, CreateSession, FindMessage, EnqueueMessage, Finish, Rescue,
         Fail, Unresolved, Throw, Crash, At

LEMMA StaysClaimed ==
    ASSUME TypeOK, NEW p \in Callers, Acts(p), pc[p] # "idle", pc'[p] # "idle"
    PROVE  claim' = claim /\ UNCHANGED <<next, owner, held>>
<1>0. CallTyped
  BY TypeParts
<1>1. ~Idle(p)
  BY <1>0 DEF Idle, Goto, CallTyped
<1>2. ~Claim(p) /\ ~ClaimManually(p) /\ ~Complete(p) /\ ~Release(p)
  BY <1>1 DEF Claim, ClaimManually, MayBegin, At, Complete, Release
<1>3. claim' = claim
  BY <1>1, <1>2
    DEF Acts, Proceed, CreateInvocation, Look, Block, Skip, RecordFailure, Reserve, Check,
        FindSession, CreateSession, FindMessage, EnqueueMessage, Finish, Rescue, Fail, Settle,
        Unresolved, Throw, Crash
<1> QED
  BY <1>2, <1>3, ActsRow

Holds(p) ==
    /\ (owner = p /\ held) \/ ~enabled \/ next > clock
    /\ claim[p].now = clock
    /\ \A q \in Schedulers : pc[q] # "idle" => q = p

\* Nobody gets in beside a scheduler that is at work in its minute.
LEMMA HoldsStep ==
    ASSUME TypeOK, TypeOK', RoleInv, ~overran', [Next]_vars,
           \A p \in Schedulers : pc[p] # "idle" => Holds(p),
           NEW p \in Schedulers, pc'[p] # "idle"
    PROVE  Holds(p)'
<1>0. CallTyped /\ RowTyped /\ p \in Callers
  BY TypeParts DEF Callers
<1>t. clock \in Nat /\ next \in Nat /\ cron \in Crons
  BY <1>0, BoundsAssumption DEF RowTyped
<1>1. CASE Outside
  <2>1. UNCHANGED <<pc, claim>>
    BY <1>1, OutsideKeepsCalls
  <2>2. ~Tick
    BY <1>0, <2>1 DEF Tick, At
  <2>3. clock' = clock
    BY <1>1, <2>2
      DEF Outside, ChangeEnabled, ChangeCron, Archive, Unarchive, Edit, SessionEnds, vars
  <2>4. (owner' = p /\ held') \/ ~enabled' \/ next' > clock'
    <3>1. CASE ChangeEnabled
      BY <3>1, <1>t, <2>3, FollowingLater DEF ChangeEnabled
    <3>2. CASE ChangeCron
      <4>1. cron' \in Crons
        BY <3>2 DEF ChangeCron
      <4> QED
        BY <3>2, <4>1, <1>t, <2>3, FollowingLater DEF ChangeCron
    <3>3. CASE Archive \/ Unarchive
      BY <3>3 DEF Archive, Unarchive
    <3>4. CASE UNCHANGED <<enabled, next, owner, held>>
      BY <2>1, <2>3, <3>4 DEF Holds
    <3> QED
      BY <1>1, <2>2, <3>1, <3>2, <3>3, <3>4 DEF Outside, SessionEnds, row, vars
  <2> QED
    BY <2>1, <2>3, <2>4 DEF Holds
<1>2. ASSUME NEW q \in Callers, Acts(q) PROVE Holds(p)'
  <2>1. UNCHANGED <<clock, enabled, overran>>
    BY <1>2, ActsRow
  <2>2. ASSUME NEW r \in Schedulers, pc[r] = "idle", pc'[r] # "idle" PROVE Claim(r) /\ r = q
    <3>1. r \in Callers /\ r \notin Manual
      BY CallersAssumption DEF Callers
    <3>2. r = q
      BY <1>2, <2>2, <3>1, OneMoves
    <3> QED
      BY <1>2, <2>2, <3>1, <3>2, IdleActs DEF ClaimManually
  <2>3. ASSUME NEW r \in Schedulers, Claim(r), NEW s \in Schedulers, pc[s] # "idle" PROVE FALSE
    BY <1>t, <2>3 DEF Holds, Claim
  <2>4. CASE pc[p] = "idle"
    <3>1. Claim(p) /\ p = q
      BY <2>2, <2>4
    <3>2. owner' = p /\ held'
      BY <3>1 DEF Claim
    <3>3. claim'[p].now = clock
      <4>1. claim' = [claim EXCEPT ![p] =
                         [NoClaim EXCEPT !.cron = cron, !.at = next, !.now = clock]]
        BY <3>1 DEF Claim
      <4>2. claim'[p] = [NoClaim EXCEPT !.cron = cron, !.at = next, !.now = clock]
        BY <1>0, <4>1 DEF CallTyped
      <4> QED
        BY <4>2 DEF NoClaim
    <3>4. ASSUME NEW r \in Schedulers, pc'[r] # "idle" PROVE r = p
      BY <2>2, <2>3, <3>1, <3>4
    <3> QED
      BY <2>1, <3>2, <3>3, <3>4 DEF Holds
  <2>5. CASE pc[p] # "idle"
    <3>1. claim'[p] = claim[p]
      BY <1>0, <1>2, <2>5, OneMoves, StaysClaimed
    <3>2. ASSUME NEW r \in Schedulers, pc'[r] # "idle" PROVE r = p
      BY <2>2, <2>3, <2>5, <3>2 DEF Holds
    <3>3. (owner' = p /\ held') \/ ~enabled' \/ next' > clock'
      <4>1. CASE q = p
        BY <1>2, <2>1, <2>5, <4>1, StaysClaimed DEF Holds
      <4>2. CASE q # p /\ q \in Schedulers
        <5>1. pc[q] = "idle"
          BY <2>5, <4>2 DEF Holds
        <5>2. Claim(q)
          BY <1>2, <4>2, <5>1, CallersAssumption, IdleActs DEF ClaimManually
        <5> QED
          BY <2>3, <2>5, <4>2, <5>2
      <4>3. CASE q \in Manual
        <5>1. ~Complete(q) /\ ~Claim(q) /\ q # p
          BY <4>3, CallersAssumption DEF RoleInv, Complete, Claim, At
        <5>2. CASE ClaimManually(q)
          BY <2>1, <2>5, <5>2 DEF ClaimManually, Holds
        <5>3. CASE Release(q)
          BY <2>1, <2>5, <5>1, <5>3 DEF Release, Holds
        <5> QED
          BY <1>2, <2>1, <2>5, <5>1, <5>2, <5>3, ActsRow DEF Holds
      <4> QED
        BY <4>1, <4>2, <4>3 DEF Callers
    <3> QED
      BY <2>1, <2>5, <3>1, <3>2, <3>3 DEF Holds
  <2> QED
    BY <2>4, <2>5
<1> QED
  BY <1>1, <1>2, StepIsCases

\* An invocation has one caller, as long as none has outlived its claim.
LEMMA SoleCaller ==
    ASSUME TypeOK, CallInv, SoleInv, ~overran, NEW p \in Callers, NEW q \in Callers,
           pc[p] \in Working, pc[q] \in Working, mine[q] = mine[p]
    PROVE  q = p
<1>1. Trigger(p) = Trigger(q) /\ pc[p] # "idle" /\ pc[q] # "idle"
  BY DEF CallInv, Working, Trying
<1>2. CASE p \in Manual
  BY <1>2 DEF CallInv
<1>3. CASE p \in Schedulers
  <2>1. q \in Schedulers
    BY <1>1, <1>3 DEF Trigger
  <2> QED
    BY <1>1, <1>3, <2>1 DEF SoleInv
<1> QED
  BY <1>2, <1>3 DEF Callers

LEMMA SoleInvStep ==
    ASSUME TypeOK, TypeOK', RoleInv, RowInv, CallInv, SoleInv, [Next]_vars PROVE SoleInv'
<1> SUFFICES ASSUME ~overran'
             PROVE  /\ \A p \in Schedulers : pc'[p] # "idle" => Holds(p)'
                    /\ \A p \in Callers : pc'[p] \in Working =>
                          /\ inv'[mine'[p]].status = "creating"
                          /\ pc'[p] = "fail" => session'[mine'[p]] \notin {"busy", "over"}
                    /\ \A i \in Made' : inv'[i].status = "failed" => ~HasMessage(i)'
  BY DEF SoleInv, Holds, HasMessage
<1>0. CallTyped /\ WorkTyped
  BY TypeParts
<1>1. ~overran
  <2>1. CASE Outside
    BY <2>1 DEF Outside, ChangeEnabled, ChangeCron, Archive, Unarchive, Edit, SessionEnds, Tick,
                vars, bounds
  <2>2. ASSUME NEW p \in Callers, Acts(p) PROVE ~overran
    BY <2>2, ActsRow
  <2> QED
    BY <2>1, <2>2, StepIsCases
<1>2. \A p \in Schedulers : pc'[p] # "idle" => Holds(p)'
  <2>1. \A p \in Schedulers : pc[p] # "idle" => Holds(p)
    BY <1>1 DEF SoleInv, Holds
  <2> QED
    BY <2>1, HoldsStep
<1>3. \A p \in Callers : CreateSession(p) \/ EnqueueMessage(p) \/ Finish(p) \/ Fail(p)
                            => pc[p] \in Working /\ mine[p] \in Made /\ mine[p] \in Invs
  BY DEF CreateSession, EnqueueMessage, Finish, Fail, At, Working, Trying, TypeOK, Made
<1>4. ASSUME NEW p \in Callers, pc'[p] \in Working
      PROVE  /\ inv'[mine'[p]].status = "creating"
             /\ pc'[p] = "fail" => session'[mine'[p]] \notin {"busy", "over"}
  <2>1. CASE pc[p] \in Working /\ mine'[p] = mine[p] /\ claim'[p] = claim[p]
    <3>1. mine[p] \in Made /\ mine[p] \in Invs /\ inv[mine[p]].status = "creating"
      BY <1>0, <1>1, <2>1 DEF CallTyped, Made, SoleInv
    <3>2. inv'[mine[p]].status = "creating"
      <4>1. ASSUME NEW q \in Callers, mine[q] = mine[p], Finish(q) \/ Fail(q) PROVE FALSE
        <5>1. q = p
          BY <1>1, <1>3, <2>1, <4>1, SoleCaller
        <5>2. Goto(p, "complete") \/ Goto(p, "release")
          BY <4>1, <5>1 DEF Finish, Fail, Settle, Leave
        <5> QED
          BY <1>0, <1>4, <5>2 DEF Goto, CallTyped, Working, Trying
      <4> QED
        BY <3>1, <4>1, StatusChanges
    <3>3. ASSUME pc'[p] = "fail" PROVE session'[mine[p]] \notin {"busy", "over"}
      <4>1. CASE pc[p] = "fail"
        <5>1. ~HasMessage(mine[p])
          BY <1>1, <2>1, <4>1 DEF SoleInv
        <5>2. ~SessionEnds(mine[p])
          BY <5>1 DEF SessionEnds, HasMessage
        <5>3. ASSUME NEW q \in Callers, mine[q] = mine[p], CreateSession(q) \/ EnqueueMessage(q)
              PROVE  FALSE
          <6>1. q = p
            BY <1>1, <1>3, <2>1, <5>3, SoleCaller
          <6> QED
            BY <4>1, <5>3, <6>1 DEF CreateSession, EnqueueMessage, At
        <5> QED
          BY <3>1, <5>1, <5>2, <5>3, SessionChanges DEF HasMessage
      <4>2. CASE pc[p] # "fail"
        <5>1. Acts(p)
          BY <3>3, <4>2, StepIsCases, OutsideKeepsCalls, OneMoves
        <5>2. Rescue(p)
          <6>1. ~Idle(p)
            BY <1>0, <3>3 DEF Idle, Goto, CallTyped
          <6> QED
            BY <1>0, <3>3, <5>1, <6>1
              DEF Acts, Proceed, CreateInvocation, Claim, ClaimManually, Look, Block, Skip,
                  RecordFailure, Complete, Release, Reserve, Check, FindSession, CreateSession,
                  FindMessage, EnqueueMessage, Finish, Fail, Settle, Unresolved, Throw, Crash,
                  Leave, Thrown, Goto, CallTyped
        <5>3. ~HasMessage(mine[p]) /\ session' = session
          BY <1>0, <3>3, <5>2 DEF Rescue, Goto, CallTyped, work
        <5> QED
          BY <5>3 DEF HasMessage
      <4> QED
        BY <4>1, <4>2
    <3> QED
      BY <2>1, <3>2, <3>3
  <2>2. CASE Look(p) /\ UNCHANGED work /\ inv[mine'[p]].status = "creating" /\ pc'[p] = "check"
    BY <2>2 DEF work
  <2>3. CASE Insert(p, mine'[p], "creating") /\ mine'[p] \in Invs /\ pc'[p] = "check"
    <3>1. PICK i \in Invs : i = mine'[p]
      BY <2>3
    <3>2. inv'[i].status = "creating"
      BY <2>3, <3>1, InsertMakes
    <3> QED
      BY <2>3, <3>1, <3>2
  <2> QED
    BY <1>4, <2>1, <2>2, <2>3, CallMoves
<1>5. ASSUME NEW i \in Made', inv'[i].status = "failed" PROVE ~HasMessage(i)'
  <2>0. i \in Invs
    BY <1>5 DEF Made
  <2>1. CASE i \notin Made
    <3>1. session' = session /\ session[i] = "none"
      BY <2>0, <2>1, NewRows DEF RowInv
    <3> QED
      BY <3>1 DEF HasMessage
  <2>2. CASE i \in Made /\ inv[i].status = "failed"
    <3>1. ~HasMessage(i)
      BY <1>1, <2>2 DEF SoleInv
    <3>2. ~SessionEnds(i)
      BY <3>1 DEF SessionEnds, HasMessage
    <3>3. ASSUME NEW q \in Callers, mine[q] = i, CreateSession(q) \/ EnqueueMessage(q) PROVE FALSE
      BY <1>1, <1>3, <2>2, <3>3 DEF SoleInv
    <3> QED
      BY <2>0, <3>1, <3>2, <3>3, SessionChanges DEF HasMessage
  <2>3. CASE i \in Made /\ inv[i].status # "failed"
    <3>1. PICK q \in Callers : mine[q] = i /\ Fail(q)
      BY <1>5, <2>3, StatusChanges
    <3>2. ~HasMessage(i) /\ session' = session
      BY <1>1, <1>3, <3>1 DEF SoleInv, Fail, Settle, At
    <3> QED
      BY <3>2 DEF HasMessage
  <2> QED
    BY <2>1, <2>2, <2>3
<1> QED
  BY <1>2, <1>4, <1>5

-----------------------------------------------------------------------------
(***************************************************************************)
(* Every way to the end of a scheduled claim leaves a record of its time.  *)
(***************************************************************************)
LEMMA RecordsStay ==
    ASSUME TypeOK, [Next]_vars, NEW p \in Callers, claim'[p] = claim[p], Recorded(p)
    PROVE  Recorded(p)'
<1>1. PICK i \in Made : inv[i].trigger = "scheduled" /\ inv[i].at = claim[p].at
  BY DEF Recorded
<1>2. i \in Made' /\ inv'[i].trigger = "scheduled" /\ inv'[i].at = claim'[p].at
  BY <1>1, RowsStay
<1> QED
  BY <1>2 DEF Recorded

LEMMA RefusedIsRecorded ==
    ASSUME RecordInv, NEW p \in Schedulers, owner = p, Refused(p) PROVE Recorded(p)
  BY CallersAssumption DEF RecordInv, Refused, Recorded

LEMMA InsertRecords ==
    ASSUME TypeOK, NEW p \in Schedulers, NEW i \in Invs,
           Insert(p, i, "skipped") \/ Insert(p, i, "failed"), claim' = claim
    PROVE  Recorded(p)'
<1>1. p \in Callers
  BY DEF Callers
<1>2. Made' = Made \cup {i} /\ inv'[i].trigger = Trigger(p) /\ inv'[i].at = claim[p].at
  <2>1. CASE Insert(p, i, "skipped")
    BY <1>1, <2>1, InsertMakes, Zenon
  <2>2. CASE Insert(p, i, "failed")
    BY <1>1, <2>2, InsertMakes, Zenon
  <2> QED
    BY <2>1, <2>2
<1> QED
  BY <1>2 DEF Recorded, Trigger

LEMMA RecordInvStep ==
    ASSUME TypeOK, TypeOK', RoleInv, CallInv, RecordInv, [Next]_vars PROVE RecordInv'
<1>0. CallTyped /\ RowTyped /\ RowTyped' /\ Schedulers \subseteq Callers /\ Nobody \notin Callers
  BY TypeParts, CallersAssumption DEF Callers, TypeOK, RowTyped
<1>f. faults \in Int /\ faults' \in Int
  BY <1>0, BoundsAssumption DEF RowTyped
<1>1. archived' => owner' = Nobody
  <2>1. CASE Outside
    BY <2>1 DEF RecordInv, Outside, ChangeEnabled, ChangeCron, Archive, Unarchive, Edit,
                SessionEnds, Tick, row, vars
  <2>2. ASSUME NEW p \in Callers, Acts(p) PROVE archived' => owner' = Nobody
    <3>1. archived' = archived
      BY <2>2, ActsRow
    <3>2. CASE UNCHANGED <<next, owner, held>>
      BY <3>1, <3>2 DEF RecordInv
    <3>3. CASE Claim(p) \/ ClaimManually(p) \/ Complete(p) \/ Release(p)
      BY <3>1, <3>3 DEF RecordInv, Claim, ClaimManually, Complete, Release
    <3> QED
      BY <2>2, <3>2, <3>3, ActsRow
  <2> QED
    BY <2>1, <2>2, StepIsCases
<1>2. ASSUME NEW p \in Schedulers, owner' = p
      PROVE  /\ pc'[p] = "complete" => Recorded(p)' \/ faults' >= 2
             /\ pc'[p] = "catch" => Recorded(p)' \/ faults' >= 1
  <2>0. p \in Callers
    BY <1>0
  <2>1. CASE Outside
    <3>1. UNCHANGED <<pc, claim, inv, faults>>
      BY <2>1, OutsideKeepsCalls
    <3>2. owner = p
      BY <1>0, <1>2, <2>0, <2>1
        DEF Outside, ChangeEnabled, ChangeCron, Archive, Unarchive, Edit, SessionEnds, Tick, row, vars
    <3>3. Recorded(p) => Recorded(p)'
      BY <2>0, <3>1, RecordsStay
    <3> QED
      BY <3>1, <3>2, <3>3 DEF RecordInv
  <2>2. ASSUME NEW q \in Callers, q # p, Acts(q)
        PROVE  /\ pc'[p] = "complete" => Recorded(p)' \/ faults' >= 2
               /\ pc'[p] = "catch" => Recorded(p)' \/ faults' >= 1
    <3>1. owner = p
      BY <1>0, <1>2, <2>0, <2>2, ActsRow DEF Claim, ClaimManually, Complete, Release
    <3>2. pc'[p] = pc[p] /\ claim'[p] = claim[p]
      BY <2>0, <2>2, OneMoves
    <3>3. faults' = faults \/ faults' = faults + 1
      BY <2>2 DEF Acts, Proceed, CreateInvocation, Claim, ClaimManually, Look, Block, Skip,
                  RecordFailure, Complete, Release, Reserve, Check, FindSession, CreateSession,
                  FindMessage, EnqueueMessage, Finish, Rescue, Fail, Settle, Unresolved, Throw,
                  Crash, bounds
    <3>4. Recorded(p) => Recorded(p)'
      BY <2>0, <3>2, RecordsStay
    <3>5. pc[p] = "complete" => Recorded(p)' \/ faults >= 2
      BY <3>1, <3>4 DEF RecordInv
    <3>6. pc[p] = "catch" => Recorded(p)' \/ faults >= 1
      BY <3>1, <3>4 DEF RecordInv
    <3> QED
      BY <1>f, <3>2, <3>3, <3>5, <3>6
  <2>3. ASSUME Acts(p), pc'[p] \in {"complete", "catch"}
        PROVE  /\ pc'[p] = "complete" => Recorded(p)' \/ faults' >= 2
               /\ pc'[p] = "catch" => Recorded(p)' \/ faults' >= 1
    <3>1. ~Idle(p) /\ ~Goto(p, "look") /\ ~Goto(p, "blocking") /\ ~Goto(p, "release")
      BY <1>0, <2>0, <2>3 DEF Idle, Goto, CallTyped
    <3>2. pc[p] # "idle"
      BY <2>0, <2>3, <3>1, IdleActs DEF Claim, ClaimManually
    <3>3. claim' = claim /\ UNCHANGED <<next, owner, held>>
      BY <2>0, <2>3, <3>2, StaysClaimed
    <3>4. owner = p
      BY <1>2, <3>3
    <3>5. Recorded(p) => Recorded(p)'
      BY <2>0, <3>3, RecordsStay
    <3>6. Refused(p) => Recorded(p)'
      BY <3>4, <3>5, RefusedIsRecorded
    <3>7. CASE Look(p)
      <4>1. Recorded(p)
        BY <1>0, <2>0, <2>3, <3>7 DEF Look, Goto, CallTyped, Recorded
      <4> QED
        BY <3>5, <4>1
    <3>8. CASE Skip(p) \/ RecordFailure(p) \/ Unresolved(p)
      <4>1. Refused(p) \/ \E i \in Invs : Insert(p, i, "skipped") \/ Insert(p, i, "failed")
        BY <3>8 DEF Skip, RecordFailure, Unresolved
      <4> QED
        BY <3>3, <3>6, <4>1, InsertRecords
    <3>9. CASE Finish(p) \/ Fail(p)
      <4>1. pc[p] \in Working /\ mine[p] \in Made
        BY <2>0, <3>9, SettledIsMade DEF Finish, Fail, At, Working, Trying
      <4>2. Recorded(p)
        BY <2>0, <4>1 DEF CallInv, Recorded, Trigger
      <4> QED
        BY <3>5, <4>2
    <3>10. CASE Throw(p)
      <4>1. faults' = faults + 1 /\ faults >= 0
        BY <1>0, <3>10, BoundsAssumption DEF Throw, RowTyped
      <4>2. CASE pc'[p] = "catch"
        BY <1>f, <4>1, <4>2
      <4>3. CASE pc'[p] = "complete"
        <5>1. pc[p] = "catch"
          BY <1>0, <2>0, <3>1, <3>10, <4>3 DEF Throw, Thrown, Goto, CallTyped, At
        <5>2. Recorded(p)' \/ faults >= 1
          BY <3>4, <3>5, <5>1 DEF RecordInv
        <5> QED
          BY <1>f, <4>1, <4>3, <5>2
      <4> QED
        BY <2>3, <4>2, <4>3
    <3>11. CASE Reserve(p)
      <4>1. Refused(p)
        BY <1>0, <2>0, <2>3, <3>11 DEF Reserve, Goto, CallTyped
      <4> QED
        BY <3>6, <4>1, <2>0, <1>0, <2>3, <3>11 DEF Reserve, Thrown, Goto, CallTyped
    <3> QED
      <4>1. ~Claim(p) /\ ~ClaimManually(p) /\ ~Complete(p) /\ ~Release(p) /\ ~Crash(p)
        BY <3>1, <3>2 DEF Claim, ClaimManually, MayBegin, At, Complete, Release, Crash
      <4>2. ~(\/ Block(p) \/ Check(p) \/ FindSession(p) \/ CreateSession(p) \/ FindMessage(p)
              \/ EnqueueMessage(p) \/ Rescue(p))
        BY <1>0, <2>0, <2>3, CallersAssumption
          DEF Block, Check, FindSession, CreateSession, FindMessage, EnqueueMessage, Rescue,
              Goto, CallTyped
      <4> QED
        BY <2>3, <3>7, <3>8, <3>9, <3>10, <3>11, <4>1, <4>2 DEF Acts, Proceed, CreateInvocation
  <2> QED
    BY <2>1, <2>2, <2>3, StepIsCases
<1> QED
  BY <1>1, <1>2 DEF RecordInv, Recorded, Made

LEMMA InsertsRow ==
    ASSUME TypeOK, NEW p \in Callers, NEW i \in Invs
    PROVE  \A status \in {"creating", "skipped", "failed"} :
              Insert(p, i, status) =>
                 /\ i \notin Made /\ i \in Made' /\ Made' = Made \cup {i}
                 /\ inv'[i].trigger = Trigger(p) /\ inv'[i].status = status
                 /\ inv'[i].at = claim[p].at
<1> SUFFICES ASSUME NEW status \in {"creating", "skipped", "failed"}, Insert(p, i, status)
             PROVE  /\ i \notin Made /\ i \in Made' /\ Made' = Made \cup {i}
                    /\ inv'[i].trigger = Trigger(p) /\ inv'[i].status = status
                    /\ inv'[i].at = claim[p].at
  OBVIOUS
<1>1. status \in {"creating", "created", "skipped", "failed"}
  OBVIOUS
<1>2. i \notin Made
  BY <1>1, InsertMakes
<1>3. Made' = Made \cup {i}
  BY <1>1, InsertMakes
<1>4. inv'[i] = [trigger |-> Trigger(p), status |-> status, at |-> claim[p].at]
  BY DEF TypeOK, Insert
<1> QED
  BY <1>2, <1>3, <1>4

-----------------------------------------------------------------------------
(***************************************************************************)
(* While no caller outlives its claim, every way to the end of a scheduled *)
(* claim leaves an invocation that came to its end, unless two things went *)
(* wrong.                                                                  *)
(***************************************************************************)
LEMMA CountersGrow ==
    ASSUME TypeOK, [Next]_vars
    PROVE  /\ faults \in Nat /\ edits \in Nat
           /\ faults' = faults \/ faults' = faults + 1
           /\ edits' = edits \/ edits' = edits + 1
           /\ overran => overran'
<1>0. faults \in Nat /\ edits \in Nat
  BY BoundsAssumption DEF TypeOK
<1>1. CASE Outside
  <2>1. faults' = faults /\ (edits' = edits \/ edits' = edits + 1)
    BY <1>1 DEF Outside, ChangeEnabled, ChangeCron, Archive, Unarchive, Edit, SessionEnds, Tick,
                vars, bounds
  <2>2. overran => overran'
    BY <1>1, Zenon DEF Outside, ChangeEnabled, ChangeCron, Archive, Unarchive, Edit, SessionEnds,
                       Tick, vars, bounds
  <2> QED
    BY <1>0, <2>1, <2>2
<1>2. ASSUME NEW p \in Callers, Acts(p) PROVE faults' \in {faults, faults + 1} /\ edits' = edits
  BY <1>2 DEF Acts, Proceed, CreateInvocation, Claim, ClaimManually, Look, Block, Skip,
              RecordFailure, Complete, Release, Reserve, Check, FindSession, CreateSession,
              FindMessage, EnqueueMessage, Finish, Rescue, Fail, Settle, Unresolved, Throw,
              Crash, bounds
<1>3. ASSUME NEW p \in Callers, Acts(p) PROVE overran' = overran
  BY <1>3, ActsRow
<1> QED
  BY <1>0, <1>1, <1>2, <1>3, StepIsCases

LEMMA TroubleStays ==
    ASSUME TypeOK, [Next]_vars
    PROVE  /\ faults > 0 => faults' > 0
           /\ edits > 0 => edits' > 0
           /\ TwoWentWrong => TwoWentWrong'
  BY CountersGrow DEF TwoWentWrong

\* A step between two different steps of a caller is an action of that caller.
LEMMA MovesAct ==
    ASSUME TypeOK, [Next]_vars, NEW p \in Callers, pc'[p] # pc[p]
    PROVE  Acts(p)
  BY StepIsCases, OutsideKeepsCalls, OneMoves

LEMMA PathInvStep ==
    ASSUME TypeOK, RoleInv, CallInv, SoleInv, PathInv, [Next]_vars PROVE PathInv'
<1> SUFFICES ASSUME ~overran', NEW p \in Callers
             PROVE  /\ pc'[p] = "session" => session'[mine'[p]] = "none"
                    /\ pc'[p] = "message" => session'[mine'[p]] # "none"
                    /\ pc'[p] = "enqueue" => session'[mine'[p]] = "empty"
  BY DEF PathInv
<1> SUFFICES ASSUME pc'[p] \in {"session", "message", "enqueue"}
             PROVE  /\ pc'[p] = "session" => session'[mine'[p]] = "none"
                    /\ pc'[p] = "message" => session'[mine'[p]] # "none"
                    /\ pc'[p] = "enqueue" => session'[mine'[p]] = "empty"
  OBVIOUS
<1>0. ~overran /\ CallTyped /\ WorkTyped
  BY CountersGrow, TypeParts
<1>1. pc'[p] \in Working /\ pc'[p] # "check"
  BY DEF Working, Trying
<1>2. pc[p] \in Working /\ mine'[p] = mine[p]
  BY <1>1, CallMoves
<1>3. PICK i \in Invs : i = mine[p] /\ i \in Made
  BY <1>0, <1>2 DEF CallTyped, Made
<1>4. session[i] \in {"none", "empty", "busy", "over"}
  BY <1>0, <1>3 DEF WorkTyped
<1>5. CASE pc'[p] = pc[p]
  <2>1. /\ pc[p] = "session" => session[i] = "none"
        /\ pc[p] = "message" => session[i] # "none"
        /\ pc[p] = "enqueue" => session[i] = "empty"
    BY <1>0, <1>3 DEF PathInv
  <2>2. ASSUME NEW q \in Callers, mine[q] = i, CreateSession(q) \/ EnqueueMessage(q) PROVE FALSE
    <3>1. pc[q] \in Working
      BY <2>2 DEF CreateSession, EnqueueMessage, At, Working, Trying
    <3>2. q = p
      BY <1>0, <1>2, <1>3, <2>2, <3>1, SoleCaller
    <3>3. pc'[p] # pc[p]
      BY <1>0, <2>2, <3>2 DEF CreateSession, EnqueueMessage, At, Goto, CallTyped
    <3> QED
      BY <1>5, <3>3
  <2>3. session'[i] = session[i] \/ SessionEnds(i)
    BY <2>2, SessionChanges
  <2>4. SessionEnds(i) => session[i] = "busy" /\ session'[i] = "over"
    BY <1>0 DEF SessionEnds, WorkTyped
  <2> QED
    BY <1>2, <1>3, <1>5, <2>1, <2>3, <2>4
<1>6. CASE pc'[p] # pc[p]
  <2>1. Acts(p)
    BY <1>6, MovesAct
  <2>2. FindSession(p) \/ CreateSession(p) \/ FindMessage(p)
    <3>1. ~Idle(p)
      BY <1>0 DEF Idle, Goto, CallTyped
    <3> QED
      BY <1>0, <2>1, <3>1
        DEF Acts, Proceed, CreateInvocation, Claim, ClaimManually, Look, Block, Skip,
            RecordFailure, Complete, Release, Reserve, Check, EnqueueMessage, Finish, Rescue,
            Fail, Settle, Unresolved, Throw, Crash, Leave, Thrown, Goto, CallTyped
  <2>3. CASE FindSession(p)
    BY <1>0, <1>2, <1>3, <2>3 DEF FindSession, Goto, CallTyped, work
  <2>4. CASE CreateSession(p)
    BY <1>0, <1>2, <1>3, <2>4 DEF CreateSession, Goto, CallTyped, WorkTyped
  <2>5. CASE FindMessage(p)
    <3>1. session[i] # "none" /\ session' = session
      BY <1>0, <1>3, <2>5 DEF FindMessage, PathInv, At, work
    <3>2. pc'[p] = "enqueue" /\ ~HasMessage(i)
      BY <1>0, <1>3, <2>5 DEF FindMessage, Goto, CallTyped
    <3> QED
      BY <1>2, <1>3, <1>4, <3>1, <3>2 DEF HasMessage
  <2> QED
    BY <2>2, <2>3, <2>4, <2>5
<1> QED
  BY <1>5, <1>6

LEMMA RescueInvStep ==
    ASSUME TypeOK, RoleInv, PathInv, RescueInv, [Next]_vars PROVE RescueInv'
<1>0. CallTyped /\ Schedulers \subseteq Callers /\ Schedulers \cap Manual = {}
  BY TypeParts, CallersAssumption DEF Callers
<1>1. ASSUME NEW p \in Schedulers, pc'[p] # "idle" PROVE (enabled' /\ ~archived') \/ edits' > 0
  <2>1. CASE pc[p] # "idle"
    <3>1. (enabled /\ ~archived) \/ edits > 0
      BY <2>1 DEF RescueInv
    <3>2. UNCHANGED <<enabled, archived>> \/ edits' = edits + 1
      <4>1. CASE Outside
        BY <4>1 DEF Outside, ChangeEnabled, ChangeCron, Archive, Unarchive, Edit, SessionEnds, Tick,
                    vars, row
      <4> QED
        BY <4>1, StepIsCases, ActsRow
    <3> QED
      BY <3>1, <3>2, CountersGrow
  <2>2. CASE pc[p] = "idle"
    <3>1. Acts(p)
      BY <1>0, <1>1, <2>2, MovesAct
    <3>2. Claim(p)
      BY <1>0, <2>2, <3>1, IdleActs DEF ClaimManually
    <3> QED
      BY <3>2 DEF Claim
  <2> QED
    BY <2>1, <2>2
<1>2. ASSUME ~overran', NEW p \in Schedulers, pc'[p] \in {"rescue", "recover", "fail"}
      PROVE  faults' > 0 \/ edits' > 0
  <2>0. p \in Callers /\ ~overran
    BY <1>0, <1>2, CountersGrow
  <2>1. CASE pc[p] \in {"rescue", "recover", "fail"}
    BY <2>0, <2>1, TroubleStays DEF RescueInv
  <2>2. CASE pc[p] \notin {"rescue", "recover", "fail"}
    <3>1. Acts(p)
      BY <1>2, <2>0, <2>2, MovesAct
    <3>2. Check(p) \/ CreateSession(p) \/ EnqueueMessage(p) \/ Throw(p)
      <4>1. ~Idle(p)
        BY <1>0, <1>2, <2>0 DEF Idle, Goto, CallTyped
      <4>2. ~Rescue(p)
        BY <2>2 DEF Rescue, At
      <4> QED
        BY <1>0, <1>2, <2>0, <3>1, <4>1, <4>2
          DEF Acts, Proceed, CreateInvocation, Claim, ClaimManually, Look, Block, Skip,
              RecordFailure, Complete, Release, Reserve, FindSession, FindMessage, Finish,
              Fail, Settle, Unresolved, Crash, Leave, Thrown, Goto, CallTyped
    <3>3. CASE Check(p)
      <4>1. ~(enabled /\ ~archived) /\ pc[p] # "idle"
        BY <1>0, <1>2, <2>0, <3>3 DEF Check, Goto, CallTyped, At
      <4> QED
        BY <4>1, TroubleStays DEF RescueInv
    <3>4. CASE CreateSession(p) \/ EnqueueMessage(p)
      BY <1>0, <1>2, <2>0, <3>4 DEF CreateSession, EnqueueMessage, PathInv, Goto, CallTyped, At
    <3>5. CASE Throw(p)
      BY <3>5, CountersGrow DEF Throw
    <3> QED
      BY <3>2, <3>3, <3>4, <3>5
  <2> QED
    BY <2>1, <2>2
<1> QED
  BY <1>1, <1>2 DEF RescueInv

\* A new row is for the time that its caller claimed, and that caller has moved on.
LEMMA NewRowOf ==
    ASSUME TypeOK, [Next]_vars, NEW i \in Made', i \notin Made
    PROVE  \E p \in Callers :
              /\ Acts(p) /\ inv'[i].trigger = Trigger(p) /\ inv'[i].at = claim[p].at /\ claim' = claim
              /\ pc[p] # "idle"
              /\ \/ pc'[p] \in {"complete", "release"} /\ inv'[i].status # "creating"
                 \/ pc'[p] = "check" /\ mine'[p] = i
<1>0. CallTyped /\ inv' # inv
  BY TypeParts DEF Made
<1>1. PICK p \in Callers : Acts(p) /\ (Finish(p) \/ Fail(p) \/ Inserts(p))
  BY <1>0, StepIsCases, OutsideKeepsCalls, RowChanges
<1>2. Inserts(p)
  <2>1. ASSUME Finish(p) \/ Fail(p) PROVE FALSE
    <3>1. PICK s \in {"created", "failed"} : Settle(p, s)
      BY <2>1 DEF Finish, Fail
    <3>2. mine[p] \in Made
      BY <2>1, SettledIsMade
    <3> QED
      BY <3>1, <3>2, SettleKeeps
  <2> QED
    BY <1>1, <2>1
<1>3. PICK j \in Invs, s \in {"creating", "skipped", "failed"} :
         /\ Insert(p, j, s)
         /\ s = "skipped" => Skip(p)
         /\ s = "failed" => RecordFailure(p) \/ Unresolved(p)
         /\ s = "creating" => Reserve(p)
  BY <1>2 DEF Inserts
<1>4. /\ i = j /\ inv'[i].trigger = Trigger(p) /\ inv'[i].at = claim[p].at /\ inv'[i].status = s
  <2>1. /\ i \notin Made /\ i \in Made' /\ Made' = Made \cup {j} /\ inv'[j].trigger = Trigger(p)
        /\ inv'[j].status = s /\ inv'[j].at = claim[p].at
    <3>1. Insert(p, j, s)
      BY <1>3
    <3> QED
      BY <3>1, InsertsRow
  <2> QED
    BY <2>1
<1>5. claim' = claim /\ pc[p] # "idle"
  BY <1>3 DEF Skip, RecordFailure, Unresolved, Reserve, At
<1>6. CASE s = "creating"
  <2>1. ~Refused(p)
    BY <1>3, <1>4, <1>6 DEF Reserve, Insert, Made
  <2>2. PICK k \in Invs : Insert(p, k, "creating") /\ mine' = [mine EXCEPT ![p] = k] /\ Goto(p, "check")
    BY <1>3, <1>6, <2>1 DEF Reserve
  <2>3. Made' = Made \cup {k}
    BY <2>2, InsertMakes
  <2>4. pc'[p] = "check" /\ mine'[p] = k /\ k = i
    BY <1>0, <2>2, <2>3 DEF Goto, CallTyped
  <2> QED
    BY <1>1, <1>4, <1>5, <2>4
<1>7. CASE s # "creating"
  <2>1. ~UNCHANGED inv /\ (Skip(p) \/ RecordFailure(p) \/ Unresolved(p))
    BY <1>0, <1>3, <1>7
  <2>2. Leave(p) \/ Goto(p, "complete")
    BY <2>1 DEF Skip, RecordFailure, Unresolved
  <2>3. pc'[p] \in {"complete", "release"}
    BY <1>0, <2>2 DEF Leave, Goto, CallTyped
  <2> QED
    BY <1>1, <1>4, <1>5, <1>7, <2>3
<1> QED
  BY <1>6, <1>7

\* A scheduled row is new, if at all, for the only scheduler that is at work.
LEMMA NewScheduled ==
    ASSUME TypeOK, SoleInv, ~overran, [Next]_vars, NEW p \in Schedulers, pc[p] # "idle",
           NEW i \in Made', i \notin Made, inv'[i].trigger = "scheduled"
    PROVE  /\ Acts(p)
           /\ \/ pc'[p] = "release"
              \/ pc'[p] = "complete" /\ inv'[i].status # "creating"
              \/ pc'[p] = "check" /\ mine'[p] = i
<1>1. PICK q \in Callers :
              /\ Acts(q) /\ inv'[i].trigger = Trigger(q)
              /\ pc[q] # "idle"
              /\ \/ pc'[q] \in {"complete", "release"} /\ inv'[i].status # "creating"
                 \/ pc'[q] = "check" /\ mine'[q] = i
  BY NewRowOf
<1>2. q \in Schedulers
  BY <1>1 DEF Trigger
<1>3. q = p
  BY <1>1, <1>2 DEF SoleInv
<1> QED
  BY <1>1, <1>3

LEMMA BegunInvStep ==
    ASSUME TypeOK, RoleInv, SoleInv, BegunInv, [Next]_vars PROVE BegunInv'
<1> SUFFICES ASSUME ~overran'
             PROVE  /\ \A p \in Schedulers :
                          pc'[p] \in {"blocking", "skip", "reserve"} => ~Recorded(p)'
                    /\ \A i \in Begun' : faults' > 0 \/ \E p \in Schedulers :
                                            pc'[p] \in Working /\ mine'[p] = i
  BY DEF BegunInv
<1>0. CallTyped /\ Schedulers \subseteq Callers /\ Schedulers \cap Manual = {} /\ ~overran
  BY TypeParts, CallersAssumption, CountersGrow DEF Callers
<1>1. ASSUME NEW p \in Schedulers, pc'[p] \in {"blocking", "skip", "reserve"}, Recorded(p)' PROVE FALSE
  <2>0. p \in Callers
    BY <1>0
  <2>1. PICK i \in Made' : inv'[i].trigger = "scheduled" /\ inv'[i].at = claim'[p].at
    BY <1>1 DEF Recorded
  <2>2. CASE pc[p] = "idle"
    <3>1. Claim(p)
      BY <1>0, <1>1, <2>0, <2>2, MovesAct, IdleActs DEF ClaimManually
    <3> QED
      BY <1>0, <1>1, <2>0, <3>1 DEF Claim, Goto, CallTyped
  <2>3. CASE pc[p] # "idle"
    <3>1. i \in Made
      BY <1>0, <1>1, <2>1, <2>3, NewScheduled
    <3>2. claim'[p] = claim[p]
      BY <1>1, <2>0, <2>3, StaysClaimed, OneMoves, StepIsCases, OutsideKeepsCalls
    <3>3. Recorded(p)
      BY <2>1, <3>1, <3>2, RowsStay DEF Recorded
    <3>4. pc[p] \notin {"blocking", "skip", "reserve"}
      BY <1>0, <3>3 DEF BegunInv
    <3>5. Acts(p)
      BY <1>1, <2>0, <3>4, MovesAct
    <3>6. Look(p)
      <4>1. ~Idle(p)
        BY <1>0, <1>1, <2>0 DEF Idle, Goto, CallTyped
      <4> QED
        BY <1>0, <1>1, <2>0, <3>4, <3>5, <4>1
          DEF Acts, Proceed, CreateInvocation, Claim, ClaimManually, Block, Skip, RecordFailure,
              Complete, Release, Reserve, Check, FindSession, CreateSession, FindMessage,
              EnqueueMessage, Finish, Rescue, Fail, Settle, Unresolved, Throw, Crash, Leave,
              Thrown, Goto, CallTyped, At
    <3>7. i \in {j \in Made : inv[j].trigger = "scheduled" /\ inv[j].at = claim[p].at}
      BY <2>1, <3>1, <3>2, RowsStay
    <3>8. Goto(p, "check") \/ Goto(p, "complete")
      BY <3>6, <3>7 DEF Look
    <3> QED
      BY <1>0, <1>1, <2>0, <3>8 DEF Goto, CallTyped
  <2> QED
    BY <2>2, <2>3
<1>2. ASSUME NEW i \in Begun', faults' = 0
      PROVE  \E p \in Schedulers : pc'[p] \in Working /\ mine'[p] = i
  <2>0. faults = 0 /\ i \in Made' /\ inv'[i].trigger = "scheduled" /\ inv'[i].status = "creating"
    BY <1>2, CountersGrow DEF Begun
  <2>1. CASE i \in Made
    <3>1. i \in Begun
      <4>1. inv[i].trigger = "scheduled"
        BY <2>0, <2>1, RowsStay
      <4>2. inv[i].status = "creating"
        BY <2>0, <2>1, StatusChanges
      <4> QED
        BY <2>1, <4>1, <4>2 DEF Begun
    <3>2. PICK p \in Schedulers : pc[p] \in Working /\ mine[p] = i
      BY <1>0, <2>0, <3>1 DEF BegunInv
    <3>3. p \in Callers
      BY <1>0
    <3>4. CASE Acts(p)
      <4>1. ~Throw(p) /\ ~Crash(p) /\ ~Unresolved(p)
        BY <1>2, <2>0 DEF Throw, Crash, Unresolved
      <4>2. ~Finish(p) /\ ~Fail(p)
        <5>1. ASSUME NEW s \in {"created", "failed"}, Settle(p, s) PROVE FALSE
          BY <2>0, <2>1, <3>2, <3>3, <5>1, SettleKeeps
        <5> QED
          BY <5>1 DEF Finish, Fail
      <4>3. Check(p) \/ FindSession(p) \/ CreateSession(p) \/ FindMessage(p) \/ EnqueueMessage(p) \/ Rescue(p)
        BY <3>2, <3>4, <4>1, <4>2
          DEF Acts, Proceed, CreateInvocation, Claim, ClaimManually, MayBegin, Look, Block, Skip,
              RecordFailure, Complete, Release, Reserve, At, Working, Trying
      <4>4. mine' = mine /\ pc'[p] \in Working
        BY <1>0, <3>3, <4>3
          DEF Check, FindSession, CreateSession, FindMessage, EnqueueMessage, Rescue, Goto,
              CallTyped, Working, Trying
      <4> QED
        BY <3>2, <4>4
    <3>5. CASE ~Acts(p)
      <4>1. pc'[p] = pc[p] /\ mine'[p] = mine[p]
        BY <3>3, <3>5, StepIsCases, OutsideKeepsCalls, OneMoves
      <4> QED
        BY <3>2, <4>1
    <3> QED
      BY <3>4, <3>5
  <2>2. CASE i \notin Made
    <3>1. PICK p \in Callers : inv'[i].trigger = Trigger(p) /\ pc'[p] = "check" /\ mine'[p] = i
      BY <2>0, <2>2, NewRowOf
    <3>2. p \in Schedulers /\ pc'[p] \in Working
      BY <2>0, <3>1 DEF Trigger, Working, Trying
    <3> QED
      BY <3>1, <3>2
  <2> QED
    BY <2>1, <2>2
<1> QED
  BY <1>1, <1>2, CountersGrow

\* What has ended stays so.
LEMMA EndedStays ==
    ASSUME TypeOK, [Next]_vars, NEW p \in Callers, claim'[p] = claim[p], Ended(p)
    PROVE  Ended(p)'
<1>1. PICK i \in Made : /\ inv[i].trigger = "scheduled" /\ inv[i].at = claim[p].at
                        /\ inv[i].status # "creating"
  BY DEF Ended
<1>2. i \in Made' /\ inv'[i].trigger = "scheduled" /\ inv'[i].at = claim'[p].at
  BY <1>1, RowsStay
<1>3. inv'[i].status # "creating"
  BY <1>1, StatusChanges
<1> QED
  BY <1>2, <1>3 DEF Ended

LEMMA EndInvStep ==
    ASSUME TypeOK, RoleInv, CallInv, SoleInv, RecordInv, RescueInv, BegunInv, EndInv, [Next]_vars
    PROVE  EndInv'
<1> SUFFICES ASSUME ~overran', NEW p \in Schedulers, owner' = p, pc'[p] \in {"catch", "complete"}
             PROVE  /\ pc'[p] = "catch" => /\ faults' > 0
                                           /\ Recorded(p)' => Ended(p)' \/ TwoWentWrong'
                    /\ pc'[p] = "complete" => Ended(p)' \/ TwoWentWrong'
  BY DEF EndInv
<1>0. /\ CallTyped /\ p \in Callers /\ Schedulers \cap Manual = {} /\ ~overran
      /\ Nobody \notin Callers
  BY TypeParts, CallersAssumption, CountersGrow DEF Callers
<1>1. pc[p] # "idle"
  <2>1. ASSUME pc[p] = "idle" PROVE FALSE
    <3>1. Claim(p)
      BY <1>0, <2>1, MovesAct, IdleActs DEF ClaimManually
    <3> QED
      BY <1>0, <3>1 DEF Claim, Goto, CallTyped
  <2> QED
    BY <2>1
<1>2. claim'[p] = claim[p] /\ owner = p
  <2>1. CASE Outside
    <3>1. owner = p
      BY <1>0, <2>1
        DEF Outside, ChangeEnabled, ChangeCron, Archive, Unarchive, Edit, SessionEnds, Tick, row, vars
    <3> QED
      BY <2>1, <3>1, OutsideKeepsCalls
  <2>2. CASE Acts(p)
    BY <1>0, <1>1, <2>2, StaysClaimed
  <2>3. ASSUME NEW q \in Callers, q # p, Acts(q) PROVE claim'[p] = claim[p] /\ owner = p
    BY <1>0, <2>3, ActsRow, OneMoves DEF Claim, ClaimManually, Complete, Release
  <2> QED
    BY <2>1, <2>2, <2>3, StepIsCases
<1>3. Ended(p) => Ended(p)'
  BY <1>0, <1>2, EndedStays
<1>4. CASE ~Acts(p)
  <2>1. pc'[p] = pc[p]
    BY <1>0, <1>4, MovesAct
  <2>2. Recorded(p)' => Recorded(p)
    <3>1. ASSUME NEW i \in Made', inv'[i].trigger = "scheduled", inv'[i].at = claim'[p].at PROVE Recorded(p)
      <4>1. i \in Made
        BY <1>0, <1>1, <1>4, <3>1, NewScheduled
      <4> QED
        BY <1>2, <3>1, <4>1, RowsStay DEF Recorded
    <3> QED
      BY <3>1 DEF Recorded
  <2> QED
    BY <1>0, <1>2, <1>3, <2>1, <2>2, TroubleStays DEF EndInv
<1>5. CASE Acts(p) /\ pc'[p] = "catch"
  <2>1. pc[p] # "catch" /\ ~Idle(p)
    <3>1. ~Idle(p)
      BY <1>0, <1>5 DEF Idle, Goto, CallTyped
    <3> QED
      BY <1>0, <1>5, <3>1
        DEF Acts, Proceed, CreateInvocation, Claim, ClaimManually, MayBegin, Look, Block, Skip,
            RecordFailure, Complete, Release, Reserve, Check, FindSession, CreateSession, FindMessage,
            EnqueueMessage, Finish, Rescue, Fail, Unresolved, Throw, Crash, At, Goto, CallTyped, Trying
  <2>2. Throw(p)
    <3>1. ASSUME Refused(p), pc[p] \in {"skip", "reserve"} PROVE FALSE
      <4>1. Recorded(p)
        BY <1>2, <3>1, RefusedIsRecorded
      <4> QED
        BY <1>0, <3>1, <4>1 DEF BegunInv
    <3> QED
      BY <1>0, <1>5, <2>1, <3>1
        DEF Acts, Proceed, CreateInvocation, Claim, ClaimManually, Look, Block, Skip, RecordFailure,
            Complete, Release, Reserve, Check, FindSession, CreateSession, FindMessage,
            EnqueueMessage, Finish, Rescue, Fail, Settle, Unresolved, Crash, Leave, Goto,
            CallTyped, At
  <2>3. faults' = faults + 1 /\ inv' = inv /\ faults \in Nat /\ edits \in Nat /\ edits' = edits
    BY <2>2, CountersGrow DEF Throw, work
  <2>4. pc[p] \notin Trying \cup {"complete", "release", "catch", "idle"}
    BY <1>0, <1>5, <2>1, <2>2 DEF Throw, Goto, CallTyped, At
  <2>5. pc[p] \in {"look", "blocking", "skip", "reserve", "rescue", "recover", "fail"}
    <3>1. pc[p] \in Steps
      BY <1>0 DEF CallTyped
    <3> QED
      BY <2>4, <3>1 DEF Steps
  <2>6. CASE pc[p] \in {"blocking", "skip", "reserve"}
    <3>1. ~Recorded(p)
      BY <1>0, <2>6 DEF BegunInv
    <3>2. ~Recorded(p)'
      BY <1>2, <2>3, <3>1 DEF Recorded, Made
    <3> QED
      BY <1>5, <2>3, <3>2
  <2>7. CASE pc[p] \in {"rescue", "recover", "fail"}
    <3>1. faults > 0 \/ edits > 0
      BY <1>0, <2>7 DEF RescueInv
    <3> QED
      BY <1>5, <2>3, <3>1 DEF TwoWentWrong
  <2>8. CASE pc[p] = "look"
    <3>1. ASSUME Recorded(p), ~Ended(p) PROVE faults > 0
      <4>1. PICK i \in Made : inv[i].trigger = "scheduled" /\ inv[i].at = claim[p].at
        BY <3>1 DEF Recorded
      <4>2. i \in Begun
        BY <3>1, <4>1 DEF Ended, Begun
      <4>3. ASSUME NEW q \in Schedulers, pc[q] \in Working PROVE FALSE
        <5>1. "idle" \notin Working /\ "look" \notin Working
          BY DEF Working, Trying
        <5>2. q = p
          BY <1>0, <1>1, <4>3, <5>1 DEF SoleInv
        <5> QED
          BY <2>8, <4>3, <5>1, <5>2
      <4> QED
        BY <1>0, <4>2, <4>3 DEF BegunInv
    <3>2. Recorded(p)' => Recorded(p)
      BY <1>2, <2>3 DEF Recorded, Made
    <3> QED
      BY <1>3, <1>5, <2>3, <3>1, <3>2 DEF TwoWentWrong
  <2> QED
    BY <2>5, <2>6, <2>7, <2>8
<1>6. CASE Acts(p) /\ pc'[p] = "complete"
  <2>1. ~Idle(p)
    BY <1>0, <1>6 DEF Idle, Goto, CallTyped
  <2>2. Look(p) \/ Skip(p) \/ RecordFailure(p) \/ Unresolved(p) \/ Finish(p) \/ Fail(p) \/ Throw(p)
    BY <1>0, <1>6, <2>1
      DEF Acts, Proceed, CreateInvocation, Claim, ClaimManually, Block, Complete, Release, Reserve,
          Check, FindSession, CreateSession, FindMessage, EnqueueMessage, Rescue, Crash, Thrown,
          Goto, CallTyped
  <2>3. CASE Look(p)
    <3>1. Ended(p)
      BY <1>0, <1>6, <2>3 DEF Look, Goto, CallTyped, Ended
    <3> QED
      BY <1>3, <1>6, <3>1
  <2>4. CASE \E i \in Invs : Insert(p, i, "skipped") \/ Insert(p, i, "failed")
    <3>1. PICK i \in Invs : Insert(p, i, "skipped") \/ Insert(p, i, "failed")
      BY <2>4
    <3>2. /\ i \in Made' /\ inv'[i].trigger = Trigger(p) /\ inv'[i].at = claim[p].at
          /\ inv'[i].status \in {"skipped", "failed"}
      <4>1. CASE Insert(p, i, "skipped")
        BY <1>0, <4>1, InsertsRow
      <4>2. CASE Insert(p, i, "failed")
        BY <1>0, <4>2, InsertsRow
      <4> QED
        BY <3>1, <4>1, <4>2
    <3>5. inv'[i].trigger = "scheduled" /\ inv'[i].status # "creating"
      BY <1>0, <3>2 DEF Trigger
    <3>3. Ended(p)'
      BY <1>2, <3>2, <3>5 DEF Ended
    <3> QED
      BY <1>6, <3>3
  <2>5. CASE (Skip(p) \/ Unresolved(p)) /\ Refused(p)
    BY <1>0, <1>6, <2>5 DEF Skip, Unresolved, Thrown, Goto, CallTyped
  <2>6. CASE RecordFailure(p) /\ Refused(p)
    <3>1. Recorded(p) /\ pc[p] = "catch"
      BY <1>2, <2>6, RefusedIsRecorded DEF RecordFailure, At
    <3> QED
      BY <1>0, <1>2, <1>3, <1>6, <3>1, TroubleStays DEF EndInv
  <2>7. CASE Finish(p) \/ Fail(p)
    <3>1. PICK s \in {"created", "failed"} : Settle(p, s)
      BY <2>7 DEF Finish, Fail
    <3>2. pc[p] \in Working /\ mine[p] \in Made
      BY <1>0, <2>7, SettledIsMade DEF Finish, Fail, At, Working, Trying
    <3>3. inv[mine[p]].trigger = "scheduled" /\ inv[mine[p]].at = claim[p].at
      BY <1>0, <3>2 DEF CallInv, Trigger
    <3>4. /\ mine[p] \in Made' /\ inv'[mine[p]].trigger = "scheduled"
          /\ inv'[mine[p]].at = claim'[p].at /\ inv'[mine[p]].status # "creating"
      BY <1>0, <1>2, <3>1, <3>2, <3>3, SettleKeeps
    <3> QED
      BY <1>6, <3>4 DEF Ended
  <2>8. CASE Throw(p)
    <3>1. pc[p] = "catch"
      BY <1>0, <1>6, <2>1, <2>8 DEF Throw, Thrown, Goto, CallTyped, At
    <3>2. faults > 0 /\ faults' = faults + 1
      BY <1>0, <1>2, <2>8, <3>1 DEF EndInv, Throw
    <3> QED
      BY <1>6, <3>2, CountersGrow DEF TwoWentWrong
  <2> QED
    BY <2>2, <2>3, <2>4, <2>5, <2>6, <2>7, <2>8 DEF Skip, RecordFailure, Unresolved
<1> QED
  BY <1>4, <1>5, <1>6

LEMMA AutomationInvInit == Init => AutomationInv
<1> SUFFICES ASSUME Init PROVE AutomationInv
  OBVIOUS
<1>1. TypeOK
  BY TypeInit
<1>2. Made = {}
  BY DEF Made, Init
<1> QED
  BY <1>1, <1>2
    DEF AutomationInv, RoleInv, RowInv, CallInv, SoleInv, RecordInv, PathInv, RescueInv, BegunInv,
        Begun, EndInv, Init, Working, Trying, Callers

LEMMA AutomationInvStep == AutomationInv /\ [Next]_vars => AutomationInv'
  BY TypeStep, RoleInvStep, RowInvStep, CallInvStep, SoleInvStep, RecordInvStep, PathInvStep,
     RescueInvStep, BegunInvStep, EndInvStep
     DEF AutomationInv

LEMMA AutomationInvariant == Spec => []AutomationInv
  BY AutomationInvInit, AutomationInvStep, PTL DEF Spec

(***************************************************************************)
(* A created invocation has its message, a skipped one has no session, and *)
(* a failed one has no message unless a caller outlived its claim.         *)
(***************************************************************************)
THEOREM AutomationsTellTheWork == Spec => []StatusTellsTheWork
<1>1. AutomationInv => StatusTellsTheWork
  BY DEF AutomationInv, RowInv, SoleInv, StatusTellsTheWork
<1> QED
  BY <1>1, AutomationInvariant, PTL

(***************************************************************************)
(* When the schedule moves on, the time it was claimed for has an          *)
(* invocation, whatever single query fails or process dies, and that       *)
(* invocation came to its end unless two things went wrong.                *)
(***************************************************************************)
THEOREM NoClaimedTimeIsLost == Spec => ClaimedTimeIsSettled
<1>1. AutomationInv /\ [Next]_vars =>
        [\A p \in Schedulers :
           Complete(p) /\ next' # next /\ faults < 2 =>
              \E i \in Made : /\ inv[i].trigger = "scheduled" /\ inv[i].at = claim[p].at
                              /\ inv[i].status # "creating" \/ TwoWentWrong]_vars
  <2> SUFFICES ASSUME AutomationInv, NEW p \in Schedulers, Complete(p), next' # next, faults < 2
               PROVE  \E i \in Made : /\ inv[i].trigger = "scheduled" /\ inv[i].at = claim[p].at
                                      /\ inv[i].status # "creating" \/ TwoWentWrong
    OBVIOUS
  <2>1. owner = p /\ pc[p] = "complete" /\ faults \in Int
    BY BoundsAssumption DEF Complete, At, AutomationInv, TypeOK
  <2>2. Recorded(p)
    BY <2>1 DEF AutomationInv, RecordInv
  <2>3. Ended(p) \/ TwoWentWrong
    BY <2>1 DEF AutomationInv, EndInv, TwoWentWrong
  <2> QED
    BY <2>2, <2>3 DEF Recorded, Ended
<1> QED
  BY <1>1, AutomationInvariant, PTL DEF Spec, ClaimedTimeIsSettled

(***************************************************************************)
(* A settled invocation stays as it is: while no caller outlives its       *)
(* claim, whoever works on an invocation finds it creating, and only those *)
(* who work on one settle it or create its session and message.            *)
(***************************************************************************)
THEOREM SettledInvocationsStay == Spec => SettledForGood
<1>1. AutomationInv /\ [Next]_vars =>
        [\A i \in Made : inv[i].status # "creating" =>
            \/ overran
            \/ /\ inv'[i] = inv[i]
               /\ session'[i] # session[i] => session[i] = "busy"]_vars
  <2> SUFFICES ASSUME AutomationInv, [Next]_vars, NEW i \in Made,
                      inv[i].status # "creating", ~overran
               PROVE  /\ inv'[i] = inv[i]
                      /\ session'[i] # session[i] => session[i] = "busy"
    OBVIOUS
  <2>0. TypeOK /\ SoleInv /\ i \in Invs
    BY DEF AutomationInv, Made
  <2>1. ASSUME NEW p \in Callers, pc[p] \in Working PROVE mine[p] # i
    BY <2>0, <2>1 DEF SoleInv
  <2>2. inv'[i].status = inv[i].status
    <3>1. ASSUME NEW p \in Callers, Finish(p) \/ Fail(p) PROVE mine[p] # i
      BY <2>1, <3>1 DEF Finish, Fail, At, Working, Trying
    <3> QED
      BY <2>0, <3>1, StatusChanges
  <2>3. inv'[i] = inv[i]
    <3>1. /\ inv'[i].trigger = inv[i].trigger /\ inv'[i].at = inv[i].at
          /\ inv[i] \in InvRow /\ inv'[i] \in InvRow
      BY <2>0, RowsStay, TypeStep DEF TypeOK, InvRow
    <3> QED
      BY <2>2, <3>1 DEF InvRow
  <2>4. ASSUME session'[i] # session[i] PROVE session[i] = "busy"
    <3>1. ASSUME NEW p \in Callers, CreateSession(p) \/ EnqueueMessage(p) PROVE mine[p] # i
      BY <2>1, <3>1 DEF CreateSession, EnqueueMessage, At, Working, Trying
    <3>2. SessionEnds(i)
      BY <2>0, <2>4, <3>1, SessionChanges
    <3> QED
      BY <3>2 DEF SessionEnds
  <2> QED
    BY <2>3, <2>4
<1> QED
  BY <1>1, AutomationInvariant, PTL DEF Spec, SettledForGood
=============================================================================
