------------------------------ MODULE Automations ------------------------------
(***************************************************************************)
(* One scheduled automation: its schedule, the lock its invocations are    *)
(* made under, and the invocation rows that lead a due time to a session   *)
(* with a message.  The scheduler of every worker process claims a due     *)
(* automation, decides about that time and moves the schedule on; users    *)
(* invoke the automation by hand and edit, archive and restore it.         *)
(*                                                                         *)
(* Time passes in minutes.  The claim lasts one minute and is not renewed. *)
(* A cron expression is the number of minutes between two of its times.    *)
(* The session and the message of an invocation have ids reserved in its   *)
(* row, so that they are named by the invocation here.  A query is one     *)
(* step; it may fail, and a process may die between two of them.  Names,   *)
(* prompts, profiles, environments and metadata are left out.              *)
(***************************************************************************)
EXTENDS Integers, FiniteSets

CONSTANTS
    Schedulers,     \* worker processes, each with its scheduler loop
    Manual,         \* requests to invoke the automation now
    Crons,          \* schedules: minutes between two invocations
    FirstCron,      \* the one the automation is created with
    MaxTime,        \* bound: minutes
    MaxInputs,      \* bound: manual invocations and edits
    MaxFaults,      \* bound: failed queries and crashes
    MaxAtWork,      \* bound: callers at work at the same time
    Nobody

ASSUME CronsAssumption == Crons \subseteq Nat \ {0} /\ FirstCron \in Crons
ASSUME CallersAssumption == Schedulers \cap Manual = {} /\ Nobody \notin Schedulers \cup Manual
ASSUME BoundsAssumption ==
    /\ MaxTime \in Nat /\ MaxInputs \in Nat /\ MaxFaults \in Nat
    /\ MaxAtWork \in Nat

Callers == Schedulers \cup Manual

\* Invocation ids, in the order the rows are made: a due time gets one row.
Invs == 1..(MaxTime + MaxInputs)
NoInv == 0

VARIABLES
    clock,
    \* the row of the automation
    enabled, archived, cron,
    next,       \* next_invocation_at
    owner,      \* scheduler_lock_owner
    held,       \* scheduler_locked_until lies ahead
    \* the other tables
    inv,        \* automation_invocations
    session,    \* the session of an invocation: none, empty, busy or over
    \* the callers
    pc,
    claim,      \* what a caller keeps of the row it claimed, and of its input
    mine,       \* the invocation a caller works on
    \* bounds, and whether some caller outlived its claim
    calls, edits, faults, overran

row == <<enabled, archived, cron, next, owner, held>>
work == <<inv, session>>
calling == <<pc, claim, mine>>
bounds == <<calls, edits, faults, overran>>
vars == <<clock, enabled, archived, cron, next, owner, held, inv, session,
          pc, claim, mine, calls, edits, faults, overran>>

At(p, step) == pc[p] = step
Goto(p, step) == pc' = [pc EXCEPT ![p] = step]

\* nextUtcCronInvocation: the first time of the schedule after t.
Following(c, t) == (t \div c + 1) * c

MayBegin(p) == At(p, "idle") /\ Cardinality({q \in Callers : ~At(q, "idle")}) < MaxAtWork

NoClaim == [cron |-> FirstCron, at |-> 0, now |-> 0, allowDisabled |-> FALSE]
NotMade == [trigger |-> "none", status |-> "none", at |-> 0]

Trigger(p) == IF p \in Schedulers THEN "scheduled" ELSE "manual"
Made == {i \in Invs : inv[i] # NotMade}
HasMessage(i) == session[i] \in {"busy", "over"}

\* createAutomationInvocation refuses an archived automation; the index on
\* (automation_id, scheduled_at) refuses a second row of a due time.
Refused(p) ==
    \/ archived
    \/ p \in Schedulers /\ \E i \in Made : inv[i].trigger = "scheduled" /\ inv[i].at = claim[p].at

Insert(p, i, status) ==
    /\ i \notin Made /\ \A j \in 1..(i - 1) : j \in Made
    /\ inv' = [inv EXCEPT ![i] =
                  [trigger |-> Trigger(p), status |-> status, at |-> claim[p].at]]

\* Where the caller of createSessionInvocation goes on: the finally block.
Leave(p) == Goto(p, IF p \in Schedulers THEN "complete" ELSE "release")
\* ... and where an error it throws takes that caller.
Thrown(p) == Goto(p, IF p \in Schedulers THEN "catch" ELSE "release")

Idle(p) ==
    /\ Goto(p, "idle")
    /\ claim' = [claim EXCEPT ![p] = NoClaim]
    /\ mine' = [mine EXCEPT ![p] = NoInv]

-----------------------------------------------------------------------------
(***************************************************************************)
(* processNextScheduled                                                    *)
(***************************************************************************)
Claim(p) ==
    /\ MayBegin(p) /\ p \in Schedulers
    /\ enabled /\ ~archived /\ next <= clock /\ ~held
    /\ owner' = p /\ held' = TRUE
    /\ claim' = [claim EXCEPT ![p] = [NoClaim EXCEPT !.cron = cron, !.at = next, !.now = clock]]
    /\ Goto(p, "look")
    /\ UNCHANGED <<clock, enabled, archived, cron, next, work, mine, bounds>>

\* Mutant: any row of the time means that it has been dealt with.
Look_MutantDone(p) ==
    /\ At(p, "look")
    /\ Goto(p, IF \E i \in Made : inv[i].trigger = "scheduled" /\ inv[i].at = claim[p].at
               THEN "complete"
               ELSE IF claim[p].at < claim[p].now THEN "skip" ELSE "blocking")
    /\ UNCHANGED <<clock, row, work, claim, mine, bounds>>

\* getAutomationInvocationBySchedule: go on with what an earlier attempt left.
Look(p) ==
    /\ At(p, "look")
    /\ LET same == {i \in Made : inv[i].trigger = "scheduled" /\ inv[i].at = claim[p].at}
       IN \/ /\ same = {}
             /\ Goto(p, IF claim[p].at < claim[p].now THEN "skip" ELSE "blocking")
             /\ UNCHANGED mine
          \/ \E i \in same :
                IF inv[i].status = "creating"
                THEN Goto(p, "check") /\ mine' = [mine EXCEPT ![p] = i]
                ELSE Goto(p, "complete") /\ UNCHANGED mine
    /\ UNCHANGED <<clock, row, work, claim, bounds>>

\* getBlockingAutomationSession only sees invocations that are created.
Blocking == \E i \in Made : inv[i].status = "created" /\ session[i] = "busy"

\* A manual request may allow the overlap.
Block(p) ==
    /\ At(p, "blocking")
    /\ \/ (p \in Manual \/ ~Blocking) /\ Goto(p, "reserve")
       \/ Blocking /\ Goto(p, IF p \in Schedulers THEN "skip" ELSE "release")
    /\ UNCHANGED <<clock, row, work, claim, mine, bounds>>

\* recordTerminalInvocation, for a time that was missed or is blocked.
Skip(p) ==
    /\ At(p, "skip")
    /\ IF Refused(p) THEN Thrown(p) /\ UNCHANGED inv
       ELSE Leave(p) /\ \E i \in Invs : Insert(p, i, "skipped")
    /\ UNCHANGED <<clock, row, session, claim, mine, bounds>>

\* The catch block: another row for the same time is refused, and then the
\* error is lost in the finally block.
RecordFailure(p) ==
    /\ At(p, "catch")
    /\ IF Refused(p) THEN UNCHANGED inv ELSE \E i \in Invs : Insert(p, i, "failed")
    /\ Goto(p, "complete")
    /\ UNCHANGED <<clock, row, session, claim, mine, bounds>>

\* completeScheduledAutomationClaim: nothing happens to a row that has another
\* owner or another schedule by now.
Complete(p) ==
    /\ At(p, "complete")
    /\ IF owner = p /\ cron = claim[p].cron
       THEN /\ next' = Following(claim[p].cron, claim[p].now)
            /\ owner' = Nobody /\ held' = FALSE
       ELSE UNCHANGED <<next, owner, held>>
    /\ Idle(p)
    /\ UNCHANGED <<clock, enabled, archived, cron, work, bounds>>

(***************************************************************************)
(* invokeManual                                                            *)
(***************************************************************************)
ClaimManually(p) ==
    /\ MayBegin(p) /\ p \in Manual
    /\ calls + edits < MaxInputs /\ calls' = calls + 1
    /\ ~archived /\ ~held
    /\ owner' = p /\ held' = TRUE
    /\ \E allowDisabled \in BOOLEAN :
          /\ claim' = [claim EXCEPT ![p] = [NoClaim EXCEPT !.allowDisabled = allowDisabled]]
          /\ Goto(p, IF enabled \/ allowDisabled THEN "blocking" ELSE "release")
    /\ UNCHANGED <<clock, enabled, archived, cron, next, work, mine, edits, faults, overran>>

Release(p) ==
    /\ At(p, "release")
    /\ IF owner = p THEN owner' = Nobody /\ held' = FALSE ELSE UNCHANGED <<owner, held>>
    /\ Idle(p)
    /\ UNCHANGED <<clock, enabled, archived, cron, next, work, bounds>>

-----------------------------------------------------------------------------
(***************************************************************************)
(* createSessionInvocation: the row first, with the ids it will use; then  *)
(* the session and the message under those ids, if they are not there.     *)
(***************************************************************************)
Reserve(p) ==
    /\ At(p, "reserve")
    /\ IF Refused(p) THEN Thrown(p) /\ UNCHANGED <<inv, mine>>
       ELSE \E i \in Invs : /\ Insert(p, i, "creating")
                            /\ mine' = [mine EXCEPT ![p] = i]
                            /\ Goto(p, "check")
    /\ UNCHANGED <<clock, row, session, claim, bounds>>

\* The profile, skills or environment of the session cannot be resolved.
Unresolved(p) ==
    /\ At(p, "reserve")
    /\ faults < MaxFaults /\ faults' = faults + 1
    /\ IF Refused(p) THEN Thrown(p) /\ UNCHANGED inv
       ELSE Leave(p) /\ \E i \in Invs : Insert(p, i, "failed")
    /\ UNCHANGED <<clock, row, session, claim, mine, calls, edits, overran>>

\* assertAutomationCanCreateSession
Check(p) ==
    /\ At(p, "check")
    /\ Goto(p, IF ~archived /\ (enabled \/ claim[p].allowDisabled) THEN "find" ELSE "rescue")
    /\ UNCHANGED <<clock, row, work, claim, mine, bounds>>

FindSession(p) ==
    /\ At(p, "find")
    /\ Goto(p, IF session[mine[p]] = "none" THEN "session" ELSE "message")
    /\ UNCHANGED <<clock, row, work, claim, mine, bounds>>

CreateSession(p) ==
    /\ At(p, "session")
    /\ IF session[mine[p]] = "none"
       THEN session' = [session EXCEPT ![mine[p]] = "empty"] /\ Goto(p, "message")
       ELSE Goto(p, "rescue") /\ UNCHANGED session
    /\ UNCHANGED <<clock, row, inv, claim, mine, bounds>>

FindMessage(p) ==
    /\ At(p, "message")
    /\ Goto(p, IF HasMessage(mine[p]) THEN "finish" ELSE "enqueue")
    /\ UNCHANGED <<clock, row, work, claim, mine, bounds>>

EnqueueMessage(p) ==
    /\ At(p, "enqueue")
    /\ IF session[mine[p]] = "empty"
       THEN session' = [session EXCEPT ![mine[p]] = "busy"] /\ Goto(p, "finish")
       ELSE Goto(p, "rescue") /\ UNCHANGED session
    /\ UNCHANGED <<clock, row, inv, claim, mine, bounds>>

Settle(p, status) ==
    /\ inv' = [inv EXCEPT ![mine[p]].status = status]
    /\ Leave(p)
    /\ UNCHANGED <<clock, row, session, claim, mine, bounds>>

Finish(p) == (At(p, "finish") \/ At(p, "recover")) /\ Settle(p, "created")

\* Mutant: a session is enough for the invocation to count as created.
Rescue_Mutant(p) ==
    /\ At(p, "rescue")
    /\ Goto(p, IF session[mine[p]] # "none" THEN "recover" ELSE "fail")
    /\ UNCHANGED <<clock, row, work, claim, mine, bounds>>

\* The catch block: what was created counts, whatever was thrown after it.
Rescue(p) ==
    /\ At(p, "rescue")
    /\ Goto(p, IF HasMessage(mine[p]) THEN "recover" ELSE "fail")
    /\ UNCHANGED <<clock, row, work, claim, mine, bounds>>

Fail(p) == At(p, "fail") /\ Settle(p, "failed")

-----------------------------------------------------------------------------
(***************************************************************************)
(* Faults, users and time.                                                 *)
(***************************************************************************)
Trying == {"check", "find", "session", "message", "enqueue", "finish"}

\* A query fails and throws to the nearest catch or finally block.
Throw(p) ==
    /\ ~At(p, "idle")
    /\ faults < MaxFaults /\ faults' = faults + 1
    /\ \/ pc[p] \in Trying /\ Goto(p, "rescue") /\ UNCHANGED <<claim, mine>>
       \/ pc[p] \in {"complete", "release"} /\ Idle(p)
       \/ At(p, "catch") /\ Goto(p, "complete") /\ UNCHANGED <<claim, mine>>
       \/ /\ pc[p] \notin Trying \cup {"complete", "release", "catch"}
          /\ Thrown(p)
          /\ UNCHANGED <<claim, mine>>
    /\ UNCHANGED <<clock, row, work, calls, edits, overran>>

\* The process dies.
Crash(p) ==
    /\ ~At(p, "idle")
    /\ faults < MaxFaults /\ faults' = faults + 1
    /\ Idle(p)
    /\ UNCHANGED <<clock, row, work, calls, edits, overran>>

Edit ==
    /\ calls + edits < MaxInputs /\ edits' = edits + 1
    /\ UNCHANGED <<clock, work, calling, calls, faults, overran>>

\* updateScheduled: enabling or another schedule counts the next time anew.
ChangeEnabled ==
    /\ Edit /\ ~archived
    /\ enabled' = ~enabled
    /\ next' = IF enabled THEN next ELSE Following(cron, clock)
    /\ UNCHANGED <<archived, cron, owner, held>>

ChangeCron ==
    /\ Edit /\ ~archived
    /\ cron' \in Crons \ {cron}
    /\ next' = Following(cron', clock)
    /\ UNCHANGED <<enabled, archived, owner, held>>

Archive ==
    /\ Edit
    /\ \A i \in Made : inv[i].status # "creating"
    /\ archived' = TRUE
    /\ enabled' = FALSE /\ owner' = Nobody /\ held' = FALSE
    /\ UNCHANGED <<cron, next>>

Unarchive ==
    /\ Edit
    /\ archived' = FALSE
    /\ enabled' = FALSE /\ owner' = Nobody /\ held' = FALSE
    /\ UNCHANGED <<cron, next>>

\* The run of a session comes to its end.
SessionEnds(i) ==
    /\ session[i] = "busy"
    /\ session' = [session EXCEPT ![i] = "over"]
    /\ UNCHANGED <<clock, row, inv, calling, bounds>>

\* A minute passes, and the claim with it.  At the bound the clock stands still,
\* and claims still run out.
Tick ==
    /\ clock < MaxTime \/ held
    /\ clock' = IF clock < MaxTime THEN clock + 1 ELSE clock
    /\ held' = FALSE
    /\ overran' = (overran \/ \E p \in Callers : ~At(p, "idle"))
    /\ UNCHANGED <<enabled, archived, cron, next, owner, work, calling, calls, edits, faults>>

-----------------------------------------------------------------------------
Init ==
    /\ clock = 0
    /\ enabled \in BOOLEAN /\ archived = FALSE
    /\ cron = FirstCron /\ next = Following(FirstCron, 0)
    /\ owner = Nobody /\ held = FALSE
    /\ inv = [i \in Invs |-> NotMade]
    /\ session = [i \in Invs |-> "none"]
    /\ pc = [p \in Callers |-> "idle"]
    /\ claim = [p \in Callers |-> NoClaim]
    /\ mine = [p \in Callers |-> NoInv]
    /\ calls = 0 /\ edits = 0 /\ faults = 0 /\ overran = FALSE

CreateInvocation(p) ==
    \/ Reserve(p) \/ Check(p) \/ FindSession(p) \/ CreateSession(p) \/ FindMessage(p)
    \/ EnqueueMessage(p) \/ Finish(p) \/ Rescue(p) \/ Fail(p)

Proceed(p) ==
    \/ Look(p) \/ Block(p) \/ Skip(p) \/ RecordFailure(p) \/ Complete(p) \/ Release(p)
    \/ CreateInvocation(p)

Next ==
    \/ \E p \in Callers : \/ Claim(p) \/ ClaimManually(p) \/ Proceed(p)
                          \/ Unresolved(p) \/ Throw(p) \/ Crash(p)
    \/ ChangeEnabled \/ ChangeCron \/ Archive \/ Unarchive
    \/ \E i \in Invs : SessionEnds(i)
    \/ Tick

\* Loops poll, requests go on, time passes.
Fairness ==
    /\ \A p \in Callers : WF_vars(Proceed(p))
    /\ WF_vars(\E p \in Schedulers : Claim(p))
    /\ WF_vars(Tick)

Spec == Init /\ [][Next]_vars
FairSpec == Spec /\ Fairness

-----------------------------------------------------------------------------
Steps == Trying \cup {"idle", "look", "blocking", "skip", "reserve", "rescue", "recover",
                      "fail", "catch", "complete", "release"}

\* The rows and the callers have the shape the code gives them; a caller past
\* its reservation has an invocation.
TypeOK ==
    /\ clock \in 0..MaxTime
    /\ enabled \in BOOLEAN /\ archived \in BOOLEAN /\ cron \in Crons /\ next \in Nat
    /\ owner \in Callers \cup {Nobody} /\ held \in BOOLEAN
    /\ inv \in [Invs -> [trigger: {"none", "scheduled", "manual"},
                         status: {"none", "creating", "created", "skipped", "failed"},
                         at: Nat]]
    /\ session \in [Invs -> {"none", "empty", "busy", "over"}]
    /\ pc \in [Callers -> Steps]
    /\ claim \in [Callers -> [cron: Crons, at: Nat, now: Nat, allowDisabled: BOOLEAN]]
    /\ mine \in [Callers -> Invs \cup {NoInv}]
    /\ \A p \in Callers :
          pc[p] \in Trying \cup {"rescue", "recover", "fail"} => mine[p] \in Made
    /\ calls \in 0..MaxInputs /\ edits \in 0..MaxInputs /\ faults \in 0..MaxFaults
    /\ overran \in BOOLEAN

\* What an invocation says of its work is true: a created one has left its
\* message, and one that was skipped or failed has left none - unless a caller
\* outlived its claim, when it may fail what another has created.
StatusTellsTheWork ==
    \A i \in Made :
       /\ inv[i].status = "created" => HasMessage(i)
       /\ inv[i].status = "skipped" => session[i] = "none"
       /\ inv[i].status = "failed" /\ HasMessage(i) => overran

\* What it takes to lose an invocation: a caller outlived its claim, or two things went
\* wrong.  (A query that fails in the rescue of an invocation that cannot be made, since
\* the automation was disabled, is enough: the catch block cannot insert a row beside the
\* one that is creating, and the schedule moves on.)
TwoWentWrong == overran \/ faults >= 2 \/ (faults >= 1 /\ edits > 0)

\* When the schedule moves on, the time it was claimed for has an invocation, whatever was
\* thrown and whoever crashed on the way, and it came to its end, unless two things went
\* wrong.  (Times between the claimed one and the time of the claim get no row: they are
\* not caught up.)
ClaimedTimeIsSettled ==
    [][\A p \in Schedulers :
          Complete(p) /\ next' # next /\ faults < 2 =>
             \E i \in Made : /\ inv[i].trigger = "scheduled" /\ inv[i].at = claim[p].at
                             /\ inv[i].status # "creating" \/ TwoWentWrong]_vars

\* What has been decided of an invocation is decided: whoever takes the time up again,
\* after a crash, an error or by hand, neither rewrites the row nor adds a session or a
\* message to it; its session comes to its end and nothing else.  (Unless a caller
\* outlived its claim.)
SettledForGood ==
    [][\A i \in Made : inv[i].status # "creating" =>
          \/ overran
          \/ /\ inv'[i] = inv[i]
             /\ session'[i] # session[i] => session[i] = "busy"]_vars

\* Two things went wrong, and the scheduler does not come back to the row, because the
\* automation is disabled or its schedule is past that time.
LeftBehind(i) == TwoWentWrong /\ (~enabled \/ next > inv[i].at)

\* Scheduled invocations that are begun.
Begun == {i \in Made : inv[i].trigger = "scheduled" /\ inv[i].status = "creating"}

\* An invocation that the scheduler has begun comes to a session or a failure, also when
\* the process dies: the claim runs out and the next one goes on with the row.
ScheduledSettles ==
    (\E i \in Begun : ~LeftBehind(i)) ~> (\A i \in Begun : LeftBehind(i))

\* docs/domain-design.md:177: "Scheduled automations do not overlap automatically
\* by default."  (They do after a crash, even when no call takes a minute: an
\* invocation that was left creating does not count as one that blocks.)
NoAutomaticOverlap ==
    \A i, j \in Made :
       j < i /\ inv[i].trigger = "scheduled" /\ session[i] = "busy" /\ session[j] = "busy"
          => overran
=============================================================================
