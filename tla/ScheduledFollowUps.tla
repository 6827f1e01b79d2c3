-------------------------- MODULE ScheduledFollowUps --------------------------
(***************************************************************************)
(* The scheduled follow-ups of one session: their definitions, the          *)
(* occurrences recorded of them, and the schedulers of the worker           *)
(* processes, which claim a definition that is due, resolve the context of  *)
(* its prompt outside of any transaction, and activate it in one.  Users    *)
(* and agents create, edit and cancel definitions; the session is archived  *)
(* and restored.                                                            *)
(*                                                                          *)
(* A recurrence rule is the set of its instants within the horizon.  What   *)
(* a prompt needs is usable or broken: its environment, its model or        *)
(* skills, and the external thread the session is bound to.  The lease of   *)
(* a claim lasts a minute and due times are an hour apart or more, so that  *)
(* a lease runs out between two ticks of the clock.  What becomes of a      *)
(* message is in RunLifecycle; here it only moves.                          *)
(***************************************************************************)
EXTENDS Integers, FiniteSets

CONSTANTS
    FollowUps,      \* ids of definitions
    Schedulers,     \* worker processes, each with its scheduler loop
    Editors,        \* requests that edit a definition
    Schedules,      \* normalized schedules
    Resources,      \* of "environment", "model", "thread": what may break
    Horizon,        \* bound: instants, ten years from the start of a rule
    MaxTime,        \* bound: the clock
    MaxRevision,    \* bound: revisions made by edits
    MaxFaults,      \* bound: crashes, slow calls, resources that break
    ActiveLimit,    \* active definitions of a session
    Nobody

Times == 1..Horizon
None == 0

Schedule == [kind: {"once", "recurring"}, at: SUBSET Times, endsAt: Times \cup {None},
             max: 1..100]

ASSUME BoundsAssumption ==
    /\ Horizon \in Nat /\ MaxTime \in 0..Horizon
    /\ MaxRevision \in Nat /\ MaxFaults \in Nat /\ ActiveLimit \in Nat
ASSUME SchedulesAssumption ==
    /\ Schedules \subseteq Schedule /\ Schedules # {}
    /\ \A s \in Schedules : s.kind = "once" => \E t \in Times : s.at = {t} /\ s.endsAt = None
ASSUME NamesAssumption ==
    /\ FollowUps # {} /\ Nobody \notin Schedulers
    /\ Resources \subseteq {"environment", "model", "thread"}

VARIABLES
    now,
    archived,       \* sessions.status = 'archived'
    broken,         \* resources that cannot be used now
    followUp,       \* scheduled_follow_ups
    occurrence,     \* scheduled_follow_up_occurrences, by definition and scheduled_at
    call,           \* what a scheduler keeps of its claim
    edit,           \* what an update keeps from before its transaction
    since,          \* instants after this one are owed under the schedule in force
    faults

rows == <<followUp, occurrence, since>>
vars == <<now, archived, broken, followUp, occurrence, call, edit, since, faults>>

-----------------------------------------------------------------------------
(***************************************************************************)
(* Recurrence                                                              *)
(***************************************************************************)
MaxOf(S) == CHOOSE t \in S : \A u \in S : u <= t
MinOf(S) == CHOOSE t \in S : \A u \in S : t <= u

\* How far occurrenceInstantsBetween searches: endsAt, where there is one,
\* takes the place of the end that was asked for.
SearchThrough(s, through) == IF s.endsAt # None THEN s.endsAt ELSE through

InstantsBetween(s, after, through) ==
    {t \in s.at : after < t /\ t <= SearchThrough(s, through)}

\* result.length < limit
FirstOf(S, limit) == {t \in S : Cardinality({u \in S : u < t}) < limit}

NextOccurrence(s, after) ==
    LET later == InstantsBetween(s, after, Horizon)
    IN IF later = {} THEN None ELSE MinOf(later)

Limit(s) == IF s.kind = "once" THEN 1 ELSE s.max

-----------------------------------------------------------------------------
(***************************************************************************)
(* Tables                                                                  *)
(***************************************************************************)
Absent == [status |-> "absent", schedule |-> CHOOSE s \in Schedules : TRUE, due |-> None,
           revision |-> 0, owner |-> Nobody, leased |-> FALSE]
NoOccurrence == [outcome |-> "none", at |-> 0, revision |-> 0, resolved |-> 0,
                 told |-> FALSE, message |-> "none"]
NoCall == [step |-> "idle", followUp |-> CHOOSE f \in FollowUps : TRUE, revision |-> 0,
           at |-> 0, broken |-> {}]
NoEdit == [step |-> "idle", followUp |-> CHOOSE f \in FollowUps : TRUE, revision |-> 0,
           at |-> 0, schedule |-> CHOOSE s \in Schedules : TRUE]

Active(f) == followUp[f].status = "active"
Recorded(f) == {t \in Times : occurrence[f][t] # NoOccurrence}
Unfinished(f) == \E t \in Times : occurrence[f][t].message \in {"pending", "processing"}

\* UPDATE messages SET status='cancelled' ... AND status='pending'
PendingCancelled(of) ==
    [f \in FollowUps |-> [t \in Times |->
        IF f \in of /\ occurrence[f][t].message = "pending"
        THEN [occurrence[f][t] EXCEPT !.message = "done"]
        ELSE occurrence[f][t]]]

\* The row a cancelled definition is left with.
Cancelled(row) ==
    [row EXCEPT !.status = "cancelled", !.due = None, !.owner = Nobody, !.leased = FALSE,
                !.revision = @ + 1]

-----------------------------------------------------------------------------
(***************************************************************************)
(* Users and agents                                                        *)
(***************************************************************************)
\* Of the requests of one run with the same key only the first gets here; the
\* others are answered with its definition.  A second limit, on the active definitions of
\* one run, is left out: it only refuses more.
Create(f, s) ==
    /\ followUp[f].status = "absent"
    /\ ~archived
    /\ Cardinality({g \in FollowUps : Active(g)}) < ActiveLimit
    /\ s.kind = "once" => \E t \in s.at : t >= now
    /\ LET due == IF s.kind = "once" THEN MinOf(s.at) ELSE NextOccurrence(s, now)
       IN /\ due # None
          /\ followUp' = [followUp EXCEPT ![f] =
                [Absent EXCEPT !.status = "active", !.schedule = s, !.due = due, !.revision = 1]]
          /\ since' = [since EXCEPT ![f] = IF s.kind = "once" THEN due - 1 ELSE now]
    /\ UNCHANGED <<now, archived, broken, occurrence, call, edit, faults>>

\* update: the row is read for its schedule, and the time taken, before the
\* transaction; the request names the revision it was made for.
BeginUpdate(e, f) ==
    /\ edit[e].step = "idle"
    /\ followUp[f].status # "absent" /\ followUp[f].revision <= MaxRevision
    /\ \E s \in Schedules \cup {followUp[f].schedule} :
          edit' = [edit EXCEPT ![e] = [step |-> "update", followUp |-> f,
                      revision |-> followUp[f].revision, at |-> now, schedule |-> s]]
    /\ UNCHANGED <<now, archived, broken, rows, call, faults>>

\* Mutant: the next due time is counted from the time of the request alone.
Cutover_Mutant(f, at) == at

\* Nothing at or before the latest occurrence is due again.
Cutover(f, at) ==
    LET latest == IF Recorded(f) = {} THEN 0 ELSE MaxOf(Recorded(f))
    IN IF latest > at THEN latest ELSE at

UpdateAccepted(e) ==
    LET f == edit[e].followUp
        s == edit[e].schedule
    IN /\ Active(f) /\ followUp[f].revision = edit[e].revision
       /\ s.kind = "recurring" => s.max > Cardinality(Recorded(f))
       /\ NextOccurrence(s, Cutover(f, edit[e].at)) # None

FinishUpdate(e) ==
    /\ edit[e].step = "update"
    /\ LET f == edit[e].followUp
           cutover == Cutover(f, edit[e].at)
       IN \/ /\ UpdateAccepted(e)
             /\ followUp' = [followUp EXCEPT ![f] =
                   [followUp[f] EXCEPT !.schedule = edit[e].schedule,
                                       !.due = NextOccurrence(edit[e].schedule, cutover),
                                       !.owner = Nobody, !.leased = FALSE, !.revision = @ + 1]]
             /\ since' = [since EXCEPT ![f] = cutover]
          \/ ~UpdateAccepted(e) /\ UNCHANGED <<followUp, since>>
    /\ edit' = [edit EXCEPT ![e] = NoEdit]
    /\ UNCHANGED <<now, archived, broken, occurrence, call, faults>>

\* A request for another revision is refused.
Cancel(f) ==
    /\ Active(f)
    /\ followUp' = [followUp EXCEPT ![f] = Cancelled(@)]
    /\ occurrence' = PendingCancelled({f})
    /\ UNCHANGED <<now, archived, broken, call, edit, since, faults>>

ArchiveSession ==
    /\ ~archived /\ archived' = TRUE
    /\ followUp' = [f \in FollowUps |-> IF Active(f) THEN Cancelled(followUp[f]) ELSE followUp[f]]
    /\ occurrence' = PendingCancelled(FollowUps)
    /\ UNCHANGED <<now, broken, call, edit, since, faults>>

UnarchiveSession ==
    /\ archived /\ archived' = FALSE
    /\ UNCHANGED <<now, broken, rows, call, edit, faults>>

-----------------------------------------------------------------------------
(***************************************************************************)
(* processNext                                                             *)
(***************************************************************************)
\* Mutant: a claim is given up only by its owner.
Claimable_Mutant ==
    {f \in FollowUps : Active(f) /\ followUp[f].due <= now /\ followUp[f].owner = Nobody}

Claimable == {f \in FollowUps : Active(f) /\ followUp[f].due <= now /\ ~followUp[f].leased}

\* claimDueScheduledFollowUp: the one that has been due for longest.
Claim(w) ==
    /\ call[w].step = "idle"
    /\ \E f \in Claimable :
             /\ \A g \in Claimable : followUp[f].due <= followUp[g].due
             /\ followUp' = [followUp EXCEPT ![f].owner = w, ![f].leased = TRUE]
             /\ call' = [call EXCEPT ![w] = [step |-> "resolve", followUp |-> f,
                            revision |-> followUp[f].revision, at |-> now, broken |-> {}]]
    /\ UNCHANGED <<now, archived, broken, occurrence, edit, since, faults>>

\* resolveActivationContext and activationExternalBinding: what cannot be used
\* at this time.
Resolve(w) ==
    /\ call[w].step = "resolve"
    /\ call' = [call EXCEPT ![w].step = "activate", ![w].broken = broken]
    /\ UNCHANGED <<now, archived, broken, rows, edit, faults>>

ValidClaim(w) ==
    LET row == followUp[call[w].followUp]
    IN /\ row.status = "active" /\ row.due <= call[w].at
       /\ row.owner = w /\ row.revision = call[w].revision

\* The transaction finds the context resolved before it unusable: at that time,
\* or - the environment and the thread are read again - by now.
ContextError(w) == call[w].broken \cap {"environment", "model"} # {} \/ "environment" \in broken
BindingError(w) == "thread" \in call[w].broken \cup broken

\* Mutant: only the latest of them is recorded.
DueInstants_Mutant(w) ==
    LET f == call[w].followUp
        all == InstantsBetween(followUp[f].schedule, followUp[f].due - 1, call[w].at)
    IN {t \in all : t = MaxOf(all)}

\* The instants to record: the last is the one that may start something.
DueInstants(w) ==
    LET f == call[w].followUp
        s == followUp[f].schedule
    IN FirstOf(InstantsBetween(s, followUp[f].due - 1, call[w].at),
               Limit(s) - Cardinality(Recorded(f)))

Outcome(w, t) ==
    IF t # MaxOf(DueInstants(w)) \/ Unfinished(call[w].followUp) THEN "skipped"
    ELSE IF BindingError(w) \/ ContextError(w) THEN "pre_message_failed" ELSE "message_created"

\* The limit handed to occurrenceInstantsBetween is less than one; or an instant
\* has its row already; or a row says skipped and carries the error of the
\* context, which the CHECK of the table refuses.
Throws(w) ==
    LET f == call[w].followUp
    IN \/ Limit(followUp[f].schedule) <= Cardinality(Recorded(f))
       \/ DueInstants(w) \cap Recorded(f) # {}
       \/ ContextError(w) /\ \E t \in DueInstants(w) : Outcome(w, t) = "skipped"

\* A failed start is told to the thread the callback was resolved for.
OccurrenceOf(w, t) ==
    LET outcome == Outcome(w, t)
    IN [outcome |-> outcome, at |-> call[w].at,
        revision |-> followUp[call[w].followUp].revision, resolved |-> call[w].revision,
        told |-> outcome = "pre_message_failed" /\ "thread" \notin call[w].broken,
        message |-> IF outcome = "message_created" THEN "pending" ELSE "none"]

\* The definition after its due instants have been recorded.
Advanced(f, due) ==
    LET row == followUp[f]
        next == NextOccurrence(row.schedule, MaxOf(due))
        completed == \/ next = None
                     \/ Cardinality(Recorded(f)) + Cardinality(due) >= Limit(row.schedule)
    IN [row EXCEPT !.status = IF completed THEN "completed" ELSE "active",
                   !.due = IF completed THEN None ELSE next,
                   !.owner = Nobody, !.leased = FALSE]

Finished(w) == call' = [call EXCEPT ![w] = NoCall]

\* activateDueScheduledFollowUp on a claim that is no longer valid.
GiveUp(w) ==
    /\ call[w].step = "activate" /\ ~ValidClaim(w)
    /\ Finished(w)
    /\ UNCHANGED <<now, archived, broken, rows, edit, faults>>

\* The transaction is rolled back; the lease stays until it runs out.
Fail(w) ==
    /\ call[w].step = "activate" /\ ValidClaim(w) /\ ~archived /\ Throws(w)
    /\ Finished(w)
    /\ UNCHANGED <<now, archived, broken, rows, edit, faults>>

Activate(w) ==
    /\ call[w].step = "activate" /\ ValidClaim(w)
    /\ LET f == call[w].followUp
           due == DueInstants(w)
       IN IF archived
          THEN /\ occurrence' = PendingCancelled({f})
               /\ followUp' = [followUp EXCEPT ![f] = Cancelled(@)]
          ELSE /\ ~Throws(w)
               /\ occurrence' = [occurrence EXCEPT ![f] =
                     [t \in Times |-> IF t \in due THEN OccurrenceOf(w, t) ELSE @[t]]]
               /\ followUp' = [followUp EXCEPT ![f] =
                     IF due = {} THEN [@ EXCEPT !.owner = Nobody, !.leased = FALSE]
                     ELSE Advanced(f, due)]
    /\ Finished(w)
    /\ UNCHANGED <<now, archived, broken, edit, since, faults>>

-----------------------------------------------------------------------------
(***************************************************************************)
(* Messages, faults and time                                               *)
(***************************************************************************)
\* A worker takes the message and ends it, or leaves it to recovery, which puts
\* it back; or it is cancelled.
WorkOnMessage(f, t) ==
    /\ occurrence[f][t].message \in {"pending", "processing"}
    /\ \E m \in (IF occurrence[f][t].message = "pending" THEN {"processing", "done"}
                 ELSE {"done", "failed", "pending"}) :
          occurrence' = [occurrence EXCEPT ![f][t].message = m]
    /\ UNCHANGED <<now, archived, broken, followUp, call, edit, since, faults>>

\* Mutant: the session is not looked at.
RetryMessage_Mutant(f, t) ==
    /\ occurrence[f][t].message = "failed" /\ ~Unfinished(f)
    /\ occurrence' = [occurrence EXCEPT ![f][t].message = "pending"]
    /\ UNCHANGED <<now, archived, broken, followUp, call, edit, since, faults>>

RetryMessage(f, t) ==
    /\ ~archived
    /\ occurrence[f][t].message = "failed" /\ ~Unfinished(f)
    /\ occurrence' = [occurrence EXCEPT ![f][t].message = "pending"]
    /\ UNCHANGED <<now, archived, broken, followUp, call, edit, since, faults>>

\* The scheduler dies or a query of its fails.
Crash(w) ==
    /\ call[w].step # "idle"
    /\ faults < MaxFaults /\ faults' = faults + 1
    /\ Finished(w)
    /\ UNCHANGED <<now, archived, broken, rows, edit>>

Break(r) ==
    /\ r \notin broken /\ broken' = broken \cup {r}
    /\ faults < MaxFaults /\ faults' = faults + 1
    /\ UNCHANGED <<now, archived, rows, call, edit>>

Mend(r) ==
    /\ r \in broken /\ broken' = broken \ {r}
    /\ UNCHANGED <<now, archived, rows, call, edit, faults>>

\* The call of the owner is still on its way.
AtWork(f) == \E w \in Schedulers : /\ followUp[f].owner = w /\ call[w].step # "idle"
                                  /\ call[w].followUp = f

\* A minute is over; a call that takes longer counts as a fault.
LeaseRunsOut(f) ==
    /\ followUp[f].leased
    /\ IF AtWork(f) THEN faults < MaxFaults /\ faults' = faults + 1 ELSE UNCHANGED faults
    /\ followUp' = [followUp EXCEPT ![f].leased = FALSE]
    /\ UNCHANGED <<now, archived, broken, occurrence, call, edit, since>>

Tick ==
    /\ now < MaxTime /\ now' = now + 1
    /\ UNCHANGED <<archived, broken, rows, call, edit, faults>>

-----------------------------------------------------------------------------
Init ==
    /\ now = 0 /\ archived = FALSE /\ broken = {}
    /\ followUp = [f \in FollowUps |-> Absent]
    /\ occurrence = [f \in FollowUps |-> [t \in Times |-> NoOccurrence]]
    /\ call = [w \in Schedulers |-> NoCall]
    /\ edit = [e \in Editors |-> NoEdit]
    /\ since = [f \in FollowUps |-> 0]
    /\ faults = 0

Proceed(w) == Resolve(w) \/ GiveUp(w) \/ Fail(w) \/ Activate(w)

Next ==
    \/ \E f \in FollowUps : \/ \E s \in Schedules : Create(f, s)
                            \/ Cancel(f) \/ LeaseRunsOut(f)
                            \/ \E e \in Editors : BeginUpdate(e, f)
                            \/ \E t \in Times : WorkOnMessage(f, t) \/ RetryMessage(f, t)
    \/ \E e \in Editors : FinishUpdate(e)
    \/ ArchiveSession \/ UnarchiveSession
    \/ \E w \in Schedulers : Claim(w) \/ Proceed(w) \/ Crash(w)
    \/ \E r \in Resources : Break(r) \/ Mend(r)
    \/ Tick

\* Loops poll once a second, calls go on, leases run out.
Fairness ==
    /\ \A w \in Schedulers : WF_vars(Proceed(w))
    /\ WF_vars(\E w \in Schedulers : Claim(w))
    /\ \A f \in FollowUps : WF_vars(LeaseRunsOut(f))

Spec == Init /\ [][Next]_vars
FairSpec == Spec /\ Fairness
-----------------------------------------------------------------------------
Row == [status: {"absent", "active", "completed", "cancelled"}, schedule: Schedules,
        due: Times \cup {None}, revision: Nat, owner: Schedulers \cup {Nobody},
        leased: BOOLEAN]
Occurrence == [outcome: {"none", "skipped", "pre_message_failed", "message_created"},
               at: 0..MaxTime, revision: Nat, resolved: Nat, told: BOOLEAN,
               message: {"none", "pending", "processing", "done", "failed"}]
Call == [step: {"idle", "resolve", "activate"}, followUp: FollowUps, revision: Nat,
         at: 0..MaxTime, broken: SUBSET Resources]
Edit == [step: {"idle", "update"}, followUp: FollowUps, revision: Nat, at: 0..MaxTime,
         schedule: Schedules]

RowOK(row) ==
    /\ row \in Row
    /\ row.status = "active" <=> row.due # None
    /\ row.leased => row.status = "active" /\ row.owner # Nobody

\* The rows and the calls have the shape the code gives them, and only an
\* active definition is due or leased.
TypeOK ==
    /\ now \in 0..MaxTime /\ archived \in BOOLEAN /\ broken \subseteq Resources
    /\ followUp \in [FollowUps -> Row] /\ \A f \in FollowUps : RowOK(followUp[f])
    /\ occurrence \in [FollowUps -> [Times -> Occurrence]]
    /\ call \in [Schedulers -> Call]
    /\ edit \in [Editors -> Edit]
    /\ since \in [FollowUps -> Nat]
    /\ faults \in 0..MaxFaults

\* What is due lies after everything that has been recorded, although edits and
\* activations interleave and each counts from a time it took before: no
\* activation meets the unique index on (scheduled_follow_up_id, scheduled_at).
DueIsAhead ==
    \A f \in FollowUps : Active(f) => \A t \in Recorded(f) : t < followUp[f].due

\* Instants of the schedule in force, from when it came into force.
Owed(f) ==
    {t \in followUp[f].schedule.at :
        since[f] < t /\ t <= SearchThrough(followUp[f].schedule, Horizon)}

\* No instant is passed over: a definition has a record of everything it owed
\* before its due time, and completes when nothing more is owed or its limit is
\* reached.
DueIsRecorded ==
    \A f \in FollowUps :
       /\ Active(f) => \A t \in Owed(f) : t < followUp[f].due => t \in Recorded(f)
       /\ followUp[f].status = "completed" =>
             \/ Owed(f) \subseteq Recorded(f)
             \/ Cardinality(Recorded(f)) >= Limit(followUp[f].schedule)

\* The context an occurrence was decided with was resolved for the very revision
\* the transaction found: an edit, a cancellation or another scheduler in
\* between voids the claim.
ContextIsCurrent ==
    \A f \in FollowUps : \A t \in Recorded(f) :
       occurrence[f][t].resolved = occurrence[f][t].revision

\* An archived session has no active definition, and none of its occurrences puts
\* a message in its queue, whatever is created, claimed or retried around the
\* archiving: only a run that is recovered gives back what it had.
ArchivedIsSilent ==
    /\ [](archived => \A f \in FollowUps : ~Active(f))
    /\ [][archived => \A f \in FollowUps : \A t \in Times :
              occurrence'[f][t].message = "pending" =>
                 occurrence[f][t].message \in {"pending", "processing"}]_vars

Overdue(f) ==
    /\ Active(f) /\ followUp[f].due <= now
    /\ Cardinality(Recorded(f)) < Limit(followUp[f].schedule)

\* No definition stays overdue for ever, however schedulers crash or are slow and
\* whoever holds it - as long as the context it needs is usable in the end.  (One edited
\* from recurring to once after an occurrence has none left and stays due.)
DueIsDecided ==
    <>[](broken \cap {"environment", "model"} = {}) => \A f \in FollowUps : []<>~Overdue(f)

\* Nothing is recorded, and no message created, before its time.
NothingBeforeItsTime ==
    \A f \in FollowUps : \A t \in Recorded(f) : t <= occurrence[f][t].at

\* An unusable context is recorded as a failed occurrence and the definition
\* goes on: it does not stay overdue.
ContextFailureContinues == \A f \in FollowUps : []<>~Overdue(f)
===============================================================================
