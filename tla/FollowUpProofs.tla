---------------------------- MODULE FollowUpProofs ----------------------------
(***************************************************************************)
(* Proofs about ScheduledFollowUps, for any definitions, schedulers,       *)
(* schedules, clock and number of faults.  The facts about due times hold  *)
(* together: what is due lies ahead of the records because it is the first *)
(* instant after the last one recorded, and nothing lies between because   *)
(* an activation records a set of instants without gaps.                   *)
(***************************************************************************)
EXTENDS ScheduledFollowUps, FiniteSetTheorems, WellFoundedInduction, TLAPS

\* An instant is a number, not None.
LEMMA TimesAreNumbers == \A t \in Times : t \in Nat /\ t # None
BY BoundsAssumption DEF Times, None

\* A set of instants is finite.
LEMMA TimesAreFinite ==
  ASSUME NEW S \in SUBSET Times
  PROVE  IsFiniteSet(S) /\ Cardinality(S) \in Nat
<1>1. IsFiniteSet(Times)
  BY BoundsAssumption, FS_Interval DEF Times
<1> QED
  BY <1>1, FS_Subset, FS_CardinalityType

\* Some instants are before all the others.
LEMMA MinExists ==
  ASSUME NEW S \in SUBSET Times, S # {}
  PROVE  \E t \in S : \A u \in S : t <= u
<1> DEFINE Below(t) == {u \in S : u < t}
           Family == {Below(t) : t \in S}
<1>1. S \subseteq Nat
  BY BoundsAssumption DEF Times
<1>2. IsWellFoundedOn(StrictSubsetOrdering(S), FiniteSubsetsOf(S))
  BY FS_StrictSubsetOrderingWellFounded
<1>3. Family \subseteq FiniteSubsetsOf(S)
  BY TimesAreFinite DEF FiniteSubsetsOf
<1>4. Family # {}
  OBVIOUS
<1>5. PICK B \in Family : \A C \in Family : <<C, B>> \notin StrictSubsetOrdering(S)
  <2> HIDE DEF Family
  <2> QED BY <1>2, <1>3, <1>4, WFMin
<1>6. PICK t \in S : B = Below(t)
  BY <1>5
<1>7. ASSUME NEW u \in S, u < t PROVE FALSE
  <2>1. Below(u) \subseteq Below(t)
    <3> SUFFICES ASSUME NEW x \in S, x < u PROVE x < t
      OBVIOUS
    <3>1. x \in Nat /\ u \in Nat /\ t \in Nat
      BY <1>1
    <3> QED BY <1>7, <3>1
  <2>2. Below(u) # Below(t)
    BY <1>1, <1>7
  <2>3. <<Below(u), Below(t)>> \in StrictSubsetOrdering(S)
    BY <2>1, <2>2 DEF StrictSubsetOrdering
  <2> QED
    BY <2>3, <1>5, <1>6
<1> QED
  BY <1>1, <1>7

\* MinOf is the least instant of a set.
LEMMA MinIsLeast ==
  ASSUME NEW S \in SUBSET Times, S # {}
  PROVE  MinOf(S) \in S /\ \A u \in S : MinOf(S) <= u
BY MinExists DEF MinOf

\* MaxOf is the last.
LEMMA MaxIsLast ==
  ASSUME NEW S \in SUBSET Times, S # {}
  PROVE  MaxOf(S) \in S /\ \A u \in S : u <= MaxOf(S)
<1> DEFINE T == {Horizon + 1 - u : u \in S}
<1>1. T \in SUBSET Times /\ T # {}
  <2> SUFFICES ASSUME NEW u \in S PROVE Horizon + 1 - u \in Times
    OBVIOUS
  <2>1. u \in Times
    OBVIOUS
  <2> QED BY <2>1, BoundsAssumption DEF Times
<1>2. PICK v \in T : \A u \in T : v <= u
  BY <1>1, MinExists
<1>3. PICK t \in S : v = Horizon + 1 - t
  OBVIOUS
<1>4. \A u \in S : u <= t
  <2> TAKE u \in S
  <2>1. v <= Horizon + 1 - u
    BY <1>2
  <2> QED
    BY <2>1, <1>3, BoundsAssumption DEF Times
<1> QED
  BY <1>4 DEF MaxOf

\* occurrenceInstantsBetween returns the first instants: with one, all that lie
\* before it.
LEMMA FirstOfIsClosed ==
  ASSUME NEW S \in SUBSET Times, NEW limit \in Int, NEW t \in FirstOf(S, limit),
         NEW u \in S, u <= t
  PROVE  u \in FirstOf(S, limit)
<1> DEFINE Below(v) == {x \in S : x < v}
<1>1. /\ t \in S /\ Cardinality(Below(t)) < limit
      /\ S \subseteq Nat
  BY BoundsAssumption DEF FirstOf, Times
<1>2. Below(u) \in SUBSET Below(t)
  <2> SUFFICES ASSUME NEW x \in S, x < u PROVE x < t
    OBVIOUS
  <2>1. x \in Nat /\ u \in Nat /\ t \in Nat
    BY <1>1
  <2> QED BY <2>1
<1>3. IsFiniteSet(Below(t)) /\ Cardinality(Below(t)) \in Nat /\ Cardinality(Below(u)) \in Nat
  BY TimesAreFinite
<1>4. Cardinality(Below(u)) <= Cardinality(Below(t))
  <2> HIDE DEF Below
  <2> QED BY <1>2, <1>3, FS_Subset
<1> QED
  BY <1>1, <1>3, <1>4 DEF FirstOf

\* What a schedule is made of.
LEMMA ScheduleParts ==
  ASSUME NEW s \in Schedules
  PROVE  /\ s.kind \in {"once", "recurring"} /\ s.at \in SUBSET Times
         /\ s.endsAt \in Nat /\ s.max \in 1..100 /\ Limit(s) \in 1..100
         /\ \A through \in Nat : SearchThrough(s, through) \in Nat
         /\ \A after, through : InstantsBetween(s, after, through) \in SUBSET Times
<1>1. s \in Schedule
  BY SchedulesAssumption
<1>2. /\ s.kind \in {"once", "recurring"} /\ s.at \in SUBSET Times
      /\ s.endsAt \in Times \cup {None} /\ s.max \in 1..100
  BY <1>1 DEF Schedule
<1>3. s.endsAt \in Nat
  BY <1>2, BoundsAssumption DEF Times, None
<1> QED
  BY <1>2, <1>3 DEF Limit, SearchThrough, InstantsBetween

\* nextOccurrence is the first instant after the given one, or there is none.
LEMMA NextIsFirst ==
  ASSUME NEW s \in Schedules, NEW after \in Nat, NEW next, next = NextOccurrence(s, after)
  PROVE  /\ next \in Times \cup {None}
         /\ next # None => next \in Times /\ after < next
         /\ \A t \in s.at : after < t /\ t <= SearchThrough(s, Horizon) => next # None /\ next <= t
<1> DEFINE later == InstantsBetween(s, after, Horizon)
<1>1. later \in SUBSET Times
  BY ScheduleParts
<1>2. \A t \in Times : t # None
  BY BoundsAssumption DEF Times, None
<1>3. next = IF later = {} THEN None ELSE MinOf(later)
  BY DEF NextOccurrence
<1>4. later # {} => MinOf(later) \in later /\ \A u \in later : MinOf(later) <= u
  <2> HIDE DEF later
  <2> QED BY <1>1, MinIsLeast
<1>5. \A t \in later : after < t
  BY DEF InstantsBetween
<1>6. \A t \in s.at : after < t /\ t <= SearchThrough(s, Horizon) => t \in later
  BY DEF InstantsBetween
<1> HIDE DEF later
<1> QED
  BY <1>1, <1>2, <1>3, <1>4, <1>5, <1>6

-----------------------------------------------------------------------------
(* Type correctness.                                                       *)

USE DEF rows

\* The state a definition starts in.
LEMMA StartsTyped ==
  /\ RowOK(Absent) /\ NoOccurrence \in Occurrence /\ NoCall \in Call /\ NoEdit \in Edit
<1>1. /\ (CHOOSE s \in Schedules : TRUE) \in Schedules
      /\ (CHOOSE f \in FollowUps : TRUE) \in FollowUps
  BY SchedulesAssumption, NamesAssumption
<1>2. 0 \in 0..MaxTime
  BY BoundsAssumption
<1> QED
  BY <1>1, <1>2 DEF RowOK, Row, Absent, Occurrence, NoOccurrence, Call, NoCall, Edit, NoEdit, None

\* The rows a step leaves behind have their shape.
LEMMA CancelledTyped == ASSUME NEW row, RowOK(row) PROVE RowOK(Cancelled(row))
<1> DEFINE new == Cancelled(row)
<1>1. row \in Row
  BY DEF RowOK
<1>2. row.revision \in Nat /\ row.revision + 1 \in Nat
  BY <1>1 DEF Row
<1>3. /\ new.status = "cancelled" /\ new.due = None /\ new.leased = FALSE
      /\ new \in Row
  BY <1>1, <1>2 DEF Row, Cancelled
<1> QED
  BY <1>3 DEF RowOK

LEMMA PendingCancelledTyped ==
  ASSUME TypeOK, NEW of PROVE PendingCancelled(of) \in [FollowUps -> [Times -> Occurrence]]
<1> SUFFICES ASSUME NEW f \in FollowUps, NEW t \in Times
             PROVE  [occurrence[f][t] EXCEPT !.message = "done"] \in Occurrence
  BY DEF PendingCancelled, TypeOK
<1>1. occurrence[f][t] \in Occurrence
  BY DEF TypeOK
<1> QED
  BY <1>1 DEF Occurrence

\* An update counts from no earlier than the latest occurrence.
LEMMA CutoverIsLater ==
  ASSUME TypeOK, NEW f \in FollowUps, NEW at \in 0..MaxTime
  PROVE  /\ Cutover(f, at) \in Nat /\ at <= Cutover(f, at)
         /\ \A t \in Recorded(f) : t <= Cutover(f, at)
<1>1. Recorded(f) \in SUBSET Times
  BY DEF Recorded
<1>2. Recorded(f) # {} => /\ MaxOf(Recorded(f)) \in Recorded(f)
                          /\ \A t \in Recorded(f) : t <= MaxOf(Recorded(f))
  BY <1>1, MaxIsLast
<1>3. at \in Nat
  BY BoundsAssumption
<1> HIDE DEF Recorded
<1> QED
  BY <1>1, <1>2, <1>3, BoundsAssumption DEF Cutover, Times

\* Requests of users and agents keep the types.
LEMMA RequestTypes ==
  ASSUME TypeOK, NEW f \in FollowUps,
         \/ \E s \in Schedules : Create(f, s)
         \/ Cancel(f) \/ ArchiveSession \/ UnarchiveSession
         \/ \E e \in Editors : BeginUpdate(e, f) \/ FinishUpdate(e)
  PROVE  TypeOK'
<1>1. ASSUME NEW s \in Schedules, Create(f, s) PROVE TypeOK'
  <2> DEFINE due == IF s.kind = "once" THEN MinOf(s.at) ELSE NextOccurrence(s, now)
             row == [Absent EXCEPT !.status = "active", !.schedule = s, !.due = due, !.revision = 1]
  <2>1. now \in Nat
    BY BoundsAssumption DEF TypeOK
  <2>2. due \in Times
    <3>1. CASE s.kind = "once"
      <4>1. s.at \in SUBSET Times /\ s.at # {}
        BY <3>1, ScheduleParts, SchedulesAssumption
      <4> QED
        BY <3>1, <4>1, MinIsLeast
    <3>2. CASE s.kind # "once"
      BY <1>1, <2>1, <3>2, NextIsFirst DEF Create
    <3> QED
      BY <3>1, <3>2
  <2> HIDE DEF due
  <2>3. due \in Nat /\ due - 1 \in Nat /\ due # None
    BY <2>2, BoundsAssumption DEF Times, None
  <2>4. RowOK(row)
    BY <2>2, <2>3, StartsTyped DEF RowOK, Row, Absent
  <2>5. followUp' = [followUp EXCEPT ![f] = row]
    BY <1>1 DEF Create, due
  <2>6. since' = [since EXCEPT ![f] = IF s.kind = "once" THEN due - 1 ELSE now]
    BY <1>1 DEF Create, due
  <2> HIDE DEF row
  <2>7. followUp' \in [FollowUps -> Row] /\ \A g \in FollowUps : RowOK(followUp'[g])
    BY <2>4, <2>5 DEF TypeOK, RowOK
  <2>8. since' \in [FollowUps -> Nat]
    BY <2>1, <2>3, <2>6 DEF TypeOK
  <2> QED
    BY <1>1, <2>7, <2>8 DEF TypeOK, Create
<1>2. CASE Cancel(f)
  <2>1. followUp' \in [FollowUps -> Row] /\ \A g \in FollowUps : RowOK(followUp'[g])
    BY <1>2, CancelledTyped DEF TypeOK, Cancel, RowOK
  <2> QED
    BY <1>2, <2>1, PendingCancelledTyped DEF TypeOK, Cancel
<1>3. CASE ArchiveSession
  <2>1. followUp' \in [FollowUps -> Row] /\ \A g \in FollowUps : RowOK(followUp'[g])
    BY <1>3, CancelledTyped DEF TypeOK, ArchiveSession, RowOK
  <2> QED
    BY <1>3, <2>1, PendingCancelledTyped DEF TypeOK, ArchiveSession
<1>4. CASE UnarchiveSession
  BY <1>4 DEF TypeOK, UnarchiveSession
<1>5. ASSUME NEW e \in Editors, BeginUpdate(e, f) PROVE TypeOK'
  <2>1. PICK s \in Schedules \cup {followUp[f].schedule} :
           edit' = [edit EXCEPT ![e] = [step |-> "update", followUp |-> f,
                      revision |-> followUp[f].revision, at |-> now, schedule |-> s]]
    BY <1>5 DEF BeginUpdate
  <2>2. s \in Schedules /\ followUp[f].revision \in Nat
    BY DEF TypeOK, RowOK, Row
  <2>3. edit' \in [Editors -> Edit]
    BY <2>1, <2>2 DEF TypeOK, Edit
  <2> QED
    BY <1>5, <2>3 DEF TypeOK, BeginUpdate
<1>6. ASSUME NEW e \in Editors, FinishUpdate(e) PROVE TypeOK'
  <2> DEFINE g == edit[e].followUp
             s == edit[e].schedule
             cutover == Cutover(g, edit[e].at)
             next == NextOccurrence(s, cutover)
             row == [followUp[g] EXCEPT !.schedule = s, !.due = next, !.owner = Nobody,
                                        !.leased = FALSE, !.revision = @ + 1]
  <2>1. g \in FollowUps /\ s \in Schedules /\ edit[e].at \in 0..MaxTime
    BY DEF TypeOK, Edit
  <2>2. cutover \in Nat
    BY <2>1, CutoverIsLater
  <2>3. edit' \in [Editors -> Edit]
    BY <1>6, StartsTyped DEF TypeOK, FinishUpdate
  <2>4. CASE UpdateAccepted(e)
    <3>1. followUp' = [followUp EXCEPT ![g] = row] /\ since' = [since EXCEPT ![g] = cutover]
      BY <1>6, <2>4, Zenon DEF FinishUpdate
    <3>2. Active(g) /\ next # None
      BY <2>4 DEF UpdateAccepted
    <3>3. next \in Times
      <4> HIDE DEF next, cutover, s
      <4> QED BY <2>1, <2>2, <3>2, NextIsFirst DEF next
    <3> HIDE DEF next, cutover, s, g
    <3>4. RowOK(row)
      <4>1. followUp[g] \in Row /\ followUp[g].status = "active" /\ followUp[g].revision + 1 \in Nat
        BY <2>1, <3>2 DEF TypeOK, Row, Active
      <4>2. row \in Row /\ row.status = "active" /\ row.due = next /\ row.leased = FALSE
        BY <2>1, <3>3, <4>1 DEF Row
      <4> QED
        BY <3>2, <4>2 DEF RowOK
    <3> HIDE DEF row
    <3>5. followUp' \in [FollowUps -> Row] /\ \A h \in FollowUps : RowOK(followUp'[h])
      BY <3>1, <3>4 DEF TypeOK, RowOK
    <3>6. since' \in [FollowUps -> Nat]
      BY <2>2, <3>1 DEF TypeOK
    <3> QED
      BY <1>6, <2>3, <3>5, <3>6 DEF TypeOK, FinishUpdate
  <2>5. CASE ~UpdateAccepted(e)
    BY <1>6, <2>3, <2>5 DEF TypeOK, FinishUpdate
  <2> QED
    BY <2>4, <2>5
<1> QED
  BY <1>1, <1>2, <1>3, <1>4, <1>5, <1>6

\* A scheduler's claim is of a definition.
LEMMA ClaimParts ==
  ASSUME TypeOK, NEW w \in Schedulers
  PROVE  /\ call[w].followUp \in FollowUps /\ call[w].at \in Nat /\ call[w].at \in 0..MaxTime
         /\ call[w].revision \in Nat /\ call[w].broken \in SUBSET Resources
         /\ followUp[call[w].followUp] \in Row
         /\ followUp[call[w].followUp].schedule \in Schedules
         /\ followUp[call[w].followUp].revision \in Nat
BY BoundsAssumption DEF TypeOK, Call, RowOK, Row

\* The instants an activation records are instants of the schedule from the due
\* time on, and none is left out before the last of them.
LEMMA DueAreNext ==
  ASSUME TypeOK, NEW w \in Schedulers, ValidClaim(w),
         NEW f, f = call[w].followUp
  PROVE  /\ DueInstants(w) \in SUBSET Times
         /\ followUp[f].due \in Times
         /\ \A t \in DueInstants(w) :
              /\ t \in followUp[f].schedule.at /\ followUp[f].due <= t
              /\ \A u \in followUp[f].schedule.at :
                   followUp[f].due <= u /\ u <= t => u \in DueInstants(w)
<1> DEFINE s == followUp[f].schedule
           all == InstantsBetween(s, followUp[f].due - 1, call[w].at)
           limit == Limit(s) - Cardinality(Recorded(f))
<1>1. f \in FollowUps /\ s \in Schedules /\ call[w].at \in Nat
  BY ClaimParts
<1>2. followUp[f].due \in Times
  BY <1>1 DEF ValidClaim, TypeOK, RowOK, Row
<1>3. followUp[f].due \in Nat
  BY <1>2, BoundsAssumption DEF Times
<1>4. limit \in Int
  <2>1. Recorded(f) \in SUBSET Times
    BY DEF Recorded
  <2>2. Cardinality(Recorded(f)) \in Nat
    BY <2>1, TimesAreFinite
  <2>3. Limit(s) \in 1..100
    BY <1>1, ScheduleParts
  <2> QED BY <2>2, <2>3
<1>5. all \in SUBSET Times
  BY <1>1, ScheduleParts
<1>6. DueInstants(w) = FirstOf(all, limit)
  BY DEF DueInstants
<1>7. s.at \in SUBSET Times /\ SearchThrough(s, call[w].at) \in Nat
  BY <1>1, ScheduleParts
<1>8. \A t : t \in all <=> t \in s.at /\ followUp[f].due - 1 < t /\ t <= SearchThrough(s, call[w].at)
  BY DEF InstantsBetween
<1> HIDE DEF all, limit
<1>9. DueInstants(w) \subseteq all
  BY <1>6 DEF FirstOf
<1>10. ASSUME NEW t \in DueInstants(w), NEW u \in s.at, followUp[f].due <= u, u <= t
       PROVE  u \in DueInstants(w)
  <2>1. t \in Nat /\ u \in Nat
    BY <1>5, <1>7, <1>9, TimesAreNumbers
  <2>2. t \in all
    BY <1>9
  <2>3. u \in all
    BY <1>3, <1>7, <1>8, <1>10, <2>1, <2>2
  <2> QED
    BY <1>4, <1>5, <1>6, <1>10, <2>3, FirstOfIsClosed
<1>11. ASSUME NEW t \in DueInstants(w) PROVE t \in s.at /\ followUp[f].due <= t
  <2>1. t \in all /\ t \in Nat
    BY <1>5, <1>9, TimesAreNumbers
  <2> QED
    BY <1>3, <1>8, <2>1
<1> QED
  BY <1>2, <1>5, <1>9, <1>10, <1>11

\* The row an activation leaves.
LEMMA AdvancedRow ==
  ASSUME TypeOK, NEW f \in FollowUps, NEW due \in SUBSET Times, due # {},
         NEW row, row = Advanced(f, due)
  PROVE  /\ RowOK(row) /\ row.schedule = followUp[f].schedule
         /\ row.status \in {"active", "completed"}
         /\ row.status = "active" => row.due = NextOccurrence(row.schedule, MaxOf(due))
         /\ row.status = "completed" =>
              \/ NextOccurrence(row.schedule, MaxOf(due)) = None
              \/ Cardinality(Recorded(f)) + Cardinality(due) >= Limit(row.schedule)
<1> DEFINE s == followUp[f].schedule
           next == NextOccurrence(s, MaxOf(due))
           completed == next = None \/ Cardinality(Recorded(f)) + Cardinality(due) >= Limit(s)
<1>1. followUp[f] \in Row /\ s \in Schedules
  BY DEF TypeOK, Row
<1>2. MaxOf(due) \in Nat
  BY MaxIsLast, TimesAreNumbers
<1>3. next \in Times \cup {None}
  <2> HIDE DEF next, s
  <2> QED BY <1>1, <1>2, NextIsFirst DEF next
<1>4. row = [followUp[f] EXCEPT !.status = IF completed THEN "completed" ELSE "active",
                                !.due = IF completed THEN None ELSE next,
                                !.owner = Nobody, !.leased = FALSE]
  BY Zenon DEF Advanced
<1>5. completed \in BOOLEAN /\ (~completed => next # None)
  OBVIOUS
<1>6. completed => \/ next = None
                   \/ Cardinality(Recorded(f)) + Cardinality(due) >= Limit(s)
  OBVIOUS
<1> HIDE DEF completed, next
<1>7. /\ row \in Row /\ row.schedule = s /\ row.leased = FALSE
      /\ row.status = IF completed THEN "completed" ELSE "active"
      /\ row.due = IF completed THEN None ELSE next
  BY <1>1, <1>3, <1>4, <1>5 DEF Row
<1> QED
  BY <1>5, <1>6, <1>7 DEF RowOK, next

\* What an activation records is an occurrence, and not a blank.
LEMMA RecordedTyped ==
  ASSUME TypeOK, NEW w \in Schedulers, NEW t
  PROVE  OccurrenceOf(w, t) \in Occurrence /\ OccurrenceOf(w, t) # NoOccurrence
<1>1. Outcome(w, t) \in {"skipped", "pre_message_failed", "message_created"}
  BY DEF Outcome
<1> QED
  BY <1>1, ClaimParts DEF OccurrenceOf, Occurrence, NoOccurrence

\* An activation in a session that is not archived records the instants due.
Records(w, f, due) ==
  /\ ~Throws(w) /\ f = call[w].followUp /\ due = DueInstants(w)
  /\ f \in FollowUps /\ due \in SUBSET Times
  /\ occurrence' = [occurrence EXCEPT ![f] =
        [t \in Times |-> IF t \in due THEN OccurrenceOf(w, t) ELSE occurrence[f][t]]]
  /\ IF due = {}
     THEN followUp' = [followUp EXCEPT ![f] =
             [followUp[f] EXCEPT !.owner = Nobody, !.leased = FALSE]]
     ELSE followUp' = [followUp EXCEPT ![f] = Advanced(f, due)]

LEMMA ActivationRecords ==
  ASSUME TypeOK, NEW w \in Schedulers, Activate(w), ~archived
  PROVE  Records(w, call[w].followUp, DueInstants(w))
<1> DEFINE f == call[w].followUp
           due == DueInstants(w)
<1>1. f \in FollowUps
  BY ClaimParts
<1>2. ValidClaim(w)
  BY DEF Activate
<1>3. due \in SUBSET Times
  BY <1>2, DueAreNext
<1>4. /\ ~Throws(w)
      /\ occurrence' = [occurrence EXCEPT ![f] =
            [t \in Times |-> IF t \in due THEN OccurrenceOf(w, t) ELSE @[t]]]
      /\ followUp' = [followUp EXCEPT ![f] =
            IF due = {} THEN [@ EXCEPT !.owner = Nobody, !.leased = FALSE]
            ELSE Advanced(f, due)]
  BY Zenon DEF Activate
<1> QED
  BY <1>1, <1>3, <1>4 DEF Records

\* processNext keeps the types.
LEMMA ProceedTypes ==
  ASSUME TypeOK, NEW w \in Schedulers, Claim(w) \/ Proceed(w) \/ Crash(w)
  PROVE  TypeOK'
<1>0. NoCall \in Call
  BY StartsTyped
<1>1. CASE Claim(w)
  <2>1. PICK f \in Claimable :
          /\ followUp' = [followUp EXCEPT ![f].owner = w, ![f].leased = TRUE]
          /\ call' = [call EXCEPT ![w] = [step |-> "resolve", followUp |-> f,
                         revision |-> followUp[f].revision, at |-> now, broken |-> {}]]
    BY <1>1 DEF Claim
  <2>2. f \in FollowUps /\ Active(f) /\ followUp[f] \in Row /\ RowOK(followUp[f])
    BY DEF Claimable, TypeOK
  <2> DEFINE row == [followUp[f] EXCEPT !.owner = w, !.leased = TRUE]
  <2>3. followUp' = [followUp EXCEPT ![f] = row]
    BY <2>1
  <2>4. RowOK(row)
    BY <2>2, NamesAssumption DEF RowOK, Row, Active
  <2> HIDE DEF row
  <2>5. followUp' \in [FollowUps -> Row] /\ \A g \in FollowUps : RowOK(followUp'[g])
    BY <2>2, <2>3, <2>4 DEF TypeOK, RowOK
  <2>6. call' \in [Schedulers -> Call]
    BY <2>1, <2>2 DEF TypeOK, Call, Row
  <2> QED
    BY <1>1, <2>5, <2>6 DEF TypeOK, Claim
<1>2. CASE Resolve(w)
  <2>1. call' \in [Schedulers -> Call]
    BY <1>2 DEF TypeOK, Call, Resolve
  <2> QED
    BY <1>2, <2>1 DEF TypeOK, Resolve
<1>3. CASE GiveUp(w) \/ Fail(w) \/ Crash(w)
  <2>1. call' \in [Schedulers -> Call]
    BY <1>0, <1>3 DEF TypeOK, GiveUp, Fail, Crash, Finished
  <2>2. CASE Crash(w)
    <3>1. faults' \in 0..MaxFaults
      BY <2>2, BoundsAssumption DEF TypeOK, Crash
    <3> QED BY <2>1, <2>2, <3>1 DEF TypeOK, Crash
  <2> QED
    BY <1>3, <2>1, <2>2 DEF TypeOK, GiveUp, Fail
<1>4. CASE Activate(w)
  <2> DEFINE f == call[w].followUp
             due == DueInstants(w)
  <2>1. call' \in [Schedulers -> Call]
    BY <1>0, <1>4 DEF TypeOK, Activate, Finished
  <2>2. f \in FollowUps
    BY ClaimParts
  <2>3. CASE archived
    <3>1. /\ occurrence' = PendingCancelled({f})
          /\ followUp' = [followUp EXCEPT ![f] = Cancelled(@)]
      BY <1>4, <2>3, Zenon DEF Activate
    <3>2. followUp' \in [FollowUps -> Row] /\ \A g \in FollowUps : RowOK(followUp'[g])
      BY <2>2, <3>1, CancelledTyped DEF TypeOK, RowOK
    <3> QED
      BY <1>4, <2>1, <3>1, <3>2, PendingCancelledTyped DEF TypeOK, Activate
  <2>4. CASE ~archived
    <3> HIDE DEF f, due
    <3>1. /\ due \in SUBSET Times
          /\ occurrence' = [occurrence EXCEPT ![f] =
                [t \in Times |-> IF t \in due THEN OccurrenceOf(w, t) ELSE occurrence[f][t]]]
          /\ IF due = {}
             THEN followUp' = [followUp EXCEPT ![f] =
                     [followUp[f] EXCEPT !.owner = Nobody, !.leased = FALSE]]
             ELSE followUp' = [followUp EXCEPT ![f] = Advanced(f, due)]
      <4>1. Records(w, f, due)
        BY <1>4, <2>4, ActivationRecords DEF f, due
      <4> QED BY <4>1 DEF Records
    <3>2. \A t \in Times : OccurrenceOf(w, t) \in Occurrence
      BY RecordedTyped
    <3>3. occurrence' \in [FollowUps -> [Times -> Occurrence]]
      BY <2>2, <3>1, <3>2 DEF TypeOK
    <3>4. RowOK(followUp'[f]) /\ \A g \in FollowUps : g # f => followUp'[g] = followUp[g]
      <4>1. CASE due = {}
        <5>1. RowOK([followUp[f] EXCEPT !.owner = Nobody, !.leased = FALSE])
          <6>1. RowOK(followUp[f]) /\ followUp[f] \in Row
            BY <2>2 DEF TypeOK
          <6> QED BY <6>1 DEF RowOK, Row
        <5> QED BY <2>2, <3>1, <4>1, <5>1 DEF TypeOK
      <4>2. CASE due # {}
        <5>1. RowOK(Advanced(f, due))
          BY <2>2, <3>1, <4>2, AdvancedRow
        <5> QED BY <2>2, <3>1, <4>2, <5>1 DEF TypeOK
      <4> QED BY <4>1, <4>2
    <3>5. followUp' \in [FollowUps -> Row] /\ \A g \in FollowUps : RowOK(followUp'[g])
      <4>1. \A g \in FollowUps : RowOK(followUp'[g]) /\ followUp'[g] \in Row
        BY <3>4 DEF TypeOK, RowOK
      <4>2. \E v : followUp' = [followUp EXCEPT ![f] = v]
        BY <3>1
      <4> QED BY <4>1, <4>2 DEF TypeOK
    <3> QED
      BY <1>4, <2>1, <3>3, <3>5 DEF TypeOK, Activate
  <2> QED
    BY <2>3, <2>4
<1> QED
  BY <1>1, <1>2, <1>3, <1>4 DEF Proceed

\* Messages, resources, leases and the clock keep the types.
LEMMA SurroundingTypes ==
  ASSUME TypeOK,
         \/ \E f \in FollowUps : \/ LeaseRunsOut(f)
                                 \/ \E t \in Times : WorkOnMessage(f, t) \/ RetryMessage(f, t)
         \/ \E r \in Resources : Break(r) \/ Mend(r)
         \/ Tick
  PROVE  TypeOK'
<1>1. ASSUME NEW f \in FollowUps, LeaseRunsOut(f) PROVE TypeOK'
  <2>1. RowOK(followUp[f])
    BY DEF TypeOK
  <2>2. RowOK([followUp[f] EXCEPT !.leased = FALSE])
    BY <2>1 DEF RowOK, Row
  <2>3. followUp' \in [FollowUps -> Row] /\ \A g \in FollowUps : RowOK(followUp'[g])
    BY <1>1, <2>2 DEF TypeOK, LeaseRunsOut, RowOK
  <2>4. faults' \in 0..MaxFaults
    BY <1>1, BoundsAssumption DEF TypeOK, LeaseRunsOut
  <2> QED
    BY <1>1, <2>3, <2>4 DEF TypeOK, LeaseRunsOut
<1>2. ASSUME NEW f \in FollowUps, NEW t \in Times, WorkOnMessage(f, t) \/ RetryMessage(f, t)
      PROVE  TypeOK'
  <2>1. PICK m \in {"pending", "processing", "done", "failed"} :
           occurrence' = [occurrence EXCEPT ![f][t].message = m]
    BY <1>2 DEF WorkOnMessage, RetryMessage
  <2>2. occurrence[f][t] \in Occurrence
    BY DEF TypeOK
  <2>3. [occurrence[f][t] EXCEPT !.message = m] \in Occurrence
    BY <2>2 DEF Occurrence
  <2>4. occurrence' \in [FollowUps -> [Times -> Occurrence]]
    BY <2>1, <2>3 DEF TypeOK
  <2> QED
    BY <1>2, <2>4 DEF TypeOK, WorkOnMessage, RetryMessage
<1>3. ASSUME NEW r \in Resources, Break(r) \/ Mend(r) PROVE TypeOK'
  <2>1. broken' \subseteq Resources /\ faults' \in 0..MaxFaults
    BY <1>3, BoundsAssumption DEF TypeOK, Break, Mend
  <2> QED
    BY <1>3, <2>1 DEF TypeOK, Break, Mend
<1>4. CASE Tick
  <2>1. now' \in 0..MaxTime
    BY <1>4, BoundsAssumption DEF TypeOK, Tick
  <2> QED
    BY <1>4, <2>1 DEF TypeOK, Tick
<1> QED
  BY <1>1, <1>2, <1>3, <1>4

LEMMA InitTyped == Init => TypeOK
<1> SUFFICES ASSUME Init PROVE TypeOK
  OBVIOUS
<1>1. Absent \in Row /\ RowOK(Absent)
  BY StartsTyped DEF RowOK
<1>2. 0 \in 0..MaxTime /\ 0 \in 0..MaxFaults
  BY BoundsAssumption
<1>3. followUp \in [FollowUps -> Row] /\ \A f \in FollowUps : RowOK(followUp[f])
  BY <1>1 DEF Init
<1> QED
  BY <1>2, <1>3, StartsTyped DEF Init, TypeOK

LEMMA TypeStep == TypeOK /\ [Next]_vars => TypeOK'
<1> SUFFICES ASSUME TypeOK, [Next]_vars PROVE TypeOK'
  OBVIOUS
<1>1. CASE UNCHANGED vars
  BY <1>1 DEF TypeOK, vars
<1>2. CASE Next
  <2>1. FollowUps # {}
    BY NamesAssumption
  <2> QED
    BY <1>2, <2>1, RequestTypes, ProceedTypes, SurroundingTypes DEF Next
<1> QED
  BY <1>1, <1>2

\* Every row, claim and request keeps its shape, and only an active definition is
\* due or leased, for any definitions, schedulers, schedules and bounds.
THEOREM FollowUpTyped == Spec => []TypeOK
BY InitTyped, TypeStep, PTL DEF Spec

-----------------------------------------------------------------------------
(* Due times and occurrences.                                              *)

\* What holds of one definition: nothing is recorded of an absent one; what is
\* due comes after the records, and everything owed before it has one.
Dated(f) ==
  /\ followUp[f].status = "absent" => Recorded(f) = {}
  /\ Active(f) => \A t \in Recorded(f) : t < followUp[f].due
  /\ Active(f) => \A t \in Owed(f) : t < followUp[f].due => t \in Recorded(f)
  /\ followUp[f].status = "completed" =>
        \/ Owed(f) \subseteq Recorded(f)
        \/ Cardinality(Recorded(f)) >= Limit(followUp[f].schedule)
  /\ \A t \in Recorded(f) : occurrence[f][t].resolved = occurrence[f][t].revision

Silent == archived => \A f \in FollowUps : ~Active(f)

\* The inductive invariant.
IInv == TypeOK /\ Silent /\ \A f \in FollowUps : Dated(f)

\* The records of f stay; what they say of their message may change.
SameRecords(f) ==
  \A t \in Times :
    \/ occurrence'[f][t] = occurrence[f][t]
    \/ /\ occurrence[f][t] # NoOccurrence /\ occurrence'[f][t] # NoOccurrence
       /\ occurrence'[f][t].resolved = occurrence[f][t].resolved
       /\ occurrence'[f][t].revision = occurrence[f][t].revision
SameRow(f) ==
  /\ followUp'[f].status = followUp[f].status /\ followUp'[f].schedule = followUp[f].schedule
  /\ followUp'[f].due = followUp[f].due /\ since'[f] = since[f]

LEMMA RecordsStay ==
  ASSUME NEW f, SameRecords(f)
  PROVE  /\ Recorded(f)' = Recorded(f)
         /\ \A t \in Recorded(f) : /\ occurrence'[f][t].resolved = occurrence[f][t].resolved
                                   /\ occurrence'[f][t].revision = occurrence[f][t].revision
BY DEF Recorded, SameRecords

LEMMA SameIsDated ==
  ASSUME NEW f \in FollowUps, Dated(f), SameRecords(f), SameRow(f)
  PROVE  Dated(f)'
<1>1. Owed(f)' = Owed(f) /\ Active(f)' = Active(f)
  BY DEF Owed, SameRow, Active
<1> QED
  BY <1>1, RecordsStay DEF Dated, SameRow

LEMMA CancelledIsDated ==
  ASSUME NEW f \in FollowUps, Dated(f), SameRecords(f), followUp'[f].status = "cancelled"
  PROVE  Dated(f)'
BY RecordsStay DEF Dated, Active

\* Cancelling pending messages leaves the records.
LEMMA PendingCancelledStay ==
  ASSUME TypeOK, NEW of, occurrence' = PendingCancelled(of), NEW f \in FollowUps
  PROVE  SameRecords(f)
<1> SUFFICES ASSUME NEW t \in Times, occurrence'[f][t] # occurrence[f][t]
             PROVE  /\ occurrence[f][t] # NoOccurrence /\ occurrence'[f][t] # NoOccurrence
                    /\ occurrence'[f][t].resolved = occurrence[f][t].resolved
                    /\ occurrence'[f][t].revision = occurrence[f][t].revision
  BY DEF SameRecords
<1>1. occurrence[f][t] \in Occurrence
  BY DEF TypeOK
<1>2. /\ occurrence[f][t].message = "pending"
      /\ occurrence'[f][t] = [occurrence[f][t] EXCEPT !.message = "done"]
  BY DEF PendingCancelled
<1> QED
  BY <1>1, <1>2 DEF Occurrence, NoOccurrence

\* An update that is accepted: the next due time is the first after the cutover.
LEMMA UpdatedIsDated ==
  ASSUME IInv, NEW e \in Editors, FinishUpdate(e), NEW f \in FollowUps, TypeOK'
  PROVE  Dated(f)'
<1> DEFINE g == edit[e].followUp
           s == edit[e].schedule
           cutover == Cutover(g, edit[e].at)
<1>1. SameRecords(f)
  BY DEF FinishUpdate, SameRecords
<1>2. g \in FollowUps /\ s \in Schedules /\ edit[e].at \in 0..MaxTime
  BY DEF IInv, TypeOK, Edit
<1>3. ASSUME UpdateAccepted(e), f = g PROVE Dated(f)'
  <2>1. /\ followUp'[f].schedule = s /\ followUp'[f].due = NextOccurrence(s, cutover)
        /\ followUp'[f].status = "active" /\ since'[f] = cutover
    <3>1. /\ followUp' = [followUp EXCEPT ![g] =
               [followUp[g] EXCEPT !.schedule = s, !.due = NextOccurrence(s, cutover),
                                   !.owner = Nobody, !.leased = FALSE, !.revision = @ + 1]]
          /\ since' = [since EXCEPT ![g] = cutover]
      BY <1>3, Zenon DEF FinishUpdate
    <3>2. followUp[g] \in Row /\ followUp[g].status = "active"
      BY <1>2, <1>3 DEF IInv, TypeOK, UpdateAccepted, Active
    <3>3. followUp'[g] = [followUp[g] EXCEPT !.schedule = s, !.due = NextOccurrence(s, cutover),
                                   !.owner = Nobody, !.leased = FALSE, !.revision = @ + 1]
      BY <1>2, <3>1 DEF IInv, TypeOK
    <3>4. since'[g] = cutover
      BY <1>2, <3>1 DEF IInv, TypeOK
    <3> QED
      BY <1>3, <3>2, <3>3, <3>4 DEF Row
  <2>2. NextOccurrence(s, cutover) # None
    BY <1>3 DEF UpdateAccepted
  <2>3. cutover \in Nat /\ \A t \in Recorded(f) : t <= cutover
    BY <1>2, <1>3, CutoverIsLater DEF IInv
  <2> HIDE DEF cutover, s, g
  <2>4. /\ followUp'[f].due \in Times /\ cutover < followUp'[f].due
        /\ \A t \in s.at : cutover < t /\ t <= SearchThrough(s, Horizon) => followUp'[f].due <= t
    BY <1>2, <2>1, <2>2, <2>3, NextIsFirst
  <2>5. \A t \in Recorded(f) \cup s.at : t \in Nat
    BY <1>2, TimesAreNumbers, ScheduleParts DEF Recorded
  <2>6. followUp'[f].due \in Nat
    BY <2>4, TimesAreNumbers
  <2>7. \A t \in Recorded(f)' : t < followUp'[f].due
    BY <1>1, <2>3, <2>4, <2>5, <2>6, RecordsStay
  <2>8. \A t \in Owed(f)' : ~(t < followUp'[f].due)
    BY <2>1, <2>3, <2>4, <2>5, <2>6 DEF Owed
  <2> QED
    BY <1>1, <2>1, <2>7, <2>8, RecordsStay DEF Dated, IInv, Active
<1>4. ASSUME UpdateAccepted(e), f # g PROVE Dated(f)'
  <2>1. followUp'[f] = followUp[f] /\ since'[f] = since[f]
    BY <1>4 DEF FinishUpdate, IInv, TypeOK
  <2> QED
    BY <1>1, <2>1, SameIsDated DEF IInv, SameRow
<1>5. ASSUME ~UpdateAccepted(e) PROVE Dated(f)'
  BY <1>1, <1>5, SameIsDated DEF FinishUpdate, IInv, SameRow
<1> QED
  BY <1>3, <1>4, <1>5

\* A definition that is created is due at its first instant.
LEMMA CreatedIsDated ==
  ASSUME IInv, NEW f \in FollowUps, NEW s \in Schedules, Create(f, s), NEW g \in FollowUps
  PROVE  Dated(g)'
<1> DEFINE due == IF s.kind = "once" THEN MinOf(s.at) ELSE NextOccurrence(s, now)
           from == IF s.kind = "once" THEN due - 1 ELSE now
<1>1. SameRecords(g)
  BY DEF Create, SameRecords
<1>2. CASE g # f
  <2>1. followUp'[g] = followUp[g] /\ since'[g] = since[g]
    BY <1>2 DEF Create, IInv, TypeOK
  <2> QED
    BY <1>1, <2>1, SameIsDated DEF IInv, SameRow
<1>3. CASE g = f
  <2>1. /\ followUp'[f].status = "active" /\ followUp'[f].schedule = s
        /\ followUp'[f].due = due /\ since'[f] = from
    <3>1. /\ followUp' = [followUp EXCEPT ![f] = [Absent EXCEPT !.status = "active",
                             !.schedule = s, !.due = due, !.revision = 1]]
          /\ since' = [since EXCEPT ![f] = from]
      BY Zenon DEF Create
    <3>2. followUp'[f] = [Absent EXCEPT !.status = "active",
                             !.schedule = s, !.due = due, !.revision = 1]
      BY <3>1 DEF IInv, TypeOK
    <3>3. since'[f] = from
      BY <3>1 DEF IInv, TypeOK
    <3> QED
      BY <3>2, <3>3 DEF Absent
  <2>2. Recorded(f) = {}
    BY DEF IInv, Dated, Create
  <2>3. \A t \in s.at : from < t /\ t <= SearchThrough(s, Horizon) => due <= t
    <3>1. CASE s.kind = "once"
      <4>1. s.at \in SUBSET Times /\ s.at # {}
        BY <3>1, ScheduleParts, SchedulesAssumption
      <4> QED
        BY <3>1, <4>1, MinIsLeast
    <3>2. CASE s.kind # "once"
      <4>1. now \in Nat
        BY BoundsAssumption DEF IInv, TypeOK
      <4> QED
        BY <3>2, <4>1, NextIsFirst
    <3> QED
      BY <3>1, <3>2
  <2>4. due \in Nat
    <3>1. CASE s.kind = "once"
      <4>1. s.at \in SUBSET Times /\ s.at # {}
        BY <3>1, ScheduleParts, SchedulesAssumption
      <4> QED
        BY <3>1, <4>1, MinIsLeast, TimesAreNumbers
    <3>2. CASE s.kind # "once"
      <4>1. now \in Nat
        BY BoundsAssumption DEF IInv, TypeOK
      <4>2. due # None
        BY Zenon DEF Create
      <4> QED
        BY <3>2, <4>1, <4>2, NextIsFirst, TimesAreNumbers
    <3> QED
      BY <3>1, <3>2
  <2> HIDE DEF due, from
  <2>5. \A t \in Owed(f)' : ~(t < followUp'[f].due)
    <3>1. \A t \in s.at : t \in Nat
      BY ScheduleParts, TimesAreNumbers
    <3> QED
      BY <2>1, <2>3, <2>4, <3>1 DEF Owed
  <2>6. Recorded(f)' = {}
    BY <1>1, <1>3, <2>2, RecordsStay
  <2> QED
    BY <1>3, <2>1, <2>5, <2>6 DEF Dated, Active
<1> QED
  BY <1>2, <1>3

\* An activation that records something: nothing is passed over up to the last
\* instant it records, and what is due next lies behind that.
LEMMA RecordedIsDated ==
  ASSUME IInv, NEW w \in Schedulers, ValidClaim(w), NEW f, NEW due, Records(w, f, due), due # {},
         since' = since
  PROVE  Dated(f)'
<1> DEFINE s == followUp[f].schedule
           last == MaxOf(due)
           next == NextOccurrence(s, last)
<1>1. TypeOK /\ f \in FollowUps /\ due \in SUBSET Times /\ f = call[w].followUp /\ due = DueInstants(w)
  BY DEF IInv, Records
<1>2. s \in Schedules /\ s.at \in SUBSET Times
  BY <1>1, ClaimParts, ScheduleParts
<1>3. /\ followUp[f].due \in Times
      /\ \A t \in due : /\ t \in s.at /\ followUp[f].due <= t
                        /\ \A u \in s.at : followUp[f].due <= u /\ u <= t => u \in due
  BY <1>1, DueAreNext
<1>4. last \in due /\ \A t \in due : t <= last
  BY <1>1, MaxIsLast
<1>5. followUp'[f] = Advanced(f, due)
  BY <1>1 DEF Records, TypeOK
<1>6. /\ followUp'[f].schedule = s /\ followUp'[f].status \in {"active", "completed"}
      /\ RowOK(followUp'[f])
      /\ followUp'[f].status = "active" => followUp'[f].due = next
      /\ followUp'[f].status = "completed" =>
            \/ next = None
            \/ Cardinality(Recorded(f)) + Cardinality(due) >= Limit(s)
  BY <1>1, <1>5, AdvancedRow
<1>7. /\ \A t \in Times : occurrence'[f][t] =
                             IF t \in due THEN OccurrenceOf(w, t) ELSE occurrence[f][t]
      /\ \A t \in due : OccurrenceOf(w, t) # NoOccurrence
  BY <1>1, RecordedTyped DEF Records, TypeOK
<1>8. Recorded(f)' = Recorded(f) \cup due
  BY <1>1, <1>7 DEF Recorded
<1>9. Active(f)
  BY <1>1 DEF ValidClaim, Active
<1>10. Dated(f)
  BY <1>1 DEF IInv
<1>11. Recorded(f) \in SUBSET Times
  BY DEF Recorded
<1>12. last \in Nat /\ followUp[f].due \in Nat /\ \A t \in Recorded(f) \cup due \cup s.at : t \in Nat
  BY <1>1, <1>2, <1>3, <1>4, <1>11, TimesAreNumbers
<1>13. \A t \in Recorded(f)' : t <= last
  <2>1. followUp[f].due <= last
    BY <1>3, <1>4
  <2>2. \A t \in Recorded(f) : t < followUp[f].due
    BY <1>9, <1>10 DEF Dated
  <2>3. \A t \in Recorded(f) : t <= last
    BY <1>12, <2>1, <2>2
  <2> QED
    BY <1>4, <1>8, <2>3
<1>14. Owed(f)' = Owed(f) /\ Owed(f) \subseteq s.at
  BY <1>6 DEF Owed
<1>15. ASSUME NEW t \in Owed(f), t <= last PROVE t \in Recorded(f)'
  <2>1. CASE t < followUp[f].due
    BY <1>8, <1>9, <1>10, <2>1 DEF Dated
  <2>2. CASE ~(t < followUp[f].due)
    <3>1. followUp[f].due <= t /\ t \in s.at
      BY <1>12, <1>14, <2>2
    <3>2. t \in due
      BY <1>3, <1>4, <1>15, <3>1
    <3> QED
      BY <1>8, <3>2
  <2> QED
    BY <2>1, <2>2
<1>16. /\ next \in Times \cup {None} /\ (next # None => last < next /\ next \in Nat)
       /\ \A t \in Owed(f) : last < t => next # None /\ next <= t
  <2>1. \A t \in Owed(f) : t \in s.at /\ t <= SearchThrough(s, Horizon)
    BY DEF Owed
  <2> HIDE DEF next, last, s
  <2> QED
    BY <1>2, <1>12, <2>1, NextIsFirst, TimesAreNumbers DEF next
<1>17. \A t \in Recorded(f)' : occurrence'[f][t].resolved = occurrence'[f][t].revision
  <2>1. \A t \in due : OccurrenceOf(w, t).resolved = OccurrenceOf(w, t).revision
    BY <1>1 DEF OccurrenceOf, ValidClaim
  <2>2. \A t \in Recorded(f) : occurrence[f][t].resolved = occurrence[f][t].revision
    BY <1>10 DEF Dated
  <2> QED
    BY <1>1, <1>7, <1>8, <1>11, <2>1, <2>2
<1> HIDE DEF next, last, s
<1>18. followUp'[f].status = "active" =>
         /\ \A t \in Recorded(f)' : t < followUp'[f].due
         /\ \A t \in Owed(f)' : t < followUp'[f].due => t \in Recorded(f)'
  <2> SUFFICES ASSUME followUp'[f].status = "active"
               PROVE  /\ \A t \in Recorded(f)' : t < followUp'[f].due
                      /\ \A t \in Owed(f)' : t < followUp'[f].due => t \in Recorded(f)'
    OBVIOUS
  <2>1. followUp'[f].due = next /\ next # None
    BY <1>6 DEF RowOK
  <2>2. last < next /\ next \in Nat
    BY <1>16, <2>1
  <2>3. \A t \in Recorded(f)' : t < next
    BY <1>8, <1>12, <1>13, <2>2
  <2>4. ASSUME NEW t \in Owed(f), t < next PROVE t \in Recorded(f)'
    <3>1. t \in Nat
      BY <1>12, <1>14
    <3>2. t <= last
      BY <1>12, <1>16, <2>2, <2>4, <3>1
    <3> QED
      BY <1>15, <3>2
  <2> QED
    BY <1>14, <2>1, <2>3, <2>4
<1>19. followUp'[f].status = "completed" =>
         \/ Owed(f)' \subseteq Recorded(f)'
         \/ Cardinality(Recorded(f)') >= Limit(s)
  <2>1. CASE next = None
    <3>1. \A t \in Owed(f) : t <= last
      BY <1>12, <1>14, <1>16, <2>1
    <3> QED
      BY <1>14, <1>15, <3>1
  <2>2. CASE Cardinality(Recorded(f)) + Cardinality(due) >= Limit(s)
    <3>1. Recorded(f) \cap due = {}
      BY <1>1 DEF Records, Throws
    <3>2. Cardinality(Recorded(f) \cup due) = Cardinality(Recorded(f)) + Cardinality(due)
      <4>1. /\ IsFiniteSet(Recorded(f)) /\ Cardinality(Recorded(f)) \in Nat
            /\ IsFiniteSet(due) /\ Cardinality(due) \in Nat
        BY <1>1, <1>11, TimesAreFinite
      <4>2. Cardinality(Recorded(f) \cup due) =
               Cardinality(Recorded(f)) + Cardinality(due) - Cardinality(Recorded(f) \cap due)
        BY <4>1, FS_Union
      <4> QED
        BY <3>1, <4>1, <4>2, FS_EmptySet
    <3> QED
      BY <1>8, <2>2, <3>2
  <2> QED
    BY <1>6, <2>1, <2>2
<1> QED
  BY <1>6, <1>17, <1>18, <1>19 DEF Dated, Active

\* The steps that change neither the records nor what they are compared with.
LEMMA OtherStepsStay ==
  ASSUME TypeOK, NEW f \in FollowUps,
         \/ UNCHANGED vars
         \/ UnarchiveSession \/ Tick
         \/ \E e \in Editors, g \in FollowUps : BeginUpdate(e, g)
         \/ \E w \in Schedulers : Claim(w) \/ Resolve(w) \/ GiveUp(w) \/ Fail(w) \/ Crash(w)
         \/ \E r \in Resources : Break(r) \/ Mend(r)
         \/ \E g \in FollowUps : \/ LeaseRunsOut(g)
                                 \/ \E t \in Times : WorkOnMessage(g, t) \/ RetryMessage(g, t)
  PROVE  SameRecords(f) /\ SameRow(f)
<1>1. CASE UNCHANGED rows
  BY <1>1 DEF SameRecords, SameRow
<1>2. ASSUME NEW w \in Schedulers, Claim(w) PROVE SameRecords(f) /\ SameRow(f)
  <2>1. PICK g \in Claimable : followUp' = [followUp EXCEPT ![g].owner = w, ![g].leased = TRUE]
    BY <1>2 DEF Claim
  <2>2. followUp[f] \in Row
    BY DEF TypeOK
  <2>3. /\ followUp'[f].status = followUp[f].status /\ followUp'[f].schedule = followUp[f].schedule
        /\ followUp'[f].due = followUp[f].due
    BY <2>1, <2>2 DEF TypeOK, Row
  <2> QED
    BY <1>2, <2>3 DEF Claim, SameRecords, SameRow
<1>3. ASSUME NEW g \in FollowUps, LeaseRunsOut(g) PROVE SameRecords(f) /\ SameRow(f)
  BY <1>3 DEF LeaseRunsOut, SameRecords, SameRow, TypeOK, Row
<1>4. ASSUME NEW g \in FollowUps, NEW t \in Times, WorkOnMessage(g, t) \/ RetryMessage(g, t)
      PROVE  SameRecords(f) /\ SameRow(f)
  <2>1. PICK m \in {"pending", "processing", "done", "failed"} :
           /\ occurrence' = [occurrence EXCEPT ![g][t].message = m]
           /\ occurrence[g][t].message # "none"
    BY <1>4 DEF WorkOnMessage, RetryMessage
  <2>2. SUFFICES ASSUME NEW u \in Times, occurrence'[f][u] # occurrence[f][u]
                 PROVE  /\ occurrence[f][u] # NoOccurrence /\ occurrence'[f][u] # NoOccurrence
                        /\ occurrence'[f][u].resolved = occurrence[f][u].resolved
                        /\ occurrence'[f][u].revision = occurrence[f][u].revision
    BY <1>4 DEF SameRecords, SameRow, WorkOnMessage, RetryMessage
  <2>3. /\ f = g /\ u = t /\ occurrence[f][u] \in Occurrence
        /\ occurrence'[f][u] = [occurrence[f][u] EXCEPT !.message = m]
    BY <2>1, <2>2 DEF TypeOK
  <2> QED
    BY <2>1, <2>3 DEF Occurrence, NoOccurrence
<1> QED
  BY <1>1, <1>2, <1>3, <1>4
     DEF vars, UnarchiveSession, Tick, BeginUpdate, Resolve, GiveUp, Fail, Crash, Break, Mend

\* Every step keeps what holds of a definition.
LEMMA DatedStep ==
  ASSUME IInv, [Next]_vars, TypeOK', NEW f \in FollowUps
  PROVE  Dated(f)'
<1>0. TypeOK /\ Dated(f)
  BY DEF IInv
<1>1. ASSUME NEW g \in FollowUps, NEW s \in Schedules, Create(g, s) PROVE Dated(f)'
  BY <1>1, CreatedIsDated
<1>2. ASSUME NEW e \in Editors, FinishUpdate(e) PROVE Dated(f)'
  BY <1>2, UpdatedIsDated
<1>3. ASSUME NEW g \in FollowUps, followUp' = [followUp EXCEPT ![g] = Cancelled(@)],
             occurrence' = PendingCancelled({g}), since' = since
      PROVE  Dated(f)'
  <2>1. SameRecords(f)
    BY <1>0, <1>3, PendingCancelledStay
  <2>2. CASE f = g
    <3>1. followUp'[f].status = "cancelled"
      BY <1>0, <1>3, <2>2 DEF TypeOK, Row, Cancelled
    <3> QED
      BY <1>0, <2>1, <3>1, CancelledIsDated
  <2>3. CASE f # g
    BY <1>0, <1>3, <2>1, <2>3, SameIsDated DEF SameRow, TypeOK
  <2> QED
    BY <2>2, <2>3
<1>4. CASE ArchiveSession
  <2>1. SameRecords(f)
    BY <1>0, <1>4, PendingCancelledStay DEF ArchiveSession
  <2>2. CASE Active(f)
    <3>1. followUp'[f].status = "cancelled"
      BY <1>0, <1>4, <2>2 DEF ArchiveSession, TypeOK, Row, Cancelled
    <3> QED
      BY <1>0, <2>1, <3>1, CancelledIsDated
  <2>3. CASE ~Active(f)
    BY <1>0, <1>4, <2>1, <2>3, SameIsDated DEF ArchiveSession, SameRow
  <2> QED
    BY <2>2, <2>3
<1>5. ASSUME NEW w \in Schedulers, Activate(w) PROVE Dated(f)'
  <2>1. ValidClaim(w) /\ since' = since
    BY <1>5 DEF Activate
  <2>2. CASE archived
    <3>1. /\ occurrence' = PendingCancelled({call[w].followUp})
          /\ followUp' = [followUp EXCEPT ![call[w].followUp] = Cancelled(@)]
      BY <1>5, <2>2, Zenon DEF Activate
    <3> QED
      BY <1>0, <1>3, <2>1, <3>1, ClaimParts
  <2>3. CASE ~archived
    <3> DEFINE g == call[w].followUp
               due == DueInstants(w)
    <3>1. Records(w, g, due)
      BY <1>0, <1>5, <2>3, ActivationRecords
    <3> HIDE DEF g, due
    <3>2. CASE f = g /\ due # {}
      BY <2>1, <3>1, <3>2, RecordedIsDated
    <3>3. CASE f # g
      <4>1. followUp'[f] = followUp[f] /\ occurrence'[f] = occurrence[f]
        BY <1>0, <3>1, <3>3 DEF Records, TypeOK
      <4> QED
        BY <1>0, <2>1, <4>1, SameIsDated DEF SameRecords, SameRow
    <3>4. CASE f = g /\ due = {}
      <4>1. followUp'[f] = [followUp[f] EXCEPT !.owner = Nobody, !.leased = FALSE]
        BY <1>0, <3>1, <3>4 DEF Records, TypeOK
      <4>2. \A t \in Times : occurrence'[f][t] = occurrence[f][t]
        BY <1>0, <3>1, <3>4 DEF Records, TypeOK
      <4>3. followUp[f] \in Row
        BY <1>0 DEF TypeOK
      <4>4. SameRow(f)
        BY <2>1, <4>1, <4>3 DEF SameRow, Row
      <4> QED
        BY <1>0, <4>2, <4>4, SameIsDated DEF SameRecords
    <3> QED
      BY <3>2, <3>3, <3>4
  <2> QED
    BY <2>2, <2>3
<1>6. ASSUME NEW g \in FollowUps, Cancel(g) PROVE Dated(f)'
  BY <1>3, <1>6 DEF Cancel
<1>7. CASE SameRecords(f) /\ SameRow(f)
  BY <1>0, <1>7, SameIsDated
<1> QED
  BY <1>0, <1>1, <1>2, <1>4, <1>5, <1>6, <1>7, OtherStepsStay DEF Next, Proceed

\* Every step leaves an archived session without active definitions.
LEMMA SilentStep ==
  ASSUME IInv, [Next]_vars
  PROVE  Silent'
<1>0. TypeOK /\ Silent
  BY DEF IInv
<1> SUFFICES ASSUME archived', NEW f \in FollowUps, Active(f)'
             PROVE  FALSE
  BY DEF Silent
<1>1. ASSUME SameRow(f), UNCHANGED archived PROVE FALSE
  BY <1>0, <1>1 DEF Silent, SameRow, Active
<1>2. ASSUME NEW g \in FollowUps, NEW s \in Schedules, Create(g, s) PROVE FALSE
  BY <1>2 DEF Create
<1>3. ASSUME NEW e \in Editors, FinishUpdate(e) PROVE FALSE
  <2>1. archived /\ ~Active(f) /\ \A g \in FollowUps : ~Active(g)
    BY <1>0, <1>3 DEF FinishUpdate, Silent
  <2>2. ~UpdateAccepted(e)
    BY <1>0, <2>1 DEF UpdateAccepted, TypeOK, Edit
  <2> QED
    BY <1>3, <2>1, <2>2 DEF FinishUpdate, Active
<1>4. CASE ArchiveSession
  <2>1. followUp'[f].status # "active"
    BY <1>0, <1>4 DEF ArchiveSession, TypeOK, Row, Cancelled, Active
  <2> QED
    BY <2>1 DEF Active
<1>5. ASSUME NEW g \in FollowUps, Cancel(g) PROVE FALSE
  BY <1>0, <1>5 DEF Cancel, Silent
<1>6. ASSUME NEW w \in Schedulers, Activate(w) PROVE FALSE
  <2>1. archived /\ Active(call[w].followUp)
    BY <1>6 DEF Activate, ValidClaim, Active
  <2> QED
    BY <1>0, <2>1, ClaimParts DEF Silent
<1>7. CASE UnarchiveSession
  BY <1>7 DEF UnarchiveSession
<1> QED
  BY <1>0, <1>1, <1>2, <1>3, <1>4, <1>5, <1>6, <1>7, OtherStepsStay
     DEF Next, Proceed, vars, Tick, BeginUpdate, Claim, Resolve, GiveUp, Fail, Crash, Break, Mend,
         LeaseRunsOut, WorkOnMessage, RetryMessage

LEMMA InitInv == Init => IInv
<1> SUFFICES ASSUME Init PROVE IInv
  OBVIOUS
<1>1. TypeOK
  BY InitTyped
<1>2. Silent
  BY DEF Init, Silent
<1>3. ASSUME NEW f \in FollowUps PROVE Dated(f)
  BY DEF Init, Dated, Recorded, Active, Absent
<1> QED
  BY <1>1, <1>2, <1>3 DEF IInv

LEMMA InvStep == IInv /\ [Next]_vars => IInv'
<1> SUFFICES ASSUME IInv, [Next]_vars PROVE IInv'
  OBVIOUS
<1>1. TypeOK'
  BY TypeStep DEF IInv
<1> QED
  BY <1>1, DatedStep, SilentStep DEF IInv

\* The inductive invariant holds.
THEOREM FollowUpInvariant == Spec => []IInv
BY InitInv, InvStep, PTL DEF Spec

\* What is due comes after everything that has been recorded.
THEOREM DueComesAfterTheRecords == Spec => []DueIsAhead
<1>1. IInv => DueIsAhead
  BY DEF IInv, Dated, DueIsAhead
<1> QED
  BY <1>1, FollowUpInvariant, PTL

\* An activation with a valid claim never meets the unique index on
\* (scheduled_follow_up_id, scheduled_at).
THEOREM NoInstantTwice ==
  Spec => [](\A w \in Schedulers :
                ValidClaim(w) => DueInstants(w) \cap Recorded(call[w].followUp) = {})
<1>1. IInv => \A w \in Schedulers :
                ValidClaim(w) => DueInstants(w) \cap Recorded(call[w].followUp) = {}
  <2> SUFFICES ASSUME IInv, NEW w \in Schedulers, ValidClaim(w),
                      NEW t \in DueInstants(w), t \in Recorded(call[w].followUp)
               PROVE  FALSE
    OBVIOUS
  <2> DEFINE f == call[w].followUp
  <2>1. TypeOK /\ f \in FollowUps /\ Active(f)
    BY ClaimParts DEF IInv, ValidClaim, Active
  <2>2. t < followUp[f].due
    BY <2>1 DEF IInv, Dated
  <2>3. t \in Times /\ followUp[f].due \in Times /\ followUp[f].due <= t
    BY <2>1, DueAreNext
  <2> QED
    BY <2>2, <2>3, TimesAreNumbers
<1> QED
  BY <1>1, FollowUpInvariant, PTL

\* No instant is passed over: a definition has a record of everything it owed
\* before its due time, and completes when nothing more is owed or its limit is
\* reached.
THEOREM NothingIsPassedOver == Spec => []DueIsRecorded
<1>1. IInv => DueIsRecorded
  BY DEF IInv, Dated, DueIsRecorded
<1> QED
  BY <1>1, FollowUpInvariant, PTL

\* An occurrence was decided with a context of the revision the transaction found.
THEOREM ContextOfTheRevision == Spec => []ContextIsCurrent
<1>1. IInv => ContextIsCurrent
  BY DEF IInv, Dated, ContextIsCurrent
<1> QED
  BY <1>1, FollowUpInvariant, PTL

\* In an archived session a message is pending only if it, or the run that took
\* it, was there before.
LEMMA NothingIsPut ==
  ASSUME IInv, [Next]_vars, archived, NEW f \in FollowUps, NEW t \in Times,
         occurrence'[f][t].message = "pending"
  PROVE  occurrence[f][t].message \in {"pending", "processing"}
<1>0. TypeOK /\ \A g \in FollowUps : ~Active(g)
  BY DEF IInv, Silent
<1>1. CASE occurrence'[f][t] = occurrence[f][t]
  BY <1>1
<1>2. ASSUME NEW of, occurrence' = PendingCancelled(of)
      PROVE  occurrence[f][t].message \in {"pending", "processing"}
  <2>1. occurrence[f][t] \in Occurrence
    BY <1>0 DEF TypeOK
  <2> QED
    BY <1>2, <2>1 DEF PendingCancelled, Occurrence
<1>3. ASSUME NEW w \in Schedulers, ValidClaim(w)
      PROVE  FALSE
  BY <1>0, <1>3, ClaimParts DEF ValidClaim, Active
<1>4. ASSUME NEW g \in FollowUps, NEW u \in Times, WorkOnMessage(g, u)
      PROVE  occurrence[f][t].message \in {"pending", "processing"}
  <2>1. CASE f = g /\ t = u
    BY <1>4, <2>1 DEF WorkOnMessage
  <2>2. CASE ~(f = g /\ t = u)
    <3>1. occurrence'[f][t] = occurrence[f][t]
      BY <1>0, <1>4, <2>2 DEF WorkOnMessage, TypeOK
    <3> QED BY <3>1
  <2> QED
    BY <2>1, <2>2
<1>5. ASSUME NEW g \in FollowUps, NEW s \in Schedules, Create(g, s) PROVE FALSE
  BY <1>5 DEF Create
<1>6. ASSUME NEW g \in FollowUps, NEW u \in Times, RetryMessage(g, u) PROVE FALSE
  BY <1>6 DEF RetryMessage
<1>7. CASE UNCHANGED occurrence
  BY <1>1, <1>7
<1> QED
  BY <1>2, <1>3, <1>4, <1>5, <1>6, <1>7
     DEF Next, Proceed, vars, rows, Cancel, ArchiveSession, UnarchiveSession, BeginUpdate, FinishUpdate,
         Claim, Resolve, GiveUp, Fail, Activate, Crash, Break, Mend, LeaseRunsOut, Tick

\* An archived session has no active definition, and nothing but the recovery of
\* a run puts a message in its queue.
THEOREM ArchiveSilences == Spec => ArchivedIsSilent
<1>1. IInv => (archived => \A f \in FollowUps : ~Active(f))
  BY DEF IInv, Silent
<1>2. IInv /\ [Next]_vars =>
        [archived => \A f \in FollowUps : \A t \in Times :
            occurrence'[f][t].message = "pending" =>
               occurrence[f][t].message \in {"pending", "processing"}]_vars
  BY NothingIsPut
<1> QED
  BY <1>1, <1>2, FollowUpInvariant, PTL DEF Spec, ArchivedIsSilent
===============================================================================
