---------------------------- MODULE SandboxProofs ----------------------------
(***************************************************************************)
(* Proofs about the sandboxes of a session, for any number of sandboxes,   *)
(* workers, tools and faults: what the lifecycle lock gives its holder, and *)
(* from it that no row is overwritten, no keepalive is ignored and no      *)
(* sandbox is lost but by a crash or a destroy that failed.                *)
(***************************************************************************)
EXTENDS SandboxLifecycle, FiniteSetTheorems, TLAPS

\* The parts of the type invariant that the shared steps of the calls change.
RowsOK == rec \in [Ids -> Row] /\ rank \in [Ids -> Nat]
LocalOK ==
    /\ lock \in Callers \cup {NoCaller}
    /\ doing \in [Callers -> Steps]
    /\ at \in [Callers -> Ids \cup {NoId}]
    /\ copy \in [Callers -> Row]

LEMMA NoRowTyped == NoRow \in Row /\ Gone \in Row
  BY TimesAssumption DEF NoRow, Gone, Row

LEMMA PutTyped ==
    ASSUME TypeOK, NEW s, NEW row, s \in Ids => row \in Row, Put(s, row)
    PROVE  RowsOK'
<1> DEFINE new == IF row.status = "destroyed" THEN Gone ELSE [row EXCEPT !.age = 0]
<1>1. s \in Ids => new \in Row
  <2>1. s \in Ids => [row EXCEPT !.age = 0] \in Row
    BY TimesAssumption DEF Row
  <2> QED
    BY <2>1, NoRowTyped
<1>2. rec' = [rec EXCEPT ![s] = new] /\ rec \in [Ids -> Row] /\ rank \in [Ids -> Nat]
  BY DEF Put, TypeOK
<1>3. rec' \in [Ids -> Row]
  <2> HIDE DEF new
  <2> QED
    BY <1>1, <1>2
<1>4. rank' \in [Ids -> Nat]
  BY <1>2 DEF Put
<1> QED
  BY <1>3, <1>4 DEF RowsOK

LEMMA AgedTyped ==
    ASSUME NEW row \in Row
    PROVE  Aged(row) \in Row
<1>1. row.age \in 0..Retention /\ row.keep \in 0..MaxKeep
  BY DEF Row
<1>2. CASE row.status \notin ActiveStatus
  BY <1>2 DEF Aged
<1>3. CASE row.status \in ActiveStatus
  <2>1. (IF row.age < Retention THEN row.age + 1 ELSE row.age) \in 0..Retention
    BY <1>1, TimesAssumption
  <2>2. (IF row.keep > 0 THEN row.keep - 1 ELSE row.keep) \in 0..MaxKeep
    BY <1>1, TimesAssumption
  <2> QED
    BY <1>3, <2>1, <2>2 DEF Aged, Row
<1> QED
  BY <1>2, <1>3

LEMMA CheckedTyped ==
    ASSUME NEW row \in Row, NEW h
    PROVE  Checked(h, row) \in Row
<1>1. 0 \in 0..Retention
  BY TimesAssumption
<1>2. (IF h \in {"ready", "stopped"} THEN h ELSE "unhealthy")
         \in {"absent", "ready", "stopped", "unhealthy", "destroyed"}
  OBVIOUS
<1> QED
  BY <1>1, <1>2 DEF Checked, Row

LEMMA WithStatusTyped ==
    ASSUME NEW row \in Row, NEW st \in {"ready", "stopped", "unhealthy", "destroyed"}
    PROVE  [row EXCEPT !.status = st] \in Row
  BY DEF Row

LEMMA LeaveTyped ==
    ASSUME TypeOK, NEW c \in Callers, NEW next \in Steps, NEW s \in Ids \cup {NoId},
           Leave(c, next, s)
    PROVE  LocalOK'
  BY NoRowTyped DEF TypeOK, Leave, LocalOK

LEMMA AcquireTyped ==
    ASSUME TypeOK, NEW c \in Callers, NEW next \in Steps, NEW s \in Ids \cup {NoId},
           Acquire(c, s, next)
    PROVE  LocalOK'
  BY NoRowTyped, IdsAssumption DEF TypeOK, Acquire, LocalOK

LEMMA PassTyped ==
    ASSUME TypeOK, NEW c \in Callers, NEW next \in Steps, PassLock(c, next)
    PROVE  LocalOK'
  BY DEF TypeOK, PassLock, LocalOK

LEMMA ReplaceTyped ==
    ASSUME TypeOK, NEW c \in Callers, Replace(c)
    PROVE  LocalOK'
<1>1. "mark" \in Steps /\ "create" \in Steps
  BY DEF Steps
<1>2. CASE MayCreate(c)
  BY <1>1, <1>2, NoRowTyped DEF TypeOK, Replace, LocalOK
<1>3. CASE ~MayCreate(c)
  BY <1>1, <1>3, LeaveTyped DEF Replace
<1> QED
  BY <1>2, <1>3

\* Every step leaves the tables, the session and the calls in their shape.
LEMMA TypeStep == TypeOK /\ [Next]_vars => TypeOK'
<1> SUFFICES ASSUME TypeOK, [Next]_vars PROVE TypeOK'
  OBVIOUS
<1> DEFINE Rest == /\ provider \in [Ids -> {"none", "live", "gone"}]
                   /\ session \in {"idle", "queued", "archived"} \cup Workers
                   /\ todo \in [Callers -> SUBSET Ids]
                   /\ faults \in 0..MaxFaults
<1>0. TypeOK' <=> RowsOK' /\ LocalOK' /\ Rest'
  BY DEF TypeOK, RowsOK, LocalOK
<1>a. RowsOK /\ LocalOK /\ Rest
  BY DEF TypeOK, RowsOK, LocalOK
<1>b. /\ Workers \subseteq Callers /\ Tools \subseteq Callers
      /\ Reaper \in Callers /\ Archiver \in Callers
  BY DEF Callers, Cleaners
<1>e. ASSUME UNCHANGED <<rec, rank>> PROVE RowsOK'
  BY <1>e, <1>a DEF RowsOK
<1>f. ASSUME UNCHANGED local PROVE LocalOK'
  BY <1>f, <1>a DEF LocalOK, local
<1>g. ASSUME NEW c \in Callers, NEW next \in Steps, UNCHANGED <<lock, at, copy>>,
             doing' = [doing EXCEPT ![c] = next]
      PROVE  LocalOK'
  BY <1>g, <1>a DEF LocalOK
<1>1. ASSUME Enqueue \/ LeaseExpires \/ Unarchive PROVE TypeOK'
  BY <1>0, <1>1, <1>a, <1>e, <1>f DEF Enqueue, LeaseExpires, Unarchive, rows
<1>2. ASSUME Archive \/ ListActive \/ ListStoppable \/ ListIdle PROVE TypeOK'
  <2>1. \A x \in {"list", "destroy", "stop"} : x \in Steps
    BY DEF Steps
  <2>2. LocalOK'
    BY <1>2, <2>1, <1>b, <1>g DEF Archive, ListActive, ListStoppable, ListIdle
  <2>3. RowsOK'
    BY <1>2, <1>e DEF Archive, ListActive, ListStoppable, ListIdle, rows
  <2>4. Oldest(Stoppable) \subseteq Ids /\ Oldest(Idle) \subseteq Ids
    BY DEF Oldest, Stoppable, Idle
  <2>5. Rest'
    BY <1>2, <1>a, <1>b, <2>4 DEF Archive, ListActive, ListStoppable, ListIdle, rows
  <2> QED
    BY <1>0, <2>2, <2>3, <2>5
<1>3. ASSUME NEW w \in Workers, Claim(w) \/ EndRun(w) PROVE TypeOK'
  <2>1. "ensure" \in Steps /\ "none" \in Steps
    BY DEF Steps
  <2>2. LocalOK'
    BY <1>3, <2>1, <1>b, <1>g DEF Claim, EndRun
  <2> QED
    BY <1>0, <1>3, <1>a, <1>e, <2>2 DEF Claim, EndRun, rows
<1>4. ASSUME NEW c \in Callers, BeginEnsure(c) \/ BeginExtend(c) \/ BeginMark(c) \/ RunnerReturns(c)
      PROVE  TypeOK'
  <2>1. \A x \in {"health", "create", "mark", "extending", "none", "marking", "touch", "end"} : x \in Steps
    BY DEF Steps
  <2>2. RowsOK' /\ Rest'
    BY <1>4, <1>a, <1>e DEF BeginEnsure, BeginExtend, BeginMark, RunnerReturns, rows
  <2>3. LocalOK'
    BY <1>4, <1>a, <2>1, AcquireTyped, PassTyped
       DEF BeginEnsure, BeginExtend, BeginMark, RunnerReturns, LocalOK
  <2> QED
    BY <1>0, <2>2, <2>3
<1>5. ASSUME NEW c \in Callers, Health(c) PROVE TypeOK'
  <2>1. PICK h \in Healths(provider[at[c]]) :
          /\ Observed(at[c], h) /\ Put(at[c], Checked(h, copy[c]))
          /\ Go(c, "connect", Checked(h, copy[c])) \/ Replace(c)
    BY <1>5 DEF Health
  <2>2. Checked(h, copy[c]) \in Row
    BY CheckedTyped DEF TypeOK
  <2>3. RowsOK'
    BY <2>1, <2>2, PutTyped
  <2>4. LocalOK'
    <3>1. "connect" \in Steps
      BY DEF Steps
    <3> QED
      BY <2>1, <2>2, <3>1, <1>a, ReplaceTyped DEF Go, LocalOK
  <2>5. Rest'
    BY <1>5, <1>a, <2>1 DEF Health, Observed
  <2> QED
    BY <1>0, <2>3, <2>4, <2>5
<1>6. ASSUME NEW c \in Callers, Connect(c) PROVE TypeOK'
  <2>1. /\ Put(at[c], [rec[at[c]] EXCEPT !.status = "ready"])
        /\ Leave(c, "using", at[c]) \/ Leave(c, "extend", NoId)
    BY <1>6 DEF Connect
  <2>2. "using" \in Steps /\ "extend" \in Steps
    BY DEF Steps
  <2>3. RowsOK'
    <3>1. at[c] \in Ids => [rec[at[c]] EXCEPT !.status = "ready"] \in Row
      BY WithStatusTyped DEF TypeOK
    <3> QED
      BY <2>1, <3>1, PutTyped
  <2>4. LocalOK'
    <3>1. at[c] \in Ids \cup {NoId} /\ NoId \in Ids \cup {NoId}
      BY DEF TypeOK
    <3> QED
      BY <2>1, <2>2, <3>1, LeaveTyped
  <2> QED
    BY <1>0, <1>6, <1>a, <2>3, <2>4 DEF Connect
<1>7. ASSUME NEW c \in Callers, ConnectUnavailable(c) \/ Discard(c) PROVE TypeOK'
  <2>1. \A st \in {"unhealthy", "destroyed"} : [copy[c] EXCEPT !.status = st] \in Row
    BY WithStatusTyped DEF TypeOK
  <2>2. RowsOK'
    <3>1. CASE UNCHANGED <<rec, rank>>
      BY <3>1, <1>e
    <3>2. CASE ~UNCHANGED <<rec, rank>>
      <4>1. \E st \in {"unhealthy", "destroyed"} : Put(at[c], [copy[c] EXCEPT !.status = st])
        BY <1>7, <3>2 DEF ConnectUnavailable, Discard
      <4> QED
        BY <4>1, <2>1, PutTyped
    <3> QED
      BY <3>1, <3>2
  <2>3. LocalOK'
    BY <1>7, ReplaceTyped DEF ConnectUnavailable, Discard
  <2>4. Rest'
    <3>1. CASE ConnectUnavailable(c)
      BY <3>1, <1>a DEF ConnectUnavailable
    <3>2. CASE Discard(c)
      <4>1. provider' \in [Ids -> {"none", "live", "gone"}] /\ faults' \in 0..MaxFaults
        BY <3>2, TimesAssumption DEF Discard, DestroyAtBest, Fault, TypeOK
      <4> QED
        BY <3>2, <4>1, <1>a DEF Discard
    <3> QED
      BY <1>7, <3>1, <3>2
  <2> QED
    BY <1>0, <2>2, <2>3, <2>4
<1>8. ASSUME NEW c \in Callers, Create(c) PROVE TypeOK'
  <2>1. "insert" \in Steps
    BY DEF Steps
  <2>2. LocalOK'
    BY <1>8, <2>1, <1>a DEF Create, LocalOK
  <2> QED
    BY <1>0, <1>8, <1>a, <1>e, <2>2 DEF Create
<1>9. ASSUME NEW c \in Callers, Insert(c) \/ Touch(c) \/ Extend(c) \/ Stop(c) PROVE TypeOK'
  <2>1. \A x \in {"using", "end", "none", "stop"} : x \in Steps
    BY DEF Steps
  <2>2. LocalOK'
    <3>1. at[c] \in Ids \cup {NoId} /\ NoId \in Ids \cup {NoId}
      BY DEF TypeOK
    <3> QED
      BY <1>9, <2>1, <3>1, LeaveTyped DEF Insert, Touch, Extend, Stop
  <2>3. RowsOK'
    <3>1. CASE UNCHANGED <<rec, rank>>
      BY <3>1, <1>e
    <3>2. CASE Insert(c)
      <4>1. [status |-> "ready", age |-> 0, keep |-> 0] \in Row
        BY TimesAssumption DEF Row
      <4> QED
        BY <3>2, <4>1, PutTyped DEF Insert
    <3>3. CASE Touch(c)
      BY <3>3, PutTyped DEF Touch, TypeOK
    <3>4. CASE Extend(c)
      <4>1. PICK d \in 1..MaxKeep : Put(at[c], [copy[c] EXCEPT !.keep = Extended(copy[c].keep, d)])
        BY <3>4 DEF Extend
      <4>2. copy[c] \in Row /\ copy[c].keep \in 0..MaxKeep
        BY DEF TypeOK, Row
      <4>3. Extended(copy[c].keep, d) \in 0..MaxKeep
        BY <4>1, <4>2, TimesAssumption DEF Extended
      <4>4. [copy[c] EXCEPT !.keep = Extended(copy[c].keep, d)] \in Row
        BY <4>2, <4>3 DEF Row
      <4> QED
        BY <4>1, <4>4, PutTyped
    <3>5. CASE Put(at[c], [copy[c] EXCEPT !.status = "stopped"])
      BY <3>5, PutTyped, WithStatusTyped DEF TypeOK
    <3> QED
      BY <1>9, <3>1, <3>2, <3>3, <3>4, <3>5 DEF Stop
  <2>4. Rest'
    BY <1>9, <1>a DEF Insert, Touch, Extend, Stop
  <2> QED
    BY <1>0, <2>2, <2>3, <2>4
<1>10. ASSUME NEW c \in Callers, MarkMissing(c) \/ Destroy(c) PROVE TypeOK'
  <2>1. "none" \in Steps /\ "destroy" \in Steps
    BY DEF Steps
  <2>2. LocalOK'
    BY <1>10, <2>1, LeaveTyped DEF MarkMissing, Destroy
  <2>3. RowsOK'
    <3>1. CASE UNCHANGED <<rec, rank>>
      BY <3>1, <1>e
    <3>2. CASE Put(at[c], [copy[c] EXCEPT !.status = "destroyed"])
      BY <3>2, PutTyped, WithStatusTyped DEF TypeOK
    <3> QED
      BY <1>10, <3>1, <3>2 DEF MarkMissing, Destroy, rows
  <2>4. Rest'
    BY <1>10, <1>a DEF MarkMissing, Destroy, Observed, rows
  <2> QED
    BY <1>0, <2>2, <2>3, <2>4
<1>11. ASSUME NEW c \in Callers, InsertFails(c) \/ EnsureThrows(c) \/ DestroyFails(c) \/ Crash(c)
       PROVE  TypeOK'
  <2>1. "none" \in Steps /\ "destroy" \in Steps
    BY DEF Steps
  <2>2. LocalOK'
    BY <1>11, <2>1, LeaveTyped DEF InsertFails, EnsureThrows, DestroyFails, Crash
  <2>3. RowsOK'
    BY <1>11, <1>e DEF InsertFails, EnsureThrows, DestroyFails, Crash, rows
  <2>4. provider' \in [Ids -> {"none", "live", "gone"}] /\ faults' \in 0..MaxFaults
    BY <1>11, TimesAssumption
       DEF InsertFails, EnsureThrows, DestroyFails, Crash, rows, DestroyAtBest, Fault, TypeOK
  <2> QED
    BY <1>0, <1>11, <1>a, <2>2, <2>3, <2>4 DEF InsertFails, EnsureThrows, DestroyFails, Crash
<1>12. ASSUME NEW c \in Callers, BeginCleanup(c) PROVE TypeOK'
  <2>1. "stopping" \in Steps /\ "destroying" \in Steps /\ doing[c] \in Steps
    BY DEF Steps, TypeOK
  <2>2. PICK s \in todo[c] : \/ PassLock(c, doing[c])
                             \/ Acquire(c, s, IF doing[c] = "stop" THEN "stopping" ELSE "destroying")
    BY <1>12 DEF BeginCleanup
  <2>3. s \in Ids
    BY <2>2 DEF TypeOK
  <2>4. LocalOK'
    BY <2>1, <2>2, <2>3, AcquireTyped, PassTyped
  <2>5. RowsOK' /\ Rest'
    BY <1>12, <1>a, <1>e DEF BeginCleanup, rows
  <2> QED
    BY <1>0, <2>4, <2>5
<1>13. ASSUME NEW c \in Callers, EndCleanup(c) \/ Request(c) PROVE TypeOK'
  <2>1. \A x \in {"none", "ensure", "extend", "mark"} : x \in Steps
    BY DEF Steps
  <2>2. LocalOK'
    BY <1>13, <2>1, <1>g DEF EndCleanup, Request
  <2> QED
    BY <1>0, <1>13, <1>a, <1>e, <2>2 DEF EndCleanup, Request, rows
<1>14. ASSUME Tick PROVE TypeOK'
  <2>1. RowsOK'
    BY <1>14, AgedTyped DEF Tick, TypeOK, RowsOK
  <2>2. LocalOK'
    BY <1>14, AgedTyped DEF Tick, TypeOK, LocalOK
  <2> QED
    BY <1>0, <1>14, <1>a, <2>1, <2>2 DEF Tick
<1>15. ASSUME UNCHANGED vars PROVE TypeOK'
  BY <1>15 DEF vars, TypeOK
<1> QED
  BY <1>b, <1>1, <1>2, <1>3, <1>4, <1>5, <1>6, <1>7, <1>8, <1>9, <1>10, <1>11, <1>12, <1>13,
     <1>14, <1>15
     DEF Next, WorkerStep, ToolStep, ReaperStep, ArchiverStep, Ensure, Cleanup

\* The tables and the calls of the service keep their shape, whatever requests,
\* crashes and reaper runs do (sandbox/service.ts).
THEOREM SandboxTyped == Spec => []TypeOK
<1>1. Init => TypeOK
  <2>1. "none" \in Steps
    BY DEF Steps
  <2>2. Cardinality(Ids) \in Nat
    BY IdsAssumption, FS_CardinalityType
  <2> QED
    BY <2>1, <2>2, NoRowTyped, TimesAssumption DEF Init, TypeOK
<1> QED
  BY <1>1, TypeStep, PTL DEF Spec

-----------------------------------------------------------------------------
(***************************************************************************)
(* What the lifecycle lock gives: a caller between its read and its write  *)
(* holds the lock, and the copy it composes its row from is still the row. *)
(***************************************************************************)
Copied == {"health", "connect", "touch", "extending", "marking", "stopping", "destroying"}
Locked == Copied \cup {"create", "insert"}

LockInv == \A c \in Callers : doing[c] \in Locked <=> lock = c

CopyInv ==
    \A c \in Callers :
       doing[c] \in Copied => at[c] \in Ids /\ Active(at[c]) /\ copy[c] = rec[at[c]]

InsertInv ==
    \A c \in Callers :
       /\ doing[c] = "insert" =>
             at[c] \in Ids /\ rec[at[c]] = NoRow /\ provider[at[c]] # "none"
       /\ doing[c] = "using" => at[c] \in Ids

ProviderInv == \A s \in Ids : provider[s] = "none" => rec[s] = NoRow

HolderInv == LockInv /\ CopyInv /\ InsertInv /\ ProviderInv

\* No call keeps the lock when it is done with it.
LEMMA LockStep == TypeOK /\ LockInv /\ [Next]_vars => LockInv'
<1> SUFFICES ASSUME TypeOK, LockInv, [Next]_vars PROVE LockInv'
  OBVIOUS
<1>a. NoCaller \notin Callers
  BY CallersAssumption
<1>b. /\ Workers \subseteq Callers /\ Tools \subseteq Callers
      /\ Reaper \in Callers /\ Archiver \in Callers
  BY DEF Callers, Cleaners
<1>c. ASSUME NEW c \in Callers, NEW next, NEW s, Leave(c, next, s), next \notin Locked
      PROVE  LockInv'
  BY <1>a, <1>c DEF Leave, LockInv, TypeOK
<1>d. ASSUME NEW c \in Callers, NEW next, NEW s, Acquire(c, s, next), next \in Locked
      PROVE  LockInv'
  BY <1>a, <1>d DEF Acquire, LockInv, TypeOK
<1>e. ASSUME NEW c \in Callers, NEW next, PassLock(c, next), next \notin Locked
      PROVE  LockInv'
  BY <1>a, <1>e DEF PassLock, LockInv, TypeOK
<1>f. ASSUME NEW c \in Callers, NEW next, lock' = lock, doing' = [doing EXCEPT ![c] = next],
             next \in Locked <=> doing[c] \in Locked
      PROVE  LockInv'
  BY <1>f DEF LockInv, TypeOK
<1>g. ASSUME UNCHANGED <<lock, doing>> PROVE LockInv'
  BY <1>g DEF LockInv
<1>1. ASSUME Enqueue \/ LeaseExpires \/ Unarchive \/ Tick \/ UNCHANGED vars PROVE LockInv'
  BY <1>1, <1>g DEF Enqueue, LeaseExpires, Unarchive, Tick, local, vars
<1>2. ASSUME Archive \/ ListActive \/ ListStoppable \/ ListIdle PROVE LockInv'
  BY <1>2, <1>b, <1>f DEF Archive, ListActive, ListStoppable, ListIdle, Locked, Copied
<1>3. ASSUME NEW c \in Callers, Claim(c) \/ EndRun(c) \/ Request(c) \/ EndCleanup(c) PROVE LockInv'
  BY <1>3, <1>f DEF Claim, EndRun, Request, EndCleanup, Locked, Copied
<1>4. ASSUME NEW c \in Callers, BeginEnsure(c) \/ BeginExtend(c) \/ BeginMark(c) \/ RunnerReturns(c)
      PROVE  LockInv'
  BY <1>4, <1>d, <1>e DEF BeginEnsure, BeginExtend, BeginMark, RunnerReturns, Locked, Copied
<1>5. ASSUME NEW c \in Callers, doing[c] \in Locked, Replace(c) PROVE LockInv'
  BY <1>5, <1>c, <1>f DEF Replace, Locked, Copied
<1>6. ASSUME NEW c \in Callers, Health(c) PROVE LockInv'
  BY <1>6, <1>5, <1>f DEF Health, Go, Locked, Copied
<1>7. ASSUME NEW c \in Callers, ConnectUnavailable(c) \/ Discard(c) PROVE LockInv'
  BY <1>7, <1>5 DEF ConnectUnavailable, Discard, Locked, Copied
<1>8. ASSUME NEW c \in Callers, Create(c) PROVE LockInv'
  BY <1>8, <1>f DEF Create, Locked, Copied
<1>9. ASSUME NEW c \in Callers, \/ Connect(c) \/ Insert(c) \/ InsertFails(c) \/ EnsureThrows(c) \/ Touch(c)
                                \/ Extend(c) \/ MarkMissing(c) \/ Stop(c) \/ Destroy(c)
                                \/ DestroyFails(c) \/ Crash(c)
      PROVE  LockInv'
  <2>1. \E next \in {"using", "extend", "none", "end", "stop", "destroy"}, s \in {at[c], NoId} :
           Leave(c, next, s)
    BY <1>9 DEF Connect, Insert, InsertFails, EnsureThrows, Touch, Extend, MarkMissing, Stop,
                Destroy, DestroyFails, Crash
  <2> QED
    BY <2>1, <1>c DEF Locked, Copied
<1>10. ASSUME NEW c \in Callers, BeginCleanup(c) PROVE LockInv'
  BY <1>10, <1>d, <1>e DEF BeginCleanup, Locked, Copied
<1> QED
  BY <1>b, <1>1, <1>2, <1>3, <1>4, <1>6, <1>7, <1>8, <1>9, <1>10
     DEF Next, WorkerStep, ToolStep, ReaperStep, ArchiverStep, Ensure, Cleanup

\* Only the caller that moves changes its own variables.
Alone(c) ==
    \A d \in Callers \ {c} : doing'[d] = doing[d] /\ at'[d] = at[d] /\ copy'[d] = copy[d]

\* While somebody holds the lock nobody else changes a row, and whoever has it
\* reads the row again before it writes.
LEMMA HolderStep ==
    TypeOK /\ HolderInv /\ [Next]_vars => CopyInv' /\ InsertInv' /\ ProviderInv'
<1> SUFFICES ASSUME TypeOK, LockInv, CopyInv, InsertInv, ProviderInv, [Next]_vars
             PROVE  CopyInv' /\ InsertInv' /\ ProviderInv'
  BY DEF HolderInv
<1>b. /\ Workers \subseteq Callers /\ Tools \subseteq Callers
      /\ Reaper \in Callers /\ Archiver \in Callers
  BY DEF Callers, Cleaners
<1> DEFINE Calls == /\ doing \in [Callers -> Steps] /\ copy \in [Callers -> Row]
                    /\ at \in [Callers -> Ids \cup {NoId}]
<1>t. Calls /\ rec \in [Ids -> Row] /\ provider \in [Ids -> {"none", "live", "gone"}]
  BY DEF TypeOK
\* The rows stay; the caller that moves is not in the middle of a write.
<1>c. ASSUME NEW c \in Callers, Alone(c), UNCHANGED <<rec, provider>>,
             doing'[c] \notin Copied \cup {"insert"}, doing'[c] = "using" => at'[c] \in Ids
      PROVE  CopyInv' /\ InsertInv' /\ ProviderInv'
  BY <1>c DEF Alone, CopyInv, InsertInv, ProviderInv, Active
\* The caller that holds the lock writes, and is done.
<1>d. ASSUME NEW c \in Callers, Alone(c), doing[c] \in Locked,
             doing'[c] \notin Copied \cup {"insert"}, doing'[c] = "using" => at'[c] \in Ids
      PROVE  CopyInv' /\ InsertInv'
  BY <1>d DEF Alone, CopyInv, InsertInv, LockInv, Locked
<1>e. ASSUME NEW c \in Callers, doing[c] \in Copied \cup {"insert"},
             UNCHANGED <<rec, rank>> \/ \E row : Put(at[c], row),
             provider' = provider \/ provider' = [provider EXCEPT ![at[c]] = "gone"]
      PROVE  ProviderInv'
  <2>1. at[c] \in Ids /\ provider[at[c]] # "none"
    BY <1>e DEF CopyInv, InsertInv, ProviderInv, Active, NoRow, ActiveStatus
  <2>2. \A s \in Ids \ {at[c]} : rec'[s] = rec[s] /\ provider'[s] = provider[s]
    BY <1>e, <1>t DEF Put
  <2>3. provider'[at[c]] # "none"
    BY <1>e, <1>t, <2>1
  <2> QED
    BY <2>1, <2>2, <2>3 DEF ProviderInv
<1>f. ASSUME NEW c \in Callers, NEW next, NEW s, Leave(c, next, s) PROVE Alone(c) /\ doing'[c] = next
  BY <1>f, <1>t DEF Leave, Alone
<1>g. ASSUME NEW c \in Callers, NEW next, PassLock(c, next) PROVE Alone(c) /\ doing'[c] = next
  BY <1>g, <1>t DEF PassLock, Alone
<1>h. ASSUME NEW c \in Callers, NEW next \in Copied, NEW s \in Ids, Active(s), Acquire(c, s, next),
             UNCHANGED <<rec, provider>>
      PROVE  CopyInv' /\ InsertInv' /\ ProviderInv'
  BY <1>h, <1>t, IdsAssumption DEF Acquire, CopyInv, InsertInv, ProviderInv, Active, Copied
<1>i. ASSUME NEW c \in Callers, Replace(c)
      PROVE  Alone(c) /\ doing'[c] \notin Copied \cup {"insert", "using"}
  BY <1>i, <1>t, <1>f DEF Replace, Alone, Copied
<1>j. \A s \in Ids : IsLatest(s) /\ rec[s].status # "destroyed" => Active(s)
  BY <1>t DEF IsLatest, Active, ActiveStatus, Row
<1>1. ASSUME Enqueue \/ LeaseExpires \/ Unarchive \/ UNCHANGED vars
      PROVE  CopyInv' /\ InsertInv' /\ ProviderInv'
  <2>1. UNCHANGED <<doing, at, copy, rec, provider>>
    BY <1>1 DEF Enqueue, LeaseExpires, Unarchive, local, rows, vars
  <2> QED
    BY <2>1 DEF CopyInv, InsertInv, ProviderInv, Active
<1>2. ASSUME Archive \/ ListActive \/ ListStoppable \/ ListIdle
      PROVE  CopyInv' /\ InsertInv' /\ ProviderInv'
  <2>1. PICK c \in {Reaper, Archiver} : Alone(c) /\ doing'[c] \in {"list", "destroy", "stop"}
    BY <1>2, <1>t, <1>b DEF Archive, ListActive, ListStoppable, ListIdle, Alone
  <2>2. UNCHANGED <<rec, provider>>
    BY <1>2 DEF Archive, ListActive, ListStoppable, ListIdle, rows
  <2> QED
    BY <2>1, <2>2, <1>b, <1>c DEF Copied
<1>3. ASSUME NEW c \in Callers, Claim(c) \/ EndRun(c) \/ Request(c) \/ EndCleanup(c)
      PROVE  CopyInv' /\ InsertInv' /\ ProviderInv'
  <2>1. Alone(c) /\ doing'[c] \in {"ensure", "extend", "mark", "none"}
    BY <1>3, <1>t DEF Claim, EndRun, Request, EndCleanup, Alone
  <2>2. UNCHANGED <<rec, provider>>
    BY <1>3 DEF Claim, EndRun, Request, EndCleanup, rows
  <2> QED
    BY <2>1, <2>2, <1>c DEF Copied
<1>4. ASSUME NEW c \in Callers, BeginEnsure(c) \/ BeginExtend(c) \/ BeginMark(c) \/ RunnerReturns(c)
      PROVE  CopyInv' /\ InsertInv' /\ ProviderInv'
  <2>1. UNCHANGED <<rec, provider>>
    BY <1>4 DEF BeginEnsure, BeginExtend, BeginMark, RunnerReturns, rows
  <2>2. CASE \E next \in {"mark", "end", "none"} : PassLock(c, next)
    BY <2>1, <2>2, <1>c, <1>g DEF Copied
  <2>3. CASE Acquire(c, NoId, "create")
    <3>1. Alone(c) /\ doing'[c] = "create"
      BY <2>3, <1>t DEF Acquire, Alone
    <3> QED
      BY <2>1, <3>1, <1>c DEF Copied
  <2>4. CASE \E next \in Copied, s \in Ids : Active(s) /\ Acquire(c, s, next)
    BY <2>1, <2>4, <1>h
  <2>5. BeginEnsure(c) => \/ \E s \in Ids : Active(s) /\ Acquire(c, s, "health")
                          \/ Acquire(c, NoId, "create") \/ PassLock(c, "mark")
    BY DEF BeginEnsure, IsCurrent
  <2>6. BeginExtend(c) => \/ \E s \in Ids : Active(s) /\ Acquire(c, s, "extending")
                          \/ PassLock(c, "none")
    BY DEF BeginExtend, IsCurrent
  <2>7. BeginMark(c) => \/ \E s \in Ids : Active(s) /\ Acquire(c, s, "marking")
                        \/ PassLock(c, "none")
    BY <1>j DEF BeginMark
  <2>8. RunnerReturns(c) => \/ \E s \in Ids : Active(s) /\ Acquire(c, s, "touch")
                            \/ PassLock(c, "end")
    <3>1. RunnerReturns(c) => at[c] \in Ids
      BY DEF RunnerReturns, InsertInv
    <3> QED
      BY <3>1 DEF RunnerReturns, IsCurrent
  <2> QED
    BY <1>4, <2>2, <2>3, <2>4, <2>5, <2>6, <2>7, <2>8 DEF Copied
<1>5. ASSUME NEW c \in Callers, Health(c)
      PROVE  CopyInv' /\ InsertInv' /\ ProviderInv'
  <2>1. PICK h \in Healths(provider[at[c]]) :
          /\ Observed(at[c], h) /\ Put(at[c], Checked(h, copy[c]))
          /\ Go(c, "connect", Checked(h, copy[c])) \/ Replace(c)
    BY <1>5 DEF Health
  <2>2. doing[c] = "health" /\ at[c] \in Ids /\ copy[c] \in Row
    BY <1>5, <1>t DEF Health, CopyInv, Copied
  <2>3. ProviderInv'
    BY <2>1, <2>2, <1>e DEF Observed, Copied
  <2>4. CASE Replace(c)
    BY <2>2, <2>3, <2>4, <1>d, <1>i DEF Locked, Copied
  <2>5. CASE Go(c, "connect", Checked(h, copy[c]))
    <3>1. Alone(c) /\ doing'[c] = "connect" /\ at'[c] = at[c] /\ copy'[c] = Checked(h, copy[c])
      BY <2>5, <1>t DEF Go, Alone
    <3>2. \A d \in Callers \ {c} : doing'[d] \notin Copied \cup {"insert"}
      BY <2>2, <3>1 DEF Alone, LockInv, Locked, Copied
    <3>3. Checked(h, copy[c]).status \in ActiveStatus /\ Checked(h, copy[c]).age = 0
      BY <2>2 DEF Checked, Row, ActiveStatus
    <3>4. Checked(h, copy[c]) \in Row
      BY <2>2, CheckedTyped
    <3>5. rec'[at[c]] = [Checked(h, copy[c]) EXCEPT !.age = 0]
      BY <2>1, <2>2, <3>3, <1>t DEF Put, ActiveStatus
    <3>6. rec'[at[c]] = Checked(h, copy[c])
      BY <3>3, <3>4, <3>5 DEF Row
    <3>7. CopyInv'
      BY <2>2, <3>1, <3>2, <3>3, <3>6 DEF CopyInv, Active
    <3>8. InsertInv'
      BY <3>1, <3>2 DEF Alone, InsertInv
    <3> QED
      BY <2>3, <3>7, <3>8
  <2> QED
    BY <2>1, <2>4, <2>5
<1>6. ASSUME NEW c \in Callers, ConnectUnavailable(c) \/ Discard(c)
      PROVE  CopyInv' /\ InsertInv' /\ ProviderInv'
  <2>1. doing[c] = "connect" /\ Replace(c)
    BY <1>6 DEF ConnectUnavailable, Discard
  <2>2. /\ UNCHANGED <<rec, rank>> \/ \E row : Put(at[c], row)
        /\ provider' = provider \/ provider' = [provider EXCEPT ![at[c]] = "gone"]
    BY <1>6 DEF ConnectUnavailable, Discard, DestroyAtBest
  <2>3. ProviderInv'
    BY <2>1, <2>2, <1>e DEF Copied
  <2> QED
    BY <2>1, <2>3, <1>d, <1>i DEF Locked, Copied
<1>7. ASSUME NEW c \in Callers, Create(c)
      PROVE  CopyInv' /\ InsertInv' /\ ProviderInv'
  <2>1. PICK s \in Ids : /\ provider[s] = "none"
                         /\ provider' = [provider EXCEPT ![s] = "live"]
                         /\ at' = [at EXCEPT ![c] = s]
    BY <1>7 DEF Create
  <2>2. Alone(c) /\ doing'[c] = "insert" /\ at'[c] = s /\ rec' = rec /\ rec[s] = NoRow
    BY <1>7, <2>1, <1>t DEF Create, Alone, ProviderInv
  <2>3. \A d \in Callers \ {c} : doing'[d] \notin Copied \cup {"insert"}
    BY <1>7, <2>2 DEF Create, Alone, LockInv, Locked, Copied
  <2>4. provider'[s] = "live" /\ \A r \in Ids : provider'[r] = "none" => provider[r] = "none"
    BY <2>1, <1>t
  <2> QED
    BY <2>2, <2>3, <2>4 DEF CopyInv, InsertInv, ProviderInv, Alone, Copied
<1>8. ASSUME NEW c \in Callers, \/ Connect(c) \/ Insert(c) \/ Touch(c) \/ Extend(c)
                                \/ MarkMissing(c) \/ Stop(c) \/ Destroy(c)
                                \/ InsertFails(c) \/ DestroyFails(c)
      PROVE  CopyInv' /\ InsertInv' /\ ProviderInv'
  <2>1. doing[c] \in Copied \cup {"insert"}
    BY <1>8 DEF Connect, Insert, Touch, Extend, MarkMissing, Stop, Destroy, InsertFails,
                DestroyFails, Copied
  <2>2. at[c] \in Ids
    BY <2>1 DEF CopyInv, InsertInv
  <2>3. \E next \in {"using", "extend", "none", "end", "stop", "destroy"}, s \in {at[c], NoId} :
           Leave(c, next, s) /\ (next = "using" => s = at[c])
    BY <1>8 DEF Connect, Insert, Touch, Extend, MarkMissing, Stop, Destroy, InsertFails,
                DestroyFails
  <2>4. /\ Alone(c) /\ doing'[c] \notin Copied \cup {"insert"}
        /\ doing'[c] = "using" => at'[c] \in Ids
    BY <2>2, <2>3, <1>f, <1>t DEF Leave, Copied
  <2>5. /\ UNCHANGED <<rec, rank>> \/ \E row : Put(at[c], row)
        /\ provider' = provider \/ provider' = [provider EXCEPT ![at[c]] = "gone"]
    BY <1>8 DEF Connect, Insert, Touch, Extend, MarkMissing, Stop, Destroy, InsertFails,
                DestroyFails, DestroyAtBest, Observed, rows
  <2> QED
    BY <2>1, <2>4, <2>5, <1>d, <1>e DEF Locked
<1>9. ASSUME NEW c \in Callers, EnsureThrows(c) \/ Crash(c)
      PROVE  CopyInv' /\ InsertInv' /\ ProviderInv'
  <2>1. UNCHANGED <<rec, provider>> /\ Leave(c, "none", NoId)
    BY <1>9 DEF EnsureThrows, Crash, rows
  <2> QED
    BY <2>1, <1>c, <1>f DEF Copied
<1>10. ASSUME NEW c \in Callers, BeginCleanup(c)
       PROVE  CopyInv' /\ InsertInv' /\ ProviderInv'
  <2>1. PICK s \in todo[c] :
           \/ PassLock(c, doing[c])
           \/ Active(s) /\ Acquire(c, s, IF doing[c] = "stop" THEN "stopping" ELSE "destroying")
    BY <1>10 DEF BeginCleanup, IsLeftAlone
  <2>2. s \in Ids /\ doing[c] \in {"stop", "destroy"} /\ UNCHANGED <<rec, provider>>
    BY <1>10, <2>1 DEF TypeOK, BeginCleanup, rows
  <2>3. CASE PassLock(c, doing[c])
    BY <2>2, <2>3, <1>c, <1>g DEF Copied
  <2>4. CASE Active(s) /\ Acquire(c, s, IF doing[c] = "stop" THEN "stopping" ELSE "destroying")
    BY <2>2, <2>4, <1>h DEF Copied
  <2> QED
    BY <2>1, <2>3, <2>4
<1>11. ASSUME Tick PROVE CopyInv' /\ InsertInv' /\ ProviderInv'
  <2>1. /\ UNCHANGED <<doing, at, provider>>
        /\ \A s \in Ids : rec'[s] = Aged(rec[s])
        /\ \A c \in Callers : copy'[c] = Aged(copy[c])
    BY <1>11 DEF Tick
  <2>2. Aged(NoRow) = NoRow
    BY DEF Aged, NoRow, ActiveStatus
  <2>3. ASSUME NEW s \in Ids PROVE Active(s) => Active(s)'
    BY <2>1, <1>t DEF Active, Aged, Row
  <2> QED
    BY <2>1, <2>2, <2>3 DEF CopyInv, InsertInv, ProviderInv
<1> QED
  BY <1>b, <1>1, <1>2, <1>3, <1>4, <1>5, <1>6, <1>7, <1>8, <1>9, <1>10, <1>11
     DEF Next, WorkerStep, ToolStep, ReaperStep, ArchiverStep, Ensure, Cleanup

LEMMA HolderInvariant == Spec => []HolderInv
<1>1. Init => HolderInv
  BY CallersAssumption
     DEF Init, HolderInv, LockInv, CopyInv, InsertInv, ProviderInv, Locked, Copied, NoRow
<1>2. TypeOK /\ HolderInv /\ [Next]_vars => HolderInv'
  BY LockStep, HolderStep DEF HolderInv
<1> QED
  BY <1>1, <1>2, SandboxTyped, PTL DEF Spec

-----------------------------------------------------------------------------
(***************************************************************************)
(* A row changes with time, or by the caller that holds the lock, has read *)
(* that very row, and either destroys it or keeps what its keepalive was.  *)
(***************************************************************************)
Writes(c) ==
    /\ lock = c /\ Alone(c) /\ at[c] \in Ids
    /\ doing'[c] \notin {"stopping", "destroying"}
    /\ rec[at[c]].status # "destroyed"
    /\ \E row \in Row : /\ Put(at[c], row)
                        /\ row.status = "destroyed" \/ row.keep >= rec[at[c]].keep

LEMMA OnlyHolderWrites ==
    ASSUME TypeOK, HolderInv, [Next]_vars
    PROVE  Tick \/ UNCHANGED <<rec, rank>> \/ \E c \in Callers : Writes(c)
<1>b. /\ Workers \subseteq Callers /\ Tools \subseteq Callers
      /\ Reaper \in Callers /\ Archiver \in Callers
  BY DEF Callers, Cleaners
<1>t. /\ doing \in [Callers -> Steps] /\ copy \in [Callers -> Row]
      /\ at \in [Callers -> Ids \cup {NoId}] /\ rec \in [Ids -> Row]
  BY DEF TypeOK
<1>u. \A row \in Row : row.keep \in Nat
  BY TimesAssumption DEF Row
<1>l. ASSUME NEW c \in Callers, NEW next, NEW s, Leave(c, next, s) PROVE Alone(c) /\ doing'[c] = next
  BY <1>l, <1>t DEF Leave, Alone
<1>r. ASSUME NEW c \in Callers, Replace(c)
      PROVE  Alone(c) /\ doing'[c] \in {"create", "mark"}
  BY <1>r, <1>t, <1>l DEF Replace, Alone
<1>c. ASSUME NEW c \in Callers, doing[c] \in Copied
      PROVE  /\ lock = c /\ at[c] \in Ids /\ copy[c] = rec[at[c]] /\ copy[c] \in Row
             /\ rec[at[c]].status # "destroyed"
  BY <1>c, <1>t DEF HolderInv, LockInv, CopyInv, Locked, Active, ActiveStatus
<1>s. ASSUME NEW c \in Callers, doing[c] \in Copied, Alone(c),
             doing'[c] \notin {"stopping", "destroying"},
             NEW st \in {"ready", "stopped", "unhealthy", "destroyed"},
             Put(at[c], [copy[c] EXCEPT !.status = st])
      PROVE  Writes(c)
  <2>1. [copy[c] EXCEPT !.status = st] \in Row
    BY <1>s, <1>c, WithStatusTyped
  <2>2. PICK row \in Row : row = [copy[c] EXCEPT !.status = st]
    BY <2>1
  <2>3. row.keep = copy[c].keep /\ copy[c].keep \in Nat
    BY <2>2, <1>s, <1>c, <1>u DEF Row
  <2>4. Put(at[c], row) /\ row.keep >= rec[at[c]].keep
    BY <2>2, <2>3, <1>s, <1>c
  <2> QED
    BY <2>4, <1>s, <1>c DEF Writes
<1>1. ASSUME NEW c \in Callers, Health(c) PROVE Writes(c)
  <2>1. PICK h \in Healths(provider[at[c]]) :
          /\ Put(at[c], Checked(h, copy[c]))
          /\ Go(c, "connect", Checked(h, copy[c])) \/ Replace(c)
    BY <1>1 DEF Health
  <2>2. doing[c] \in Copied
    BY <1>1 DEF Health, Copied
  <2>3. Alone(c) /\ doing'[c] \notin {"stopping", "destroying"}
    BY <2>1, <1>t, <1>r DEF Go, Alone
  <2>4. Checked(h, copy[c]) \in Row /\ Checked(h, copy[c]).keep = copy[c].keep
    <3>1. Checked(h, copy[c]).keep = copy[c].keep
      BY <1>t DEF Checked, Row
    <3> QED
      BY <3>1, <1>t, CheckedTyped
  <2>5. rec[at[c]].keep \in Nat
    BY <2>2, <1>c, <1>u
  <2> QED
    BY <2>1, <2>2, <2>3, <2>4, <2>5, <1>c DEF Writes
<1>2. ASSUME NEW c \in Callers, ConnectUnavailable(c) \/ Discard(c)
      PROVE  UNCHANGED <<rec, rank>> \/ Writes(c)
  <2>1. /\ doing[c] \in Copied /\ Replace(c)
        /\ \/ UNCHANGED <<rec, rank>>
           \/ \E st \in {"unhealthy", "destroyed"} : Put(at[c], [copy[c] EXCEPT !.status = st])
    BY <1>2 DEF ConnectUnavailable, Discard, Copied
  <2> QED
    BY <2>1, <1>r, <1>s
<1>3. ASSUME NEW c \in Callers, Connect(c) PROVE Writes(c)
  <2>1. /\ doing[c] \in Copied
        /\ Leave(c, "using", at[c]) \/ Leave(c, "extend", NoId)
        /\ Put(at[c], [rec[at[c]] EXCEPT !.status = "ready"])
    BY <1>3 DEF Connect, Copied
  <2>2. Put(at[c], [copy[c] EXCEPT !.status = "ready"])
    BY <2>1, <1>c
  <2>3. Alone(c) /\ doing'[c] \notin {"stopping", "destroying"}
    BY <2>1, <1>l
  <2> QED
    BY <2>1, <2>2, <2>3, <1>s
<1>4. ASSUME NEW c \in Callers, Insert(c) PROVE Writes(c)
  <2>1. /\ doing[c] = "insert" /\ Leave(c, "using", at[c])
        /\ Put(at[c], [status |-> "ready", age |-> 0, keep |-> 0])
    BY <1>4 DEF Insert
  <2>2. lock = c /\ at[c] \in Ids /\ rec[at[c]] = NoRow
    BY <2>1 DEF HolderInv, LockInv, InsertInv, Locked
  <2>3. [status |-> "ready", age |-> 0, keep |-> 0] \in Row
    BY TimesAssumption DEF Row
  <2> QED
    BY <2>1, <2>2, <2>3, <1>l DEF Writes, NoRow
<1>5. ASSUME NEW c \in Callers, Touch(c) PROVE Writes(c)
  <2>1. doing[c] \in Copied /\ Leave(c, "end", NoId) /\ Put(at[c], copy[c])
    BY <1>5 DEF Touch, Copied
  <2>2. rec[at[c]].keep \in Nat
    BY <2>1, <1>c, <1>u
  <2> QED
    BY <2>1, <2>2, <1>c, <1>l DEF Writes
<1>6. ASSUME NEW c \in Callers, Extend(c) PROVE Writes(c)
  <2>1. doing[c] \in Copied /\ Leave(c, "none", NoId)
    BY <1>6 DEF Extend, Copied
  <2>2. PICK d \in 1..MaxKeep : Put(at[c], [copy[c] EXCEPT !.keep = Extended(copy[c].keep, d)])
    BY <1>6 DEF Extend
  <2>3. copy[c].keep \in 0..MaxKeep
    BY <1>t DEF Row
  <2>4. Extended(copy[c].keep, d) \in 0..MaxKeep /\ Extended(copy[c].keep, d) >= copy[c].keep
    BY <2>2, <2>3, TimesAssumption DEF Extended
  <2>5. [copy[c] EXCEPT !.keep = Extended(copy[c].keep, d)] \in Row
    BY <2>4, <1>t DEF Row
  <2>6. PICK row \in Row : row = [copy[c] EXCEPT !.keep = Extended(copy[c].keep, d)]
    BY <2>5
  <2>7. row.keep = Extended(copy[c].keep, d)
    BY <2>6, <1>t DEF Row
  <2>8. Put(at[c], row) /\ row.keep >= rec[at[c]].keep
    BY <2>1, <2>2, <2>4, <2>6, <2>7, <1>c
  <2> QED
    BY <2>1, <2>8, <1>c, <1>l DEF Writes
<1>7. ASSUME NEW c \in Callers, MarkMissing(c) \/ Stop(c) \/ Destroy(c)
      PROVE  UNCHANGED <<rec, rank>> \/ Writes(c)
  <2>1. /\ doing[c] \in Copied
        /\ \E next \in {"none", "stop", "destroy"} : Leave(c, next, NoId)
        /\ \/ UNCHANGED <<rec, rank>>
           \/ \E st \in {"stopped", "destroyed"} : Put(at[c], [copy[c] EXCEPT !.status = st])
    BY <1>7 DEF MarkMissing, Stop, Destroy, Copied, rows
  <2> QED
    BY <2>1, <1>l, <1>s
<1>8. ASSUME \/ Enqueue \/ LeaseExpires \/ Unarchive \/ Archive \/ ListActive \/ ListStoppable
             \/ ListIdle \/ UNCHANGED vars
      PROVE  UNCHANGED <<rec, rank>>
  BY <1>8 DEF Enqueue, LeaseExpires, Unarchive, Archive, ListActive, ListStoppable, ListIdle,
              vars, rows
<1>9. ASSUME NEW c \in Callers, \/ Claim(c) \/ EndRun(c) \/ Request(c) \/ EndCleanup(c)
                                \/ BeginEnsure(c) \/ BeginExtend(c) \/ BeginMark(c)
                                \/ RunnerReturns(c) \/ Create(c) \/ InsertFails(c)
                                \/ EnsureThrows(c) \/ BeginCleanup(c) \/ DestroyFails(c) \/ Crash(c)
      PROVE  UNCHANGED <<rec, rank>>
  BY <1>9 DEF Claim, EndRun, Request, EndCleanup, BeginEnsure, BeginExtend, BeginMark,
              RunnerReturns, Create, InsertFails, EnsureThrows, BeginCleanup, DestroyFails,
              Crash, rows
<1> QED
  BY <1>b, <1>1, <1>2, <1>3, <1>4, <1>5, <1>6, <1>7, <1>8, <1>9
     DEF Next, WorkerStep, ToolStep, ReaperStep, ArchiverStep, Ensure, Cleanup

\* Whole-row writes composed from copies undo nothing: a destroyed sandbox stays
\* destroyed and a keepalive only runs out (updateSandbox, sandbox/service.ts).
THEOREM NoRowIsOverwritten == Spec => RecordsAreNotOverwritten
<1> DEFINE Kept(s) == /\ rec[s].status = "destroyed" => rec'[s].status = "destroyed"
                      /\ rec'[s].keep < rec[s].keep => rec'[s] \in {Aged(rec[s]), Gone}
<1>1. ASSUME TypeOK, HolderInv, [Next]_vars, NEW s \in Ids PROVE Kept(s)
  <2>1. rec[s] \in Row /\ rec[s].keep \in Nat
    BY <1>1, TimesAssumption DEF TypeOK, Row
  <2>2. CASE Tick
    BY <1>1, <2>1, <2>2 DEF Tick, Aged, ActiveStatus
  <2>3. CASE rec'[s] = rec[s]
    BY <2>1, <2>3
  <2>4. CASE \E c \in Callers : Writes(c) /\ at[c] = s
    <3>1. PICK row \in Row : /\ rec[s].status # "destroyed" /\ Put(s, row)
                             /\ row.status = "destroyed" \/ row.keep >= rec[s].keep
      BY <2>4 DEF Writes
    <3>2. CASE row.status = "destroyed"
      BY <1>1, <3>1, <3>2 DEF Put, TypeOK
    <3>3. CASE row.status # "destroyed"
      <4>1. rec'[s] = [row EXCEPT !.age = 0]
        BY <1>1, <3>1, <3>3 DEF Put, TypeOK
      <4>2. rec'[s].keep = row.keep /\ row.keep \in Nat
        BY <4>1, TimesAssumption DEF Row
      <4> QED
        BY <2>1, <3>1, <3>3, <4>2
    <3> QED
      BY <3>2, <3>3
  <2>5. CASE \E c \in Callers : Writes(c) /\ at[c] # s
    BY <1>1, <2>3, <2>5 DEF Writes, Put, TypeOK
  <2> QED
    BY <1>1, <2>2, <2>3, <2>4, <2>5, OnlyHolderWrites
<1>2. TypeOK /\ HolderInv /\ [Next]_vars => [\A s \in Ids : Kept(s)]_vars
  BY <1>1
<1> QED
  BY <1>2, SandboxTyped, HolderInvariant, PTL DEF Spec, RecordsAreNotOverwritten

\* The reaper comes to a provider call only by taking the lock for it.
LEMMA ReaperBegins ==
    ASSUME TypeOK, [Next]_vars, doing'[Reaper] \in {"stopping", "destroying"}
    PROVE  \/ doing'[Reaper] = doing[Reaper] /\ at'[Reaper] = at[Reaper]
           \/ BeginCleanup(Reaper)
<1> DEFINE Same == doing'[Reaper] = doing[Reaper] /\ at'[Reaper] = at[Reaper]
<1>t. /\ doing \in [Callers -> Steps] /\ at \in [Callers -> Ids \cup {NoId}] /\ Reaper \in Callers
      /\ Workers \subseteq Callers /\ Tools \subseteq Callers /\ Archiver \in Callers
      /\ Reaper # Archiver /\ Reaper \notin Workers /\ Reaper \notin Tools
  BY CallersAssumption DEF TypeOK, Callers, Cleaners
<1>a. ASSUME NEW c \in Callers, NEW next, NEW s, Leave(c, next, s) \/ Acquire(c, s, next),
             next \notin {"stopping", "destroying"}
      PROVE  Same
  BY <1>a, <1>t DEF Leave, Acquire
<1>b. ASSUME NEW c \in Callers, NEW next, PassLock(c, next), next \notin {"stopping", "destroying"}
      PROVE  Same
  BY <1>b, <1>t DEF PassLock
<1>c. ASSUME NEW c \in Callers, NEW next, doing' = [doing EXCEPT ![c] = next], at' = at,
             next \notin {"stopping", "destroying"}
      PROVE  Same
  BY <1>c, <1>t
<1>1. ASSUME Enqueue \/ LeaseExpires \/ Unarchive \/ Tick \/ UNCHANGED vars PROVE Same
  BY <1>1 DEF Enqueue, LeaseExpires, Unarchive, Tick, local, vars
<1>2. ASSUME Archive \/ ListActive \/ ListStoppable \/ ListIdle PROVE Same
  BY <1>2, <1>t, <1>c DEF Archive, ListActive, ListStoppable, ListIdle
<1>3. ASSUME NEW c \in Callers, Claim(c) \/ EndRun(c) \/ Request(c) \/ EndCleanup(c) PROVE Same
  BY <1>3, <1>c DEF Claim, EndRun, Request, EndCleanup
<1>4. ASSUME NEW c \in Callers, BeginEnsure(c) \/ BeginExtend(c) \/ BeginMark(c) \/ RunnerReturns(c)
      PROVE  Same
  BY <1>4, <1>a, <1>b DEF BeginEnsure, BeginExtend, BeginMark, RunnerReturns
<1>5. ASSUME NEW c \in Workers \cup Tools,
             Health(c) \/ ConnectUnavailable(c) \/ Discard(c) \/ Create(c)
      PROVE  Same
  BY <1>5, <1>t DEF Health, ConnectUnavailable, Discard, Create, Go, Replace, Leave
<1>6. ASSUME NEW c \in Callers, \/ Connect(c) \/ Insert(c) \/ InsertFails(c) \/ EnsureThrows(c) \/ Touch(c)
                                \/ Extend(c) \/ MarkMissing(c) \/ Stop(c) \/ Destroy(c)
                                \/ DestroyFails(c) \/ Crash(c)
      PROVE  Same
  <2>1. \E next \in {"using", "extend", "none", "end", "stop", "destroy"}, s \in {at[c], NoId} :
           Leave(c, next, s)
    BY <1>6 DEF Connect, Insert, InsertFails, EnsureThrows, Touch, Extend, MarkMissing, Stop,
                Destroy, DestroyFails, Crash
  <2> QED
    BY <2>1, <1>a
<1>7. ASSUME BeginCleanup(Archiver) PROVE Same
  BY <1>7, <1>t DEF BeginCleanup, PassLock, Acquire
<1> QED
  BY <1>t, <1>1, <1>2, <1>3, <1>4, <1>5, <1>6, <1>7
     DEF Next, WorkerStep, ToolStep, ReaperStep, ArchiverStep, Ensure, Cleanup

\* The reaper stops and destroys nothing whose keepalive has not run out, however
\* old its list is (stopSandboxes, destroySandboxes, KeepaliveService.extend).
THEOREM KeepaliveIsRespected == Spec => []KeptAliveIsLeft
<1>1. Init => KeptAliveIsLeft
  BY DEF Init, KeptAliveIsLeft, Callers, Cleaners
<1>2. TypeOK /\ HolderInv /\ KeptAliveIsLeft /\ [Next]_vars => KeptAliveIsLeft'
  <2> SUFFICES ASSUME TypeOK, HolderInv, KeptAliveIsLeft, [Next]_vars,
                      doing'[Reaper] \in {"stopping", "destroying"}
               PROVE  rec'[at'[Reaper]].keep = 0
    BY DEF KeptAliveIsLeft
  <2>1. Reaper \in Callers /\ rec \in [Ids -> Row] /\ todo[Reaper] \subseteq Ids
    BY DEF TypeOK, Callers, Cleaners
  <2>2. CASE BeginCleanup(Reaper)
    <3>1. PICK s \in todo[Reaper] :
             \/ PassLock(Reaper, doing[Reaper])
             \/ ~IsLeftAlone(Reaper, s) /\ \E next \in Steps : Acquire(Reaper, s, next)
      BY <2>2 DEF BeginCleanup, Steps
    <3>2. ~PassLock(Reaper, doing[Reaper])
      BY <2>1, <2>2 DEF PassLock, BeginCleanup, TypeOK
    <3>3. s \in Ids /\ rec[s].keep \in Nat /\ ~(rec[s].keep > 0)
      BY <2>1, <3>1, <3>2, TimesAssumption DEF IsLeftAlone, Row
    <3>4. at'[Reaper] = s /\ rec' = rec
      BY <2>1, <2>2, <3>1, <3>2 DEF Acquire, BeginCleanup, TypeOK, rows
    <3> QED
      BY <3>3, <3>4
  <2>3. CASE doing'[Reaper] = doing[Reaper] /\ at'[Reaper] = at[Reaper]
    <3>1. /\ rec[at[Reaper]].keep = 0 /\ at[Reaper] \in Ids /\ lock = Reaper
      BY <2>1, <2>3 DEF KeptAliveIsLeft, HolderInv, CopyInv, LockInv, Copied, Locked
    <3>2. CASE Tick
      <4>1. rec'[at[Reaper]] = Aged(rec[at[Reaper]]) /\ rec[at[Reaper]] \in Row
        BY <2>1, <3>1, <3>2 DEF Tick
      <4> QED
        BY <2>3, <3>1, <4>1 DEF Aged, Row
    <3>3. CASE UNCHANGED <<rec, rank>>
      BY <2>3, <3>1, <3>3
    <3>4. CASE \E c \in Callers : Writes(c)
      BY <3>1, <3>4 DEF Writes
    <3> QED
      BY <3>2, <3>3, <3>4, OnlyHolderWrites
  <2> QED
    BY <2>2, <2>3, ReaperBegins
<1> QED
  BY <1>1, <1>2, SandboxTyped, HolderInvariant, PTL DEF Spec

-----------------------------------------------------------------------------
(***************************************************************************)
(* Sandboxes nobody can find: a step adds none, or is a fault and adds one. *)
(***************************************************************************)
LEMMA UntrackedStep ==
    ASSUME TypeOK, HolderInv, [Next]_vars
    PROVE  \/ faults' = faults /\ Untracked' \subseteq Untracked
           \/ faults' = faults + 1 /\ \E s \in Ids : Untracked' \subseteq Untracked \cup {s}
           \/ faults' = faults + 1 /\ Untracked' \subseteq Untracked
<1> DEFINE Goal == \/ faults' = faults /\ Untracked' \subseteq Untracked
                   \/ faults' = faults + 1 /\ \E s \in Ids : Untracked' \subseteq Untracked \cup {s}
                   \/ faults' = faults + 1 /\ Untracked' \subseteq Untracked
<1> DEFINE Safe(s) == /\ provider'[s] = "live" => provider[s] = "live"
                      /\ Active(s) => Active(s)' \/ provider'[s] # "live"
<1>b. /\ Workers \subseteq Callers /\ Tools \subseteq Callers
      /\ Reaper \in Callers /\ Archiver \in Callers
  BY DEF Callers, Cleaners
<1>t. /\ doing \in [Callers -> Steps] /\ copy \in [Callers -> Row] /\ faults \in Nat
      /\ at \in [Callers -> Ids \cup {NoId}] /\ rec \in [Ids -> Row]
      /\ provider \in [Ids -> {"none", "live", "gone"}]
  BY DEF TypeOK
<1>u. ASSUME NEW c \in Callers, Alone(c), doing[c] # "insert", \A s \in Ids : Safe(s)
      PROVE  Untracked' \subseteq Untracked
  BY <1>u DEF Untracked, Alone
<1>v. ASSUME NEW c \in Callers, Alone(c), \A s \in Ids \ {at[c]} : Safe(s)
      PROVE  Untracked' \subseteq Untracked \cup {at[c]}
  BY <1>v DEF Untracked, Alone
<1>w. ASSUME UNCHANGED <<rec, provider>> PROVE \A s \in Ids : Safe(s)
  BY <1>w DEF Active
<1>l. ASSUME NEW c \in Callers, NEW next, NEW s, Leave(c, next, s) PROVE Alone(c)
  BY <1>l, <1>t DEF Leave, Alone
<1>r. ASSUME NEW c \in Callers, Replace(c) PROVE Alone(c)
  BY <1>r, <1>t, <1>l DEF Replace, Alone
<1>h. ASSUME NEW c \in Callers, doing[c] \in Copied \cup {"insert"} PROVE at[c] \in Ids
  BY <1>h DEF HolderInv, CopyInv, InsertInv
\* A row that is written with another status than destroyed is an active one.
<1>p. ASSUME NEW c \in Callers, NEW row, Put(at[c], row), at[c] \in Ids,
             row.status \in ActiveStatus, row \in Row
      PROVE  rec'[at[c]].status \in ActiveStatus /\ \A s \in Ids \ {at[c]} : rec'[s] = rec[s]
  <2>1. rec'[at[c]] = [row EXCEPT !.age = 0]
    BY <1>p, <1>t DEF Put, ActiveStatus
  <2>2. rec'[at[c]].status = row.status
    BY <2>1, <1>p DEF Row
  <2> QED
    BY <2>2, <1>p, <1>t DEF Active, Put
<1>q. ASSUME NEW c \in Callers, NEW row, Put(at[c], row)
      PROVE  \A s \in Ids \ {at[c]} : rec'[s] = rec[s]
  BY <1>q, <1>t DEF Put
<1>1. ASSUME Enqueue \/ LeaseExpires \/ Unarchive \/ UNCHANGED vars PROVE Goal
  <2>1. UNCHANGED <<rec, provider, doing, at, faults>>
    BY <1>1 DEF Enqueue, LeaseExpires, Unarchive, local, rows, vars
  <2> QED
    BY <2>1 DEF Untracked, Active
<1>2. ASSUME Archive \/ ListActive \/ ListStoppable \/ ListIdle PROVE Goal
  <2>1. PICK c \in {Reaper, Archiver} : Alone(c) /\ doing[c] # "insert"
    BY <1>2, <1>t, <1>b DEF Archive, ListActive, ListStoppable, ListIdle, Alone
  <2>2. UNCHANGED <<rec, provider, faults>>
    BY <1>2 DEF Archive, ListActive, ListStoppable, ListIdle, rows
  <2> QED
    BY <2>1, <2>2, <1>b, <1>u, <1>w
<1>3. ASSUME NEW c \in Callers, \/ Claim(c) \/ EndRun(c) \/ Request(c) \/ EndCleanup(c)
                                \/ BeginEnsure(c) \/ BeginExtend(c) \/ BeginMark(c)
                                \/ RunnerReturns(c) \/ BeginCleanup(c) \/ EnsureThrows(c)
      PROVE  Goal
  <2>1. Alone(c)
    BY <1>3, <1>t, <1>l DEF Claim, EndRun, Request, EndCleanup, BeginEnsure, BeginExtend,
         BeginMark, RunnerReturns, BeginCleanup, EnsureThrows, Alone, Acquire, PassLock
  <2>2. UNCHANGED <<rec, provider, faults>> /\ doing[c] # "insert"
    BY <1>3 DEF Claim, EndRun, Request, EndCleanup, BeginEnsure, BeginExtend,
         BeginMark, RunnerReturns, BeginCleanup, EnsureThrows, rows
  <2> QED
    BY <2>1, <2>2, <1>u, <1>w
<1>4. ASSUME NEW c \in Callers, Health(c) PROVE Goal
  <2>1. PICK h \in Healths(provider[at[c]]) :
          /\ Observed(at[c], h) /\ Put(at[c], Checked(h, copy[c]))
          /\ Go(c, "connect", Checked(h, copy[c])) \/ Replace(c)
    BY <1>4 DEF Health
  <2>2. doing[c] = "health" /\ at[c] \in Ids /\ faults' = faults
    BY <1>4, <1>h DEF Health, Copied
  <2>3. Alone(c)
    BY <2>1, <1>r, <1>t DEF Go, Alone
  <2>4. Checked(h, copy[c]).status \in ActiveStatus /\ Checked(h, copy[c]) \in Row
    <3>1. Checked(h, copy[c]).status \in ActiveStatus
      BY <1>t DEF Checked, Row, ActiveStatus
    <3> QED
      BY <3>1, <1>t, CheckedTyped
  <2>5. \A s \in Ids : Safe(s)
    <3>1. rec'[at[c]].status \in ActiveStatus /\ \A s \in Ids \ {at[c]} : rec'[s] = rec[s]
      BY <2>1, <2>2, <2>4, <1>p
    <3>2. \A s \in Ids : provider'[s] = "live" => provider[s] = "live"
      BY <2>1, <1>t DEF Observed
    <3> QED
      BY <3>1, <3>2 DEF Active
  <2> QED
    BY <2>2, <2>3, <2>5, <1>u
<1>5. ASSUME NEW c \in Callers, Connect(c) \/ Insert(c) \/ Touch(c) \/ Extend(c) \/ Stop(c)
                                \/ ConnectUnavailable(c)
      PROVE  Goal
  <2>1. doing[c] \in Copied \cup {"insert"} /\ at[c] \in Ids
    <3>1. doing[c] \in Copied \cup {"insert"}
      BY <1>5 DEF Connect, Insert, Touch, Extend, Stop, ConnectUnavailable, Copied
    <3> QED
      BY <3>1, <1>h
  <2>2. doing[c] # "insert" => Active(at[c]) /\ copy[c] = rec[at[c]] /\ copy[c] \in Row
    BY <2>1, <1>t DEF HolderInv, CopyInv
  <2>3. UNCHANGED <<provider, faults>> /\ Alone(c)
    BY <1>5, <1>l, <1>r DEF Connect, Insert, Touch, Extend, Stop, ConnectUnavailable
  <2>4. \/ doing[c] # "insert" /\ rec' = rec
        \/ \E row \in Row : row.status \in ActiveStatus /\ Put(at[c], row)
    <3>1. ASSUME NEW st \in {"ready", "stopped", "unhealthy"}, doing[c] # "insert",
                 Put(at[c], [copy[c] EXCEPT !.status = st])
          PROVE  \E row \in Row : row.status \in ActiveStatus /\ Put(at[c], row)
      <4>1. [copy[c] EXCEPT !.status = st] \in Row
        BY <3>1, <2>2, WithStatusTyped
      <4>2. [copy[c] EXCEPT !.status = st].status = st
        BY <3>1, <2>2 DEF Row
      <4> QED
        BY <3>1, <4>1, <4>2 DEF ActiveStatus
    <3>2. CASE Connect(c)
      <4>1. Put(at[c], [copy[c] EXCEPT !.status = "ready"]) /\ doing[c] # "insert"
        BY <3>2, <2>2 DEF Connect
      <4> QED
        BY <4>1, <3>1
    <3>3. CASE ConnectUnavailable(c)
      BY <3>3, <3>1 DEF ConnectUnavailable
    <3>4. CASE Stop(c)
      BY <3>4, <3>1 DEF Stop
    <3>5. CASE Insert(c)
      <4>1. [status |-> "ready", age |-> 0, keep |-> 0] \in Row
        BY TimesAssumption DEF Row
      <4> QED
        BY <3>5, <4>1 DEF Insert, ActiveStatus
    <3>6. CASE Touch(c)
      BY <3>6, <2>2 DEF Touch, Active
    <3>7. CASE Extend(c)
      <4>1. PICK d \in 1..MaxKeep : Put(at[c], [copy[c] EXCEPT !.keep = Extended(copy[c].keep, d)])
        BY <3>7 DEF Extend
      <4>2. copy[c].keep \in 0..MaxKeep
        BY <1>t DEF Row
      <4>3. Extended(copy[c].keep, d) \in 0..MaxKeep
        BY <4>1, <4>2, TimesAssumption DEF Extended
      <4>4. [copy[c] EXCEPT !.keep = Extended(copy[c].keep, d)] \in Row
        BY <4>3, <1>t DEF Row
      <4>5. [copy[c] EXCEPT !.keep = Extended(copy[c].keep, d)].status \in ActiveStatus
        BY <3>7, <2>2 DEF Extend, Active, Row
      <4> QED
        BY <4>1, <4>4, <4>5
    <3> QED
      BY <1>5, <3>2, <3>3, <3>4, <3>5, <3>6, <3>7
  <2>5. CASE doing[c] # "insert" /\ rec' = rec
    BY <2>3, <2>5, <1>u, <1>w
  <2>6. CASE \E row \in Row : row.status \in ActiveStatus /\ Put(at[c], row)
    <3>1. rec'[at[c]].status \in ActiveStatus /\ \A s \in Ids \ {at[c]} : rec'[s] = rec[s]
      BY <2>1, <2>6, <1>p
    <3>2. \A s \in Ids : Safe(s)
      BY <2>3, <3>1 DEF Active
    <3>3. at[c] \notin Untracked'
      BY <3>1 DEF Untracked, Active
    <3>4. Untracked' \subseteq Untracked \cup {at[c]}
      BY <2>3, <3>2, <1>v
    <3> QED
      BY <2>3, <3>3, <3>4
  <2> QED
    BY <2>4, <2>5, <2>6
<1>6. ASSUME NEW c \in Callers, MarkMissing(c) \/ Destroy(c) PROVE Goal
  <2>1. doing[c] # "insert" /\ faults' = faults /\ Alone(c)
    BY <1>6, <1>l DEF MarkMissing, Destroy
  <2>2. \/ UNCHANGED <<rec, provider>>
        \/ /\ provider' = [provider EXCEPT ![at[c]] = "gone"]
           /\ \E row : Put(at[c], row)
    BY <1>6 DEF MarkMissing, Destroy, Observed, rows
  <2>3. \A s \in Ids : Safe(s)
    <3>1. CASE UNCHANGED <<rec, provider>>
      BY <3>1, <1>w
    <3>2. CASE /\ provider' = [provider EXCEPT ![at[c]] = "gone"]
               /\ \E row : Put(at[c], row)
      BY <3>2, <1>q, <1>t DEF Active
    <3> QED
      BY <2>2, <3>1, <3>2
  <2> QED
    BY <2>1, <2>3, <1>u
<1>7. ASSUME NEW c \in Callers, Discard(c) PROVE Goal
  <2>1. doing[c] = "connect" /\ at[c] \in Ids /\ Alone(c)
    BY <1>7, <1>h, <1>r DEF Discard, Copied
  <2>2. \A s \in Ids \ {at[c]} : rec'[s] = rec[s]
    BY <1>7, <1>q DEF Discard
  <2>3. CASE provider' = [provider EXCEPT ![at[c]] = "gone"] /\ faults' = faults
    <3>1. \A s \in Ids : Safe(s)
      BY <2>2, <2>3, <1>t DEF Active
    <3> QED
      BY <2>1, <2>3, <3>1, <1>u
  <2>4. CASE provider' = provider /\ faults' = faults + 1
    <3>1. \A s \in Ids \ {at[c]} : Safe(s)
      BY <2>2, <2>4 DEF Active
    <3> QED
      BY <2>1, <2>4, <3>1, <1>v
  <2> QED
    BY <1>7, <2>3, <2>4 DEF Discard, DestroyAtBest, Fault
<1>8. ASSUME NEW c \in Callers, Create(c) PROVE Goal
  <2>1. PICK s \in Ids : provider' = [provider EXCEPT ![s] = "live"] /\ at' = [at EXCEPT ![c] = s]
    BY <1>8 DEF Create
  <2>2. /\ doing[c] = "create" /\ doing' = [doing EXCEPT ![c] = "insert"]
        /\ UNCHANGED <<rec, faults>>
    BY <1>8 DEF Create
  <2>3. s \notin Untracked'
    BY <2>1, <2>2, <1>t DEF Untracked
  <2>4. ASSUME NEW r \in Untracked', r # s PROVE r \in Untracked
    BY <2>1, <2>2, <2>4, <1>t DEF Untracked, Active
  <2> QED
    BY <2>2, <2>3, <2>4
<1>9. ASSUME NEW c \in Callers, InsertFails(c) PROVE Goal
  <2>1. doing[c] = "insert" /\ at[c] \in Ids /\ Alone(c) /\ rec' = rec
    BY <1>9, <1>h, <1>l DEF InsertFails
  <2>2. CASE provider' = [provider EXCEPT ![at[c]] = "gone"] /\ faults' = faults
    <3>1. \A s \in Ids \ {at[c]} : Safe(s)
      BY <2>1, <2>2, <1>t DEF Active
    <3>2. at[c] \notin Untracked'
      BY <2>1, <2>2, <1>t DEF Untracked
    <3> QED
      BY <2>1, <2>2, <3>1, <3>2, <1>v
  <2>3. CASE provider' = provider /\ faults' = faults + 1
    BY <2>1, <2>3, <1>v, <1>w
  <2> QED
    BY <1>9, <2>2, <2>3 DEF InsertFails, DestroyAtBest, Fault
<1>10. ASSUME NEW c \in Callers, DestroyFails(c) \/ Crash(c) PROVE Goal
  <2>1. Alone(c) /\ UNCHANGED <<rec, provider>> /\ faults' = faults + 1
    BY <1>10, <1>l DEF DestroyFails, Crash, Fault, rows
  <2>2. CASE doing[c] # "insert"
    BY <2>1, <2>2, <1>u, <1>w
  <2>3. CASE doing[c] = "insert"
    BY <2>1, <2>3, <1>h, <1>v, <1>w
  <2> QED
    BY <2>2, <2>3
<1>11. ASSUME Tick PROVE Goal
  <2>1. /\ UNCHANGED <<provider, doing, at, faults>>
        /\ \A s \in Ids : rec'[s] = Aged(rec[s])
    BY <1>11 DEF Tick
  <2>2. ASSUME NEW s \in Ids PROVE Active(s) => Active(s)'
    BY <2>1, <1>t DEF Active, Aged, Row
  <2> QED
    BY <2>1, <2>2 DEF Untracked
<1> QED
  BY <1>b, <1>1, <1>2, <1>3, <1>4, <1>5, <1>6, <1>7, <1>8, <1>9, <1>10, <1>11
     DEF Next, WorkerStep, ToolStep, ReaperStep, ArchiverStep, Ensure, Cleanup

\* Every sandbox that runs where no cleanup can find it is the doing of a crash
\* or of a destroy that failed (ensureUnlocked, getSandboxSecretsForReconnect).
THEOREM EveryLeakHasAFault == Spec => []LeaksAreExplained
<1> DEFINE LeakInv == faults \in Nat /\ LeaksAreExplained
<1>1. Init => LeakInv
  <2> SUFFICES ASSUME Init PROVE LeakInv
    OBVIOUS
  <2>1. Untracked = {} /\ faults = 0
    BY DEF Init, Untracked
  <2> QED
    BY <2>1, FS_EmptySet DEF LeaksAreExplained
<1>2. TypeOK /\ HolderInv /\ LeakInv /\ [Next]_vars => LeakInv'
  <2> SUFFICES ASSUME TypeOK, HolderInv, LeakInv, [Next]_vars PROVE LeakInv'
    OBVIOUS
  <2>1. IsFiniteSet(Untracked) /\ Cardinality(Untracked) \in Nat
    <3>1. Untracked \subseteq Ids
      BY DEF Untracked
    <3> QED
      BY <3>1, IdsAssumption, FS_Subset, FS_CardinalityType
  <2>2. CASE Untracked' \subseteq Untracked /\ (faults' = faults \/ faults' = faults + 1)
    BY <2>1, <2>2, FS_Subset, FS_CardinalityType DEF LeaksAreExplained
  <2>3. CASE faults' = faults + 1 /\ \E s \in Ids : Untracked' \subseteq Untracked \cup {s}
    <3>1. PICK s \in Ids : Untracked' \subseteq Untracked \cup {s}
      BY <2>3
    <3>2. /\ IsFiniteSet(Untracked \cup {s})
          /\ Cardinality(Untracked \cup {s}) <= Cardinality(Untracked) + 1
      BY <2>1, FS_AddElement
    <3>3. /\ Cardinality(Untracked') <= Cardinality(Untracked \cup {s})
          /\ Cardinality(Untracked') \in Nat /\ Cardinality(Untracked \cup {s}) \in Nat
      BY <3>1, <3>2, FS_Subset, FS_CardinalityType
    <3> QED
      BY <2>1, <2>3, <3>2, <3>3 DEF LeaksAreExplained
  <2> QED
    BY <2>2, <2>3, UntrackedStep
<1>3. LeakInv => LeaksAreExplained
  OBVIOUS
<1> QED
  BY <1>1, <1>2, <1>3, SandboxTyped, HolderInvariant, PTL DEF Spec
=============================================================================
