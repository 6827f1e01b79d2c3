-------------------------- MODULE SandboxLifecycle --------------------------
(***************************************************************************)
(* The sandboxes of one session at one provider: the worker that makes     *)
(* sure a run has one, the workspace tools that reconnect to it and extend *)
(* its keepalive, the reaper that stops and destroys idle ones from lists  *)
(* read earlier, and the archive request that destroys them all.           *)
(*                                                                         *)
(* Every write is the whole row (`{ ...record, status }`), composed from a *)
(* copy read before, so the copy is part of the state.  Times are relative *)
(* to now: age is the time since updated_at, keep the time that is left    *)
(* until keepalive_until.  A provider call and the write that follows it   *)
(* are one step: a process that dies between the two leaves a row behind   *)
(* the provider, as does a sandbox that stops or disappears by itself.     *)
(* Creation is two steps, for the sandbox has no row yet.  Metadata,       *)
(* runtime ids, events and the loss of the connection that holds the       *)
(* advisory lock are left out.                                             *)
(***************************************************************************)
EXTENDS Integers, FiniteSets

CONSTANTS
    Ids,          \* the sandboxes the provider may create, with their rows
    Workers,      \* runs of worker processes
    Tools,        \* requests of a user's workspace tools
    Reaper,       \* the periodic task that holds the reaper's lock
    Archiver,     \* the request that archives the session
    StopDelay,    \* age at which an idle sandbox is stopped
    Retention,    \* age at which it is destroyed
    MaxKeep,      \* the longest keepalive (SANDBOX_KEEPALIVE_MAX_EXTENSION)
    Batch,        \* rows the reaper lists at a time
    MaxFaults,    \* bound on the crashes and failed destroys
    NoId, NoCaller

Cleaners == {Reaper, Archiver}
Callers == Workers \cup Tools \cup Cleaners

ASSUME CallersAssumption ==
    /\ Workers \cap (Tools \cup Cleaners) = {} /\ Tools \cap Cleaners = {}
    /\ Reaper # Archiver /\ NoCaller \notin Callers
    /\ Workers \cap {"idle", "queued", "archived"} = {}
ASSUME TimesAssumption ==
    /\ StopDelay \in Nat /\ Retention \in Nat /\ StopDelay <= Retention
    /\ MaxKeep \in Nat /\ MaxFaults \in Nat /\ Batch \in Nat \ {0}
ASSUME IdsAssumption == IsFiniteSet(Ids) /\ NoId \notin Ids

VARIABLES
    \* the sandboxes table and the provider
    rec,        \* id -> row
    rank,       \* id -> its place in ORDER BY updated_at DESC, 0 the newest
    provider,   \* id -> none, live (running or stopped, as it likes) or gone
    \* the session, as the queries of the reaper see it
    session,    \* idle, queued, archived, or the worker whose run is active
    \* the advisory lock sandbox-lifecycle:<provider>:<session>
    lock,       \* the caller that holds it, or NoCaller
    \* what a caller is in the middle of
    doing,      \* caller -> the step it takes next
    at,         \* caller -> the sandbox it works on, or NoId
    copy,       \* caller -> the row it has read
    todo,       \* cleaner -> the ids of its list it has not handled
    faults      \* crashes and failed destroys so far

rows == <<rec, rank, provider>>
local == <<lock, doing, at, copy>>
vars == <<rec, rank, provider, session, lock, doing, at, copy, todo, faults>>

Row == [status: {"absent", "ready", "stopped", "unhealthy", "destroyed"},
        age: 0..Retention, keep: 0..MaxKeep]
NoRow == [status |-> "absent", age |-> 0, keep |-> 0]

ActiveStatus == {"ready", "stopped", "unhealthy"}
Active(s) == rec[s].status \in ActiveStatus

\* getActiveSandbox: the first of the active rows ORDER BY updated_at DESC.
IsCurrent(s) == Active(s) /\ \A t \in Ids : Active(t) => rank[s] <= rank[t]
\* getLatestSandbox: whatever its status.
IsLatest(s) ==
    /\ rec[s].status # "absent"
    /\ \A t \in Ids : rec[t].status # "absent" => rank[s] <= rank[t]

\* updateSandbox / createSandbox: the row is replaced and is the newest.  The
\* times of a destroyed sandbox are read by nobody.
Gone == [status |-> "destroyed", age |-> 0, keep |-> 0]
Put(s, row) ==
    /\ rec' = [rec EXCEPT ![s] = IF row.status = "destroyed" THEN Gone
                                 ELSE [row EXCEPT !.age = 0]]
    /\ rank' = [t \in Ids |-> IF t = s THEN 0
                              ELSE IF rank[t] < rank[s] THEN rank[t] + 1
                              ELSE rank[t]]

Busy == session \in Workers \cup {"queued"}

Stoppable == {s \in Ids : /\ rec[s].status = "ready" /\ rec[s].age >= StopDelay
                          /\ rec[s].keep = 0 /\ ~Busy}
\* Mutant: a sandbox that is unhealthy is not an idle one.
Idle_Mutant == {s \in Ids : /\ rec[s].status \in {"ready", "stopped"}
                            /\ rec[s].age >= Retention /\ rec[s].keep = 0 /\ ~Busy}
Idle == {s \in Ids : /\ Active(s) /\ rec[s].age >= Retention
                     /\ rec[s].keep = 0 /\ ~Busy}
\* ORDER BY updated_at ASC LIMIT batchSize
Oldest(S) ==
    {s \in S : Cardinality({t \in S : rank[t] > rank[s]}) < Batch}

(***************************************************************************)
(* The lock.  A caller that takes it reads the row it is about to work on, *)
(* and drops its copy when it releases it.                                 *)
(***************************************************************************)
Acquire(c, s, next) ==
    /\ lock = NoCaller
    /\ lock' = c
    /\ at' = [at EXCEPT ![c] = s]
    /\ copy' = [copy EXCEPT ![c] = IF s = NoId THEN NoRow ELSE rec[s]]
    /\ doing' = [doing EXCEPT ![c] = next]

\* The lock was taken and released without anything to do in between.
PassLock(c, next) ==
    /\ lock = NoCaller
    /\ at' = [at EXCEPT ![c] = NoId]
    /\ doing' = [doing EXCEPT ![c] = next]
    /\ UNCHANGED <<lock, copy>>

Go(c, next, row) ==
    /\ doing' = [doing EXCEPT ![c] = next]
    /\ copy' = [copy EXCEPT ![c] = row]
    /\ UNCHANGED <<lock, at>>

Leave(c, next, s) ==
    /\ lock' = IF lock = c THEN NoCaller ELSE lock
    /\ doing' = [doing EXCEPT ![c] = next]
    /\ copy' = [copy EXCEPT ![c] = NoRow]
    /\ at' = [at EXCEPT ![c] = s]

Fault == faults < MaxFaults /\ faults' = faults + 1

-----------------------------------------------------------------------------
(***************************************************************************)
(* The session.                                                            *)
(***************************************************************************)
Enqueue ==
    /\ session = "idle"
    /\ session' = "queued"
    /\ UNCHANGED <<rows, local, todo, faults>>

\* A worker claims the next batch and goes on to ensure a sandbox.
Claim(w) ==
    /\ doing[w] = "none" /\ session = "queued"
    /\ session' = w
    /\ doing' = [doing EXCEPT ![w] = "ensure"]
    /\ UNCHANGED <<rows, lock, at, copy, todo, faults>>

\* The lease of the active run expires: its message is queued again, and the
\* worker goes on until it notices.
LeaseExpires ==
    /\ session \in Workers
    /\ session' = "queued"
    /\ UNCHANGED <<rows, local, todo, faults>>

Unarchive ==
    /\ session = "archived"
    /\ session' = "idle"
    /\ UNCHANGED <<rows, local, todo, faults>>

(***************************************************************************)
(* ensure: a worker's, which creates a sandbox where there is none to      *)
(* connect to, and a tool's (allowCreate: false).                          *)
(***************************************************************************)
MayCreate(c) == c \in Workers

\* tryConnect returns null: create, or look whether the sandbox is missing.
Replace(c) ==
    IF MayCreate(c)
    THEN /\ doing' = [doing EXCEPT ![c] = "create"]
         /\ copy' = [copy EXCEPT ![c] = NoRow]
         /\ at' = [at EXCEPT ![c] = NoId]
         /\ UNCHANGED lock
    ELSE Leave(c, "mark", NoId)

BeginEnsure(c) ==
    /\ doing[c] = "ensure"
    /\ \/ \E s \in Ids : IsCurrent(s) /\ Acquire(c, s, "health")
       \/ /\ \A s \in Ids : ~Active(s)
          /\ IF MayCreate(c) THEN Acquire(c, NoId, "create")
                             ELSE PassLock(c, "mark")
    /\ UNCHANGED <<rows, session, todo, faults>>

\* What provider.health may answer: a live sandbox may be in any state by now,
\* or missing, and is gone from then on.
Healths(p) == {"missing", "unhealthy"}
              \cup (IF p = "live" THEN {"ready", "starting", "stopped"} ELSE {})
Observed(s, h) ==
    provider' = IF h = "missing" THEN [provider EXCEPT ![s] = "gone"] ELSE provider

Checked(h, row) ==
    [row EXCEPT !.status = IF h \in {"ready", "stopped"} THEN h ELSE "unhealthy",
                !.age = 0]
\* A stopped sandbox is started and connected to, if the provider has a start; a
\* starting one is good enough for a tool only.
Connectable(c, h) == h \in {"ready", "stopped"} \/ (h = "starting" /\ ~MayCreate(c))

\* health, the write of checkedRecord, and where tryConnect goes from there; which
\* providers have a start is left open.
Health(c) ==
    /\ doing[c] = "health"
    /\ \E h \in Healths(provider[at[c]]) :
          /\ Observed(at[c], h)
          /\ Put(at[c], Checked(h, copy[c]))
          /\ \/ Connectable(c, h) /\ Go(c, "connect", Checked(h, copy[c]))
             \/ (~Connectable(c, h) \/ h = "stopped") /\ Replace(c)
    /\ UNCHANGED <<session, todo, faults>>

\* start (if it was stopped), the secrets, connect; then the record is read
\* again, must still be the current one, and is written as ready.
Connect(c) ==
    /\ doing[c] = "connect" /\ provider[at[c]] = "live"
    /\ IsCurrent(at[c])
    /\ Put(at[c], [rec[at[c]] EXCEPT !.status = "ready"])
    /\ IF c \in Workers THEN Leave(c, "using", at[c]) ELSE Leave(c, "extend", NoId)
    /\ UNCHANGED <<provider, session, todo, faults>>

ConnectUnavailable(c) ==
    /\ doing[c] = "connect"
    /\ Put(at[c], [copy[c] EXCEPT !.status = "unhealthy"])
    /\ Replace(c)
    /\ UNCHANGED <<provider, session, todo, faults>>

\* provider.destroy(...).catch(() => undefined)
DestroyAtBest(s) ==
    \/ provider' = [provider EXCEPT ![s] = "gone"] /\ UNCHANGED faults
    \/ Fault /\ UNCHANGED provider

\* The secrets cannot be read: a worker destroys the sandbox as best it can,
\* records it as destroyed whether or not that worked (the write may fail as
\* well), and creates another.
Discard(c) ==
    /\ doing[c] = "connect" /\ MayCreate(c)
    /\ DestroyAtBest(at[c])
    /\ \/ Put(at[c], [copy[c] EXCEPT !.status = "destroyed"])
       \/ UNCHANGED <<rec, rank>>
    /\ Replace(c)
    /\ UNCHANGED <<session, todo>>

Create(c) ==
    /\ doing[c] = "create"
    /\ \E s \in Ids :
          /\ provider[s] = "none"
          /\ provider' = [provider EXCEPT ![s] = "live"]
          /\ at' = [at EXCEPT ![c] = s]
    /\ doing' = [doing EXCEPT ![c] = "insert"]
    /\ UNCHANGED <<rec, rank, session, lock, copy, todo, faults>>

Insert(c) ==
    /\ doing[c] = "insert"
    /\ Put(at[c], [status |-> "ready", age |-> 0, keep |-> 0])
    /\ Leave(c, "using", at[c])
    /\ UNCHANGED <<provider, session, todo, faults>>

\* Mutant: nothing cleans up behind an insert that fails.
InsertFails_Mutant(c) ==
    /\ doing[c] = "insert"
    /\ Leave(c, "none", NoId)
    /\ UNCHANGED <<rows, session, todo, faults>>

\* The row cannot be written: the sandbox is destroyed as best it can.
InsertFails(c) ==
    /\ doing[c] = "insert"
    /\ DestroyAtBest(at[c])
    /\ Leave(c, "none", NoId)
    /\ UNCHANGED <<rec, rank, session, todo>>

\* Anything else that throws on the way ends the call and frees the lock.
EnsureThrows(c) ==
    /\ doing[c] \in {"health", "connect", "create"}
    /\ Leave(c, "none", NoId)
    /\ UNCHANGED <<rows, session, todo, faults>>

Ensure(c) ==
    \/ BeginEnsure(c) \/ Health(c)
    \/ Connect(c) \/ ConnectUnavailable(c) \/ Discard(c)
    \/ Create(c) \/ Insert(c) \/ InsertFails(c) \/ EnsureThrows(c)

(***************************************************************************)
(* The end of a run: the finally of the worker touches the row of the      *)
(* sandbox it used if that is still the current one.                       *)
(***************************************************************************)
RunnerReturns(w) ==
    /\ doing[w] = "using"
    /\ \/ IsCurrent(at[w]) /\ Acquire(w, at[w], "touch")
       \/ ~IsCurrent(at[w]) /\ PassLock(w, "end")
    /\ UNCHANGED <<rows, session, todo, faults>>

Touch(w) ==
    /\ doing[w] = "touch"
    /\ Put(at[w], copy[w])
    /\ Leave(w, "end", NoId)
    /\ UNCHANGED <<provider, session, todo, faults>>

EndRun(w) ==
    /\ doing[w] = "end"
    /\ session' = IF session = w THEN "idle" ELSE session
    /\ doing' = [doing EXCEPT ![w] = "none"]
    /\ UNCHANGED <<rows, lock, at, copy, todo, faults>>

(***************************************************************************)
(* Requests about the workspace: open a tool (ensure without creating, and *)
(* extend), extend the keepalive, or find out that the sandbox is missing. *)
(***************************************************************************)
Request(c) ==
    /\ doing[c] = "none"
    /\ \E next \in {"ensure", "extend", "mark"} :
          doing' = [doing EXCEPT ![c] = next]
    /\ UNCHANGED <<rows, session, lock, at, copy, todo, faults>>

\* Mutant: a keepalive is extended without the lifecycle lock.
BeginExtend_Mutant(c) ==
    /\ doing[c] = "extend"
    /\ \E s \in Ids :
          /\ IsCurrent(s) /\ rec[s].status = "ready"
          /\ at' = [at EXCEPT ![c] = s]
          /\ copy' = [copy EXCEPT ![c] = rec[s]]
    /\ doing' = [doing EXCEPT ![c] = "extending"]
    /\ UNCHANGED <<rows, session, lock, todo, faults>>

BeginExtend(c) ==
    /\ doing[c] = "extend"
    /\ \/ \E s \in Ids : /\ IsCurrent(s) /\ rec[s].status = "ready"
                         /\ Acquire(c, s, "extending")
       \/ /\ \A s \in Ids : IsCurrent(s) => rec[s].status # "ready"
          /\ PassLock(c, "none")
    /\ UNCHANGED <<rows, session, todo, faults>>

\* max(keepaliveUntil, now) + duration, at most now + maxDuration
Extended(keep, d) == IF keep + d <= MaxKeep THEN keep + d ELSE MaxKeep

Extend(c) ==
    /\ doing[c] = "extending"
    /\ \E d \in 1..MaxKeep :
          Put(at[c], [copy[c] EXCEPT !.keep = Extended(copy[c].keep, d)])
    /\ Leave(c, "none", NoId)
    /\ UNCHANGED <<provider, session, todo, faults>>

\* markDestroyedIfMissing
BeginMark(c) ==
    /\ doing[c] = "mark"
    /\ \/ \E s \in Ids : /\ IsLatest(s) /\ rec[s].status # "destroyed"
                         /\ Acquire(c, s, "marking")
       \/ /\ \A s \in Ids : IsLatest(s) => rec[s].status = "destroyed"
          /\ PassLock(c, "none")
    /\ UNCHANGED <<rows, session, todo, faults>>

MarkMissing(c) ==
    /\ doing[c] = "marking"
    /\ \/ /\ Observed(at[c], "missing")
          /\ Put(at[c], [copy[c] EXCEPT !.status = "destroyed"])
       \/ UNCHANGED rows
    /\ Leave(c, "none", NoId)
    /\ UNCHANGED <<session, todo, faults>>

(***************************************************************************)
(* SandboxCleanupService: lists first, then one lock per listed sandbox,   *)
(* under which only the row, its status and its keepalive are read again.  *)
(***************************************************************************)
ListStoppable ==
    /\ doing[Reaper] = "none"
    /\ todo' = [todo EXCEPT ![Reaper] = Oldest(Stoppable)]
    /\ doing' = [doing EXCEPT ![Reaper] = "stop"]
    /\ UNCHANGED <<rows, session, lock, at, copy, faults>>

ListIdle ==
    /\ doing[Reaper] = "stop" /\ todo[Reaper] = {}
    /\ todo' = [todo EXCEPT ![Reaper] = Oldest(Idle)]
    /\ doing' = [doing EXCEPT ![Reaper] = "destroy"]
    /\ UNCHANGED <<rows, session, lock, at, copy, faults>>

\* POST /sessions/:id/archive: the session first, its sandboxes afterwards.
Archive ==
    /\ doing[Archiver] = "none" /\ session # "archived"
    /\ session' = "archived"
    /\ doing' = [doing EXCEPT ![Archiver] = "list"]
    /\ UNCHANGED <<rows, lock, at, copy, todo, faults>>

ListActive ==
    /\ doing[Archiver] = "list"
    /\ todo' = [todo EXCEPT ![Archiver] = {s \in Ids : Active(s)}]
    /\ doing' = [doing EXCEPT ![Archiver] = "destroy"]
    /\ UNCHANGED <<rows, session, lock, at, copy, faults>>

\* Mutant: the keepalive is looked at when listing only.
IsLeftAlone_Mutant(c, s) == ~Active(s)

\* currentActiveSandbox, and isKeepaliveActive where keepalives are respected
IsLeftAlone(c, s) == ~Active(s) \/ (c = Reaper /\ rec[s].keep > 0)

BeginCleanup(c) ==
    /\ doing[c] \in {"stop", "destroy"}
    /\ \E s \in todo[c] :
          /\ todo' = [todo EXCEPT ![c] = todo[c] \ {s}]
          /\ \/ /\ IsLeftAlone(c, s)
                /\ PassLock(c, doing[c])
             \/ /\ ~IsLeftAlone(c, s)
                /\ Acquire(c, s, IF doing[c] = "stop" THEN "stopping" ELSE "destroying")
    /\ UNCHANGED <<rows, session, faults>>

Stop(c) ==
    /\ doing[c] = "stopping"
    /\ \/ /\ provider[at[c]] = "live"
          /\ Put(at[c], [copy[c] EXCEPT !.status = "stopped"])
       \/ UNCHANGED <<rec, rank>>
    /\ Leave(c, "stop", NoId)
    /\ UNCHANGED <<provider, session, todo, faults>>

Destroy(c) ==
    /\ doing[c] = "destroying"
    /\ provider' = [provider EXCEPT ![at[c]] = "gone"]
    /\ Put(at[c], [copy[c] EXCEPT !.status = "destroyed"])
    /\ Leave(c, "destroy", NoId)
    /\ UNCHANGED <<session, todo, faults>>

DestroyFails(c) ==
    /\ doing[c] = "destroying"
    /\ Fault
    /\ Leave(c, "destroy", NoId)
    /\ UNCHANGED <<rows, session, todo>>

EndCleanup(c) ==
    /\ doing[c] = "destroy" /\ todo[c] = {}
    /\ doing' = [doing EXCEPT ![c] = "none"]
    /\ UNCHANGED <<rows, session, lock, at, copy, todo, faults>>

Cleanup(c) ==
    \/ BeginCleanup(c) \/ Stop(c) \/ Destroy(c) \/ DestroyFails(c) \/ EndCleanup(c)

(***************************************************************************)
(* The environment: time, crashes.                                         *)
(***************************************************************************)
Aged(row) ==
    IF row.status \notin ActiveStatus THEN row
    ELSE [row EXCEPT !.age = IF @ < Retention THEN @ + 1 ELSE @,
                     !.keep = IF @ > 0 THEN @ - 1 ELSE @]

Tick ==
    /\ rec' = [s \in Ids |-> Aged(rec[s])]
    /\ copy' = [c \in Callers |-> Aged(copy[c])]
    /\ UNCHANGED <<rank, provider, session, lock, doing, at, todo, faults>>

\* The process dies: its connection closes and the advisory lock is free.
Crash(c) ==
    /\ doing[c] # "none"
    /\ Fault
    /\ Leave(c, "none", NoId)
    /\ todo' = [todo EXCEPT ![c] = {}]
    /\ UNCHANGED <<rows, session>>

-----------------------------------------------------------------------------
Init ==
    /\ rec = [s \in Ids |-> NoRow]
    /\ rank = [s \in Ids |-> Cardinality(Ids)]
    /\ provider = [s \in Ids |-> "none"]
    /\ session = "idle"
    /\ lock = NoCaller
    /\ doing = [c \in Callers |-> "none"]
    /\ at = [c \in Callers |-> NoId]
    /\ copy = [c \in Callers |-> NoRow]
    /\ todo = [c \in Callers |-> {}]
    /\ faults = 0

WorkerStep(w) == Ensure(w) \/ RunnerReturns(w) \/ Touch(w) \/ EndRun(w)
ToolStep(c) ==
    Ensure(c) \/ BeginExtend(c) \/ Extend(c) \/ BeginMark(c) \/ MarkMissing(c)
ReaperStep == ListStoppable \/ ListIdle \/ Cleanup(Reaper)
ArchiverStep == ListActive \/ Cleanup(Archiver)

Next ==
    \/ Enqueue \/ LeaseExpires \/ Archive \/ Unarchive
    \/ \E w \in Workers : Claim(w) \/ WorkerStep(w)
    \/ \E c \in Tools : Request(c) \/ ToolStep(c)
    \/ ReaperStep \/ ArchiverStep
    \/ Tick
    \/ \E c \in Callers : Crash(c)

\* Time passes, the reaper's timer fires, and cleanups under way go on.  Nothing
\* is assumed of users, runs, providers or crashes.
Fairness == WF_vars(Tick) /\ WF_vars(ReaperStep) /\ WF_vars(ArchiverStep)

Spec == Init /\ [][Next]_vars
FairSpec == Spec /\ Fairness
-----------------------------------------------------------------------------
Steps == {"none", "ensure", "health", "connect", "create", "insert", "using", "touch", "end", "extend", "extending",
          "mark", "marking", "stop", "stopping", "list", "destroy", "destroying"}

\* The state of a session's sandboxes has the shape the tables and calls give it.
TypeOK ==
    /\ rec \in [Ids -> Row]
    /\ rank \in [Ids -> Nat]
    /\ provider \in [Ids -> {"none", "live", "gone"}]
    /\ session \in {"idle", "queued", "archived"} \cup Workers
    /\ lock \in Callers \cup {NoCaller}
    /\ doing \in [Callers -> Steps]
    /\ at \in [Callers -> Ids \cup {NoId}]
    /\ copy \in [Callers -> Row]
    /\ todo \in [Callers -> SUBSET Ids]
    /\ faults \in 0..MaxFaults

\* The reaper never stops or destroys a sandbox whose keepalive has not run
\* out: not one that was extended after it was listed, nor one that is extended
\* while the reaper is at it.
KeptAliveIsLeft ==
    doing[Reaper] \in {"stopping", "destroying"} => rec[at[Reaper]].keep = 0

\* Nobody's whole-row write undoes another's: a destroyed sandbox stays
\* destroyed, and a keepalive only runs out (the rows are composed from copies).
RecordsAreNotOverwritten ==
    [][\A s \in Ids :
          /\ rec[s].status = "destroyed" => rec'[s].status = "destroyed"
          /\ rec'[s].keep < rec[s].keep => rec'[s] \in {Aged(rec[s]), Gone}]_vars

Untracked ==
    {s \in Ids : /\ provider[s] = "live" /\ ~Active(s)
                 /\ \A c \in Callers : at[c] = s => doing[c] # "insert"}

\* A sandbox that runs without an active row, which no cleanup can find, is the
\* doing of a crash or of a destroy that failed, one sandbox for each of them.
LeaksAreExplained == Cardinality(Untracked) <= faults

Quiet == ~Busy /\ \A c \in Workers \cup Tools : doing[c] = "none"

\* Once nobody uses the session any more every sandbox it has a row for is
\* destroyed, whatever state it was left in.
ReapedInTheEnd == <>[]Quiet => <>[](\A s \in Ids : ~Active(s))

\* docs/sandbox-providers.md:234: idle ready sandboxes are stopped "when the
\* session is not active".  (It fails: that is read with the list, and not
\* again under the lock.)
BusyIsLeft ==
    \A w \in Workers :
       session = w /\ doing[w] = "using" /\ doing[Reaper] = "stopping" =>
          at[Reaper] # at[w]
=============================================================================
