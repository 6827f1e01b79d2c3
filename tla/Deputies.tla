------------------------------- MODULE Deputies -------------------------------
(***************************************************************************)
(* Sessions that spawn sessions.  An agent calls the deputies tool from a   *)
(* run of the root session, several calls at a time, and each may create a  *)
(* child session with its first message.  A child may be asked to notify    *)
(* the root when a run of it settles: the marker for that lies in the JSON  *)
(* context of the child's session, is copied to every message and from      *)
(* there to the runs, and is consumed by the worker that settled a run.     *)
(*                                                                          *)
(* Of a context only that marker is kept (deputy.notifyParentOnComplete;    *)
(* absent and false are the same): every writer rewrites the whole JSON     *)
(* from a copy.  A run is what one worker does from its claim to the        *)
(* notification.  Leases, publication and takeover of a completed run,      *)
(* steering and pauses are in RunLifecycle.                                 *)
(***************************************************************************)
EXTENDS Integers, FiniteSets, Sequences

CONSTANTS
    Root,           \* the session whose agent spawns
    Children,       \* ids of child sessions
    Requests,       \* requests of users and other agents, each made once
    Kinds,          \* of "plain", "choice", "retry", "tool": what a request does
    Calls,          \* calls of the deputies tool in flight, by agent and subagents
    Workers,        \* how many runs are worked on at a time
    MaxRuns,        \* bound: runs
    MaxChildren,    \* services.maxChildrenPerSession
    MaxSpawns,      \* services.maxSpawnsPerRun
    MaxFaults,      \* bound: crashes, lost leases and lost replies
    None

Sessions == {Root} \cup Children
Runs == 1..MaxRuns

ASSUME NamesAssumption == Root \notin Children /\ None \notin Runs \cup Sessions \cup Calls
ASSUME LimitsAssumption ==
    /\ Workers \in Nat /\ MaxRuns \in Nat /\ MaxChildren \in Nat
    /\ MaxSpawns \in Nat /\ MaxFaults \in Nat
    /\ Kinds \subseteq {"plain", "choice", "retry", "tool"}
ASSUME ChildrenAssumption == IsFiniteSet(Children)

VARIABLES
    status,         \* sessions.status: only whether there is one and it is archived
    asked,          \* sessions.context.deputy.notifyParentOnComplete
    queue,          \* pending messages, each the marker in its context
    failed,         \* the markers in the contexts of failed messages
    active,         \* the run a session is claimed by
    run,            \* what a worker does with a run
    call,           \* calls of the deputies tool
    lease,          \* the call that holds the coordination lock of the root
    request,        \* what a request keeps of its reads
    maker,          \* spawnedBy.runId of a child
    unheard,        \* children whose creation was committed and its reply lost
    toldBy,         \* the runs whose notification is in the root's queue
    stale,          \* children one of whose context writes was made from a stale copy
    excused,        \* runs whose notification was lost or refused
    faults

sessionVars == <<status, asked, queue, failed, active>>
spawnVars == <<call, lease, maker, unheard>>
told == <<toldBy, stale, excused>>
vars == <<sessionVars, run, spawnVars, request, told, faults>>

RunSteps == {"unused", "begin", "clear", "running", "consume", "mark", "tell", "insert", "over"}

RunRow == [step: RunSteps, session: Sessions \cup {None}, batch: Seq(BOOLEAN),
           ctx: BOOLEAN, copy: BOOLEAN, spawns: Nat]
CallRow == [step: {"idle", "wait", "create"}, run: Runs \cup {None},
            child: Children \cup {None}, notify: BOOLEAN]
RequestRow == [step: {"new", "write", "insert", "over"}, session: Sessions \cup {None},
               copy: BOOLEAN, carried: BOOLEAN, message: BOOLEAN]

TypeOK ==
    /\ status \in [Sessions -> {"absent", "open", "archived"}]
    /\ asked \in [Sessions -> BOOLEAN]
    /\ queue \in [Sessions -> Seq(BOOLEAN)]
    /\ failed \in [Sessions -> SUBSET BOOLEAN]
    /\ active \in [Sessions -> Runs \cup {None}]
    /\ run \in [Runs -> RunRow]
    /\ call \in [Calls -> CallRow] /\ lease \in Calls \cup {None}
    /\ request \in [Requests -> RequestRow]
    /\ maker \in [Children -> Runs \cup {None}] /\ unheard \in SUBSET Children
    /\ toldBy \in [Children -> SUBSET Runs]
    /\ stale \in SUBSET Sessions /\ excused \in SUBSET Runs /\ faults \in 0..MaxFaults

NewRun == [step |-> "unused", session |-> None, batch |-> <<>>, ctx |-> FALSE,
           copy |-> FALSE, spawns |-> 0]
IdleCall == [step |-> "idle", run |-> None, child |-> None, notify |-> FALSE]
NewRequest == [step |-> "new", session |-> None, copy |-> FALSE, carried |-> FALSE,
               message |-> FALSE]

\* The root was created by a user, with a first message.
Init ==
    /\ status = [s \in Sessions |-> IF s = Root THEN "open" ELSE "absent"]
    /\ asked = [s \in Sessions |-> FALSE]
    /\ queue = [s \in Sessions |-> IF s = Root THEN <<FALSE>> ELSE <<>>]
    /\ failed = [s \in Sessions |-> {}]
    /\ active = [s \in Sessions |-> None]
    /\ run = [r \in Runs |-> NewRun]
    /\ call = [k \in Calls |-> IdleCall]
    /\ lease = None
    /\ request = [u \in Requests |-> NewRequest]
    /\ maker = [c \in Children |-> None] /\ unheard = {}
    /\ toldBy = [c \in Children |-> {}]
    /\ stale = {} /\ excused = {} /\ faults = 0

----------------------------------------------------------------------------
\* Writes of the context.

Owned(r) == run[r].step # "unused" /\ active[run[r].session] = r

\* A write stores the marker of a copy, which may differ from the row's by now.
WriteContext(s, marker) ==
    /\ asked' = [asked EXCEPT ![s] = marker]
    /\ stale' = IF asked[s] # marker THEN stale \cup {s} ELSE stale

\* updateSessionForRun: the session is not archived and the run still its own.
WriteForRun(r, marker) ==
    IF Owned(r) /\ status[run[r].session] # "archived"
    THEN WriteContext(run[r].session, marker)
    ELSE UNCHANGED <<asked, stale>>

----------------------------------------------------------------------------
\* A run, from its claim until it settles.

InHand == {r \in Runs : run[r].step \notin {"unused", "over"}}

\* Claims the first messages of a queue, as many as have the same execution
\* context.  The last of them decides the marker of the run's context, whatever
\* the session says by then.
Claim(s, r, n) ==
    /\ status[s] = "open" /\ active[s] = None
    /\ n \in 1..Len(queue[s])
    /\ Cardinality(InHand) < Workers
    /\ run[r].step = "unused" /\ \A q \in Runs : q < r => run[q].step # "unused"
    /\ active' = [active EXCEPT ![s] = r]
    /\ queue' = [queue EXCEPT ![s] = SubSeq(queue[s], n + 1, Len(queue[s]))]
    /\ run' = [run EXCEPT ![r] = [NewRun EXCEPT !.step = "begin", !.session = s,
                                  !.batch = SubSeq(queue[s], 1, n), !.ctx = queue[s][n]]]
    /\ UNCHANGED <<status, asked, failed, spawnVars, request, told, faults>>

\* The worker reads the session; after a new or restarted sandbox it clears the
\* services the context names, if any.
Begin(r) ==
    /\ run[r].step = "begin"
    /\ \E clears \in BOOLEAN :
         run' = [run EXCEPT ![r] = [run[r] EXCEPT !.step = IF clears THEN "clear" ELSE "running",
                                                  !.copy = asked[run[r].session]]]
    /\ UNCHANGED <<sessionVars, spawnVars, request, told, faults>>

ClearServices(r) ==
    /\ run[r].step = "clear"
    /\ WriteForRun(r, run[r].copy)
    /\ run' = [run EXCEPT ![r] = [run[r] EXCEPT !.step = "running", !.copy = FALSE]]
    /\ UNCHANGED <<status, queue, failed, active, spawnVars, request, toldBy, excused, faults>>

\* An agent's tool publishes a service, selects a repository or an environment:
\* the context of the run is laid over that of the session and written back.
AgentUpdatesContext(r) ==
    /\ run[r].step = "running" /\ Owned(r)
    /\ WriteForRun(r, run[r].ctx)
    /\ UNCHANGED <<status, queue, failed, active, run, spawnVars, request, toldBy, excused, faults>>

\* Mutant: the parent of a failed run is not notified.
Settle_Mutant(r, outcome) ==
    /\ run[r].step = "running" /\ Owned(r)
    /\ active' = [active EXCEPT ![run[r].session] = None]
    /\ failed' = IF outcome = "failed"
                 THEN [failed EXCEPT ![run[r].session] =
                         failed[run[r].session] \cup {run[r].batch[i] : i \in 1..Len(run[r].batch)}]
                 ELSE failed
    /\ run' = [run EXCEPT ![r] = [run[r] EXCEPT !.batch = <<>>,
                                  !.step = IF outcome = "failed" THEN "over" ELSE "consume"]]
    /\ UNCHANGED <<status, asked, queue, spawnVars, request, told, faults>>

\* The run completes, fails or is cancelled: finishRunBatch, which the lease guards.
Settle(r, outcome) ==
    /\ run[r].step = "running" /\ Owned(r)
    /\ active' = [active EXCEPT ![run[r].session] = None]
    /\ failed' = IF outcome = "failed"
                 THEN [failed EXCEPT ![run[r].session] =
                         failed[run[r].session] \cup {run[r].batch[i] : i \in 1..Len(run[r].batch)}]
                 ELSE failed
    /\ run' = [run EXCEPT ![r] = [run[r] EXCEPT !.step = "consume", !.batch = <<>>]]
    /\ UNCHANGED <<status, asked, queue, spawnVars, request, told, faults>>

\* A worker that lost its run finds out and goes on without a notification.
Quit(r) ==
    /\ run[r].step \in {"begin", "clear", "running"} /\ ~ Owned(r)
    /\ run' = [run EXCEPT ![r] = [run[r] EXCEPT !.step = "over", !.batch = <<>>]]
    /\ UNCHANGED <<sessionVars, spawnVars, request, told, faults>>

----------------------------------------------------------------------------
\* The notification: three transactions after the one that settled the run.

Over(r) == run' = [run EXCEPT ![r] = [run[r] EXCEPT !.step = "over", !.copy = FALSE]]

ReadMarker(r) ==
    /\ run[r].step = "consume"
    /\ IF asked[run[r].session]
       THEN run' = [run EXCEPT ![r] = [run[r] EXCEPT !.step = "mark"]]
       ELSE Over(r)
    /\ UNCHANGED <<sessionVars, spawnVars, request, told, faults>>

\* Mutant: the marker stays as it was read.
Consumed_Mutant == TRUE

\* The context the worker read is written back with the marker consumed.
Consumed == FALSE

Mark(r) ==
    /\ run[r].step = "mark"
    /\ IF status[run[r].session] = "archived"
       THEN /\ Over(r)
            /\ excused' = excused \cup {r}
            /\ UNCHANGED <<asked, stale>>
       ELSE /\ asked' = [asked EXCEPT ![run[r].session] = Consumed]
            /\ stale' = IF asked[run[r].session] THEN stale ELSE stale \cup {run[r].session}
            /\ run' = [run EXCEPT ![r] = [run[r] EXCEPT !.step = "tell"]]
            /\ UNCHANGED excused
    /\ UNCHANGED <<status, queue, failed, active, spawnVars, request, toldBy, faults>>

\* The enqueue in the root reads it first, then inserts; either is refused when
\* it is archived, and the worker only logs that.
Refuse(r) == Over(r) /\ excused' = excused \cup {r} /\ UNCHANGED <<queue, toldBy>>

Tell(r) ==
    /\ run[r].step = "tell"
    /\ \/ /\ status[Root] = "archived"
          /\ Refuse(r)
       \/ /\ status[Root] = "open"
          /\ run' = [run EXCEPT ![r] = [run[r] EXCEPT !.step = "insert"]]
          /\ UNCHANGED <<queue, toldBy, excused>>
    /\ UNCHANGED <<status, asked, failed, active, spawnVars, request, stale, faults>>

InsertNotification(r) ==
    /\ run[r].step = "insert"
    /\ \/ /\ status[Root] = "archived"
          /\ Refuse(r)
       \/ /\ status[Root] = "open"
          /\ queue' = [queue EXCEPT ![Root] = Append(queue[Root], FALSE)]
          /\ toldBy' = [toldBy EXCEPT ![run[r].session] = toldBy[run[r].session] \cup {r}]
          /\ Over(r)
          /\ UNCHANGED excused
    /\ UNCHANGED <<status, asked, failed, active, spawnVars, request, stale, faults>>

----------------------------------------------------------------------------
\* Requests: messages, with or without a choice of repository or model, retries
\* of failed messages, and workspace tools that publish a service.

\* MessageService.enqueue reads the session; a message carries its context.  The
\* context of a retried message goes before the session's, a choice is first
\* written to the session.
Enqueue(u, s, kind) ==
    /\ request[u].step = "new" /\ kind \in Kinds \ {"tool"} /\ status[s] = "open"
    /\ \E carried \in IF kind = "retry" THEN failed[s] ELSE {asked[s]},
          writes \in IF kind = "retry" THEN BOOLEAN ELSE {kind = "choice"} :
         request' = [request EXCEPT ![u] = [step |-> IF writes THEN "write" ELSE "insert",
                                            session |-> s, copy |-> asked[s],
                                            carried |-> carried, message |-> TRUE]]
    /\ UNCHANGED <<sessionVars, run, spawnVars, told, faults>>

PublishTool(u, s) ==
    /\ request[u].step = "new" /\ "tool" \in Kinds /\ status[s] = "open"
    /\ request' = [request EXCEPT ![u] = [NewRequest EXCEPT !.step = "write", !.session = s,
                                                            !.copy = asked[s]]]
    /\ UNCHANGED <<sessionVars, run, spawnVars, told, faults>>

GoOn(u, step) == request' = [request EXCEPT ![u] =
    IF step = "over" THEN [NewRequest EXCEPT !.step = "over"] ELSE [request[u] EXCEPT !.step = step]]

\* updateSessionContext throws when the session is archived.
RequestWrites(u) ==
    /\ request[u].step = "write"
    /\ IF status[request[u].session] = "archived"
       THEN GoOn(u, "over") /\ UNCHANGED <<asked, stale>>
       ELSE /\ WriteContext(request[u].session, request[u].copy)
            /\ GoOn(u, IF request[u].message THEN "insert" ELSE "over")
    /\ UNCHANGED <<status, queue, failed, active, run, spawnVars, toldBy, excused, faults>>

RequestInserts(u) ==
    /\ request[u].step = "insert"
    /\ queue' = IF status[request[u].session] = "archived" THEN queue
                ELSE [queue EXCEPT ![request[u].session] =
                        Append(queue[request[u].session], request[u].carried)]
    /\ GoOn(u, "over")
    /\ UNCHANGED <<status, asked, failed, active, run, spawnVars, told, faults>>

\* Archiving cancels what is pending; neither it nor restoring touches a run.
Archive(s) ==
    /\ status[s] = "open"
    /\ status' = [status EXCEPT ![s] = "archived"]
    /\ queue' = [queue EXCEPT ![s] = <<>>]
    /\ UNCHANGED <<asked, failed, active, run, spawnVars, request, told, faults>>

Unarchive(s) ==
    /\ status[s] = "archived"
    /\ status' = [status EXCEPT ![s] = "open"]
    /\ UNCHANGED <<asked, queue, failed, active, run, spawnVars, request, told, faults>>

----------------------------------------------------------------------------
\* The deputies tool, action spawn.

\* shouldPersist, which is also false once the run is to be cancelled: a call may
\* be refused at any time.
MayPersist(r) == run[r].step = "running" /\ Owned(r)

\* With an idempotency key the same child is meant again; without, a new one.
BeginSpawn(k, r, c, notify) ==
    /\ call[k].step = "idle" /\ MayPersist(r) /\ run[r].session = Root
    /\ call' = [call EXCEPT ![k] = [step |-> "wait", run |-> r, child |-> c, notify |-> notify]]
    /\ UNCHANGED <<sessionVars, run, lease, request, maker, unheard, told, faults>>

\* Mutant: calls do not wait for each other.
Free_Mutant == TRUE

\* The lock serialises the calls of a session; what a call reads behind it is
\* still so when it creates.
Free == lease = None

EnterLease(k) ==
    /\ call[k].step = "wait" /\ Free
    /\ \/ /\ MayPersist(call[k].run)
          /\ status[call[k].child] # "absent" \/ run[call[k].run].spawns < MaxSpawns
          /\ lease' = k
          /\ call' = [call EXCEPT ![k] = [call[k] EXCEPT !.step = "create"]]
       \/ /\ call' = [call EXCEPT ![k] = IdleCall]
          /\ UNCHANGED lease
    /\ UNCHANGED <<sessionVars, run, request, maker, unheard, told, faults>>

OpenChildren == {c \in Children : status[c] = "open"}

\* createSessionWithFirstMessage: the row of the root is locked, an existing child
\* returned, the limit on open children checked, and session and message inserted.
Creatable(c) == status[c] = "absent" /\ Cardinality(OpenChildren) < MaxChildren

InsertChild(c, r, notify) ==
    /\ status' = [status EXCEPT ![c] = "open"]
    /\ asked' = [asked EXCEPT ![c] = notify]
    /\ queue' = [queue EXCEPT ![c] = <<notify>>]
    /\ maker' = [maker EXCEPT ![c] = r]

EndCall(k) ==
    /\ call' = [call EXCEPT ![k] = IdleCall]
    /\ lease' = IF lease = k THEN None ELSE lease

\* Mutant: the lock is only released behind a call that succeeds.
CreateChild_Mutant(k) ==
    LET c == call[k].child
        r == call[k].run
    IN  /\ call[k].step = "create"
        /\ IF Creatable(c)
           THEN /\ InsertChild(c, r, call[k].notify)
                /\ run' = [run EXCEPT ![r] = [run[r] EXCEPT !.spawns = run[r].spawns + 1]]
                /\ EndCall(k)
           ELSE /\ call' = [call EXCEPT ![k] = IdleCall]
                /\ UNCHANGED <<lease, status, asked, queue, maker, run>>
        /\ UNCHANGED <<failed, active, unheard, request, told, faults>>

\* A run counts the children whose creation it heard of.
CreateChild(k) ==
    LET c == call[k].child
        r == call[k].run
    IN  /\ call[k].step = "create"
        /\ IF Creatable(c)
           THEN /\ InsertChild(c, r, call[k].notify)
                /\ run' = [run EXCEPT ![r] = [run[r] EXCEPT !.spawns = run[r].spawns + 1]]
           ELSE UNCHANGED <<status, asked, queue, maker, run>>
        /\ EndCall(k)
        /\ UNCHANGED <<failed, active, unheard, request, told, faults>>

\* The connection breaks, before the transaction or while it commits: the call ends
\* in an error, and a child that is there nevertheless is not counted.
CreateThrows(k) ==
    LET c == call[k].child
    IN  /\ call[k].step = "create"
        /\ faults < MaxFaults /\ faults' = faults + 1
        /\ \/ /\ Creatable(c)
              /\ InsertChild(c, call[k].run, call[k].notify)
              /\ unheard' = unheard \cup {c}
           \/ UNCHANGED <<status, asked, queue, maker, unheard>>
        /\ EndCall(k)
        /\ UNCHANGED <<failed, active, run, request, told>>

----------------------------------------------------------------------------
\* Faults.

\* The lease of a run ran out and recovery requeued its messages; its worker may
\* not know yet.
Recover(r) ==
    /\ Owned(r)
    /\ run[r].step = "over" \/ faults < MaxFaults
    /\ active' = [active EXCEPT ![run[r].session] = None]
    /\ queue' = [queue EXCEPT ![run[r].session] = run[r].batch \o queue[run[r].session]]
    /\ run' = [run EXCEPT ![r] = [run[r] EXCEPT !.batch = <<>>]]
    /\ faults' = IF run[r].step = "over" THEN faults ELSE faults + 1
    /\ excused' = excused \cup {r}
    /\ UNCHANGED <<status, asked, failed, spawnVars, request, toldBy, stale>>

\* The process of a run dies, with its calls and their lock.
Die(r) ==
    /\ r \in InHand /\ faults < MaxFaults
    /\ run' = [run EXCEPT ![r] = [run[r] EXCEPT !.step = "over", !.copy = FALSE]]
    /\ call' = [k \in Calls |-> IF call[k].run = r THEN IdleCall ELSE call[k]]
    /\ lease' = IF lease # None /\ call[lease].run = r THEN None ELSE lease
    /\ excused' = excused \cup {r}
    /\ faults' = faults + 1
    /\ UNCHANGED <<sessionVars, request, maker, unheard, toldBy, stale>>

----------------------------------------------------------------------------
Outcomes == {"completed", "failed", "cancelled"}

Notify(r) == ReadMarker(r) \/ Mark(r) \/ Tell(r) \/ InsertNotification(r)

Work(r) == Begin(r) \/ ClearServices(r) \/ (\E o \in Outcomes : Settle(r, o)) \/ Quit(r)

RunStep(r) == Work(r) \/ AgentUpdatesContext(r) \/ Notify(r) \/ Recover(r) \/ Die(r)

RequestStep(u) ==
    \/ \E s \in Sessions : PublishTool(u, s) \/ \E kind \in Kinds : Enqueue(u, s, kind)
    \/ RequestWrites(u) \/ RequestInserts(u)

CallStep(k) ==
    \/ \E r \in Runs, c \in Children, notify \in BOOLEAN : BeginSpawn(k, r, c, notify)
    \/ EnterLease(k) \/ CreateChild(k) \/ CreateThrows(k)

SessionStep(s) ==
    \/ Archive(s) \/ Unarchive(s)
    \/ \E r \in Runs : \E n \in 1..Len(queue[s]) : Claim(s, r, n)

Next ==
    \/ \E r \in Runs : RunStep(r)
    \/ \E u \in Requests : RequestStep(u)
    \/ \E k \in Calls : CallStep(k)
    \/ \E s \in Sessions : SessionStep(s)

Spec == Init /\ [][Next]_vars

\* Agents end, by themselves or by their timeout, and no await of a worker lasts
\* for ever.  PostgreSQL grants an advisory lock in the order it was asked for.
Fairness ==
    /\ \A r \in Runs : WF_vars(Work(r)) /\ WF_vars(Notify(r))
    /\ \A k \in Calls : SF_vars(EnterLease(k)) /\ WF_vars(CreateChild(k))

FairSpec == Spec /\ Fairness

----------------------------------------------------------------------------
\* No run has created more children than its budget allows, however many calls
\* its agents make at once, on whatever children, and whichever of them fail (the run
\* is the one recorded in session_created), but for those it did not hear of.
SpawnsWithinBudget ==
    \A r \in Runs : Cardinality({c \in Children \ unheard : maker[c] = r}) <= MaxSpawns

\* docs/product/decisions/2026-07-06-no-lifecycle-cascade-from-parent-sessions-to-spawned-children.md:33:
\* a runaway spawn is bounded by DEPUTY_MAX_SPAWNS_PER_RUN.  (It is not, when the reply to
\* a COMMIT is lost.)
SpawnsAreBounded ==
    \A r \in Runs : Cardinality({c \in Children : maker[c] = r}) <= MaxSpawns

\* The root is notified of a child once at most, however many runs the child has,
\* as long as nobody writes the child's context back from a copy in which the
\* marker is not what it is in the row by then.
NotifiedOnceUnlessStale ==
    \A c \in Children : c \notin stale => Cardinality(toldBy[c]) <= 1

\* docs/product/prds/2026-07-05-deputy-session-control-tool.md:38: the request
\* "is consumed once".
NotifiedOnce == \A c \in Children : Cardinality(toldBy[c]) <= 1

\* When a run of a child that was to notify the root settles, whatever its
\* outcome, the root is told, by it or another run of the child, unless a run of
\* the child was lost, or met an archived session.
ParentIsTold ==
    \A c \in Children :
        (asked[c] /\ \E r \in Runs : active[c] = r /\ run[r].step = "running")
        ~> (toldBy[c] # {} \/ \E r \in excused : run[r].session = c)

\* A call of the deputies tool ends, in an error, with a child that was there or
\* with a new one, whichever calls it waits for, and whatever dies.
CallsEnd == \A k \in Calls : (call[k].step # "idle") ~> (call[k].step = "idle")
=============================================================================
