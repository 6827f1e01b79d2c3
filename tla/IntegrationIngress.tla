-------------------------- MODULE IntegrationIngress --------------------------
(***************************************************************************)
(* Webhook deliveries of one external thread (a Slack thread, a GitHub     *)
(* issue, a thread of a generic webhook source) on their way to a message  *)
(* of a session: the delivery row that makes redeliveries harmless, the    *)
(* advisory lock under which the thread gets its one session, and what is  *)
(* done with messages that arrive while the session is archived.           *)
(*                                                                         *)
(* Handlers are requests of any process; they share one connection pool,   *)
(* and the thread lock keeps a connection of that pool while its callback  *)
(* asks the pool for more.  A query is one step and needs a connection for *)
(* that step.  The lease id of a delivery is left out: only failed rows    *)
(* are taken over, and a row is only made failed by its own handler.       *)
(* Prompts, reactions, notices and skill lookups are left out too.         *)
(***************************************************************************)
EXTENDS Integers, FiniteSets

CONSTANTS
    Handlers,       \* requests that may be handled at the same time
    Keys,           \* dedupe keys: Slack event ids, GitHub delivery ids
    Recovery,       \* keys of messages with the phrase "unarchive and proceed"
    PhraseOnly,     \* those that say nothing else
    Sessions,       \* session ids that may be created
    Chat,           \* TRUE for Slack and GitHub, FALSE for generic webhooks
    PoolSize,       \* connections of the pool
    MaxSent,        \* bound: times the sender delivers a key
    MaxFaults,      \* bound: crashes and failed queries
    None

ASSUME KeysAssumption == PhraseOnly \subseteq Recovery /\ Recovery \subseteq Keys
ASSUME NoneAssumption == None \notin Handlers \cup Keys \cup Sessions
ASSUME BoundsAssumption ==
    /\ Chat \in BOOLEAN /\ PoolSize \in Nat /\ MaxSent \in Nat /\ MaxFaults \in Nat
    /\ IsFiniteSet(Handlers) /\ IsFiniteSet(Sessions)

VARIABLES
    \* the tables
    delivery,   \* key -> status of its integration_deliveries row
    thread,     \* session of the external_threads row, or None
    created,    \* sessions that exist
    archived,   \* those that are archived
    messages,   \* messages and transcript entries the deliveries left
    \* the advisory lock of the thread and the connections held for it
    lock, conns,
    \* the handlers
    pc, key,
    session,    \* the session a handler has got, or None
    stale,      \* whether that session was archived when it was read
    missed,     \* keys of the archived messages it has read
    \* bounds
    sent, faults

tables == <<delivery, thread, created, archived, messages>>
locking == <<lock, conns>>
handling == <<pc, key, session, stale, missed>>
vars == <<delivery, thread, created, archived, messages, lock, conns,
          pc, key, session, stale, missed, sent, faults>>

\* pool.query: a connection is free for the length of the step.
Query == Cardinality(conns) < PoolSize
At(h, step) == pc[h] = step
Goto(h, step) == pc' = [pc EXCEPT ![h] = step]

\* The handler answers, or throws: either way it is done.
Reset(h) ==
    /\ pc' = [pc EXCEPT ![h] = "idle"]
    /\ key' = [key EXCEPT ![h] = None]
    /\ session' = [session EXCEPT ![h] = None]
    /\ stale' = [stale EXCEPT ![h] = FALSE]
    /\ missed' = [missed EXCEPT ![h] = {}]

\* kind: work (queued), ignored (while archived) or note (recovery phrase only)
Entry(h, kind, included) ==
    [key |-> key[h], by |-> sent[key[h]], kind |-> kind, session |-> session[h],
     included |-> included]

-----------------------------------------------------------------------------
(***************************************************************************)
(* receiveIntegrationDelivery: INSERT ... ON CONFLICT DO UPDATE WHERE the  *)
(* status is failed; no row comes back for a duplicate.                    *)
(***************************************************************************)
\* Mutant: a row that is still received is taken over as well.
Retakable_Mutant(k) == delivery[k] # "processed"

Retakable(k) == delivery[k] \in {"none", "failed"}

Deliver(h, k) ==
    /\ At(h, "idle") /\ sent[k] < MaxSent /\ Query
    /\ sent' = [sent EXCEPT ![k] = @ + 1]
    /\ IF Retakable(k)
       THEN /\ delivery' = [delivery EXCEPT ![k] = "received"]
            /\ Goto(h, "received")
            /\ key' = [key EXCEPT ![h] = k]
       ELSE UNCHANGED <<delivery, pc, key>>
    /\ UNCHANGED <<thread, created, archived, messages, locking, session, stale,
                   missed, faults>>

\* Not authorized, no trigger phrase, or a reply in a thread nobody started.
Reject(h) ==
    /\ At(h, "received") /\ Chat /\ Query
    /\ delivery' = [delivery EXCEPT ![key[h]] = "failed"]
    /\ Reset(h)
    /\ UNCHANGED <<thread, created, archived, messages, locking, sent, faults>>

(***************************************************************************)
(* getOrCreateExternalThreadSession: withExternalThreadLock connects,      *)
(* waits for the lock on that connection, and releases both at the end.    *)
(***************************************************************************)
ConnectForLock(h) ==
    /\ At(h, "received") /\ Query
    /\ conns' = conns \cup {h}
    /\ Goto(h, "locking")
    /\ UNCHANGED <<tables, lock, key, session, stale, missed, sent, faults>>

\* Mutant: nobody waits for the lock of the thread.
Lock_Mutant(h) ==
    /\ At(h, "locking")
    /\ Goto(h, "find")
    /\ UNCHANGED <<tables, locking, key, session, stale, missed, sent, faults>>

Lock(h) ==
    /\ At(h, "locking") /\ lock = None
    /\ lock' = h
    /\ Goto(h, "find")
    /\ UNCHANGED <<tables, conns, key, session, stale, missed, sent, faults>>

Unlock(h) == lock' = None /\ conns' = conns \ {h}

\* The handler goes on with the session as it is now.
GoOnWith(h, s) ==
    /\ session' = [session EXCEPT ![h] = s]
    /\ stale' = [stale EXCEPT ![h] = s \in archived]
    /\ Goto(h, "route")

\* Mutant: an early return leaves the lock and its connection behind.
FindThread_Mutant(h) ==
    /\ At(h, "find") /\ Query
    /\ IF thread # None THEN GoOnWith(h, thread)
       ELSE Goto(h, "create") /\ UNCHANGED <<session, stale>>
    /\ UNCHANGED <<tables, locking, key, missed, sent, faults>>

\* The row of the thread, then its session.  That row never changes once it is there, so
\* that both are as they are at the second read: one step.
FindThread(h) ==
    /\ At(h, "find") /\ Query
    /\ IF thread # None
       THEN Unlock(h) /\ GoOnWith(h, thread)
       ELSE Goto(h, "create") /\ UNCHANGED <<locking, session, stale>>
    /\ UNCHANGED <<tables, key, missed, sent, faults>>

CreateSession(h) ==
    /\ At(h, "create") /\ Query
    /\ \E s \in Sessions \ created :
          /\ created' = created \cup {s}
          /\ session' = [session EXCEPT ![h] = s]
    /\ Goto(h, "map")
    /\ UNCHANGED <<delivery, thread, archived, messages, locking, key, stale, missed,
                   sent, faults>>

\* createExternalThread: ON CONFLICT the row that is there wins.
CreateThread(h) ==
    /\ At(h, "map") /\ Query
    /\ thread' = IF thread = None THEN session[h] ELSE thread
    /\ Unlock(h)
    /\ GoOnWith(h, thread')
    /\ UNCHANGED <<delivery, created, archived, messages, key, missed, sent, faults>>

(***************************************************************************)
(* What becomes of the message, by the status of the session read above.   *)
(***************************************************************************)
FoundArchived(h) == At(h, "route") /\ Chat /\ stale[h]

RecordIgnored(h) ==
    /\ FoundArchived(h) /\ key[h] \notin Recovery /\ Query
    /\ messages' = messages \cup {Entry(h, "ignored", {})}
    /\ Goto(h, "finish")
    /\ UNCHANGED <<delivery, thread, created, archived, locking, key, session, stale,
                   missed, sent, faults>>

UnarchiveSession(h) ==
    /\ FoundArchived(h) /\ key[h] \in Recovery /\ Query
    /\ archived' = archived \ {session[h]}
    /\ Goto(h, "missed")
    /\ UNCHANGED <<delivery, thread, created, messages, locking, key, session, stale,
                   missed, sent, faults>>

\* unprocessedArchivedTranscriptMessages
Unprocessed(s) ==
    {m.key : m \in {n \in messages : n.session = s /\ n.kind = "ignored"}}
       \ UNION {m.included : m \in messages}

ReadMissed(h) ==
    /\ At(h, "missed") /\ Query
    /\ missed' = [missed EXCEPT ![h] = Unprocessed(session[h])]
    /\ Goto(h, IF missed'[h] = {} /\ key[h] \in PhraseOnly THEN "note" ELSE "enqueue")
    /\ UNCHANGED <<tables, locking, key, session, stale, sent, faults>>

\* recordRecoveryTranscriptEntries: there is nothing to run.
RecordRecovery(h) ==
    /\ At(h, "note") /\ Query
    /\ messages' = messages \cup {Entry(h, "note", {})}
    /\ Goto(h, "finish")
    /\ UNCHANGED <<delivery, thread, created, archived, locking, key, session, stale,
                   missed, sent, faults>>

Enqueueing(h) == At(h, "enqueue") \/ (At(h, "route") /\ ~FoundArchived(h))

\* MessageService.enqueue; createMessage looks at the session again.
Enqueue(h) ==
    /\ Enqueueing(h) /\ Query
    /\ session[h] \notin archived
    /\ messages' = messages \cup {Entry(h, "work", missed[h])}
    /\ Goto(h, "finish")
    /\ UNCHANGED <<delivery, thread, created, archived, locking, key, session, stale,
                   missed, sent, faults>>

\* Mutant: the error is swallowed, and the delivery counts as processed.
EnqueueRefused_Mutant(h) ==
    /\ Enqueueing(h) /\ Query
    /\ session[h] \in archived
    /\ Goto(h, "finish")
    /\ UNCHANGED <<tables, locking, key, session, stale, missed, sent, faults>>

\* The session has been archived in the meantime: enqueue throws, and the
\* request ends with nothing said of the delivery.
EnqueueRefused(h) ==
    /\ Enqueueing(h) /\ Query
    /\ session[h] \in archived
    /\ Reset(h)
    /\ UNCHANGED <<tables, locking, sent, faults>>

MarkProcessed(h) ==
    /\ At(h, "finish") /\ Query
    /\ delivery' = [delivery EXCEPT ![key[h]] = "processed"]
    /\ Reset(h)
    /\ UNCHANGED <<thread, created, archived, messages, locking, sent, faults>>

(***************************************************************************)
(* The environment: users archive and restore sessions; a query fails or a *)
(* process dies, and with the connection goes the lock.                    *)
(***************************************************************************)
ArchiveOrRestore ==
    /\ thread # None
    /\ archived' = IF thread \in archived THEN archived \ {thread}
                   ELSE archived \cup {thread}
    /\ UNCHANGED <<delivery, thread, created, messages, locking, handling, sent, faults>>

Throw(h) ==
    /\ ~At(h, "idle")
    /\ faults < MaxFaults /\ faults' = faults + 1
    /\ lock' = IF lock = h THEN None ELSE lock
    /\ conns' = conns \ {h}
    /\ Reset(h)
    /\ UNCHANGED <<tables, sent>>

-----------------------------------------------------------------------------
Init ==
    /\ delivery = [k \in Keys |-> "none"]
    /\ thread = None /\ created = {} /\ archived = {} /\ messages = {}
    /\ lock = None /\ conns = {}
    /\ pc = [h \in Handlers |-> "idle"]
    /\ key = [h \in Handlers |-> None]
    /\ session = [h \in Handlers |-> None]
    /\ stale = [h \in Handlers |-> FALSE]
    /\ missed = [h \in Handlers |-> {}]
    /\ sent = [k \in Keys |-> 0]
    /\ faults = 0

GetSession(h) == ConnectForLock(h) \/ FindThread(h) \/ CreateSession(h) \/ CreateThread(h)
Answer(h) ==
    \/ RecordIgnored(h) \/ UnarchiveSession(h) \/ ReadMissed(h) \/ RecordRecovery(h)
    \/ Enqueue(h) \/ EnqueueRefused(h) \/ MarkProcessed(h)

Next ==
    \/ \E h \in Handlers :
          \/ \E k \in Keys : Deliver(h, k)
          \/ Reject(h) \/ Lock(h) \/ GetSession(h) \/ Answer(h) \/ Throw(h)
    \/ ArchiveOrRestore

\* A handler goes on while there is a connection, and Postgres gives the lock
\* to those that wait for it in turn.
Fairness ==
    \A h \in Handlers : /\ WF_vars(Reject(h) \/ GetSession(h) \/ Answer(h))
                        /\ SF_vars(Lock(h))

Spec == Init /\ [][Next]_vars
FairSpec == Spec /\ Fairness
-----------------------------------------------------------------------------
Steps == {"idle", "received", "locking", "find", "create", "map", "route",
          "missed", "note", "enqueue", "finish"}

\* The rows, the lock and the handlers have the shape the code gives them.
TypeOK ==
    /\ delivery \in [Keys -> {"none", "received", "processed", "failed"}]
    /\ thread \in created \cup {None}
    /\ created \subseteq Sessions /\ archived \subseteq created
    /\ messages \subseteq [key: Keys, by: 1..MaxSent, kind: {"work", "ignored", "note"},
                           session: created, included: SUBSET Keys]
    /\ lock \in Handlers \cup {None} /\ conns \subseteq Handlers
    /\ Cardinality(conns) <= PoolSize
    /\ pc \in [Handlers -> Steps]
    /\ key \in [Handlers -> Keys \cup {None}]
    /\ session \in [Handlers -> created \cup {None}]
    /\ stale \in [Handlers -> BOOLEAN]
    /\ missed \in [Handlers -> SUBSET Keys]
    /\ sent \in [Keys -> 0..MaxSent] /\ faults \in 0..MaxFaults

\* However often the sender repeats a delivery, and whatever was rejected, threw
\* or crashed on the way, it leaves at most one message.
OneMessagePerDelivery == \A m, n \in messages : m.key = n.key => m = n

\* Everything said in the thread goes to one session, and concurrent first
\* messages leave no other behind, unless a handler broke off between creating
\* the session and mapping the thread to it.
OneSessionPerThread ==
    /\ \A m \in messages : m.session = thread
    /\ Cardinality(created \ ({thread} \cup {session[h] : h \in {i \in Handlers : At(i, "map")}}))
          <= faults

\* A delivery counts as processed only if it left its message, queued or in the
\* transcript; one that was rejected left none.
ProcessedIsAnswered ==
    \A k \in Keys :
       /\ delivery[k] = "processed" => \E m \in messages : m.key = k
       /\ delivery[k] \in {"none", "failed"} => \A m \in messages : m.key # k

\* A connection is kept by the requests at the thread lock and by no other, and the
\* one that has the lock is at a query; that query finds a connection if the pool has
\* one more than there are requests.  So nobody waits for a lock that is left behind.
LockHolderGoesOn ==
    /\ conns = {h \in Handlers : pc[h] \in {"locking", "find", "create", "map"}}
    /\ lock # None => pc[lock] \in {"find", "create", "map"}
    /\ Cardinality(Handlers) < PoolSize => Query

\* A request that began ends, provided the pool has a connection more than
\* requests that can wait for thread locks.
RequestsEnd == \A h \in Handlers : pc[h] # "idle" ~> pc[h] = "idle"

-----------------------------------------------------------------------------
\* How a ThreadInbox shows in the tables.

Answered(k) == \E m \in messages : m.key = k

Fate(k) ==
    CASE delivery[k] = "none"      -> "new"
      [] delivery[k] = "failed"    -> "refused"
      [] delivery[k] = "processed" -> "answered"
      [] delivery[k] = "received"  -> IF Answered(k) THEN "left" ELSE "open"

Inbox ==
    INSTANCE ThreadInbox
    WITH fate <- [k \in Keys |-> Fate(k)],
         inbox <- {[key |-> m.key, kind |-> m.kind, session |-> m.session] : m \in messages},
         conversation <- thread,
         shut <- thread \in archived

\* docs/integrations.md:302: "Ignore duplicate deliveries without creating new
\* sessions/messages."  The requests and tables together are an inbox, whatever is
\* repeated, archived, broken off or handled at the same time.
ImplementsThreadInbox == Inbox!Spec

\* docs/integrations.md:301: a delivery is marked "failed with a retryable error
\* when enqueue fails".  (It fails: it stays received, and its redelivery is
\* taken for a duplicate.)
FailedIsRetryable ==
    \A k \in Keys : delivery[k] = "received" => \E h \in Handlers : key[h] = k
=============================================================================
