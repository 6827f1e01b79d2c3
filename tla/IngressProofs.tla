---------------------------- MODULE IngressProofs ----------------------------
(***************************************************************************)
(* Deliveries of a thread for any number of keys, handlers, sessions and   *)
(* faults: one message each, all in the session of the thread.             *)
(***************************************************************************)
EXTENDS IntegrationIngress, FiniteSetTheorems, TLAPS

USE DEF tables, locking, handling

\* A handler in one of these steps has the session of the thread.
Mapped == {"route", "missed", "note", "enqueue", "finish"}

\* A handler is busy with a delivery it received, and the one that looks for the
\* session of the thread, creates and maps it holds the lock.
HandlerOK(h) ==
    /\ pc[h] = "idle" <=> key[h] = None
    /\ pc[h] # "idle" => sent[key[h]] >= 1 /\ delivery[key[h]] = "received"
    /\ pc[h] \in {"find", "create", "map"} => lock = h
    /\ pc[h] \in {"create", "map"} => thread = None
    /\ pc[h] \in Mapped \cup {"map"} => session[h] # None
    /\ pc[h] \in Mapped => session[h] = thread

HandlersOK == \A h \in Handlers : HandlerOK(h)

\* No two handlers are busy with the same delivery.
Apart == \A h, i \in Handlers : h # i => key[h] # key[i] \/ key[h] = None

Shaped == TypeOK /\ HandlersOK /\ Apart

-----------------------------------------------------------------------------
(* The shape of tables, lock and handlers.                                  *)

\* What a handler is busy with.
LEMMA BusyHandler ==
  ASSUME Shaped, NEW h \in Handlers, pc[h] # "idle"
  PROVE  /\ key[h] \in Keys /\ sent[key[h]] \in 1..MaxSent /\ delivery[key[h]] = "received"
         /\ \A i \in Handlers : i # h => key[i] # key[h]
         /\ pc[h] \in Mapped \cup {"map"} => session[h] \in created
<1> USE DEF Shaped, TypeOK, HandlersOK, HandlerOK
<1>1. key[h] \in Keys /\ sent[key[h]] >= 1 /\ delivery[key[h]] = "received"
  OBVIOUS
<1>2. sent[key[h]] \in 1..MaxSent
  BY <1>1, BoundsAssumption
<1>3. \A i \in Handlers : i # h => key[i] # key[h]
  BY <1>1, NoneAssumption DEF Apart
<1>4. pc[h] \in Mapped \cup {"map"} => session[h] \in created
  OBVIOUS
<1> QED
  BY <1>1, <1>2, <1>3, <1>4

LEMMA EntryTyped ==
  ASSUME Shaped, NEW h \in Handlers, pc[h] \in Mapped,
         NEW kind \in {"work", "ignored", "note"}, NEW included \in SUBSET Keys
  PROVE  Entry(h, kind, included) \in [key: Keys, by: 1..MaxSent, kind: {"work", "ignored", "note"},
                                       session: created, included: SUBSET Keys]
  BY BusyHandler DEF Entry, Mapped

LEMMA InitShaped == Init => Shaped
<1> SUFFICES ASSUME Init PROVE Shaped
  OBVIOUS
<1> USE BoundsAssumption, NoneAssumption DEF Init
<1>1. Cardinality(conns) <= PoolSize
  BY FS_EmptySet
<1>2. TypeOK
  BY <1>1 DEF TypeOK, Steps
<1>3. HandlersOK /\ Apart
  BY DEF HandlersOK, HandlerOK, Apart, Mapped
<1> QED
  BY <1>2, <1>3 DEF Shaped

\* A handler that is done.
LEMMA ResetTyped ==
  ASSUME Shaped, NEW h \in Handlers, Reset(h)
  PROVE  /\ pc' \in [Handlers -> Steps] /\ key' \in [Handlers -> Keys \cup {None}]
         /\ session' \in [Handlers -> created \cup {None}]
         /\ stale' \in [Handlers -> BOOLEAN] /\ missed' \in [Handlers -> SUBSET Keys]
  BY DEF Shaped, TypeOK, Reset, Steps

LEMMA FewerConnections ==
  ASSUME Shaped, NEW h
  PROVE  Cardinality(conns \ {h}) <= PoolSize
<1>1. IsFiniteSet(conns)
  BY BoundsAssumption, FS_Subset DEF Shaped, TypeOK
<1>2. Cardinality(conns \ {h}) <= Cardinality(conns) /\ Cardinality(conns) \in Nat
      /\ Cardinality(conns \ {h}) \in Nat
  BY <1>1, FS_Subset, FS_CardinalityType
<1> QED
  BY <1>2, BoundsAssumption DEF Shaped, TypeOK

LEMMA OneMoreConnection ==
  ASSUME Shaped, NEW h \in Handlers, Query
  PROVE  Cardinality(conns \cup {h}) <= PoolSize
<1>1. IsFiniteSet(conns)
  BY BoundsAssumption, FS_Subset DEF Shaped, TypeOK
<1>2. Cardinality(conns) \in Nat
  BY <1>1, FS_CardinalityType
<1>3. Cardinality(conns \cup {h}) \in {Cardinality(conns), Cardinality(conns) + 1}
  BY <1>1, FS_AddElement
<1> QED
  BY <1>2, <1>3, BoundsAssumption DEF Query

-----------------------------------------------------------------------------
(* Every step keeps it.                                                     *)

LEMMA DeliverShaped ==
  ASSUME Shaped, NEW h \in Handlers, NEW k \in Keys, Deliver(h, k)
  PROVE  Shaped'
<1> USE BoundsAssumption, NoneAssumption
<1>1. /\ sent' \in [Keys -> 0..MaxSent] /\ sent'[k] >= 1
      /\ \A j \in Keys : j # k => sent'[j] = sent[j]
  BY DEF Deliver, Shaped, TypeOK
<1>2. CASE Retakable(k)
  <2>1. /\ delivery' = [delivery EXCEPT ![k] = "received"] /\ pc' = [pc EXCEPT ![h] = "received"]
        /\ key' = [key EXCEPT ![h] = k] /\ pc[h] = "idle"
        /\ UNCHANGED <<thread, created, archived, messages, lock, conns, session, stale, missed, faults>>
    BY <1>2 DEF Deliver, Goto, At
  <2>2. \A i \in Handlers : key[i] # k
    BY <1>2, BusyHandler DEF Retakable, Shaped, HandlersOK, HandlerOK
  <2>3. TypeOK'
    BY <1>1, <2>1 DEF Shaped, TypeOK, Steps
  <2>4. ASSUME NEW i \in Handlers PROVE HandlerOK(i)'
    BY <1>1, <2>1, <2>2 DEF Shaped, TypeOK, HandlersOK, HandlerOK, Mapped
  <2>5. Apart'
    BY <2>1, <2>2 DEF Shaped, TypeOK, Apart
  <2> QED
    BY <2>3, <2>4, <2>5 DEF Shaped, HandlersOK
<1>3. CASE ~Retakable(k)
  <2>1. UNCHANGED <<delivery, pc, key, thread, created, archived, messages, lock, conns,
                    session, stale, missed, faults>>
    BY <1>3 DEF Deliver
  <2>2. TypeOK'
    BY <1>1, <2>1 DEF Shaped, TypeOK
  <2>3. ASSUME NEW i \in Handlers PROVE HandlerOK(i)'
    BY <1>1, <2>1 DEF Shaped, TypeOK, HandlersOK, HandlerOK
  <2>4. Apart'
    BY <2>1 DEF Shaped, Apart
  <2> QED
    BY <2>2, <2>3, <2>4 DEF Shaped, HandlersOK
<1> QED
  BY <1>2, <1>3

\* A handler answers or throws: nothing of it is left, and only its own row changes.
LEMMA ResetShaped ==
  ASSUME Shaped, NEW h \in Handlers, Reset(h), TypeOK', UNCHANGED <<thread, sent>>,
         \A k \in Keys : k # key[h] => delivery'[k] = delivery[k],
         lock' = lock \/ lock = h
  PROVE  HandlersOK' /\ Apart'
<1>1. /\ pc'[h] = "idle" /\ key'[h] = None
      /\ \A i \in Handlers : i # h => pc'[i] = pc[i] /\ key'[i] = key[i] /\ session'[i] = session[i]
  BY DEF Reset, Shaped, TypeOK
<1>2. HandlerOK(h)'
  BY <1>1 DEF HandlerOK, Mapped
<1>3. ASSUME NEW i \in Handlers, i # h PROVE HandlerOK(i)'
  <2>1. pc[i] # "idle" => key[i] # key[h] /\ key[i] \in Keys
    BY <1>3, BusyHandler DEF Shaped
  <2> QED
    BY <1>1, <1>3, <2>1 DEF Shaped, HandlersOK, HandlerOK, Mapped
<1>4. Apart'
  BY <1>1 DEF Shaped, Apart
<1> QED
  BY <1>2, <1>3, <1>4 DEF HandlersOK

\* A handler makes a step with its delivery: the others keep what they have.
LEMMA GoOnShaped ==
  ASSUME Shaped, NEW h \in Handlers, pc[h] # "idle", TypeOK', UNCHANGED <<delivery, key, sent>>,
         \A i \in Handlers : i # h => pc'[i] = pc[i] /\ session'[i] = session[i],
         lock' = lock \/ lock \in {h, None},
         thread' = thread \/ (thread = None /\ lock = h),
         HandlerOK(h)'
  PROVE  HandlersOK' /\ Apart'
<1>1. ASSUME NEW i \in Handlers, i # h PROVE HandlerOK(i)'
  BY <1>1, NoneAssumption DEF Shaped, HandlersOK, HandlerOK
<1>2. Apart'
  BY DEF Shaped, Apart
<1> QED
  BY <1>1, <1>2 DEF HandlersOK

LEMMA NoteStale ==
  ASSUME NEW f \in [Handlers -> BOOLEAN], NEW h \in Handlers, NEW b \in BOOLEAN
  PROVE  [f EXCEPT ![h] = b] \in [Handlers -> BOOLEAN]
  OBVIOUS

\* The steps that get a session for the thread.
LEMMA GetSessionShaped ==
  ASSUME Shaped, NEW h \in Handlers, GetSession(h) \/ Lock(h)
  PROVE  Shaped'
<1> USE DEF Goto, At
<1>0. h # None
  BY NoneAssumption
<1>1. CASE ConnectForLock(h)
  <2>1. TypeOK'
    BY <1>1, OneMoreConnection DEF ConnectForLock, Shaped, TypeOK, Steps
  <2>2. HandlerOK(h)'
    BY <1>1 DEF ConnectForLock, Shaped, TypeOK, HandlersOK, HandlerOK, Mapped
  <2>3. /\ pc[h] # "idle" /\ UNCHANGED <<delivery, key, sent, lock, thread>>
        /\ \A i \in Handlers : i # h => pc'[i] = pc[i] /\ session'[i] = session[i]
    BY <1>1 DEF ConnectForLock, Shaped, TypeOK
  <2> QED
    BY <2>1, <2>2, <2>3, GoOnShaped DEF Shaped
<1>2. CASE Lock(h)
  <2>1. TypeOK'
    BY <1>2 DEF Lock, Shaped, TypeOK, Steps
  <2>2. HandlerOK(h)'
    BY <1>2 DEF Lock, Shaped, TypeOK, HandlersOK, HandlerOK, Mapped
  <2>3. /\ pc[h] # "idle" /\ UNCHANGED <<delivery, key, sent, thread>> /\ lock = None
        /\ \A i \in Handlers : i # h => pc'[i] = pc[i] /\ session'[i] = session[i]
    BY <1>2 DEF Lock, Shaped, TypeOK
  <2> QED
    BY <2>1, <2>2, <2>3, GoOnShaped DEF Shaped
<1>3. CASE FindThread(h)
  <2>0. lock = h /\ pc[h] = "find"
    BY <1>3 DEF FindThread, Shaped, HandlersOK, HandlerOK
  <2>1. TypeOK'
    <3>1. CASE thread # None
      <4>1. /\ conns' = conns \ {h} /\ lock' = None /\ session' = [session EXCEPT ![h] = thread]
            /\ stale' = [stale EXCEPT ![h] = thread \in archived] /\ pc' = [pc EXCEPT ![h] = "route"]
            /\ UNCHANGED <<tables, key, missed, sent, faults>>
        BY <1>3, <3>1 DEF FindThread, Unlock, GoOnWith
      <4>2. Cardinality(conns') <= PoolSize
        BY <4>1, FewerConnections
      <4>3. stale' \in [Handlers -> BOOLEAN]
        <5>1. stale \in [Handlers -> BOOLEAN] /\ (thread \in archived) \in BOOLEAN
          BY DEF Shaped, TypeOK
        <5> QED
          BY <4>1, <5>1, NoteStale
      <4> QED
        BY <4>1, <4>2, <4>3 DEF Shaped, TypeOK, Steps
    <3>2. CASE thread = None
      BY <1>3, <3>2 DEF FindThread, Shaped, TypeOK, Steps
    <3> QED
      BY <3>1, <3>2
  <2>2. HandlerOK(h)'
    <3>1. CASE thread # None
      BY <1>3, <2>0, <3>1 DEF FindThread, Unlock, GoOnWith, Shaped, TypeOK, HandlersOK, HandlerOK, Mapped
    <3>2. CASE thread = None
      BY <1>3, <2>0, <3>2 DEF FindThread, Shaped, TypeOK, HandlersOK, HandlerOK, Mapped
    <3> QED
      BY <3>1, <3>2
  <2>3. /\ UNCHANGED <<delivery, key, sent, thread>>
        /\ \A i \in Handlers : i # h => pc'[i] = pc[i] /\ session'[i] = session[i]
    BY <1>3 DEF FindThread, GoOnWith, Shaped, TypeOK
  <2> QED
    BY <2>0, <2>1, <2>2, <2>3, GoOnShaped DEF Shaped
<1>4. CASE CreateSession(h)
  <2> PICK s \in Sessions \ created : /\ created' = created \cup {s}
                                      /\ session' = [session EXCEPT ![h] = s]
    BY <1>4 DEF CreateSession
  <2>1. TypeOK'
    BY <1>4 DEF CreateSession, Shaped, TypeOK, Steps
  <2>2. HandlerOK(h)'
    BY <1>4, NoneAssumption DEF CreateSession, Shaped, TypeOK, HandlersOK, HandlerOK, Mapped
  <2>3. /\ pc[h] # "idle" /\ UNCHANGED <<delivery, key, sent, lock, thread>>
        /\ \A i \in Handlers : i # h => pc'[i] = pc[i] /\ session'[i] = session[i]
    BY <1>4 DEF CreateSession, Shaped, TypeOK
  <2> QED
    BY <2>1, <2>2, <2>3, GoOnShaped DEF Shaped
<1>5. CASE CreateThread(h)
  <2>0. lock = h /\ pc[h] = "map" /\ thread = None /\ session[h] \in created
    BY <1>5, BusyHandler DEF CreateThread, Shaped, HandlersOK, HandlerOK
  <2>1. /\ thread' = session[h] /\ session' = [session EXCEPT ![h] = session[h]]
        /\ pc' = [pc EXCEPT ![h] = "route"] /\ lock' = None /\ conns' = conns \ {h}
        /\ stale' = [stale EXCEPT ![h] = thread' \in archived]
        /\ UNCHANGED <<delivery, created, archived, messages, key, missed, sent, faults>>
    BY <1>5, <2>0 DEF CreateThread, Unlock, GoOnWith
  <2>2. TypeOK'
    <3>1. Cardinality(conns') <= PoolSize
      BY <2>1, FewerConnections
    <3>2. stale' \in [Handlers -> BOOLEAN]
      <4>1. stale \in [Handlers -> BOOLEAN] /\ (thread' \in archived) \in BOOLEAN
        BY DEF Shaped, TypeOK
      <4> QED
        BY <2>1, <4>1, NoteStale
    <3> QED
      BY <2>0, <2>1, <3>1, <3>2 DEF Shaped, TypeOK, Steps
  <2>3. HandlerOK(h)'
    BY <2>0, <2>1 DEF Shaped, TypeOK, HandlersOK, HandlerOK, Mapped
  <2>4. \A i \in Handlers : i # h => pc'[i] = pc[i] /\ session'[i] = session[i]
    BY <2>1 DEF Shaped, TypeOK
  <2> QED
    BY <2>0, <2>1, <2>2, <2>3, <2>4, GoOnShaped DEF Shaped
<1> QED
  BY <1>1, <1>2, <1>3, <1>4, <1>5 DEF GetSession

\* The steps that leave a message, and then only have the row to write.
Records(h, m) ==
  /\ pc[h] \in Mapped \ {"finish"}
  /\ messages' = messages \cup {m}
  /\ Goto(h, "finish")
  /\ UNCHANGED <<delivery, thread, created, archived, locking, key, session, stale, missed, sent, faults>>

LEMMA RecordsShaped ==
  ASSUME Shaped, NEW h \in Handlers, NEW kind \in {"work", "ignored", "note"},
         NEW included \in SUBSET Keys, Records(h, Entry(h, kind, included))
  PROVE  Shaped'
<1> DEFINE m == Entry(h, kind, included)
<1>0. pc[h] \in Mapped /\ pc[h] # "idle" /\ pc' = [pc EXCEPT ![h] = "finish"]
  BY DEF Records, Mapped, Goto
<1>1. m \in [key: Keys, by: 1..MaxSent, kind: {"work", "ignored", "note"},
             session: created, included: SUBSET Keys]
  BY <1>0, EntryTyped
<1> HIDE DEF m
<1>2. /\ messages' = messages \cup {m}
      /\ UNCHANGED <<delivery, thread, created, archived, locking, key, session, stale, missed, sent, faults>>
  BY DEF Records, m
<1>3. TypeOK'
  BY <1>0, <1>1, <1>2 DEF Shaped, TypeOK, Steps
<1>4. HandlerOK(h)'
  BY <1>0, <1>2 DEF Shaped, TypeOK, HandlersOK, HandlerOK, Mapped
<1>5. \A i \in Handlers : i # h => pc'[i] = pc[i] /\ session'[i] = session[i]
  BY <1>0, <1>2 DEF Shaped, TypeOK
<1> QED
  BY <1>0, <1>2, <1>3, <1>4, <1>5, GoOnShaped DEF Shaped

LEMMA Recorded ==
  ASSUME Shaped, NEW h \in Handlers, RecordIgnored(h) \/ RecordRecovery(h) \/ Enqueue(h)
  PROVE  \E kind \in {"work", "ignored", "note"}, included \in SUBSET Keys :
            Records(h, Entry(h, kind, included))
<1> USE DEF Records, Mapped, At
<1>1. CASE RecordIgnored(h)
  BY <1>1 DEF RecordIgnored, FoundArchived
<1>2. CASE RecordRecovery(h)
  BY <1>2 DEF RecordRecovery
<1>3. CASE Enqueue(h)
  BY <1>3 DEF Enqueue, Enqueueing, Shaped, TypeOK
<1> QED
  BY <1>1, <1>2, <1>3

\* The steps in which a handler restores the session and reads what was missed.
LEMMA RestoreShaped ==
  ASSUME Shaped, NEW h \in Handlers, UnarchiveSession(h) \/ ReadMissed(h)
  PROVE  Shaped'
<1> USE DEF Goto, At
<1>1. CASE UnarchiveSession(h)
  <2>1. TypeOK'
    BY <1>1 DEF UnarchiveSession, FoundArchived, Shaped, TypeOK, Steps
  <2>2. HandlerOK(h)'
    BY <1>1 DEF UnarchiveSession, FoundArchived, Shaped, TypeOK, HandlersOK, HandlerOK, Mapped
  <2>3. /\ pc[h] # "idle" /\ UNCHANGED <<delivery, key, sent, lock, thread>>
        /\ \A i \in Handlers : i # h => pc'[i] = pc[i] /\ session'[i] = session[i]
    BY <1>1 DEF UnarchiveSession, FoundArchived, Shaped, TypeOK
  <2> QED
    BY <2>1, <2>2, <2>3, GoOnShaped DEF Shaped
<1>2. CASE ReadMissed(h)
  <2>0. Unprocessed(session[h]) \in SUBSET Keys
    BY DEF Unprocessed, Shaped, TypeOK
  <2>1. TypeOK'
    BY <1>2, <2>0 DEF ReadMissed, Shaped, TypeOK, Steps
  <2>2. HandlerOK(h)'
    BY <1>2 DEF ReadMissed, Shaped, TypeOK, HandlersOK, HandlerOK, Mapped
  <2>3. /\ pc[h] # "idle" /\ UNCHANGED <<delivery, key, sent, lock, thread>>
        /\ \A i \in Handlers : i # h => pc'[i] = pc[i] /\ session'[i] = session[i]
    BY <1>2 DEF ReadMissed, Shaped, TypeOK
  <2> QED
    BY <2>1, <2>2, <2>3, GoOnShaped DEF Shaped
<1> QED
  BY <1>1, <1>2

\* The steps that end the work on a delivery.
LEMMA EndShaped ==
  ASSUME Shaped, NEW h \in Handlers,
         Reject(h) \/ EnqueueRefused(h) \/ MarkProcessed(h) \/ Throw(h)
  PROVE  Shaped'
<1>1. Reset(h) /\ pc[h] # "idle" /\ UNCHANGED <<thread, created, archived, messages, sent>>
  BY DEF Reject, EnqueueRefused, Enqueueing, FoundArchived, MarkProcessed, Throw, At
<1>2. /\ delivery' \in [Keys -> {"none", "received", "processed", "failed"}]
      /\ \A k \in Keys : k # key[h] => delivery'[k] = delivery[k]
  BY <1>1, BusyHandler DEF Reject, EnqueueRefused, MarkProcessed, Throw, Shaped, TypeOK
<1>3. /\ lock' \in Handlers \cup {None} /\ conns' \subseteq Handlers /\ Cardinality(conns') <= PoolSize
      /\ lock' = lock \/ lock = h
  <2>1. CASE Throw(h)
    BY <2>1, FewerConnections DEF Throw, Shaped, TypeOK
  <2>2. CASE ~Throw(h)
    BY <2>2 DEF Reject, EnqueueRefused, MarkProcessed, Shaped, TypeOK
  <2> QED
    BY <2>1, <2>2
<1>4. faults' \in 0..MaxFaults
  BY BoundsAssumption DEF Reject, EnqueueRefused, MarkProcessed, Throw, Shaped, TypeOK
<1>5. TypeOK'
  BY <1>1, <1>2, <1>3, <1>4, ResetTyped DEF Shaped, TypeOK
<1> QED
  BY <1>1, <1>2, <1>3, <1>5, ResetShaped DEF Shaped

LEMMA ArchiveShaped ==
  ASSUME Shaped, ArchiveOrRestore
  PROVE  Shaped'
<1>1. TypeOK'
  BY DEF ArchiveOrRestore, Shaped, TypeOK
<1>2. HandlersOK'
  BY DEF ArchiveOrRestore, Shaped, HandlersOK, HandlerOK
<1>3. Apart'
  BY DEF ArchiveOrRestore, Shaped, Apart
<1> QED
  BY <1>1, <1>2, <1>3 DEF Shaped

LEMMA StepShaped == Shaped /\ [Next]_vars => Shaped'
<1> SUFFICES ASSUME Shaped, [Next]_vars PROVE Shaped'
  OBVIOUS
<1>1. ASSUME NEW h \in Handlers, NEW k \in Keys, Deliver(h, k) PROVE Shaped'
  BY <1>1, DeliverShaped
<1>2. ASSUME NEW h \in Handlers, Lock(h) \/ GetSession(h) PROVE Shaped'
  BY <1>2, GetSessionShaped
<1>3. ASSUME NEW h \in Handlers, Answer(h) \/ Reject(h) \/ Throw(h) PROVE Shaped'
  BY <1>3, Recorded, RecordsShaped, RestoreShaped, EndShaped DEF Answer
<1>4. CASE ArchiveOrRestore
  BY <1>4, ArchiveShaped
<1>5. CASE UNCHANGED vars
  BY <1>5 DEF vars, Shaped, TypeOK, HandlersOK, HandlerOK, Apart
<1> QED
  BY <1>1, <1>2, <1>3, <1>4, <1>5 DEF Next

\* The rows, the lock and the handlers have the shape the code gives them, for any
\* number of deliveries, requests, sessions and connections.
THEOREM IngressTyped == Spec => []TypeOK
<1>1. Shaped => TypeOK
  BY DEF Shaped
<1> QED
  BY <1>1, InitShaped, StepShaped, PTL DEF Spec

-----------------------------------------------------------------------------
(* One message for each delivery, in the session of the thread.             *)

\* A message is in the session of the thread, and the handler that still has its
\* delivery only writes the row; a handler about to do that left one.
Left ==
    /\ \A m \in messages : /\ m.session = thread
                           /\ \A h \in Handlers : key[h] = m.key => pc[h] = "finish"
    /\ \A h \in Handlers : pc[h] = "finish" => \E m \in messages : m.key = key[h]

MessageInv == Shaped /\ Left /\ OneMessagePerDelivery /\ ProcessedIsAnswered

LEMMA MessageKeys ==
  ASSUME Shaped, NEW m \in messages
  PROVE  m.key \in Keys /\ m.session \in created /\ m.session # None
  BY NoneAssumption DEF Shaped, TypeOK

LEMMA DeliverLeft ==
  ASSUME MessageInv, NEW h \in Handlers, NEW k \in Keys, Deliver(h, k)
  PROVE  Left' /\ OneMessagePerDelivery' /\ ProcessedIsAnswered'
<1>0. pc[h] = "idle" /\ UNCHANGED <<messages, thread>>
  BY DEF Deliver, At
<1>1. CASE Retakable(k)
  <2>1. /\ delivery' = [delivery EXCEPT ![k] = "received"] /\ pc' = [pc EXCEPT ![h] = "received"]
        /\ key' = [key EXCEPT ![h] = k]
    BY <1>1 DEF Deliver, Goto
  <2>2. \A m \in messages : m.key # k
    BY <1>1 DEF Retakable, MessageInv, ProcessedIsAnswered
  <2>3. Left'
    BY <1>0, <2>1, <2>2 DEF MessageInv, Shaped, TypeOK, Left
  <2>4. ProcessedIsAnswered'
    BY <1>0, <2>1, <2>2 DEF MessageInv, Shaped, TypeOK, ProcessedIsAnswered
  <2> QED
    BY <1>0, <2>3, <2>4 DEF MessageInv, OneMessagePerDelivery
<1>2. CASE ~Retakable(k)
  BY <1>0, <1>2 DEF Deliver, MessageInv, Left, OneMessagePerDelivery, ProcessedIsAnswered
<1> QED
  BY <1>1, <1>2

\* A step towards the message.
LEMMA GoOnLeft ==
  ASSUME MessageInv, NEW h \in Handlers, pc[h] # "finish", NEW st, st # "finish",
         pc' = [pc EXCEPT ![h] = st], UNCHANGED <<messages, key, delivery>>,
         thread' = thread \/ thread = None
  PROVE  Left' /\ OneMessagePerDelivery' /\ ProcessedIsAnswered'
<1>1. \A i \in Handlers : pc'[i] = IF i = h THEN st ELSE pc[i]
  BY DEF MessageInv, Shaped, TypeOK
<1>2. Left'
  BY <1>1, MessageKeys DEF MessageInv, Left
<1> QED
  BY <1>2 DEF MessageInv, OneMessagePerDelivery, ProcessedIsAnswered

LEMMA TowardsLeft ==
  ASSUME MessageInv, NEW h \in Handlers,
         GetSession(h) \/ Lock(h) \/ UnarchiveSession(h) \/ ReadMissed(h)
  PROVE  Left' /\ OneMessagePerDelivery' /\ ProcessedIsAnswered'
<1>1. /\ pc[h] # "finish" /\ UNCHANGED <<messages, key, delivery>>
      /\ \E st \in Steps \ {"finish"} : pc' = [pc EXCEPT ![h] = st]
  BY DEF GetSession, ConnectForLock, Lock, FindThread, CreateSession, CreateThread, GoOnWith,
         UnarchiveSession, ReadMissed, FoundArchived, Goto, At, Steps
<1>2. thread' = thread \/ thread = None
  BY DEF GetSession, ConnectForLock, Lock, FindThread, CreateSession, CreateThread,
         UnarchiveSession, ReadMissed
<1> QED
  BY <1>1, <1>2, GoOnLeft

LEMMA RecordsLeft ==
  ASSUME MessageInv, NEW h \in Handlers, NEW kind, NEW included, Records(h, Entry(h, kind, included))
  PROVE  Left' /\ OneMessagePerDelivery' /\ ProcessedIsAnswered'
<1> DEFINE m == Entry(h, kind, included)
<1>1. m.key = key[h] /\ m.session = session[h]
  BY DEF Entry
<1> HIDE DEF m
<1>2. /\ messages' = messages \cup {m} /\ UNCHANGED <<delivery, key, thread>>
      /\ pc[h] \in Mapped /\ pc[h] \notin {"finish", "idle"}
      /\ \A i \in Handlers : pc'[i] = IF i = h THEN "finish" ELSE pc[i]
  BY DEF Records, Goto, Mapped, m, MessageInv, Shaped, TypeOK
<1>3. /\ session[h] = thread /\ key[h] \in Keys /\ delivery[key[h]] = "received"
      /\ \A i \in Handlers : i # h => key[i] # key[h]
  BY <1>2, BusyHandler DEF MessageInv, Shaped, HandlersOK, HandlerOK
<1>4. \A n \in messages : n.key # key[h]
  BY <1>2 DEF MessageInv, Left
<1>5. Left'
  BY <1>1, <1>2, <1>3, <1>4 DEF MessageInv, Left
<1>6. OneMessagePerDelivery'
  BY <1>1, <1>2, <1>4 DEF MessageInv, OneMessagePerDelivery
<1>7. ProcessedIsAnswered'
  BY <1>1, <1>2, <1>3 DEF MessageInv, ProcessedIsAnswered
<1> QED
  BY <1>5, <1>6, <1>7

LEMMA EndLeft ==
  ASSUME MessageInv, NEW h \in Handlers,
         Reject(h) \/ EnqueueRefused(h) \/ MarkProcessed(h) \/ Throw(h)
  PROVE  Left' /\ OneMessagePerDelivery' /\ ProcessedIsAnswered'
<1>1. pc[h] # "idle" /\ UNCHANGED <<messages, thread>> /\ Reset(h)
  BY DEF Reject, EnqueueRefused, Enqueueing, FoundArchived, MarkProcessed, Throw, At
<1>2. /\ pc'[h] = "idle" /\ key'[h] = None
      /\ \A i \in Handlers : i # h => pc'[i] = pc[i] /\ key'[i] = key[i]
  BY <1>1 DEF Reset, MessageInv, Shaped, TypeOK
<1>3. Left'
  BY <1>1, <1>2, MessageKeys, NoneAssumption DEF MessageInv, Left
<1>4. OneMessagePerDelivery'
  BY <1>1 DEF MessageInv, OneMessagePerDelivery
<1>5. key[h] \in Keys
  BY <1>1, BusyHandler DEF MessageInv
<1>6. CASE Reject(h)
  <2>1. pc[h] = "received" /\ delivery' = [delivery EXCEPT ![key[h]] = "failed"]
    BY <1>6 DEF Reject, At
  <2>2. \A m \in messages : m.key # key[h]
    BY <2>1 DEF MessageInv, Left
  <2>3. ProcessedIsAnswered'
    BY <1>1, <1>5, <2>1, <2>2 DEF MessageInv, Shaped, TypeOK, ProcessedIsAnswered
  <2> QED
    BY <1>3, <1>4, <2>3
<1>7. CASE MarkProcessed(h)
  <2>1. pc[h] = "finish" /\ delivery' = [delivery EXCEPT ![key[h]] = "processed"]
    BY <1>7 DEF MarkProcessed, At
  <2>2. \E m \in messages : m.key = key[h]
    BY <2>1 DEF MessageInv, Left
  <2>3. ProcessedIsAnswered'
    BY <1>1, <1>5, <2>1, <2>2 DEF MessageInv, Shaped, TypeOK, ProcessedIsAnswered
  <2> QED
    BY <1>3, <1>4, <2>3
<1>8. CASE EnqueueRefused(h) \/ Throw(h)
  BY <1>1, <1>3, <1>4, <1>8 DEF EnqueueRefused, Throw, MessageInv, ProcessedIsAnswered
<1> QED
  BY <1>6, <1>7, <1>8

LEMMA InitMessages == Init => MessageInv
  BY InitShaped DEF Init, MessageInv, Left, OneMessagePerDelivery, ProcessedIsAnswered

LEMMA StepMessages == MessageInv /\ [Next]_vars => MessageInv'
<1> SUFFICES ASSUME MessageInv, [Next]_vars PROVE MessageInv'
  OBVIOUS
<1>0. Shaped'
  BY StepShaped DEF MessageInv
<1>1. ASSUME NEW h \in Handlers, NEW k \in Keys, Deliver(h, k) PROVE MessageInv'
  BY <1>0, <1>1, DeliverLeft DEF MessageInv
<1>2. ASSUME NEW h \in Handlers,
             Lock(h) \/ GetSession(h) \/ UnarchiveSession(h) \/ ReadMissed(h)
      PROVE  MessageInv'
  BY <1>0, <1>2, TowardsLeft DEF MessageInv
<1>3. ASSUME NEW h \in Handlers, RecordIgnored(h) \/ RecordRecovery(h) \/ Enqueue(h)
      PROVE  MessageInv'
  <2>1. PICK kind \in {"work", "ignored", "note"}, included \in SUBSET Keys :
               Records(h, Entry(h, kind, included))
    BY <1>3, Recorded DEF MessageInv
  <2> QED
    BY <1>0, <2>1, RecordsLeft DEF MessageInv
<1>4. ASSUME NEW h \in Handlers, Reject(h) \/ EnqueueRefused(h) \/ MarkProcessed(h) \/ Throw(h)
      PROVE  MessageInv'
  BY <1>0, <1>4, EndLeft DEF MessageInv
<1>5. CASE ArchiveOrRestore \/ UNCHANGED vars
  BY <1>0, <1>5 DEF ArchiveOrRestore, vars, MessageInv, Left, OneMessagePerDelivery, ProcessedIsAnswered
<1> QED
  BY <1>1, <1>2, <1>3, <1>4, <1>5 DEF Next, Answer

\* However often a delivery is repeated, rejected, broken off or handled by several
\* requests at a time, it leaves at most one message.
THEOREM DeliveriesLeaveOne == Spec => []OneMessagePerDelivery
<1>1. MessageInv => OneMessagePerDelivery
  BY DEF MessageInv
<1> QED
  BY <1>1, InitMessages, StepMessages, PTL DEF Spec

\* The row of a delivery tells whether it left a message.
THEOREM RowsTellTheMessages == Spec => []ProcessedIsAnswered
<1>1. MessageInv => ProcessedIsAnswered
  BY DEF MessageInv
<1> QED
  BY <1>1, InitMessages, StepMessages, PTL DEF Spec

-----------------------------------------------------------------------------
(* One session for the thread.                                              *)

Mapping == {i \in Handlers : At(i, "map")}

\* Sessions that are neither the thread's nor about to be.
Orphans == created \ ({thread} \cup {session[h] : h \in Mapping})

SessionInv == MessageInv /\ Cardinality(Orphans) <= faults

LEMMA FewOrphans ==
  ASSUME Shaped, Shaped', NEW s, Cardinality(Orphans) <= faults,
         \/ Orphans' \subseteq Orphans /\ faults' = faults
         \/ Orphans' \subseteq Orphans \cup {s} /\ faults' = faults + 1
  PROVE  Cardinality(Orphans') <= faults'
<1>1. IsFiniteSet(Orphans) /\ IsFiniteSet(Orphans')
  BY BoundsAssumption, FS_Subset DEF Orphans, Shaped, TypeOK
<1>2. /\ Cardinality(Orphans) \in Nat /\ Cardinality(Orphans') \in Nat
      /\ faults \in Nat /\ faults' \in Nat
  BY <1>1, FS_CardinalityType, BoundsAssumption DEF Shaped, TypeOK
<1>3. CASE Orphans' \subseteq Orphans /\ faults' = faults
  <2>1. Cardinality(Orphans') <= Cardinality(Orphans)
    BY <1>1, <1>3, FS_Subset
  <2> QED
    BY <1>2, <1>3, <2>1
<1>4. CASE Orphans' \subseteq Orphans \cup {s} /\ faults' = faults + 1
  <2>1. IsFiniteSet(Orphans \cup {s})
        /\ Cardinality(Orphans \cup {s}) \in {Cardinality(Orphans), Cardinality(Orphans) + 1}
    BY <1>1, FS_AddElement
  <2>2. Cardinality(Orphans') <= Cardinality(Orphans \cup {s})
    BY <1>4, <2>1, FS_Subset
  <2> QED
    BY <1>2, <1>4, <2>1, <2>2
<1> QED
  BY <1>3, <1>4

\* A step that keeps the sessions, and those about to be mapped.
LEMMA SameOrphans ==
  ASSUME Shaped, UNCHANGED <<created, thread>>,
         \A i \in Handlers : At(i, "map") => At(i, "map")' /\ session'[i] = session[i]
  PROVE  Orphans' \subseteq Orphans
  BY DEF Orphans, Mapping

LEMMA CreateOrphans ==
  ASSUME Shaped, NEW h \in Handlers, CreateSession(h)
  PROVE  Orphans' \subseteq Orphans
<1> PICK s \in Sessions \ created : created' = created \cup {s} /\ session' = [session EXCEPT ![h] = s]
  BY DEF CreateSession
<1>1. /\ session'[h] = s /\ pc'[h] = "map" /\ pc[h] = "create" /\ thread' = thread
      /\ \A i \in Handlers : i # h => pc'[i] = pc[i] /\ session'[i] = session[i]
  BY DEF CreateSession, Goto, At, Shaped, TypeOK
<1>2. h \in Mapping' /\ \A i \in Mapping : i \in Mapping' /\ session'[i] = session[i]
  BY <1>1 DEF Mapping, At
<1> QED
  BY <1>1, <1>2 DEF Orphans

LEMMA MapOrphans ==
  ASSUME Shaped, NEW h \in Handlers, CreateThread(h)
  PROVE  Orphans' \subseteq Orphans
<1>1. lock = h /\ thread = None /\ pc[h] = "map"
  BY DEF CreateThread, At, Shaped, HandlersOK, HandlerOK
<1>2. Mapping = {h}
  BY <1>1 DEF Mapping, At, Shaped, HandlersOK, HandlerOK
<1>3. thread' = session[h] /\ created' = created
  BY <1>1 DEF CreateThread
<1>4. None \notin created
  BY NoneAssumption DEF Shaped, TypeOK
<1> QED
  BY <1>1, <1>2, <1>3, <1>4 DEF Orphans

\* Only a handler that is broken off between creating and mapping leaves an orphan.
LEMMA ThrowOrphans ==
  ASSUME Shaped, NEW h \in Handlers, Throw(h)
  PROVE  Orphans' \subseteq Orphans \cup {session[h]} /\ faults' = faults + 1
<1>1. \A i \in Handlers : i # h => pc'[i] = pc[i] /\ session'[i] = session[i]
  BY DEF Throw, Reset, Shaped, TypeOK
<1>2. UNCHANGED <<created, thread>> /\ faults' = faults + 1
  BY DEF Throw
<1>3. \A i \in Mapping : i = h \/ (i \in Mapping' /\ session'[i] = session[i])
  BY <1>1 DEF Mapping, At
<1> QED
  BY <1>2, <1>3 DEF Orphans

LEMMA StepSessions == SessionInv /\ [Next]_vars => SessionInv'
<1> SUFFICES ASSUME SessionInv, [Next]_vars PROVE SessionInv'
  OBVIOUS
<1>0. MessageInv' /\ Shaped /\ Shaped'
  BY StepMessages DEF SessionInv, MessageInv
<1>1. ASSUME NEW h \in Handlers, NEW k \in Keys, Deliver(h, k) PROVE SessionInv'
  <2>1. faults' = faults /\ UNCHANGED <<created, thread, session>>
    BY <1>1 DEF Deliver
  <2>2. \A i \in Handlers : At(i, "map") => At(i, "map")'
    BY <1>0, <1>1 DEF Deliver, At, Goto, Shaped, TypeOK
  <2>3. Orphans' \subseteq Orphans
    BY <1>0, <2>1, <2>2, SameOrphans
  <2> QED
    BY <1>0, <2>1, <2>3, FewOrphans DEF SessionInv
<1>2. ASSUME NEW h \in Handlers, CreateSession(h) \/ CreateThread(h) PROVE SessionInv'
  <2>1. Orphans' \subseteq Orphans
    BY <1>0, <1>2, CreateOrphans, MapOrphans
  <2>2. faults' = faults
    BY <1>2 DEF CreateSession, CreateThread
  <2> QED
    BY <1>0, <2>1, <2>2, FewOrphans DEF SessionInv
<1>3. ASSUME NEW h \in Handlers, ConnectForLock(h) \/ Lock(h) \/ FindThread(h) \/ Answer(h) \/ Reject(h)
      PROVE  SessionInv'
  <2>1. faults' = faults /\ UNCHANGED <<created, thread>> /\ pc[h] # "map"
    BY <1>3 DEF ConnectForLock, Lock, FindThread, Answer, RecordIgnored, UnarchiveSession, ReadMissed,
                RecordRecovery, Enqueue, EnqueueRefused, MarkProcessed, Reject, FoundArchived,
                Enqueueing, At
  <2>2. \A i \in Handlers : i # h => pc'[i] = pc[i] /\ session'[i] = session[i]
    BY <1>0, <1>3 DEF ConnectForLock, Lock, FindThread, GoOnWith, Answer, RecordIgnored, UnarchiveSession,
                ReadMissed, RecordRecovery, Enqueue, EnqueueRefused, MarkProcessed, Reject, Reset, Goto,
                Shaped, TypeOK
  <2>3. Orphans' \subseteq Orphans
    BY <1>0, <2>1, <2>2, SameOrphans DEF At
  <2> QED
    BY <1>0, <2>1, <2>3, FewOrphans DEF SessionInv
<1>4. ASSUME NEW h \in Handlers, Throw(h) PROVE SessionInv'
  BY <1>0, <1>4, ThrowOrphans, FewOrphans DEF SessionInv
<1>5. CASE ArchiveOrRestore \/ UNCHANGED vars
  <2>1. faults' = faults /\ UNCHANGED <<created, thread, pc, session>>
    BY <1>5 DEF ArchiveOrRestore, vars
  <2>2. Orphans' \subseteq Orphans
    BY <1>0, <2>1, SameOrphans DEF At
  <2> QED
    BY <1>0, <2>1, <2>2, FewOrphans DEF SessionInv
<1> QED
  BY <1>1, <1>2, <1>3, <1>4, <1>5 DEF Next, GetSession

\* The messages of a thread are in its one session, and there are no more sessions
\* without a thread than handlers that were broken off.
THEOREM ThreadHasOneSession == Spec => []OneSessionPerThread
<1>1. Init => SessionInv
  <2> SUFFICES ASSUME Init PROVE SessionInv
    OBVIOUS
  <2>1. Orphans = {} /\ faults = 0
    BY DEF Init, Orphans
  <2> QED
    BY <2>1, InitMessages, FS_EmptySet DEF SessionInv
<1>2. SessionInv => OneSessionPerThread
  BY DEF SessionInv, MessageInv, Left, OneSessionPerThread, Orphans, Mapping
<1> QED
  BY <1>1, <1>2, StepSessions, PTL DEF Spec

-----------------------------------------------------------------------------
(* Connections and the lock.                                                *)

AtTheLock == {"locking", "find", "create", "map"}

LockInv ==
    /\ Shaped
    /\ conns = {h \in Handlers : pc[h] \in AtTheLock}
    /\ lock # None => pc[lock] \in {"find", "create", "map"}

\* A step of one handler that moves it to or from the lock.
LEMMA LockStep ==
  ASSUME LockInv, Shaped', NEW h \in Handlers, \A i \in Handlers : i # h => pc'[i] = pc[i],
         \/ pc[h] \in AtTheLock /\ pc'[h] \in AtTheLock /\ conns' = conns
         \/ pc[h] \notin AtTheLock /\ pc'[h] \notin AtTheLock /\ conns' = conns
         \/ pc'[h] \in AtTheLock /\ conns' = conns \cup {h}
         \/ pc'[h] \notin AtTheLock /\ conns' = conns \ {h},
         \/ lock' = lock /\ (lock = h => pc'[h] \in {"find", "create", "map"})
         \/ lock' = h /\ pc'[h] \in {"find", "create", "map"}
         \/ lock' = None
  PROVE  LockInv'
<1>1. conns' = {i \in Handlers : pc'[i] \in AtTheLock}
  BY DEF LockInv, Shaped, TypeOK
<1>2. lock' # None => pc'[lock'] \in {"find", "create", "map"}
  BY DEF LockInv, Shaped, TypeOK
<1> QED
  BY <1>1, <1>2 DEF LockInv

LEMMA StepLock == LockInv /\ [Next]_vars => LockInv'
<1> SUFFICES ASSUME LockInv, [Next]_vars PROVE LockInv'
  OBVIOUS
<1>0. Shaped /\ Shaped'
  BY StepShaped DEF LockInv
<1> USE DEF AtTheLock, At, Goto
<1>1. ASSUME NEW h \in Handlers, NEW k \in Keys, Deliver(h, k) PROVE LockInv'
  <2>1. /\ pc[h] = "idle" /\ pc'[h] \in {"idle", "received"} /\ UNCHANGED <<lock, conns>>
        /\ \A i \in Handlers : i # h => pc'[i] = pc[i]
    BY <1>0, <1>1 DEF Deliver, Shaped, TypeOK
  <2>2. lock # h
    BY <2>1, NoneAssumption DEF LockInv
  <2> QED
    BY <1>0, <2>1, <2>2, LockStep
<1>2. ASSUME NEW h \in Handlers, ConnectForLock(h) PROVE LockInv'
  <2>1. /\ pc[h] = "received" /\ pc'[h] = "locking" /\ lock' = lock /\ conns' = conns \cup {h}
        /\ \A i \in Handlers : i # h => pc'[i] = pc[i]
    BY <1>0, <1>2 DEF ConnectForLock, Shaped, TypeOK
  <2>2. lock # h
    BY <2>1, NoneAssumption DEF LockInv
  <2> QED
    BY <1>0, <2>1, <2>2, LockStep
<1>3. ASSUME NEW h \in Handlers, Lock(h) PROVE LockInv'
  <2>1. /\ pc[h] = "locking" /\ pc'[h] = "find" /\ lock' = h /\ conns' = conns
        /\ \A i \in Handlers : i # h => pc'[i] = pc[i]
    BY <1>0, <1>3 DEF Lock, Shaped, TypeOK
  <2> QED
    BY <1>0, <2>1, LockStep
<1>4. ASSUME NEW h \in Handlers, FindThread(h) \/ CreateSession(h) \/ CreateThread(h) PROVE LockInv'
  <2>1. pc[h] \in {"find", "create", "map"} /\ \A i \in Handlers : i # h => pc'[i] = pc[i]
    BY <1>0, <1>4 DEF FindThread, CreateSession, CreateThread, GoOnWith, Shaped, TypeOK
  <2>2. \/ pc'[h] \in {"create", "map"} /\ UNCHANGED <<lock, conns>>
        \/ pc'[h] = "route" /\ lock' = None /\ conns' = conns \ {h}
    BY <1>0, <1>4 DEF FindThread, CreateSession, CreateThread, GoOnWith, Unlock, Shaped, TypeOK
  <2> QED
    BY <1>0, <2>1, <2>2, LockStep
<1>5. ASSUME NEW h \in Handlers, Answer(h) \/ Reject(h) PROVE LockInv'
  <2>1. pc[h] \notin AtTheLock /\ UNCHANGED <<lock, conns>>
    BY <1>5 DEF Answer, RecordIgnored, UnarchiveSession, ReadMissed, RecordRecovery, Enqueue,
                EnqueueRefused, MarkProcessed, Reject, FoundArchived, Enqueueing
  <2>2. pc'[h] \notin AtTheLock /\ \A i \in Handlers : i # h => pc'[i] = pc[i]
    BY <1>0, <1>5 DEF Answer, RecordIgnored, UnarchiveSession, ReadMissed, RecordRecovery, Enqueue,
                EnqueueRefused, MarkProcessed, Reject, Reset, Shaped, TypeOK
  <2>3. lock # h
    BY <2>1, NoneAssumption DEF LockInv
  <2> QED
    BY <1>0, <2>1, <2>2, <2>3, LockStep
<1>6. ASSUME NEW h \in Handlers, Throw(h) PROVE LockInv'
  <2>1. /\ pc'[h] = "idle" /\ conns' = conns \ {h} /\ \A i \in Handlers : i # h => pc'[i] = pc[i]
        /\ lock' = None \/ (lock' = lock /\ lock # h)
    BY <1>0, <1>6 DEF Throw, Reset, Shaped, TypeOK
  <2> QED
    BY <1>0, <2>1, LockStep
<1>7. CASE ArchiveOrRestore \/ UNCHANGED vars
  BY <1>0, <1>7 DEF ArchiveOrRestore, vars, LockInv
<1> QED
  BY <1>1, <1>2, <1>3, <1>4, <1>5, <1>6, <1>7 DEF Next, GetSession

\* No connection of the pool and no lock is left behind, whatever throws; and with a
\* connection more than requests, the request that has the lock can always go on.
THEOREM LocksAreLetGo == Spec => []LockHolderGoesOn
<1>1. Init => LockInv
  BY InitShaped, NoneAssumption DEF Init, LockInv, AtTheLock
<1>2. LockInv => LockHolderGoesOn
  <2> SUFFICES ASSUME LockInv, Cardinality(Handlers) < PoolSize PROVE Query
    BY DEF LockInv, LockHolderGoesOn, AtTheLock
  <2>1. conns \in SUBSET Handlers /\ IsFiniteSet(Handlers)
    BY BoundsAssumption DEF LockInv
  <2>2. Cardinality(conns) <= Cardinality(Handlers) /\ Cardinality(conns) \in Nat
        /\ Cardinality(Handlers) \in Nat
    BY <2>1, FS_Subset, FS_CardinalityType
  <2> QED
    BY <2>2, BoundsAssumption DEF Query
<1> QED
  BY <1>1, <1>2, StepLock, PTL DEF Spec

-----------------------------------------------------------------------------
(* The requests and tables are a ThreadInbox.                               *)

Fates == [k \in Keys |-> Fate(k)]
Entries == {[key |-> m.key, kind |-> m.kind, session |-> m.session] : m \in messages}

\* Only the session of the thread is ever archived.
InboxInv == MessageInv /\ archived \subseteq {thread}

LEMMA StepInbox == InboxInv /\ [Next]_vars => InboxInv'
<1> SUFFICES ASSUME InboxInv, [Next]_vars PROVE InboxInv'
  OBVIOUS
<1>0. MessageInv /\ MessageInv'
  BY StepMessages DEF InboxInv
<1>1. ASSUME NEW h \in Handlers, CreateThread(h) PROVE archived' \subseteq {thread'}
  <2>1. thread = None /\ UNCHANGED archived
    BY <1>0, <1>1 DEF CreateThread, At, MessageInv, Shaped, HandlersOK, HandlerOK
  <2>2. None \notin archived
    BY <1>0, NoneAssumption DEF MessageInv, Shaped, TypeOK
  <2> QED
    BY <2>1, <2>2 DEF InboxInv
<1>2. (\E h \in Handlers : CreateThread(h)) \/ (thread' = thread /\ archived' \subseteq archived \cup {thread})
  BY DEF Next, vars, Deliver, Reject, Lock, GetSession, ConnectForLock, FindThread, CreateSession,
         Answer, RecordIgnored, UnarchiveSession, ReadMissed, RecordRecovery, Enqueue, EnqueueRefused,
         MarkProcessed, Throw, ArchiveOrRestore
<1> QED
  BY <1>0, <1>1, <1>2 DEF InboxInv

LEMMA OneFate ==
  ASSUME NEW k \in Keys, NEW f, Fate(k)' = f, \A j \in Keys : j # k => Fate(j)' = Fate(j)
  PROVE  Fates' = [Fates EXCEPT ![k] = f]
  BY DEF Fates

LEMMA SameFates ==
  ASSUME UNCHANGED <<delivery, messages>>
  PROVE  Fates' = Fates /\ Entries' = Entries
  BY DEF Fates, Fate, Answered, Entries

\* A delivery that comes in for the first time, or after it was rejected, is open.
LEMMA DeliverIsTake ==
  ASSUME InboxInv, NEW h \in Handlers, NEW k \in Keys, Deliver(h, k), Retakable(k)
  PROVE  Inbox!Take(k)
<1>1. /\ delivery' = [delivery EXCEPT ![k] = "received"]
      /\ UNCHANGED <<messages, thread, archived>>
  BY DEF Deliver
<1>2. ~Answered(k) /\ delivery[k] \in {"none", "failed"}
  BY DEF InboxInv, MessageInv, ProcessedIsAnswered, Answered, Retakable
<1>3. /\ delivery'[k] = "received" /\ \A j \in Keys : j # k => delivery'[j] = delivery[j]
  BY <1>1 DEF InboxInv, MessageInv, Shaped, TypeOK
<1>4. Fate(k) \in {"new", "refused"}
  BY <1>2 DEF Fate
<1>5. Fate(k)' = "open" /\ \A j \in Keys : j # k => Fate(j)' = Fate(j)
  BY <1>1, <1>2, <1>3 DEF Fate, Answered
<1>6. Fates' = [Fates EXCEPT ![k] = "open"]
  BY <1>5, OneFate
<1> QED
  BY <1>1, <1>4, <1>6 DEF Inbox!Take, Inbox!Becomes, Fates

\* The handler of a delivery writes its row: the sender is told to come back, or not.
LEMMA RowIsWritten ==
  ASSUME InboxInv, NEW h \in Handlers, Reject(h) \/ MarkProcessed(h)
  PROVE  Inbox!Refuse(key[h]) \/ Inbox!Answer(key[h])
<1> PICK k : k = key[h]
  OBVIOUS
<1>1. /\ k \in Keys /\ delivery[k] = "received" /\ UNCHANGED <<messages, thread, archived>>
      /\ pc[h] \in {"received", "finish"}
      /\ delivery' = [delivery EXCEPT ![k] = IF pc[h] = "finish" THEN "processed" ELSE "failed"]
  BY BusyHandler DEF Reject, MarkProcessed, At, InboxInv, MessageInv
<1>2. /\ delivery'[k] = (IF pc[h] = "finish" THEN "processed" ELSE "failed")
      /\ \A j \in Keys : j # k => delivery'[j] = delivery[j]
  BY <1>1 DEF InboxInv, MessageInv, Shaped, TypeOK
<1>3. Answered(k) <=> pc[h] = "finish"
  BY DEF InboxInv, MessageInv, Left, Answered
<1>4. Fate(k) = IF pc[h] = "finish" THEN "left" ELSE "open"
  BY <1>1, <1>3 DEF Fate
<1>5. /\ Fate(k)' = (IF pc[h] = "finish" THEN "answered" ELSE "refused")
      /\ \A j \in Keys : j # k => Fate(j)' = Fate(j)
  <2>1. \A j \in Keys : Answered(j)' = Answered(j)
    BY <1>1 DEF Answered
  <2>2. Fate(k)' = (IF pc[h] = "finish" THEN "answered" ELSE "refused")
    <3>1. CASE pc[h] = "finish"
      <4>1. delivery'[k] = "processed"
        BY <1>2, <3>1
      <4> QED
        BY <3>1, <4>1 DEF Fate
    <3>2. CASE pc[h] # "finish"
      <4>1. delivery'[k] = "failed"
        BY <1>2, <3>2
      <4> QED
        BY <3>2, <4>1 DEF Fate
    <3> QED
      BY <3>1, <3>2
  <2>3. \A j \in Keys : j # k => Fate(j)' = Fate(j)
    BY <1>2, <2>1 DEF Fate
  <2> QED
    BY <2>2, <2>3
<1>6. Fates' = [Fates EXCEPT ![k] = IF pc[h] = "finish" THEN "answered" ELSE "refused"]
  BY <1>1, <1>5, OneFate
<1>7. Inbox!Refuse(k) \/ Inbox!Answer(k)
  BY <1>1, <1>4, <1>6 DEF Inbox!Refuse, Inbox!Answer, Inbox!Becomes, Fates
<1> QED
  BY <1>7

\* A handler leaves its entry in the session of the thread.
LEMMA RecordIsLeave ==
  ASSUME InboxInv, NEW h \in Handlers, NEW kind \in {"work", "ignored", "note"}, NEW included,
         Records(h, Entry(h, kind, included)), kind = "work" => thread \notin archived
  PROVE  Inbox!Leave(key[h], kind)
<1> PICK k : k = key[h]
  OBVIOUS
<1> PICK m : m = Entry(h, kind, included)
  OBVIOUS
<1>1. m.key = k /\ m.kind = kind /\ m.session = session[h]
  BY DEF Entry
<1>2. /\ messages' = messages \cup {m} /\ UNCHANGED <<delivery, thread, archived>>
      /\ pc[h] \in Mapped \ {"finish"}
  BY DEF Records
<1>3. /\ k \in Keys /\ delivery[k] = "received" /\ session[h] = thread /\ thread # None
  BY <1>2, BusyHandler DEF Mapped, InboxInv, MessageInv, Shaped, HandlersOK, HandlerOK
<1>4. ~Answered(k)
  BY <1>2 DEF InboxInv, MessageInv, Left, Answered
<1>5. Answered(k)' /\ \A j \in Keys : j # k => Answered(j)' = Answered(j)
  BY <1>1, <1>2 DEF Answered
<1>6. Fate(k) = "open" /\ Fate(k)' = "left" /\ \A j \in Keys : j # k => Fate(j)' = Fate(j)
  BY <1>2, <1>3, <1>4, <1>5 DEF Fate
<1>7. Fates' = [Fates EXCEPT ![k] = "left"]
  BY <1>3, <1>6, OneFate
<1>8. Entries' = Entries \cup {[key |-> k, kind |-> kind, session |-> thread]}
  BY <1>1, <1>2, <1>3 DEF Entries
<1>9. Fates[k] = "open"
  BY <1>3, <1>6 DEF Fates
<1> QED
  BY <1>2, <1>3, <1>7, <1>8, <1>9 DEF Inbox!Leave, Inbox!Becomes, Fates, Entries

LEMMA InboxStep == InboxInv /\ InboxInv' /\ [Next]_vars => [Inbox!Next]_Inbox!vars
<1> SUFFICES ASSUME InboxInv, InboxInv', [Next]_vars PROVE [Inbox!Next]_Inbox!vars
  OBVIOUS
<1>0. Shaped
  BY DEF InboxInv, MessageInv
<1>1. CASE UNCHANGED <<delivery, messages, thread, archived>>
  BY <1>1, SameFates DEF Inbox!vars, Fates, Entries
<1>2. ASSUME NEW h \in Handlers, NEW k \in Keys, Deliver(h, k) PROVE [Inbox!Next]_Inbox!vars
  <2>1. CASE Retakable(k)
    BY <1>2, <2>1, DeliverIsTake DEF Inbox!Next
  <2>2. CASE ~Retakable(k)
    BY <1>1, <1>2, <2>2 DEF Deliver
  <2> QED
    BY <2>1, <2>2
<1>3. ASSUME NEW h \in Handlers, Reject(h) \/ MarkProcessed(h) PROVE [Inbox!Next]_Inbox!vars
  <2>1. key[h] \in Keys
    BY <1>0, <1>3, BusyHandler DEF Reject, MarkProcessed, At
  <2> QED
    BY <1>3, <2>1, RowIsWritten DEF Inbox!Next
<1>4. ASSUME NEW h \in Handlers, RecordIgnored(h) \/ RecordRecovery(h) \/ Enqueue(h)
      PROVE  [Inbox!Next]_Inbox!vars
  <2>1. PICK kind \in {"work", "ignored", "note"}, included \in SUBSET Keys :
          /\ Records(h, Entry(h, kind, included))
          /\ kind = "work" => session[h] \notin archived
    <3>1. CASE RecordIgnored(h)
      BY <3>1 DEF RecordIgnored, FoundArchived, Records, Mapped, At
    <3>2. CASE RecordRecovery(h)
      BY <3>2 DEF RecordRecovery, Records, Mapped, At
    <3>3. CASE Enqueue(h)
      BY <1>0, <3>3 DEF Enqueue, Enqueueing, Records, Mapped, At, Shaped, TypeOK
    <3> QED
      BY <1>4, <3>1, <3>2, <3>3
  <2>2. session[h] = thread /\ key[h] \in Keys
    BY <1>0, <2>1, BusyHandler DEF Records, Mapped, Shaped, HandlersOK, HandlerOK
  <2>3. Inbox!Leave(key[h], kind)
    BY <2>1, <2>2, RecordIsLeave
  <2> QED
    BY <2>2, <2>3 DEF Inbox!Next
<1>5. ASSUME NEW h \in Handlers, CreateThread(h) PROVE [Inbox!Next]_Inbox!vars
  <2>1. /\ thread = None /\ thread' = session[h] /\ session[h] \in Sessions
        /\ UNCHANGED <<delivery, messages, archived>>
    BY <1>0, <1>5, BusyHandler DEF CreateThread, At, Shaped, TypeOK, HandlersOK, HandlerOK
  <2>2. None \notin archived /\ archived = {}
    BY <1>0, <2>1, NoneAssumption DEF InboxInv, Shaped, TypeOK
  <2>3. Inbox!Open(session[h])
    BY <2>1, <2>2, SameFates DEF Inbox!Open, Fates, Entries
  <2> QED
    BY <2>1, <2>3 DEF Inbox!Next
<1>6. CASE ArchiveOrRestore \/ \E h \in Handlers : UnarchiveSession(h)
  <2>1. UNCHANGED <<delivery, messages, thread>>
    BY <1>6 DEF ArchiveOrRestore, UnarchiveSession
  <2>2. thread = None => archived' = archived
    BY <1>0, <1>6, NoneAssumption
       DEF ArchiveOrRestore, UnarchiveSession, FoundArchived, At, Shaped, HandlersOK, HandlerOK, Mapped
  <2>3. CASE (thread \in archived) = (thread \in archived')
    BY <2>1, <2>3, SameFates DEF Inbox!vars, Fates, Entries
  <2>4. CASE thread # None /\ (thread \in archived') = ~(thread \in archived)
    BY <2>1, <2>4, SameFates DEF Inbox!ShutOrReopen, Inbox!Next, Fates, Entries
  <2> QED
    BY <2>2, <2>3, <2>4
<1>7. ASSUME NEW h \in Handlers,
             \/ Lock(h) \/ ConnectForLock(h) \/ FindThread(h) \/ CreateSession(h)
             \/ ReadMissed(h) \/ EnqueueRefused(h) \/ Throw(h)
      PROVE  [Inbox!Next]_Inbox!vars
  BY <1>1, <1>7
     DEF Lock, ConnectForLock, FindThread, CreateSession, ReadMissed, EnqueueRefused, Throw
<1> QED
  BY <1>1, <1>2, <1>3, <1>4, <1>5, <1>6, <1>7 DEF Next, GetSession, Answer, vars

\* docs/integrations.md:302: duplicate deliveries make no new sessions or messages.  The
\* requests of any number of processes implement the inbox of the thread.
THEOREM InboxIsImplemented == Spec => ImplementsThreadInbox
<1>1. Init => Inbox!Init
  BY DEF Init, Inbox!Init, Fate
<1>2. Init => InboxInv
  BY InitMessages DEF Init, InboxInv
<1> QED
  BY <1>1, <1>2, StepInbox, InboxStep, PTL DEF Spec, ImplementsThreadInbox, Inbox!Spec
=============================================================================
