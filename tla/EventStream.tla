------------------------------ MODULE EventStream ------------------------------
(***************************************************************************)
(* The event log and a server-sent event stream over it: the stream        *)
(* subscribes, replays the log page by page from the client's cursor while *)
(* it buffers what is published meanwhile, then writes the buffer and goes *)
(* on with live events.  An event reaches the process of the stream twice, *)
(* or once: by the reply to its own INSERT, if the process appended it,    *)
(* and by the NOTIFY that the listener of every process hears.             *)
(*                                                                         *)
(* A stream of one session identifies an event by its sequence, the stream *)
(* of all sessions by its id: CommitsInOrder tells them apart.  The stream *)
(* compares numbers and drops what is not above its cursor, so an event    *)
(* that a later one overtakes is lost; two variables keep the history of   *)
(* that.  Not covered: the visibility filter, keep-alives, the compaction  *)
(* of deltas, and a listener whose read of a notified event fails.         *)
(*                                                                         *)
(* A definition whose name ends in _Mutant is a plausible defect of the    *)
(* one that follows it, and is not used.                                   *)
(***************************************************************************)
EXTENDS Naturals, FiniteSets, Sequences, SequencesExt, FiniteSetsExt

CONSTANTS
  LastEvent,        \* events are numbered 1..LastEvent, the bound on the log
  Local,            \* the events that the process of the stream appends
  CommitsInOrder,   \* FALSE if an event may commit after a higher numbered one
  PageSize,         \* replayBatchSize
  HighWater         \* sseWriteQueueHighWater

Events == 1..LastEvent
Nothing == 0

ASSUME StreamAssumption ==
  /\ LastEvent \in Nat
  /\ Local \subseteq Events
  /\ CommitsInOrder \in BOOLEAN
  /\ PageSize \in Nat \ {0}
  /\ HighWater \in Nat \ {0}

VARIABLES
  log,        \* the events in the order of their commits
  heard,      \* how many of them the listener has published
  replies,    \* local events whose INSERT is not answered yet
  phase,      \* what the main loop of the connection does
  cursor,     \* the highest event the stream took
  after,      \* where the page was read from
  pageEnd,    \* the last event of the page
  pageFull,   \* hasMore
  rest,       \* events the main loop has not looked at: of the page, or buffered
  buffer,     \* liveBuffer
  inHand,     \* the event the main loop found to be new
  liveQueue,  \* emitQueue: live events not looked at
  liveInHand, \* the event the live emitter found to be new
  writes,     \* writeQueue: who waits for the write of which event
  received,   \* the events the client was sent, in that order
  overtaken,  \* history: the events that a later one went ahead of
  crossed     \* history: the live emitter took an event before the main loop was done

logVars == <<log, heard, replies>>
mainVars == <<after, pageEnd, pageFull, rest, inHand>>
liveVars == <<liveQueue, liveInHand>>
connectionVars == <<phase, cursor, mainVars, buffer, liveVars, writes>>
historyVars == <<overtaken, crossed>>
vars == <<logVars, connectionVars, received, historyVars>>

Committed == ToSet(log)

seen == ToSet(received)

\* The client comes back with the highest event it has seen.
LastSeen == Max(seen \cup {0})

Init ==
  /\ log = <<>> /\ heard = 0 /\ replies = {}
  /\ phase = "closed"
  /\ cursor = 0
  /\ after = 0 /\ pageEnd = 0 /\ pageFull = FALSE
  /\ rest = <<>> /\ inHand = Nothing
  /\ buffer = <<>>
  /\ liveQueue = <<>> /\ liveInHand = Nothing
  /\ writes = <<>>
  /\ received = <<>>
  /\ overtaken = {} /\ crossed = FALSE

-----------------------------------------------------------------------------
(* The connection.                                                          *)

\* The stream subscribes and starts its replay in one turn of the event loop.
\* What the cursor has not passed gets another chance.
Connect ==
  /\ phase = "closed"
  /\ phase' = "fetch"
  /\ cursor' = LastSeen
  /\ after' = LastSeen
  /\ overtaken' = {e \in overtaken : e <= LastSeen}
  /\ crossed' = FALSE
  /\ UNCHANGED <<logVars, pageEnd, pageFull, rest, inHand, buffer, liveVars, writes, received>>

\* Those of S that come before e are overtaken by it.
Overtakes(e, S) == overtaken' = overtaken \cup {d \in S : d < e}

\* cleanup: what was not written is gone.
Cleanup ==
  /\ phase' = "closed"
  /\ cursor' = 0
  /\ after' = 0 /\ pageEnd' = 0 /\ pageFull' = FALSE
  /\ rest' = <<>> /\ inHand' = Nothing
  /\ buffer' = <<>>
  /\ liveQueue' = <<>> /\ liveInHand' = Nothing
  /\ writes' = <<>>

\* The client goes away, or a call fails.
Disconnect ==
  /\ phase # "closed"
  /\ Cleanup
  /\ UNCHANGED <<logVars, received, historyVars>>

\* The client takes the first event that was written.
Receive ==
  /\ writes # <<>>
  /\ writes' = Tail(writes)
  /\ received' = Append(received, Head(writes).event)
  /\ UNCHANGED <<logVars, phase, cursor, mainVars, buffer, liveVars, historyVars>>

-----------------------------------------------------------------------------
(* Publication.                                                             *)

Replaying == phase \in {"fetch", "replay"}

BufferFull == Len(buffer) >= HighWater

\* writeEvent: buffered during the replay, emitted after it.
WriteEvent(e) ==
  \/ /\ phase = "closed"
     /\ UNCHANGED connectionVars
  \/ /\ phase # "closed" /\ Replaying
     /\ BufferFull
     /\ Cleanup
  \/ /\ phase # "closed" /\ Replaying
     /\ ~BufferFull
     /\ buffer' = Append(buffer, e)
     /\ UNCHANGED <<phase, cursor, mainVars, liveVars, writes>>
  \/ /\ phase # "closed" /\ ~Replaying
     /\ liveQueue' = Append(liveQueue, e)
     /\ UNCHANGED <<phase, cursor, mainVars, buffer, liveInHand, writes>>

\* The events that some subscriber of this process was told of.
Published == {log[i] : i \in 1..heard} \cup ((Local \cap Committed) \ replies)

\* An event is published, and overtakes those that committed and were not.
Publish(e) ==
  /\ WriteEvent(e)
  /\ Overtakes(e, Committed \ Published)
  /\ UNCHANGED crossed

\* An event commits.  The counter row of a session is locked until the commit,
\* so its events commit in order; ids of several sessions do not.
AppendEvent(e) ==
  /\ e \notin Committed
  /\ CommitsInOrder => \A d \in Events : d < e => d \in Committed
  /\ log' = Append(log, e)
  /\ replies' = IF e \in Local THEN replies \cup {e} ELSE replies
  /\ overtaken' = IF \E d \in Committed : d > e THEN overtaken \cup {e} ELSE overtaken
  /\ UNCHANGED <<heard, connectionVars, received, crossed>>

\* EventService.append publishes when its INSERT is answered.
Reply(e) ==
  /\ e \in replies
  /\ replies' = replies \ {e}
  /\ Publish(e)
  /\ UNCHANGED <<log, heard, received>>

\* Notifications arrive in the order of the commits; the listener reads one
\* event after the other and publishes it.
Notify ==
  /\ heard < Len(log)
  /\ heard' = heard + 1
  /\ Publish(log[heard + 1])
  /\ UNCHANGED <<log, replies, received>>

-----------------------------------------------------------------------------
(* Emission: an event is compared with the cursor, prepared, and written.   *)
(* Each of the two emitters waits for its write; they share the cursor.     *)

IsNew_Mutant(e) == e >= cursor
IsNew(e) == e > cursor

Waiting(emitter) == \E i \in DOMAIN writes : writes[i].by = emitter

\* Each emitter has one write in the queue, so only keep-alives ever fill it.
Write(emitter, e) ==
  /\ cursor' = e
  /\ writes' = Append(writes, [by |-> emitter, event |-> e])

MainIdle == inHand = Nothing /\ ~Waiting("main")

\* The next page of the log after event n, in the order of the numbers.
PageAfter(n) ==
  LET following == {e \in Committed : e > n}
      nth(i)    == CHOOSE e \in following : Cardinality({d \in following : d <= e}) = i
  IN  [i \in 1..Min({PageSize, Cardinality(following)}) |-> nth(i)]

ReadPage ==
  LET page == PageAfter(after) IN
  /\ phase = "fetch"
  /\ phase' = "replay"
  /\ rest' = page
  /\ pageEnd' = IF page = <<>> THEN after ELSE Last(page)
  /\ pageFull' = (Len(page) = PageSize)
  /\ UNCHANGED <<logVars, cursor, after, inHand, buffer, liveVars, writes, received, historyVars>>

\* Both loops of the main emitter, over a page and over the buffer.
LookAtNext ==
  /\ phase \in {"replay", "live"}
  /\ MainIdle
  /\ rest # <<>>
  /\ rest' = Tail(rest)
  /\ inHand' = IF IsNew(Head(rest)) THEN Head(rest) ELSE Nothing
  /\ UNCHANGED <<logVars, phase, cursor, after, pageEnd, pageFull, buffer, liveVars, writes, received,
                 historyVars>>

EmitNext ==
  /\ inHand # Nothing
  /\ Write("main", inHand)
  /\ inHand' = Nothing
  /\ UNCHANGED <<logVars, phase, after, pageEnd, pageFull, rest, buffer, liveVars, received, historyVars>>

GoesOn_Mutant == FALSE
GoesOn == pageFull /\ pageEnd > after

\* The end of a page: the next one is read, or the buffer is emitted while
\* live events already go their own way.
EndPage ==
  /\ phase = "replay"
  /\ MainIdle
  /\ rest = <<>>
  /\ cursor' = Max({cursor, pageEnd})
  /\ IF GoesOn THEN /\ phase' = "fetch"
                    /\ after' = pageEnd
                    /\ UNCHANGED <<rest, buffer>>
               ELSE /\ phase' = "live"
                    /\ rest' = buffer
                    /\ buffer' = <<>>
                    /\ UNCHANGED after
  /\ UNCHANGED <<logVars, pageEnd, pageFull, inHand, liveVars, writes, received, historyVars>>

\* What the main loop has not emitted.
Behind == (ToSet(rest) \cup {inHand}) \ {Nothing}

\* Nothing makes the live emitter wait for the buffered events.
LookAtLive ==
  /\ liveQueue # <<>>
  /\ liveInHand = Nothing /\ ~Waiting("live")
  /\ liveQueue' = Tail(liveQueue)
  /\ IF IsNew(Head(liveQueue))
     THEN /\ liveInHand' = Head(liveQueue)
          /\ Overtakes(Head(liveQueue), Behind)
          /\ crossed' = (crossed \/ Behind # {})
     ELSE liveInHand' = Nothing /\ UNCHANGED historyVars
  /\ UNCHANGED <<logVars, phase, cursor, mainVars, buffer, writes, received>>

EmitLive ==
  /\ liveInHand # Nothing
  /\ Write("live", liveInHand)
  /\ liveInHand' = Nothing
  /\ UNCHANGED <<logVars, phase, mainVars, buffer, liveQueue, received, historyVars>>

Next ==
  \/ Connect
  \/ Disconnect
  \/ Receive
  \/ \E e \in Events : AppendEvent(e) \/ Reply(e)
  \/ Notify
  \/ ReadPage
  \/ LookAtNext
  \/ EmitNext
  \/ EndPage
  \/ LookAtLive
  \/ EmitLive

Spec == Init /\ [][Next]_vars

-----------------------------------------------------------------------------
\* Every variable has its type, and the buffer its limit.
TypeOK ==
  /\ log \in Seq(Events)
  /\ heard \in 0..Len(log)
  /\ replies \subseteq Local
  /\ phase \in {"closed", "fetch", "replay", "live"}
  /\ {cursor, after, pageEnd, inHand, liveInHand} \subseteq Events \cup {0}
  /\ pageFull \in BOOLEAN
  /\ {rest, buffer, liveQueue} \subseteq Seq(Events)
  /\ writes \in Seq([by : {"main", "live"}, event : Events])
  /\ Len(buffer) <= HighWater
  /\ received \in Seq(Events)
  /\ overtaken \subseteq Events
  /\ crossed \in BOOLEAN

\* A live stream that was told of everything, and has nothing in hand.
Quiet ==
  /\ phase = "live" /\ heard = Len(log)
  /\ rest = <<>> /\ inHand = Nothing
  /\ liveQueue = <<>> /\ liveInHand = Nothing
  /\ writes = <<>>

\* An event that the client will not get, because it resumes after it or its stream is
\* quiet, was overtaken: it committed after a later one, its process heard of it after
\* its own later one (EventService.append), or the live emitter took a later one while
\* it was still buffered (emitEvent).  Pages, overflows, reconnects and the hand-over
\* from the replay to the buffer lose none.
MissingWereOvertaken ==
  \A e \in Committed \ seen : e < LastSeen \/ Quiet => e \in overtaken

\* What is being written comes after what the client has, each event once and in
\* order, unless the live emitter went ahead of the main loop in this connection: no
\* page, no event that is heard twice and no reconnect repeats one.
RepeatedWereCrossed ==
  ~crossed =>
    \A i \in DOMAIN writes :
      writes[i].event > (IF i = 1 THEN LastSeen ELSE writes[i - 1].event)

\* test/unit/event-stream.test.ts: "without skipping or repeating events".
NothingSkipped == \A e \in Committed : e <= LastSeen => e \in seen

-----------------------------------------------------------------------------
(* Liveness.  The listener hears, calls are answered, the loops go on, the   *)
(* client reads and comes back.                                              *)

Fairness ==
  /\ WF_vars(Connect) /\ WF_vars(Receive) /\ WF_vars(Notify)
  /\ \A e \in Events : WF_vars(Reply(e))
  /\ WF_vars(ReadPage) /\ WF_vars(LookAtNext) /\ WF_vars(EmitNext) /\ WF_vars(EndPage)
  /\ WF_vars(LookAtLive) /\ WF_vars(EmitLive)

\* The client is disconnected finitely often.
LiveSpec == Spec /\ Fairness /\ <>[][~Disconnect]_vars

\* Every event arrives, or a later one has arrived in its place.  Which ones may be
\* passed over like that is what MissingWereOvertaken says.
ArrivesOrIsPassed == \A e \in Events : e \in Committed ~> e \in seen \/ e < LastSeen

\* docs/testing-strategy.md: the stream receives appended events.
EventsArrive == \A e \in Events : e \in Committed ~> e \in seen
=============================================================================
