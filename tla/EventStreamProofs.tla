--------------------------- MODULE EventStreamProofs ---------------------------
(***************************************************************************)
(* Proofs about EventStream, for any number of events, pages and buffers of *)
(* any size: the shape of the state; then that the client only misses what  *)
(* was overtaken, and gets nothing twice unless the live emitter went ahead.*)
(***************************************************************************)
EXTENDS EventStream, FiniteSetTheorems, TLAPS

USE DEF logVars, mainVars, liveVars, connectionVars, historyVars, seen

-----------------------------------------------------------------------------
(* Finite sets of numbers: what Max and the pages of the log are made of.   *)

\* How many elements of S are up to e.
UpTo(S, e) == {d \in S : d <= e}
Rank(S, e) == Cardinality(UpTo(S, e))

\* The ranks of a finite set of numbers grow with the numbers.
LEMMA RankGrows ==
  ASSUME NEW S \in SUBSET Nat, IsFiniteSet(S)
  PROVE  /\ \A e \in S : Rank(S, e) \in 1..Cardinality(S)
         /\ \A d, e \in S : d < e => Rank(S, d) < Rank(S, e)
<1> DEFINE n == Cardinality(S)
<1>1. n \in Nat
  BY FS_CardinalityType
<1>2. ASSUME NEW e \in S PROVE IsFiniteSet(UpTo(S, e)) /\ Rank(S, e) \in 1..n
  <2>1. UpTo(S, e) \in SUBSET S /\ e \in UpTo(S, e)
    BY DEF UpTo
  <2>2. IsFiniteSet(UpTo(S, e)) /\ Cardinality(UpTo(S, e)) <= n
    BY <2>1, FS_Subset
  <2>3. Cardinality(UpTo(S, e)) \in Nat /\ Cardinality(UpTo(S, e)) # 0
    BY <2>1, <2>2, FS_CardinalityType, FS_EmptySet
  <2> QED
    BY <1>1, <2>2, <2>3 DEF Rank
<1>3. ASSUME NEW d \in S, NEW e \in S, d < e PROVE Rank(S, d) < Rank(S, e)
  <2>1. d \in Nat /\ e \in Nat /\ \A c \in S : c \in Nat
    OBVIOUS
  <2>2. \A c \in S : c <= d => c <= e
    BY <1>3, <2>1
  <2>3. UpTo(S, d) \subseteq UpTo(S, e)
    BY <2>2 DEF UpTo
  <2>4. e \in UpTo(S, e)
    BY <2>1 DEF UpTo
  <2>5. e \notin UpTo(S, d)
    BY <1>3, <2>1 DEF UpTo
  <2>6. Rank(S, d) <= Rank(S, e) /\ Rank(S, d) # Rank(S, e)
    BY <1>2, <2>3, <2>4, <2>5, FS_Subset DEF Rank
  <2>7. Rank(S, d) \in 1..n /\ Rank(S, e) \in 1..n
    BY <1>2
  <2> QED
    BY <1>1, <2>6, <2>7
<1> QED
  BY <1>2, <1>3

\* They are those from 1 to its size.
LEMMA RankExists ==
  ASSUME NEW S \in SUBSET Nat, IsFiniteSet(S), NEW i \in 1..Cardinality(S)
  PROVE  \E e \in S : Rank(S, e) = i
<1> DEFINE n == Cardinality(S)
           rank == [e \in S |-> Rank(S, e)]
<1>1. n \in Nat
  BY FS_CardinalityType
<1>2. rank \in Injection(S, 1..n)
  <2>1. rank \in [S -> 1..n]
    BY RankGrows
  <2>2. ASSUME NEW d \in S, NEW e \in S, rank[d] = rank[e] PROVE d = e
    <3>1. d \in Nat /\ e \in Nat /\ rank[d] \in Nat
      BY <1>1, <2>1
    <3>2. ~(d < e) /\ ~(e < d)
      BY <2>2, <3>1, RankGrows
    <3> QED
      BY <3>1, <3>2
  <2> QED
    BY <2>1, <2>2 DEF Injection, IsInjective
<1>3. IsFiniteSet(1..n) /\ Cardinality(1..n) = n
  BY <1>1, FS_Interval
<1>4. rank \in Surjection(S, 1..n)
  BY <1>2, <1>3, FS_Injection
<1> QED
  BY <1>4 DEF Surjection

\* Max is defined on them.
LEMMA MaxExists ==
  ASSUME NEW S \in SUBSET Nat, IsFiniteSet(S), S # {}
  PROVE  Max(S) \in S /\ \A e \in S : e <= Max(S)
<1>1. Cardinality(S) \in Nat /\ Cardinality(S) # 0
  BY FS_CardinalityType, FS_EmptySet
<1>2. PICK e \in S : Rank(S, e) = Cardinality(S)
  BY <1>1, RankExists
<1>3. UpTo(S, e) = S
  BY <1>2, FS_Subset DEF Rank, UpTo
<1>4. \A d \in S : e >= d
  BY <1>3 DEF UpTo
<1> QED
  BY <1>2, <1>4 DEF Max

LEMMA MaxOfTwo == ASSUME NEW a \in Nat, NEW b \in Nat PROVE Max({a, b}) = IF a < b THEN b ELSE a
  BY DEF Max

LEMMA MinOfTwo == ASSUME NEW a \in Nat, NEW b \in Nat PROVE Min({a, b}) = IF b < a THEN b ELSE a
  BY DEF Min

-----------------------------------------------------------------------------
(* Shape.                                                                   *)

LEMMA CommittedIsFinite ==
  ASSUME TypeOK
  PROVE  Committed \in SUBSET Events /\ IsFiniteSet(Committed) /\ Events \in SUBSET Nat
<1>1. Committed \in SUBSET Events
  BY DEF TypeOK, Committed, ToSet
<1>2. IsFiniteSet(Events)
  BY StreamAssumption, FS_Interval DEF Events
<1>3. Events \in SUBSET Nat
  BY DEF Events
<1> QED
  BY <1>1, <1>2, <1>3, FS_Subset

\* A page has events of the log after n, whichever they are.
LEMMA PageTyped ==
  ASSUME TypeOK, NEW n \in Nat
  PROVE  /\ PageAfter(n) \in Seq(Events)
         /\ Len(PageAfter(n)) <= PageSize
<1> DEFINE following == {e \in Committed : e > n}
           nth(i) == CHOOSE e \in following : Cardinality({d \in following : d <= e}) = i
           m == Min({PageSize, Cardinality(following)})
<1>1. following \in SUBSET Nat /\ following \subseteq Events /\ IsFiniteSet(following)
  BY CommittedIsFinite, FS_Subset
<1>2. Cardinality(following) \in Nat
  BY <1>1, FS_CardinalityType
<1>3. m \in Nat /\ m <= PageSize /\ m <= Cardinality(following)
  BY <1>2, StreamAssumption, MinOfTwo
<1>4. ASSUME NEW i \in 1..m PROVE nth(i) \in Events
  <2>1. i \in 1..Cardinality(following)
    BY <1>2, <1>3
  <2>2. \E e \in following : Cardinality({d \in following : d <= e}) = i
    BY <1>1, <2>1, RankExists DEF Rank, UpTo
  <2> QED
    BY <1>1, <2>2
<1>5. PageAfter(n) = [i \in 1..m |-> nth(i)]
  BY DEF PageAfter
<1> HIDE DEF nth, m
<1> QED
  BY <1>3, <1>4, <1>5

LEMMA LastSeenTyped == ASSUME TypeOK PROVE LastSeen \in Events \cup {0}
<1>1. seen \cup {0} \in SUBSET Nat /\ seen \subseteq Events
  <2>1. seen \subseteq Events
    BY DEF TypeOK, ToSet
  <2> QED
    BY <2>1, CommittedIsFinite
<1>2. IsFiniteSet(Events)
  BY StreamAssumption, FS_Interval DEF Events
<1>3. IsFiniteSet(seen \cup {0})
  BY <1>1, <1>2, FS_Subset, FS_AddElement
<1> QED
  BY <1>1, <1>3, MaxExists DEF LastSeen

LEMMA EmptyTyped ==
  /\ <<>> \in Seq(Events)
  /\ <<>> \in Seq([by : {"main", "live"}, event : Events])
  /\ Len(<<>>) <= HighWater
  /\ 0 \in 0..Len(<<>>)
  BY StreamAssumption

LEMMA CleanupTypes ==
  ASSUME TypeOK, Cleanup, UNCHANGED <<log, received>>, heard' \in 0..Len(log), replies' \subseteq Local,
         overtaken' \subseteq Events, UNCHANGED crossed
  PROVE  TypeOK'
  BY EmptyTyped, Zenon DEF TypeOK, Cleanup, Nothing

\* Publishing an event buffers it, queues it, closes the stream or does nothing.
LEMMA PublicationTypes ==
  ASSUME TypeOK, NEW e \in Events, Publish(e), UNCHANGED <<log, received>>,
         heard' \in 0..Len(log), replies' \subseteq Local
  PROVE  TypeOK'
<1>0. overtaken' \subseteq Events /\ UNCHANGED crossed /\ WriteEvent(e)
  BY CommittedIsFinite DEF Publish, Overtakes, TypeOK
<1>1. CASE UNCHANGED connectionVars
  BY <1>0, <1>1 DEF TypeOK
<1>2. CASE Cleanup
  BY <1>0, <1>2, CleanupTypes
<1>3. CASE ~BufferFull /\ buffer' = Append(buffer, e) /\ UNCHANGED <<phase, cursor, mainVars, liveVars, writes>>
  <2>1. buffer' \in Seq(Events) /\ Len(buffer') = Len(buffer) + 1 /\ Len(buffer) \in Nat
    BY <1>3 DEF TypeOK
  <2>2. Len(buffer') <= HighWater
    BY <1>3, <2>1, StreamAssumption DEF BufferFull
  <2> QED
    BY <1>0, <1>3, <2>1, <2>2 DEF TypeOK
<1>4. CASE liveQueue' = Append(liveQueue, e) /\ UNCHANGED <<phase, cursor, mainVars, buffer, liveInHand, writes>>
  <2>1. liveQueue' \in Seq(Events)
    BY <1>4 DEF TypeOK
  <2> QED
    BY <1>0, <1>4, <2>1 DEF TypeOK
<1> QED
  BY <1>0, <1>1, <1>2, <1>3, <1>4 DEF WriteEvent

LEMMA WriteTypes ==
  ASSUME TypeOK, NEW emitter \in {"main", "live"}, NEW e \in Events, Write(emitter, e)
  PROVE  cursor' \in Events /\ writes' \in Seq([by : {"main", "live"}, event : Events])
<1>1. [by |-> emitter, event |-> e] \in [by : {"main", "live"}, event : Events]
  OBVIOUS
<1> QED
  BY <1>1 DEF TypeOK, Write

LEMMA HeadAndTail ==
  ASSUME NEW S, NEW q \in Seq(S), q # <<>>
  PROVE  /\ Head(q) \in S /\ Tail(q) \in Seq(S)
         /\ Head(q) = q[1] /\ 1 \in DOMAIN q
         /\ DOMAIN Tail(q) = 1..Len(q) - 1 /\ Len(q) \in Nat \ {0} /\ DOMAIN q = 1..Len(q)
         /\ \A i \in 1..Len(q) - 1 : Tail(q)[i] = q[i + 1]
  OBVIOUS

LEMMA InitTyped == Init => TypeOK
<1> SUFFICES ASSUME Init PROVE TypeOK
  OBVIOUS
<1>1. {cursor, after, pageEnd, inHand, liveInHand} \subseteq Events \cup {0}
  BY DEF Init, Nothing
<1>2. pageFull \in BOOLEAN /\ {rest, buffer, liveQueue} \subseteq Seq(Events)
  BY EmptyTyped DEF Init
<1> QED
  BY <1>1, <1>2, EmptyTyped, Zenon DEF Init, TypeOK

LEMMA NextTyped == TypeOK /\ [Next]_vars => TypeOK'
<1> SUFFICES ASSUME TypeOK, [Next]_vars PROVE TypeOK'
  OBVIOUS
<1>0. CASE UNCHANGED vars
  BY <1>0 DEF TypeOK, vars
<1>1. CASE Connect
  BY <1>1, LastSeenTyped DEF Connect, TypeOK
<1>2. CASE Disconnect
  BY <1>2, CleanupTypes DEF Disconnect, TypeOK
<1>3. CASE Receive
  <2>0. writes \in Seq([by : {"main", "live"}, event : Events]) /\ writes # <<>>
    BY <1>3 DEF Receive, TypeOK
  <2>1. Head(writes) \in [by : {"main", "live"}, event : Events]
        /\ Tail(writes) \in Seq([by : {"main", "live"}, event : Events])
    BY <2>0, HeadAndTail
  <2> QED
    BY <1>3, <2>1 DEF Receive, TypeOK
<1>4. ASSUME NEW e \in Events, AppendEvent(e) PROVE TypeOK'
  <2>1. log' \in Seq(Events) /\ Len(log') = Len(log) + 1 /\ Len(log) \in Nat
    BY <1>4 DEF AppendEvent, TypeOK
  <2>2. heard' \in 0..Len(log') /\ replies' \subseteq Local
    BY <1>4, <2>1 DEF AppendEvent, TypeOK
  <2> QED
    BY <1>4, <2>1, <2>2 DEF AppendEvent, TypeOK
<1>5. ASSUME NEW e \in Events, Reply(e) PROVE TypeOK'
  BY <1>5, PublicationTypes DEF Reply, TypeOK
<1>6. CASE Notify
  <2>1. log[heard + 1] \in Events /\ heard' \in 0..Len(log)
    BY <1>6 DEF Notify, TypeOK
  <2> QED
    BY <1>6, <2>1, PublicationTypes DEF Notify, TypeOK
<1>7. CASE ReadPage
  <2>1. after \in Nat /\ after \in Events \cup {0}
    BY CommittedIsFinite DEF TypeOK
  <2>2. PageAfter(after) \in Seq(Events)
    BY <2>1, PageTyped
  <2>3. pageEnd' \in Events \cup {0}
    BY <1>7, <2>1, <2>2 DEF ReadPage, Last
  <2> QED
    BY <1>7, <2>2, <2>3 DEF ReadPage, TypeOK
<1>8. CASE LookAtNext
  <2>1. Head(rest) \in Events /\ Tail(rest) \in Seq(Events)
    BY <1>8 DEF LookAtNext, TypeOK
  <2> QED
    BY <1>8, <2>1 DEF LookAtNext, TypeOK, Nothing
<1>9. CASE EmitNext
  <2>1. inHand \in Events
    BY <1>9 DEF EmitNext, TypeOK, Nothing
  <2> QED
    BY <1>9, <2>1, WriteTypes DEF EmitNext, TypeOK, Nothing
<1>10. CASE EndPage
  <2>0. {cursor, pageEnd} \subseteq Events \cup {0} /\ cursor \in Nat /\ pageEnd \in Nat
    BY CommittedIsFinite DEF TypeOK
  <2>1. cursor' \in Events \cup {0}
    BY <1>10, <2>0, MaxOfTwo DEF EndPage
  <2>2. rest' \in Seq(Events) /\ buffer' \in Seq(Events) /\ Len(buffer') <= HighWater
    BY <1>10, EmptyTyped, Zenon DEF EndPage, TypeOK
  <2> QED
    BY <1>10, <2>1, <2>2 DEF EndPage, TypeOK
<1>11. CASE LookAtLive
  <2>1. Head(liveQueue) \in Events /\ Tail(liveQueue) \in Seq(Events)
    BY <1>11 DEF LookAtLive, TypeOK
  <2>2. Behind \subseteq Events
    BY DEF Behind, TypeOK, ToSet, Nothing
  <2>3. overtaken' \subseteq Events /\ crossed' \in BOOLEAN
    BY <1>11, <2>2 DEF LookAtLive, Overtakes, TypeOK
  <2> QED
    BY <1>11, <2>1, <2>3 DEF LookAtLive, TypeOK, Nothing
<1>12. CASE EmitLive
  <2>1. liveInHand \in Events
    BY <1>12 DEF EmitLive, TypeOK, Nothing
  <2> QED
    BY <1>12, <2>1, WriteTypes DEF EmitLive, TypeOK, Nothing
<1> QED
  BY <1>0, <1>1, <1>2, <1>3, <1>4, <1>5, <1>6, <1>7, <1>8, <1>9, <1>10, <1>11, <1>12 DEF Next

\* The state of a connection keeps its shape, and the buffer of a replay never
\* grows over its limit: a stream that would is closed (writeEvent).
THEOREM StreamTyped == Spec => []TypeOK
  BY InitTyped, NextTyped, PTL DEF Spec

-----------------------------------------------------------------------------
(* The order of the events.                                                 *)

Before(e) == {d \in Events : d < e}

\* What is being written.
Written == [i \in DOMAIN writes |-> writes[i].event]

\* What the client may miss: the overtaken, and those that have not committed, which
\* are overtaken if they commit after a later one.
Excused == overtaken \cup (Events \ Committed)

Settled == seen \cup ToSet(Written) \cup Excused

\* Whoever has the events of S, and takes those of q in turn, misses none.
Gapless(q, S) ==
  \A i \in DOMAIN q, d \in Events : d < q[i] => d \in S \/ \E j \in 1..i - 1 : q[j] = d

\* The client misses nothing before what it has, before what it is sent, and before
\* the cursor.
ClientInv ==
  /\ \A e \in seen : Before(e) \subseteq seen \cup Excused
  /\ Gapless(Written, seen \cup Excused)
  /\ IF phase = "closed" THEN writes = <<>> ELSE UpTo(Events, cursor) \subseteq Settled

\* What the main loop has taken or will take, and with it the live emitter.
MainTakes == Settled \cup {inHand} \cup ToSet(rest)
Takes == MainTakes \cup {liveInHand}

\* Only committed events are about, and what comes before an event that was found to
\* be new is settled.
AheadInv ==
  /\ ToSet(rest) \cup ToSet(buffer) \cup ToSet(liveQueue) \subseteq Committed
  /\ ToSet(Written) \cup seen \cup replies \subseteq Committed
  /\ {inHand, liveInHand, pageEnd, cursor, after} \subseteq Committed \cup {0}
  /\ Before(inHand) \cup Before(liveInHand) \subseteq Settled
  /\ Gapless(rest, Settled \cup {inHand})

\* In every phase, what the stream has or holds includes what was published.
PhaseInv ==
  /\ phase \in {"closed", "fetch"} => rest = <<>> /\ inHand = Nothing
  /\ phase # "live" => liveQueue = <<>> /\ liveInHand = Nothing
  /\ phase = "fetch" => after <= cursor
  /\ phase = "replay" => UpTo(Events, pageEnd) \subseteq MainTakes
  /\ phase = "replay" /\ ~GoesOn =>
       /\ Gapless(buffer, Settled \cup UpTo(Events, pageEnd))
       /\ Published \subseteq Settled \cup UpTo(Events, pageEnd) \cup ToSet(buffer)
  /\ phase = "live" =>
       /\ Gapless(liveQueue, Takes)
       /\ Published \subseteq Takes \cup ToSet(liveQueue)

OrderInv == ClientInv /\ AheadInv /\ PhaseInv

\* Gapless sequences.
LEMMA ToSetOfAppend ==
  ASSUME NEW q \in Seq(Events), NEW e \in Events
  PROVE  ToSet(Append(q, e)) = ToSet(q) \cup {e}
<1> DEFINE r == Append(q, e)
           n == Len(q)
<1>1. n \in Nat /\ DOMAIN q = 1..n /\ DOMAIN r = 1..n + 1 /\ r[n + 1] = e /\ \A i \in 1..n : r[i] = q[i]
  OBVIOUS
<1> HIDE DEF r, n
<1>2. (1..n + 1) = (1..n) \cup {n + 1}
  BY <1>1
<1>3. ToSet(r) = ToSet(q) \cup {e}
  BY <1>1, <1>2 DEF ToSet
<1> QED
  BY <1>3 DEF r

LEMMA ToSetOfTail ==
  ASSUME NEW q \in Seq(Events), q # <<>>
  PROVE  ToSet(q) = ToSet(Tail(q)) \cup {Head(q)}
<1>1. ASSUME NEW i \in DOMAIN q PROVE q[i] \in ToSet(Tail(q)) \cup {Head(q)}
  <2>1. i = 1 \/ (i - 1 \in DOMAIN Tail(q) /\ Tail(q)[i - 1] = q[i])
    BY HeadAndTail
  <2> QED
    BY <2>1, HeadAndTail DEF ToSet
<1>2. ASSUME NEW i \in DOMAIN Tail(q) PROVE Tail(q)[i] \in ToSet(q)
  BY HeadAndTail DEF ToSet
<1>3. Head(q) \in ToSet(q)
  BY HeadAndTail DEF ToSet
<1> QED
  BY <1>1, <1>2, <1>3 DEF ToSet

LEMMA GaplessEmpty == \A S : Gapless(<<>>, S) /\ ToSet(<<>>) = {}
  BY DEF Gapless, ToSet

LEMMA GaplessWeakens ==
  ASSUME NEW q, NEW S, NEW T, Gapless(q, S), S \cap Events \subseteq T
  PROVE  Gapless(q, T)
  BY DEF Gapless

LEMMA GaplessAppend ==
  ASSUME NEW q \in Seq(Events), NEW e \in Events, NEW S, Gapless(q, S),
         \A d \in Events : d < e => d \in S \cup ToSet(q)
  PROVE  Gapless(Append(q, e), S)
<1> DEFINE r == Append(q, e)
           n == Len(q)
<1>1. n \in Nat /\ DOMAIN q = 1..n /\ DOMAIN r = 1..n + 1 /\ r[n + 1] = e /\ \A i \in 1..n : r[i] = q[i]
  OBVIOUS
<1> HIDE DEF r, n
<1>2. ASSUME NEW i \in 1..n, NEW d \in Events, d < r[i] PROVE d \in S \/ \E j \in 1..i - 1 : r[j] = d
  BY <1>1, <1>2 DEF Gapless
<1>3. ASSUME NEW d \in Events, d < e PROVE d \in S \/ \E j \in 1..n : r[j] = d
  BY <1>1, <1>3 DEF ToSet
<1>4. Gapless(r, S)
  BY <1>1, <1>2, <1>3 DEF Gapless
<1> QED
  BY <1>4 DEF r

\* The first event of such a sequence has all that come before it in S.
LEMMA GaplessHead ==
  ASSUME NEW q \in Seq(Events), q # <<>>, NEW S, Gapless(q, S)
  PROVE  /\ \A d \in Events : d < Head(q) => d \in S
         /\ \A T : (S \cup {Head(q)}) \cap Events \subseteq T => Gapless(Tail(q), T)
<1>1. \A d \in Events : d < Head(q) => d \in S
  <2>1. ~\E j \in 1..1 - 1 : TRUE
    OBVIOUS
  <2> QED
    BY <2>1, HeadAndTail DEF Gapless
<1>2. ASSUME NEW T, (S \cup {Head(q)}) \cap Events \subseteq T PROVE Gapless(Tail(q), T)
  <2> SUFFICES ASSUME NEW i \in DOMAIN Tail(q), NEW d \in Events, d < Tail(q)[i]
               PROVE  d \in T \/ \E j \in 1..i - 1 : Tail(q)[j] = d
    BY DEF Gapless
  <2>1. i \in Nat /\ i + 1 \in DOMAIN q /\ d < q[i + 1]
    BY HeadAndTail
  <2>2. d \in S \/ \E j \in 1..i : q[j] = d
    BY <2>1 DEF Gapless
  <2>3. ASSUME NEW j \in 1..i, q[j] = d PROVE d = Head(q) \/ \E h \in 1..i - 1 : Tail(q)[h] = d
    <3>1. CASE j = 1
      BY <2>3, <3>1, HeadAndTail
    <3>2. CASE j # 1
      <4>1. j - 1 \in 1..i - 1 /\ Tail(q)[j - 1] = d
        BY <2>1, <2>3, <3>2, HeadAndTail
      <4> QED
        BY <4>1
    <3> QED
      BY <3>1, <3>2
  <2> QED
    BY <1>2, <2>2, <2>3, HeadAndTail
<1> QED
  BY <1>1, <1>2

LEMMA GaplessShrinks ==
  ASSUME NEW q, NEW S, NEW T, NEW e, Gapless(q, S), S \cap Events \subseteq T \cup {e},
         e \in T \/ \A x \in ToSet(q) : ~(e < x)
  PROVE  Gapless(q, T)
  BY DEF Gapless, ToSet

LEMMA NumbersOfEvents ==
  /\ Events \subseteq Nat \ {0} /\ 0 \notin Events
  /\ Before(0) = {} /\ UpTo(Events, 0) = {}
  BY DEF Events, Before, UpTo

LEMMA Numbers ==
  ASSUME TypeOK
  PROVE  /\ cursor \in Nat /\ after \in Nat /\ pageEnd \in Nat /\ inHand \in Nat /\ liveInHand \in Nat
         /\ Events \subseteq Nat /\ 0 \notin Events /\ Nothing = 0
<1>1. Events \cup {0} \subseteq Nat
  BY NumbersOfEvents
<1>2. {cursor, after, pageEnd, inHand, liveInHand} \subseteq Events \cup {0}
  BY DEF TypeOK
<1> QED
  BY <1>1, <1>2, NumbersOfEvents DEF Nothing

LEMMA PublishedIsCommitted == ASSUME TypeOK PROVE Published \subseteq Committed
  BY DEF TypeOK, Published, Committed, ToSet

LEMMA WrittenTyped ==
  ASSUME TypeOK
  PROVE  /\ Written \in Seq(Events) /\ Len(Written) = Len(writes) /\ DOMAIN Written = DOMAIN writes
         /\ \A i \in DOMAIN writes : Written[i] = writes[i].event
         /\ seen \subseteq Events
<1> DEFINE Row == [by : {"main", "live"}, event : Events]
           n == Len(writes)
<1>1. writes \in Seq(Row)
  BY DEF TypeOK
<1> HIDE DEF Row
<1>2. n \in Nat /\ DOMAIN writes = 1..n /\ \A i \in 1..n : writes[i] \in Row
  BY <1>1
<1>3. \A i \in 1..n : writes[i].event \in Events
  BY <1>2 DEF Row
<1> HIDE DEF n
<1>4. Written = [i \in 1..n |-> writes[i].event]
  BY <1>2 DEF Written
<1>5. Written \in Seq(Events) /\ Len(Written) = n
  BY <1>2, <1>3, <1>4
<1>6. seen \subseteq Events
  BY DEF TypeOK, ToSet
<1> QED
  BY <1>2, <1>4, <1>5, <1>6 DEF n

\* The client resumes after an event that it has, or from the start.
LEMMA HighestOf ==
  ASSUME NEW S \in SUBSET Events
  PROVE  Max(S \cup {0}) \in S \cup {0} /\ Max(S \cup {0}) \in Nat /\ \A e \in S : e <= Max(S \cup {0})
<1>1. S \cup {0} \in SUBSET Nat
  BY NumbersOfEvents
<1>2. IsFiniteSet(Events)
  BY StreamAssumption, FS_Interval DEF Events
<1>3. IsFiniteSet(S \cup {0})
  BY <1>2, FS_Subset, FS_AddElement
<1> QED
  BY <1>1, <1>3, MaxExists

LEMMA LastSeenIs ==
  ASSUME TypeOK
  PROVE  LastSeen \in seen \cup {0} /\ LastSeen \in Nat /\ \A e \in seen : e <= LastSeen
  BY WrittenTyped, HighestOf DEF LastSeen

\* A page has the events that follow n, in order, and a page that is not full all of them.
LEMMA PageIsNext ==
  ASSUME TypeOK, NEW n \in Nat
  PROVE  LET page == PageAfter(n) IN
         /\ \A e \in ToSet(page) : e \in Committed /\ e > n
         /\ \A i \in DOMAIN page, d \in Committed :
              n < d /\ d < page[i] => \E j \in 1..i - 1 : page[j] = d
         /\ \A i, j \in DOMAIN page : i < j => page[i] < page[j]
         /\ Len(page) # PageSize => \A d \in Committed : d > n => d \in ToSet(page)
<1> DEFINE following == {e \in Committed : e > n}
           nth(i) == CHOOSE e \in following : Cardinality({d \in following : d <= e}) = i
           m == Min({PageSize, Cardinality(following)})
           page == PageAfter(n)
<1>1. following \in SUBSET Nat /\ IsFiniteSet(following)
  BY CommittedIsFinite, FS_Subset
<1>2. Cardinality(following) \in Nat
  BY <1>1, FS_CardinalityType
<1>3. m \in Nat /\ m <= Cardinality(following) /\ (m = PageSize \/ m = Cardinality(following))
  BY <1>2, StreamAssumption, MinOfTwo
<1>4. page = [i \in 1..m |-> nth(i)]
  BY DEF PageAfter
<1>5. ASSUME NEW i \in 1..m PROVE nth(i) \in following /\ Rank(following, nth(i)) = i
  <2>1. i \in 1..Cardinality(following)
    BY <1>2, <1>3
  <2>2. \E e \in following : Cardinality({d \in following : d <= e}) = i
    BY <1>1, <2>1, RankExists DEF Rank, UpTo
  <2> QED
    BY <2>2 DEF Rank, UpTo
<1> HIDE DEF nth, m, page
<1>6. Len(page) = m /\ DOMAIN page = 1..m /\ \A i \in 1..m : page[i] = nth(i)
  BY <1>3, <1>4
<1>7. ASSUME NEW d \in following, Rank(following, d) \in 1..m PROVE page[Rank(following, d)] = d
  <2> DEFINE e == nth(Rank(following, d))
  <2>1. e \in following /\ Rank(following, e) = Rank(following, d)
    BY <1>5, <1>7
  <2> HIDE DEF e
  <2>2. ~(d < e) /\ ~(e < d)
    BY <1>1, <1>3, <1>7, <2>1, RankGrows
  <2>3. d = e
    BY <1>1, <2>1, <2>2
  <2> QED
    BY <1>6, <1>7, <2>3 DEF e
<1>8. \A e \in ToSet(page) : e \in Committed /\ e > n
  BY <1>5, <1>6 DEF ToSet
<1>9. ASSUME NEW i \in 1..m, NEW d \in Committed, n < d, d < page[i]
      PROVE  \E j \in 1..i - 1 : page[j] = d
  <2>1. d \in following /\ page[i] \in following /\ Rank(following, page[i]) = i
    BY <1>5, <1>6, <1>9, CommittedIsFinite
  <2>2. Rank(following, d) \in 1..Cardinality(following) /\ Rank(following, d) < i
    BY <1>1, <1>9, <2>1, RankGrows
  <2>3. Rank(following, d) \in 1..i - 1 /\ Rank(following, d) \in 1..m
    BY <1>2, <1>3, <2>2
  <2> QED
    BY <1>7, <2>1, <2>3
<1>10. ASSUME m # PageSize, NEW d \in Committed, d > n PROVE d \in ToSet(page)
  <2>1. d \in following /\ Rank(following, d) \in 1..m
    BY <1>1, <1>3, <1>10, RankGrows
  <2> QED
    BY <1>6, <1>7, <2>1 DEF ToSet
<1>11. ASSUME NEW i \in 1..m, NEW j \in 1..m, i < j PROVE page[i] < page[j]
  <2>1. /\ page[i] \in following /\ Rank(following, page[i]) = i
        /\ page[j] \in following /\ Rank(following, page[j]) = j
    BY <1>5, <1>6
  <2>2. ~(page[j] < page[i]) /\ page[i] # page[j]
    BY <1>1, <1>3, <1>11, <2>1, RankGrows
  <2> QED
    BY <1>1, <2>1, <2>2
<1> QED
  BY <1>6, <1>8, <1>9, <1>10, <1>11 DEF page

LEMMA InitOrder == Init => OrderInv
<1> SUFFICES ASSUME Init PROVE OrderInv
  OBVIOUS
<1>1. Committed = {} /\ seen = {} /\ Written = <<>>
  BY GaplessEmpty DEF Init, Committed, Written
<1>2. ClientInv
  BY <1>1, GaplessEmpty DEF Init, ClientInv
<1>3. AheadInv
  BY <1>1, GaplessEmpty, NumbersOfEvents DEF Init, AheadInv, Nothing
<1>4. PhaseInv
  BY DEF Init, PhaseInv
<1> QED
  BY <1>2, <1>3, <1>4 DEF OrderInv

\* The connection ends, and with it what was not received.
LEMMA CleanupOrder ==
  ASSUME TypeOK, OrderInv, Cleanup, UNCHANGED <<log, received>>, replies' \subseteq replies,
         overtaken \subseteq overtaken'
  PROVE  OrderInv'
<1> USE DEF Cleanup
<1>1. Committed' = Committed /\ seen' = seen /\ Excused \subseteq Excused'
  BY DEF Committed, Excused
<1>2. Written' = <<>>
  BY DEF Written
<1>3. ClientInv'
  BY <1>1, <1>2, GaplessEmpty DEF OrderInv, ClientInv, Before
<1>4. AheadInv'
  <2>1. seen' \cup replies' \subseteq Committed'
    BY <1>1 DEF OrderInv, AheadInv
  <2>2. Before(inHand)' = {} /\ Before(liveInHand)' = {}
    BY NumbersOfEvents DEF Nothing, Before
  <2> QED
    BY <1>2, <2>1, <2>2, GaplessEmpty DEF AheadInv, Nothing
<1>5. PhaseInv'
  BY DEF PhaseInv
<1> QED
  BY <1>3, <1>4, <1>5 DEF OrderInv

\* A replay goes on where the client is: it misses nothing before.
LEMMA ConnectOrder ==
  ASSUME TypeOK, OrderInv, Connect
  PROVE  OrderInv'
<1> USE DEF Connect
<1>1. Committed' = Committed /\ seen' = seen /\ Written' = Written
  BY DEF Committed, Written
<1>2. writes = <<>> /\ rest = <<>> /\ inHand = 0 /\ liveQueue = <<>> /\ liveInHand = 0
  BY DEF OrderInv, ClientInv, PhaseInv, Nothing
<1>3. Written = <<>>
  BY <1>2 DEF Written
<1>4. LastSeen \in seen \cup {0} /\ LastSeen \in Nat /\ (\A e \in seen : e <= LastSeen) /\ seen \subseteq Events
      /\ Events \subseteq Nat
  BY LastSeenIs, WrittenTyped, NumbersOfEvents
<1>5. ASSUME NEW d \in Excused, d <= LastSeen PROVE d \in Excused'
  BY <1>1, <1>5 DEF Excused
<1>6. \A e \in seen : Before(e) \subseteq seen \cup Excused'
  <2> SUFFICES ASSUME NEW e \in seen, NEW d \in Events, d < e, d \notin seen PROVE d \in Excused'
    BY DEF Before
  <2>1. d \in Excused
    BY DEF OrderInv, ClientInv, Before
  <2>2. d <= LastSeen
    BY <1>4
  <2> QED
    BY <1>5, <2>1, <2>2
<1>7. UpTo(Events, cursor') \subseteq Settled'
  <2> SUFFICES ASSUME NEW d \in Events, d <= LastSeen PROVE d \in seen \cup Excused'
    BY <1>1 DEF UpTo, Settled
  <2>1. LastSeen \in seen
    BY <1>4, NumbersOfEvents
  <2> QED
    BY <1>4, <1>6, <2>1 DEF Before
<1>8. ClientInv'
  BY <1>1, <1>3, <1>6, <1>7, GaplessEmpty DEF ClientInv
<1>9. AheadInv'
  <2>1. LastSeen \in Committed \cup {0}
    BY <1>4 DEF OrderInv, AheadInv
  <2>2. Before(inHand)' = {} /\ Before(liveInHand)' = {}
    BY <1>2, NumbersOfEvents DEF Before
  <2> QED
    BY <1>1, <1>2, <2>1, <2>2, GaplessEmpty DEF OrderInv, AheadInv
<1>10. PhaseInv'
  BY <1>2, <1>4 DEF PhaseInv, Nothing
<1> QED
  BY <1>8, <1>9, <1>10 DEF OrderInv

\* The client receives the first event that was written: what comes before is settled.
LEMMA ReceiveOrder ==
  ASSUME TypeOK, OrderInv, Receive
  PROVE  OrderInv'
<1> USE DEF Receive
<1> DEFINE e == Head(writes).event
<1>1. writes # <<>> /\ Written \in Seq(Events) /\ Written # <<>> /\ DOMAIN writes = 1..Len(writes)
      /\ Len(writes) \in Nat \ {0} /\ Len(Written) = Len(writes)
      /\ \A i \in DOMAIN writes : Written[i] = writes[i].event
  BY WrittenTyped DEF TypeOK
<1>2. e = Head(Written) /\ e \in Events
  BY <1>1, HeadAndTail
<1>3. Written' = Tail(Written)
  <2>1. DOMAIN Tail(writes) = 1..Len(writes) - 1 /\ \A i \in 1..Len(writes) - 1 : Tail(writes)[i] = writes[i + 1]
    BY <1>1 DEF TypeOK
  <2>2. Tail(Written) = [i \in 1..Len(writes) - 1 |-> Written[i + 1]]
    <3>1. /\ Tail(Written) \in Seq(Events) /\ DOMAIN Tail(Written) = 1..Len(writes) - 1
          /\ \A i \in 1..Len(writes) - 1 : Tail(Written)[i] = Written[i + 1]
      BY <1>1, HeadAndTail
    <3>2. Tail(Written) \in [1..Len(writes) - 1 -> Events]
      <4> DEFINE t == Tail(Written)
      <4>1. t \in Seq(Events) /\ DOMAIN t = 1..Len(writes) - 1
        BY <3>1
      <4> HIDE DEF t
      <4>2. t \in [1..Len(writes) - 1 -> Events]
        BY <4>1
      <4> QED
        BY <4>2 DEF t
    <3> QED
      BY <3>1, <3>2
  <2>3. \A i \in 1..Len(writes) - 1 : i + 1 \in DOMAIN writes
    BY <1>1
  <2> QED
    BY <1>1, <2>1, <2>2, <2>3 DEF Written
<1>4. seen' = seen \cup {e} /\ ToSet(Written) = ToSet(Written') \cup {e}
  <2>1. received \in Seq(Events) /\ received' = Append(received, e)
    BY DEF TypeOK
  <2> QED
    BY <1>1, <1>2, <1>3, <2>1, ToSetOfAppend, ToSetOfTail
<1>5. Committed' = Committed /\ Excused' = Excused /\ Settled' = Settled
  BY <1>4 DEF Committed, Excused, Settled
<1>6. /\ Before(e) \subseteq seen \cup Excused
      /\ Gapless(Written', seen' \cup Excused')
  <2>1. Gapless(Written, seen \cup Excused)
    BY DEF OrderInv, ClientInv
  <2>2. /\ \A d \in Events : d < Head(Written) => d \in seen \cup Excused
        /\ \A T : (seen \cup Excused \cup {Head(Written)}) \cap Events \subseteq T => Gapless(Tail(Written), T)
    BY <1>1, <2>1, GaplessHead
  <2> QED
    BY <1>2, <1>3, <1>4, <1>5, <2>2 DEF Before
<1>7. ClientInv'
  <2>1. \A c \in seen' : Before(c) \subseteq seen' \cup Excused'
    BY <1>4, <1>5, <1>6 DEF OrderInv, ClientInv
  <2>2. phase # "closed" /\ UpTo(Events, cursor') \subseteq Settled'
    BY <1>1, <1>5 DEF OrderInv, ClientInv
  <2> QED
    BY <1>6, <2>1, <2>2 DEF ClientInv
<1>8. AheadInv'
  <2>1. ToSet(Written') \cup seen' = ToSet(Written) \cup seen
    BY <1>4
  <2>2. Before(inHand)' = Before(inHand) /\ Before(liveInHand)' = Before(liveInHand)
    BY DEF Before
  <2>3. Gapless(rest', Settled' \cup {inHand'})
    BY <1>5 DEF OrderInv, AheadInv
  <2> QED
    BY <1>5, <2>1, <2>2, <2>3 DEF OrderInv, AheadInv
<1>9. PhaseInv'
  BY <1>5 DEF OrderInv, PhaseInv, MainTakes, Takes, Published, Committed, GoesOn, Gapless, UpTo
<1> QED
  BY <1>7, <1>8, <1>9 DEF OrderInv

\* An event commits: it is overtaken, or comes after all that are about.
LEMMA AppendOrder ==
  ASSUME TypeOK, OrderInv, NEW e \in Events, AppendEvent(e)
  PROVE  OrderInv'
<1> USE DEF AppendEvent
<1>0. Events \subseteq Nat \ {0} /\ Committed \subseteq Events
  BY NumbersOfEvents, CommittedIsFinite
<1>1. Committed' = Committed \cup {e}
  BY ToSetOfAppend DEF Committed, TypeOK
<1>2. Written' = Written /\ seen' = seen
  BY DEF Written
<1>3. Excused \subseteq Excused' \cup {e} /\ Settled \subseteq Settled' \cup {e}
  BY <1>1, <1>2 DEF Excused, Settled
<1>4. e \in Excused' \/ \A d \in Committed : d < e
  <2>1. ASSUME NEW d \in Committed, ~(d < e) PROVE d > e
    BY <1>0, <2>1
  <2> QED
    BY <2>1 DEF Excused
<1>5. ASSUME NEW n \in Committed \cup {0}
      PROVE  /\ Before(n) \subseteq Settled => Before(n) \subseteq Settled'
             /\ UpTo(Events, n) \subseteq Settled => UpTo(Events, n) \subseteq Settled'
             /\ Before(n) \subseteq seen \cup Excused => Before(n) \subseteq seen' \cup Excused'
             /\ e \in Excused' \/ e \notin UpTo(Events, n)
  BY <1>0, <1>2, <1>3, <1>4 DEF Before, UpTo, Settled
<1>6. ASSUME NEW q, ToSet(q) \subseteq Committed
      PROVE  e \in Excused' \/ \A x \in ToSet(q) : ~(e < x)
  <2> SUFFICES ASSUME NEW x \in ToSet(q), e < x PROVE e \in Excused'
    OBVIOUS
  <2>1. x \in Committed /\ x \in Nat /\ e \in Nat
    BY <1>0, <1>6
  <2>2. ~(x < e)
    BY <2>1
  <2> QED
    BY <1>4, <2>1, <2>2
<1>7. Published' = Published /\ Published \subseteq Committed /\ e \notin Published
  <2>1. heard \in 0..Len(log) /\ log' = Append(log, e) /\ heard' = heard /\ \A i \in 1..Len(log) : log'[i] = log[i]
    BY DEF TypeOK
  <2>2. {log'[i] : i \in 1..heard'} = {log[i] : i \in 1..heard}
    BY <2>1 DEF TypeOK
  <2>3. (Local \cap Committed') \ replies' = (Local \cap Committed) \ replies
    BY <1>1 DEF OrderInv, AheadInv
  <2> QED
    BY <2>2, <2>3, PublishedIsCommitted DEF Published
<1>8. ClientInv'
  <2>1. \A c \in seen' : Before(c) \subseteq seen' \cup Excused'
    BY <1>2, <1>5 DEF OrderInv, ClientInv, AheadInv
  <2>2. Gapless(Written', seen' \cup Excused')
    BY <1>2, <1>3, <1>6, GaplessShrinks DEF OrderInv, ClientInv, AheadInv
  <2>3. UpTo(Events, cursor)' = UpTo(Events, cursor) /\ cursor \in Committed \cup {0}
    BY DEF UpTo, OrderInv, AheadInv
  <2> QED
    BY <1>5, <2>1, <2>2, <2>3 DEF OrderInv, ClientInv
<1>9. AheadInv'
  <2>1. Before(inHand)' = Before(inHand) /\ Before(liveInHand)' = Before(liveInHand)
    BY DEF Before
  <2>2. Before(inHand) \cup Before(liveInHand) \subseteq Settled'
    BY <1>5 DEF OrderInv, AheadInv
  <2>3. Gapless(rest, Settled' \cup {inHand})
    <3>1. (Settled \cup {inHand}) \cap Events \subseteq (Settled' \cup {inHand}) \cup {e}
      BY <1>3
    <3>2. e \in Settled' \cup {inHand} \/ \A x \in ToSet(rest) : ~(e < x)
      BY <1>6 DEF OrderInv, AheadInv, Settled
    <3> QED
      BY <3>1, <3>2, GaplessShrinks DEF OrderInv, AheadInv
  <2> QED
    BY <1>1, <1>2, <2>1, <2>2, <2>3 DEF OrderInv, AheadInv
<1>10. PhaseInv'
  <2>1. MainTakes \subseteq MainTakes' \cup {e} /\ Takes \subseteq Takes' \cup {e}
        /\ Excused' \subseteq MainTakes' /\ Excused' \subseteq Settled' /\ MainTakes' \subseteq Takes'
    BY <1>3 DEF MainTakes, Takes, Settled
  <2>2. pageEnd \in Committed \cup {0} /\ ToSet(buffer) \subseteq Committed /\ ToSet(liveQueue) \subseteq Committed
    BY DEF OrderInv, AheadInv
  <2>3. phase = "replay" => UpTo(Events, pageEnd) \subseteq MainTakes'
    BY <1>5, <2>1, <2>2 DEF OrderInv, PhaseInv
  <2>4. ASSUME phase = "replay", ~GoesOn
        PROVE  /\ Gapless(buffer, Settled' \cup UpTo(Events, pageEnd))
               /\ Published \subseteq Settled' \cup UpTo(Events, pageEnd) \cup ToSet(buffer)
    <3>1. Gapless(buffer, Settled \cup UpTo(Events, pageEnd))
      BY <2>4 DEF OrderInv, PhaseInv
    <3>2. (Settled \cup UpTo(Events, pageEnd)) \cap Events \subseteq (Settled' \cup UpTo(Events, pageEnd)) \cup {e}
      BY <1>3
    <3>3. e \in Settled' \cup UpTo(Events, pageEnd) \/ \A x \in ToSet(buffer) : ~(e < x)
      BY <1>6, <2>1, <2>2
    <3> QED
      BY <1>3, <1>7, <2>4, <3>1, <3>2, <3>3, GaplessShrinks DEF OrderInv, PhaseInv
  <2>5. ASSUME phase = "live"
        PROVE  Gapless(liveQueue, Takes') /\ Published \subseteq Takes' \cup ToSet(liveQueue)
    <3>1. Gapless(liveQueue, Takes)
      BY <2>5 DEF OrderInv, PhaseInv
    <3>2. Takes \cap Events \subseteq Takes' \cup {e}
      BY <2>1
    <3>3. e \in Takes' \/ \A x \in ToSet(liveQueue) : ~(e < x)
      BY <1>6, <2>1, <2>2
    <3> QED
      BY <1>7, <2>1, <2>5, <3>1, <3>2, <3>3, GaplessShrinks DEF OrderInv, PhaseInv
  <2>6. GoesOn' = GoesOn /\ UpTo(Events, pageEnd)' = UpTo(Events, pageEnd)
    BY DEF GoesOn, UpTo
  <2> QED
    BY <1>7, <2>3, <2>4, <2>5, <2>6 DEF OrderInv, PhaseInv
<1> QED
  BY <1>8, <1>9, <1>10 DEF OrderInv

\* A step that publishes an event: all that come before it were published, have not
\* committed, or are overtaken now.
Publishes(e) ==
  /\ e \in Committed
  /\ WriteEvent(e)
  /\ Published' = Published \cup {e}
  /\ Before(e) \subseteq Published \cup Excused'
  /\ overtaken \subseteq overtaken' /\ replies' \subseteq replies
  /\ UNCHANGED <<log, received>>

LEMMA PublishOvertakes ==
  ASSUME NEW e, Publish(e), UNCHANGED log
  PROVE  Before(e) \subseteq Published \cup Excused' /\ overtaken \subseteq overtaken' /\ WriteEvent(e)
  BY DEF Publish, Overtakes, Before, Excused, Committed

LEMMA ReplyPublishes ==
  ASSUME TypeOK, OrderInv, NEW e \in Events, Reply(e)
  PROVE  Publishes(e)
<1>1. e \in Committed /\ e \in Local /\ e \in replies
  BY DEF Reply, OrderInv, AheadInv, TypeOK
<1>2. Committed' = Committed
  BY DEF Reply, Committed
<1>3. Published' = Published \cup {e}
  BY <1>1, <1>2 DEF Reply, Published
<1> QED
  BY <1>1, <1>3, PublishOvertakes DEF Publishes, Reply

LEMMA NotifyPublishes ==
  ASSUME TypeOK, OrderInv, Notify
  PROVE  Publishes(log[heard + 1]) /\ log[heard + 1] \in Events
<1> DEFINE e == log[heard + 1]
<1>1. heard \in Nat /\ heard + 1 \in DOMAIN log /\ heard' = heard + 1
  BY DEF Notify, TypeOK
<1>2. e \in Committed /\ e \in Events
  BY <1>1, CommittedIsFinite DEF Committed, ToSet
<1>3. Committed' = Committed /\ replies' = replies /\ log' = log
  BY DEF Notify, Committed
<1>4. Published' = Published \cup {e}
  <2>1. 1..heard + 1 = (1..heard) \cup {heard + 1}
    BY <1>1
  <2> QED
    BY <1>1, <1>3, <2>1 DEF Published
<1> QED
  BY <1>2, <1>3, <1>4, PublishOvertakes DEF Publishes, Notify

\* An event is published: buffered during the replay, queued after it.
LEMMA PublicationOrder ==
  ASSUME TypeOK, OrderInv, NEW e \in Events, Publishes(e)
  PROVE  OrderInv'
<1> USE DEF Publishes
<1>0. Committed' = Committed /\ seen' = seen /\ Excused \subseteq Excused'
  BY DEF Committed, Excused
<1>1. CASE Cleanup
  BY <1>1, CleanupOrder
<1>2. ASSUME ~Cleanup
      PROVE  /\ UNCHANGED <<phase, cursor, mainVars, liveInHand, writes>>
             /\ \/ UNCHANGED buffer
                \/ Replaying /\ buffer' = Append(buffer, e)
             /\ \/ UNCHANGED liveQueue
                \/ phase = "live" /\ liveQueue' = Append(liveQueue, e)
             /\ phase = "replay" => buffer' = Append(buffer, e)
             /\ phase = "live" => liveQueue' = Append(liveQueue, e)
             /\ phase # "live" => UNCHANGED liveQueue
  BY <1>2 DEF WriteEvent, Replaying, TypeOK
<1>3. CASE ~Cleanup
  <2>0. Written' = Written /\ Settled \subseteq Settled' /\ MainTakes \subseteq MainTakes' /\ Takes \subseteq Takes'
    BY <1>0, <1>2, <1>3 DEF Written, Settled, MainTakes, Takes
  <2>1. Excused' \subseteq Settled' /\ Settled' \subseteq MainTakes' /\ MainTakes' \subseteq Takes'
    BY DEF Settled, MainTakes, Takes
  <2>2. ClientInv'
    <3>1. Gapless(Written, seen' \cup Excused')
      <4>1. (seen \cup Excused) \cap Events \subseteq seen' \cup Excused'
        BY <1>0
      <4> QED
        BY <4>1, GaplessWeakens DEF OrderInv, ClientInv
    <3>2. UpTo(Events, cursor)' = UpTo(Events, cursor)
      BY <1>2, <1>3 DEF UpTo
    <3>3. \A c \in seen' : Before(c) \subseteq seen' \cup Excused'
      BY <1>0 DEF OrderInv, ClientInv
    <3> QED
      BY <1>2, <1>3, <2>0, <3>1, <3>2, <3>3 DEF OrderInv, ClientInv
  <2>3. /\ ToSet(buffer') \subseteq ToSet(buffer) \cup {e}
        /\ ToSet(liveQueue') \subseteq ToSet(liveQueue) \cup {e}
        /\ phase = "replay" => ToSet(buffer') = ToSet(buffer) \cup {e}
        /\ phase = "live" => ToSet(liveQueue') = ToSet(liveQueue) \cup {e}
    BY <1>2, <1>3, ToSetOfAppend DEF TypeOK
  <2>4. AheadInv'
    <3>1. Gapless(rest, Settled' \cup {inHand})
      <4>1. (Settled \cup {inHand}) \cap Events \subseteq Settled' \cup {inHand}
        BY <2>0
      <4> QED
        BY <4>1, GaplessWeakens DEF OrderInv, AheadInv
    <3>2. Before(inHand)' = Before(inHand) /\ Before(liveInHand)' = Before(liveInHand)
      BY <1>2, <1>3 DEF Before
    <3>3. ToSet(rest') \cup ToSet(buffer') \cup ToSet(liveQueue') \subseteq Committed'
      BY <1>0, <1>2, <1>3, <2>3 DEF OrderInv, AheadInv
    <3>4. ToSet(Written') \cup seen' \cup replies' \subseteq Committed'
      BY <1>0, <2>0 DEF OrderInv, AheadInv
    <3>5. {inHand, liveInHand, pageEnd, cursor, after}' \subseteq Committed' \cup {0}
      BY <1>0, <1>2, <1>3 DEF OrderInv, AheadInv
    <3> QED
      BY <1>2, <1>3, <2>0, <3>1, <3>2, <3>3, <3>4, <3>5 DEF OrderInv, AheadInv
  <2>5. ASSUME phase = "replay", ~GoesOn
        PROVE  /\ Gapless(buffer', Settled' \cup UpTo(Events, pageEnd))
               /\ Published' \subseteq Settled' \cup UpTo(Events, pageEnd) \cup ToSet(buffer')
    <3> DEFINE S == Settled \cup UpTo(Events, pageEnd)
               T == Settled' \cup UpTo(Events, pageEnd)
    <3>1. Gapless(buffer, S) /\ Published \subseteq S \cup ToSet(buffer) /\ S \subseteq T /\ Excused' \subseteq T
      BY <2>0, <2>1, <2>5 DEF OrderInv, PhaseInv
    <3> HIDE DEF S, T
    <3>2. \A d \in Events : d < e => d \in T \cup ToSet(buffer)
      BY <3>1 DEF Before
    <3>3. Gapless(buffer, T) /\ buffer \in Seq(Events) /\ buffer' = Append(buffer, e)
      BY <1>2, <1>3, <2>5, <3>1, GaplessWeakens DEF TypeOK
    <3>4. Gapless(buffer', T)
      BY <3>2, <3>3, GaplessAppend
    <3>5. Published' \subseteq T \cup ToSet(buffer')
      BY <2>3, <2>5, <3>1
    <3> QED
      BY <3>4, <3>5 DEF T
  <2>6. ASSUME phase = "live"
        PROVE  Gapless(liveQueue', Takes') /\ Published' \subseteq Takes' \cup ToSet(liveQueue')
    <3>1. Gapless(liveQueue, Takes) /\ Published \subseteq Takes \cup ToSet(liveQueue) /\ Excused' \subseteq Takes'
      BY <2>1, <2>6 DEF OrderInv, PhaseInv
    <3>2. \A d \in Events : d < e => d \in Takes' \cup ToSet(liveQueue)
      BY <2>0, <3>1 DEF Before
    <3>3. Gapless(liveQueue, Takes') /\ liveQueue \in Seq(Events) /\ liveQueue' = Append(liveQueue, e)
      BY <1>2, <1>3, <2>0, <2>6, <3>1, GaplessWeakens DEF TypeOK
    <3>4. Gapless(liveQueue', Takes')
      BY <3>2, <3>3, GaplessAppend
    <3> QED
      BY <2>0, <2>3, <2>6, <3>1, <3>4
  <2>7. GoesOn' = GoesOn /\ UpTo(Events, pageEnd)' = UpTo(Events, pageEnd)
    BY <1>2, <1>3 DEF GoesOn, UpTo
  <2>8. PhaseInv'
    BY <1>2, <1>3, <2>0, <2>5, <2>6, <2>7 DEF OrderInv, PhaseInv
  <2> QED
    BY <2>2, <2>4, <2>8 DEF OrderInv
<1> QED
  BY <1>1, <1>3

\* The next page is read: with the last one, all that is committed lies ahead.
LEMMA ReadPageOrder ==
  ASSUME TypeOK, OrderInv, ReadPage
  PROVE  OrderInv'
<1> USE DEF ReadPage
<1> DEFINE page == PageAfter(after)
<1>0. Committed' = Committed /\ Published' = Published /\ Written' = Written /\ seen' = seen
      /\ Excused' = Excused /\ Settled' = Settled /\ Published \subseteq Committed
  BY PublishedIsCommitted DEF Committed, Published, Written, Excused, Settled
<1>1. /\ Committed \subseteq Events /\ Events \subseteq Nat
      /\ after \in Nat /\ after \in Committed \cup {0} /\ cursor \in Nat /\ after <= cursor /\ phase = "fetch"
  BY CommittedIsFinite DEF OrderInv, AheadInv, PhaseInv
<1>2. /\ \A e \in ToSet(page) : e \in Committed /\ e > after
      /\ \A i \in DOMAIN page, d \in Committed :
           after < d /\ d < page[i] => \E j \in 1..i - 1 : page[j] = d
      /\ \A i, j \in DOMAIN page : i < j => page[i] < page[j]
      /\ Len(page) # PageSize => \A d \in Committed : d > after => d \in ToSet(page)
  BY <1>1, PageIsNext
<1>3. page \in Seq(Events) /\ rest' = page
  BY <1>1, PageTyped
<1> HIDE DEF page
<1>4. inHand = 0 /\ liveInHand = 0 /\ liveQueue = <<>>
  BY <1>1 DEF OrderInv, PhaseInv, Nothing
<1>5. UpTo(Events, after) \subseteq Settled /\ Excused \subseteq Settled
  <2>1. UpTo(Events, cursor) \subseteq Settled
    BY <1>1 DEF OrderInv, ClientInv
  <2>2. \A d \in Events : d <= after => d <= cursor
    BY <1>1
  <2>3. Excused \subseteq Settled
    BY DEF Settled
  <2> QED
    BY <2>1, <2>2, <2>3 DEF UpTo
<1>6. \A d \in Events : d \in Settled \/ (d \in Committed /\ after < d)
  BY <1>1, <1>5 DEF UpTo, Excused
<1>7. Gapless(page, Settled)
  BY <1>2, <1>6 DEF Gapless
<1>8. /\ pageEnd' \in Committed \cup {0} /\ pageEnd' >= after
      /\ UpTo(Events, pageEnd') \subseteq Settled \cup ToSet(page)
      /\ ~GoesOn' => \A d \in Committed : d <= pageEnd'
  <2>1. CASE page = <<>>
    <3>1. pageEnd' = after /\ ToSet(page) = {}
      BY <1>3, <2>1, GaplessEmpty DEF page
    <3>2. Len(page) # PageSize
      BY <2>1, StreamAssumption
    <3>3. \A d \in Committed : d <= after
      BY <1>1, <1>2, <3>1, <3>2
    <3> QED
      BY <1>1, <1>5, <3>1, <3>3
  <2>2. CASE page # <<>>
    <3>1. Last(page) = page[Len(page)] /\ Len(page) \in DOMAIN page /\ Len(page) \in Nat \ {0}
          /\ DOMAIN page = 1..Len(page)
      BY <1>3, <2>2 DEF Last
    <3>2. pageEnd' = page[Len(page)]
      BY <2>2, <3>1 DEF page
    <3>3. pageEnd' \in Committed /\ pageEnd' > after
      BY <1>2, <3>1, <3>2 DEF ToSet
    <3>4. UpTo(Events, pageEnd') \subseteq Settled \cup ToSet(page)
      <4> SUFFICES ASSUME NEW d \in Events, d <= pageEnd', d \notin Settled PROVE d \in ToSet(page)
        BY DEF UpTo
      <4>1. CASE d = pageEnd'
        BY <3>1, <3>2, <4>1 DEF ToSet
      <4>2. CASE d # pageEnd'
        <5>1. d \in Committed /\ after < d /\ d < page[Len(page)]
          BY <1>1, <1>6, <3>2, <3>3, <4>2
        <5>2. PICK j \in 1..Len(page) - 1 : page[j] = d
          BY <1>2, <3>1, <5>1
        <5> QED
          BY <3>1, <5>2 DEF ToSet
      <4> QED
        BY <4>1, <4>2
    <3>5. ASSUME ~GoesOn', NEW d \in Committed PROVE d <= pageEnd'
      <4>1. Len(page) # PageSize
        BY <1>3, <3>3, <3>5 DEF GoesOn, page
      <4> SUFFICES ASSUME d > pageEnd' PROVE FALSE
        BY <1>1, <3>3
      <4>2. d \in ToSet(page)
        BY <1>1, <1>2, <3>3, <4>1
      <4>3. PICK i \in 1..Len(page) : page[i] = d
        BY <3>1, <4>2 DEF ToSet
      <4>4. i = Len(page) \/ (i < Len(page) /\ i \in DOMAIN page)
        <5> DEFINE n == Len(page)
        <5>1. n \in Nat /\ i \in 1..n /\ DOMAIN page = 1..n
          BY <3>1
        <5> HIDE DEF n
        <5>2. i = n \/ (i < n /\ i \in DOMAIN page)
          BY <5>1
        <5> QED
          BY <5>2 DEF n
      <4>5. i = Len(page) \/ page[i] < page[Len(page)]
        BY <1>2, <3>1, <4>4
      <4> QED
        BY <1>1, <3>2, <3>3, <4>3, <4>5
    <3> QED
      BY <1>1, <3>3, <3>4, <3>5
  <2> QED
    BY <2>1, <2>2
<1>9. ClientInv'
  BY <1>0, <1>1 DEF OrderInv, ClientInv, UpTo
<1>10. AheadInv'
  <2>1. Gapless(rest', Settled' \cup {inHand'})
    BY <1>0, <1>3, <1>7, GaplessWeakens
  <2>2. Before(inHand)' = Before(inHand) /\ Before(liveInHand)' = Before(liveInHand)
    BY DEF Before
  <2>3. ToSet(rest') \subseteq Committed
    BY <1>2, <1>3
  <2> QED
    BY <1>0, <1>8, <2>1, <2>2, <2>3 DEF OrderInv, AheadInv
<1>11. PhaseInv'
  <2>1. UpTo(Events, pageEnd') \subseteq MainTakes'
    BY <1>0, <1>3, <1>8 DEF MainTakes
  <2>2. ASSUME ~GoesOn'
        PROVE  /\ Gapless(buffer, Settled \cup UpTo(Events, pageEnd'))
               /\ Published \subseteq Settled \cup UpTo(Events, pageEnd') \cup ToSet(buffer)
    <3>1. Events \subseteq Settled \cup UpTo(Events, pageEnd')
      BY <1>6, <1>8, <2>2 DEF UpTo
    <3> QED
      BY <1>0, <1>1, <3>1 DEF Gapless
  <2>3. UpTo(Events, pageEnd)' = UpTo(Events, pageEnd')
    BY DEF UpTo
  <2> QED
    BY <1>0, <1>4, <2>1, <2>2, <2>3 DEF PhaseInv, Nothing
<1> QED
  BY <1>9, <1>10, <1>11 DEF OrderInv

\* The main loop looks at its next event: it is settled, or comes next.
LEMMA LookAtNextOrder ==
  ASSUME TypeOK, OrderInv, LookAtNext
  PROVE  OrderInv'
<1> USE DEF LookAtNext
<1> DEFINE e == Head(rest)
<1>0. Committed' = Committed /\ Published' = Published /\ Written' = Written /\ seen' = seen
      /\ Excused' = Excused /\ Settled' = Settled /\ Published \subseteq Events
  BY PublishedIsCommitted, CommittedIsFinite DEF Committed, Published, Written, Excused, Settled
<1>1. /\ rest \in Seq(Events) /\ rest # <<>> /\ rest' = Tail(rest) /\ e \in Events
      /\ ToSet(rest) = ToSet(rest') \cup {e}
  BY ToSetOfTail, HeadAndTail DEF TypeOK
<1>2. inHand = 0 /\ 0 \notin Events /\ cursor \in Nat /\ Events \subseteq Nat /\ Before(0) = {}
  BY Numbers, NumbersOfEvents DEF MainIdle
<1>3. UpTo(Events, cursor) \subseteq Settled
  BY DEF OrderInv, ClientInv
<1>4. /\ Before(e) \subseteq Settled
      /\ \A T : (Settled \cup {e}) \cap Events \subseteq T => Gapless(Tail(rest), T)
  <2>1. Gapless(rest, Settled \cup {inHand})
    BY DEF OrderInv, AheadInv
  <2>2. /\ \A d \in Events : d < e => d \in Settled \cup {inHand}
        /\ \A T : (Settled \cup {inHand} \cup {e}) \cap Events \subseteq T => Gapless(Tail(rest), T)
    BY <1>1, <2>1, GaplessHead
  <2> QED
    BY <1>2, <2>2 DEF Before
<1>5. inHand' = e \/ (inHand' = 0 /\ e \in Settled)
  <2>1. CASE e > cursor
    BY <2>1 DEF IsNew
  <2>2. CASE ~(e > cursor)
    <3>0. e \in Nat /\ cursor \in Nat
      BY <1>1, <1>2
    <3>1. e <= cursor
      <4> HIDE DEF e
      <4> QED
        BY <2>2, <3>0
    <3>2. e \in UpTo(Events, cursor)
      BY <1>1, <3>1 DEF UpTo
    <3> QED
      BY <1>3, <2>2, <3>2 DEF IsNew, Nothing
  <2> QED
    BY <2>1, <2>2
<1>6. ClientInv'
  BY <1>0 DEF OrderInv, ClientInv, UpTo
<1>7. AheadInv'
  <2>1. Gapless(rest', Settled \cup {inHand'})
    BY <1>1, <1>4, <1>5
  <2>2. e \in Committed /\ ToSet(rest') \subseteq Committed
    BY <1>1 DEF OrderInv, AheadInv
  <2>3. Before(inHand') \subseteq Settled
    BY <1>2, <1>4, <1>5
  <2>4. Before(inHand)' = Before(inHand') /\ Before(liveInHand)' = Before(liveInHand)
    BY DEF Before
  <2> QED
    BY <1>0, <1>5, <2>1, <2>2, <2>3, <2>4 DEF OrderInv, AheadInv
<1>8. MainTakes \cap Events \subseteq MainTakes' /\ Takes \cap Events \subseteq Takes'
  BY <1>0, <1>1, <1>2, <1>5 DEF MainTakes, Takes
<1>9. PhaseInv'
  <2>1. ASSUME phase = "replay" PROVE UpTo(Events, pageEnd) \subseteq MainTakes'
    BY <1>8, <2>1 DEF OrderInv, PhaseInv, UpTo
  <2>2. ASSUME phase = "live"
        PROVE  Gapless(liveQueue, Takes') /\ Published \subseteq Takes' \cup ToSet(liveQueue)
    <3>1. Gapless(liveQueue, Takes) /\ Published \subseteq Takes \cup ToSet(liveQueue)
      BY <2>2 DEF OrderInv, PhaseInv
    <3> QED
      BY <1>0, <1>8, <3>1, GaplessWeakens
  <2>3. UpTo(Events, pageEnd)' = UpTo(Events, pageEnd) /\ GoesOn' = GoesOn
    BY DEF UpTo, GoesOn
  <2> QED
    BY <1>0, <2>1, <2>2, <2>3 DEF OrderInv, PhaseInv
<1> QED
  BY <1>6, <1>7, <1>9 DEF OrderInv

\* An emitter writes an event that has all before it settled.
LEMMA WriteSettles ==
  ASSUME TypeOK, OrderInv, NEW emitter \in {"main", "live"}, NEW e \in Committed, Before(e) \subseteq Settled,
         Write(emitter, e), phase # "closed", UNCHANGED <<log, received, overtaken, phase>>
  PROVE  /\ ClientInv' /\ Settled' = Settled \cup {e} /\ ToSet(Written') \subseteq Committed
         /\ Committed' = Committed /\ seen' = seen
<1>1. e \in Events /\ Events \subseteq Nat
  BY CommittedIsFinite
<1>2. Written' = Append(Written, e)
  <2> DEFINE row == [by |-> emitter, event |-> e]
             n == Len(writes)
  <2>1. /\ n \in Nat /\ DOMAIN writes = 1..n /\ DOMAIN writes' = 1..n + 1
        /\ writes'[n + 1] = row /\ \A i \in 1..n : writes'[i] = writes[i]
    BY DEF TypeOK, Write
  <2>2. Written \in Seq(Events) /\ Len(Written) = n /\ \A i \in 1..n : Written[i] = writes[i].event
    BY <2>1, WrittenTyped
  <2>3. Written' = [i \in 1..n + 1 |-> IF i = n + 1 THEN e ELSE Written[i]]
    BY <2>1, <2>2 DEF Written
  <2> HIDE DEF n
  <2>4. Append(Written, e) = [i \in 1..n + 1 |-> IF i = n + 1 THEN e ELSE Written[i]]
    <3> DEFINE t == Append(Written, e)
    <3>1. t \in Seq(Events) /\ DOMAIN t = 1..n + 1 /\ t[n + 1] = e /\ \A i \in 1..n : t[i] = Written[i]
      BY <1>1, <2>1, <2>2
    <3> HIDE DEF t
    <3>2. t \in [1..n + 1 -> Events]
      <4>1. t \in [1..Len(t) -> Events] /\ DOMAIN t = 1..Len(t)
        BY <3>1
      <4> QED
        BY <3>1, <4>1
    <3>3. \A i \in 1..n + 1 : i = n + 1 \/ i \in 1..n
      BY <2>1
    <3>4. t = [i \in 1..n + 1 |-> IF i = n + 1 THEN e ELSE Written[i]]
      BY <3>1, <3>2, <3>3
    <3> QED
      BY <3>4 DEF t
  <2> QED
    BY <2>3, <2>4
<1>3. Committed' = Committed /\ Excused' = Excused /\ seen' = seen
  BY DEF Committed, Excused
<1>4. Written \in Seq(Events) /\ ToSet(Written') = ToSet(Written) \cup {e}
  BY <1>1, <1>2, WrittenTyped, ToSetOfAppend
<1>5. Settled' = Settled \cup {e}
  BY <1>3, <1>4 DEF Settled
<1>6. Gapless(Written', seen' \cup Excused')
  <2>1. Gapless(Written, seen \cup Excused)
    BY DEF OrderInv, ClientInv
  <2>2. \A d \in Events : d < e => d \in (seen \cup Excused) \cup ToSet(Written)
    BY DEF Before, Settled
  <2> QED
    BY <1>1, <1>2, <1>3, <1>4, <2>1, <2>2, GaplessAppend
<1>7. UpTo(Events, cursor') \subseteq Settled'
  <2> SUFFICES ASSUME NEW d \in Events, d <= e PROVE d \in Settled'
    BY DEF Write, UpTo
  <2>1. d = e \/ d < e
    BY <1>1
  <2> QED
    BY <1>5, <2>1 DEF Before
<1>8. \A c \in seen' : Before(c) \subseteq seen' \cup Excused'
  BY <1>3 DEF OrderInv, ClientInv
<1>9. UpTo(Events, cursor)' = UpTo(Events, cursor')
  BY DEF UpTo
<1> QED
  BY <1>3, <1>4, <1>5, <1>6, <1>7, <1>8, <1>9 DEF ClientInv, OrderInv, AheadInv

LEMMA EmitNextOrder ==
  ASSUME TypeOK, OrderInv, EmitNext
  PROVE  OrderInv'
<1> USE DEF EmitNext
<1>1. /\ inHand \in Committed /\ Before(inHand) \subseteq Settled /\ inHand' = 0
      /\ phase \in {"replay", "live"} /\ cursor' = inHand /\ Published' = Published /\ Before(0) = {}
      /\ 0 \notin Events
  BY NumbersOfEvents DEF OrderInv, AheadInv, PhaseInv, Write, TypeOK, Nothing, Published, Committed
<1>2. /\ ClientInv' /\ Settled' = Settled \cup {inHand} /\ ToSet(Written') \subseteq Committed
      /\ Committed' = Committed /\ seen' = seen
  BY <1>1, WriteSettles
<1>3. Published \subseteq Events
  BY PublishedIsCommitted, CommittedIsFinite
<1>4. AheadInv'
  <2>1. Gapless(rest, Settled' \cup {inHand'})
    <3>1. (Settled \cup {inHand}) \cap Events \subseteq Settled' \cup {inHand'}
      BY <1>2
    <3> QED
      BY <3>1, GaplessWeakens DEF OrderInv, AheadInv
  <2>2. Before(inHand)' = {} /\ Before(liveInHand)' = Before(liveInHand)
    BY <1>1 DEF Before
  <2> QED
    BY <1>1, <1>2, <2>1, <2>2 DEF OrderInv, AheadInv
<1>5. MainTakes \cap Events \subseteq MainTakes' /\ Takes \cap Events \subseteq Takes'
  BY <1>1, <1>2 DEF MainTakes, Takes
<1>6. PhaseInv'
  <2>1. ASSUME phase = "replay" PROVE UpTo(Events, pageEnd) \subseteq MainTakes'
    BY <1>5, <2>1 DEF OrderInv, PhaseInv, UpTo
  <2>2. ASSUME phase = "replay", ~GoesOn
        PROVE  /\ Gapless(buffer, Settled' \cup UpTo(Events, pageEnd))
               /\ Published \subseteq Settled' \cup UpTo(Events, pageEnd) \cup ToSet(buffer)
    <3>1. /\ Gapless(buffer, Settled \cup UpTo(Events, pageEnd))
          /\ Published \subseteq Settled \cup UpTo(Events, pageEnd) \cup ToSet(buffer)
      BY <2>2 DEF OrderInv, PhaseInv
    <3>2. (Settled \cup UpTo(Events, pageEnd)) \cap Events \subseteq Settled' \cup UpTo(Events, pageEnd)
      BY <1>2
    <3> QED
      BY <1>2, <3>1, <3>2, GaplessWeakens
  <2>3. ASSUME phase = "live"
        PROVE  Gapless(liveQueue, Takes') /\ Published \subseteq Takes' \cup ToSet(liveQueue)
    <3>1. Gapless(liveQueue, Takes) /\ Published \subseteq Takes \cup ToSet(liveQueue)
      BY <2>3 DEF OrderInv, PhaseInv
    <3> QED
      BY <1>3, <1>5, <3>1, GaplessWeakens
  <2>4. UpTo(Events, pageEnd)' = UpTo(Events, pageEnd) /\ GoesOn' = GoesOn
    BY DEF UpTo, GoesOn
  <2> QED
    BY <1>1, <2>1, <2>2, <2>3, <2>4 DEF OrderInv, PhaseInv
<1> QED
  BY <1>2, <1>4, <1>6 DEF OrderInv

\* A page ends: the next one follows it, or the buffer does.
LEMMA EndPageOrder ==
  ASSUME TypeOK, OrderInv, EndPage
  PROVE  OrderInv'
<1> USE DEF EndPage
<1>0. Committed' = Committed /\ Published' = Published /\ Written' = Written /\ seen' = seen
      /\ Excused' = Excused /\ Settled' = Settled /\ Published \subseteq Events
  BY PublishedIsCommitted, CommittedIsFinite DEF Committed, Published, Written, Excused, Settled
<1>1. /\ inHand = 0 /\ liveInHand = 0 /\ liveQueue = <<>> /\ ToSet(rest) = {} /\ rest = <<>>
      /\ cursor \in Nat /\ pageEnd \in Nat /\ 0 \notin Events /\ Before(0) = {}
  BY Numbers, GaplessEmpty, NumbersOfEvents DEF OrderInv, PhaseInv, MainIdle
<1>2. UpTo(Events, pageEnd) \subseteq Settled
  BY <1>1 DEF OrderInv, PhaseInv, MainTakes, UpTo
<1>3. cursor' \in Nat /\ cursor' >= pageEnd /\ cursor' \in {cursor, pageEnd}
  BY <1>1, MaxOfTwo
<1>4. ClientInv'
  <2>1. UpTo(Events, cursor') \subseteq Settled
    BY <1>2, <1>3 DEF OrderInv, ClientInv
  <2>2. UpTo(Events, cursor)' = UpTo(Events, cursor')
    BY DEF UpTo
  <2> QED
    BY <1>0, <2>1, <2>2 DEF OrderInv, ClientInv
<1>5. Before(inHand)' = {} /\ Before(liveInHand)' = {}
  BY <1>1 DEF Before
<1>6. CASE GoesOn
  <2>1. AheadInv'
    BY <1>0, <1>1, <1>3, <1>5, <1>6 DEF OrderInv, AheadInv
  <2>2. PhaseInv'
    BY <1>1, <1>3, <1>6 DEF PhaseInv, Nothing
  <2> QED
    BY <1>4, <2>1, <2>2 DEF OrderInv
<1>7. CASE ~GoesOn
  <2>1. /\ Gapless(buffer, Settled \cup UpTo(Events, pageEnd))
        /\ Published \subseteq Settled \cup UpTo(Events, pageEnd) \cup ToSet(buffer)
    BY <1>7 DEF OrderInv, PhaseInv
  <2>2. rest' = buffer /\ phase' = "live" /\ ToSet(buffer') = {} /\ after' = after
    BY <1>7, GaplessEmpty
  <2>3. AheadInv'
    <3>1. (Settled \cup UpTo(Events, pageEnd)) \cap Events \subseteq Settled \cup {inHand}
      BY <1>2
    <3>2. Gapless(buffer, Settled \cup {inHand})
      BY <2>1, <3>1, GaplessWeakens
    <3> QED
      BY <1>0, <1>1, <1>3, <1>5, <2>2, <3>2 DEF OrderInv, AheadInv
  <2>4. Gapless(liveQueue', Takes') /\ Published \subseteq Takes' \cup ToSet(liveQueue')
    BY <1>0, <1>1, <1>2, <2>1, <2>2, GaplessEmpty DEF Takes, MainTakes
  <2>5. PhaseInv'
    BY <1>0, <2>2, <2>4 DEF PhaseInv
  <2> QED
    BY <1>4, <2>3, <2>5 DEF OrderInv
<1> QED
  BY <1>6, <1>7

\* The live emitter looks at its next event: one that is new overtakes what the main
\* loop has not emitted.
LEMMA LookAtLiveOrder ==
  ASSUME TypeOK, OrderInv, LookAtLive
  PROVE  OrderInv'
<1> USE DEF LookAtLive
<1> DEFINE e == Head(liveQueue)
<1>0. Committed' = Committed /\ Published' = Published /\ Written' = Written /\ seen' = seen
      /\ Published \subseteq Events
  BY PublishedIsCommitted, CommittedIsFinite DEF Committed, Published, Written
<1>1. /\ liveQueue \in Seq(Events) /\ liveQueue # <<>> /\ liveQueue' = Tail(liveQueue) /\ e \in Events
      /\ ToSet(liveQueue) = ToSet(liveQueue') \cup {e}
  BY ToSetOfTail, HeadAndTail DEF TypeOK
<1>2. phase = "live" /\ liveInHand = 0 /\ 0 \notin Events /\ cursor \in Nat /\ Events \subseteq Nat /\ Before(0) = {}
  BY Numbers, NumbersOfEvents DEF OrderInv, PhaseInv
<1>3. overtaken \subseteq overtaken' /\ Excused \subseteq Excused' /\ Settled \subseteq Settled'
  <2>1. overtaken \subseteq overtaken'
    BY DEF Overtakes
  <2> QED
    BY <1>0, <2>1 DEF Excused, Settled
<1>4. /\ \A d \in Events : d < e => d \in Takes
      /\ \A T : (Takes \cup {e}) \cap Events \subseteq T => Gapless(Tail(liveQueue), T)
  <2>1. Gapless(liveQueue, Takes)
    BY <1>2 DEF OrderInv, PhaseInv
  <2> QED
    BY <1>1, <2>1, GaplessHead
<1>5. \/ liveInHand' = e /\ Before(e) \subseteq Settled'
      \/ liveInHand' = 0 /\ e \in Settled
  <2>1. CASE IsNew(e)
    <3>1. overtaken' = overtaken \cup {d \in Behind : d < e} /\ liveInHand' = e
      BY <2>1 DEF Overtakes
    <3>2. ASSUME NEW d \in Events, d < e, d \notin Settled PROVE d \in overtaken'
      BY <1>2, <1>4, <3>1, <3>2 DEF Takes, MainTakes, Behind, Nothing
    <3> QED
      BY <1>3, <3>1, <3>2 DEF Before, Settled, Excused
  <2>2. CASE ~IsNew(e)
    <3>1. e \in UpTo(Events, cursor)
      <4>0. e \in Nat /\ cursor \in Nat /\ ~(e > cursor)
        BY <1>1, <1>2, <2>2 DEF IsNew
      <4>1. e <= cursor
        <5> HIDE DEF e
        <5> QED
          BY <4>0
      <4> QED
        BY <1>1, <4>1 DEF UpTo
    <3> QED
      BY <1>2, <2>2, <3>1 DEF OrderInv, ClientInv, Nothing
  <2> QED
    BY <2>1, <2>2
<1>6. ClientInv'
  <2>1. Gapless(Written, seen \cup Excused')
    <3>1. (seen \cup Excused) \cap Events \subseteq seen \cup Excused'
      BY <1>3
    <3> QED
      BY <3>1, GaplessWeakens DEF OrderInv, ClientInv
  <2>2. UpTo(Events, cursor)' = UpTo(Events, cursor)
    BY DEF UpTo
  <2> QED
    BY <1>0, <1>3, <2>1, <2>2 DEF OrderInv, ClientInv
<1>7. AheadInv'
  <2>1. Gapless(rest, Settled' \cup {inHand})
    <3>1. (Settled \cup {inHand}) \cap Events \subseteq Settled' \cup {inHand}
      BY <1>3
    <3> QED
      BY <3>1, GaplessWeakens DEF OrderInv, AheadInv
  <2>2. e \in Committed /\ ToSet(liveQueue') \subseteq Committed
    BY <1>1 DEF OrderInv, AheadInv
  <2>3. Before(inHand)' = Before(inHand) /\ Before(liveInHand)' = Before(liveInHand')
    BY DEF Before
  <2>4. Before(liveInHand') \subseteq Settled'
    BY <1>2, <1>5
  <2> QED
    BY <1>0, <1>3, <1>5, <2>1, <2>2, <2>3, <2>4 DEF OrderInv, AheadInv
<1>8. (Takes \cup {e}) \cap Events \subseteq Takes'
  BY <1>2, <1>3, <1>5 DEF Takes, MainTakes
<1>9. Gapless(liveQueue', Takes') /\ Published \subseteq Takes' \cup ToSet(liveQueue')
  <2>1. Published \subseteq Takes \cup ToSet(liveQueue)
    BY <1>2 DEF OrderInv, PhaseInv
  <2> QED
    BY <1>0, <1>1, <1>4, <1>8, <2>1
<1>10. PhaseInv'
  BY <1>0, <1>2, <1>9 DEF PhaseInv
<1> QED
  BY <1>6, <1>7, <1>10 DEF OrderInv

LEMMA EmitLiveOrder ==
  ASSUME TypeOK, OrderInv, EmitLive
  PROVE  OrderInv'
<1> USE DEF EmitLive
<1>1. /\ liveInHand \in Committed /\ Before(liveInHand) \subseteq Settled /\ liveInHand' = 0
      /\ phase = "live" /\ cursor' = liveInHand /\ Published' = Published /\ Before(0) = {}
      /\ 0 \notin Events
  BY NumbersOfEvents DEF OrderInv, AheadInv, PhaseInv, Write, TypeOK, Nothing, Published, Committed
<1>2. /\ ClientInv' /\ Settled' = Settled \cup {liveInHand} /\ ToSet(Written') \subseteq Committed
      /\ Committed' = Committed /\ seen' = seen
  BY <1>1, WriteSettles
<1>3. Published \subseteq Events
  BY PublishedIsCommitted, CommittedIsFinite
<1>4. AheadInv'
  <2>1. Gapless(rest, Settled' \cup {inHand})
    <3>1. (Settled \cup {inHand}) \cap Events \subseteq Settled' \cup {inHand}
      BY <1>2
    <3> QED
      BY <3>1, GaplessWeakens DEF OrderInv, AheadInv
  <2>2. Before(inHand)' = Before(inHand) /\ Before(liveInHand)' = {}
    BY <1>1 DEF Before
  <2> QED
    BY <1>1, <1>2, <2>1, <2>2 DEF OrderInv, AheadInv
<1>5. Takes \cap Events \subseteq Takes'
  BY <1>1, <1>2 DEF MainTakes, Takes
<1>6. PhaseInv'
  <2>1. Gapless(liveQueue, Takes) /\ Published \subseteq Takes \cup ToSet(liveQueue)
    BY <1>1 DEF OrderInv, PhaseInv
  <2> QED
    BY <1>1, <1>3, <1>5, <2>1, GaplessWeakens DEF PhaseInv
<1> QED
  BY <1>2, <1>4, <1>6 DEF OrderInv

LEMMA NextOrder == TypeOK /\ OrderInv /\ [Next]_vars => OrderInv'
<1> SUFFICES ASSUME TypeOK, OrderInv, [Next]_vars PROVE OrderInv'
  OBVIOUS
<1>0. CASE UNCHANGED vars
  BY <1>0
     DEF vars, OrderInv, ClientInv, AheadInv, PhaseInv, Committed, Published, MainTakes,
         Takes, GoesOn, Gapless, Before, UpTo, Settled, Excused, Written
<1>1. CASE Disconnect
  BY <1>1, CleanupOrder DEF Disconnect
<1>2. ASSUME NEW e \in Events, Reply(e) PROVE OrderInv'
  BY <1>2, ReplyPublishes, PublicationOrder
<1>3. CASE Notify
  BY <1>3, NotifyPublishes, PublicationOrder
<1> QED
  BY <1>0, <1>1, <1>2, <1>3, ConnectOrder, ReceiveOrder, AppendOrder, ReadPageOrder,
     LookAtNextOrder, EmitNextOrder, EndPageOrder, LookAtLiveOrder, EmitLiveOrder
     DEF Next

THEOREM StreamInvariant == Spec => [](TypeOK /\ OrderInv)
  BY InitOrder, NextOrder, StreamTyped, PTL DEF Spec

\* What the client will not get, because it resumes after it or its stream is quiet, was
\* overtaken (writeEventStream, EventService.append): pages, overflows of the buffer,
\* reconnects and the hand-over from the replay lose no event.
THEOREM OnlyTheOvertakenAreMissed == Spec => []MissingWereOvertaken
<1>1. TypeOK /\ OrderInv => MissingWereOvertaken
  <2> SUFFICES ASSUME TypeOK, OrderInv, NEW e \in Committed, e \notin seen, e < LastSeen \/ Quiet
               PROVE  e \in overtaken
    BY DEF MissingWereOvertaken
  <2>1. e \in Events /\ e \notin Events \ Committed /\ 0 \notin Events /\ Events \subseteq Nat
    BY CommittedIsFinite, NumbersOfEvents
  <2>2. CASE e < LastSeen
    <3>1. LastSeen \in seen
      BY <2>1, <2>2, LastSeenIs
    <3>2. e \in seen \cup Excused
      BY <2>1, <2>2, <3>1 DEF OrderInv, ClientInv, Before
    <3> QED
      BY <2>1, <3>2 DEF Excused
  <2>3. CASE Quiet
    <3>1. e \in Published
      BY <2>3 DEF Quiet, Published, Committed, ToSet, TypeOK
    <3>2. Written = <<>>
      BY <2>3 DEF Quiet, Written
    <3>3. Published \subseteq Settled \cup {0}
      BY <2>3, GaplessEmpty DEF OrderInv, PhaseInv, Quiet, Takes, MainTakes, Nothing
    <3> QED
      BY <2>1, <3>1, <3>2, <3>3, GaplessEmpty DEF Settled, Excused
  <2> QED
    BY <2>2, <2>3
<1> QED
  BY <1>1, StreamInvariant, PTL

-----------------------------------------------------------------------------
(* Repetition.                                                              *)

\* What the emitters hold, and what is written, comes after what the client has.
IsAhead ==
  /\ LastSeen <= cursor
  /\ \A i \in DOMAIN writes : LastSeen < writes[i].event /\ writes[i].event <= cursor
  /\ \A i, j \in DOMAIN writes : i < j => writes[i].event < writes[j].event
  /\ inHand # Nothing => inHand > cursor
  /\ liveInHand # Nothing => liveInHand > cursor /\ inHand = Nothing /\ rest = <<>>

RepeatInv == ~crossed /\ phase # "closed" => IsAhead

\* The writes are a sequence of rows with events, which are numbers.
LEMMA Rows ==
  ASSUME TypeOK
  PROVE  /\ Len(writes) \in Nat /\ DOMAIN writes = 1..Len(writes)
         /\ \A i \in DOMAIN writes : writes[i].event \in Nat
         /\ LastSeen \in Nat
<1>1. \A i \in DOMAIN writes : writes[i].event \in Events
  BY WrittenTyped
<1>2. Len(writes) \in Nat /\ DOMAIN writes = 1..Len(writes)
  BY DEF TypeOK
<1> QED
  BY <1>1, <1>2, NumbersOfEvents, LastSeenIs

LEMMA ReceiveIsAhead ==
  ASSUME TypeOK, TypeOK', IsAhead, Receive
  PROVE  IsAhead'
<1> DEFINE e == Head(writes).event
           n == Len(writes)
<1>1. /\ n \in Nat \ {0} /\ DOMAIN writes = 1..n /\ DOMAIN writes' = 1..n - 1
      /\ e = writes[1].event /\ \A i \in 1..n - 1 : writes'[i] = writes[i + 1]
  <2>1. writes # <<>> /\ writes \in Seq([by : {"main", "live"}, event : Events])
    BY DEF Receive, TypeOK
  <2> QED
    BY <2>1, HeadAndTail DEF Receive
<1>2. \A i \in 1..n : writes[i].event \in Nat
  BY <1>1, Rows
<1>3. 1 \in 1..n /\ \A i \in 1..n - 1 : i + 1 \in 1..n /\ 1 < i + 1
  BY <1>1
<1>4. LastSeen' = e
  <2>0. seen' \subseteq Events
    BY DEF TypeOK, ToSet
  <2>1. seen' = seen \cup {e}
    <3>1. received \in Seq(Events) /\ e \in Events /\ received' = Append(received, e)
      <4>1. Written[1] = e /\ Written[1] \in Events
        BY <1>1, <1>3, WrittenTyped
      <4> QED
        BY <1>1, <4>1 DEF Receive, TypeOK
    <3> HIDE DEF e
    <3> QED
      BY <3>1, ToSetOfAppend
  <2>2. LastSeen' \in seen' \cup {0} /\ LastSeen' \in Nat /\ \A d \in seen' : d <= LastSeen'
    BY <2>0, HighestOf DEF LastSeen
  <2>3. LastSeen \in Nat /\ \A d \in seen : d <= LastSeen
    BY LastSeenIs
  <2>4. e > LastSeen /\ e \in Nat
    BY <1>1, <1>2, <1>3, <2>3 DEF IsAhead
  <2> HIDE DEF e
  <2>5. e <= LastSeen'
    BY <2>1, <2>2
  <2>6. LastSeen' \in seen => LastSeen' <= LastSeen
    BY <2>3
  <2> QED
    BY <2>1, <2>2, <2>3, <2>4, <2>5, <2>6
<1>5. cursor' = cursor /\ inHand' = inHand /\ liveInHand' = liveInHand /\ rest' = rest
  BY DEF Receive
<1> HIDE DEF e, n
<1>6. \A i \in 1..n - 1 : e < writes[i + 1].event /\ writes[i + 1].event <= cursor
  BY <1>1, <1>3 DEF IsAhead
<1>7. \A i, j \in 1..n - 1 : i < j => writes[i + 1].event < writes[j + 1].event
  <2> SUFFICES ASSUME NEW i \in 1..n - 1, NEW j \in 1..n - 1, i < j
               PROVE  writes[i + 1].event < writes[j + 1].event
    OBVIOUS
  <2>1. i + 1 \in 1..n /\ j + 1 \in 1..n /\ i + 1 < j + 1
    BY <1>1
  <2> QED
    BY <1>1, <2>1 DEF IsAhead
<1>8. e <= cursor
  BY <1>1, <1>3 DEF IsAhead
<1> QED
  BY <1>1, <1>4, <1>5, <1>6, <1>7, <1>8 DEF IsAhead

\* A new event is written after the others.
LEMMA WriteIsAhead ==
  ASSUME TypeOK, IsAhead, NEW emitter, NEW e \in Nat, e > cursor, Write(emitter, e), seen' = seen
  PROVE  /\ LastSeen' <= cursor'
         /\ \A i \in DOMAIN writes' : LastSeen' < writes'[i].event /\ writes'[i].event <= cursor'
         /\ \A i, j \in DOMAIN writes' : i < j => writes'[i].event < writes'[j].event
<1> DEFINE n == Len(writes)
<1>1. /\ n \in Nat /\ DOMAIN writes = 1..n /\ DOMAIN writes' = 1..n + 1
      /\ writes'[n + 1].event = e /\ \A i \in 1..n : writes'[i] = writes[i]
  <2>1. writes \in Seq([by : {"main", "live"}, event : Events])
    BY DEF TypeOK
  <2> QED
    BY <2>1 DEF Write
<1>2. LastSeen' = LastSeen /\ cursor' = e /\ cursor \in Nat /\ LastSeen \in Nat
  BY Numbers, Rows DEF LastSeen, Write
<1>3. \A i \in 1..n : writes[i].event \in Nat /\ LastSeen < writes[i].event /\ writes[i].event <= cursor
  BY <1>1, Rows DEF IsAhead
<1>4. \A i, j \in 1..n : i < j => writes[i].event < writes[j].event
  BY <1>1 DEF IsAhead
<1>5. LastSeen <= cursor
  BY DEF IsAhead
<1> HIDE DEF n
<1>6. \A i \in 1..n + 1 : i = n + 1 \/ i \in 1..n
  BY <1>1
<1>7. \A i \in 1..n + 1 : LastSeen < writes'[i].event /\ writes'[i].event <= e
  <2> SUFFICES ASSUME NEW i \in 1..n + 1 PROVE LastSeen < writes'[i].event /\ writes'[i].event <= e
    OBVIOUS
  <2>1. CASE i = n + 1
    BY <1>1, <1>2, <1>5, <2>1
  <2>2. CASE i \in 1..n
    <3>1. writes'[i] = writes[i] /\ writes[i].event \in Nat
          /\ LastSeen < writes[i].event /\ writes[i].event <= cursor
      BY <1>1, <1>3, <2>2
    <3> QED
      BY <1>2, <3>1
  <2> QED
    BY <1>6, <2>1, <2>2
<1>8. ASSUME NEW i \in 1..n + 1, NEW j \in 1..n + 1, i < j PROVE writes'[i].event < writes'[j].event
  <2>1. i \in 1..n
    BY <1>1, <1>8
  <2>2. CASE j = n + 1
    <3>1. writes'[i] = writes[i] /\ writes[i].event \in Nat /\ writes[i].event <= cursor
      BY <1>1, <1>3, <2>1
    <3> QED
      BY <1>1, <1>2, <2>2, <3>1
  <2>3. CASE j \in 1..n
    BY <1>1, <1>4, <1>8, <2>1, <2>3
  <2> QED
    BY <1>6, <2>2, <2>3
<1> QED
  BY <1>1, <1>2, <1>5, <1>7, <1>8

\* Publication leaves the emitters alone, or closes the stream.
LEMMA PublicationIsAhead ==
  ASSUME RepeatInv, NEW e, Publish(e), received' = received
  PROVE  RepeatInv'
<1>1. crossed' = crossed /\ WriteEvent(e)
  BY DEF Publish
<1>2. CASE Cleanup
  BY <1>2 DEF Cleanup, RepeatInv
<1>3. CASE UNCHANGED <<phase, cursor, writes, inHand, liveInHand, rest>>
  BY <1>1, <1>3 DEF RepeatInv, IsAhead, LastSeen
<1> QED
  BY <1>1, <1>2, <1>3 DEF WriteEvent

LEMMA NextIsAhead == TypeOK /\ TypeOK' /\ OrderInv /\ RepeatInv /\ [Next]_vars => RepeatInv'
<1> SUFFICES ASSUME TypeOK, TypeOK', OrderInv, RepeatInv, [Next]_vars, ~crossed', phase' # "closed"
             PROVE  IsAhead'
  BY DEF RepeatInv
<1>0. CASE UNCHANGED <<phase, cursor, writes, inHand, liveInHand, rest, received, crossed>>
  BY <1>0 DEF RepeatInv, IsAhead, LastSeen
<1>1. CASE Connect
  <2>1. writes = <<>> /\ inHand = Nothing /\ liveInHand = Nothing
    BY <1>1 DEF Connect, OrderInv, ClientInv, PhaseInv
  <2>2. DOMAIN writes = {}
    BY <2>1
  <2> QED
    BY <1>1, <2>1, <2>2, LastSeenIs DEF Connect, IsAhead, LastSeen
<1>2. CASE Disconnect
  BY <1>2 DEF Disconnect, Cleanup
<1>3. CASE Receive
  <2>1. IsAhead
    <3>1. crossed' = crossed /\ phase' = phase
      BY <1>3 DEF Receive
    <3> QED
      BY <3>1 DEF RepeatInv
  <2> QED
    BY <1>3, <2>1, ReceiveIsAhead
<1>4. ASSUME NEW e \in Events, Reply(e) PROVE IsAhead'
  <2>1. Publish(e) /\ received' = received
    BY <1>4 DEF Reply
  <2> QED
    BY <2>1, PublicationIsAhead DEF RepeatInv
<1>5. CASE Notify
  <2>1. Publish(log[heard + 1]) /\ received' = received
    BY <1>5 DEF Notify
  <2> QED
    BY <2>1, PublicationIsAhead DEF RepeatInv
<1>6. CASE ReadPage
  <2>1. IsAhead /\ liveInHand = Nothing
    BY <1>6 DEF ReadPage, RepeatInv, OrderInv, PhaseInv, Nothing
  <2> QED
    BY <1>6, <2>1 DEF ReadPage, IsAhead, LastSeen
<1>7. CASE LookAtNext
  <2>1. IsAhead /\ liveInHand = Nothing
    BY <1>7 DEF LookAtNext, RepeatInv, IsAhead
  <2>2. inHand' = Nothing \/ inHand' > cursor
    BY <1>7 DEF LookAtNext, IsNew
  <2> QED
    BY <1>7, <2>1, <2>2 DEF LookAtNext, IsAhead, LastSeen
<1>8. CASE EmitNext
  <2>1. IsAhead /\ liveInHand = Nothing /\ inHand > cursor /\ inHand' = Nothing /\ liveInHand' = liveInHand
    BY <1>8 DEF EmitNext, RepeatInv, IsAhead, MainIdle, Waiting
  <2>2. Write("main", inHand) /\ seen' = seen /\ inHand \in Nat
    BY <1>8, Numbers DEF EmitNext
  <2> QED
    BY <2>1, <2>2, WriteIsAhead DEF IsAhead
<1>9. CASE EndPage
  <2>1. IsAhead /\ liveInHand = Nothing /\ inHand = Nothing
    BY <1>9 DEF EndPage, RepeatInv, OrderInv, PhaseInv, MainIdle, Nothing
  <2>2. cursor \in Nat /\ cursor' \in Nat /\ cursor <= cursor'
    BY <1>9, Numbers, MaxOfTwo DEF EndPage
  <2>3. /\ LastSeen' = LastSeen /\ LastSeen \in Nat /\ writes' = writes
        /\ inHand' = inHand /\ liveInHand' = liveInHand
    BY <1>9, LastSeenIs DEF EndPage, LastSeen
  <2>4. LastSeen <= cursor'
    BY <2>1, <2>2, <2>3 DEF IsAhead
  <2>5. \A i \in DOMAIN writes : LastSeen < writes[i].event /\ writes[i].event <= cursor'
    BY <2>1, <2>2, Rows DEF IsAhead
  <2> QED
    BY <2>1, <2>3, <2>4, <2>5 DEF IsAhead
<1>10. CASE LookAtLive
  <2>1. IsAhead /\ phase = "live"
    BY <1>10 DEF LookAtLive, RepeatInv, OrderInv, PhaseInv
  <2>2. CASE IsNew(Head(liveQueue))
    <3>1. Behind = {} /\ liveInHand' > cursor
      BY <1>10, <2>2 DEF LookAtLive, IsNew
    <3>2. inHand = Nothing
      BY <3>1 DEF Behind
    <3>3. rest = <<>>
      <4>1. rest \in Seq(Events)
        BY DEF TypeOK
      <4>2. ASSUME rest # <<>> PROVE FALSE
        <5>1. Head(rest) \in Events /\ Head(rest) = rest[1] /\ 1 \in DOMAIN rest
          BY <4>1, <4>2, HeadAndTail
        <5>2. Head(rest) \in ToSet(rest) /\ Head(rest) # Nothing
          BY <5>1, Numbers DEF ToSet
        <5> QED
          BY <3>1, <5>2 DEF Behind
      <4> QED
        BY <4>2
    <3> QED
      BY <1>10, <2>1, <3>1, <3>2, <3>3 DEF LookAtLive, IsAhead, LastSeen
  <2>3. CASE ~IsNew(Head(liveQueue))
    BY <1>10, <2>1, <2>3 DEF LookAtLive, IsAhead, LastSeen
  <2> QED
    BY <2>2, <2>3
<1>11. CASE EmitLive
  <2>1. IsAhead /\ inHand = Nothing /\ liveInHand > cursor /\ liveInHand' = Nothing /\ inHand' = inHand
    BY <1>11 DEF EmitLive, RepeatInv, IsAhead, OrderInv, PhaseInv
  <2>2. Write("live", liveInHand) /\ seen' = seen /\ liveInHand \in Nat
    BY <1>11, Numbers DEF EmitLive
  <2> QED
    BY <2>1, <2>2, WriteIsAhead DEF IsAhead
<1>12. ASSUME NEW e \in Events, AppendEvent(e) PROVE IsAhead'
  BY <1>0, <1>12 DEF AppendEvent
<1>13. CASE UNCHANGED vars
  BY <1>0, <1>13 DEF vars
<1> QED
  BY <1>1, <1>2, <1>3, <1>4, <1>5, <1>6, <1>7, <1>8, <1>9, <1>10, <1>11, <1>12, <1>13 DEF Next

\* The client gets nothing twice, and nothing out of order, in a connection in which
\* the live emitter never took an event before the main loop was done (emitEvent,
\* sequenceAfter): not from a page, not from an event that is both replied and
\* notified, and not by reconnecting.
THEOREM OnlyTheCrossedAreRepeated == Spec => []RepeatedWereCrossed
<1>1. Init => RepeatInv
  BY DEF Init, RepeatInv
<1>2. TypeOK /\ OrderInv /\ RepeatInv => RepeatedWereCrossed
  <2> SUFFICES ASSUME TypeOK, OrderInv, RepeatInv, ~crossed, NEW i \in DOMAIN writes
               PROVE  writes[i].event > (IF i = 1 THEN LastSeen ELSE writes[i - 1].event)
    BY DEF RepeatedWereCrossed
  <2>1. phase # "closed"
    BY DEF OrderInv, ClientInv
  <2>2. IsAhead
    BY <2>1 DEF RepeatInv
  <2>3. i = 1 \/ (i - 1 \in DOMAIN writes /\ i - 1 < i)
    BY Rows
  <2> QED
    BY <2>2, <2>3, Rows DEF IsAhead
<1> QED
  BY <1>1, <1>2, NextIsAhead, StreamInvariant, PTL DEF Spec

=============================================================================
