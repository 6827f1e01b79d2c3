---------------------------- MODULE DeputyProofs ----------------------------
(***************************************************************************)
(* What holds of sessions that spawn sessions for any number of children,   *)
(* runs, calls, requests and faults: the shape of the rows, that the root   *)
(* hears once of a child whose context nobody writes back from a stale      *)
(* copy, and that no run creates more children than its budget allows but   *)
(* for those it did not hear of.                                            *)
(***************************************************************************)
EXTENDS Deputies, FiniteSetTheorems, SequenceTheorems, TLAPS

USE DEF sessionVars, spawnVars, told

-----------------------------------------------------------------------------
(* The shape of the rows.                                                    *)

\* What is under way names a session, a run and a child.
Linked ==
    /\ \A r \in Runs : run[r].step # "unused" => run[r].session \in Sessions
    /\ \A u \in Requests : request[u].step \in {"write", "insert"} => request[u].session \in Sessions
    /\ \A k \in Calls : call[k].step # "idle" =>
          call[k].run \in Runs /\ call[k].child \in Children /\ run[call[k].run].step # "unused"

Shaped == TypeOK /\ Linked

LEMMA InitShaped == Init => Shaped
<1> SUFFICES ASSUME Init PROVE Shaped
  OBVIOUS
<1> USE NamesAssumption, LimitsAssumption DEF Init
<1>1. NewRun \in RunRow /\ IdleCall \in CallRow /\ NewRequest \in RequestRow
  BY DEF NewRun, IdleCall, NewRequest, RunRow, CallRow, RequestRow, RunSteps
<1>2. queue \in [Sessions -> Seq(BOOLEAN)]
  <2>1. <<FALSE>> \in Seq(BOOLEAN) /\ <<>> \in Seq(BOOLEAN)
    OBVIOUS
  <2> QED
    BY <2>1, Zenon
<1>3. TypeOK
  BY <1>1, <1>2 DEF TypeOK
<1>4. Linked
  BY DEF Linked, NewRun, IdleCall, NewRequest
<1> QED
  BY <1>3, <1>4 DEF Shaped

LEMMA RunRows ==
  ASSUME NEW row \in RunRow, NEW st \in RunSteps, NEW b \in BOOLEAN
  PROVE  /\ [row EXCEPT !.step = st] \in RunRow
         /\ [row EXCEPT !.step = st, !.copy = b] \in RunRow
         /\ [row EXCEPT !.step = st, !.batch = <<>>] \in RunRow
         /\ [row EXCEPT !.batch = <<>>] \in RunRow
<1>0. <<>> \in Seq(BOOLEAN)
  OBVIOUS
<1>1. [row EXCEPT !.step = st] \in RunRow
  BY DEF RunRow
<1>2. [row EXCEPT !.step = st, !.copy = b] \in RunRow
  BY DEF RunRow
<1>3. [row EXCEPT !.step = st, !.batch = <<>>] \in RunRow
  BY <1>0 DEF RunRow
<1>4. [row EXCEPT !.batch = <<>>] \in RunRow
  BY <1>0 DEF RunRow
<1> QED
  BY <1>1, <1>2, <1>3, <1>4

\* A step that replaces the row of one run and leaves calls and requests alone.
Moves(r, row) == run' = [run EXCEPT ![r] = row] /\ UNCHANGED <<call, request>>

LEMMA MovesShaped ==
  ASSUME Shaped, NEW r \in Runs, NEW row \in RunRow, Moves(r, row),
         row.session \in Sessions, row.step # "unused"
  PROVE  Linked' /\ run' \in [Runs -> RunRow]
  BY DEF Shaped, TypeOK, Linked, Moves

\* A write of the context of a session, and one guarded by a run.
LEMMA WriteShaped ==
  ASSUME Shaped, NEW s \in Sessions, NEW marker \in BOOLEAN, WriteContext(s, marker)
  PROVE  asked' \in [Sessions -> BOOLEAN] /\ stale' \in SUBSET Sessions
<1>1. asked' \in [Sessions -> BOOLEAN]
  BY Zenon DEF Shaped, TypeOK, WriteContext
<1>2. stale' \in SUBSET Sessions
  BY DEF Shaped, TypeOK, WriteContext
<1> QED
  BY <1>1, <1>2

LEMMA WritesShaped ==
  ASSUME Shaped, NEW r \in Runs, run[r].session \in Sessions, NEW marker \in BOOLEAN,
         WriteForRun(r, marker)
  PROVE  asked' \in [Sessions -> BOOLEAN] /\ stale' \in SUBSET Sessions
<1>1. CASE WriteContext(run[r].session, marker)
  BY <1>1, WriteShaped
<1>2. CASE UNCHANGED <<asked, stale>>
  BY <1>2 DEF Shaped, TypeOK
<1> QED
  BY <1>1, <1>2 DEF WriteForRun

\* The prefix a claim takes, and what it leaves.
LEMMA SplitQueue ==
  ASSUME NEW q \in Seq(BOOLEAN), NEW n \in 1..Len(q)
  PROVE  /\ SubSeq(q, 1, n) \in Seq(BOOLEAN) /\ SubSeq(q, n + 1, Len(q)) \in Seq(BOOLEAN)
         /\ q[n] \in BOOLEAN
<1>1. Len(q) \in Nat /\ n \in 1..Len(q) /\ n \in Nat
  OBVIOUS
<1>2. \A i \in 1..Len(q) : q[i] \in BOOLEAN
  BY ElementOfSeq
<1> QED
  BY <1>1, <1>2, SubSeqProperties

LEMMA WorkShaped ==
  ASSUME Shaped, NEW r \in Runs, Work(r) \/ AgentUpdatesContext(r)
  PROVE  Shaped'
<1> USE DEF Shaped, TypeOK
<1>0. run[r] \in RunRow
  OBVIOUS
<1>a. run[r].copy \in BOOLEAN /\ run[r].ctx \in BOOLEAN /\ run[r].batch \in Seq(BOOLEAN)
  BY <1>0 DEF RunRow
<1>b. run[r].step # "unused" => run[r].session \in Sessions
  BY DEF Linked
<1>1. CASE Begin(r)
  <2> PICK clears \in BOOLEAN :
         run' = [run EXCEPT ![r] = [run[r] EXCEPT !.step = IF clears THEN "clear" ELSE "running",
                                                  !.copy = asked[run[r].session]]]
    BY <1>1 DEF Begin
  <2> DEFINE row == [run[r] EXCEPT !.step = IF clears THEN "clear" ELSE "running",
                                   !.copy = asked[run[r].session]]
  <2>1. asked[run[r].session] \in BOOLEAN /\ (IF clears THEN "clear" ELSE "running") \in RunSteps
    BY <1>1, <1>b DEF Begin, RunSteps
  <2>2. row \in RunRow
    BY <1>0, <2>1, RunRows
  <2>3. row.session \in Sessions /\ row.step # "unused"
    BY <1>0, <1>1, <1>b DEF Begin, RunRow
  <2>4. Moves(r, row)
    BY <1>1 DEF Begin, Moves
  <2>5. Linked' /\ run' \in [Runs -> RunRow]
    BY <2>2, <2>3, <2>4, MovesShaped
  <2> QED
    BY <1>1, <2>5 DEF Begin
<1>2. CASE ClearServices(r)
  <2> DEFINE row == [run[r] EXCEPT !.step = "running", !.copy = FALSE]
  <2>1. row \in RunRow
    BY <1>0, RunRows DEF RunSteps
  <2>2. row.session \in Sessions /\ row.step # "unused"
    BY <1>0, <1>2, <1>b DEF ClearServices, RunRow
  <2>3. Moves(r, row)
    BY <1>2 DEF ClearServices, Moves
  <2>4. Linked' /\ run' \in [Runs -> RunRow]
    BY <2>1, <2>2, <2>3, MovesShaped
  <2>5. asked' \in [Sessions -> BOOLEAN] /\ stale' \in SUBSET Sessions
    BY <1>2, <1>a, <1>b, WritesShaped DEF ClearServices
  <2> QED
    BY <1>2, <2>4, <2>5 DEF ClearServices
<1>3. ASSUME NEW o \in Outcomes, Settle(r, o)
      PROVE  Shaped'
  <2> DEFINE row == [run[r] EXCEPT !.step = "consume", !.batch = <<>>]
             markers == {run[r].batch[i] : i \in 1..Len(run[r].batch)}
  <2>1. row \in RunRow
    BY <1>0, RunRows DEF RunSteps
  <2>2. row.session \in Sessions /\ row.step # "unused"
    BY <1>0, <1>3, <1>b DEF Settle, RunRow
  <2>3. Moves(r, row)
    BY <1>3 DEF Settle, Moves
  <2>4. Linked' /\ run' \in [Runs -> RunRow]
    BY <2>1, <2>2, <2>3, MovesShaped
  <2>5. markers \subseteq BOOLEAN
    <3>1. \A i \in 1..Len(run[r].batch) : run[r].batch[i] \in BOOLEAN
      BY <1>a, ElementOfSeq
    <3> QED
      BY <3>1
  <2>6. failed' = failed \/ failed' = [failed EXCEPT ![run[r].session] = failed[run[r].session] \cup markers]
    BY <1>3 DEF Settle
  <2> HIDE DEF markers
  <2>7. failed' \in [Sessions -> SUBSET BOOLEAN]
    BY <2>5, <2>6
  <2>8. active' \in [Sessions -> Runs \cup {None}]
    BY <1>3 DEF Settle
  <2> QED
    BY <1>3, <2>4, <2>7, <2>8 DEF Settle
<1>4. CASE Quit(r)
  <2> DEFINE row == [run[r] EXCEPT !.step = "over", !.batch = <<>>]
  <2>1. row \in RunRow
    BY <1>0, RunRows DEF RunSteps
  <2>2. row.session \in Sessions /\ row.step # "unused"
    BY <1>0, <1>4, <1>b DEF Quit, RunRow
  <2>3. Moves(r, row)
    BY <1>4 DEF Quit, Moves
  <2>4. Linked' /\ run' \in [Runs -> RunRow]
    BY <2>1, <2>2, <2>3, MovesShaped
  <2> QED
    BY <1>4, <2>4 DEF Quit
<1>5. CASE AgentUpdatesContext(r)
  <2>1. asked' \in [Sessions -> BOOLEAN] /\ stale' \in SUBSET Sessions
    BY <1>5, <1>a, <1>b, WritesShaped DEF AgentUpdatesContext
  <2>2. UNCHANGED <<run, call, request>>
    BY <1>5 DEF AgentUpdatesContext
  <2>3. Linked'
    BY <2>2 DEF Linked
  <2> QED
    BY <1>5, <2>1, <2>3 DEF AgentUpdatesContext
<1> QED
  BY <1>1, <1>2, <1>3, <1>4, <1>5 DEF Work

LEMMA NotifyShaped ==
  ASSUME Shaped, NEW r \in Runs, Notify(r)
  PROVE  Shaped'
<1> USE DEF Shaped, TypeOK
<1>0. run[r] \in RunRow
  OBVIOUS
<1>1. \E st \in RunSteps \ {"unused"} :
        \/ Moves(r, [run[r] EXCEPT !.step = st])
        \/ Moves(r, [run[r] EXCEPT !.step = st, !.copy = FALSE])
  BY DEF Notify, ReadMarker, Mark, Tell, InsertNotification, Refuse, Over, RunSteps, Moves
<1>2. run[r].session \in Sessions
  BY DEF Notify, ReadMarker, Mark, Tell, InsertNotification, Linked
<1>3. Linked' /\ run' \in [Runs -> RunRow]
  <2>1. PICK st \in RunSteps \ {"unused"} :
          \/ Moves(r, [run[r] EXCEPT !.step = st])
          \/ Moves(r, [run[r] EXCEPT !.step = st, !.copy = FALSE])
    BY <1>1
  <2>2. /\ [run[r] EXCEPT !.step = st] \in RunRow
        /\ [run[r] EXCEPT !.step = st, !.copy = FALSE] \in RunRow
    BY <1>0, RunRows
  <2>3. /\ [run[r] EXCEPT !.step = st].session = run[r].session
        /\ [run[r] EXCEPT !.step = st, !.copy = FALSE].session = run[r].session
        /\ [run[r] EXCEPT !.step = st].step = st
        /\ [run[r] EXCEPT !.step = st, !.copy = FALSE].step = st
    BY <1>0 DEF RunRow
  <2> QED
    BY <1>2, <2>1, <2>2, <2>3, MovesShaped
<1>4. CASE ReadMarker(r)
  BY <1>4, <1>3 DEF ReadMarker
<1>5. CASE Mark(r)
  <2>1. asked' \in [Sessions -> BOOLEAN] /\ stale' \in SUBSET Sessions /\ excused' \in SUBSET Runs
    <3>1. \/ asked' = asked /\ stale' = stale
          \/ /\ asked' = [asked EXCEPT ![run[r].session] = FALSE]
             /\ stale' \in {stale, stale \cup {run[r].session}}
      BY <1>5 DEF Mark, Consumed
    <3>2. asked' \in [Sessions -> BOOLEAN]
      BY <3>1, Zenon
    <3>3. stale' \in SUBSET Sessions
      BY <1>2, <3>1
    <3>4. excused' \in SUBSET Runs
      BY <1>5 DEF Mark
    <3> QED
      BY <3>2, <3>3, <3>4
  <2> QED
    BY <1>5, <1>3, <2>1 DEF Mark
<1>6. CASE Tell(r)
  <2>1. UNCHANGED <<queue, toldBy>> /\ excused' \in SUBSET Runs
    BY <1>6 DEF Tell, Refuse
  <2> QED
    BY <1>6, <1>3, <2>1 DEF Tell
<1>7. CASE InsertNotification(r)
  <2>1. excused' \in SUBSET Runs
    BY <1>7 DEF InsertNotification, Refuse
  <2>2. Append(queue[Root], FALSE) \in Seq(BOOLEAN)
    BY AppendProperties DEF Sessions
  <2>3. queue' = queue \/ queue' = [queue EXCEPT ![Root] = Append(queue[Root], FALSE)]
    BY <1>7 DEF InsertNotification, Refuse
  <2>4. queue' \in [Sessions -> Seq(BOOLEAN)]
    BY <2>2, <2>3
  <2>5. toldBy' \in [Children -> SUBSET Runs]
    <3>1. \/ toldBy' = toldBy
          \/ toldBy' = [toldBy EXCEPT ![run[r].session] = toldBy[run[r].session] \cup {r}]
      BY <1>7 DEF InsertNotification, Refuse
    <3> QED
      BY <3>1
  <2> QED
    BY <1>7, <1>3, <2>1, <2>4, <2>5 DEF InsertNotification
<1> QED
  BY <1>4, <1>5, <1>6, <1>7 DEF Notify

LEMMA FaultShaped ==
  ASSUME Shaped, NEW r \in Runs, Recover(r) \/ Die(r)
  PROVE  Shaped'
<1> USE LimitsAssumption DEF Shaped, TypeOK
<1>0. run[r] \in RunRow
  OBVIOUS
<1>1. CASE Recover(r)
  <2> DEFINE s == run[r].session
             row == [run[r] EXCEPT !.batch = <<>>]
  <2>1. s \in Sessions /\ run[r].step # "unused"
    BY <1>1 DEF Recover, Owned, Linked
  <2>2. row \in RunRow
    BY <1>0, RunRows DEF RunSteps
  <2>3. row.session \in Sessions /\ row.step # "unused"
    BY <1>0, <2>1 DEF RunRow
  <2>4. Moves(r, row)
    BY <1>1 DEF Recover, Moves
  <2>5. Linked' /\ run' \in [Runs -> RunRow]
    BY <2>2, <2>3, <2>4, MovesShaped
  <2>6. run[r].batch \o queue[s] \in Seq(BOOLEAN)
    BY <1>0, <2>1, ConcatProperties DEF RunRow
  <2>7. queue' = [queue EXCEPT ![s] = run[r].batch \o queue[s]]
    BY <1>1 DEF Recover
  <2>8. queue' \in [Sessions -> Seq(BOOLEAN)]
    BY <2>6, <2>7
  <2>9. active' \in [Sessions -> Runs \cup {None}] /\ faults' \in 0..MaxFaults
    <3>1. active' \in [Sessions -> Runs \cup {None}]
      BY <1>1 DEF Recover
    <3>2. faults' \in 0..MaxFaults
      BY <1>1 DEF Recover
    <3> QED
      BY <3>1, <3>2
  <2> QED
    BY <1>1, <2>5, <2>8, <2>9 DEF Recover
<1>2. CASE Die(r)
  <2> DEFINE row == [run[r] EXCEPT !.step = "over", !.copy = FALSE]
  <2>1. row \in RunRow /\ row.session = run[r].session /\ row.step = "over"
    <3>1. row \in RunRow
      BY <1>0, RunRows DEF RunSteps
    <3>2. row.session = run[r].session /\ row.step = "over"
      BY <1>0 DEF RunRow
    <3> QED
      BY <3>1, <3>2
  <2>2. run' = [run EXCEPT ![r] = row] /\ run[r].session \in Sessions
    BY <1>2 DEF Die, InHand, Linked
  <2>3. IdleCall \in CallRow /\ IdleCall.step = "idle"
    BY DEF IdleCall, CallRow
  <2>4. call' = [k \in Calls |-> IF call[k].run = r THEN IdleCall ELSE call[k]]
    BY <1>2 DEF Die
  <2>5. call' \in [Calls -> CallRow]
    BY <2>3, <2>4
  <2>6. run' \in [Runs -> RunRow] /\ run'[r] = row /\ \A q \in Runs : q # r => run'[q] = run[q]
    BY <2>1, <2>2
  <2>7. UNCHANGED request
    BY <1>2 DEF Die
  <2> HIDE DEF row
  <2>8. Linked'
    BY <2>1, <2>2, <2>3, <2>4, <2>6, <2>7 DEF Linked
  <2>9. lease' \in Calls \cup {None} /\ excused' \in SUBSET Runs /\ faults' \in 0..MaxFaults
    BY <1>2 DEF Die
  <2> QED
    BY <1>2, <2>5, <2>6, <2>8, <2>9 DEF Die
<1> QED
  BY <1>1, <1>2

\* A step that replaces what one request keeps.
LEMMA AskShaped ==
  ASSUME Shaped, NEW u \in Requests, NEW row \in RequestRow,
         row.step \in {"write", "insert"} => row.session \in Sessions,
         request' = [request EXCEPT ![u] = row], UNCHANGED <<run, call>>
  PROVE  Linked' /\ request' \in [Requests -> RequestRow]
  BY DEF Shaped, TypeOK, Linked

LEMMA GoOnShaped ==
  ASSUME Shaped, NEW u \in Requests, request[u].step \in {"write", "insert"},
         GoOn(u, "over") \/ GoOn(u, "insert"), UNCHANGED <<run, call>>
  PROVE  Linked' /\ request' \in [Requests -> RequestRow]
<1> DEFINE none == [NewRequest EXCEPT !.step = "over"]
           more == [request[u] EXCEPT !.step = "insert"]
<1>1. none \in RequestRow /\ none.step = "over"
  BY DEF NewRequest, RequestRow
<1>2. request[u] \in RequestRow /\ request[u].session \in Sessions
  BY DEF Shaped, TypeOK, Linked
<1>3. more \in RequestRow /\ more.session = request[u].session
  BY <1>2 DEF RequestRow
<1>4. request' = [request EXCEPT ![u] = none] \/ request' = [request EXCEPT ![u] = more]
  BY DEF GoOn
<1> HIDE DEF none, more
<1> QED
  BY <1>1, <1>2, <1>3, <1>4, AskShaped

LEMMA RequestShaped ==
  ASSUME Shaped, NEW u \in Requests, RequestStep(u)
  PROVE  Shaped'
<1> USE DEF Shaped, TypeOK
<1>1. ASSUME NEW s \in Sessions, NEW kind \in Kinds, Enqueue(u, s, kind)
      PROVE  Shaped'
  <2> PICK carried \in IF kind = "retry" THEN failed[s] ELSE {asked[s]},
           writes \in IF kind = "retry" THEN BOOLEAN ELSE {kind = "choice"} :
         request' = [request EXCEPT ![u] = [step |-> IF writes THEN "write" ELSE "insert",
                                            session |-> s, copy |-> asked[s],
                                            carried |-> carried, message |-> TRUE]]
    BY <1>1 DEF Enqueue
  <2> DEFINE row == [step |-> IF writes THEN "write" ELSE "insert", session |-> s,
                     copy |-> asked[s], carried |-> carried, message |-> TRUE]
  <2>1. carried \in BOOLEAN /\ asked[s] \in BOOLEAN
    OBVIOUS
  <2>2. row \in RequestRow /\ row.session = s
    BY <2>1 DEF RequestRow
  <2>3. request' = [request EXCEPT ![u] = row]
    OBVIOUS
  <2>4. UNCHANGED <<sessionVars, run, spawnVars, told, faults>>
    BY <1>1 DEF Enqueue
  <2> HIDE DEF row
  <2>5. Linked' /\ request' \in [Requests -> RequestRow]
    BY <2>2, <2>3, <2>4, AskShaped
  <2> QED
    BY <2>4, <2>5
<1>2. ASSUME NEW s \in Sessions, PublishTool(u, s)
      PROVE  Shaped'
  <2> DEFINE row == [NewRequest EXCEPT !.step = "write", !.session = s, !.copy = asked[s]]
  <2>1. row \in RequestRow /\ row.session = s
    BY DEF RequestRow, NewRequest
  <2>2. request' = [request EXCEPT ![u] = row] /\ UNCHANGED <<sessionVars, run, spawnVars, told, faults>>
    BY <1>2 DEF PublishTool
  <2> HIDE DEF row
  <2>3. Linked' /\ request' \in [Requests -> RequestRow]
    BY <2>1, <2>2, AskShaped
  <2> QED
    BY <2>2, <2>3
<1>3. CASE RequestWrites(u)
  <2>1. UNCHANGED <<run, call>> /\ request[u].step = "write" /\ (GoOn(u, "over") \/ GoOn(u, "insert"))
    BY <1>3 DEF RequestWrites
  <2>2. Linked' /\ request' \in [Requests -> RequestRow]
    BY <2>1, GoOnShaped
  <2>3. request[u].session \in Sessions /\ request[u].copy \in BOOLEAN
    BY <2>1 DEF Linked, RequestRow
  <2>4. asked' \in [Sessions -> BOOLEAN] /\ stale' \in SUBSET Sessions
    BY <1>3, <2>3, WriteShaped DEF RequestWrites
  <2> QED
    BY <1>3, <2>2, <2>4 DEF RequestWrites
<1>4. CASE RequestInserts(u)
  <2>1. UNCHANGED <<run, call>> /\ request[u].step = "insert" /\ GoOn(u, "over")
    BY <1>4 DEF RequestInserts
  <2>2. Linked' /\ request' \in [Requests -> RequestRow]
    BY <2>1, GoOnShaped
  <2> DEFINE s == request[u].session
  <2>3. s \in Sessions /\ request[u].carried \in BOOLEAN
    BY <2>1 DEF Linked, RequestRow
  <2>4. Append(queue[s], request[u].carried) \in Seq(BOOLEAN)
    BY <2>3, AppendProperties
  <2>5. queue' = queue \/ queue' = [queue EXCEPT ![s] = Append(queue[s], request[u].carried)]
    BY <1>4 DEF RequestInserts
  <2>6. queue' \in [Sessions -> Seq(BOOLEAN)]
    BY <2>4, <2>5
  <2> QED
    BY <1>4, <2>2, <2>6 DEF RequestInserts
<1> QED
  BY <1>1, <1>2, <1>3, <1>4 DEF RequestStep

LEMMA SessionShaped ==
  ASSUME Shaped, NEW s \in Sessions, SessionStep(s)
  PROVE  Shaped'
<1> USE DEF Shaped, TypeOK
<1>1. ASSUME NEW r \in Runs, NEW n \in 1..Len(queue[s]), Claim(s, r, n)
      PROVE  Shaped'
  <2> DEFINE row == [NewRun EXCEPT !.step = "begin", !.session = s,
                                   !.batch = SubSeq(queue[s], 1, n), !.ctx = queue[s][n]]
             rest == SubSeq(queue[s], n + 1, Len(queue[s]))
  <2>1. /\ SubSeq(queue[s], 1, n) \in Seq(BOOLEAN) /\ rest \in Seq(BOOLEAN)
        /\ queue[s][n] \in BOOLEAN
    BY SplitQueue
  <2>2. row \in RunRow /\ row.session = s /\ row.step = "begin"
    BY <2>1 DEF NewRun, RunRow, RunSteps
  <2>3. /\ run' = [run EXCEPT ![r] = row]
        /\ queue' = [queue EXCEPT ![s] = rest]
        /\ active' = [active EXCEPT ![s] = r]
        /\ UNCHANGED <<status, asked, failed, spawnVars, request, told, faults>>
    BY <1>1 DEF Claim
  <2> HIDE DEF row, rest
  <2>4. Linked' /\ run' \in [Runs -> RunRow]
    BY <2>2, <2>3, MovesShaped DEF Moves
  <2> QED
    BY <2>1, <2>3, <2>4
<1>2. CASE Archive(s)
  <2>1. <<>> \in Seq(BOOLEAN)
    OBVIOUS
  <2> QED
    BY <1>2, <2>1 DEF Archive, Linked
<1>3. CASE Unarchive(s)
  BY <1>3 DEF Unarchive, Linked
<1> QED
  BY <1>1, <1>2, <1>3 DEF SessionStep

LEMMA CallShaped ==
  ASSUME Shaped, NEW k \in Calls, CallStep(k)
  PROVE  Shaped'
<1> USE DEF Shaped, TypeOK
<1>0. IdleCall \in CallRow /\ IdleCall.step = "idle" /\ call[k] \in CallRow
  BY DEF IdleCall, CallRow
<1>1. ASSUME NEW r \in Runs, NEW c \in Children, NEW notify \in BOOLEAN, BeginSpawn(k, r, c, notify)
      PROVE  Shaped'
  <2> DEFINE row == [step |-> "wait", run |-> r, child |-> c, notify |-> notify]
  <2>1. row \in CallRow /\ row.run = r /\ row.child = c
    BY DEF CallRow
  <2>2. /\ call' = [call EXCEPT ![k] = row] /\ run[r].step # "unused"
        /\ UNCHANGED <<sessionVars, run, lease, request, maker, unheard, told, faults>>
    BY <1>1 DEF BeginSpawn, MayPersist
  <2> HIDE DEF row
  <2>3. Linked'
    BY <2>1, <2>2 DEF Linked
  <2> QED
    BY <2>1, <2>2, <2>3
<1>2. CASE EnterLease(k)
  <2> DEFINE row == [call[k] EXCEPT !.step = "create"]
  <2>1. row \in CallRow /\ row.run = call[k].run /\ row.child = call[k].child
    BY <1>0 DEF CallRow
  <2>2. /\ call' = [call EXCEPT ![k] = row] \/ call' = [call EXCEPT ![k] = IdleCall]
        /\ call[k].step = "wait" /\ lease' \in Calls \cup {None}
        /\ UNCHANGED <<sessionVars, run, request, maker, unheard, told, faults>>
    BY <1>2 DEF EnterLease
  <2> HIDE DEF row
  <2>3. Linked'
    BY <1>0, <2>1, <2>2 DEF Linked
  <2> QED
    BY <1>0, <2>1, <2>2, <2>3
<1>3. CASE CreateChild(k) \/ CreateThrows(k)
  <2> DEFINE c == call[k].child
             r == call[k].run
             row == [run[r] EXCEPT !.spawns = run[r].spawns + 1]
  <2>1. call[k].step = "create" /\ c \in Children /\ c \in Sessions /\ r \in Runs /\ run[r] \in RunRow
    BY <1>3 DEF CreateChild, CreateThrows, Sessions, Linked
  <2>2. call[k].notify \in BOOLEAN /\ <<call[k].notify>> \in Seq(BOOLEAN)
    BY <1>0 DEF CallRow
  <2>3. row \in RunRow /\ row.step = run[r].step /\ row.session = run[r].session
    <3>1. run[r].spawns + 1 \in Nat
      BY <2>1 DEF RunRow
    <3>2. row \in RunRow
      BY <2>1, <3>1 DEF RunRow
    <3>3. row.step = run[r].step /\ row.session = run[r].session
      BY <2>1 DEF RunRow
    <3> QED
      BY <3>2, <3>3
  <2>4. run' = run \/ run' = [run EXCEPT ![r] = row]
    BY <1>3 DEF CreateChild, CreateThrows
  <2>5. /\ call' = [call EXCEPT ![k] = IdleCall] /\ lease' \in Calls \cup {None}
        /\ UNCHANGED <<failed, active, request, told>>
    BY <1>3 DEF CreateChild, CreateThrows, EndCall
  <2>6. InsertChild(c, r, call[k].notify) \/ UNCHANGED <<status, asked, queue, maker>>
    BY <1>3 DEF CreateChild, CreateThrows
  <2>7. /\ status' \in [Sessions -> {"absent", "open", "archived"}]
        /\ maker' \in [Children -> Runs \cup {None}]
        /\ asked' \in [Sessions -> BOOLEAN]
    BY <2>1, <2>2, <2>6 DEF InsertChild
  <2>8. queue' \in [Sessions -> Seq(BOOLEAN)]
    BY <2>2, <2>6 DEF InsertChild
  <2>9. faults' \in 0..MaxFaults /\ unheard' \in SUBSET Children
    <3>1. faults \in 0..MaxFaults /\ MaxFaults \in Nat
      BY LimitsAssumption
    <3>2. faults' = faults \/ (faults < MaxFaults /\ faults' = faults + 1)
      BY <1>3 DEF CreateChild, CreateThrows
    <3>3. unheard' = unheard \/ unheard' = unheard \cup {c}
      BY <1>3 DEF CreateChild, CreateThrows
    <3> HIDE DEF c
    <3> QED
      BY <2>1, <3>1, <3>2, <3>3
  <2> HIDE DEF row, r, c
  <2>10. Linked' /\ run' \in [Runs -> RunRow]
    <3>1. run' \in [Runs -> RunRow]
      BY <2>1, <2>3, <2>4
    <3>2. \A q \in Runs : run'[q].step = run[q].step /\ run'[q].session = run[q].session
      BY <2>1, <2>3, <2>4
    <3>3. \A i \in Calls : call'[i] = call[i] \/ call'[i].step = "idle"
      BY <1>0, <2>5
    <3>4. \A q \in Runs : run'[q].step # "unused" => run'[q].session \in Sessions
      BY <3>2 DEF Linked
    <3>5. \A u \in Requests : request'[u].step \in {"write", "insert"} => request'[u].session \in Sessions
      BY <2>5 DEF Linked
    <3>6. \A i \in Calls : call'[i].step # "idle" =>
             /\ call'[i].run \in Runs /\ call'[i].child \in Children
             /\ run'[call'[i].run].step # "unused"
      BY <3>2, <3>3 DEF Linked
    <3> QED
      BY <3>1, <3>4, <3>5, <3>6 DEF Linked
  <2> QED
    BY <1>0, <2>5, <2>7, <2>8, <2>9, <2>10
<1> QED
  BY <1>1, <1>2, <1>3 DEF CallStep

LEMMA NextShaped == Shaped /\ [Next]_vars => Shaped'
<1> SUFFICES ASSUME Shaped, [Next]_vars PROVE Shaped'
  OBVIOUS
<1>1. CASE UNCHANGED vars
  BY <1>1 DEF vars, Shaped, TypeOK, Linked
<1> QED
  BY <1>1, WorkShaped, NotifyShaped, FaultShaped, RequestShaped, SessionShaped, CallShaped
     DEF Next, RunStep

\* The rows, the runs and the calls keep their shape.
THEOREM DeputiesTyped == Spec => []TypeOK
<1>1. Spec => []Shaped
  BY InitShaped, NextShaped, PTL DEF Spec
<1>2. Shaped => TypeOK
  BY DEF Shaped
<1> QED
  BY <1>1, <1>2, PTL

-----------------------------------------------------------------------------
(* What the steps leave alone that neither consume a marker nor create.      *)

\* The runs that told the root of a child, or are about to.
Tellers(c) == toldBy[c] \cup {r \in Runs : run[r].session = c /\ run[r].step \in {"tell", "insert"}}

\* A write from a copy that is not stale changes nothing.
Keeps == \A c \in Children : c \notin stale' => c \notin stale /\ (asked'[c] => asked[c])

\* Nobody starts to tell, no child comes into being, no budget is used.
Calm ==
    /\ Keeps
    /\ \A c \in Children : /\ Tellers(c)' \subseteq Tellers(c)
                           /\ status'[c] = "absent" => status[c] = "absent"
    /\ \A q \in Runs : /\ run'[q].spawns = run[q].spawns
                       /\ run'[q].step = "unused" => run[q].step = "unused"
                       /\ \A c \in Children : run'[q].session = c =>
                             run[q].session = c \/ status[c] # "absent"
    /\ UNCHANGED <<maker, unheard>>

LEMMA WriteKeeps ==
  ASSUME Shaped, NEW s \in Sessions, NEW marker \in BOOLEAN, WriteContext(s, marker)
  PROVE  Keeps
<1>1. /\ \A c \in Children : c # s => asked'[c] = asked[c]
      /\ asked'[s] = marker
  BY Zenon DEF Shaped, TypeOK, WriteContext, Sessions
<1>2. stale \subseteq stale' /\ (s \notin stale' => asked[s] = marker)
  BY DEF WriteContext
<1> QED
  BY <1>1, <1>2 DEF Keeps

LEMMA RunWriteKeeps ==
  ASSUME Shaped, NEW r \in Runs, run[r].session \in Sessions, NEW marker \in BOOLEAN,
         WriteForRun(r, marker)
  PROVE  Keeps
<1>1. CASE WriteContext(run[r].session, marker)
  BY <1>1, WriteKeeps
<1>2. CASE UNCHANGED <<asked, stale>>
  BY <1>2 DEF Keeps
<1> QED
  BY <1>1, <1>2 DEF WriteForRun

\* A run goes on.
LEMMA RowCalm ==
  ASSUME Shaped, Keeps, NEW r \in Runs, NEW row \in RunRow, run' = [run EXCEPT ![r] = row],
         row.session = run[r].session, row.spawns = run[r].spawns, row.step # "unused",
         row.step \in {"tell", "insert"} => run[r].step \in {"tell", "insert"},
         \A c \in Children : toldBy'[c] \subseteq Tellers(c),
         UNCHANGED <<status, maker, unheard>>
  PROVE  Calm
<1>1. run'[r] = row /\ \A q \in Runs : q # r => run'[q] = run[q]
  BY DEF Shaped, TypeOK
<1>2. \A c \in Children : Tellers(c)' \subseteq Tellers(c)
  BY <1>1 DEF Tellers
<1> QED
  BY <1>1, <1>2 DEF Calm

\* No run changes.
LEMMA RestCalm ==
  ASSUME Keeps, UNCHANGED <<run, toldBy, maker, unheard>>,
         \A c \in Children : status'[c] = "absent" => status[c] = "absent"
  PROVE  Calm
<1>1. \A c \in Children : Tellers(c)' = Tellers(c)
  BY DEF Tellers
<1> QED
  BY <1>1 DEF Calm

LEMMA WorkCalm ==
  ASSUME Shaped, NEW r \in Runs, Work(r) \/ AgentUpdatesContext(r)
  PROVE  Calm
<1>0. run[r] \in RunRow /\ run[r].copy \in BOOLEAN /\ run[r].ctx \in BOOLEAN
  BY DEF Shaped, TypeOK, RunRow
<1>a. run[r].step # "unused" => run[r].session \in Sessions
  BY DEF Shaped, Linked
<1>b. \A c \in Children : toldBy[c] \subseteq Tellers(c)
  BY DEF Tellers
<1>c. (\E st \in {"clear", "running", "consume", "over"}, b \in BOOLEAN :
         \/ run' = [run EXCEPT ![r] = [run[r] EXCEPT !.step = st, !.copy = b]]
         \/ run' = [run EXCEPT ![r] = [run[r] EXCEPT !.step = st, !.batch = <<>>]])
      /\ Keeps /\ UNCHANGED <<toldBy, status, maker, unheard>> => Calm
  <2> SUFFICES ASSUME NEW st \in {"clear", "running", "consume", "over"}, NEW b \in BOOLEAN,
                      \/ run' = [run EXCEPT ![r] = [run[r] EXCEPT !.step = st, !.copy = b]]
                      \/ run' = [run EXCEPT ![r] = [run[r] EXCEPT !.step = st, !.batch = <<>>]],
                      Keeps, UNCHANGED <<toldBy, status, maker, unheard>>
               PROVE  Calm
    OBVIOUS
  <2> DEFINE one == [run[r] EXCEPT !.step = st, !.copy = b]
             two == [run[r] EXCEPT !.step = st, !.batch = <<>>]
  <2>1. one \in RunRow /\ two \in RunRow
    BY <1>0, RunRows DEF RunSteps
  <2>2. /\ one.session = run[r].session /\ one.spawns = run[r].spawns /\ one.step = st
        /\ two.session = run[r].session /\ two.spawns = run[r].spawns /\ two.step = st
    BY <1>0 DEF RunRow
  <2>3. run' = [run EXCEPT ![r] = one] \/ run' = [run EXCEPT ![r] = two]
    OBVIOUS
  <2> HIDE DEF one, two
  <2>4. \A c \in Children : toldBy'[c] \subseteq Tellers(c)
    BY <1>b
  <2> QED
    BY <2>1, <2>2, <2>3, <2>4, RowCalm
<1>1. CASE Begin(r)
  <2>1. Keeps /\ asked[run[r].session] \in BOOLEAN
    BY <1>1, <1>a DEF Begin, Keeps, Shaped, TypeOK
  <2>2. PICK clears \in BOOLEAN :
         run' = [run EXCEPT ![r] = [run[r] EXCEPT !.step = IF clears THEN "clear" ELSE "running",
                                                  !.copy = asked[run[r].session]]]
    BY <1>1 DEF Begin
  <2>3. (IF clears THEN "clear" ELSE "running") \in {"clear", "running", "consume", "over"}
    OBVIOUS
  <2> QED
    BY <1>1, <1>c, <2>1, <2>2, <2>3 DEF Begin
<1>2. CASE ClearServices(r)
  <2>1. Keeps
    BY <1>2, <1>0, <1>a, RunWriteKeeps DEF ClearServices
  <2> QED
    BY <1>2, <1>c, <2>1 DEF ClearServices
<1>3. ASSUME NEW o \in Outcomes, Settle(r, o)
      PROVE  Calm
  BY <1>3, <1>c DEF Settle, Keeps
<1>4. CASE Quit(r)
  BY <1>4, <1>c DEF Quit, Keeps
<1>5. CASE AgentUpdatesContext(r)
  <2>1. Keeps
    BY <1>5, <1>0, <1>a, RunWriteKeeps DEF AgentUpdatesContext
  <2> QED
    BY <1>5, <2>1, RestCalm DEF AgentUpdatesContext
<1> QED
  BY <1>1, <1>2, <1>3, <1>4, <1>5 DEF Work

LEMMA NotifyCalm ==
  ASSUME Shaped, NEW r \in Runs, ReadMarker(r) \/ Tell(r) \/ InsertNotification(r)
  PROVE  Calm
<1>1. Keeps /\ UNCHANGED <<status, maker, unheard>>
  BY DEF ReadMarker, Tell, InsertNotification, Refuse, Keeps
<1>2. run[r] \in RunRow /\ run[r].step # "unused"
  BY DEF Shaped, TypeOK, ReadMarker, Tell, InsertNotification
<1>3. \E st \in {"mark", "insert", "over"} :
        /\ \/ run' = [run EXCEPT ![r] = [run[r] EXCEPT !.step = st]]
           \/ run' = [run EXCEPT ![r] = [run[r] EXCEPT !.step = st, !.copy = FALSE]]
        /\ st = "insert" => run[r].step = "tell"
  BY DEF ReadMarker, Tell, InsertNotification, Refuse, Over
<1>4. \A c \in Children : toldBy'[c] \subseteq Tellers(c)
  <2>1. \/ toldBy' = toldBy
        \/ /\ toldBy' = [toldBy EXCEPT ![run[r].session] = toldBy[run[r].session] \cup {r}]
           /\ run[r].step = "insert"
    BY DEF ReadMarker, Tell, InsertNotification, Refuse
  <2>2. toldBy \in [Children -> SUBSET Runs]
    BY DEF Shaped, TypeOK
  <2> QED
    BY <2>1, <2>2 DEF Tellers
<1>5. PICK st \in {"mark", "insert", "over"} :
        /\ \/ run' = [run EXCEPT ![r] = [run[r] EXCEPT !.step = st]]
           \/ run' = [run EXCEPT ![r] = [run[r] EXCEPT !.step = st, !.copy = FALSE]]
        /\ st = "insert" => run[r].step = "tell"
  BY <1>3
<1> DEFINE one == [run[r] EXCEPT !.step = st]
           two == [run[r] EXCEPT !.step = st, !.copy = FALSE]
<1>6. one \in RunRow /\ two \in RunRow
  BY <1>2, RunRows DEF RunSteps
<1>7. /\ one.session = run[r].session /\ one.spawns = run[r].spawns /\ one.step = st
      /\ two.session = run[r].session /\ two.spawns = run[r].spawns /\ two.step = st
  BY <1>2 DEF RunRow
<1>8. run' = [run EXCEPT ![r] = one] \/ run' = [run EXCEPT ![r] = two]
  BY <1>5
<1> HIDE DEF one, two
<1> QED
  BY <1>1, <1>4, <1>5, <1>6, <1>7, <1>8, RowCalm

LEMMA FaultCalm ==
  ASSUME Shaped, NEW r \in Runs, Recover(r) \/ Die(r)
  PROVE  Calm
<1>1. Keeps /\ UNCHANGED <<status, maker, unheard, toldBy>>
  BY DEF Recover, Die, Keeps
<1>2. run[r] \in RunRow /\ run[r].step # "unused"
  BY DEF Shaped, TypeOK, Recover, Die, Owned, InHand
<1> DEFINE one == [run[r] EXCEPT !.batch = <<>>]
           two == [run[r] EXCEPT !.step = "over", !.copy = FALSE]
<1>3. one \in RunRow /\ two \in RunRow
  BY <1>2, RunRows DEF RunSteps
<1>4. /\ one.session = run[r].session /\ one.spawns = run[r].spawns /\ one.step = run[r].step
      /\ two.session = run[r].session /\ two.spawns = run[r].spawns /\ two.step = "over"
  BY <1>2 DEF RunRow
<1>5. run' = [run EXCEPT ![r] = one] \/ run' = [run EXCEPT ![r] = two]
  BY DEF Recover, Die
<1> HIDE DEF one, two
<1>6. \A c \in Children : toldBy'[c] \subseteq Tellers(c)
  BY <1>1 DEF Tellers
<1> QED
  BY <1>1, <1>2, <1>3, <1>4, <1>5, <1>6, RowCalm

LEMMA RequestCalm ==
  ASSUME Shaped, NEW u \in Requests, RequestStep(u)
  PROVE  Calm
<1>1. CASE RequestWrites(u)
  <2>1. request[u].session \in Sessions /\ request[u].copy \in BOOLEAN
    BY <1>1 DEF RequestWrites, Shaped, TypeOK, Linked, RequestRow
  <2>2. Keeps
    BY <1>1, <2>1, WriteKeeps DEF RequestWrites, Keeps
  <2> QED
    BY <1>1, <2>2, RestCalm DEF RequestWrites
<1>2. CASE RequestInserts(u)
  BY <1>2, RestCalm DEF RequestInserts, Keeps
<1>3. ASSUME NEW s \in Sessions, PublishTool(u, s) \/ \E kind \in Kinds : Enqueue(u, s, kind)
      PROVE  Calm
  BY <1>3, RestCalm DEF PublishTool, Enqueue, Keeps
<1> QED
  BY <1>1, <1>2, <1>3 DEF RequestStep

\* A run that was never claimed has spawned nothing.
Fresh == \A r \in Runs : run[r].step = "unused" => run[r].spawns = 0

LEMMA SessionCalm ==
  ASSUME Shaped, Fresh, NEW s \in Sessions, SessionStep(s)
  PROVE  Calm
<1>1. ASSUME NEW r \in Runs, NEW n \in 1..Len(queue[s]), Claim(s, r, n)
      PROVE  Calm
  <2> DEFINE row == [NewRun EXCEPT !.step = "begin", !.session = s,
                                   !.batch = SubSeq(queue[s], 1, n), !.ctx = queue[s][n]]
  <2>1. row.session = s /\ row.step = "begin" /\ row.spawns = 0
    BY DEF NewRun
  <2>2. /\ run' = [run EXCEPT ![r] = row] /\ run[r].step = "unused" /\ status[s] = "open"
        /\ UNCHANGED <<status, asked, maker, unheard, toldBy, stale>>
    BY <1>1 DEF Claim
  <2> HIDE DEF row
  <2>3. run'[r] = row /\ \A q \in Runs : q # r => run'[q] = run[q]
    BY <2>2 DEF Shaped, TypeOK
  <2>4. Keeps
    BY <2>2 DEF Keeps
  <2>5. \A c \in Children : Tellers(c)' \subseteq Tellers(c)
    BY <2>1, <2>2, <2>3 DEF Tellers
  <2>6. \A q \in Runs : /\ run'[q].spawns = run[q].spawns
                        /\ run'[q].step = "unused" => run[q].step = "unused"
                        /\ \A c \in Children : run'[q].session = c =>
                             run[q].session = c \/ status[c] # "absent"
    BY <2>1, <2>2, <2>3 DEF Fresh
  <2> QED
    BY <2>2, <2>4, <2>5, <2>6 DEF Calm
<1>2. CASE Archive(s) \/ Unarchive(s)
  <2>1. \A c \in Children : status'[c] = "absent" => status[c] = "absent"
    BY <1>2 DEF Archive, Unarchive, Shaped, TypeOK, Sessions
  <2>2. Keeps /\ UNCHANGED <<run, toldBy, maker, unheard>>
    BY <1>2 DEF Archive, Unarchive, Keeps
  <2> QED
    BY <2>1, <2>2, RestCalm
<1> QED
  BY <1>1, <1>2 DEF SessionStep

LEMMA CallCalm ==
  ASSUME Shaped, NEW k \in Calls,
         EnterLease(k) \/ \E r \in Runs, c \in Children, notify \in BOOLEAN : BeginSpawn(k, r, c, notify)
  PROVE  Calm
  BY RestCalm DEF EnterLease, BeginSpawn, Keeps

-----------------------------------------------------------------------------
(* Who tells the root.                                                       *)

\* A child that does not exist has left no trace.
NoTrace ==
    \A c \in Children : status[c] = "absent" =>
       /\ toldBy[c] = {} /\ maker[c] = None /\ c \notin unheard
       /\ \A r \in Runs : run[r].session # c

\* A child whose context was never written from a stale copy asks as long as
\* nobody tells, and one run at most tells.
OneTells ==
    \A c \in Children : c \notin stale =>
       /\ asked[c] => Tellers(c) = {}
       /\ \A p, q \in Tellers(c) : p = q

TellInv == Shaped /\ Fresh /\ NoTrace /\ OneTells

LEMMA CalmKeepsTold ==
  ASSUME TellInv, Calm
  PROVE  Fresh' /\ NoTrace' /\ OneTells'
<1>1. Fresh'
  BY DEF TellInv, Fresh, Calm
<1>2. ASSUME NEW c \in Children, status'[c] = "absent"
      PROVE  /\ toldBy'[c] = {} /\ maker'[c] = None /\ c \notin unheard'
             /\ \A r \in Runs : run'[r].session # c
  <2>1. status[c] = "absent"
    BY <1>2 DEF Calm
  <2>2. /\ toldBy[c] = {} /\ maker[c] = None /\ c \notin unheard
        /\ \A r \in Runs : run[r].session # c
    BY <2>1 DEF TellInv, NoTrace
  <2>3. \A r \in Runs : run'[r].session # c
    BY <2>1, <2>2 DEF Calm
  <2>4. toldBy'[c] \subseteq Tellers(c)' /\ Tellers(c)' \subseteq Tellers(c)
    BY DEF Tellers, Calm
  <2>5. Tellers(c) = {}
    BY <2>2 DEF Tellers
  <2> QED
    BY <2>2, <2>3, <2>4, <2>5 DEF Calm
<1>3. ASSUME NEW c \in Children, c \notin stale'
      PROVE  (asked'[c] => Tellers(c)' = {}) /\ \A p, q \in Tellers(c)' : p = q
  BY <1>3 DEF TellInv, OneTells, Calm, Keeps
<1>4. NoTrace'
  BY <1>2 DEF NoTrace
<1>5. OneTells'
  BY <1>3 DEF OneTells
<1> QED
  BY <1>1, <1>4, <1>5

LEMMA MarkKeepsTold ==
  ASSUME TellInv, NEW r \in Runs, Mark(r)
  PROVE  Fresh' /\ NoTrace' /\ OneTells'
<1> USE DEF TellInv
<1>0. run[r] \in RunRow /\ run[r].session \in Sessions
  BY DEF Mark, Shaped, TypeOK, Linked
<1> DEFINE s == run[r].session
           over == [run[r] EXCEPT !.step = "over", !.copy = FALSE]
           tell == [run[r] EXCEPT !.step = "tell"]
<1>1. /\ over.session = s /\ over.spawns = run[r].spawns /\ over.step = "over" /\ over \in RunRow
      /\ tell.session = s /\ tell.spawns = run[r].spawns /\ tell.step = "tell"
  <2>1. over \in RunRow
    BY <1>0, RunRows DEF RunSteps
  <2>2. /\ over.session = s /\ over.spawns = run[r].spawns /\ over.step = "over"
        /\ tell.session = s /\ tell.spawns = run[r].spawns /\ tell.step = "tell"
    BY <1>0 DEF RunRow
  <2> QED
    BY <2>1, <2>2
<1>2. CASE status[s] = "archived"
  <2>1. run' = [run EXCEPT ![r] = over] /\ UNCHANGED <<status, asked, stale, maker, unheard, toldBy>>
    BY <1>2 DEF Mark, Over
  <2> HIDE DEF s, over, tell
  <2>2. Keeps /\ \A c \in Children : toldBy'[c] \subseteq Tellers(c)
    BY <2>1 DEF Keeps, Tellers
  <2>3. Calm
    BY <1>1, <2>1, <2>2, RowCalm DEF s
  <2> QED
    BY <2>3, CalmKeepsTold
<1>3. CASE status[s] # "archived"
  <2>1. /\ run' = [run EXCEPT ![r] = tell] /\ UNCHANGED <<status, maker, unheard, toldBy>>
        /\ asked' = [asked EXCEPT ![s] = FALSE]
        /\ stale' = IF asked[s] THEN stale ELSE stale \cup {s}
    BY <1>3 DEF Mark, Consumed
  <2> HIDE DEF s, over, tell
  <2>2. run'[r] = tell /\ \A q \in Runs : q # r => run'[q] = run[q]
    BY <2>1 DEF Shaped, TypeOK
  <2>3. Fresh'
    BY <1>1, <2>2 DEF Fresh
  <2>4. NoTrace'
    BY <1>1, <2>1, <2>2 DEF NoTrace, s
  <2>5. asked'[s] = FALSE /\ \A c \in Children : c # s => asked'[c] = asked[c]
    BY <1>0, <2>1, Zenon DEF Shaped, TypeOK, s, Sessions
  <2>6. ASSUME NEW c \in Children, c \notin stale'
        PROVE  (asked'[c] => Tellers(c)' = {}) /\ \A p, q \in Tellers(c)' : p = q
    <3>1. c \notin stale /\ (c = s => asked[s])
      BY <2>1, <2>6
    <3>2. CASE c = s
      <4>1. Tellers(c) = {}
        BY <3>1, <3>2 DEF OneTells
      <4>2. Tellers(c)' \subseteq Tellers(c) \cup {r}
        BY <2>1, <2>2 DEF Tellers
      <4> QED
        BY <2>5, <3>2, <4>1, <4>2
    <3>3. CASE c # s
      <4>1. Tellers(c)' \subseteq Tellers(c)
        BY <1>1, <2>1, <2>2, <3>3 DEF Tellers
      <4> QED
        BY <2>5, <3>1, <3>3, <4>1 DEF OneTells
    <3> QED
      BY <3>2, <3>3
  <2> QED
    BY <2>3, <2>4, <2>6 DEF OneTells
<1> QED
  BY <1>2, <1>3

\* A child comes into being, and its run counts it or does not hear of it.
Inserts(k, c, r) ==
    /\ status[c] = "absent"
    /\ InsertChild(c, r, call[k].notify)
    /\ UNCHANGED <<toldBy, stale>>

Creates(k, c, r) ==
    /\ Inserts(k, c, r)
    /\ run' = [run EXCEPT ![r] = [run[r] EXCEPT !.spawns = run[r].spawns + 1]]
    /\ UNCHANGED unheard

Forgets(k, c, r) ==
    /\ Inserts(k, c, r)
    /\ unheard' = unheard \cup {c}
    /\ UNCHANGED run

LEMMA CreateOrCalm ==
  ASSUME Shaped, NEW k \in Calls, CreateChild(k) \/ CreateThrows(k)
  PROVE  /\ call[k].child \in Children /\ call[k].run \in Runs
         /\ run[call[k].run] \in RunRow /\ run[call[k].run].step # "unused"
         /\ \/ Creates(k, call[k].child, call[k].run)
            \/ Forgets(k, call[k].child, call[k].run)
            \/ Calm /\ UNCHANGED <<run, status>>
<1>1. /\ call[k].child \in Children /\ call[k].run \in Runs
      /\ run[call[k].run] \in RunRow /\ run[call[k].run].step # "unused"
  BY DEF CreateChild, CreateThrows, Shaped, TypeOK, Linked
<1>2. CASE UNCHANGED <<status, asked, queue, maker, unheard, run>>
  <2>1. Keeps /\ UNCHANGED <<run, toldBy, maker, unheard, status>>
    BY <1>2 DEF CreateChild, CreateThrows, Keeps
  <2> QED
    BY <1>1, <2>1, RestCalm
<1>3. \/ Creates(k, call[k].child, call[k].run)
      \/ Forgets(k, call[k].child, call[k].run)
      \/ UNCHANGED <<status, asked, queue, maker, unheard, run>>
  BY DEF CreateChild, CreateThrows, Creates, Forgets, Inserts, Creatable
<1> QED
  BY <1>1, <1>2, <1>3

LEMMA CreateKeepsTold ==
  ASSUME TellInv, NEW k \in Calls, CreateChild(k) \/ CreateThrows(k)
  PROVE  Fresh' /\ NoTrace' /\ OneTells'
<1> USE DEF TellInv
<1> DEFINE c == call[k].child
           r == call[k].run
           row == [run[r] EXCEPT !.spawns = run[r].spawns + 1]
<1>1. /\ c \in Children /\ r \in Runs /\ run[r].step # "unused" /\ run[r] \in RunRow
      /\ Creates(k, c, r) \/ Forgets(k, c, r) \/ Calm
  BY CreateOrCalm
<1>2. CASE Creates(k, c, r) \/ Forgets(k, c, r)
  <2>1. row.step = run[r].step /\ row.session = run[r].session
    BY <1>1 DEF RunRow
  <2>2. /\ run' = [run EXCEPT ![r] = row] \/ run' = run
        /\ status[c] = "absent" /\ UNCHANGED <<toldBy, stale>>
        /\ unheard' \subseteq unheard \cup {c}
    BY <1>2 DEF Creates, Forgets, Inserts
  <2> HIDE DEF row
  <2>3. (run'[r] = row \/ run'[r] = run[r]) /\ \A q \in Runs : q # r => run'[q] = run[q]
    BY <1>1, <2>2 DEF Shaped, TypeOK
  <2>4. \A q \in Runs : run'[q].step = run[q].step /\ run'[q].session = run[q].session
    BY <2>1, <2>3
  <2>5. \A d \in Children : Tellers(d)' = Tellers(d)
    BY <2>2, <2>4 DEF Tellers
  <2>6. /\ status'[c] = "open"
        /\ \A d \in Children : d # c => status'[d] = status[d] /\ maker'[d] = maker[d]
    BY <1>1, <1>2 DEF Creates, Forgets, Inserts, InsertChild, Shaped, TypeOK, Sessions
  <2>7. \A d \in Children : d # c => asked'[d] = asked[d]
    BY <1>1, <1>2, Zenon DEF Creates, Forgets, Inserts, InsertChild, Shaped, TypeOK, Sessions
  <2>8. Tellers(c) = {}
    BY <1>1, <2>2 DEF NoTrace, Tellers
  <2>9. Fresh'
    BY <1>1, <2>1, <2>3 DEF Fresh
  <2>10. NoTrace'
    BY <2>2, <2>4, <2>6 DEF NoTrace
  <2>11. OneTells'
    BY <2>2, <2>5, <2>7, <2>8 DEF OneTells
  <2> QED
    BY <2>9, <2>10, <2>11
<1>3. CASE Calm
  BY <1>3, CalmKeepsTold
<1> QED
  BY <1>1, <1>2, <1>3

\* Every step is calm, consumes a marker, or creates.
LEMMA StepIsCalm ==
  ASSUME Shaped, Fresh, Next
  PROVE  \/ Calm
         \/ \E r \in Runs : Mark(r)
         \/ \E k \in Calls : CreateChild(k) \/ CreateThrows(k)
  BY WorkCalm, NotifyCalm, FaultCalm, RequestCalm, SessionCalm, CallCalm
     DEF Next, RunStep, Notify, CallStep

LEMMA InitTold == Init => TellInv
<1> SUFFICES ASSUME Init PROVE TellInv
  OBVIOUS
<1>1. Shaped
  BY InitShaped
<1>2. \A r \in Runs : run[r].step = "unused" /\ run[r].spawns = 0 /\ run[r].session = None
  BY DEF Init, NewRun
<1>3. \A c \in Children : toldBy[c] = {} /\ maker[c] = None /\ c # None /\ c \notin unheard
  BY NamesAssumption DEF Init, Sessions
<1> QED
  BY <1>1, <1>2, <1>3 DEF TellInv, Fresh, NoTrace, OneTells, Tellers

LEMMA NextTold == TellInv /\ [Next]_vars => TellInv'
<1> SUFFICES ASSUME TellInv, [Next]_vars PROVE TellInv'
  OBVIOUS
<1>1. Shaped'
  BY NextShaped DEF TellInv
<1>2. CASE UNCHANGED vars
  <2>1. Fresh' /\ NoTrace' /\ OneTells'
    BY <1>2 DEF vars, TellInv, Fresh, NoTrace, OneTells, Tellers
  <2> QED
    BY <1>1, <2>1 DEF TellInv
<1>3. CASE Next
  <2>1. Fresh' /\ NoTrace' /\ OneTells'
    BY <1>3, StepIsCalm, CalmKeepsTold, MarkKeepsTold, CreateKeepsTold DEF TellInv
  <2> QED
    BY <1>1, <2>1 DEF TellInv
<1> QED
  BY <1>2, <1>3

\* The root hears once at most of a child, unless the child's context was written
\* back from a stale copy: consuming the marker is safe but for that.
THEOREM RootHearsOnce == Spec => []NotifiedOnceUnlessStale
<1>1. Spec => []TellInv
  BY InitTold, NextTold, PTL DEF Spec
<1>2. TellInv => NotifiedOnceUnlessStale
  <2> SUFFICES ASSUME TellInv, NEW c \in Children, c \notin stale
               PROVE  Cardinality(toldBy[c]) <= 1
    BY DEF NotifiedOnceUnlessStale
  <2>1. \A p, q \in toldBy[c] : p = q
    BY DEF TellInv, OneTells, Tellers
  <2>2. toldBy[c] = {} \/ \E p : toldBy[c] = {p}
    BY <2>1
  <2> QED
    BY <2>2, FS_EmptySet, FS_Singleton
<1> QED
  BY <1>1, <1>2, PTL

-----------------------------------------------------------------------------
(* The budget of a run.                                                      *)

MadeBy(r) == {c \in Children \ unheard : maker[c] = r}

\* A run counts the children it made and heard of; a call that is about to create holds the
\* lock, and found the budget of its run not used up.
Counted == \A r \in Runs : Cardinality(MadeBy(r)) = run[r].spawns /\ run[r].spawns <= MaxSpawns

Checked ==
    \A k \in Calls : call[k].step = "create" =>
       /\ lease = k
       /\ status[call[k].child] = "absent" => run[call[k].run].spawns < MaxSpawns

BudgetInv == TellInv /\ Counted /\ Checked

LEMMA InitBudget == Init => BudgetInv
<1> SUFFICES ASSUME Init PROVE BudgetInv
  OBVIOUS
<1>1. TellInv
  BY InitTold
<1>2. \A r \in Runs : MadeBy(r) = {} /\ run[r].spawns = 0
  BY NamesAssumption DEF Init, MadeBy, NewRun
<1>3. Counted
  BY <1>2, FS_EmptySet, LimitsAssumption DEF Counted
<1>4. Checked
  BY DEF Init, Checked, IdleCall
<1> QED
  BY <1>1, <1>3, <1>4 DEF BudgetInv

LEMMA CalmKeepsCount ==
  ASSUME Counted, Calm
  PROVE  Counted'
<1>1. \A r \in Runs : MadeBy(r)' = MadeBy(r) /\ run'[r].spawns = run[r].spawns
  BY DEF MadeBy, Calm
<1> QED
  BY <1>1 DEF Counted

\* What was checked stays so while runs, requests and users go on.
LEMMA OthersKeepChecks ==
  ASSUME Shaped, Checked, UNCHANGED <<call, lease>>,
         \A q \in Runs : run'[q].spawns = run[q].spawns,
         \A c \in Children : status'[c] = "absent" => status[c] = "absent"
  PROVE  Checked'
  BY DEF Checked, Shaped, Linked

LEMMA DieKeepsChecks ==
  ASSUME Shaped, Checked, NEW r \in Runs, Die(r), Calm
  PROVE  Checked'
<1>1. \A k \in Calls : call'[k] = IF call[k].run = r THEN IdleCall ELSE call[k]
  BY DEF Die
<1>2. lease' = (IF lease # None /\ call[lease].run = r THEN None ELSE lease) /\ UNCHANGED status
  BY DEF Die
<1>3. \A q \in Runs : run'[q].spawns = run[q].spawns
  BY DEF Calm
<1>4. ASSUME NEW k \in Calls, call'[k].step = "create"
      PROVE  lease' = k /\ (status'[call'[k].child] = "absent" => run'[call'[k].run].spawns < MaxSpawns)
  <2>1. call'[k] = call[k] /\ call[k].run # r
    BY <1>1, <1>4 DEF IdleCall
  <2>2. lease = k /\ call[k].run \in Runs
    BY <1>4, <2>1 DEF Checked, Shaped, Linked
  <2> QED
    BY <1>2, <1>3, <1>4, <2>1, <2>2 DEF Checked
<1> QED
  BY <1>4 DEF Checked

LEMMA CallKeepsChecks ==
  ASSUME Shaped, Checked, NEW k \in Calls,
         EnterLease(k) \/ \E r \in Runs, c \in Children, notify \in BOOLEAN : BeginSpawn(k, r, c, notify)
  PROVE  Checked'
<1> USE DEF Shaped, TypeOK
<1>1. CASE \E r \in Runs, c \in Children, notify \in BOOLEAN : BeginSpawn(k, r, c, notify)
  <2>1. /\ UNCHANGED <<status, run, lease>> /\ call'[k].step = "wait"
        /\ \A i \in Calls : i # k => call'[i] = call[i]
    BY <1>1 DEF BeginSpawn
  <2> QED
    BY <2>1 DEF Checked
<1>2. CASE EnterLease(k)
  <2>1. call[k] \in CallRow /\ UNCHANGED <<status, run>> /\ lease = None /\ \A i \in Calls : i # None
    BY <1>2, NamesAssumption DEF EnterLease, Free
  <2>2. \A i \in Calls : call[i].step # "create"
    BY <2>1 DEF Checked
  <2>3. \A i \in Calls : i # k => call'[i] = call[i]
    BY <1>2 DEF EnterLease
  <2>4. CASE call' = [call EXCEPT ![k] = IdleCall]
    BY <2>2, <2>3, <2>4 DEF Checked, IdleCall
  <2>5. CASE /\ status[call[k].child] # "absent" \/ run[call[k].run].spawns < MaxSpawns
             /\ lease' = k
             /\ call' = [call EXCEPT ![k] = [call[k] EXCEPT !.step = "create"]]
    <3> DEFINE row == [call[k] EXCEPT !.step = "create"]
    <3>1. row.child = call[k].child /\ row.run = call[k].run
      BY <2>1 DEF CallRow
    <3>2. call'[k] = row
      BY <2>5
    <3> HIDE DEF row
    <3> QED
      BY <2>1, <2>2, <2>3, <2>5, <3>1, <3>2 DEF Checked
  <2> QED
    BY <1>2, <2>4, <2>5 DEF EnterLease
<1> QED
  BY <1>1, <1>2

\* The child that is created counts for its run.
LEMMA CreateCounts ==
  ASSUME Shaped, NoTrace, Counted, NEW k \in Calls, NEW c \in Children, NEW r \in Runs,
         Creates(k, c, r), run[r].spawns < MaxSpawns
  PROVE  Counted'
<1> DEFINE row == [run[r] EXCEPT !.spawns = run[r].spawns + 1]
<1>1. run[r] \in RunRow
  BY DEF Shaped, TypeOK
<1>2. row.spawns = run[r].spawns + 1 /\ run[r].spawns \in Nat
  BY <1>1 DEF RunRow
<1>3. run' = [run EXCEPT ![r] = row] /\ status[c] = "absent" /\ maker' = [maker EXCEPT ![c] = r]
  BY DEF Creates, Inserts, InsertChild
<1>4. maker[c] = None /\ None \notin Runs
  BY <1>3, NamesAssumption DEF NoTrace
<1> HIDE DEF row
<1>5. run'[r] = row /\ \A q \in Runs : q # r => run'[q] = run[q]
  BY <1>3 DEF Shaped, TypeOK
<1>6. /\ maker'[c] = r /\ \A d \in Children : d # c => maker'[d] = maker[d]
      /\ c \notin unheard /\ unheard' = unheard
  BY <1>3 DEF Shaped, TypeOK, NoTrace, Creates
<1>7. MadeBy(r)' = MadeBy(r) \cup {c} /\ c \notin MadeBy(r)
  BY <1>4, <1>6 DEF MadeBy
<1>8. \A q \in Runs : q # r => MadeBy(q)' = MadeBy(q)
  BY <1>4, <1>6 DEF MadeBy
<1>9. IsFiniteSet(MadeBy(r))
  BY ChildrenAssumption, FS_Subset DEF MadeBy
<1>10. Cardinality(MadeBy(r)') = Cardinality(MadeBy(r)) + 1
  BY <1>7, <1>9, FS_AddElement
<1>11. ASSUME NEW q \in Runs, q # r
       PROVE  Cardinality(MadeBy(q)') = run'[q].spawns /\ run'[q].spawns <= MaxSpawns
  BY <1>11, <1>5, <1>8 DEF Counted
<1>12. Cardinality(MadeBy(r)') = run'[r].spawns
  BY <1>2, <1>5, <1>10 DEF Counted
<1>13. run'[r].spawns <= MaxSpawns
  BY <1>2, <1>5, LimitsAssumption
<1> QED
  BY <1>11, <1>12, <1>13 DEF Counted

\* One that is not heard of counts for nobody.
LEMMA ForgottenDoNotCount ==
  ASSUME Shaped, NoTrace, Counted, NEW k \in Calls, NEW c \in Children, NEW r \in Runs,
         Forgets(k, c, r)
  PROVE  Counted'
<1>1. /\ run' = run /\ unheard' = unheard \cup {c} /\ status[c] = "absent"
      /\ maker' = [maker EXCEPT ![c] = r]
  BY DEF Forgets, Inserts, InsertChild
<1>2. maker[c] = None /\ None \notin Runs
  BY <1>1, NamesAssumption DEF NoTrace
<1>3. \A d \in Children : d # c => maker'[d] = maker[d]
  BY <1>1 DEF Shaped, TypeOK
<1>4. \A q \in Runs : MadeBy(q)' = MadeBy(q)
  BY <1>1, <1>2, <1>3 DEF MadeBy
<1> QED
  BY <1>1, <1>4 DEF Counted

LEMMA CreateKeepsBudget ==
  ASSUME BudgetInv, NEW k \in Calls, CreateChild(k) \/ CreateThrows(k)
  PROVE  Counted' /\ Checked'
<1> DEFINE c == call[k].child
           r == call[k].run
<1>1. /\ c \in Children /\ r \in Runs /\ run[r] \in RunRow
      /\ Creates(k, c, r) \/ Forgets(k, c, r) \/ Calm
  BY CreateOrCalm DEF BudgetInv, TellInv
<1>2. /\ call[k].step = "create" /\ lease = k
      /\ status[c] = "absent" => run[r].spawns < MaxSpawns
  BY DEF CreateChild, CreateThrows, BudgetInv, Checked
<1>3. \A i \in Calls : call'[i].step # "create"
  <2>1. call' = [call EXCEPT ![k] = IdleCall] /\ call \in [Calls -> CallRow]
    BY DEF CreateChild, CreateThrows, EndCall, BudgetInv, TellInv, Shaped, TypeOK
  <2> QED
    BY <1>2, <2>1 DEF BudgetInv, Checked, IdleCall
<1>4. Checked'
  BY <1>3 DEF Checked
<1>5. CASE Creates(k, c, r)
  BY <1>1, <1>2, <1>4, <1>5, CreateCounts DEF Creates, Inserts, BudgetInv, TellInv
<1>6. CASE Forgets(k, c, r)
  BY <1>1, <1>4, <1>6, ForgottenDoNotCount DEF BudgetInv, TellInv
<1>7. CASE Calm
  BY <1>4, <1>7, CalmKeepsCount DEF BudgetInv
<1> QED
  BY <1>1, <1>5, <1>6, <1>7

LEMMA NextBudget == BudgetInv /\ [Next]_vars => BudgetInv'
<1> SUFFICES ASSUME BudgetInv, [Next]_vars PROVE BudgetInv'
  OBVIOUS
<1> USE DEF BudgetInv, TellInv
<1>1. TellInv'
  BY NextTold
<1>2. CASE UNCHANGED vars
  <2>1. Counted' /\ Checked'
    BY <1>2 DEF vars, Counted, Checked, MadeBy
  <2> QED
    BY <1>1, <2>1
<1>3. ASSUME Calm, UNCHANGED <<call, lease>>
      PROVE  Counted' /\ Checked'
  BY <1>3, CalmKeepsCount, OthersKeepChecks DEF Calm
<1>4. ASSUME NEW r \in Runs, RunStep(r)
      PROVE  Counted' /\ Checked'
  <2>1. CASE Mark(r)
    <3>1. UNCHANGED <<call, lease, maker, unheard, status>> /\ \A q \in Runs : run'[q].spawns = run[q].spawns
      <4>1. run[r] \in RunRow /\ run \in [Runs -> RunRow]
        BY DEF Shaped, TypeOK
      <4>2. \/ run' = [run EXCEPT ![r] = [run[r] EXCEPT !.step = "tell"]]
            \/ run' = [run EXCEPT ![r] = [run[r] EXCEPT !.step = "over", !.copy = FALSE]]
        BY <2>1 DEF Mark, Over
      <4>3. run'[r].spawns = run[r].spawns /\ \A q \in Runs : q # r => run'[q] = run[q]
        BY <4>1, <4>2 DEF RunRow
      <4>4. UNCHANGED <<call, lease, maker, unheard, status>>
        BY <2>1 DEF Mark
      <4> QED
        BY <4>3, <4>4
    <3>2. \A q \in Runs : MadeBy(q)' = MadeBy(q)
      BY <3>1 DEF MadeBy
    <3>3. Counted'
      BY <3>1, <3>2 DEF Counted
    <3> QED
      BY <3>1, <3>3, OthersKeepChecks
  <2>2. CASE Work(r) \/ AgentUpdatesContext(r)
    <3>1. UNCHANGED <<call, lease>>
      BY <2>2 DEF Work, Begin, ClearServices, Settle, Quit, AgentUpdatesContext
    <3> QED
      BY <2>2, <3>1, <1>3, WorkCalm
  <2>3. CASE ReadMarker(r) \/ Tell(r) \/ InsertNotification(r)
    <3>1. UNCHANGED <<call, lease>>
      BY <2>3 DEF ReadMarker, Tell, InsertNotification
    <3> QED
      BY <2>3, <3>1, <1>3, NotifyCalm
  <2>4. CASE Recover(r)
    <3>1. UNCHANGED <<call, lease>>
      BY <2>4 DEF Recover
    <3> QED
      BY <2>4, <3>1, <1>3, FaultCalm
  <2>5. CASE Die(r)
    BY <2>5, FaultCalm, CalmKeepsCount, DieKeepsChecks
  <2> QED
    BY <1>4, <2>1, <2>2, <2>3, <2>4, <2>5 DEF RunStep, Notify
<1>5. ASSUME NEW u \in Requests, RequestStep(u)
      PROVE  Counted' /\ Checked'
  <2>1. UNCHANGED <<call, lease>>
    BY <1>5 DEF RequestStep, PublishTool, Enqueue, RequestWrites, RequestInserts
  <2> QED
    BY <1>3, <1>5, <2>1, RequestCalm
<1>6. ASSUME NEW k \in Calls, CallStep(k)
      PROVE  Counted' /\ Checked'
  BY <1>6, CallCalm, CalmKeepsCount, CallKeepsChecks, CreateKeepsBudget DEF CallStep
<1>7. ASSUME NEW s \in Sessions, SessionStep(s)
      PROVE  Counted' /\ Checked'
  <2>1. UNCHANGED <<call, lease>>
    BY <1>7 DEF SessionStep, Claim, Archive, Unarchive
  <2> QED
    BY <1>3, <1>7, <2>1, SessionCalm
<1> QED
  BY <1>1, <1>2, <1>4, <1>5, <1>6, <1>7 DEF Next

\* However many calls of its agents run at once, a run creates no more children
\* than its budget: the lock of the session makes the check and the insertion one.  Only
\* children whose creation the run did not hear of are not counted.
THEOREM BudgetIsKept == Spec => []SpawnsWithinBudget
<1>1. Spec => []BudgetInv
  BY InitBudget, NextBudget, PTL DEF Spec
<1>2. BudgetInv => SpawnsWithinBudget
  BY DEF BudgetInv, Counted, MadeBy, SpawnsWithinBudget
<1> QED
  BY <1>1, <1>2, PTL
=============================================================================
