---------------------------- MODULE SessionQueue ----------------------------
(***************************************************************************)
(* What the control plane promises for the messages of a session: they     *)
(* wait, are worked on in turns, one turn of a session at a time, and the  *)
(* messages of a turn end together, with the same verdict.  A turn that    *)
(* was given up returns its messages to the queue, unless its answer is    *)
(* already out: such a turn is sealed, and can only end completed.         *)
(*                                                                         *)
(* There are no workers, leases or crashes here; RunLifecycle implements   *)
(* this specification (RunLifecycleRefinement).                            *)
(***************************************************************************)
CONSTANTS Sessions, Messages, SessionOf

VARIABLES
  item,     \* item[m], where message m stands
  turn,     \* turn[s], the messages of session s that are being worked on
  sealed    \* the sessions whose turn has published its answer

vars == <<item, turn, sealed>>

Verdicts == {"completed", "failed", "cancelled"}
Standing == {"absent", "waiting", "working"} \cup Verdicts

TypeOK ==
  /\ item \in [Messages -> Standing]
  /\ turn \in [Sessions -> SUBSET Messages]
  /\ sealed \subseteq Sessions

Init ==
  /\ item = [m \in Messages |-> "absent"]
  /\ turn = [s \in Sessions |-> {}]
  /\ sealed = {}

Waiting(s) == {m \in Messages : SessionOf[m] = s /\ item[m] = "waiting"}
Put(S, standing) == item' = [m \in Messages |-> IF m \in S THEN standing ELSE item[m]]

\* A new message, or a failed one that is tried again, joins the queue.
Submit(m) ==
  /\ item[m] \in {"absent", "failed"}
  /\ Put({m}, "waiting")
  /\ UNCHANGED <<turn, sealed>>

Withdraw(s) ==
  \E S \in SUBSET Waiting(s) :
    /\ Put(S, "cancelled")
    /\ UNCHANGED <<turn, sealed>>

\* A session starts a turn only when it has none.
Begin(s) ==
  \E S \in (SUBSET Waiting(s)) \ {{}} :
    /\ turn[s] = {}
    /\ turn' = [turn EXCEPT ![s] = S]
    /\ Put(S, "working")
    /\ UNCHANGED sealed

\* Steering messages join the turn while its answer is not out.
Join(s) ==
  \E S \in SUBSET Waiting(s) :
    /\ turn[s] # {}
    /\ s \notin sealed
    /\ turn' = [turn EXCEPT ![s] = @ \cup S]
    /\ Put(S, "working")
    /\ UNCHANGED sealed

Seal(s) ==
  /\ turn[s] # {}
  /\ sealed' = sealed \cup {s}
  /\ UNCHANGED <<item, turn>>

Settle(s) ==
  \E verdict \in Verdicts :
    /\ turn[s] # {}
    /\ s \in sealed => verdict = "completed"
    /\ verdict = "completed" => s \in sealed
    /\ Put(turn[s], verdict)
    /\ turn' = [turn EXCEPT ![s] = {}]
    /\ sealed' = sealed \ {s}

\* Turns of several sessions may be given up at once.
GiveUp(T) ==
  /\ T \cap sealed = {}
  /\ Put(UNION {turn[s] : s \in T}, "waiting")
  /\ turn' = [s \in Sessions |-> IF s \in T THEN {} ELSE turn[s]]
  /\ UNCHANGED sealed

Next ==
  \/ \E m \in Messages : Submit(m)
  \/ \E s \in Sessions : Withdraw(s) \/ Begin(s) \/ Join(s) \/ Seal(s) \/ Settle(s)
  \/ \E T \in SUBSET Sessions : GiveUp(T)

Spec == Init /\ [][Next]_vars
=============================================================================
