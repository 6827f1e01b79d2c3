------------------------------ MODULE ThreadInbox ------------------------------
(***************************************************************************)
(* What the ingress promises to an external thread: the thread has one     *)
(* conversation, a session; each of its deliveries leaves one entry there, *)
(* once, or is refused and may be sent again; and nothing is put to work   *)
(* while the conversation is shut.  A delivery that was taken may stay     *)
(* open for ever.                                                          *)
(***************************************************************************)
CONSTANTS Keys, Sessions, None

VARIABLES
  fate,          \* of each delivery
  inbox,         \* the entries
  conversation,  \* the session of the thread, or None
  shut           \* whether it is archived

vars == <<fate, inbox, conversation, shut>>

Init ==
  /\ fate = [k \in Keys |-> "new"]
  /\ inbox = {}
  /\ conversation = None
  /\ shut = FALSE

Becomes(k, f) == fate' = [fate EXCEPT ![k] = f]

Take(k) ==
  /\ fate[k] \in {"new", "refused"}
  /\ Becomes(k, "open")
  /\ UNCHANGED <<inbox, conversation, shut>>

Refuse(k) ==
  /\ fate[k] = "open"
  /\ Becomes(k, "refused")
  /\ UNCHANGED <<inbox, conversation, shut>>

Leave(k, kind) ==
  /\ fate[k] = "open" /\ conversation # None
  /\ kind = "work" => ~shut
  /\ inbox' = inbox \cup {[key |-> k, kind |-> kind, session |-> conversation]}
  /\ Becomes(k, "left")
  /\ UNCHANGED <<conversation, shut>>

Answer(k) ==
  /\ fate[k] = "left"
  /\ Becomes(k, "answered")
  /\ UNCHANGED <<inbox, conversation, shut>>

Open(s) ==
  /\ conversation = None
  /\ conversation' = s
  /\ UNCHANGED <<fate, inbox, shut>>

ShutOrReopen ==
  /\ conversation # None
  /\ shut' = ~shut
  /\ UNCHANGED <<fate, inbox, conversation>>

Next ==
  \/ \E k \in Keys : \/ Take(k) \/ Refuse(k) \/ Answer(k)
                     \/ \E kind \in {"work", "ignored", "note"} : Leave(k, kind)
  \/ \E s \in Sessions : Open(s)
  \/ ShutOrReopen

Spec == Init /\ [][Next]_vars
=============================================================================
