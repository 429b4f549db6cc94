--------------------------- MODULE DeliveryQueues ---------------------------
(***************************************************************************)
(* What a consumers object (amqp/consumers.go) promises its users: every   *)
(* registration gets a queue of its own, without bound, that hands out what*)
(* it accepted in order and without loss, also after it has been           *)
(* cancelled; only a shutdown of the whole object may discard.             *)
(***************************************************************************)
EXTENDS Naturals, Sequences

CONSTANTS
  Stream,   (* identities of registrations                                  *)
  Delivery  (* what is delivered                                            *)

VARIABLES
  phase,     (* of each stream: "new", "open", "ending" or "ended"          *)
  pending,   (* accepted by the stream, not yet handed out                  *)
  handedOut, (* handed out by the stream so far                             *)
  down       (* TRUE once the object is shut down                           *)

vars == <<phase, pending, handedOut, down>>

Init ==
  /\ phase = [s \in Stream |-> "new"]
  /\ pending = [s \in Stream |-> <<>>]
  /\ handedOut = [s \in Stream |-> <<>>]
  /\ down = FALSE

(* A new registration; it may end the one it replaces. *)
Open(s, replaced) ==
  /\ phase[s] = "new" /\ ~down
  /\ \A r \in replaced : phase[r] = "open"
  /\ phase' = [r \in Stream |->
       IF r = s THEN "open" ELSE IF r \in replaced THEN "ending" ELSE phase[r]]
  /\ UNCHANGED <<pending, handedOut, down>>

Accept(s, d) ==
  /\ phase[s] = "open"
  /\ pending' = [pending EXCEPT ![s] = Append(@, d)]
  /\ UNCHANGED <<phase, handedOut, down>>

HandOut(s) ==
  /\ phase[s] \in {"open", "ending"} /\ pending[s] # <<>>
  /\ handedOut' = [handedOut EXCEPT ![s] = Append(@, Head(pending[s]))]
  /\ pending' = [pending EXCEPT ![s] = Tail(@)]
  /\ UNCHANGED <<phase, down>>

Cancel(s) ==
  /\ phase[s] = "open"
  /\ phase' = [phase EXCEPT ![s] = "ending"]
  /\ UNCHANGED <<pending, handedOut, down>>

Shutdown ==
  /\ ~down /\ down' = TRUE
  /\ phase' = [s \in Stream |-> IF phase[s] = "open" THEN "ending" ELSE phase[s]]
  /\ UNCHANGED <<pending, handedOut>>

(* A stream ends when it is drained, or at once when the object is down. *)
End(s) ==
  /\ phase[s] = "ending"
  /\ pending[s] = <<>> \/ down
  /\ phase' = [phase EXCEPT ![s] = "ended"]
  /\ pending' = [pending EXCEPT ![s] = <<>>]
  /\ UNCHANGED <<handedOut, down>>

Next ==
  \/ \E s \in Stream :
       \/ \E replaced \in {{}} \cup {{r} : r \in Stream \ {s}} : Open(s, replaced)
       \/ \E d \in Delivery : Accept(s, d)
       \/ HandOut(s) \/ Cancel(s) \/ End(s)
  \/ Shutdown

Spec == Init /\ [][Next]_vars
=============================================================================
