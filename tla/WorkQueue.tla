----------------------------- MODULE WorkQueue -----------------------------
(***************************************************************************)
(* What a work queue with acknowledgements promises: a message, once on    *)
(* the queue, stays there until after it was handled. It may be handled    *)
(* several times, even after it was removed (by a program that still holds *)
(* a delivery the queue has taken back).                                   *)
(***************************************************************************)
CONSTANT Msg

VARIABLES
  enqueued, (* the messages that have come to the queue so far              *)
  handled,  (* those of them that some program has handled                  *)
  removed   (* those that have left the queue for good                      *)

vars == <<enqueued, handled, removed>>

Init == enqueued \in SUBSET Msg /\ handled = {} /\ removed = {}

Handle(m) ==
  /\ m \in enqueued
  /\ handled' = handled \cup {m}
  /\ UNCHANGED <<enqueued, removed>>

(* Messages come, and handled ones leave (several in one step, as when a   *)
(* connection falls).                                                      *)
Move ==
  /\ enqueued' \in SUBSET Msg /\ enqueued \subseteq enqueued'
  /\ removed' \in SUBSET handled /\ removed \subseteq removed'
  /\ UNCHANGED handled

Next == Move \/ \E m \in Msg : Handle(m)

Spec == Init /\ [][Next]_vars
=============================================================================
