------------------------------ MODULE Confirms ------------------------------
(***************************************************************************)
(* The confirms object of a Channel (amqp/confirms.go): the broker answers *)
(* publishings in any order, one by one or all up to a delivery tag; the   *)
(* object tells every listener about them in the order of their tags.      *)
(*                                                                         *)
(* One and Multiple are called by dispatch, which runs in the goroutine    *)
(* that reads the connection. They send to the listeners' Go channels with *)
(* the mutex c.m held, so a call of theirs is many steps; Publish, Listen  *)
(* and Close never wait while they hold the mutex and are one step each.   *)
(*                                                                         *)
(* (No code of the analyser sets Channel.confirming or calls Publish,      *)
(* Listen and Close: their callers are modelled as any application.)       *)
(***************************************************************************)
EXTENDS Integers, Sequences

CONSTANTS
  Listener,   (* Go channels passed to Listen                               *)
  Capacity,   (* their capacity                                             *)
  Ahead,      (* publishings the broker may answer before Publish is called *)
  MaxPublish  (* bound: publishings                                         *)

ASSUME ConfirmsAssumption ==
  /\ Capacity \in Nat /\ Ahead \in Nat /\ MaxPublish \in Nat

Tag == 1 .. MaxPublish
Confirmation == [DeliveryTag : Tag, Ack : BOOLEAN]

VARIABLES
  listeners,  (* confirms.listeners                                         *)
  sequencer,  (* confirms.sequencer                                         *)
  published,  (* confirms.published                                         *)
  expecting,  (* confirms.expecting                                         *)
  work,       (* where the reader is in One or Multiple: it has the mutex   *)
  told,       (* history: what was sent to each listener                    *)
  receives,   (* receive operations each listener has begun                 *)
  closed,     (* listeners whose Go channel is closed                       *)
  settled     (* external: the broker's answer to each publishing           *)

vars == <<listeners, sequencer, published, expecting, work, told, receives,
          closed, settled>>

Unlocked == [op |-> "unlocked"]

TypeOK ==
  /\ listeners \in Seq(Listener)
  /\ DOMAIN sequencer \subseteq Tag
  /\ \A t \in DOMAIN sequencer : sequencer[t] \in Confirmation
  /\ published \in 0 .. MaxPublish
  /\ expecting \in 1 .. MaxPublish + 1
  /\ work \in {Unlocked} \cup [op : {"one", "multiple"}, upto : Tag, ack : BOOLEAN,
                               emit : Seq(Confirmation), to : Seq(Listener)]
  /\ told \in [Listener -> Seq(Confirmation)]
  /\ receives \in [Listener -> Nat]
  /\ closed \subseteq Listener
  /\ DOMAIN settled \subseteq Tag
  /\ \A t \in DOMAIN settled : settled[t] \in BOOLEAN

(* newConfirms *)
Init ==
  /\ listeners = <<>>
  /\ sequencer = <<>>
  /\ published = 0
  /\ expecting = 1
  /\ work = Unlocked
  /\ told = [l \in Listener |-> <<>>]
  /\ receives = [l \in Listener |-> 0]
  /\ closed = {}
  /\ settled = <<>>

-----------------------------------------------------------------------------
(* Calls of the application.                                               *)

(* Each Go channel is registered once. *)
Listen(l) ==
  /\ work = Unlocked
  /\ l \notin closed /\ \A i \in DOMAIN listeners : listeners[i] # l
  /\ listeners' = Append(listeners, l)
  /\ UNCHANGED <<sequencer, published, expecting, work, told, receives, closed, settled>>

Publish ==
  /\ work = Unlocked
  /\ published < MaxPublish
  /\ published' = published + 1
  /\ UNCHANGED <<listeners, sequencer, expecting, work, told, receives, closed, settled>>

Close ==
  /\ work = Unlocked
  /\ closed' = closed \cup {listeners[i] : i \in DOMAIN listeners}
  /\ listeners' = <<>>
  /\ UNCHANGED <<sequencer, published, expecting, work, told, receives, settled>>

(* A listener begins a receive operation when its last one is done. *)
Receive(l) ==
  /\ l \notin closed /\ receives[l] <= Len(told[l]) /\ receives[l] <= MaxPublish
  /\ receives' = [receives EXCEPT ![l] = @ + 1]
  /\ UNCHANGED <<listeners, sequencer, published, expecting, work, told, closed, settled>>

-----------------------------------------------------------------------------
(* The reader, on basic.ack (ack = TRUE) or basic.nack (ack = FALSE).      *)

(* The broker answers tags it has been sent and has not answered yet. *)
Answered(T, t, ack) ==
  /\ t \in Tag \ DOMAIN settled /\ t <= published + Ahead
  /\ settled' = [u \in DOMAIN settled \cup T |->
                   IF u \in DOMAIN settled THEN settled[u] ELSE ack]

Without(f, t) == [u \in DOMAIN f \ {t} |-> f[u]]
With(f, t, v) == [u \in DOMAIN f \cup {t} |-> IF u = t THEN v ELSE f[u]]

(* Mutant of Confirm: the bookkeeping is not removed. *)
ConfirmKeepingEntry(w, confirmation) ==
  /\ UNCHANGED sequencer
  /\ expecting' = expecting + 1
  /\ work' = [w EXCEPT !.emit = <<confirmation>>, !.to = listeners]

(* Mutant of Confirm: the expected tag does not advance. *)
ConfirmInPlace(w, confirmation) ==
  /\ sequencer' = Without(sequencer, expecting)
  /\ UNCHANGED expecting
  /\ work' = [w EXCEPT !.emit = <<confirmation>>, !.to = listeners]

(* confirm, up to its loop over the listeners. *)
Confirm(w, confirmation) ==
  /\ sequencer' = Without(sequencer, expecting)
  /\ expecting' = expecting + 1
  /\ work' = [w EXCEPT !.emit = <<confirmation>>, !.to = listeners]

(* Mutant of One: an answer is passed on whichever tag is expected. *)
OneUnordered(t, ack) ==
  /\ work = Unlocked
  /\ Answered({t}, t, ack)
  /\ expecting <= MaxPublish
  /\ Confirm([op |-> "one", upto |-> t, ack |-> ack, emit |-> <<>>, to |-> <<>>],
             [DeliveryTag |-> t, Ack |-> ack])
  /\ UNCHANGED <<listeners, published, told, receives, closed>>

One(t, ack) ==
  LET confirmed == [DeliveryTag |-> t, Ack |-> ack]
      w == [op |-> "one", upto |-> t, ack |-> ack, emit |-> <<>>, to |-> <<>>]
  IN
  /\ work = Unlocked
  /\ Answered({t}, t, ack)
  /\ \/ expecting = t /\ Confirm(w, confirmed)
     \/ /\ expecting # t
        /\ sequencer' = With(sequencer, t, confirmed)
        /\ work' = w /\ UNCHANGED expecting
  /\ UNCHANGED <<listeners, published, told, receives, closed>>

Multiple(t, ack) ==
  /\ work = Unlocked
  /\ Answered(1 .. t, t, ack)
  /\ work' = [op |-> "multiple", upto |-> t, ack |-> ack, emit |-> <<>>, to |-> <<>>]
  /\ UNCHANGED <<listeners, sequencer, published, expecting, told, receives, closed>>

(* l <- confirmation, for the next of the listeners: there is room in its  *)
(* buffer or it waits to receive.                                          *)
Emit ==
  /\ work # Unlocked /\ work.to # <<>>
  /\ LET l == Head(work.to) IN
     /\ Len(told[l]) < receives[l] + Capacity
     /\ told' = [told EXCEPT ![l] = Append(@, Head(work.emit))]
  /\ work' = [work EXCEPT !.to = Tail(@)]
  /\ UNCHANGED <<listeners, sequencer, published, expecting, receives, closed, settled>>

Emitted == work # Unlocked /\ work.to = <<>>
(* Mutant of LoopsOn: one tag too many. *)
LoopsPast == work.op = "multiple" /\ expecting <= work.upto + 1

(* The condition of the loop of Multiple. *)
LoopsOn == work.op = "multiple" /\ expecting <= work.upto
(* Mutant of Sequenced: Multiple does not resequence. *)
SequencedByOne == work.op = "one" /\ expecting <= published /\ expecting \in DOMAIN sequencer

(* The condition of the loop of resequence. *)
Sequenced == expecting <= published /\ expecting \in DOMAIN sequencer

(* The loop of Multiple. *)
MultipleNext ==
  /\ Emitted /\ LoopsOn
  /\ Confirm(work, [DeliveryTag |-> expecting, Ack |-> work.ack])
  /\ UNCHANGED <<listeners, published, told, receives, closed, settled>>

Resequence ==
  /\ Emitted /\ ~LoopsOn /\ Sequenced
  /\ Confirm(work, sequencer[expecting])
  /\ UNCHANGED <<listeners, published, told, receives, closed, settled>>

Return ==
  /\ Emitted /\ ~LoopsOn /\ ~Sequenced
  /\ work' = Unlocked
  /\ UNCHANGED <<listeners, sequencer, published, expecting, told, receives, closed, settled>>

Next ==
  \/ \E l \in Listener : Listen(l) \/ Receive(l)
  \/ Publish \/ Close
  \/ \E t \in Tag, ack \in BOOLEAN : One(t, ack) \/ Multiple(t, ack)
  \/ Emit \/ MultipleNext \/ Resequence \/ Return

Spec == Init /\ [][Next]_vars

(***************************************************************************)
(* The reader runs whenever it can; in LiveSpec the listeners, as          *)
(* application code should, keep receiving.                                *)
(***************************************************************************)
LiveSpec ==
  /\ Spec
  /\ WF_vars(Emit) /\ WF_vars(MultipleNext) /\ WF_vars(Resequence) /\ WF_vars(Return)
  /\ \A l \in Listener : WF_vars(Receive(l))

-----------------------------------------------------------------------------
(***************************************************************************)
(* Listeners are told consecutive tags, each once, up to the last tag      *)
(* confirmed; the listeners the current confirmation is still owed to are  *)
(* exactly one behind, and none of the registered ones is further behind.  *)
(* Two listeners are never told different things about a publishing, and   *)
(* nothing is told of a publishing the broker has not answered.            *)
(***************************************************************************)
Owed(l) == work # Unlocked /\ \E i \in DOMAIN work.to : work.to[i] = l

InSequence(l) ==
  /\ \A i \in DOMAIN told[l] : told[l][i].DeliveryTag = told[l][1].DeliveryTag + i - 1
  /\ (told[l] # <<>> /\ l \notin closed) =>
       told[l][Len(told[l])].DeliveryTag = expecting - (IF Owed(l) THEN 2 ELSE 1)

Agree(l, k) ==
  \A i \in DOMAIN told[l], j \in DOMAIN told[k] :
    told[l][i].DeliveryTag = told[k][j].DeliveryTag => told[l][i] = told[k][j]

ToldInOrder ==
  \A l \in Listener :
    /\ InSequence(l)
    /\ \A i \in DOMAIN told[l] : told[l][i].DeliveryTag \in DOMAIN settled
    /\ \A k \in Listener : Agree(l, k)

(***************************************************************************)
(* One and Multiple return with nothing held back ("one confirms one       *)
(* publishing and all following in the publishing sequence"): the answer   *)
(* to the publishing expected next has not come, or came before Publish.   *)
(* (Publish itself does not resequence: with Ahead > 0 it may leave an     *)
(* answer held back until the next One or Multiple.)                       *)
(***************************************************************************)
NothingHeldBack ==
  [][(work # Unlocked /\ work' = Unlocked) =>
       (expecting \in DOMAIN settled => expecting > published)]_vars

(***************************************************************************)
(* The bookkeeping does not leak: between calls, the sequencer holds the   *)
(* broker's own answers to later publishings, all of them unless a         *)
(* Multiple has overtaken them, and none to a publishing already told of.  *)
(***************************************************************************)
SequencerIsTidy ==
  /\ DOMAIN sequencer \subseteq {t \in DOMAIN settled : t >= expecting}
  /\ \A t \in DOMAIN sequencer :
       sequencer[t] = [DeliveryTag |-> t, Ack |-> settled[t]]
  /\ work = Unlocked => DOMAIN sequencer = {t \in DOMAIN settled : t >= expecting}

(***************************************************************************)
(* The field Ack of a Confirmation, by its comment in amqp/types.go: "True *)
(* when the server successfully received the publishing".                  *)
(***************************************************************************)
ToldTheAnswer ==
  \A l \in Listener : \A i \in DOMAIN told[l] :
    told[l][i].Ack = settled[told[l][i].DeliveryTag]

(***************************************************************************)
(* While listeners keep receiving, One and Multiple return and the mutex   *)
(* is released, so Publish, Listen and Close do not hang; with             *)
(* NothingHeldBack, every publishing counted and answered together with    *)
(* all before it has been confirmed by then.                               *)
(***************************************************************************)
MutexIsReleased == work # Unlocked ~> work = Unlocked
=============================================================================
