---------------------------- MODULE RabbitmqApp ----------------------------
(***************************************************************************)
(* The example of mq/rabbitmq/main.go: a program that publishes to the     *)
(* queue qu1 and consumes from it, on a connection each, until it is       *)
(* interrupted. It may crash, lose its connections, and be run again.      *)
(*                                                                         *)
(* A process has four goroutines: main, publish, consume and the consumer  *)
(* that consume starts. main waits for the interrupt, cancels the context  *)
(* and waits for publish and consume (wg), but not for the consumer. Any   *)
(* of them ends the whole process by log.Fatalf.                           *)
(*                                                                         *)
(* The broker and the client library (streadway/amqp) are external: a      *)
(* connection carries publishings and acknowledgements to the broker in    *)
(* order; closing it is a handshake, answered when all of them have been   *)
(* processed; when it is lost, what is on the way may or may not arrive.   *)
(* Unacknowledged deliveries of a connection that ended return to the      *)
(* queue. (The broker may notice the loss late: since it may also deliver  *)
(* late, nothing is lost by letting it notice at once.)                    *)
(***************************************************************************)
EXTENDS Integers, FiniteSets

CONSTANTS
  Earlier,    (* messages that may be on the queue before the first run     *)
  Unreadable, (* those of them that Unmarshal cannot read                   *)
  NoMsg,      (* the consumer goroutine holds no message                    *)
  Prefetch,   (* ch.Qos(1, 0, false)                                        *)
  Runs,       (* bound: processes, numbered in the order of their start     *)
  MaxPublish, (* bound: publishings of one process                          *)
  MaxRunning  (* bound: processes running at a time                         *)

Proc == 1 .. Runs
Own == Proc \X (1 .. MaxPublish)
Msg == Own \cup Earlier

ASSUME RabbitmqAppAssumption ==
  /\ Own \cap Earlier = {} /\ Unreadable \subseteq Earlier /\ NoMsg \notin Msg
  /\ Prefetch = 1
  /\ Runs \in Nat /\ MaxPublish \in Nat /\ MaxRunning \in Nat

VARIABLES
  proc,     (* of each process: its goroutines main, pub(lish), con(sume)   *)
            (* and worker (the consumer), wg, the message the worker has    *)
            (* handled and not acknowledged, and the publishings accepted   *)
  link,     (* of each process: its two connections ("none", "open", "down" *)
            (* when lost or closed, "closing" while the request to close is *)
            (* on the way; publish's is "closed" from the answer to the end *)
            (* of the process) and what is on them: publishings received, a *)
            (* consumer at the broker, deliveries not acknowledged, those   *)
            (* not yet handled (msgs), acknowledgements                     *)
  declared, (* external: the queue qu1 exists                               *)
  queue,    (* external: messages that wait on qu1                          *)
  removed,  (* external: messages acknowledged                              *)
  handled,  (* history: messages some consumer has handled                  *)
  repeats   (* history: how many times a handled one was handled again      *)

store == <<declared, queue, removed>>
history == <<handled, repeats>>
vars == <<proc, link, store, history>>

Process == [
  main : {"idle", "waiting", "joining", "exited", "failed"}, wg : 0 .. 2,
  pub : {"dial", "loop", "publish", "close", "gone"}, count : 0 .. MaxPublish,
  con : {"dial", "waiting", "close", "gone"},
  worker : {"subscribe", "loop", "acking", "leaving", "gone"},
  holding : Msg \cup {NoMsg}]

Links == [
  pub : {"none", "open", "closed", "down"}, received : 0 .. MaxPublish,
  con : {"none", "open", "closing", "down"}, consuming : BOOLEAN,
  unacked : SUBSET Msg, inbox : SUBSET Msg, acks : SUBSET Msg]

TypeOK ==
  /\ proc \in [Proc -> Process] /\ link \in [Proc -> Links]
  /\ \A p \in Proc : /\ proc[p].worker = "acking" <=> proc[p].holding # NoMsg
                     /\ link[p].received <= proc[p].count
                     /\ link[p].acks \subseteq link[p].unacked
  /\ declared \in BOOLEAN
  /\ queue \subseteq Msg /\ removed \subseteq Msg /\ handled \subseteq Msg
  /\ repeats \in Nat

Init ==
  /\ proc = [p \in Proc |-> [main |-> "idle", wg |-> 0, pub |-> "gone", count |-> 0,
                             con |-> "gone", worker |-> "gone", holding |-> NoMsg]]
  /\ link = [p \in Proc |-> [pub |-> "none", received |-> 0, con |-> "none",
               consuming |-> FALSE, unacked |-> {}, inbox |-> {}, acks |-> {}]]
  /\ declared \in BOOLEAN
  /\ queue \in {{}} \cup (IF declared THEN {{m} : m \in Earlier} ELSE {})
  /\ removed = {} /\ handled = {} /\ repeats = 0

-----------------------------------------------------------------------------
(* main.                                                                   *)

Running(p) == proc[p].main \in {"waiting", "joining"}
Cancelled(p) == proc[p].main = "joining"    \* ctx.Done() is closed

MayStart(p) ==
  /\ proc[p].main = "idle" /\ \A q \in 1 .. p-1 : proc[q].main # "idle"
  /\ Cardinality({q \in Proc : Running(q)}) < MaxRunning

(* Mutant of Start: wg.Add(1). *)
StartAddingOne(p) ==
  /\ MayStart(p)
  /\ proc' = [proc EXCEPT ![p].main = "waiting", ![p].wg = 1,
                          ![p].pub = "dial", ![p].con = "dial"]
  /\ UNCHANGED <<link, store, history>>

Start(p) ==
  /\ MayStart(p)
  /\ proc' = [proc EXCEPT ![p].main = "waiting", ![p].wg = 2,
                          ![p].pub = "dial", ![p].con = "dial"]
  /\ UNCHANGED <<link, store, history>>

(* A signal comes: main cancels the context. *)
Interrupt(p) ==
  /\ proc[p].main = "waiting"
  /\ proc' = [proc EXCEPT ![p].main = "joining"]
  /\ UNCHANGED <<link, store, history>>

(***************************************************************************)
(* Connections of p are lost: the publisher's, the consumer's or both. Of  *)
(* the publishings on the way the first ones arrive (those to a queue that *)
(* does not exist are dropped: mandatory is false), of the                 *)
(* acknowledgements any.                                                   *)
(***************************************************************************)
Arriving(p, n) ==
  IF declared THEN {<<p, i>> : i \in link[p].received + 1 .. n} ELSE {}

(* The broker takes back what is not acknowledged; the client finds the    *)
(* connection (or the channel) in the state conn.                          *)
TakenBack(l, conn) ==
  [l EXCEPT !.con = conn, !.consuming = FALSE, !.unacked = {}, !.acks = {}]

LosePub(p, n) ==
  /\ link' = [link EXCEPT ![p].pub = "down", ![p].received = n]
  /\ queue' = queue \cup Arriving(p, n)
  /\ UNCHANGED <<declared, removed>>

LoseCon(p, A) ==
  /\ link' = [link EXCEPT ![p] = TakenBack(@, "down")]
  /\ queue' = queue \cup (link[p].unacked \ A)
  /\ removed' = removed \cup A
  /\ UNCHANGED declared

PubUp(p) == link[p].pub = "open"
ConUp(p) == link[p].con \in {"open", "closing"}

(* The process ends: its goroutines are gone, its connections fall. *)
End(p, how) ==
  /\ proc' = [proc EXCEPT ![p] = [@ EXCEPT !.main = how, !.pub = "gone", !.con = "gone",
                                           !.worker = "gone", !.holding = NoMsg, !.wg = 0]]
  /\ \E n \in link[p].received .. proc[p].count, A \in SUBSET link[p].acks :
       /\ ~PubUp(p) => n = link[p].received
       /\ link' = [link EXCEPT ![p] =
            [TakenBack(link[p], IF ConUp(p) THEN "down" ELSE link[p].con) EXCEPT
               !.pub = IF link[p].pub = "none" THEN "none" ELSE "down",
               !.received = n, !.inbox = {}]]
       /\ queue' = queue \cup Arriving(p, n) \cup (link[p].unacked \ A)
       /\ removed' = removed \cup A
  /\ UNCHANGED <<declared, history>>

(* wg.Wait() returns, and main. *)
MainReturns(p) == Cancelled(p) /\ proc[p].wg = 0 /\ End(p, "exited")

Fatal(p) == End(p, "failed")           \* fatalError, or a panic

(* The process is killed. *)
Crash(p) == Running(p) /\ Fatal(p)

-----------------------------------------------------------------------------
(* publish.                                                                *)

(* Dial and Channel. *)
PubDial(p) ==
  /\ proc[p].pub = "dial"
  /\ \/ Fatal(p)
     \/ /\ proc' = [proc EXCEPT ![p].pub = "loop"]
        /\ link' = [link EXCEPT ![p].pub = "open"]
        /\ UNCHANGED <<store, history>>

(* select: the context is looked at once per publishing. *)
PubSelect(p) ==
  /\ proc[p].pub = "loop"
  /\ \/ Cancelled(p) /\ proc' = [proc EXCEPT ![p].pub = "close"]
     \/ /\ ~Cancelled(p) /\ proc[p].count < MaxPublish
        /\ proc' = [proc EXCEPT ![p].pub = "publish"]
  /\ UNCHANGED <<link, store, history>>

(* ch.Publish returns as soon as the publishing is written. *)
Publish(p) ==
  /\ proc[p].pub = "publish"
  /\ \/ ~PubUp(p) /\ Fatal(p)
     \/ /\ PubUp(p)
        /\ proc' = [proc EXCEPT ![p].pub = "loop", ![p].count = @ + 1]
        /\ UNCHANGED <<link, store, history>>

(* Mutants of PubClose: wg.Done does not wait for the connection to be     *)
(* closed; it is forgotten.                                                *)
PubDoneFirst(p) ==
  /\ proc[p].pub = "close"
  /\ proc' = [proc EXCEPT ![p].pub = "gone", ![p].wg = @ - 1]
  /\ UNCHANGED <<link, store, history>>
PubCloseOnly(p) ==
  /\ proc[p].pub = "close"
  /\ PubUp(p) => link[p].received = proc[p].count
  /\ link' = [link EXCEPT ![p].pub = IF PubUp(p) THEN "closed" ELSE @]
  /\ proc' = [proc EXCEPT ![p].pub = "gone"]
  /\ UNCHANGED <<store, history>>

(* The deferred calls, last to first: ch.Close, conn.Close, whose errors   *)
(* are ignored, and wg.Done.                                               *)
PubClose(p) ==
  /\ proc[p].pub = "close"
  /\ PubUp(p) => link[p].received = proc[p].count
  /\ link' = [link EXCEPT ![p].pub = IF PubUp(p) THEN "closed" ELSE @]
  /\ proc' = [proc EXCEPT ![p].pub = "gone", ![p].wg = @ - 1]
  /\ UNCHANGED <<store, history>>

-----------------------------------------------------------------------------
(* consume.                                                                *)

(* Dial; the consumer goroutine is started. *)
ConDial(p) ==
  /\ proc[p].con = "dial"
  /\ \/ Fatal(p)
     \/ /\ proc' = [proc EXCEPT ![p].con = "waiting", ![p].worker = "subscribe"]
        /\ link' = [link EXCEPT ![p].con = "open"]
        /\ UNCHANGED <<store, history>>

(* <-ctx.Done(); wg.Done() *)
ConDone(p) ==
  /\ proc[p].con = "waiting" /\ Cancelled(p)
  /\ proc' = [proc EXCEPT ![p].con = "close", ![p].wg = @ - 1]
  /\ UNCHANGED <<link, store, history>>

(* The deferred conn.Close, whose error is ignored. The broker discards    *)
(* what is sent after the request; consume has nothing left to do but wait *)
(* for the answer.                                                         *)
ConClose(p) ==
  /\ proc[p].con = "close"
  /\ proc' = [proc EXCEPT ![p].con = "gone"]
  /\ link' = [link EXCEPT ![p].con = IF @ = "open" THEN "closing" ELSE @]
  /\ UNCHANGED <<store, history>>

-----------------------------------------------------------------------------
(* consumer.                                                               *)

(* Channel, Qos and Consume. *)
Subscribe(p) ==
  /\ proc[p].worker = "subscribe"
  /\ LET accepted == link[p].con = "open" /\ declared IN
     \/ ~accepted /\ Fatal(p)
     \/ /\ accepted
        /\ proc' = [proc EXCEPT ![p].worker = "loop"]
        /\ link' = [link EXCEPT ![p].consuming = TRUE]
        /\ UNCHANGED <<store, history>>

(* Mutant of WithinPrefetch: Qos is not called. *)
Unlimited(p) == TRUE

(* ch.Qos(1, 0, false): the consumer gets the next delivery when the       *)
(* broker has its acknowledgement of the last.                             *)
WithinPrefetch(p) == Cardinality(link[p].unacked) < Prefetch

(* Mutant of Handle: a message that cannot be read is acknowledged. *)
HandleOrDiscard(p, m) ==
  /\ proc[p].worker = "loop" /\ m \in link[p].inbox
  /\ proc' = [proc EXCEPT ![p].worker = "acking", ![p].holding = m]
  /\ link' = [link EXCEPT ![p].inbox = @ \ {m}]
  /\ handled' = handled \cup ({m} \ Unreadable)
  /\ UNCHANGED <<store, repeats>>

(* select: a delivery, which Unmarshal reads, or panics on for its length. *)
Handle(p, m) ==
  /\ proc[p].worker = "loop" /\ m \in link[p].inbox
  /\ \/ m \in Unreadable /\ Fatal(p)
     \/ /\ m \notin Unreadable
        /\ proc' = [proc EXCEPT ![p].worker = "acking", ![p].holding = m]
        /\ link' = [link EXCEPT ![p].inbox = @ \ {m}]
        /\ handled' = handled \cup {m}
        /\ repeats' = IF m \in handled THEN repeats + 1 ELSE repeats
        /\ UNCHANGED store

Acked(p) == proc' = [proc EXCEPT ![p].worker = "loop", ![p].holding = NoMsg]

(* Mutant of AckDelivery: msg.Ack(false) is forgotten. *)
SkipAck(p) ==
  proc[p].worker = "acking" /\ Acked(p) /\ UNCHANGED <<link, store, history>>

(* msg.Ack(false) *)
AckDelivery(p) ==
  /\ proc[p].worker = "acking"
  /\ \/ ~ConUp(p) /\ Fatal(p)
     \/ /\ link[p].con = "open" /\ Acked(p)
        /\ link' = [link EXCEPT ![p].acks = @ \cup {proc[p].holding}]
        /\ UNCHANGED <<store, history>>
     \/ link[p].con = "closing" /\ Acked(p) /\ UNCHANGED <<link, store, history>>

(* select: the context is cancelled. *)
Leave(p) ==
  /\ proc[p].worker = "loop" /\ Cancelled(p)
  /\ proc' = [proc EXCEPT ![p].worker = "leaving"]
  /\ UNCHANGED <<link, store, history>>

(* The deferred ch.Close: answered, or given up with the connection. *)
LeaveChannel(p) ==
  /\ proc[p].worker = "leaving"
  /\ proc' = [proc EXCEPT ![p].worker = "gone"]
  /\ \/ /\ link[p].con = "open" /\ link[p].acks = {}
        /\ link' = [link EXCEPT ![p] = [TakenBack(@, "open") EXCEPT !.inbox = {}]]
        /\ queue' = queue \cup link[p].unacked
     \/ /\ link[p].con = "down"
        /\ link' = [link EXCEPT ![p].inbox = {}]
        /\ UNCHANGED queue
  /\ UNCHANGED <<declared, removed, history>>

(* select: the library has closed msgs since the connection ended; the     *)
(* consumer returns, the program goes on without it.                       *)
MsgsClosed(p) ==
  /\ proc[p].worker = "loop" /\ link[p].con = "down"
  /\ proc' = [proc EXCEPT ![p].worker = "gone"]
  /\ link' = [link EXCEPT ![p].inbox = {}]
  /\ UNCHANGED <<store, history>>

-----------------------------------------------------------------------------
(* The network and the broker (external).                                  *)

LoseConn(p) ==
  /\ \/ PubUp(p) /\ \E n \in link[p].received .. proc[p].count : LosePub(p, n)
     \/ ConUp(p) /\ \E A \in SUBSET link[p].acks : LoseCon(p, A)
  /\ UNCHANGED <<proc, history>>

BrokerReceives(p) ==
  /\ PubUp(p) /\ link[p].received < proc[p].count
  /\ link' = [link EXCEPT ![p].received = @ + 1]
  /\ queue' = queue \cup Arriving(p, link[p].received + 1)
  /\ UNCHANGED <<proc, declared, removed, history>>

BrokerDelivers(p, m) ==
  /\ link[p].con = "open" /\ link[p].consuming /\ WithinPrefetch(p)
  /\ m \in queue
  /\ queue' = queue \ {m}
  /\ link' = [link EXCEPT ![p].unacked = @ \cup {m}, ![p].inbox = @ \cup {m}]
  /\ UNCHANGED <<proc, declared, removed, history>>

BrokerGetsAck(p, m) ==
  /\ m \in link[p].acks
  /\ link' = [link EXCEPT ![p].acks = @ \ {m}, ![p].unacked = @ \ {m}]
  /\ removed' = removed \cup {m}
  /\ UNCHANGED <<proc, declared, queue, history>>

(* The broker answers conn.Close. *)
BrokerCloses(p) ==
  /\ link[p].con = "closing" /\ link[p].acks = {}
  /\ LoseCon(p, {})
  /\ UNCHANGED <<proc, history>>

-----------------------------------------------------------------------------
ProgramStep(p) ==
  \/ MainReturns(p)
  \/ PubDial(p) \/ PubSelect(p) \/ Publish(p) \/ PubClose(p)
  \/ ConDial(p) \/ ConDone(p) \/ ConClose(p)
  \/ Subscribe(p) \/ (\E m \in Msg : Handle(p, m)) \/ AckDelivery(p)
  \/ Leave(p) \/ LeaveChannel(p) \/ MsgsClosed(p)

BrokerStep(p) ==
  \/ BrokerReceives(p) \/ BrokerCloses(p)
  \/ \E m \in Msg : BrokerDelivers(p, m) \/ BrokerGetsAck(p, m)

Next ==
  \E p \in Proc :
    \/ Start(p) \/ Interrupt(p) \/ Crash(p) \/ LoseConn(p)
    \/ ProgramStep(p) \/ BrokerStep(p)

(***************************************************************************)
(* Fairness: a process with a goroutine that can run takes a step, and the *)
(* broker goes on with what it is sent and has to deliver. (Steps of one   *)
(* goroutine are few, so none is passed over for ever.) Nothing obliges    *)
(* anyone to start, interrupt or crash a process, or to lose a connection. *)
(***************************************************************************)
Spec ==
  /\ Init /\ [][Next]_vars
  /\ \A p \in Proc : WF_vars(ProgramStep(p)) /\ WF_vars(BrokerStep(p))
-----------------------------------------------------------------------------
(***************************************************************************)
(* A process that exits with status 0 has had all its publishings taken by *)
(* the broker, unless the connection was lost: publish closes it, and      *)
(* waits for the answer, before it counts itself done.                     *)
(***************************************************************************)
PublishedIsReceived ==
  [][\A p \in Proc :
       proc[p].main = "joining" /\ proc'[p].main = "exited" =>
         link[p].received = proc[p].count \/ link[p].pub = "down"]_vars

(***************************************************************************)
(* Handling something twice is the price of a connection that ended, and   *)
(* one connection costs at most one repetition: a prefetch of one lets no  *)
(* second message be handled before the broker knows of the first.         *)
(***************************************************************************)
RepeatsAreBounded ==
  repeats <= Cardinality({p \in Proc : link[p].con = "down"})

(***************************************************************************)
(* Whatever crashes, is lost or interrupted, a message on the queue leaves *)
(* it only after it was handled (WorkQueue): consumer acknowledges after   *)
(* it has read the message, and a message it cannot read stays for ever.   *)
(***************************************************************************)
Work == INSTANCE WorkQueue WITH
  enqueued <- queue \cup removed \cup UNION {link[p].unacked : p \in Proc}

ImplementsWorkQueue == Work!Spec

(* After the interrupt the process ends: nobody waits for anybody else.    *)
InterruptEnds == \A p \in Proc : Cancelled(p) ~> ~Running(p)

(***************************************************************************)
(* A message on the queue gets handled as long as some process consumes:   *)
(* each acknowledgement makes room for the next delivery, and messages of  *)
(* a lost connection come back.                                            *)
(***************************************************************************)
Serving(p) ==
  link[p].consuming /\ link[p].con = "open" /\ proc[p].worker \in {"loop", "acking"}

QueuedIsHandled ==
  \A m \in Msg \ Unreadable : m \in queue ~> m \in handled \/ \A p \in Proc : ~Serving(p)
=============================================================================
