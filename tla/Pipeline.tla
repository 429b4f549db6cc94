------------------------------ MODULE Pipeline ------------------------------
(***************************************************************************)
(* The way of a delivery from Channel.dispatch to the handler of messages: *)
(* dispatch (amqp/channel.go) passes it to the consumers object, the       *)
(* buffer goroutine of its registration hands it to a forwarding goroutine *)
(* that dispatch started with the registration, and the forwarder writes   *)
(* it to the Go channel chMsg, of capacity one, that all forwarders share. *)
(* One goroutine parses and dispatches, one handles messages (handleMsg of *)
(* main.go).                                                               *)
(*                                                                         *)
(* chMsg is the only output of the package: the branch of the forwarder    *)
(* for a connection without one is left out, NewParser always gets one.    *)
(***************************************************************************)
EXTENDS Consumers

CONSTANTS
  Parser,   (* the goroutine that parses                                    *)
  NoTag,    (* dispatch is not between add and send                         *)
  NoMsg,    (* a forwarder holds nothing                                    *)
  Capacity, (* of chMsg                                                     *)
  MaxCancel (* bound: cancellations dispatched                              *)

ASSUME PipelineAssumption ==
  /\ Caller = {Parser} /\ NoTag \notin Tag /\ NoMsg \notin Msg
  /\ Capacity \in Nat \ {0} /\ MaxCancel \in Nat

VARIABLES
  adding,    (* the tag dispatch has added and not sent to yet              *)
  forwarder, (* of each registration: "none", "ranging", "holding", "ended" *)
  held,      (* the delivery a forwarder holds                              *)
  chMsg,     (* the buffer of chMsg                                         *)
  handled,   (* history: the deliveries handleMsg has taken                 *)
  tagOf,     (* history: the tags of the deliveries dispatched              *)
  cancels    (* history: the cancellations dispatched: of which tag, and    *)
             (* after how many deliveries                                   *)

pipelineVars == <<adding, forwarder, held, chMsg, handled, tagOf, cancels>>
allVars == <<vars, pipelineVars>>

PipelineTypeOK ==
  /\ TypeOK
  /\ adding \in Tag \cup {NoTag}
  /\ forwarder \in [Reg -> {"none", "ranging", "holding", "ended"}]
  /\ held \in [Reg -> Msg \cup {NoMsg}]
  /\ chMsg \in Seq(Msg) /\ Len(chMsg) <= Capacity
  /\ handled \in Seq(Msg)
  /\ tagOf \in Seq(Tag) /\ Len(tagOf) <= MaxSend
  /\ cancels \in Seq(Tag \X (0 .. MaxSend))

PipelineInit ==
  /\ Init
  /\ adding = NoTag
  /\ forwarder = [b \in Reg |-> "none"]
  /\ held = [b \in Reg |-> NoMsg]
  /\ chMsg = <<>>
  /\ handled = <<>>
  /\ tagOf = <<>>
  /\ cancels = <<>>

-----------------------------------------------------------------------------
(* Channel.dispatch.                                                       *)

Idle == adding = NoTag /\ call[Parser] = NotCalling

(* A basic.deliver of a tag without a registration: dispatch adds one and  *)
(* starts its forwarder, then sends.                                       *)
DeliverFirst(t) ==
  /\ Idle /\ Len(tagOf) < MaxSend
  /\ chans[t] = NoReg
  /\ Add(Parser, t)
  /\ adding' = t
  /\ forwarder' = [forwarder EXCEPT ![chans'[t]] = "ranging"]
  /\ tagOf' = Append(tagOf, t)
  /\ UNCHANGED <<held, chMsg, handled, cancels>>

SendFirst ==
  /\ adding # NoTag
  /\ Send(Parser, adding)
  /\ adding' = NoTag
  /\ UNCHANGED <<forwarder, held, chMsg, handled, tagOf, cancels>>

(* Mutant of DeliverNext: every delivery registers its tag anew. *)
DeliverAlwaysAdds(t) ==
  /\ Idle /\ Len(tagOf) < MaxSend
  /\ chans[t] # NoReg
  /\ Add(Parser, t)
  /\ adding' = t
  /\ forwarder' = [forwarder EXCEPT ![chans'[t]] = "ranging"]
  /\ tagOf' = Append(tagOf, t)
  /\ UNCHANGED <<held, chMsg, handled, cancels>>

(* A basic.deliver of a registered tag. *)
DeliverNext(t) ==
  /\ Idle /\ Len(tagOf) < MaxSend
  /\ chans[t] # NoReg
  /\ Send(Parser, t)
  /\ tagOf' = Append(tagOf, t)
  /\ UNCHANGED <<adding, forwarder, held, chMsg, handled, cancels>>

Accepted == SendDone(Parser) /\ UNCHANGED pipelineVars

(* A basic.cancel of a registered tag; of any other tag it does nothing.   *)
CancelTag(t) ==
  /\ Idle /\ Len(cancels) < MaxCancel
  /\ Cancel(Parser, t)
  /\ cancels' = Append(cancels, <<t, Len(tagOf)>>)
  /\ UNCHANGED <<adding, forwarder, held, chMsg, handled, tagOf>>

-----------------------------------------------------------------------------
(* The goroutines behind dispatch.                                         *)

Buffer(b) ==
  /\ RangeEnds(b) \/ SelectInflightEnds(b) \/ CloseOut(b)
  /\ UNCHANGED pipelineVars

(* Mutant of Take: a forwarder does not wait until it has passed on the    *)
(* delivery it holds.                                                      *)
TakeAnother(b) ==
  /\ forwarder[b] \in {"ranging", "holding"}
  /\ SelectOut(b)
  /\ forwarder' = [forwarder EXCEPT ![b] = "holding"]
  /\ held' = [held EXCEPT ![b] = Head(queue[b])]
  /\ UNCHANGED <<adding, chMsg, handled, tagOf, cancels>>

(* The buffer goroutine and the range loop of the forwarder meet at out.   *)
Take(b) ==
  /\ forwarder[b] = "ranging"
  /\ SelectOut(b)
  /\ forwarder' = [forwarder EXCEPT ![b] = "holding"]
  /\ held' = [held EXCEPT ![b] = Head(queue[b])]
  /\ UNCHANGED <<adding, chMsg, handled, tagOf, cancels>>

(* Mutant of PassOn: when chMsg is full the delivery is dropped. *)
PassOnOrDrop(b) ==
  /\ forwarder[b] = "holding"
  /\ chMsg' = IF Len(chMsg) < Capacity THEN Append(chMsg, held[b]) ELSE chMsg
  /\ forwarder' = [forwarder EXCEPT ![b] = "ranging"]
  /\ held' = [held EXCEPT ![b] = NoMsg]
  /\ UNCHANGED <<vars, adding, handled, tagOf, cancels>>

(* Mutant of PassOn: without waiting for room. *)
PassOnWithoutRoom(b) ==
  /\ forwarder[b] = "holding"
  /\ chMsg' = Append(chMsg, held[b])
  /\ forwarder' = [forwarder EXCEPT ![b] = "ranging"]
  /\ held' = [held EXCEPT ![b] = NoMsg]
  /\ UNCHANGED <<vars, adding, handled, tagOf, cancels>>

(* chMsg <- &WrappedMessage{...} *)
PassOn(b) ==
  /\ forwarder[b] = "holding" /\ Len(chMsg) < Capacity
  /\ chMsg' = Append(chMsg, held[b])
  /\ forwarder' = [forwarder EXCEPT ![b] = "ranging"]
  /\ held' = [held EXCEPT ![b] = NoMsg]
  /\ UNCHANGED <<vars, adding, handled, tagOf, cancels>>

(* The range loop of the forwarder ends with out. *)
ForwarderEnds(b) ==
  /\ forwarder[b] = "ranging" /\ b \in outClosed
  /\ forwarder' = [forwarder EXCEPT ![b] = "ended"]
  /\ UNCHANGED <<vars, adding, held, chMsg, handled, tagOf, cancels>>

(* handleMsg takes a message, which it prints or finds to be unreadable. *)
Handle ==
  /\ chMsg # <<>>
  /\ handled' = Append(handled, Head(chMsg))
  /\ chMsg' = Tail(chMsg)
  /\ UNCHANGED <<vars, adding, forwarder, held, tagOf, cancels>>

PipelineNext ==
  \/ \E t \in Tag : DeliverFirst(t) \/ DeliverNext(t) \/ CancelTag(t)
  \/ SendFirst \/ Accepted
  \/ \E b \in Reg : Buffer(b) \/ Take(b) \/ PassOn(b) \/ ForwarderEnds(b)
  \/ Handle

(***************************************************************************)
(* Fairness: every goroutine of the package that can run does. Forwarders  *)
(* that wait for room in chMsg get it in turn (a Go channel queues blocked *)
(* senders), hence the strong fairness. Nothing is asked of handleMsg:     *)
(* the properties that need it to keep receiving say so.                   *)
(***************************************************************************)
PipelineSpec ==
  /\ PipelineInit /\ [][PipelineNext]_allVars
  /\ WF_allVars(SendFirst) /\ WF_allVars(Accepted)
  /\ \A b \in Reg : /\ WF_allVars(Buffer(b)) /\ WF_allVars(ForwarderEnds(b))
                    /\ WF_allVars(Take(b)) /\ SF_allVars(PassOn(b))

HandlerKeepsReceiving == WF_allVars(Handle)

-----------------------------------------------------------------------------
(***************************************************************************)
(* Deliveries of one consumer tag are handled in the order in which they   *)
(* were dispatched, except across a cancellation of the tag: dispatch then *)
(* makes a new registration and a second forwarder runs beside the first.  *)
(***************************************************************************)
TagOrder ==
  \A i, j \in DOMAIN handled :
    /\ i < j /\ handled[i] >= handled[j]
    /\ tagOf[handled[i]] = tagOf[handled[j]]
    => \E n \in DOMAIN cancels :
         /\ cancels[n][1] = tagOf[handled[i]]
         /\ handled[j] <= cancels[n][2] /\ cancels[n][2] < handled[i]

(***************************************************************************)
(* dispatch returns although handleMsg may never take a message: parsing   *)
(* does not wait for printing.                                             *)
(***************************************************************************)
DispatchReturns == ~Idle ~> Idle

(* Every delivery dispatched is handled, also those of a cancelled tag,    *)
(* while handleMsg keeps receiving.                                        *)
DeliveredIsHandled ==
  HandlerKeepsReceiving =>
    \A m \in Msg : Len(tagOf) >= m ~> \E i \in DOMAIN handled : handled[i] = m

(***************************************************************************)
(* The forwarder of a cancelled tag ends, while handleMsg keeps receiving: *)
(* a capture with many consumers leaves no goroutines behind for those     *)
(* that were cancelled.                                                    *)
(***************************************************************************)
ForwardersEnd ==
  HandlerKeepsReceiving =>
    \A b \in Reg : b \in inClosed ~> forwarder[b] = "ended"

(***************************************************************************)
(* From dispatch to handleMsg, a registration is still the lossless queue  *)
(* that the consumers object promises: what handleMsg takes is what the    *)
(* queue hands out, and what is on the way is pending.                     *)
(***************************************************************************)
Among(A, s) ==   \* the elements of s that are in A, in their order
  LET upTo[n \in 0 .. Len(s)] ==
        IF n = 0 THEN <<>>
        ELSE IF s[n] \in A THEN Append(upTo[n-1], s[n]) ELSE upTo[n-1]
  IN  upTo[Len(s)]
Of(b, s) == Among({accepted[b][i] : i \in DOMAIN accepted[b]}, s)
OnTheWay(b) ==
  Of(b, chMsg) \o (IF held[b] = NoMsg THEN <<>> ELSE <<held[b]>>) \o queue[b]

PipelineQueues == INSTANCE DeliveryQueues WITH
  Stream <- Reg, Delivery <- Msg,
  phase <- [b \in Reg |-> IF stage[b] = "unborn" THEN "new"
                          ELSE IF b \in inClosed THEN "ending" ELSE "open"],
  pending <- [b \in Reg |-> OnTheWay(b)],
  handedOut <- [b \in Reg |-> Of(b, handled)],
  down <- FALSE

ImplementsPipelineQueues == PipelineQueues!Spec
=============================================================================
