----------------------------- MODULE Consumers -----------------------------
(***************************************************************************)
(* The consumers object of a Channel (amqp/consumers.go): a map from       *)
(* consumer tags to the input Go channels of buffer goroutines, guarded by *)
(* a mutex. Calls are made by several goroutines; send keeps the mutex     *)
(* while it waits for the buffer goroutine to take the delivery, and close *)
(* keeps it while it waits for every buffer goroutine.                     *)
(*                                                                         *)
(* Registration b (the b-th call of add) stands for the Go channel in it   *)
(* makes, the buffer goroutine it starts and the Go channel out that the   *)
(* goroutine writes to.                                                    *)
(***************************************************************************)
EXTENDS Integers, Sequences, FiniteSets

CONSTANTS
  Caller,   (* goroutines that use the object                               *)
  Tag,      (* consumer tags                                                *)
  NoCaller, (* nobody holds the mutex                                       *)
  MaxAdd,   (* bound: calls of add                                          *)
  MaxSend   (* bound: calls of send that find their consumer                *)

ASSUME ConsumersAssumption ==
  /\ NoCaller \notin Caller
  /\ MaxAdd \in Nat /\ MaxSend \in Nat

Reg == 1 .. MaxAdd
NoReg == 0
Msg == 1 .. MaxSend      \* the n-th delivery passed to send

VARIABLES
  chans,     (* subs.chans: the registration of each tag                    *)
  closed,    (* the Go channel subs.closed is closed                        *)
  holder,    (* who holds the mutex                                         *)
  call,      (* what each caller is blocked on                              *)
  inClosed,  (* registrations whose Go channel in is closed                 *)
  stage,     (* where the buffer goroutine of a registration is             *)
  inflight,  (* FALSE when the goroutine has set its inflight to nil        *)
  queue,     (* the goroutine's queue                                       *)
  outClosed, (* registrations whose Go channel out is closed                *)
  panicked,  (* a Go channel was closed twice or written after its close    *)
  accepted,  (* history: what send handed to each registration              *)
  read       (* history: what was read from each Go channel out             *)

vars == <<chans, closed, holder, call, inClosed, stage, inflight, queue,
          outClosed, panicked, accepted, read>>
goroutineVars == <<stage, inflight, queue, outClosed, accepted, read>>

NotCalling == [op |-> "none"]
Stages == {"unborn", "range", "select", "leaving", "gone"}

TypeOK ==
  /\ chans \in [Tag -> Reg \cup {NoReg}]
  /\ closed \in BOOLEAN
  /\ holder \in Caller \cup {NoCaller}
  /\ call \in [Caller -> {NotCalling} \cup [op : {"close"}]
                          \cup [op : {"send"}, to : Reg, msg : Msg]]
  /\ inClosed \subseteq Reg
  /\ stage \in [Reg -> Stages]
  /\ inflight \in [Reg -> BOOLEAN]
  /\ queue \in [Reg -> Seq(Msg)]
  /\ outClosed \subseteq Reg
  /\ panicked \in BOOLEAN
  /\ accepted \in [Reg -> Seq(Msg)]
  /\ read \in [Reg -> Seq(Msg)]

(* makeConsumers *)
Init ==
  /\ chans = [t \in Tag |-> NoReg]
  /\ closed = FALSE
  /\ holder = NoCaller
  /\ call = [c \in Caller |-> NotCalling]
  /\ inClosed = {}
  /\ stage = [b \in Reg |-> "unborn"]
  /\ inflight = [b \in Reg |-> TRUE]
  /\ queue = [b \in Reg |-> <<>>]
  /\ outClosed = {}
  /\ panicked = FALSE
  /\ accepted = [b \in Reg |-> <<>>]
  /\ read = [b \in Reg |-> <<>>]

-----------------------------------------------------------------------------
(* The methods of the object. A caller is one goroutine: it has one call   *)
(* at a time, and a call starts when it gets the mutex.                    *)

GetsMutex(c) == ~panicked /\ holder = NoCaller /\ call[c] = NotCalling

(* Close the Go channels in of a set of registrations. *)
CloseIn(S) ==
  /\ inClosed' = inClosed \cup S
  /\ panicked' = (S \cap inClosed # {})

Registered(T) == {chans[t] : t \in T} \ {NoReg}

(* The next registration: add is called in the order of the identities. *)
IsNew(b) == stage[b] = "unborn" /\ \A a \in 1 .. b-1 : stage[a] # "unborn"

(* On a key conflict the previous channel is closed. Callers do not add a  *)
(* consumer to an object they have closed.                                 *)
Add(c, t) ==
  /\ GetsMutex(c) /\ ~closed
  /\ \E b \in Reg :
       /\ IsNew(b)
       /\ CloseIn(Registered({t}))
       /\ chans' = [chans EXCEPT ![t] = b]
       /\ stage' = [stage EXCEPT ![b] = "range"]
  /\ UNCHANGED <<closed, holder, call, inflight, queue, outClosed, accepted, read>>

(* Mutant of Cancel: the tag stays in the map. *)
CancelKeepingTag(c, t) ==
  /\ GetsMutex(c)
  /\ chans[t] # NoReg
  /\ CloseIn(Registered({t}))
  /\ UNCHANGED <<chans, closed, holder, call, goroutineVars>>

(* cancel has found the tag. *)
Cancel(c, t) ==
  /\ GetsMutex(c)
  /\ chans[t] # NoReg
  /\ chans' = [chans EXCEPT ![t] = NoReg]
  /\ CloseIn(Registered({t}))
  /\ UNCHANGED <<closed, holder, call, goroutineVars>>

(* send has looked the tag up, with success, and waits in buffer <- msg.   *)
Send(c, t) ==
  /\ GetsMutex(c)
  /\ chans[t] # NoReg
  /\ \E m \in Msg :
       /\ m = Cardinality({x \in Reg \X Msg : x[2] \in DOMAIN accepted[x[1]]}) + 1
       /\ call' = [call EXCEPT ![c] = [op |-> "send", to |-> chans[t], msg |-> m]]
  /\ holder' = c
  /\ UNCHANGED <<chans, closed, inClosed, panicked, goroutineVars>>

(* Mutant of Receives: the select does not receive, it only hands out. *)
ReceivesWhenEmpty(b) == stage[b] = "range"

(* The buffer goroutine of b receives from in: it is at the head of its    *)
(* outer loop, or in the select with inflight not nil.                     *)
Receives(b) == stage[b] = "range" \/ (stage[b] = "select" /\ inflight[b])

(* Mutant of SendDone: the delivery jumps the queue. *)
SendDoneInFront(c) ==
  /\ ~panicked /\ call[c].op = "send"
  /\ LET b == call[c].to IN
     /\ b \in inClosed \/ Receives(b)
     /\ panicked' = (b \in inClosed)
     /\ queue' = [queue EXCEPT ![b] = <<call[c].msg>> \o @]
     /\ accepted' = [accepted EXCEPT ![b] = Append(@, call[c].msg)]
     /\ stage' = [stage EXCEPT ![b] = "select"]
  /\ call' = [call EXCEPT ![c] = NotCalling]
  /\ holder' = NoCaller
  /\ UNCHANGED <<chans, closed, inClosed, inflight, outClosed, read>>

(* The delivery is handed over. Had the Go channel been closed, the send    *)
(* would panic, and what else this step does would not matter any more.    *)
SendDone(c) ==
  /\ ~panicked /\ call[c].op = "send"
  /\ LET b == call[c].to IN
     /\ b \in inClosed \/ Receives(b)
     /\ panicked' = (b \in inClosed)
     /\ queue' = [queue EXCEPT ![b] = Append(@, call[c].msg)]
     /\ accepted' = [accepted EXCEPT ![b] = Append(@, call[c].msg)]
     /\ stage' = [stage EXCEPT ![b] = "select"]
  /\ call' = [call EXCEPT ![c] = NotCalling]
  /\ holder' = NoCaller
  /\ UNCHANGED <<chans, closed, inClosed, inflight, outClosed, read>>

(* Mutant of Close: the map is not emptied. *)
CloseKeepingTags(c) ==
  /\ GetsMutex(c) /\ ~closed
  /\ closed' = TRUE
  /\ CloseIn(Registered(Tag))
  /\ call' = [call EXCEPT ![c] = [op |-> "close"]]
  /\ holder' = c
  /\ UNCHANGED <<chans, goroutineVars>>

(* close closes subs.closed and every registered channel, then waits.      *)
(* It is called once (no code of the analyser calls it).                   *)
Close(c) ==
  /\ GetsMutex(c) /\ ~closed
  /\ closed' = TRUE
  /\ CloseIn(Registered(Tag))
  /\ chans' = [t \in Tag |-> NoReg]
  /\ call' = [call EXCEPT ![c] = [op |-> "close"]]
  /\ holder' = c
  /\ UNCHANGED goroutineVars

(* subs.Wait() returns: every goroutine has called subs.Done().            *)
CloseDone(c) ==
  /\ ~panicked /\ call[c].op = "close"
  /\ \A b \in Reg : stage[b] \notin {"range", "select"}
  /\ call' = [call EXCEPT ![c] = NotCalling]
  /\ holder' = NoCaller
  /\ UNCHANGED <<chans, closed, inClosed, panicked, goroutineVars>>

-----------------------------------------------------------------------------
(* The buffer goroutine of registration b.                                 *)

Leave(b) == stage' = [stage EXCEPT ![b] = "leaving"]   \* return; subs.Done()

RangeEnds(b) ==
  /\ ~panicked /\ stage[b] = "range" /\ b \in inClosed
  /\ Leave(b)
  /\ UNCHANGED <<chans, closed, holder, call, inClosed, inflight, queue,
                 outClosed, panicked, accepted, read>>

(* Mutant of SelectClosed: only a drained goroutine looks at closed. *)
SelectClosedDrained(b) ==
  /\ ~panicked /\ stage[b] = "select" /\ closed /\ queue[b] = <<>>
  /\ Leave(b)
  /\ UNCHANGED <<chans, closed, holder, call, inClosed, inflight, queue,
                 outClosed, panicked, accepted, read>>

SelectClosed(b) ==                    \* drops what is in the queue
  /\ ~panicked /\ stage[b] = "select" /\ closed
  /\ Leave(b)
  /\ UNCHANGED <<chans, closed, holder, call, inClosed, inflight, queue,
                 outClosed, panicked, accepted, read>>

(* Mutant of SelectInflightEnds: the goroutine returns when in is closed. *)
SelectInflightReturns(b) ==
  /\ ~panicked /\ stage[b] = "select" /\ inflight[b] /\ b \in inClosed
  /\ Leave(b)
  /\ UNCHANGED <<chans, closed, holder, call, inClosed, inflight, queue,
                 outClosed, panicked, accepted, read>>

SelectInflightEnds(b) ==
  /\ ~panicked /\ stage[b] = "select" /\ inflight[b] /\ b \in inClosed
  /\ inflight' = [inflight EXCEPT ![b] = FALSE]
  /\ UNCHANGED <<chans, closed, holder, call, inClosed, stage, queue,
                 outClosed, panicked, accepted, read>>

(* The reader of out takes the head of the queue. *)
SelectOut(b) ==
  /\ ~panicked /\ stage[b] = "select"
  /\ read' = [read EXCEPT ![b] = Append(@, Head(queue[b]))]
  /\ queue' = [queue EXCEPT ![b] = Tail(@)]
  /\ stage' = [stage EXCEPT ![b] = IF Tail(queue[b]) = <<>> THEN "range" ELSE "select"]
  /\ UNCHANGED <<chans, closed, holder, call, inClosed, inflight, outClosed,
                 panicked, accepted>>

(* Mutant of CloseOut: no deferred close(out). *)
LeaveOutOpen(b) ==
  /\ ~panicked /\ stage[b] = "leaving"
  /\ stage' = [stage EXCEPT ![b] = "gone"]
  /\ UNCHANGED <<chans, closed, holder, call, inClosed, inflight, queue,
                 outClosed, panicked, accepted, read>>

CloseOut(b) ==                        \* the deferred close(out), after Done
  /\ ~panicked /\ stage[b] = "leaving"
  /\ stage' = [stage EXCEPT ![b] = "gone"]
  /\ outClosed' = outClosed \cup {b}
  /\ UNCHANGED <<chans, closed, holder, call, inClosed, inflight, queue,
                 panicked, accepted, read>>

Goroutine(b) == RangeEnds(b) \/ SelectClosed(b) \/ SelectInflightEnds(b) \/ CloseOut(b)

Next ==
  \/ \E c \in Caller :
       \/ \E t \in Tag : Add(c, t) \/ Cancel(c, t) \/ Send(c, t)
       \/ SendDone(c) \/ Close(c) \/ CloseDone(c)
  \/ \E b \in Reg : Goroutine(b) \/ SelectOut(b)

(***************************************************************************)
(* Fairness: the Go scheduler runs every goroutine that can run. The       *)
(* readers of out are application code and promise nothing.                *)
(***************************************************************************)
Spec ==
  /\ Init /\ [][Next]_vars
  /\ \A c \in Caller : WF_vars(SendDone(c)) /\ WF_vars(CloseDone(c))
  /\ \A b \in Reg : WF_vars(RangeEnds(b)) /\ WF_vars(SelectClosed(b))
                      /\ WF_vars(SelectInflightEnds(b)) /\ WF_vars(CloseOut(b))

-----------------------------------------------------------------------------
(***************************************************************************)
(* No Go channel is closed twice or written to after its close, whatever   *)
(* the order of add, cancel, send and close: a panic would end the program.*)
(***************************************************************************)
NoChannelMisuse == ~panicked

(***************************************************************************)
(* A tag in the map always names a goroutine that can still receive, and   *)
(* no two tags name the same one: the reason why send, which waits with    *)
(* the mutex held, cannot wait for ever.                                   *)
(***************************************************************************)
RegisteredIsServed ==
  \A t \in Tag : chans[t] # NoReg =>
    /\ chans[t] \notin inClosed /\ Receives(chans[t])
    /\ \A u \in Tag : chans[u] = chans[t] => u = t

(***************************************************************************)
(* A reader sees the accepted deliveries in order, without a gap and       *)
(* without a repetition, and everything accepted unless the whole object   *)
(* was closed: cancelling a consumer loses nothing.                        *)
(***************************************************************************)
NothingLostOrReordered ==
  \A b \in Reg :
    /\ stage[b] \in {"range", "select"} => accepted[b] = read[b] \o queue[b]
    /\ stage[b] \in {"leaving", "gone"} =>
         IF closed THEN read[b] = SubSeq(accepted[b], 1, Len(read[b]))
                   ELSE read[b] = accepted[b]

(***************************************************************************)
(* send and close return although they wait with the mutex held and        *)
(* although nobody may be reading the consumers' deliveries: the buffer    *)
(* goroutines go on accepting, and stop at closed.                         *)
(***************************************************************************)
CallsReturn == \A c \in Caller : call[c] # NotCalling ~> call[c] = NotCalling

(***************************************************************************)
(* Once a consumer is cancelled or replaced, and if its reader keeps       *)
(* reading, the goroutine ends and the reader's range loop over out        *)
(* terminates.                                                             *)
(***************************************************************************)
CancelledEnds ==
  \A b \in Reg : WF_vars(SelectOut(b)) => (b \in inClosed ~> b \in outClosed)

(***************************************************************************)
(* The object implements the queues it promises.                           *)
(***************************************************************************)
Phase(b) ==
  IF stage[b] = "unborn" THEN "new"
  ELSE IF stage[b] \in {"leaving", "gone"} THEN "ended"
  ELSE IF b \in inClosed THEN "ending" ELSE "open"

Queues == INSTANCE DeliveryQueues WITH
  Stream <- Reg, Delivery <- Msg,
  phase <- [b \in Reg |-> Phase(b)],
  pending <- [b \in Reg |-> IF Phase(b) = "ended" THEN <<>> ELSE queue[b]],
  handedOut <- read, down <- closed

ImplementsQueues == Queues!Spec
=============================================================================
