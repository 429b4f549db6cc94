--------------------------- MODULE PipelineProofs ---------------------------
(***************************************************************************)
(* Proofs about the consumers object and, on top of them, about the way of *)
(* a delivery from dispatch to handleMsg.                                  *)
(*                                                                         *)
(* The first half is about Consumers alone (its Spec), for any set of      *)
(* callers and of tags and any bound. The inductive invariant is IInv:     *)
(* TypeOK; no panic so far; the map names exactly the registrations whose  *)
(* Go channel in is open (Mapped); whoever is blocked in a call has the    *)
(* mutex, so that the registration a send waits for stays in the map       *)
(* (Locked); and where each buffer goroutine is says what its queue holds  *)
(* (Placed), and its history what its reader has seen                      *)
(* (NothingLostOrReordered).                                               *)
(*                                                                         *)
(* The second half is about Pipeline, for any consumer tags, any number of *)
(* deliveries, cancellations and registrations and any capacity of chMsg.  *)
(* The invariant of Consumers holds, since a step of the pipeline is a     *)
(* step of the consumers object or leaves it alone (OfConsumers). To it    *)
(* come: dispatch alone calls it, so the n-th delivery dispatched has the  *)
(* number n (Numbered); a delivery goes to one registration, and to each   *)
(* in order (Sorted); two registrations have deliveries of one tag only    *)
(* across a cancellation (Parted); and what forwarders pass on keeps the   *)
(* order within a registration (Flowing). KeptInv adds what makes sure that*)
(* no delivery is lost. The last part shows with these facts that the      *)
(* pipeline implements the queues of DeliveryQueues.                       *)
(***************************************************************************)
EXTENDS Pipeline, SequenceTheorems, FiniteSetTheorems, TLAPS

Live(b) == stage[b] \in {"range", "select"}

Mapped ==
  /\ \A t \in Tag : chans[t] # NoReg => Live(chans[t]) /\ chans[t] \notin inClosed
  /\ \A t, u \in Tag : chans[t] # NoReg /\ chans[u] = chans[t] => u = t
  /\ \A b \in Reg : stage[b] # "unborn" /\ b \notin inClosed =>
                      \E t \in Tag : chans[t] = b
  /\ closed => \A t \in Tag : chans[t] = NoReg

Locked ==
  \A c \in Caller :
    /\ call[c] # NotCalling => holder = c
    /\ call[c].op = "send" => \E t \in Tag : chans[t] = call[c].to

Placed(b) ==
  /\ stage[b] = "unborn" => b \notin inClosed /\ accepted[b] = <<>> /\ read[b] = <<>>
  /\ stage[b] \in {"unborn", "range"} => queue[b] = <<>>
  /\ stage[b] = "select" => queue[b] # <<>>
  /\ ~inflight[b] => b \in inClosed
  /\ stage[b] \in {"leaving", "gone"} => b \in inClosed

IInv ==
  /\ TypeOK
  /\ ~panicked
  /\ Mapped
  /\ Locked
  /\ \A b \in Reg : Placed(b)
  /\ NothingLostOrReordered

-----------------------------------------------------------------------------
(* Sequences: what a queue and its two histories have to do with another.  *)

(* The empty sequence is a sequence of anything. *)
LEMMA EmptyIsSeq == ASSUME NEW S PROVE <<>> \in Seq(S)
OBVIOUS

(* What is appended last is at the end of a concatenation. *)
LEMMA AppendAtEnd ==
  \A r, q \in Seq(Msg) : \A m \in Msg : Append(r \o q, m) = r \o Append(q, m)
OBVIOUS

(* Handing out the head leaves the concatenation as it was. *)
LEMMA HeadMovesOver ==
  ASSUME NEW S, NEW r \in Seq(S), NEW q \in Seq(S), q # <<>>
  PROVE  /\ Head(q) \in S /\ Tail(q) \in Seq(S)
         /\ Append(r, Head(q)) \o Tail(q) = r \o q
OBVIOUS

(* A sequence is the beginning of a concatenation that starts with it. *)
LEMMA BeginsWith ==
  ASSUME NEW S, NEW r \in Seq(S), NEW q \in Seq(S)
  PROVE  r = SubSeq(r \o q, 1, Len(r))
OBVIOUS

(* A concatenation with the empty sequence. *)
LEMMA EndsWithNothing ==
  ASSUME NEW S, NEW r \in Seq(S)
  PROVE  r \o <<>> = r /\ <<>> \o r = r /\ SubSeq(r, 1, Len(r)) = r
OBVIOUS

(* A function changed at one point. *)
LEMMA OneChanges ==
  ASSUME NEW D, NEW R, NEW f \in [D -> R], NEW d \in D, NEW v \in R,
         NEW g, g = [f EXCEPT ![d] = v]
  PROVE  g \in [D -> R] /\ g[d] = v /\ \A e \in D \ {d} : g[e] = f[e]
OBVIOUS

-----------------------------------------------------------------------------
(* Types.                                                                  *)

(* What a caller is blocked on. *)
Calls == {NotCalling} \cup [op : {"close"}] \cup [op : {"send"}, to : Reg, msg : Msg]

(* A caller blocked in send waits for a registration with a delivery. *)
LEMMA SendingIsTyped ==
  ASSUME TypeOK, NEW c \in Caller, call[c].op = "send"
  PROVE  call[c].to \in Reg /\ call[c].msg \in Msg /\ call[c] # NotCalling
<1>1. call[c] \in Calls
  BY DEF TypeOK, Calls
<1>2. call[c] # NotCalling
  BY DEF NotCalling
<1>3. call[c] \notin [op : {"close"}]
  OBVIOUS
<1>4. call[c] \in [op : {"send"}, to : Reg, msg : Msg]
  BY <1>1, <1>2, <1>3, Zenon DEF Calls
<1> QED
  BY <1>2, <1>4

(* A consumers object is made with values of the right types, and right. *)
LEMMA InitIInv == Init => IInv
<1> SUFFICES ASSUME Init PROVE IInv
  OBVIOUS
<1>1. TypeOK
  <2>1. <<>> \in Seq(Msg)
    BY EmptyIsSeq, Zenon
  <2>2. queue \in [Reg -> Seq(Msg)] /\ accepted \in [Reg -> Seq(Msg)] /\ read \in [Reg -> Seq(Msg)]
    BY <2>1, Zenon DEF Init
  <2>3. call \in [Caller -> {NotCalling} \cup [op : {"close"}]
                              \cup [op : {"send"}, to : Reg, msg : Msg]]
    BY Zenon DEF Init
  <2> QED
    BY <2>2, <2>3 DEF Init, TypeOK, Stages
<1>2. Mapped
  BY DEF Init, Mapped, Live
<1>3. Locked
  BY DEF Init, Locked, NotCalling
<1>4. \A b \in Reg : Placed(b)
  BY DEF Init, Placed
<1>5. NothingLostOrReordered
  BY DEF Init, NothingLostOrReordered
<1> QED
  BY <1>1, <1>2, <1>3, <1>4, <1>5 DEF Init, IInv

(* Every step keeps the types. *)
LEMMA StepTypeOK == ASSUME IInv, [Next]_vars PROVE TypeOK'
<1> USE DEF IInv
<1>1. CASE UNCHANGED vars
  BY <1>1 DEF vars, TypeOK
<1>2. ASSUME NEW c \in Caller, NEW t \in Tag, Add(c, t) PROVE TypeOK'
  <2>1. PICK b \in Reg : /\ chans' = [chans EXCEPT ![t] = b]
                         /\ stage' = [stage EXCEPT ![b] = "range"]
                         /\ CloseIn(Registered({t}))
    BY <1>2, Zenon DEF Add
  <2>2. chans' \in [Tag -> Reg \cup {NoReg}]
    BY <2>1 DEF TypeOK
  <2>3. stage' \in [Reg -> Stages]
    BY <2>1 DEF TypeOK, Stages
  <2>4. inClosed' \subseteq Reg /\ panicked' \in BOOLEAN
    BY <2>1 DEF TypeOK, CloseIn, Registered
  <2> QED
    BY <1>2, <2>2, <2>3, <2>4, Zenon DEF TypeOK, Add
<1>3. ASSUME NEW c \in Caller, NEW t \in Tag, Cancel(c, t) PROVE TypeOK'
  <2>1. chans' \in [Tag -> Reg \cup {NoReg}]
    BY <1>3 DEF TypeOK, Cancel
  <2>2. inClosed' \subseteq Reg /\ panicked' \in BOOLEAN
    BY <1>3 DEF TypeOK, Cancel, CloseIn, Registered
  <2> QED
    BY <1>3, <2>1, <2>2, Zenon DEF TypeOK, Cancel, goroutineVars
<1>4. ASSUME NEW c \in Caller, NEW t \in Tag, Send(c, t) PROVE TypeOK'
  <2>1. PICK m \in Msg : call' = [call EXCEPT ![c] = [op |-> "send", to |-> chans[t], msg |-> m]]
    BY <1>4, Zenon DEF Send
  <2>2. chans[t] \in Reg
    BY <1>4, Zenon DEF Send, TypeOK
  <2>3. [op |-> "send", to |-> chans[t], msg |-> m] \in Calls
    BY <2>2 DEF Calls
  <2>4. call' \in [Caller -> Calls]
    BY <2>1, <2>3, OneChanges, Zenon DEF TypeOK, Calls
  <2> QED
    BY <1>4, <2>4, Zenon DEF TypeOK, Calls, Send, goroutineVars
<1>5. ASSUME NEW c \in Caller, SendDone(c) PROVE TypeOK'
  <2> DEFINE b == call[c].to
  <2>1. b \in Reg /\ call[c].msg \in Msg
    BY <1>5, SendingIsTyped, Zenon DEF SendDone
  <2>2. queue' \in [Reg -> Seq(Msg)]
    <3>1. queue[b] \in Seq(Msg)
      BY <2>1 DEF TypeOK
    <3>2. Append(queue[b], call[c].msg) \in Seq(Msg)
      BY <2>1, <3>1
    <3> QED
      BY <1>5, <2>1, <3>2, OneChanges, Zenon DEF TypeOK, SendDone
  <2>3. accepted' \in [Reg -> Seq(Msg)]
    <3>1. accepted[b] \in Seq(Msg)
      BY <2>1 DEF TypeOK
    <3>2. Append(accepted[b], call[c].msg) \in Seq(Msg)
      BY <2>1, <3>1
    <3> QED
      BY <1>5, <2>1, <3>2, OneChanges, Zenon DEF TypeOK, SendDone
  <2>4. stage' \in [Reg -> Stages]
    BY <1>5 DEF TypeOK, SendDone, Stages
  <2>5. call' \in [Caller -> Calls]
    BY <1>5, OneChanges, Zenon DEF TypeOK, SendDone, Calls
  <2>6. panicked' \in BOOLEAN /\ holder' \in Caller \cup {NoCaller}
    BY <1>5 DEF SendDone
  <2> QED
    BY <1>5, <2>2, <2>3, <2>4, <2>5, <2>6, Zenon DEF TypeOK, Calls, SendDone
<1>6. ASSUME NEW c \in Caller, Close(c) PROVE TypeOK'
  <2>1. chans' \in [Tag -> Reg \cup {NoReg}]
    BY <1>6 DEF TypeOK, Close
  <2>2. inClosed' \subseteq Reg /\ panicked' \in BOOLEAN
    BY <1>6 DEF TypeOK, Close, CloseIn, Registered
  <2>3. [op |-> "close"] \in Calls
    BY DEF Calls
  <2>4. call' \in [Caller -> Calls]
    BY <1>6, <2>3, OneChanges, Zenon DEF TypeOK, Close, Calls
  <2> QED
    BY <1>6, <2>1, <2>2, <2>4, Zenon DEF TypeOK, Calls, Close, goroutineVars
<1>7. ASSUME NEW c \in Caller, CloseDone(c) PROVE TypeOK'
  <2>1. call' \in [Caller -> Calls]
    BY <1>7, OneChanges, Zenon DEF TypeOK, CloseDone, Calls
  <2> QED
    BY <1>7, <2>1, Zenon DEF TypeOK, Calls, CloseDone, goroutineVars
<1>8. ASSUME NEW b \in Reg, Goroutine(b) PROVE TypeOK'
  <2>1. inflight' \in [Reg -> BOOLEAN]
    BY <1>8 DEF TypeOK, Goroutine, RangeEnds, SelectClosed, SelectInflightEnds, CloseOut
  <2>2. stage' \in [Reg -> Stages]
    BY <1>8 DEF TypeOK, Goroutine, RangeEnds, SelectClosed, SelectInflightEnds, CloseOut,
                Leave, Stages
  <2>3. outClosed' \subseteq Reg
    BY <1>8 DEF TypeOK, Goroutine, RangeEnds, SelectClosed, SelectInflightEnds, CloseOut
  <2> QED
    BY <1>8, <2>1, <2>2, <2>3, Zenon
    DEF TypeOK, Goroutine, RangeEnds, SelectClosed, SelectInflightEnds, CloseOut
<1>9. ASSUME NEW b \in Reg, SelectOut(b) PROVE TypeOK'
  <2>1. queue[b] \in Seq(Msg) /\ queue[b] # <<>> /\ read[b] \in Seq(Msg)
    BY <1>9, Zenon DEF TypeOK, SelectOut, Placed
  <2>2. Head(queue[b]) \in Msg /\ Tail(queue[b]) \in Seq(Msg)
    BY <2>1, HeadMovesOver, Zenon
  <2>3. Append(read[b], Head(queue[b])) \in Seq(Msg)
    BY <2>1, <2>2
  <2>4. read' \in [Reg -> Seq(Msg)] /\ queue' \in [Reg -> Seq(Msg)]
    BY <1>9, <2>2, <2>3, OneChanges, Zenon DEF TypeOK, SelectOut
  <2>5. stage' \in [Reg -> Stages]
    BY <1>9 DEF TypeOK, SelectOut, Stages
  <2> QED
    BY <1>9, <2>4, <2>5, Zenon DEF TypeOK, SelectOut
<1> QED
  BY <1>1, <1>2, <1>3, <1>4, <1>5, <1>6, <1>7, <1>8, <1>9, Zenon DEF Next

-----------------------------------------------------------------------------
(* The map and the mutex.                                                  *)

(* What the map names is open: to close it once more is no misuse. *)
LEMMA RegisteredIsOpen ==
  ASSUME IInv, NEW T \in SUBSET Tag
  PROVE  /\ Registered(T) \cap inClosed = {}
         /\ \A b \in Registered(T) : b \in Reg /\ Live(b)
BY DEF IInv, TypeOK, Mapped, Registered

(* A caller blocked in send waits for a registration that is in the map. *)
LEMMA SendIsServed ==
  ASSUME IInv, NEW c \in Caller, call[c].op = "send"
  PROVE  /\ call[c].to \in Reg /\ call[c].to \notin inClosed /\ Live(call[c].to)
         /\ call[c].msg \in Msg
         /\ ~closed /\ \E t \in Tag : chans[t] = call[c].to
<1>1. call[c].to \in Reg /\ call[c].msg \in Msg
  BY SendingIsTyped, Zenon DEF IInv
<1>2. PICK t \in Tag : chans[t] = call[c].to
  BY Zenon DEF IInv, Locked
<1>3. call[c].to # NoReg
  BY <1>1 DEF Reg, NoReg
<1> QED
  BY <1>1, <1>2, <1>3, Zenon DEF IInv, Mapped

(* No step panics. *)
LEMMA StepNoPanic == ASSUME IInv, [Next]_vars PROVE ~panicked'
<1>1. CASE UNCHANGED vars
  BY <1>1 DEF vars, IInv
<1>2. ASSUME NEW c \in Caller, NEW t \in Tag, Add(c, t) \/ Cancel(c, t) PROVE ~panicked'
  BY <1>2, RegisteredIsOpen DEF Add, Cancel, CloseIn
<1>3. ASSUME NEW c \in Caller, Close(c) PROVE ~panicked'
  BY <1>3, RegisteredIsOpen DEF Close, CloseIn
<1>4. ASSUME NEW c \in Caller, SendDone(c) PROVE ~panicked'
  BY <1>4, SendIsServed DEF SendDone
<1>5. ASSUME NEW c \in Caller, CloseDone(c) \/ \E t \in Tag : Send(c, t) PROVE ~panicked'
  BY <1>5 DEF Send, CloseDone, IInv
<1>6. ASSUME NEW b \in Reg, Goroutine(b) \/ SelectOut(b) PROVE ~panicked'
  BY <1>6 DEF Goroutine, RangeEnds, SelectClosed, SelectInflightEnds, CloseOut, SelectOut, IInv
<1> QED
  BY <1>1, <1>2, <1>3, <1>4, <1>5, <1>6, Zenon DEF Next

(* A step of a buffer goroutine leaves the map as it is, and the goroutine *)
(* of a registration whose Go channel in is open goes on.                  *)
LEMMA GoroutineKeepsMapped ==
  ASSUME IInv, NEW b \in Reg, Goroutine(b) \/ SelectOut(b)
  PROVE  Mapped'
<1>1. UNCHANGED <<chans, closed, inClosed>>
  BY DEF Goroutine, RangeEnds, SelectClosed, SelectInflightEnds, CloseOut, SelectOut
<1>2. closed => \A t \in Tag : chans[t] = NoReg
  BY DEF IInv, Mapped
<1>3. /\ stage[b] # "unborn" /\ stage \in [Reg -> Stages] /\ stage' \in [Reg -> Stages]
      /\ stage'[b] # "unborn" /\ \A a \in Reg \ {b} : stage'[a] = stage[a]
      /\ Live(b) /\ (\E t \in Tag : chans[t] = b) /\ b \notin inClosed => stage'[b] \in {"range", "select"}
  <2>1. b # NoReg /\ stage \in [Reg -> Stages]
    BY DEF Reg, NoReg, IInv, TypeOK
  <2>2. CASE RangeEnds(b)
    BY <2>1, <2>2 DEF RangeEnds, Leave, Stages
  <2>3. CASE SelectClosed(b)
    BY <1>2, <2>1, <2>3 DEF SelectClosed, Leave, Stages
  <2>4. CASE SelectInflightEnds(b)
    BY <2>1, <2>4 DEF SelectInflightEnds, Stages
  <2>5. CASE CloseOut(b)
    BY <2>1, <2>5 DEF CloseOut, Stages, Live
  <2>6. CASE SelectOut(b)
    BY <2>1, <2>6 DEF SelectOut, Stages
  <2> QED
    BY <2>2, <2>3, <2>4, <2>5, <2>6, Zenon DEF Goroutine
<1>4. \A t \in Tag : chans[t] # NoReg => chans[t] \in Reg
  BY DEF IInv, TypeOK
<1> QED
  BY <1>1, <1>3, <1>4 DEF IInv, Mapped, Live

(* Every step leaves the map naming exactly the open registrations. *)
LEMMA StepMapped == ASSUME IInv, [Next]_vars PROVE Mapped'
<1>1. CASE UNCHANGED vars
  BY <1>1 DEF vars, IInv, Mapped, Live
<1>2. ASSUME NEW c \in Caller, NEW t \in Tag, Add(c, t) PROVE Mapped'
  <2>1. PICK b \in Reg : /\ stage[b] = "unborn"
                         /\ chans' = [chans EXCEPT ![t] = b]
                         /\ stage' = [stage EXCEPT ![b] = "range"]
                         /\ inClosed' = inClosed \cup Registered({t})
    BY <1>2, Zenon DEF Add, IsNew, CloseIn
  <2>2. ~closed' /\ b # NoReg /\ b \notin inClosed
    BY <1>2, <2>1 DEF Add, IInv, Placed, Reg, NoReg
  <2>3. Registered({t}) = {chans[t]} \ {NoReg}
    BY DEF Registered
  <2>4. chans' \in [Tag -> Reg \cup {NoReg}] /\ chans'[t] = b
        /\ \A u \in Tag \ {t} : chans'[u] = chans[u]
    BY <2>1 DEF IInv, TypeOK
  <2>5. stage' \in [Reg -> Stages] /\ stage'[b] = "range"
        /\ \A a \in Reg \ {b} : stage'[a] = stage[a]
    BY <2>1 DEF IInv, TypeOK, Stages
  <2>6. \A u \in Tag : chans[u] # NoReg => chans[u] # b /\ chans[u] \in Reg
    <3>1. \A u \in Tag : chans[u] # NoReg => Live(chans[u]) /\ chans[u] \in Reg
      BY DEF IInv, TypeOK, Mapped
    <3>2. ~Live(b)
      BY <2>1 DEF Live
    <3> QED
      BY <3>1, <3>2, Zenon
  <2>7. \A u \in Tag : chans'[u] # NoReg => Live(chans[u])' /\ chans'[u] \notin inClosed'
    <3> SUFFICES ASSUME NEW u \in Tag, chans'[u] # NoReg
                 PROVE  stage'[chans'[u]] \in {"range", "select"} /\ chans'[u] \notin inClosed'
      BY Zenon DEF Live
    <3>1. CASE u = t
      BY <3>1, <2>1, <2>2, <2>3, <2>4, <2>5, <2>6
    <3>2. CASE u # t
      BY <3>2, <2>1, <2>3, <2>4, <2>5, <2>6 DEF IInv, Mapped, Live
    <3> QED
      BY <3>1, <3>2
  <2>8. \A u, v \in Tag : chans'[u] # NoReg /\ chans'[v] = chans'[u] => v = u
    BY <2>2, <2>4, <2>6 DEF IInv, Mapped
  <2>9. \A a \in Reg : stage'[a] # "unborn" /\ a \notin inClosed' => \E u \in Tag : chans'[u] = a
    <3> SUFFICES ASSUME NEW a \in Reg, a # b, stage'[a] # "unborn", a \notin inClosed'
                 PROVE  \E u \in Tag : chans'[u] = a
      BY <2>4, Zenon
    <3>1. PICK u \in Tag : chans[u] = a
      BY <2>1, <2>5 DEF IInv, Mapped
    <3>2. u # t
      BY <2>1, <2>3, <3>1 DEF Reg, NoReg
    <3> QED
      BY <2>4, <3>1, <3>2, Zenon
  <2> QED
    BY <2>2, <2>7, <2>8, <2>9, Zenon DEF Mapped
<1>3. ASSUME NEW c \in Caller, NEW t \in Tag, Cancel(c, t) PROVE Mapped'
  <2>1. Registered({t}) = {chans[t]} /\ chans[t] \in Reg
    BY <1>3 DEF Registered, Cancel, IInv, TypeOK
  <2>2. UNCHANGED <<closed, stage>> /\ inClosed' = inClosed \cup {chans[t]}
    BY <1>3, <2>1 DEF Cancel, CloseIn, goroutineVars
  <2>3. chans' \in [Tag -> Reg \cup {NoReg}] /\ chans'[t] = NoReg
        /\ \A u \in Tag \ {t} : chans'[u] = chans[u]
    BY <1>3 DEF Cancel, IInv, TypeOK
  <2> QED
    BY <2>1, <2>2, <2>3 DEF IInv, Mapped, Live
<1>4. ASSUME NEW c \in Caller, Close(c) PROVE Mapped'
  <2>1. UNCHANGED stage /\ closed' /\ inClosed' = inClosed \cup Registered(Tag)
        /\ \A t \in Tag : chans'[t] = NoReg
    BY <1>4 DEF Close, CloseIn, goroutineVars
  <2>2. \A b \in Reg, t \in Tag : chans[t] = b => b \in Registered(Tag)
    BY DEF Registered, Reg, NoReg
  <2> QED
    <3>1. \A b \in Reg : stage[b] # "unborn" /\ b \notin inClosed' => FALSE
      BY <2>1, <2>2 DEF IInv, Mapped
    <3> QED
      BY <2>1, <3>1 DEF Mapped
<1>5. ASSUME NEW c \in Caller, SendDone(c) PROVE Mapped'
  <2>1. UNCHANGED <<chans, closed, inClosed>> /\ stage' = [stage EXCEPT ![call[c].to] = "select"]
    BY <1>5, Zenon DEF SendDone
  <2>2. call[c].to \in Reg /\ Live(call[c].to)
    BY <1>5, SendIsServed, Zenon DEF SendDone
  <2>3. \A b \in Reg : /\ Live(b) => Live(b)'
                       /\ stage'[b] # "unborn" => stage[b] # "unborn"
    BY <2>1, <2>2 DEF Live, IInv, TypeOK
  <2>4. \A t \in Tag : chans[t] # NoReg => chans[t] \in Reg
    BY DEF IInv, TypeOK
  <2> QED
    BY <2>1, <2>3, <2>4 DEF IInv, Mapped, Live
<1>6. ASSUME NEW c \in Caller, CloseDone(c) \/ \E t \in Tag : Send(c, t) PROVE Mapped'
  BY <1>6 DEF Send, CloseDone, goroutineVars, IInv, Mapped, Live
<1> QED
  BY <1>1, <1>2, <1>3, <1>4, <1>5, <1>6, GoroutineKeepsMapped, Zenon DEF Next

(* Every step leaves the mutex with the caller that is blocked. *)
LEMMA StepLocked == ASSUME IInv, [Next]_vars PROVE Locked'
<1> USE DEF IInv
<1>1. ASSUME UNCHANGED <<chans, call, holder>> PROVE Locked'
  BY <1>1 DEF Locked
<1>2. ASSUME holder = NoCaller, holder' = NoCaller, UNCHANGED call PROVE Locked'
  <2>1. \A c \in Caller : call[c] = NotCalling
    BY <1>2, ConsumersAssumption DEF Locked
  <2> QED
    BY <1>2, <2>1 DEF Locked, NotCalling
<1>3. ASSUME NEW c \in Caller, NEW t \in Tag, Send(c, t) PROVE Locked'
  <2>1. \A d \in Caller : call[d] = NotCalling
    BY <1>3, ConsumersAssumption DEF Send, GetsMutex, Locked
  <2>2. PICK m : call' = [call EXCEPT ![c] = [op |-> "send", to |-> chans[t], msg |-> m]]
    BY <1>3, Zenon DEF Send
  <2>3. UNCHANGED chans /\ holder' = c
    BY <1>3 DEF Send
  <2> QED
    BY <2>1, <2>2, <2>3 DEF Locked, NotCalling, TypeOK
<1>4. ASSUME NEW c \in Caller, Close(c) PROVE Locked'
  <2>1. \A d \in Caller : call[d] = NotCalling
    BY <1>4, ConsumersAssumption DEF Close, GetsMutex, Locked
  <2>2. call' = [call EXCEPT ![c] = [op |-> "close"]] /\ holder' = c
    BY <1>4 DEF Close
  <2> QED
    BY <2>1, <2>2 DEF Locked, NotCalling, TypeOK
<1>5. ASSUME NEW c \in Caller, SendDone(c) \/ CloseDone(c) PROVE Locked'
  <2>1. call[c] # NotCalling
    BY <1>5 DEF SendDone, CloseDone, NotCalling
  <2>2. \A d \in Caller : d # c => call[d] = NotCalling
    BY <2>1 DEF Locked
  <2>3. call' = [call EXCEPT ![c] = NotCalling]
    BY <1>5 DEF SendDone, CloseDone
  <2> QED
    BY <2>2, <2>3 DEF Locked, NotCalling, TypeOK
<1>6. ASSUME NEW c \in Caller, NEW t \in Tag, Add(c, t) \/ Cancel(c, t) PROVE Locked'
  BY <1>2, <1>6, Zenon DEF Add, Cancel, GetsMutex
<1>7. ASSUME NEW b \in Reg, Goroutine(b) \/ SelectOut(b) PROVE Locked'
  BY <1>1, <1>7, Zenon
  DEF Goroutine, RangeEnds, SelectClosed, SelectInflightEnds, CloseOut, SelectOut
<1>8. CASE UNCHANGED vars
  BY <1>1, <1>8 DEF vars
<1> QED
  BY <1>3, <1>4, <1>5, <1>6, <1>7, <1>8, Zenon DEF Next

-----------------------------------------------------------------------------
(* The buffer goroutines.                                                  *)

(* What NothingLostOrReordered says of one registration. *)
Kept(b) ==
  /\ Live(b) => accepted[b] = read[b] \o queue[b]
  /\ stage[b] \in {"leaving", "gone"} /\ closed => read[b] = SubSeq(accepted[b], 1, Len(read[b]))
  /\ stage[b] \in {"leaving", "gone"} /\ ~closed => read[b] = accepted[b]

(* It says no more. *)
LEMMA KeptIsAll == NothingLostOrReordered <=> \A b \in Reg : Kept(b)
BY DEF NothingLostOrReordered, Kept, Live

(* A registration a step does not change but for in and closed, which may  *)
(* get closed, keeps its place and its history.                            *)
LEMMA OthersKeepPlace ==
  ASSUME IInv, NEW b \in Reg,
         stage'[b] = stage[b], inflight'[b] = inflight[b], queue'[b] = queue[b],
         accepted'[b] = accepted[b], read'[b] = read[b],
         b \in inClosed => b \in inClosed',
         b \in inClosed' => b \in inClosed \/ Live(b),
         closed => closed'
  PROVE  Placed(b)' /\ Kept(b)'
<1>1. Placed(b)'
  BY DEF IInv, Placed, Live
<1>2. Kept(b)
  BY KeptIsAll DEF IInv
<1>3. read[b] \in Seq(Msg)
  BY DEF IInv, TypeOK
<1>4. read[b] = accepted[b] => read[b] = SubSeq(accepted[b], 1, Len(read[b]))
  BY <1>3, EndsWithNothing, Zenon
<1> QED
  BY <1>1, <1>2, <1>4 DEF Kept, Live

(* A delivery handed to a registration is the last of its queue. *)
LEMMA SendDonePlace ==
  ASSUME IInv, NEW c \in Caller, SendDone(c), NEW b \in Reg
  PROVE  Placed(b)' /\ Kept(b)'
<1> DEFINE d == call[c].to
           m == call[c].msg
<1>1. d \in Reg /\ d \notin inClosed /\ Live(d) /\ m \in Msg
  BY SendIsServed, Zenon DEF SendDone
<1>2. /\ queue' = [queue EXCEPT ![d] = Append(queue[d], m)]
      /\ accepted' = [accepted EXCEPT ![d] = Append(accepted[d], m)]
      /\ stage' = [stage EXCEPT ![d] = "select"]
      /\ UNCHANGED <<closed, inClosed, inflight, read>>
  BY DEF SendDone
<1>3. /\ queue \in [Reg -> Seq(Msg)] /\ accepted \in [Reg -> Seq(Msg)]
      /\ stage \in [Reg -> Stages] /\ read[b] \in Seq(Msg)
  BY DEF IInv, TypeOK
<1> HIDE DEF d, m
<1>4. CASE b # d
  <2>1. queue'[b] = queue[b] /\ accepted'[b] = accepted[b] /\ stage'[b] = stage[b]
    BY <1>1, <1>2, <1>3, <1>4
  <2> QED
    BY <1>2, <2>1, OthersKeepPlace
<1>5. CASE b = d
  <2>1. /\ queue'[b] = Append(queue[b], m) /\ accepted'[b] = Append(accepted[b], m)
        /\ stage'[b] = "select"
    BY <1>1, <1>2, <1>3, <1>5
  <2>2. accepted[b] = read[b] \o queue[b]
    BY <1>1, <1>5, KeptIsAll DEF IInv, Kept
  <2>3. queue[b] \in Seq(Msg) /\ read[b] \in Seq(Msg) /\ m \in Msg
    BY <1>1, <1>3
  <2>4. accepted'[b] = read[b] \o Append(queue[b], m)
    <3>1. Append(read[b] \o queue[b], m) = read[b] \o Append(queue[b], m)
      BY <2>3, AppendAtEnd, Zenon
    <3> QED
      BY <2>1, <2>2, <3>1, Zenon
  <2>5. Append(queue[b], m) # <<>>
    BY <1>1, <2>3
  <2> QED
    BY <1>1, <1>2, <1>5, <2>1, <2>4, <2>5 DEF Placed, Kept, Live, IInv
<1> QED
  BY <1>4, <1>5

(* What is handed out goes from the head of the queue to the end of what   *)
(* was read.                                                               *)
LEMMA SelectOutPlace ==
  ASSUME IInv, NEW d \in Reg, SelectOut(d), NEW b \in Reg
  PROVE  Placed(b)' /\ Kept(b)'
<1>1. /\ queue \in [Reg -> Seq(Msg)] /\ read \in [Reg -> Seq(Msg)] /\ stage \in [Reg -> Stages]
  BY DEF IInv, TypeOK
<1>2. /\ read' = [read EXCEPT ![d] = Append(read[d], Head(queue[d]))]
      /\ queue' = [queue EXCEPT ![d] = Tail(queue[d])]
      /\ stage' = [stage EXCEPT ![d] = IF Tail(queue[d]) = <<>> THEN "range" ELSE "select"]
      /\ UNCHANGED <<closed, inClosed, inflight, accepted>>
  BY DEF SelectOut
<1>3. CASE b # d
  <2>1. queue'[b] = queue[b] /\ read'[b] = read[b] /\ stage'[b] = stage[b]
    BY <1>1, <1>2, <1>3
  <2> QED
    BY <1>2, <2>1, OthersKeepPlace
<1>4. CASE b = d
  <2>1. /\ queue'[b] = Tail(queue[b]) /\ read'[b] = Append(read[b], Head(queue[b]))
        /\ stage'[b] = IF Tail(queue[b]) = <<>> THEN "range" ELSE "select"
    BY <1>1, <1>2, <1>4
  <2>2. stage[b] = "select" /\ queue[b] # <<>>
    BY <1>4 DEF SelectOut, IInv, Placed
  <2>3. accepted[b] = read[b] \o queue[b]
    BY <2>2, KeptIsAll DEF IInv, Kept, Live
  <2>4. queue[b] \in Seq(Msg) /\ read[b] \in Seq(Msg)
    BY <1>1
  <2>5. accepted'[b] = read'[b] \o queue'[b]
    <3>1. Append(read[b], Head(queue[b])) \o Tail(queue[b]) = read[b] \o queue[b]
      BY <2>2, <2>4, HeadMovesOver, Zenon
    <3> QED
      BY <1>2, <2>1, <2>3, <3>1, Zenon
  <2>6. ~inflight[b] => b \in inClosed
    BY DEF IInv, Placed
  <2> DEFINE rest == Tail(queue[b])
  <2>7. /\ queue'[b] = rest /\ stage'[b] = IF rest = <<>> THEN "range" ELSE "select"
        /\ UNCHANGED <<inClosed, inflight>>
    BY <1>2, <2>1, Zenon
  <2> HIDE DEF rest
  <2>8. Placed(b)'
    BY <2>6, <2>7 DEF Placed
  <2>9. Live(b)' /\ stage'[b] \notin {"leaving", "gone"}
    BY <2>7 DEF Live
  <2>10. Kept(b)'
    BY <2>5, <2>9, Zenon DEF Kept
  <2> QED
    BY <2>8, <2>10
<1> QED
  BY <1>3, <1>4

(* A buffer goroutine ends with its queue drained, or with the object.     *)
LEMMA GoroutinePlace ==
  ASSUME IInv, NEW d \in Reg, Goroutine(d), NEW b \in Reg
  PROVE  Placed(b)' /\ Kept(b)'
<1>1. UNCHANGED <<closed, inClosed, queue, accepted, read>>
  BY DEF Goroutine, RangeEnds, SelectClosed, SelectInflightEnds, CloseOut
<1>2. stage \in [Reg -> Stages] /\ inflight \in [Reg -> BOOLEAN]
      /\ read[b] \in Seq(Msg) /\ queue[b] \in Seq(Msg)
  BY DEF IInv, TypeOK
<1>3. CASE b # d
  <2>1. stage'[b] = stage[b] /\ inflight'[b] = inflight[b]
    BY <1>2, <1>3 DEF Goroutine, RangeEnds, SelectClosed, SelectInflightEnds, CloseOut, Leave
  <2> QED
    BY <1>1, <2>1, OthersKeepPlace
<1>4. CASE b = d
  <2>1. Placed(b) /\ Kept(b)
    BY KeptIsAll DEF IInv
  <2>2. CASE RangeEnds(b)
    <3>1. accepted[b] = read[b] \o <<>> /\ b \in inClosed
      BY <2>1, <2>2 DEF RangeEnds, Placed, Kept, Live
    <3>2. accepted[b] = read[b] /\ read[b] = SubSeq(accepted[b], 1, Len(read[b]))
      BY <1>2, <3>1, EndsWithNothing
    <3>3. stage'[b] = "leaving" /\ inflight'[b] = inflight[b]
      BY <1>2, <2>2 DEF RangeEnds, Leave
    <3> QED
      BY <1>1, <2>1, <3>1, <3>2, <3>3 DEF Placed, Kept, Live
  <2>3. CASE SelectClosed(b)
    <3>1. accepted[b] = read[b] \o queue[b] /\ b \in inClosed
      <4>1. stage[b] = "select" /\ closed /\ b # NoReg
        BY <2>3 DEF SelectClosed, Reg, NoReg
      <4>2. b \in inClosed
        BY <4>1 DEF IInv, Mapped
      <4> QED
        BY <2>1, <4>1, <4>2 DEF Kept, Live
    <3>2. read[b] = SubSeq(accepted[b], 1, Len(read[b]))
      BY <1>2, <3>1, BeginsWith
    <3>3. stage'[b] = "leaving" /\ inflight'[b] = inflight[b] /\ closed
      BY <1>2, <2>3 DEF SelectClosed, Leave
    <3> QED
      BY <1>1, <2>1, <3>1, <3>2, <3>3 DEF Placed, Kept, Live
  <2>4. CASE SelectInflightEnds(b)
    BY <1>1, <1>2, <2>1, <2>4 DEF SelectInflightEnds, Placed, Kept, Live
  <2>5. CASE CloseOut(b)
    BY <1>1, <1>2, <2>1, <2>5 DEF CloseOut, Placed, Kept, Live
  <2> QED
    BY <1>4, <2>2, <2>3, <2>4, <2>5 DEF Goroutine
<1> QED
  BY <1>3, <1>4

(* A registration starts with nothing accepted and nothing read; the one it *)
(* replaces goes on with its queue.                                        *)
LEMMA AddPlace ==
  ASSUME IInv, NEW c \in Caller, NEW t \in Tag, Add(c, t), NEW b \in Reg
  PROVE  Placed(b)' /\ Kept(b)'
<1>1. PICK d \in Reg : /\ stage[d] = "unborn"
                       /\ stage' = [stage EXCEPT ![d] = "range"]
                       /\ inClosed' = inClosed \cup Registered({t})
  BY Zenon DEF Add, IsNew, CloseIn
<1>2. UNCHANGED <<closed, inflight, queue, accepted, read>> /\ stage \in [Reg -> Stages]
  BY DEF Add, IInv, TypeOK
<1>3. \A a \in Registered({t}) : a \in Reg /\ Live(a)
  BY RegisteredIsOpen
<1>4. CASE b # d
  <2>1. stage'[b] = stage[b]
    BY <1>1, <1>2, <1>4
  <2> QED
    BY <1>1, <1>2, <1>3, <2>1, OthersKeepPlace
<1>5. CASE b = d
  <2>1. stage'[b] = "range" /\ b \notin inClosed'
    BY <1>1, <1>2, <1>3, <1>5 DEF IInv, Placed, Live
  <2>2. Placed(b) /\ stage[b] = "unborn"
    BY <1>1, <1>5 DEF IInv
  <2>3. <<>> = <<>> \o <<>>
    BY EmptyIsSeq, EndsWithNothing, Zenon
  <2> QED
    BY <1>2, <2>1, <2>2, <2>3 DEF Placed, Kept, Live
<1> QED
  BY <1>4, <1>5

(* Every step keeps every registration where it says it is. *)
LEMMA StepPlaced == ASSUME IInv, [Next]_vars PROVE (\A b \in Reg : Placed(b) /\ Kept(b))'
<1> SUFFICES ASSUME NEW b \in Reg PROVE Placed(b)' /\ Kept(b)'
  BY Zenon
<1>1. CASE UNCHANGED vars
  BY <1>1, OthersKeepPlace DEF vars
<1>2. ASSUME NEW c \in Caller, NEW t \in Tag, Cancel(c, t) PROVE Placed(b)' /\ Kept(b)'
  BY <1>2, RegisteredIsOpen, OthersKeepPlace DEF Cancel, CloseIn, goroutineVars
<1>3. ASSUME NEW c \in Caller, Close(c) PROVE Placed(b)' /\ Kept(b)'
  BY <1>3, RegisteredIsOpen, OthersKeepPlace DEF Close, CloseIn, goroutineVars
<1>4. ASSUME NEW c \in Caller, CloseDone(c) \/ \E t \in Tag : Send(c, t)
      PROVE  Placed(b)' /\ Kept(b)'
  BY <1>4, OthersKeepPlace DEF Send, CloseDone, goroutineVars
<1> QED
  BY <1>1, <1>2, <1>3, <1>4, AddPlace, SendDonePlace, GoroutinePlace, SelectOutPlace, Zenon
  DEF Next

(* The invariant is inductive. *)
LEMMA StepIInv == ASSUME IInv, [Next]_vars PROVE IInv'
<1>1. (\A b \in Reg : Placed(b))' /\ (\A b \in Reg : Kept(b))'
  BY StepPlaced, Zenon
<1>2. NothingLostOrReordered'
  BY <1>1 DEF NothingLostOrReordered, Kept, Live
<1> QED
  BY <1>1, <1>2, StepTypeOK, StepNoPanic, StepMapped, StepLocked, Zenon DEF IInv

-----------------------------------------------------------------------------
(* What the invariant says of a run.                                       *)

(* Every state of a run satisfies the invariant. *)
THEOREM Invariance == Spec => []IInv
<1>1. Init => IInv
  BY InitIInv
<1>2. IInv /\ [Next]_vars => IInv'
  BY StepIInv
<1> QED
  BY <1>1, <1>2, PTL DEF Spec

(* The variables always have their types. *)
THEOREM TypeCorrect == Spec => []TypeOK
<1>1. IInv => TypeOK
  BY DEF IInv
<1> QED
  BY <1>1, Invariance, PTL

(* No Go channel is closed twice or written to after its close, whatever   *)
(* the number of callers, tags and calls.                                  *)
THEOREM NoMisuse == Spec => []NoChannelMisuse
<1>1. IInv => NoChannelMisuse
  BY DEF IInv, NoChannelMisuse
<1> QED
  BY <1>1, Invariance, PTL

(* A tag in the map names a goroutine of its own that can still receive. *)
THEOREM Served == Spec => []RegisteredIsServed
<1>1. IInv => RegisteredIsServed
  <2> SUFFICES ASSUME IInv, NEW t \in Tag, chans[t] # NoReg
               PROVE  /\ chans[t] \notin inClosed /\ Receives(chans[t])
                      /\ \A u \in Tag : chans[u] = chans[t] => u = t
    BY DEF RegisteredIsServed
  <2>1. chans[t] \in Reg
    BY DEF IInv, TypeOK
  <2>2. Live(chans[t]) /\ chans[t] \notin inClosed
    BY DEF IInv, Mapped
  <2>3. inflight[chans[t]]
    BY <2>1, <2>2 DEF IInv, Placed
  <2> QED
    BY <2>2, <2>3 DEF IInv, Mapped, Live, Receives
<1> QED
  BY <1>1, Invariance, PTL

(* A reader sees what was accepted, in order, and all of it unless the     *)
(* object is closed.                                                       *)
THEOREM Lossless == Spec => []NothingLostOrReordered
<1>1. IInv => NothingLostOrReordered
  BY DEF IInv
<1> QED
  BY <1>1, Invariance, PTL

-----------------------------------------------------------------------------
(* Who waits for whom.                                                     *)

(***************************************************************************)
(* What CallsReturn rests on besides fairness: one caller at a time waits; *)
(* if in send, for a goroutine that receives from the Go channel; if in    *)
(* close, for goroutines each of which finds its Go channel in and the     *)
(* field closed closed, and so leaves, from range as from select. Nobody   *)
(* waits for a reader of out, or for a goroutine that waits for the mutex. *)
(***************************************************************************)
WaitsForTheLiving ==
  \A c \in Caller :
    /\ call[c] # NotCalling => \A d \in Caller \ {c} : call[d] = NotCalling
    /\ call[c].op = "send" => call[c].to \notin inClosed /\ Receives(call[c].to)
    /\ call[c].op = "close" => \A b \in Reg : Live(b) => closed /\ b \in inClosed

(* Whoever is in close has closed the object. *)
ClosesFirst == \A c \in Caller : call[c].op = "close" => closed

(* Every step leaves it so. *)
LEMMA StepClosesFirst == ASSUME IInv, ClosesFirst, [Next]_vars PROVE ClosesFirst'
<1>0. call \in [Caller -> Calls]
  BY DEF IInv, TypeOK, Calls
<1>1. CASE UNCHANGED <<call, closed>>
  BY <1>1 DEF ClosesFirst
<1>2. ASSUME NEW c \in Caller, NEW v, v.op # "close", call' = [call EXCEPT ![c] = v],
             closed' = closed
      PROVE  ClosesFirst'
  BY <1>0, <1>2 DEF ClosesFirst
<1>3. ASSUME NEW c \in Caller, NEW t \in Tag, Add(c, t) \/ Cancel(c, t)
      PROVE  UNCHANGED <<call, closed>>
  BY <1>3 DEF Add, Cancel, goroutineVars
<1>4. ASSUME NEW c \in Caller, NEW t \in Tag, Send(c, t) PROVE ClosesFirst'
  <2>1. PICK v : v.op # "close" /\ call' = [call EXCEPT ![c] = v] /\ closed' = closed
    BY <1>4 DEF Send
  <2> QED
    BY <1>2, <2>1
<1>5. ASSUME NEW c \in Caller, SendDone(c) \/ CloseDone(c) PROVE ClosesFirst'
  <2>1. NotCalling.op # "close"
    BY DEF NotCalling
  <2> QED
    BY <1>2, <1>5, <2>1 DEF SendDone, CloseDone
<1>6. ASSUME NEW c \in Caller, Close(c) PROVE ClosesFirst'
  BY <1>6 DEF Close, ClosesFirst
<1>7. ASSUME NEW b \in Reg, Goroutine(b) \/ SelectOut(b) PROVE UNCHANGED <<call, closed>>
  BY <1>7 DEF Goroutine, RangeEnds, SelectClosed, SelectInflightEnds, CloseOut, SelectOut
<1>8. CASE UNCHANGED vars
  BY <1>1, <1>8 DEF vars, goroutineVars
<1> QED
  BY <1>1, <1>3, <1>4, <1>5, <1>6, <1>7, <1>8, Zenon DEF Next

(* The invariant says who waits for whom. *)
LEMMA WaitingIs == IInv /\ ClosesFirst => WaitsForTheLiving
<1> SUFFICES ASSUME IInv, ClosesFirst, NEW c \in Caller
             PROVE  /\ call[c] # NotCalling => \A d \in Caller \ {c} : call[d] = NotCalling
                    /\ call[c].op = "send" => call[c].to \notin inClosed /\ Receives(call[c].to)
                    /\ call[c].op = "close" => \A b \in Reg : Live(b) => closed /\ b \in inClosed
  BY Zenon DEF WaitsForTheLiving
<1>1. call[c] # NotCalling => \A d \in Caller \ {c} : call[d] = NotCalling
  BY DEF IInv, Locked
<1>2. ASSUME call[c].op = "send" PROVE call[c].to \notin inClosed /\ Receives(call[c].to)
  <2>1. PICK t \in Tag : chans[t] = call[c].to
    BY <1>2 DEF IInv, Locked
  <2>2. call[c].to \in Reg
    BY <1>2, SendingIsTyped DEF IInv
  <2>3. Live(call[c].to) /\ call[c].to \notin inClosed
    BY <2>1, <2>2 DEF IInv, Mapped, Reg, NoReg
  <2>4. inflight[call[c].to]
    BY <2>2, <2>3 DEF IInv, Placed
  <2> QED
    BY <2>3, <2>4 DEF Live, Receives
<1>3. ASSUME call[c].op = "close", NEW b \in Reg, Live(b) PROVE closed /\ b \in inClosed
  <2>1. closed
    BY <1>3 DEF ClosesFirst
  <2>2. stage[b] # "unborn" /\ b # NoReg
    BY <1>3 DEF Live, Reg, NoReg
  <2> QED
    BY <2>1, <2>2 DEF IInv, Mapped
<1> QED
  BY <1>1, <1>2, <1>3

(* Whoever waits with the mutex held waits for a goroutine that can go on. *)
THEOREM CallsCanReturn == Spec => []WaitsForTheLiving
<1>1. Init => ClosesFirst
  BY DEF Init, ClosesFirst, NotCalling
<1>2. IInv /\ ClosesFirst /\ [Next]_vars => ClosesFirst'
  BY StepClosesFirst
<1> QED
  BY <1>1, <1>2, Invariance, WaitingIs, PTL DEF Spec

-----------------------------------------------------------------------------
(* The object implements the queues of DeliveryQueues.                     *)

Pending(b) == IF Phase(b) = "ended" THEN <<>> ELSE queue[b]

(* A step that changes no phase and nothing pending, handed out or down.   *)
LEMMA Stutter ==
  ASSUME \A b \in Reg : Phase(b)' = Phase(b) /\ Pending(b)' = Pending(b),
         UNCHANGED <<read, closed>>
  PROVE  UNCHANGED Queues!vars
BY DEF Queues!vars, Pending

(* The phase of a registration depends on its stage and its channel in. *)
LEMMA PhaseStays ==
  ASSUME NEW b \in Reg, stage'[b] = stage[b], b \in inClosed' <=> b \in inClosed
  PROVE  Phase(b)' = Phase(b)
BY DEF Phase

(* What is pending depends on its phase and its queue. *)
LEMMA PendingStays ==
  ASSUME NEW b \in Reg, Phase(b)' = Phase(b), queue'[b] = queue[b]
  PROVE  Pending(b)' = Pending(b)
BY DEF Pending

(* A registration in the map is open. *)
LEMMA RegisteredPhase ==
  ASSUME IInv, NEW b \in Reg
  PROVE  /\ Live(b) /\ b \notin inClosed => Phase(b) = "open"
         /\ Phase(b) = "open" <=> \E t \in Tag : chans[t] = b
         /\ Phase(b) \in {"open", "ending"} <=> Live(b)
<1>1. stage[b] \in Stages /\ b # NoReg
  BY DEF IInv, TypeOK, Reg, NoReg
<1>2. stage[b] \in {"leaving", "gone"} => b \in inClosed
  BY DEF IInv, Placed
<1>3. Live(b) <=> stage[b] \notin {"unborn", "leaving", "gone"}
  BY <1>1 DEF Stages, Live
<1>4. Phase(b) = "open" <=> stage[b] # "unborn" /\ b \notin inClosed
  BY <1>2 DEF Phase
<1>5. (\E t \in Tag : chans[t] = b) <=> stage[b] # "unborn" /\ b \notin inClosed
  BY <1>1, <1>3 DEF IInv, Mapped
<1> QED
  BY <1>3, <1>4, <1>5 DEF Phase

(* add opens a queue, and may end the one it replaces. *)
LEMMA AddOpens ==
  ASSUME IInv, NEW c \in Caller, NEW t \in Tag, Add(c, t) PROVE Queues!Next
<1>1. PICK d \in Reg : /\ stage[d] = "unborn"
                       /\ stage' = [stage EXCEPT ![d] = "range"]
                       /\ inClosed' = inClosed \cup Registered({t})
  BY Zenon DEF Add, IsNew, CloseIn
<1> DEFINE R == Registered({t})
<1>2. UNCHANGED <<closed, queue, read>> /\ ~closed /\ stage \in [Reg -> Stages]
  BY DEF Add, IInv, TypeOK
<1>3. R \cap inClosed = {} /\ \A r \in R : r \in Reg /\ Live(r)
  BY RegisteredIsOpen, Zenon
<1>4. d \notin R /\ d \notin inClosed
  BY <1>1, <1>3 DEF Live, IInv, Placed
<1>5. R \in {{}} \cup {{r} : r \in Reg \ {d}}
  BY <1>3, <1>4 DEF Registered
<1> HIDE DEF R
<1>6. \A r \in R : Phase(r) = "open"
  BY <1>3, RegisteredPhase
<1>7. Phase(d) = "new" /\ Phase(d)' = "open"
  BY <1>1, <1>2, <1>4 DEF Phase, R
<1>8. \A r \in R : Phase(r)' = "ending"
  BY <1>1, <1>2, <1>3, <1>4 DEF Phase, Live, R
<1>9. \A r \in Reg : r # d /\ r \notin R => Phase(r)' = Phase(r)
  BY <1>1, <1>2, PhaseStays DEF R
<1>10. \A r \in Reg : Pending(r)' = Pending(r)
  BY <1>2, <1>6, <1>7, <1>8, <1>9 DEF Pending
<1>11. Queues!Open(d, R)
  BY <1>2, <1>3, <1>4, <1>6, <1>7, <1>8, <1>9, <1>10 DEF Queues!Open, Pending
<1> QED
  BY <1>5, <1>11, Zenon DEF Queues!Next

(* cancel ends a queue. *)
LEMMA CancelCancels ==
  ASSUME IInv, NEW c \in Caller, NEW t \in Tag, Cancel(c, t) PROVE Queues!Next
<1>1. PICK d \in Reg : d = chans[t] /\ Registered({t}) = {d}
  BY DEF Registered, Cancel, IInv, TypeOK
<1>2. UNCHANGED <<closed, stage, queue, read>> /\ inClosed' = inClosed \cup {d}
  BY <1>1 DEF Cancel, CloseIn, goroutineVars
<1>3. Live(d) /\ d \notin inClosed
  BY <1>1, RegisteredIsOpen
<1>4. Phase(d) = "open" /\ Phase(d)' = "ending"
  BY <1>1, <1>2, <1>3 DEF Phase, Live
<1>5. \A r \in Reg \ {d} : Phase(r)' = Phase(r)
  BY <1>2, PhaseStays
<1>6. \A r \in Reg : Pending(r)' = Pending(r)
  BY <1>2, <1>4, <1>5 DEF Pending
<1>7. Queues!Cancel(d)
  BY <1>1, <1>2, <1>4, <1>5, <1>6 DEF Queues!Cancel, Pending
<1> QED
  BY <1>1, <1>7, Zenon DEF Queues!Next

(* The end of a send is the acceptance of its delivery. *)
LEMMA SendDoneAccepts ==
  ASSUME IInv, NEW c \in Caller, SendDone(c) PROVE Queues!Next
<1>1. PICK d \in Reg, m \in Msg :
        d = call[c].to /\ m = call[c].msg /\ d \notin inClosed /\ Live(d)
  BY SendIsServed, Zenon DEF SendDone
<1>2. /\ queue' = [queue EXCEPT ![d] = Append(queue[d], m)]
      /\ stage' = [stage EXCEPT ![d] = "select"]
      /\ UNCHANGED <<closed, inClosed, read>>
      /\ queue \in [Reg -> Seq(Msg)] /\ stage \in [Reg -> Stages]
  BY <1>1 DEF SendDone, IInv, TypeOK
<1>3. Phase(d) = "open" /\ Phase(d)' = "open"
  BY <1>1, <1>2 DEF Phase, Live
<1>4. \A r \in Reg \ {d} : Phase(r)' = Phase(r)
  BY <1>2, PhaseStays
<1>5. PICK longer : longer = Append(queue[d], m)
  BY Zenon
<1>6. queue' = [queue EXCEPT ![d] = longer] /\ longer = Append(Pending(d), m)
  BY <1>2, <1>3, <1>5, Zenon DEF Pending
<1>7. Pending(d)' = longer /\ \A r \in Reg \ {d} : Pending(r)' = Pending(r)
  BY <1>2, <1>3, <1>4, <1>6 DEF Pending
<1>8. [b \in Reg |-> Pending(b)]' = [[b \in Reg |-> Pending(b)] EXCEPT ![d] = longer]
  BY <1>7
<1>9. [b \in Reg |-> Phase(b)]' = [b \in Reg |-> Phase(b)] /\ [b \in Reg |-> Phase(b)][d] = "open"
  BY <1>3, <1>4
<1>10. [b \in Reg |-> Pending(b)][d] = Pending(d)
  BY Zenon
<1>11. Queues!Accept(d, m)
  BY <1>2, <1>6, <1>8, <1>9, <1>10, Zenon DEF Queues!Accept, Pending
<1> QED
  BY <1>11, Zenon DEF Queues!Next

(* close shuts the queues down. *)
LEMMA CloseShutsDown ==
  ASSUME IInv, NEW c \in Caller, Close(c) PROVE Queues!Next
<1>1. /\ ~closed /\ closed' = TRUE /\ inClosed' = inClosed \cup Registered(Tag)
      /\ UNCHANGED <<stage, queue, read>>
  BY DEF Close, CloseIn, goroutineVars
<1>2. \A r \in Registered(Tag) : r \in Reg /\ Live(r)
  BY RegisteredIsOpen
<1>3. \A r \in Reg : r \in Registered(Tag) <=> Phase(r) = "open"
  BY RegisteredPhase DEF Registered, Reg, NoReg
<1>4. \A r \in Reg : Phase(r) = "open" => Phase(r)' = "ending"
  BY <1>1, <1>2, <1>3 DEF Phase, Live
<1>5. \A r \in Reg : Phase(r) # "open" => Phase(r)' = Phase(r)
  BY <1>1, <1>3 DEF Phase
<1>6. \A r \in Reg : Pending(r)' = Pending(r)
  BY <1>1, <1>4, <1>5 DEF Pending
<1>7. Queues!Shutdown
  BY <1>1, <1>4, <1>5, <1>6 DEF Queues!Shutdown, Pending
<1> QED
  BY <1>7, Zenon DEF Queues!Next

(* What is read from out is handed out. *)
LEMMA SelectOutHandsOut ==
  ASSUME IInv, NEW d \in Reg, SelectOut(d) PROVE Queues!Next
<1>1. /\ read' = [read EXCEPT ![d] = Append(@, Head(queue[d]))]
      /\ queue' = [queue EXCEPT ![d] = Tail(queue[d])]
      /\ UNCHANGED <<closed, inClosed>> /\ stage[d] = "select"
      /\ stage' = [stage EXCEPT ![d] = IF Tail(queue[d]) = <<>> THEN "range" ELSE "select"]
  BY DEF SelectOut
<1>2. queue[d] # <<>> /\ queue \in [Reg -> Seq(Msg)] /\ stage \in [Reg -> Stages]
  BY <1>1 DEF IInv, TypeOK, Placed
<1>3. Phase(d) \in {"open", "ending"}
  BY <1>1 DEF Phase
<1>4. PICK rest : rest = Tail(queue[d])
  BY Zenon
<1>5. queue' = [queue EXCEPT ![d] = rest]
      /\ stage' = [stage EXCEPT ![d] = IF rest = <<>> THEN "range" ELSE "select"]
  BY <1>1, <1>4, Zenon
<1>6. stage'[d] \in {"range", "select"}
  BY <1>2, <1>5
<1>7. Phase(d)' = Phase(d)
  BY <1>1, <1>6 DEF Phase
<1>8. \A r \in Reg \ {d} : Phase(r)' = Phase(r)
  BY <1>1, <1>2, <1>5, PhaseStays
<1>9. Pending(d)' = rest /\ Pending(d) = queue[d]
      /\ \A r \in Reg \ {d} : Pending(r)' = Pending(r)
  BY <1>2, <1>3, <1>5, <1>7, <1>8 DEF Pending
<1>10. [b \in Reg |-> Pending(b)]' = [[b \in Reg |-> Pending(b)] EXCEPT ![d] = rest]
  BY <1>9
<1>11. [b \in Reg |-> Phase(b)]' = [b \in Reg |-> Phase(b)]
       /\ [b \in Reg |-> Phase(b)][d] \in {"open", "ending"}
  BY <1>3, <1>7, <1>8
<1>12. [b \in Reg |-> Pending(b)][d] = queue[d]
  BY <1>9, Zenon
<1>13. Queues!HandOut(d)
  BY <1>1, <1>2, <1>4, <1>10, <1>11, <1>12, Zenon DEF Queues!HandOut, Pending
<1> QED
  BY <1>13, Zenon DEF Queues!Next

(* A buffer goroutine that returns ends its queue: drained, or with the    *)
(* object shut down. Its other steps are not seen.                         *)
LEMMA GoroutineEnds ==
  ASSUME IInv, NEW d \in Reg, Goroutine(d) PROVE Queues!Next \/ UNCHANGED Queues!vars
<1>1. UNCHANGED <<closed, inClosed, queue, read>>
  BY DEF Goroutine, RangeEnds, SelectClosed, SelectInflightEnds, CloseOut
<1>2. stage \in [Reg -> Stages]
  BY DEF IInv, TypeOK
<1>3. ASSUME Live(d), d \in inClosed, Leave(d), queue[d] = <<>> \/ closed
      PROVE  Queues!Next
  <2>1. Phase(d) = "ending" /\ Phase(d)' = "ended"
    BY <1>1, <1>2, <1>3 DEF Phase, Live, Leave
  <2>2. \A r \in Reg \ {d} : Phase(r)' = Phase(r)
    BY <1>1, <1>2, <1>3, PhaseStays DEF Leave
  <2>3. /\ Pending(d) = queue[d] /\ Pending(d)' = <<>>
        /\ \A r \in Reg \ {d} : Pending(r)' = Pending(r)
    BY <1>1, <2>1, <2>2 DEF Pending
  <2>4. Queues!End(d)
    BY <1>1, <1>3, <2>1, <2>2, <2>3 DEF Queues!End, Pending
  <2> QED
    BY <2>4, Zenon DEF Queues!Next
<1>4. CASE RangeEnds(d)
  <2>1. stage[d] = "range" /\ queue[d] = <<>> /\ d \in inClosed /\ Leave(d)
    BY <1>4 DEF RangeEnds, IInv, Placed
  <2> QED
    BY <1>3, <2>1 DEF Live
<1>5. CASE SelectClosed(d)
  <2>1. stage[d] = "select" /\ closed /\ Leave(d) /\ d # NoReg
    BY <1>5 DEF SelectClosed, Reg, NoReg
  <2>2. d \in inClosed
    BY <2>1 DEF IInv, Mapped
  <2> QED
    BY <1>3, <2>1, <2>2 DEF Live
<1>6. ASSUME \A r \in Reg : Phase(r)' = Phase(r) PROVE UNCHANGED Queues!vars
  <2>1. \A r \in Reg : Pending(r)' = Pending(r)
    BY <1>1, <1>6, PendingStays
  <2> QED
    BY <1>1, <1>6, <2>1, Stutter
<1>7. CASE SelectInflightEnds(d)
  BY <1>1, <1>6, <1>7, PhaseStays DEF SelectInflightEnds
<1>8. CASE CloseOut(d)
  <2>1. stage[d] = "leaving" /\ stage'[d] = "gone"
    BY <1>2, <1>8 DEF CloseOut
  <2>2. Phase(d)' = Phase(d)
    BY <2>1 DEF Phase
  <2>3. \A r \in Reg \ {d} : Phase(r)' = Phase(r)
    BY <1>1, <1>2, <1>8, PhaseStays DEF CloseOut
  <2> QED
    BY <1>6, <2>2, <2>3
<1> QED
  BY <1>4, <1>5, <1>7, <1>8, Zenon DEF Goroutine

(* Every step is a step of the queues, or is not seen. *)
LEMMA StepQueues == ASSUME IInv, [Next]_vars PROVE [Queues!Next]_(Queues!vars)
<1>1. ASSUME UNCHANGED <<stage, inClosed, queue, read, closed>> PROVE UNCHANGED Queues!vars
  <2>1. \A r \in Reg : Phase(r)' = Phase(r)
    BY <1>1, PhaseStays
  <2>2. \A r \in Reg : Pending(r)' = Pending(r)
    BY <1>1, <2>1, PendingStays
  <2> QED
    BY <1>1, <2>1, <2>2, Stutter
<1>2. CASE UNCHANGED vars
  BY <1>1, <1>2 DEF vars
<1>3. ASSUME NEW c \in Caller, CloseDone(c) \/ \E t \in Tag : Send(c, t)
      PROVE  UNCHANGED Queues!vars
  BY <1>1, <1>3 DEF Send, CloseDone, goroutineVars
<1> QED
  BY <1>2, <1>3, AddOpens, CancelCancels, SendDoneAccepts, CloseShutsDown,
     SelectOutHandsOut, GoroutineEnds, Zenon DEF Next

(* A consumers object is made as queues that are all new. *)
LEMMA InitQueues == Init => Queues!Init
BY DEF Init, Queues!Init, Phase

(* The object implements the queues it promises, for any number of callers, *)
(* tags, registrations and deliveries.                                     *)
THEOREM Refinement == Spec => ImplementsQueues
<1>1. IInv /\ [Next]_vars => [Queues!Next]_(Queues!vars)
  BY StepQueues
<1> QED
  BY <1>1, Invariance, InitQueues, PTL DEF Spec, Queues!Spec, ImplementsQueues

-----------------------------------------------------------------------------
(* The pipeline. *)

(* Message m has been handed to registration b. *)
In(m, b) == \E i \in DOMAIN accepted[b] : accepted[b][i] = m

(* What has been accepted so far, delivery by delivery. *)
Slots == {x \in Reg \X Msg : x[2] \in DOMAIN accepted[x[1]]}
Count == Cardinality(Slots)

(* dispatch is the only caller: the delivery it is busy with is the last   *)
(* of those dispatched, all others have been accepted, and the map has the *)
(* registration that is going to get it.                                   *)
Numbered ==
  /\ Len(tagOf) = IF Idle THEN Count ELSE Count + 1
  /\ adding # NoTag =>
       call[Parser] = NotCalling /\ tagOf[Len(tagOf)] = adding /\ chans[adding] # NoReg
  /\ call[Parser] # NotCalling =>
       /\ call[Parser].op = "send" /\ call[Parser].msg = Len(tagOf)
       /\ call[Parser].to = chans[tagOf[Len(tagOf)]]

(* Every delivery goes to one registration, and to each in order. *)
Sorted ==
  /\ \A b \in Reg : \A i, j \in DOMAIN accepted[b] : i < j => accepted[b][i] < accepted[b][j]
  /\ \A b \in Reg : \A i \in DOMAIN accepted[b] : accepted[b][i] \in 1 .. Count
  /\ \A b \in Reg : Len(accepted[b]) <= Count
  /\ \A a, b \in Reg : \A m \in Msg : In(m, a) /\ In(m, b) => a = b

(* The tag of delivery m was cancelled after it, and before delivery k. *)
CancelledSince(m, k) ==
  \E n \in DOMAIN cancels :
    cancels[n][1] = tagOf[m] /\ m <= cancels[n][2] /\ cancels[n][2] < k

(* Before the next delivery, and before the one dispatch is busy with. *)
CancelledSoFar(m) == CancelledSince(m, Len(tagOf) + 1)
CancelledBeforeLast(m) == CancelledSince(m, Len(tagOf))

(* Two registrations have deliveries of one tag only across a cancellation,*)
(* and a registration that its tag does not name any more was cancelled.   *)
Parted ==
  /\ \A n \in DOMAIN cancels : cancels[n][2] <= Len(tagOf)
  /\ \A b \in Reg : \A m \in Msg :
       In(m, b) /\ chans[tagOf[m]] # b => CancelledSoFar(m)
  /\ \A a, b \in Reg : \A m, k \in Msg :
       In(m, a) /\ In(k, b) /\ a # b /\ m < k /\ tagOf[m] = tagOf[k] => CancelledSince(m, k)
  /\ ~Idle => \A b \in Reg : \A m \in Msg :
       In(m, b) /\ tagOf[m] = tagOf[Len(tagOf)] /\ chans[tagOf[m]] # b =>
         CancelledBeforeLast(m)

(* What forwarders have passed on so far, in the order of chMsg. *)
Passed == handled \o chMsg

(* Delivery m was read from the Go channel out of registration b. *)
ReadFrom(m, b) == \E j \in DOMAIN read[b] : read[b][j] = m

(* What is passed on was read, the deliveries of a registration in order,  *)
(* before the one its forwarder holds.                                     *)
Flowing ==
  /\ \A b \in Reg : forwarder[b] = "holding" <=> held[b] # NoMsg
  /\ \A b \in Reg : held[b] # NoMsg => ReadFrom(held[b], b)
  /\ \A i \in DOMAIN Passed : \E b \in Reg : ReadFrom(Passed[i], b)
  /\ \A b \in Reg : held[b] # NoMsg =>
       \A i \in DOMAIN Passed : In(Passed[i], b) => Passed[i] < held[b]
  /\ \A b \in Reg : \A i, j \in DOMAIN Passed :
       i < j /\ In(Passed[i], b) /\ In(Passed[j], b) => Passed[i] < Passed[j]

PInv == IInv /\ PipelineTypeOK /\ ~closed /\ Numbered /\ Sorted /\ Parted /\ Flowing

-----------------------------------------------------------------------------
(* The consumers object behind dispatch.                                   *)

(* A step of the pipeline is a step of its consumers object, or none. *)
LEMMA OfConsumers ==
  ASSUME PipelineTypeOK, [PipelineNext]_allVars PROVE [Next]_vars
<1>1. Parser \in Caller
  BY PipelineAssumption
<1>2. CASE UNCHANGED allVars
  BY <1>2, Zenon DEF allVars
<1>3. ASSUME NEW t \in Tag, DeliverFirst(t) \/ DeliverNext(t) \/ CancelTag(t) PROVE Next
  BY <1>1, <1>3, Zenon DEF DeliverFirst, DeliverNext, CancelTag, Next
<1>4. CASE SendFirst
  <2>1. adding \in Tag
    BY <1>4 DEF SendFirst, PipelineTypeOK
  <2> QED
    BY <1>1, <1>4, <2>1, Zenon DEF SendFirst, Next
<1>5. CASE Accepted
  BY <1>1, <1>5, Zenon DEF Accepted, Next
<1>6. ASSUME NEW b \in Reg, Buffer(b) \/ Take(b) PROVE Next
  BY <1>6, Zenon DEF Buffer, Take, Next, Goroutine
<1>7. ASSUME NEW b \in Reg, PassOn(b) \/ ForwarderEnds(b) PROVE UNCHANGED vars
  BY <1>7, Zenon DEF PassOn, ForwarderEnds
<1>8. CASE Handle
  BY <1>8, Zenon DEF Handle
<1> QED
  BY <1>2, <1>3, <1>4, <1>5, <1>6, <1>7, <1>8, Zenon DEF PipelineNext

(* It is never closed, and its invariant holds. *)
LEMMA StepConsumers ==
  ASSUME PInv, [PipelineNext]_allVars PROVE IInv' /\ ~closed'
<1>1. IInv'
  BY OfConsumers, StepIInv, Zenon DEF PInv
<1>2. closed' = closed
  BY DEF PipelineNext, allVars, vars, DeliverFirst, DeliverNext, CancelTag, SendFirst, Accepted,
         Buffer, Take, PassOn, ForwarderEnds, Handle, Add, Cancel, Send, SendDone,
         RangeEnds, SelectInflightEnds, CloseOut, SelectOut
<1> QED
  BY <1>1, <1>2, Zenon DEF PInv

(* There is a number of deliveries accepted. *)
LEMMA SlotsAreFinite == IsFiniteSet(Slots) /\ Count \in Nat
<1>1. IsFiniteSet(Reg) /\ IsFiniteSet(Msg)
  BY FS_Interval, ConsumersAssumption DEF Reg, Msg
<1>2. IsFiniteSet(Reg \X Msg)
  BY <1>1, FS_Product, Zenon
<1>3. Slots \subseteq Reg \X Msg
  BY DEF Slots
<1>4. IsFiniteSet(Slots)
  BY <1>2, <1>3, FS_Subset, Zenon
<1> QED
  BY <1>4, FS_CardinalityType, Zenon DEF Count

(* What dispatch and its consumers object are waiting for. *)
LEMMA BusyIs ==
  ASSUME PInv, ~Idle
  PROVE  /\ Len(tagOf) = Count + 1 /\ tagOf[Len(tagOf)] \in Tag
         /\ Len(tagOf) \in Msg /\ Len(tagOf) \in DOMAIN tagOf
         /\ chans[tagOf[Len(tagOf)]] \in Reg
<1>1. Count \in Nat
  BY SlotsAreFinite
<1>2. Len(tagOf) = Count + 1 /\ Len(tagOf) <= MaxSend /\ tagOf \in Seq(Tag)
  BY DEF PInv, Numbered, PipelineTypeOK
<1>3. Len(tagOf) \in Msg /\ Len(tagOf) \in DOMAIN tagOf /\ tagOf[Len(tagOf)] \in Tag
  BY <1>1, <1>2, ConsumersAssumption DEF Msg
<1>4. CASE adding # NoTag
  BY <1>2, <1>3, <1>4 DEF PInv, Numbered, PipelineTypeOK, TypeOK
<1>5. CASE call[Parser] # NotCalling
  <2>1. call[Parser].to \in Reg
    BY <1>5, SendingIsTyped, PipelineAssumption DEF PInv, Numbered, IInv
  <2> QED
    BY <1>2, <1>3, <1>5, <2>1 DEF PInv, Numbered
<1> QED
  BY <1>2, <1>3, <1>4, <1>5 DEF Idle

(* The elements of a concatenation a of r and q. *)
Joins(a, r, q) ==
  /\ \A j \in DOMAIN r : j \in DOMAIN a /\ a[j] = r[j]
  /\ q # <<>> => Len(r) + 1 \in DOMAIN a /\ a[Len(r) + 1] = Head(q)

(* A concatenation joins them. *)
LEMMA ConcatIs ==
  ASSUME NEW S, NEW r \in Seq(S), NEW q \in Seq(S), NEW a, a = r \o q
  PROVE  Joins(a, r, q)
BY DEF Joins

(* What the Go channel out has handed over was accepted before, and what   *)
(* the goroutine hands over next was accepted next.                        *)
LEMMA ReadIs ==
  ASSUME IInv, ~closed, NEW b \in Reg
  PROVE  /\ accepted[b] \in Seq(Msg) /\ read[b] \in Seq(Msg)
         /\ \A j \in DOMAIN read[b] : j \in DOMAIN accepted[b] /\ accepted[b][j] = read[b][j]
         /\ stage[b] = "select" =>
              /\ Len(read[b]) + 1 \in DOMAIN accepted[b]
              /\ accepted[b][Len(read[b]) + 1] = Head(queue[b])
<1>1. /\ accepted[b] \in Seq(Msg) /\ read[b] \in Seq(Msg) /\ queue[b] \in Seq(Msg)
      /\ stage[b] \in Stages
  BY DEF IInv, TypeOK
<1>2. CASE stage[b] \in {"range", "select"}
  <2>1. accepted[b] = read[b] \o queue[b]
    BY <1>2 DEF IInv, NothingLostOrReordered
  <2>2. stage[b] = "select" => queue[b] # <<>>
    BY DEF IInv, Placed
  <2>3. Joins(accepted[b], read[b], queue[b])
    BY <1>1, <2>1, ConcatIs, Zenon
  <2> QED
    BY <1>1, <2>2, <2>3, Zenon DEF Joins
<1>3. CASE stage[b] \notin {"range", "select"}
  <2>1. read[b] = accepted[b]
    BY <1>1, <1>3 DEF IInv, NothingLostOrReordered, Placed, Stages
  <2> QED
    BY <1>1, <1>3, <2>1
<1> QED
  BY <1>2, <1>3

(* The end of a send hands the delivery dispatched last to the registration*)
(* its tag names.                                                          *)
LEMMA AcceptedIs ==
  ASSUME PInv, Accepted
  PROVE  /\ ~Idle /\ adding = NoTag /\ Idle'
         /\ UNCHANGED <<tagOf, chans, cancels, pipelineVars>>
         /\ call[Parser].op = "send"
         /\ call[Parser].to = chans[tagOf[Len(tagOf)]] /\ call[Parser].msg = Len(tagOf)
         /\ accepted' = [accepted EXCEPT ![chans[tagOf[Len(tagOf)]]] =
                           Append(accepted[chans[tagOf[Len(tagOf)]]], Len(tagOf))]
         /\ queue' = [queue EXCEPT ![chans[tagOf[Len(tagOf)]]] =
                           Append(queue[chans[tagOf[Len(tagOf)]]], Len(tagOf))]
<1>1. call[Parser].op = "send" /\ call[Parser] # NotCalling
  BY DEF Accepted, SendDone, NotCalling
<1>2. adding = NoTag /\ ~Idle
  BY <1>1 DEF PInv, Numbered, Idle
<1>3. UNCHANGED pipelineVars /\ UNCHANGED chans
  BY DEF Accepted, SendDone
<1>4. call' = [call EXCEPT ![Parser] = NotCalling] /\ Parser \in DOMAIN call
  BY PipelineAssumption DEF Accepted, SendDone, PInv, IInv, TypeOK
<1>5. Idle'
  BY <1>2, <1>3, <1>4 DEF Idle, pipelineVars
<1>6. call[Parser].to = chans[tagOf[Len(tagOf)]] /\ call[Parser].msg = Len(tagOf)
  BY <1>1 DEF PInv, Numbered
<1>7. /\ accepted' = [accepted EXCEPT ![call[Parser].to] =
                        Append(accepted[call[Parser].to], call[Parser].msg)]
      /\ queue' = [queue EXCEPT ![call[Parser].to] =
                        Append(queue[call[Parser].to], call[Parser].msg)]
  BY DEF Accepted, SendDone
<1> QED
  BY <1>1, <1>2, <1>3, <1>5, <1>6, <1>7, Zenon DEF pipelineVars

(* A registration accepts one more delivery. *)
LEMMA OneMore ==
  ASSUME PInv, NEW b \in Reg, NEW m \in Msg, Len(accepted[b]) < MaxSend,
         accepted' = [accepted EXCEPT ![b] = Append(accepted[b], m)]
  PROVE  /\ Count' = Count + 1
         /\ \A a \in Reg, x \in Msg : In(x, a)' <=> In(x, a) \/ (a = b /\ x = m)
<1>1. accepted \in [Reg -> Seq(Msg)]
  BY DEF PInv, IInv, TypeOK
<1>2. PICK longer : longer = Append(accepted[b], m)
  BY Zenon
<1>3. /\ Len(accepted[b]) \in Nat /\ DOMAIN accepted[b] = 1 .. Len(accepted[b])
      /\ DOMAIN longer = 1 .. Len(accepted[b]) + 1
      /\ longer[Len(accepted[b]) + 1] = m
      /\ \A i \in DOMAIN accepted[b] : longer[i] = accepted[b][i]
  BY <1>1, <1>2
<1>4. accepted'[b] = longer /\ \A a \in Reg \ {b} : accepted'[a] = accepted[a]
  BY <1>1, <1>2
<1>5. DOMAIN longer = DOMAIN accepted[b] \cup {Len(accepted[b]) + 1}
  BY <1>3
<1>6. \A a \in Reg, x \in Msg : In(x, a)' <=> In(x, a) \/ (a = b /\ x = m)
  <2> SUFFICES ASSUME NEW a \in Reg, NEW x \in Msg
               PROVE  In(x, a)' <=> In(x, a) \/ (a = b /\ x = m)
    BY Zenon
  <2>1. CASE a # b
    BY <1>4, <2>1, Zenon DEF In
  <2>2. CASE a = b
    <3>1. In(x, a)' <=> \E i \in DOMAIN longer : longer[i] = x
      BY <1>4, <2>2, Zenon DEF In
    <3> QED
      BY <1>3, <1>5, <2>2, <3>1 DEF In
  <2> QED
    BY <2>1, <2>2
<1>7. PICK new : new = <<b, Len(accepted[b]) + 1>>
  BY Zenon
<1>8. new \in Reg \X Msg /\ new[1] = b /\ new[2] = Len(accepted[b]) + 1
  BY <1>3, <1>7, ConsumersAssumption DEF Msg
<1>9. new \notin Slots
  BY <1>3, <1>8 DEF Slots
<1>10. Slots' = Slots \cup {new}
  <2>1. \A x \in Reg \X Msg : x[2] \in DOMAIN accepted'[x[1]] <=>
                                x[2] \in DOMAIN accepted[x[1]] \/ x = new
    <3> SUFFICES ASSUME NEW x \in Reg \X Msg
                 PROVE  x[2] \in DOMAIN accepted'[x[1]] <=>
                          x[2] \in DOMAIN accepted[x[1]] \/ x = new
      BY Zenon
    <3>1. x[1] \in Reg /\ (x = new <=> x[1] = b /\ x[2] = Len(accepted[b]) + 1)
      BY <1>7
    <3> QED
      BY <1>4, <1>5, <3>1
  <2> QED
    BY <1>8, <2>1 DEF Slots
<1>11. Cardinality(Slots \cup {new}) = Cardinality(Slots) + 1
  BY <1>9, SlotsAreFinite, FS_AddElement, Zenon
<1> QED
  BY <1>6, <1>10, <1>11, Zenon DEF Count

(* What has been accepted stays, and what it says, unless a send ends. *)
LEMMA NoMore ==
  ASSUME accepted' = accepted
  PROVE  Count' = Count /\ \A a, x : In(x, a)' <=> In(x, a)
BY DEF Count, Slots, In

(* The end of a send: its delivery is accepted by the registration its tag *)
(* names, and counted.                                                     *)
LEMMA AcceptedCounts ==
  ASSUME PInv, Accepted
  PROVE  /\ Count' = Count + 1
         /\ \A a \in Reg, x \in Msg :
              In(x, a)' <=> In(x, a) \/ (a = chans[tagOf[Len(tagOf)]] /\ x = Len(tagOf))
<1>1. PICK m \in Msg, b \in Reg : m = Len(tagOf) /\ m = Count + 1 /\ b = chans[tagOf[Len(tagOf)]]
  BY AcceptedIs, BusyIs, Zenon
<1>2. accepted' = [accepted EXCEPT ![b] = Append(accepted[b], m)]
  BY <1>1, AcceptedIs, Zenon
<1>3. Len(accepted[b]) <= Count /\ Len(accepted[b]) \in Nat
  BY DEF PInv, Sorted, IInv, TypeOK
<1>4. Len(accepted[b]) < MaxSend
  BY <1>1, <1>3, SlotsAreFinite, ConsumersAssumption DEF Msg
<1> QED
  BY <1>1, <1>2, <1>4, OneMore, Zenon

-----------------------------------------------------------------------------
(* The steps as far as they matter to what is dispatched, and to whom.     *)

(* A delivery of tag t: its registration gets it next. *)
Dispatches(t) ==
  /\ Idle /\ ~Idle' /\ Len(tagOf) < MaxSend /\ tagOf' = Append(tagOf, t)
  /\ UNCHANGED <<accepted, cancels>>
  /\ \A u \in Tag \ {t} : chans'[u] = chans[u]
  /\ chans[t] # NoReg => chans'[t] = chans[t]

(* A cancellation of tag t. *)
Cancels(t) ==
  /\ Idle /\ Idle' /\ UNCHANGED <<accepted, tagOf>>
  /\ chans' = [chans EXCEPT ![t] = NoReg]
  /\ cancels' = Append(cancels, <<t, Len(tagOf)>>)

(* Any other step but the end of a send. *)
Quiet == UNCHANGED <<accepted, tagOf, chans, cancels>> /\ (Idle' <=> Idle)

(* While dispatch is busy nothing happens to its caller but by itself. *)
LEMMA CallerIsParser ==
  PInv => /\ Parser \in Caller /\ call \in [Caller -> Calls] /\ chans \in [Tag -> Reg \cup {NoReg}]
          /\ stage \in [Reg -> Stages] /\ adding \in Tag \cup {NoTag} /\ NoTag \notin Tag
          /\ tagOf \in Seq(Tag) /\ cancels \in Seq(Tag \X (0 .. MaxSend))
          /\ NoReg \notin Reg
BY PipelineAssumption DEF PInv, IInv, TypeOK, Calls, PipelineTypeOK, Reg, NoReg

(* A send that begins. *)
LEMMA SendIs ==
  ASSUME PInv, NEW t \in Tag, Send(Parser, t)
  PROVE  /\ chans[t] \in Reg /\ call[Parser] = NotCalling
         /\ call'[Parser] = [op |-> "send", to |-> chans[t], msg |-> Count + 1]
         /\ call'[Parser] # NotCalling
         /\ UNCHANGED <<accepted, chans, read, queue, stage, inClosed>>
<1>1. /\ call[Parser] = NotCalling /\ chans[t] # NoReg
      /\ UNCHANGED <<accepted, chans, read, queue, stage, inClosed>>
  BY DEF Send, GetsMutex, goroutineVars
<1>2. PICK m \in Msg : /\ m = Count + 1
                       /\ call' = [call EXCEPT ![Parser] = [op |-> "send", to |-> chans[t], msg |-> m]]
  BY Zenon DEF Send, Count, Slots
<1>3. call'[Parser] = [op |-> "send", to |-> chans[t], msg |-> m]
  BY <1>2, CallerIsParser
<1>4. call'[Parser] # NotCalling
  BY <1>3 DEF NotCalling
<1>5. chans[t] \in Reg
  BY <1>1, CallerIsParser
<1> QED
  BY <1>1, <1>2, <1>3, <1>4, <1>5

(* An add. *)
LEMMA AddIs ==
  ASSUME PInv, NEW t \in Tag, Add(Parser, t)
  PROVE  /\ \E b \in Reg : /\ stage[b] = "unborn" /\ chans' = [chans EXCEPT ![t] = b]
                           /\ chans'[t] = b /\ stage' = [stage EXCEPT ![b] = "range"]
         /\ call[Parser] = NotCalling
         /\ UNCHANGED <<accepted, call, read, queue>>
<1>1. PICK b \in Reg : /\ stage[b] = "unborn" /\ chans' = [chans EXCEPT ![t] = b]
                       /\ stage' = [stage EXCEPT ![b] = "range"]
  BY Zenon DEF Add, IsNew
<1>2. chans'[t] = b
  BY <1>1, CallerIsParser
<1> QED
  BY <1>1, <1>2, Zenon DEF Add, GetsMutex

(* Every step is of one of these kinds. *)
LEMMA KindsOfSteps ==
  ASSUME PInv, [PipelineNext]_allVars
  PROVE  \/ \E t \in Tag : Dispatches(t) \/ Cancels(t)
         \/ Accepted
         \/ Quiet
<1>1. CASE UNCHANGED allVars
  BY <1>1 DEF allVars, vars, pipelineVars, Quiet, Idle
<1>2. ASSUME NEW t \in Tag, DeliverFirst(t) PROVE Dispatches(t)
  <2>1. /\ Idle /\ Len(tagOf) < MaxSend /\ tagOf' = Append(tagOf, t) /\ cancels' = cancels
        /\ chans[t] = NoReg /\ adding' = t /\ Add(Parser, t)
    BY <1>2 DEF DeliverFirst
  <2>2. ~Idle'
    BY <2>1, CallerIsParser DEF Idle
  <2>3. accepted' = accepted /\ \A u \in Tag \ {t} : chans'[u] = chans[u]
    BY <2>1, AddIs, CallerIsParser
  <2> QED
    BY <2>1, <2>2, <2>3 DEF Dispatches
<1>3. ASSUME NEW t \in Tag, DeliverNext(t) PROVE Dispatches(t)
  <2>1. /\ Idle /\ Len(tagOf) < MaxSend /\ tagOf' = Append(tagOf, t) /\ cancels' = cancels
        /\ Send(Parser, t)
    BY <1>3 DEF DeliverNext
  <2>2. ~Idle' /\ accepted' = accepted /\ chans' = chans
    BY <2>1, SendIs DEF Idle
  <2> QED
    BY <2>1, <2>2 DEF Dispatches
<1>4. ASSUME NEW t \in Tag, CancelTag(t) PROVE Cancels(t)
  <2>1. Cancel(Parser, t) /\ Idle /\ cancels' = Append(cancels, <<t, Len(tagOf)>>)
        /\ UNCHANGED <<adding, tagOf>>
    BY <1>4 DEF CancelTag
  <2>2. UNCHANGED <<call, accepted>> /\ chans' = [chans EXCEPT ![t] = NoReg]
    BY <2>1 DEF Cancel, goroutineVars
  <2> QED
    BY <2>1, <2>2 DEF Cancels, Idle
<1>5. CASE SendFirst
  <2>1. adding \in Tag /\ Send(Parser, adding) /\ ~Idle /\ UNCHANGED <<tagOf, cancels>>
    BY <1>5, CallerIsParser DEF SendFirst, Idle
  <2>2. ~Idle' /\ UNCHANGED <<accepted, chans>>
    BY <2>1, SendIs DEF Idle
  <2> QED
    BY <2>1, <2>2 DEF Quiet
<1>6. ASSUME NEW b \in Reg, Buffer(b) \/ Take(b) PROVE Quiet
  <2>1. UNCHANGED <<accepted, chans, call>>
    BY <1>6 DEF Buffer, Take, RangeEnds, SelectInflightEnds, CloseOut, SelectOut
  <2>2. UNCHANGED <<tagOf, cancels, adding>>
    BY <1>6 DEF Buffer, Take, pipelineVars
  <2> QED
    BY <2>1, <2>2 DEF Quiet, Idle
<1>7. ASSUME NEW b \in Reg, PassOn(b) \/ ForwarderEnds(b) PROVE Quiet
  BY <1>7 DEF PassOn, ForwarderEnds, vars, Quiet, Idle
<1>8. CASE Handle
  BY <1>8 DEF Handle, vars, Quiet, Idle
<1> QED
  BY <1>1, <1>2, <1>3, <1>4, <1>5, <1>6, <1>7, <1>8, Zenon DEF PipelineNext

-----------------------------------------------------------------------------
(* What dispatch is busy with.                                             *)

(* A step that leaves the calls, the map and the count as they are. *)
LEMMA SameNumbers ==
  ASSUME PInv, UNCHANGED <<accepted, tagOf, call, adding, chans>> PROVE Numbered'
BY NoMore DEF PInv, Numbered, Idle

(* Every step leaves dispatch busy with the last delivery at most. *)
LEMMA StepNumbered == ASSUME PInv, [PipelineNext]_allVars PROVE Numbered'
<1>1. CASE UNCHANGED allVars
  BY <1>1, SameNumbers DEF allVars, vars, pipelineVars
<1>2. ASSUME NEW t \in Tag, DeliverFirst(t) PROVE Numbered'
  <2>1. /\ Idle /\ tagOf' = Append(tagOf, t) /\ adding' = t /\ Add(Parser, t)
    BY <1>2 DEF DeliverFirst
  <2>2. adding' # NoTag /\ ~Idle'
    BY <2>1, CallerIsParser DEF Idle
  <2>3. /\ Len(tagOf) \in Nat /\ Len(tagOf') = Len(tagOf) + 1
        /\ tagOf'[Len(tagOf')] = t
    BY <2>1, CallerIsParser
  <2>4. Count' = Count /\ call'[Parser] = NotCalling /\ chans'[t] \in Reg
    BY <2>1, AddIs, NoMore, Zenon
  <2>5. Len(tagOf) = Count
    BY <2>1 DEF PInv, Numbered
  <2> QED
    BY <2>1, <2>2, <2>3, <2>4, <2>5, CallerIsParser DEF Numbered
<1>3. ASSUME NEW t \in Tag, DeliverNext(t) PROVE Numbered'
  <2>1. /\ Idle /\ tagOf' = Append(tagOf, t) /\ adding' = adding /\ Send(Parser, t)
    BY <1>3 DEF DeliverNext
  <2>2. adding' = NoTag /\ ~Idle'
    BY <2>1, SendIs DEF Idle
  <2>3. /\ Len(tagOf) \in Nat /\ Len(tagOf') = Len(tagOf) + 1
        /\ tagOf'[Len(tagOf')] = t
    BY <2>1, CallerIsParser
  <2>4. Count' = Count /\ chans' = chans
    BY <2>1, SendIs, NoMore, Zenon
  <2>5. Len(tagOf) = Count
    BY <2>1 DEF PInv, Numbered
  <2>6. call'[Parser] = [op |-> "send", to |-> chans[t], msg |-> Count + 1]
    BY <2>1, SendIs, Zenon
  <2> QED
    BY <2>1, <2>2, <2>3, <2>4, <2>5, <2>6 DEF Numbered
<1>4. ASSUME NEW t \in Tag, CancelTag(t) PROVE Numbered'
  <2>1. Cancel(Parser, t) /\ Idle /\ UNCHANGED <<adding, tagOf>>
    BY <1>4 DEF CancelTag
  <2>2. UNCHANGED <<call, accepted>>
    BY <2>1 DEF Cancel, goroutineVars
  <2> QED
    BY <2>1, <2>2, NoMore DEF PInv, Numbered, Idle
<1>5. CASE SendFirst
  <2>1. /\ adding \in Tag /\ Send(Parser, adding) /\ ~Idle /\ UNCHANGED tagOf
        /\ adding' = NoTag
    BY <1>5, CallerIsParser DEF SendFirst, Idle
  <2>2. ~Idle' /\ Count' = Count /\ chans' = chans
    BY <2>1, SendIs, NoMore DEF Idle
  <2>3. call'[Parser] = [op |-> "send", to |-> chans[adding], msg |-> Count + 1]
    BY <2>1, SendIs, Zenon
  <2>4. adding # NoTag
    BY <2>1, CallerIsParser
  <2>5. Len(tagOf) = Count + 1 /\ tagOf[Len(tagOf)] = adding
    BY <2>1, <2>4 DEF PInv, Numbered
  <2> QED
    BY <2>1, <2>2, <2>3, <2>5 DEF Numbered
<1>6. CASE Accepted
  <2>1. Count' = Count + 1
    BY <1>6, AcceptedCounts
  <2>2. Len(tagOf) = Count + 1
    BY <1>6, AcceptedIs DEF PInv, Numbered
  <2> QED
    BY <1>6, <2>1, <2>2, AcceptedIs DEF Numbered, Idle
<1>7. ASSUME NEW b \in Reg, Buffer(b) \/ Take(b) PROVE Numbered'
  <2>1. UNCHANGED <<accepted, chans, call, tagOf, adding>>
    BY <1>7 DEF Buffer, Take, RangeEnds, SelectInflightEnds, CloseOut, SelectOut, pipelineVars
  <2> QED
    BY <2>1, SameNumbers, Zenon
<1>8. ASSUME NEW b \in Reg, PassOn(b) \/ ForwarderEnds(b) PROVE Numbered'
  BY <1>8, SameNumbers DEF PassOn, ForwarderEnds, vars
<1>9. CASE Handle
  BY <1>9, SameNumbers DEF Handle, vars
<1> QED
  BY <1>1, <1>2, <1>3, <1>4, <1>5, <1>6, <1>7, <1>8, <1>9, Zenon DEF PipelineNext

-----------------------------------------------------------------------------
(* Who got what, in which order.                                           *)

(* The elements of a sequence with one more. *)
LEMMA LongerIs ==
  ASSUME NEW S, NEW s \in Seq(S), NEW e, NEW r, r = Append(s, e)
  PROVE  /\ Len(s) \in Nat /\ Len(r) = Len(s) + 1
         /\ DOMAIN s = 1 .. Len(s) /\ DOMAIN r = 1 .. Len(s) + 1
         /\ \A i \in DOMAIN s : i \in DOMAIN r /\ r[i] = s[i]
         /\ \A i \in DOMAIN r : i \notin DOMAIN s => i = Len(s) + 1
         /\ r[Len(s) + 1] = e
OBVIOUS

(* Every step keeps deliveries in order, and of one registration each. *)
LEMMA StepSorted == ASSUME PInv, [PipelineNext]_allVars PROVE Sorted'
<1>1. CASE accepted' = accepted
  BY <1>1, NoMore DEF PInv, Sorted
<1>2. CASE Accepted
  <2>1. PICK m \in Msg, b \in Reg :
          m = Len(tagOf) /\ m = Count + 1 /\ b = chans[tagOf[Len(tagOf)]]
    BY <1>2, AcceptedIs, BusyIs, Zenon
  <2>2. PICK longer : longer = Append(accepted[b], m)
    BY Zenon
  <2>3. accepted \in [Reg -> Seq(Msg)] /\ accepted' = [accepted EXCEPT ![b] = longer]
    BY <1>2, <2>1, <2>2, AcceptedIs DEF PInv, IInv, TypeOK
  <2>4. accepted'[b] = longer /\ \A a \in Reg \ {b} : accepted'[a] = accepted[a]
    BY <2>3
  <2>5. /\ Len(accepted[b]) \in Nat /\ Len(longer) = Len(accepted[b]) + 1
        /\ DOMAIN accepted[b] = 1 .. Len(accepted[b])
        /\ DOMAIN longer = 1 .. Len(accepted[b]) + 1
        /\ \A i \in DOMAIN accepted[b] : i \in DOMAIN longer /\ longer[i] = accepted[b][i]
        /\ \A i \in DOMAIN longer : i \notin DOMAIN accepted[b] => i = Len(accepted[b]) + 1
        /\ longer[Len(accepted[b]) + 1] = m
    BY <2>2, <2>3, LongerIs
  <2>6. Count' = Count + 1 /\ Count \in Nat
        /\ \A a \in Reg, x \in Msg : In(x, a)' <=> In(x, a) \/ (a = b /\ x = m)
    BY <1>2, <2>1, AcceptedCounts, SlotsAreFinite
  <2>7. /\ \A a \in Reg : \A i, j \in DOMAIN accepted[a] : i < j => accepted[a][i] < accepted[a][j]
        /\ \A a \in Reg : \A i \in DOMAIN accepted[a] : accepted[a][i] \in 1 .. Count
        /\ \A a \in Reg : Len(accepted[a]) <= Count
        /\ \A a, d \in Reg : \A x \in Msg : In(x, a) /\ In(x, d) => a = d
    BY DEF PInv, Sorted
  <2>8. \A a \in Reg : \A i, j \in DOMAIN accepted'[a] : i < j => accepted'[a][i] < accepted'[a][j]
    <3>1. \A i, j \in DOMAIN longer : i < j => longer[i] < longer[j]
      <4> SUFFICES ASSUME NEW i \in DOMAIN longer, NEW j \in DOMAIN longer, i < j
                   PROVE  longer[i] < longer[j]
        OBVIOUS
      <4>1. i \in DOMAIN accepted[b] /\ longer[i] = accepted[b][i] /\ longer[i] \in 1 .. Count
        BY <2>5, <2>7
      <4>2. CASE j \in DOMAIN accepted[b]
        BY <2>5, <2>7, <4>1, <4>2
      <4>3. CASE j \notin DOMAIN accepted[b]
        <5>1. longer[j] = m
          BY <2>5, <4>3
        <5> QED
          BY <2>1, <2>6, <4>1, <5>1
      <4> QED
        BY <4>2, <4>3
    <3> QED
      BY <2>4, <2>7, <3>1
  <2>9. \A a \in Reg : \A i \in DOMAIN accepted'[a] : accepted'[a][i] \in 1 .. Count'
    <3>1. \A i \in DOMAIN longer : longer[i] \in 1 .. Count + 1
      BY <2>1, <2>5, <2>6, <2>7
    <3>2. \A a \in Reg : \A i \in DOMAIN accepted[a] : accepted[a][i] \in 1 .. Count + 1
      BY <2>6, <2>7
    <3> QED
      BY <2>4, <2>6, <3>1, <3>2
  <2>10. \A a \in Reg : Len(accepted'[a]) <= Count'
    <3>1. \A a \in Reg : Len(accepted[a]) \in Nat
      BY <2>3
    <3> QED
      BY <2>4, <2>5, <2>6, <2>7, <3>1
  <2>11. \A a \in Reg : ~In(m, a)
    <3> SUFFICES ASSUME NEW a \in Reg, In(m, a) PROVE FALSE
      OBVIOUS
    <3>1. PICK i \in DOMAIN accepted[a] : accepted[a][i] = m
      BY Zenon DEF In
    <3> QED
      BY <2>1, <2>6, <2>7, <3>1
  <2>12. \A a, d \in Reg : \A x \in Msg : In(x, a)' /\ In(x, d)' => a = d
    BY <2>6, <2>7, <2>11, Zenon
  <2> QED
    BY <2>8, <2>9, <2>10, <2>12, Zenon DEF Sorted
<1> QED
  BY <1>1, <1>2, KindsOfSteps DEF Dispatches, Cancels, Quiet

-----------------------------------------------------------------------------
(* Cancellations.                                                          *)

(* The histories grow at their ends. *)
LEMMA HistoriesGrow ==
  ASSUME PInv, [PipelineNext]_allVars
  PROVE  /\ tagOf \in Seq(Tag) /\ Len(tagOf) \in Nat /\ DOMAIN tagOf = 1 .. Len(tagOf)
         /\ \A m \in DOMAIN tagOf : m \in DOMAIN tagOf' /\ tagOf'[m] = tagOf[m]
         /\ \A n \in DOMAIN cancels : n \in DOMAIN cancels' /\ cancels'[n] = cancels[n]
<1>1. /\ tagOf \in Seq(Tag) /\ Len(tagOf) \in Nat /\ DOMAIN tagOf = 1 .. Len(tagOf)
      /\ cancels \in Seq(Tag \X (0 .. MaxSend))
  BY CallerIsParser
<1>2. CASE UNCHANGED <<tagOf, cancels>>
  BY <1>1, <1>2
<1>3. ASSUME NEW t \in Tag, Dispatches(t)
      PROVE  /\ \A m \in DOMAIN tagOf : m \in DOMAIN tagOf' /\ tagOf'[m] = tagOf[m]
             /\ \A n \in DOMAIN cancels : n \in DOMAIN cancels' /\ cancels'[n] = cancels[n]
  BY <1>1, <1>3, LongerIs DEF Dispatches
<1>4. ASSUME NEW t \in Tag, Cancels(t)
      PROVE  /\ \A m \in DOMAIN tagOf : m \in DOMAIN tagOf' /\ tagOf'[m] = tagOf[m]
             /\ \A n \in DOMAIN cancels : n \in DOMAIN cancels' /\ cancels'[n] = cancels[n]
  BY <1>1, <1>4, LongerIs DEF Cancels
<1>5. Accepted \/ Quiet => UNCHANGED <<tagOf, cancels>>
  BY AcceptedIs DEF Quiet
<1> QED
  BY <1>1, <1>2, <1>3, <1>4, <1>5, KindsOfSteps, Zenon

(* A cancellation is not forgotten, and counts for later deliveries too.  *)
LEMMA StillCancelled ==
  ASSUME PInv, [PipelineNext]_allVars,
         NEW m \in DOMAIN tagOf, NEW k \in Nat, NEW l \in Nat, k <= l, CancelledSince(m, k)
  PROVE  CancelledSince(m, l)'
<1>1. PICK n \in DOMAIN cancels :
        cancels[n][1] = tagOf[m] /\ m <= cancels[n][2] /\ cancels[n][2] < k
  BY Zenon DEF CancelledSince
<1>2. tagOf'[m] = tagOf[m] /\ n \in DOMAIN cancels' /\ cancels'[n] = cancels[n]
  BY HistoriesGrow, Zenon
<1>3. cancels[n][2] \in 0 .. MaxSend /\ MaxSend \in Nat
  BY CallerIsParser, ConsumersAssumption
<1> QED
  BY <1>1, <1>2, <1>3 DEF CancelledSince

(* A delivery that was accepted is one of those dispatched. *)
LEMMA AcceptedWasDispatched ==
  ASSUME PInv, NEW b \in Reg, NEW m \in Msg, In(m, b)
  PROVE  /\ m \in DOMAIN tagOf /\ m <= Count /\ m <= Len(tagOf)
         /\ ~Idle => m < Len(tagOf)
         /\ tagOf[m] \in Tag
<1>1. PICK i \in DOMAIN accepted[b] : accepted[b][i] = m
  BY Zenon DEF In
<1>2. m \in 1 .. Count
  BY <1>1 DEF PInv, Sorted
<1>3. Count \in Nat /\ (Len(tagOf) = IF Idle THEN Count ELSE Count + 1)
  BY SlotsAreFinite DEF PInv, Numbered
<1> QED
  BY <1>2, <1>3, CallerIsParser

(* The conjuncts of Parted. *)
LEMMA PartedIs ==
  PInv => /\ \A n \in DOMAIN cancels : cancels[n][2] <= Len(tagOf)
          /\ \A b \in Reg : \A m \in Msg :
               In(m, b) /\ chans[tagOf[m]] # b => CancelledSoFar(m)
          /\ \A a, b \in Reg : \A m, k \in Msg :
               In(m, a) /\ In(k, b) /\ a # b /\ m < k /\ tagOf[m] = tagOf[k] =>
                 CancelledSince(m, k)
          /\ ~Idle => \A b \in Reg : \A m \in Msg :
               In(m, b) /\ tagOf[m] = tagOf[Len(tagOf)] /\ chans[tagOf[m]] # b =>
                 CancelledBeforeLast(m)
BY DEF PInv, Parted

(* Where nothing is accepted, old deliveries stay parted as they were. *)
LEMMA PairsStayParted ==
  ASSUME PInv, [PipelineNext]_allVars, accepted' = accepted
  PROVE  \A a, b \in Reg : \A m, k \in Msg :
           In(m, a)' /\ In(k, b)' /\ a # b /\ m < k /\ tagOf'[m] = tagOf'[k] =>
             CancelledSince(m, k)'
<1> SUFFICES ASSUME NEW a \in Reg, NEW b \in Reg, NEW m \in Msg, NEW k \in Msg,
                    In(m, a)', In(k, b)', a # b, m < k, tagOf'[m] = tagOf'[k]
             PROVE  CancelledSince(m, k)'
  BY Zenon
<1>1. In(m, a) /\ In(k, b)
  BY NoMore
<1>2. m \in DOMAIN tagOf /\ k \in DOMAIN tagOf
  BY <1>1, AcceptedWasDispatched
<1>3. tagOf[m] = tagOf[k]
  BY <1>2, HistoriesGrow
<1>4. CancelledSince(m, k)
  BY <1>1, <1>3, PartedIs, Zenon
<1>5. k \in Nat /\ k <= k
  BY DEF Msg
<1> QED
  BY <1>2, <1>4, <1>5, StillCancelled, Zenon

(* A delivery is dispatched. *)
LEMMA DispatchParts ==
  ASSUME PInv, [PipelineNext]_allVars, NEW t \in Tag, Dispatches(t) PROVE Parted'
<1>1. /\ Len(tagOf') = Len(tagOf) + 1 /\ Len(tagOf) \in Nat /\ tagOf'[Len(tagOf')] = t
      /\ accepted' = accepted /\ cancels' = cancels
  BY CallerIsParser DEF Dispatches
<1>2. \A n \in DOMAIN cancels' : cancels'[n][2] <= Len(tagOf')
  <2>1. \A n \in DOMAIN cancels : cancels[n][2] <= Len(tagOf) /\ cancels[n][2] \in 0 .. MaxSend
    BY CallerIsParser, PartedIs
  <2> QED
    BY <1>1, <2>1, ConsumersAssumption
<1>3. ASSUME NEW b \in Reg, NEW m \in Msg, In(m, b)', chans'[tagOf'[m]] # b
      PROVE  CancelledSoFar(m) /\ m \in DOMAIN tagOf
  <2>1. In(m, b)
    BY <1>1, <1>3, NoMore
  <2>2. m \in DOMAIN tagOf /\ tagOf[m] \in Tag /\ tagOf'[m] = tagOf[m]
    BY <2>1, AcceptedWasDispatched, HistoriesGrow
  <2>3. chans[tagOf[m]] # b
    BY <1>3, <2>2, CallerIsParser DEF Dispatches
  <2> QED
    BY <2>1, <2>2, <2>3, PartedIs
<1>4. ASSUME NEW b \in Reg, NEW m \in Msg, In(m, b)', chans'[tagOf'[m]] # b
      PROVE  CancelledBeforeLast(m)' /\ CancelledSoFar(m)'
  <2>1. CancelledSoFar(m) /\ m \in DOMAIN tagOf
    BY <1>3, <1>4
  <2>2. PICK k \in Nat, l \in Nat : k = Len(tagOf) + 1 /\ l = k + 1 /\ k <= l /\ k <= k
    BY <1>1
  <2>3. CancelledSince(m, k)
    BY <2>1, <2>2 DEF CancelledSoFar
  <2>4. CancelledSince(m, k)' /\ CancelledSince(m, l)'
    BY <2>1, <2>2, <2>3, StillCancelled
  <2> QED
    BY <1>1, <2>2, <2>4 DEF CancelledSince, CancelledSoFar, CancelledBeforeLast
<1> QED
  BY <1>1, <1>2, <1>4, PairsStayParted, Zenon DEF Parted

(* Without a new delivery, what was cancelled so far still is. *)
LEMMA SoFarStays ==
  ASSUME PInv, [PipelineNext]_allVars, tagOf' = tagOf, NEW m \in DOMAIN tagOf, CancelledSoFar(m)
  PROVE  CancelledSoFar(m)'
<1>1. PICK k \in Nat : k = Len(tagOf) + 1 /\ k <= k
  BY CallerIsParser
<1>2. CancelledSince(m, k)'
  BY <1>1, StillCancelled DEF CancelledSoFar
<1> QED
  BY <1>1, <1>2 DEF CancelledSoFar, CancelledSince

(* A cancellation is dispatched. *)
LEMMA CancelParts ==
  ASSUME PInv, [PipelineNext]_allVars, NEW t \in Tag, Cancels(t) PROVE Parted'
<1>1. /\ Idle /\ Idle' /\ accepted' = accepted /\ tagOf' = tagOf
      /\ cancels \in Seq(Tag \X (0 .. MaxSend)) /\ tagOf \in Seq(Tag) /\ Len(tagOf) \in Nat
  BY CallerIsParser DEF Cancels
<1>2. PICK c : c = <<t, Len(tagOf)>>
  BY Zenon
<1>3. cancels' = Append(cancels, c) /\ c[1] = t /\ c[2] = Len(tagOf)
  BY <1>2 DEF Cancels
<1>4. PICK n : n = Len(cancels) + 1
  BY Zenon
<1>5. /\ n \in DOMAIN cancels' /\ cancels'[n] = c
      /\ \A i \in DOMAIN cancels' : i = n \/ (i \in DOMAIN cancels /\ cancels'[i] = cancels[i])
  BY <1>1, <1>3, <1>4
<1>6. \A i \in DOMAIN cancels' : cancels'[i][2] <= Len(tagOf')
  BY <1>1, <1>3, <1>5, PartedIs
<1>7. ASSUME NEW b \in Reg, NEW m \in Msg, In(m, b)', chans'[tagOf'[m]] # b
      PROVE  CancelledSoFar(m)'
  <2>1. In(m, b) /\ m \in DOMAIN tagOf /\ m <= Len(tagOf) /\ tagOf[m] \in Tag
    BY <1>1, <1>7, NoMore, AcceptedWasDispatched
  <2>2. CASE chans[tagOf[m]] # b
    BY <1>1, <2>1, <2>2, PartedIs, SoFarStays
  <2>3. CASE chans[tagOf[m]] = b
    <3>1. tagOf[m] = t
      BY <1>1, <1>7, <2>1, <2>3, CallerIsParser DEF Cancels
    <3> QED
      BY <1>1, <1>3, <1>5, <2>1, <3>1 DEF CancelledSoFar, CancelledSince
  <2> QED
    BY <2>2, <2>3
<1> QED
  BY <1>1, <1>6, <1>7, PairsStayParted, Zenon DEF Parted

(* A delivery is accepted. *)
LEMMA AcceptParts ==
  ASSUME PInv, [PipelineNext]_allVars, Accepted PROVE Parted'
<1>1. PICK l \in Msg, d \in Reg : l = Len(tagOf) /\ d = chans[tagOf[l]]
  BY AcceptedIs, BusyIs, Zenon
<1>2. ~Idle /\ Idle' /\ UNCHANGED <<tagOf, chans, cancels>>
  BY AcceptedIs, Zenon
<1>3. \A a \in Reg, x \in Msg : In(x, a)' <=> In(x, a) \/ (a = d /\ x = l)
  BY <1>1, AcceptedCounts, Zenon
<1>4. \A m, k : CancelledSince(m, k)' <=> CancelledSince(m, k)
  BY <1>2 DEF CancelledSince
<1>5. \A n \in DOMAIN cancels' : cancels'[n][2] <= Len(tagOf')
  BY <1>2, PartedIs
<1>6. ASSUME NEW b \in Reg, NEW m \in Msg, In(m, b)', chans'[tagOf'[m]] # b
      PROVE  CancelledSoFar(m)'
  <2>1. In(m, b)
    BY <1>1, <1>2, <1>3, <1>6
  <2>2. m \in DOMAIN tagOf
    BY <2>1, AcceptedWasDispatched
  <2> QED
    BY <1>2, <1>6, <2>1, <2>2, PartedIs, SoFarStays
<1>7. ASSUME NEW a \in Reg, NEW b \in Reg, NEW m \in Msg, NEW k \in Msg,
             In(m, a)', In(k, b)', a # b, m < k, tagOf'[m] = tagOf'[k]
      PROVE  CancelledSince(m, k)'
  <2>1. tagOf[m] = tagOf[k]
    BY <1>2, <1>7
  <2>2. CASE In(m, a) /\ In(k, b)
    BY <1>4, <1>7, <2>1, <2>2, PartedIs, Zenon
  <2>3. CASE k = l /\ b = d /\ In(m, a)
    <3>1. tagOf[m] = tagOf[Len(tagOf)] /\ chans[tagOf[m]] # a
      BY <1>1, <1>7, <2>1, <2>3
    <3>2. CancelledBeforeLast(m)
      BY <1>2, <2>3, <3>1, PartedIs, Zenon
    <3> QED
      BY <1>1, <1>4, <2>3, <3>2 DEF CancelledBeforeLast
  <2>4. CASE m = l /\ In(k, b)
    <3>1. k < Len(tagOf)
      BY <1>2, <2>4, AcceptedWasDispatched
    <3> QED
      BY <1>1, <1>7, <2>4, <3>1 DEF Msg
  <2>5. \/ In(m, a) /\ In(k, b)
        \/ k = l /\ b = d /\ In(m, a)
        \/ m = l /\ In(k, b)
        \/ a = d /\ b = d
    BY <1>3, <1>7
  <2> QED
    BY <1>7, <2>2, <2>3, <2>4, <2>5, Zenon
<1> QED
  BY <1>2, <1>5, <1>6, <1>7, Zenon DEF Parted

(* Every step keeps registrations of one tag parted by cancellations. *)
LEMMA StepParted == ASSUME PInv, [PipelineNext]_allVars PROVE Parted'
<1>1. CASE Quiet
  <2>1. UNCHANGED <<accepted, tagOf, chans, cancels>> /\ (Idle' <=> Idle)
    BY <1>1 DEF Quiet
  <2>2. \A m, b : In(m, b)' <=> In(m, b)
    BY <2>1, NoMore
  <2>3. \A m, k : CancelledSince(m, k)' <=> CancelledSince(m, k)
    BY <2>1 DEF CancelledSince
  <2>4. \A m : /\ CancelledSoFar(m)' <=> CancelledSoFar(m)
               /\ CancelledBeforeLast(m)' <=> CancelledBeforeLast(m)
    BY <2>1 DEF CancelledSince, CancelledSoFar, CancelledBeforeLast
  <2>5. Parted
    BY DEF PInv
  <2> QED
    BY <2>1, <2>2, <2>3, <2>4, <2>5 DEF Parted
<1> QED
  BY <1>1, KindsOfSteps, DispatchParts, CancelParts, AcceptParts, Zenon

-----------------------------------------------------------------------------
(* What forwarders hold and have passed on.                                *)

(* The types of what forwarders and handleMsg work with. *)
LEMMA FlowTypes ==
  PInv => /\ forwarder \in [Reg -> {"none", "ranging", "holding", "ended"}]
          /\ held \in [Reg -> Msg \cup {NoMsg}] /\ NoMsg \notin Msg
          /\ chMsg \in Seq(Msg) /\ handled \in Seq(Msg) /\ Passed \in Seq(Msg)
          /\ accepted \in [Reg -> Seq(Msg)] /\ read \in [Reg -> Seq(Msg)]
          /\ queue \in [Reg -> Seq(Msg)]
<1>1. ASSUME handled \in Seq(Msg), chMsg \in Seq(Msg) PROVE Passed \in Seq(Msg)
  BY <1>1 DEF Passed
<1> QED
  BY <1>1, PipelineAssumption DEF PInv, PipelineTypeOK, IInv, TypeOK

(* The conjuncts of Flowing. *)
LEMMA FlowingIs ==
  PInv => /\ \A b \in Reg : forwarder[b] = "holding" <=> held[b] # NoMsg
          /\ \A b \in Reg : held[b] # NoMsg => ReadFrom(held[b], b)
          /\ \A i \in DOMAIN Passed : \E b \in Reg : ReadFrom(Passed[i], b)
          /\ \A b \in Reg : held[b] # NoMsg =>
               \A i \in DOMAIN Passed : In(Passed[i], b) => Passed[i] < held[b]
          /\ \A b \in Reg : \A i, j \in DOMAIN Passed :
               i < j /\ In(Passed[i], b) /\ In(Passed[j], b) => Passed[i] < Passed[j]
BY DEF PInv, Flowing

(* What was read from a registration was accepted by it, and by no other. *)
LEMMA ReadFromIs ==
  ASSUME PInv, NEW b \in Reg, NEW m, ReadFrom(m, b)
  PROVE  m \in Msg /\ In(m, b) /\ m <= Count /\ \A a \in Reg : In(m, a) => a = b
<1>1. PICK j \in DOMAIN read[b] : read[b][j] = m
  BY Zenon DEF ReadFrom
<1>2. j \in DOMAIN accepted[b] /\ accepted[b][j] = m /\ accepted[b] \in Seq(Msg)
  BY <1>1, ReadIs DEF PInv
<1>3. m \in Msg /\ In(m, b)
  BY <1>2 DEF In
<1> QED
  BY <1>3, AcceptedWasDispatched DEF PInv, Sorted

(* What a buffer goroutine hands over is behind all that was read from it. *)
LEMMA NextIsLater ==
  ASSUME PInv, NEW b \in Reg, stage[b] = "select"
  PROVE  /\ queue[b] # <<>> /\ Head(queue[b]) \in Msg
         /\ \A m : ReadFrom(m, b) => m < Head(queue[b])
<1>1. queue[b] # <<>> /\ Head(queue[b]) \in Msg
  BY FlowTypes, HeadMovesOver DEF PInv, IInv, Placed
<1>2. ASSUME NEW m, ReadFrom(m, b) PROVE m < Head(queue[b])
  <2>1. PICK j \in DOMAIN read[b] : read[b][j] = m
    BY <1>2, Zenon DEF ReadFrom
  <2>2. /\ read[b] \in Seq(Msg) /\ j \in DOMAIN accepted[b] /\ accepted[b][j] = m
        /\ Len(read[b]) + 1 \in DOMAIN accepted[b]
        /\ accepted[b][Len(read[b]) + 1] = Head(queue[b])
    BY <2>1, ReadIs DEF PInv
  <2>3. j < Len(read[b]) + 1
    BY <2>1, <2>2
  <2> QED
    BY <2>2, <2>3 DEF PInv, Sorted
<1> QED
  BY <1>1, <1>2

(* A step that forwarders and handleMsg do not notice: nothing is read,    *)
(* held or passed on, and what is accepted was not passed on before.       *)
LEMMA FlowStays ==
  ASSUME PInv, UNCHANGED <<held, read, Passed>>,
         \A b \in Reg : forwarder'[b] = "holding" <=> forwarder[b] = "holding",
         \A b \in Reg : \A i \in DOMAIN Passed : In(Passed[i], b)' => In(Passed[i], b)
  PROVE  Flowing'
<1>1. \A b, m : ReadFrom(m, b)' <=> ReadFrom(m, b)
  BY DEF ReadFrom
<1>2. \A b \in Reg : held'[b] # NoMsg => ReadFrom(held[b], b)'
  BY <1>1, FlowingIs
<1>3. \A i \in DOMAIN Passed' : \E b \in Reg : ReadFrom(Passed[i], b)'
  BY <1>1, FlowingIs
<1> QED
  BY <1>2, <1>3, FlowingIs DEF Flowing

(* A forwarder takes a delivery: the next of its registration. *)
LEMMA TakeFlows ==
  ASSUME PInv, NEW b \in Reg, Take(b) PROVE Flowing'
<1>1. PICK m : m = Head(queue[b])
  BY Zenon
<1>2. /\ forwarder' = [forwarder EXCEPT ![b] = "holding"] /\ held' = [held EXCEPT ![b] = m]
      /\ read' = [read EXCEPT ![b] = Append(read[b], m)]
      /\ UNCHANGED <<handled, chMsg, accepted>>
      /\ stage[b] = "select" /\ forwarder[b] = "ranging"
  BY <1>1 DEF Take, SelectOut
<1>3. m \in Msg /\ \A x : ReadFrom(x, b) => x < m
  BY <1>1, <1>2, NextIsLater
<1>4. /\ forwarder'[b] = "holding" /\ held'[b] = m /\ m # NoMsg
      /\ \A a \in Reg \ {b} : forwarder'[a] = forwarder[a] /\ held'[a] = held[a] /\ read'[a] = read[a]
  BY <1>2, <1>3, FlowTypes
<1>5. \A a \in Reg : \A x : ReadFrom(x, a) => ReadFrom(x, a)'
  <2> SUFFICES ASSUME NEW a \in Reg, NEW x, ReadFrom(x, a) PROVE ReadFrom(x, a)'
    BY Zenon
  <2>1. CASE a # b
    BY <1>4, <2>1 DEF ReadFrom
  <2>2. CASE a = b
    <3>1. PICK j \in DOMAIN read[b] : read[b][j] = x
      BY <2>2, Zenon DEF ReadFrom
    <3>2. PICK longer : longer = Append(read[b], m)
      BY Zenon
    <3>3. j \in DOMAIN longer /\ longer[j] = x
      BY <3>1, <3>2, LongerIs, FlowTypes
    <3>4. read'[b] = longer
      BY <1>2, <3>2, FlowTypes
    <3> QED
      BY <2>2, <3>3, <3>4, Zenon DEF ReadFrom
  <2> QED
    BY <2>1, <2>2
<1>6. ReadFrom(m, b)'
  <2>1. PICK longer : longer = Append(read[b], m)
    BY Zenon
  <2>2. Len(read[b]) + 1 \in DOMAIN longer /\ longer[Len(read[b]) + 1] = m
    BY <2>1, LongerIs, FlowTypes
  <2>3. read'[b] = longer
    BY <1>2, <2>1, FlowTypes
  <2> QED
    BY <2>2, <2>3, Zenon DEF ReadFrom
<1>7. Passed' = Passed
  BY <1>2 DEF Passed
<1>8. \A a, x : In(x, a)' <=> In(x, a)
  BY <1>2, NoMore
<1>9. \A a \in Reg : held'[a] # NoMsg => ReadFrom(held[a], a)'
  <2>1. ASSUME NEW a \in Reg, a # b, held'[a] # NoMsg PROVE ReadFrom(held[a], a)'
    <3>1. PICK x : x = held[a] /\ x = held'[a]
      BY <1>4, <2>1
    <3>2. ReadFrom(x, a)
      BY <2>1, <3>1, FlowingIs, Zenon
    <3> QED
      BY <1>5, <3>1, <3>2 DEF ReadFrom
  <2>2. ReadFrom(held[b], b)'
    BY <1>4, <1>6 DEF ReadFrom
  <2> QED
    BY <2>1, <2>2, Zenon
<1>10. \A i \in DOMAIN Passed' : \E a \in Reg : ReadFrom(Passed[i], a)'
  <2> SUFFICES ASSUME NEW i \in DOMAIN Passed PROVE \E a \in Reg : ReadFrom(Passed[i], a)'
    BY <1>7, Zenon
  <2>1. PICK x : x = Passed[i] /\ x = Passed'[i]
    BY <1>7
  <2>2. PICK a \in Reg : ReadFrom(x, a)
    BY <2>1, FlowingIs, Zenon
  <2> QED
    BY <1>5, <2>1, <2>2 DEF ReadFrom
<1>11. \A a \in Reg : held'[a] # NoMsg =>
         \A i \in DOMAIN Passed' : In(Passed[i], a)' => Passed'[i] < held'[a]
  <2> SUFFICES ASSUME NEW a \in Reg, held'[a] # NoMsg, NEW i \in DOMAIN Passed, In(Passed[i], a)'
               PROVE  Passed'[i] < held'[a]
    BY <1>7, Zenon
  <2>1. In(Passed[i], a)
    BY <1>7, <1>8
  <2>2. CASE a # b
    BY <1>4, <1>7, <2>1, <2>2, FlowingIs
  <2>3. CASE a = b
    <3>1. PICK d \in Reg : ReadFrom(Passed[i], d)
      BY FlowingIs, Zenon
    <3>2. d = b
      BY <2>1, <2>3, <3>1, ReadFromIs
    <3> QED
      BY <1>3, <1>4, <1>7, <2>3, <3>1, <3>2
  <2> QED
    BY <2>2, <2>3
<1>12. \A a \in Reg : forwarder'[a] = "holding" <=> held'[a] # NoMsg
  BY <1>4, FlowingIs
<1> QED
  BY <1>7, <1>8, <1>9, <1>10, <1>11, <1>12, FlowingIs DEF Flowing

(* A forwarder passes on what it holds, behind all it has passed on. *)
LEMMA PassOnFlows ==
  ASSUME PInv, NEW b \in Reg, PassOn(b) PROVE Flowing'
<1>1. PICK m : m = held[b]
  BY Zenon
<1>2. /\ forwarder[b] = "holding" /\ chMsg' = Append(chMsg, m)
      /\ forwarder' = [forwarder EXCEPT ![b] = "ranging"]
      /\ held' = [held EXCEPT ![b] = NoMsg]
      /\ UNCHANGED <<accepted, read, handled>>
  BY <1>1 DEF PassOn, vars
<1>3. m # NoMsg /\ ReadFrom(m, b)
  BY <1>1, <1>2, FlowingIs, Zenon
<1>4. m \in Msg /\ In(m, b) /\ \A a \in Reg : In(m, a) => a = b
  BY <1>3, ReadFromIs, Zenon
<1>5. Passed' = Append(Passed, m)
  BY <1>2, <1>4, FlowTypes, AppendAtEnd, Zenon DEF Passed
<1>6. /\ Len(Passed) \in Nat
      /\ DOMAIN Passed = 1 .. Len(Passed) /\ DOMAIN Passed' = 1 .. Len(Passed) + 1
      /\ \A i \in DOMAIN Passed : i \in DOMAIN Passed' /\ Passed'[i] = Passed[i]
      /\ \A i \in DOMAIN Passed' : i \notin DOMAIN Passed => i = Len(Passed) + 1
      /\ Passed'[Len(Passed) + 1] = m
  BY <1>5, FlowTypes, LongerIs
<1>7. /\ forwarder'[b] = "ranging" /\ held'[b] = NoMsg
      /\ \A a \in Reg \ {b} : forwarder'[a] = forwarder[a] /\ held'[a] = held[a]
  BY <1>2, FlowTypes
<1>8. /\ \A a, x : In(x, a)' <=> In(x, a)
      /\ \A a, x : ReadFrom(x, a)' <=> ReadFrom(x, a)
  BY <1>2, NoMore DEF ReadFrom
<1>9. \A a \in Reg : held'[a] # NoMsg => ReadFrom(held[a], a)'
  <2> SUFFICES ASSUME NEW a \in Reg, held'[a] # NoMsg PROVE ReadFrom(held[a], a)'
    BY Zenon
  <2>1. held'[a] = held[a]
    BY <1>7
  <2> QED
    BY <1>2, <2>1, FlowingIs DEF ReadFrom
<1>10. \A i \in DOMAIN Passed' : \E a \in Reg : ReadFrom(Passed[i], a)'
  <2> SUFFICES ASSUME NEW i \in DOMAIN Passed' PROVE \E a \in Reg : ReadFrom(Passed[i], a)'
    BY Zenon
  <2>1. PICK x : x = Passed'[i]
    BY Zenon
  <2>2. \E a \in Reg : ReadFrom(x, a)
    BY <1>3, <1>6, <2>1, FlowingIs
  <2> QED
    BY <1>2, <2>1, <2>2 DEF ReadFrom
<1>11. \A a \in Reg : held'[a] # NoMsg =>
         \A i \in DOMAIN Passed' : In(Passed[i], a)' => Passed'[i] < held'[a]
  <2> SUFFICES ASSUME NEW a \in Reg, held'[a] # NoMsg, NEW i \in DOMAIN Passed', In(Passed[i], a)'
               PROVE  Passed'[i] < held'[a]
    BY Zenon
  <2>1. PICK x : x = Passed'[i]
    BY Zenon
  <2>2. In(x, a) /\ a # b /\ held'[a] = held[a]
    BY <1>7, <1>8, <2>1
  <2>3. i \in DOMAIN Passed /\ x = Passed[i]
    BY <1>4, <1>6, <2>1, <2>2
  <2> QED
    BY <2>1, <2>2, <2>3, FlowingIs
<1>12. \A a \in Reg : \A i, j \in DOMAIN Passed' :
         i < j /\ In(Passed[i], a)' /\ In(Passed[j], a)' => Passed'[i] < Passed'[j]
  <2> SUFFICES ASSUME NEW a \in Reg, NEW i \in DOMAIN Passed', NEW j \in DOMAIN Passed', i < j,
                      In(Passed[i], a)', In(Passed[j], a)'
               PROVE  Passed'[i] < Passed'[j]
    BY Zenon
  <2>1. PICK x, y : x = Passed'[i] /\ y = Passed'[j]
    BY Zenon
  <2>2. In(x, a) /\ In(y, a)
    BY <1>8, <2>1
  <2>3. i \in DOMAIN Passed /\ x = Passed[i]
    BY <1>6, <2>1
  <2>4. CASE j \in DOMAIN Passed
    BY <1>6, <2>1, <2>2, <2>3, <2>4, FlowingIs
  <2>5. CASE j \notin DOMAIN Passed
    <3>1. y = m /\ a = b
      BY <1>4, <1>6, <2>1, <2>2, <2>5
    <3> QED
      BY <1>1, <1>3, <2>1, <2>2, <2>3, <3>1, FlowingIs
  <2> QED
    BY <2>4, <2>5
<1>13. \A a \in Reg : forwarder'[a] = "holding" <=> held'[a] # NoMsg
  BY <1>7, FlowingIs
<1> QED
  BY <1>9, <1>10, <1>11, <1>12, <1>13, Zenon DEF Flowing

(* Every step keeps what flows in order. *)
LEMMA StepFlowing == ASSUME PInv, [PipelineNext]_allVars PROVE Flowing'
<1>1. ASSUME UNCHANGED <<held, read, Passed, forwarder, accepted>> PROVE Flowing'
  BY <1>1, FlowStays, NoMore
<1>2. CASE UNCHANGED allVars
  BY <1>1, <1>2 DEF allVars, vars, pipelineVars, Passed
<1>3. ASSUME NEW t \in Tag, DeliverFirst(t) PROVE Flowing'
  <2>1. Add(Parser, t) /\ UNCHANGED <<held, chMsg, handled>>
        /\ forwarder' = [forwarder EXCEPT ![chans'[t]] = "ranging"]
    BY <1>3 DEF DeliverFirst
  <2>2. PICK b \in Reg : stage[b] = "unborn" /\ chans'[t] = b /\ UNCHANGED <<accepted, read>>
    BY <2>1, AddIs
  <2>3. read[b] = <<>>
    BY <2>2 DEF PInv, IInv, Placed
  <2>4. \A m : ~ReadFrom(m, b)
    BY <2>3 DEF ReadFrom
  <2>5. forwarder[b] # "holding"
    BY <2>4, FlowingIs, Zenon
  <2>6. \A a \in Reg : forwarder'[a] = "holding" <=> forwarder[a] = "holding"
    BY <2>1, <2>2, <2>5, FlowTypes
  <2>7. Passed' = Passed
    BY <2>1 DEF Passed
  <2> QED
    BY <2>1, <2>2, <2>6, <2>7, FlowStays, NoMore
<1>4. ASSUME NEW t \in Tag, DeliverNext(t) \/ CancelTag(t) PROVE Flowing'
  BY <1>1, <1>4 DEF DeliverNext, CancelTag, Send, Cancel, goroutineVars, Passed
<1>5. CASE SendFirst
  BY <1>1, <1>5 DEF SendFirst, Send, goroutineVars, Passed
<1>6. CASE Accepted
  <2>1. UNCHANGED <<held, read, Passed, forwarder>>
    BY <1>6 DEF Accepted, SendDone, pipelineVars, Passed
  <2>2. \A b \in Reg : \A i \in DOMAIN Passed : In(Passed[i], b)' => In(Passed[i], b)
    <3> SUFFICES ASSUME NEW b \in Reg, NEW i \in DOMAIN Passed, In(Passed[i], b)' PROVE In(Passed[i], b)
      BY Zenon
    <3>1. PICK x : x = Passed[i]
      BY Zenon
    <3>2. PICK a \in Reg : ReadFrom(x, a)
      BY <3>1, FlowingIs, Zenon
    <3>3. x \in Msg /\ x <= Count
      BY <3>2, ReadFromIs
    <3>4. Len(tagOf) = Count + 1 /\ Count \in Nat
      BY <1>6, AcceptedIs, BusyIs, SlotsAreFinite
    <3>5. x # Len(tagOf)
      BY <3>3, <3>4 DEF Msg
    <3>6. In(x, b)'
      BY <2>1, <3>1
    <3>7. In(x, b)
      BY <1>6, <3>3, <3>5, <3>6, AcceptedCounts, Zenon
    <3> QED
      BY <3>1, <3>7, Zenon
  <2> QED
    BY <2>1, <2>2, FlowStays
<1>7. ASSUME NEW b \in Reg, Buffer(b) PROVE Flowing'
  BY <1>1, <1>7 DEF Buffer, pipelineVars, RangeEnds, SelectInflightEnds, CloseOut, Passed
<1>8. ASSUME NEW b \in Reg, ForwarderEnds(b) PROVE Flowing'
  <2>1. UNCHANGED <<held, read, Passed, accepted>> /\ forwarder[b] = "ranging"
        /\ forwarder' = [forwarder EXCEPT ![b] = "ended"]
    BY <1>8 DEF ForwarderEnds, vars, Passed
  <2>2. \A a \in Reg : forwarder'[a] = "holding" <=> forwarder[a] = "holding"
    BY <2>1, FlowTypes
  <2> QED
    BY <2>1, <2>2, FlowStays, NoMore
<1>9. CASE Handle
  <2>1. UNCHANGED <<held, read, forwarder, accepted>> /\ chMsg # <<>>
        /\ handled' = Append(handled, Head(chMsg)) /\ chMsg' = Tail(chMsg)
    BY <1>9 DEF Handle, vars
  <2>2. Passed' = Passed
    BY <2>1, FlowTypes, HeadMovesOver, Zenon DEF Passed
  <2> QED
    BY <1>1, <2>1, <2>2
<1> QED
  BY <1>2, <1>3, <1>4, <1>5, <1>6, <1>7, <1>8, <1>9, TakeFlows, PassOnFlows, Zenon DEF PipelineNext

-----------------------------------------------------------------------------
(* Types.                                                                  *)

(* What of the types the consumers object has no part in. *)
OwnTypes ==
  /\ adding \in Tag \cup {NoTag}
  /\ forwarder \in [Reg -> {"none", "ranging", "holding", "ended"}]
  /\ held \in [Reg -> Msg \cup {NoMsg}]
  /\ chMsg \in Seq(Msg) /\ Len(chMsg) <= Capacity
  /\ handled \in Seq(Msg)
  /\ tagOf \in Seq(Tag) /\ Len(tagOf) <= MaxSend
  /\ cancels \in Seq(Tag \X (0 .. MaxSend))

(* The types are those of the consumers object and those of the pipeline. *)
LEMMA TypesAre == PipelineTypeOK <=> TypeOK /\ OwnTypes
BY DEF PipelineTypeOK, OwnTypes

(* Every step keeps the types. *)
LEMMA StepTypes == ASSUME PInv, [PipelineNext]_allVars PROVE PipelineTypeOK'
<1> SUFFICES OwnTypes'
  BY StepConsumers, TypesAre, Zenon DEF IInv, PipelineTypeOK, OwnTypes
<1>0. OwnTypes
  BY TypesAre DEF PInv
<1>1. CASE UNCHANGED allVars
  BY <1>0, <1>1 DEF allVars, pipelineVars, OwnTypes
<1>2. ASSUME NEW t \in Tag, DeliverFirst(t) PROVE OwnTypes'
  <2>1. /\ adding' = t /\ UNCHANGED <<held, chMsg, handled, cancels>>
        /\ tagOf' = Append(tagOf, t) /\ Len(tagOf) < MaxSend
        /\ forwarder' = [forwarder EXCEPT ![chans'[t]] = "ranging"]
    BY <1>2 DEF DeliverFirst
  <2>2. tagOf' \in Seq(Tag) /\ Len(tagOf') <= MaxSend
    BY <1>0, <2>1, ConsumersAssumption DEF OwnTypes
  <2> QED
    BY <1>0, <2>1, <2>2 DEF OwnTypes
<1>3. ASSUME NEW t \in Tag, DeliverNext(t) PROVE OwnTypes'
  <2>1. /\ UNCHANGED <<adding, forwarder, held, chMsg, handled, cancels>>
        /\ tagOf' = Append(tagOf, t) /\ Len(tagOf) < MaxSend
    BY <1>3 DEF DeliverNext
  <2>2. tagOf' \in Seq(Tag) /\ Len(tagOf') <= MaxSend
    BY <1>0, <2>1, ConsumersAssumption DEF OwnTypes
  <2> QED
    BY <1>0, <2>1, <2>2 DEF OwnTypes
<1>4. ASSUME NEW t \in Tag, CancelTag(t) PROVE OwnTypes'
  <2>1. /\ UNCHANGED <<adding, forwarder, held, chMsg, handled, tagOf>>
        /\ cancels' = Append(cancels, <<t, Len(tagOf)>>)
    BY <1>4 DEF CancelTag
  <2>2. <<t, Len(tagOf)>> \in Tag \X (0 .. MaxSend)
    BY <1>0, ConsumersAssumption DEF OwnTypes
  <2>3. cancels' \in Seq(Tag \X (0 .. MaxSend))
    BY <1>0, <2>1, <2>2 DEF OwnTypes
  <2> QED
    BY <1>0, <2>1, <2>3 DEF OwnTypes
<1>5. CASE SendFirst
  BY <1>0, <1>5 DEF SendFirst, OwnTypes
<1>6. CASE Accepted
  BY <1>0, <1>6 DEF Accepted, pipelineVars, OwnTypes
<1>7. ASSUME NEW b \in Reg, Buffer(b) PROVE OwnTypes'
  BY <1>0, <1>7 DEF Buffer, pipelineVars, OwnTypes
<1>8. ASSUME NEW b \in Reg, Take(b) PROVE OwnTypes'
  <2>1. PICK m : m = Head(queue[b])
    BY Zenon
  <2>2. /\ UNCHANGED <<adding, chMsg, handled, tagOf, cancels>> /\ stage[b] = "select"
        /\ forwarder' = [forwarder EXCEPT ![b] = "holding"] /\ held' = [held EXCEPT ![b] = m]
    BY <1>8, <2>1 DEF Take, SelectOut
  <2>3. m \in Msg
    BY <2>1, <2>2, NextIsLater
  <2> QED
    BY <1>0, <2>2, <2>3 DEF OwnTypes
<1>9. ASSUME NEW b \in Reg, PassOn(b) PROVE OwnTypes'
  <2>1. PICK m : m = held[b]
    BY Zenon
  <2>2. /\ UNCHANGED <<adding, handled, tagOf, cancels>> /\ forwarder[b] = "holding"
        /\ Len(chMsg) < Capacity /\ chMsg' = Append(chMsg, m)
        /\ forwarder' = [forwarder EXCEPT ![b] = "ranging"] /\ held' = [held EXCEPT ![b] = NoMsg]
    BY <1>9, <2>1 DEF PassOn
  <2>3. m \in Msg
    BY <2>1, <2>2, FlowingIs, FlowTypes
  <2>4. chMsg' \in Seq(Msg) /\ Len(chMsg') <= Capacity
    BY <1>0, <2>2, <2>3, PipelineAssumption DEF OwnTypes
  <2> QED
    BY <1>0, <2>2, <2>4 DEF OwnTypes
<1>10. ASSUME NEW b \in Reg, ForwarderEnds(b) PROVE OwnTypes'
  BY <1>0, <1>10 DEF ForwarderEnds, OwnTypes
<1>11. CASE Handle
  <2>1. /\ UNCHANGED <<adding, forwarder, held, tagOf, cancels>> /\ chMsg # <<>>
        /\ handled' = Append(handled, Head(chMsg)) /\ chMsg' = Tail(chMsg)
    BY <1>11 DEF Handle
  <2>2. /\ chMsg \in Seq(Msg) /\ handled \in Seq(Msg)
        /\ Len(chMsg) <= Capacity /\ Capacity \in Nat
    BY <1>0, PipelineAssumption DEF OwnTypes
  <2>3. Head(chMsg) \in Msg /\ Tail(chMsg) \in Seq(Msg) /\ Len(Tail(chMsg)) = Len(chMsg) - 1
    BY <2>1, <2>2
  <2>4. handled' \in Seq(Msg) /\ chMsg' \in Seq(Msg) /\ Len(chMsg') <= Capacity
    BY <2>1, <2>2, <2>3
  <2> QED
    BY <1>0, <2>1, <2>4 DEF OwnTypes
<1> QED
  BY <1>1, <1>2, <1>3, <1>4, <1>5, <1>6, <1>7, <1>8, <1>9, <1>10, <1>11, Zenon DEF PipelineNext

-----------------------------------------------------------------------------
(* What the invariant says of a run.                                       *)

(* Nothing has been dispatched yet. *)
LEMMA InitPInv == PipelineInit => PInv
<1> SUFFICES ASSUME PipelineInit PROVE PInv
  OBVIOUS
<1>1. IInv /\ ~closed
  BY InitIInv DEF PipelineInit, Init
<1>2. PipelineTypeOK
  <2>1. <<>> \in Seq(Msg) /\ <<>> \in Seq(Tag) /\ <<>> \in Seq(Tag \X (0 .. MaxSend))
    BY EmptyIsSeq, Zenon
  <2>2. Len(<<>>) = 0
    OBVIOUS
  <2>3. OwnTypes
    BY <2>1, <2>2, PipelineAssumption, ConsumersAssumption DEF PipelineInit, OwnTypes
  <2> QED
    BY <1>1, <2>3, TypesAre, Zenon DEF IInv
<1>3. \A b \in Reg : accepted[b] = <<>> /\ read[b] = <<>> /\ held[b] = NoMsg
                       /\ forwarder[b] = "none"
  BY DEF PipelineInit, Init
<1>4. Slots = {}
  BY <1>3 DEF Slots
<1>5. Count = 0
  BY <1>4, FS_EmptySet, Zenon DEF Count
<1>6. Idle
  BY PipelineAssumption DEF PipelineInit, Init, Idle
<1>7. Numbered
  BY <1>5, <1>6 DEF Numbered, PipelineInit, Idle
<1>8. \A b \in Reg : \A m : ~In(m, b) /\ ~ReadFrom(m, b)
  BY <1>3 DEF In, ReadFrom
<1>9. Sorted
  BY <1>3, <1>5, <1>8 DEF Sorted
<1>10. Parted
  BY <1>6, <1>8 DEF Parted, PipelineInit
<1>11. DOMAIN Passed = {}
  BY DEF PipelineInit, Passed
<1>12. Flowing
  BY <1>3, <1>11 DEF Flowing
<1> QED
  BY <1>1, <1>2, <1>7, <1>9, <1>10, <1>12, Zenon DEF PInv

(* The invariant is inductive. *)
LEMMA StepPInv == PInv /\ [PipelineNext]_allVars => PInv'
BY StepConsumers, StepTypes, StepNumbered, StepSorted, StepParted, StepFlowing, Zenon DEF PInv

(* Every state of the pipeline satisfies the invariant. *)
THEOREM PipelineInvariance == PipelineSpec => []PInv
BY InitPInv, StepPInv, PTL DEF PipelineSpec

(***************************************************************************)
(* The variables of the pipeline keep their types: chMsg never has more    *)
(* than its capacity, a forwarder holds one delivery at most.              *)
(***************************************************************************)
THEOREM PipelineTypeCorrect == PipelineSpec => []PipelineTypeOK
<1>1. PInv => PipelineTypeOK
  BY DEF PInv
<1> QED
  BY <1>1, PipelineInvariance, PTL

(* handleMsg takes the deliveries of a tag in order, but for cancellations.*)
LEMMA InvTagOrder == PInv => TagOrder
<1> SUFFICES ASSUME PInv, NEW i \in DOMAIN handled, NEW j \in DOMAIN handled,
                    i < j, handled[i] >= handled[j], tagOf[handled[i]] = tagOf[handled[j]]
             PROVE  CancelledSince(handled[j], handled[i])
  BY DEF TagOrder, CancelledSince
<1>1. /\ i \in DOMAIN Passed /\ j \in DOMAIN Passed
      /\ Passed[i] = handled[i] /\ Passed[j] = handled[j]
  BY FlowTypes DEF Passed
<1>2. PICK k, m : k = handled[i] /\ m = handled[j]
  BY Zenon
<1>3. PICK a \in Reg : ReadFrom(k, a)
  BY <1>1, <1>2, FlowingIs, Zenon
<1>4. PICK b \in Reg : ReadFrom(m, b)
  BY <1>1, <1>2, FlowingIs, Zenon
<1>5. k \in Msg /\ m \in Msg /\ In(k, a) /\ In(m, b)
  BY <1>3, <1>4, ReadFromIs, Zenon
<1>6. a # b
  <2> SUFFICES ASSUME a = b PROVE FALSE
    OBVIOUS
  <2>1. Passed[i] < Passed[j]
    BY <1>1, <1>2, <1>5, FlowingIs
  <2> QED
    BY <1>1, <1>2, <1>5, <2>1 DEF Msg
<1>7. m # k
  BY <1>3, <1>4, <1>5, <1>6, ReadFromIs, Zenon
<1>8. m < k
  BY <1>2, <1>5, <1>7 DEF Msg
<1> QED
  BY <1>2, <1>5, <1>6, <1>8, PartedIs, Zenon

(***************************************************************************)
(* handleMsg takes the deliveries of one consumer tag in the order in      *)
(* which they were dispatched, except across a cancellation of the tag,    *)
(* whatever the tags, the capacity of chMsg and the number of forwarders.  *)
(***************************************************************************)
THEOREM HandledInOrder == PipelineSpec => []TagOrder
BY InvTagOrder, PipelineInvariance, PTL

-----------------------------------------------------------------------------
(* Nothing is lost on the way.                                             *)

(* What has been accepted are all deliveries up to the last one accepted. *)
AllAccepted == \A m \in Msg : m <= Count => \E b \in Reg : In(m, b)

(* What was read is held by the forwarder or has been passed on. *)
PassedOn(m) == \E i \in DOMAIN Passed : Passed[i] = m
ReadIsPassedOn ==
  \A b \in Reg : \A m \in Msg : ReadFrom(m, b) => held[b] = m \/ PassedOn(m)

(* A registration has a forwarder until its buffer goroutine is gone. *)
HasForwarder ==
  \A b \in Reg :
    /\ stage[b] # "unborn" => forwarder[b] # "none"
    /\ forwarder[b] = "ended" => b \in outClosed
    /\ b \in outClosed => stage[b] = "gone"

(***************************************************************************)
(* A delivery that has been dispatched has been handled, or it is on its   *)
(* way and some goroutine has it in its hands: dispatch itself, a buffer   *)
(* goroutine that is still there and has a forwarder to hand it to, a      *)
(* forwarder, or chMsg.                                                    *)
(***************************************************************************)
Buffered(m, b) ==
  /\ \E i \in DOMAIN queue[b] : queue[b][i] = m
  /\ Live(b) /\ forwarder[b] \in {"ranging", "holding"}
InHand(m, b) == Buffered(m, b) \/ (forwarder[b] = "holding" /\ held[b] = m)
Sent(m) == (\E i \in DOMAIN chMsg : chMsg[i] = m) \/ (\E i \in DOMAIN handled : handled[i] = m)
NothingIsLost ==
  \A m \in DOMAIN tagOf :
    (m = Len(tagOf) /\ ~Idle) \/ (\E b \in Reg : InHand(m, b)) \/ Sent(m)

KeptInv == PInv /\ AllAccepted /\ ReadIsPassedOn /\ HasForwarder

(* A registration that accepts one more delivery misses none. *)
LEMMA StepAllAccepted ==
  ASSUME PInv, AllAccepted, [PipelineNext]_allVars PROVE AllAccepted'
<1>1. CASE accepted' = accepted
  <2>1. Count' = Count /\ \A a, x : In(x, a)' <=> In(x, a)
    BY <1>1, NoMore
  <2> QED
    BY <2>1, Zenon DEF AllAccepted
<1>2. CASE Accepted
  <2>1. PICK l \in Msg, d \in Reg : l = Len(tagOf) /\ l = Count + 1 /\ d = chans[tagOf[l]]
    BY <1>2, AcceptedIs, BusyIs, Zenon
  <2>2. /\ Count' = Count + 1
        /\ \A a \in Reg, x \in Msg : In(x, a)' <=> In(x, a) \/ (a = d /\ x = l)
    BY <1>2, <2>1, AcceptedCounts, Zenon
  <2>3. ASSUME NEW m \in Msg, m <= Count' PROVE \E b \in Reg : In(m, b)'
    <3>1. CASE m = l
      BY <2>1, <2>2, <3>1, Zenon
    <3>2. CASE m # l
      <4>1. m <= Count
        BY <2>1, <2>2, <2>3, <3>2, SlotsAreFinite DEF Msg
      <4>2. PICK b \in Reg : In(m, b)
        BY <4>1, Zenon DEF AllAccepted
      <4> QED
        BY <2>2, <4>2, Zenon
    <3> QED
      BY <3>1, <3>2
  <2> QED
    BY <2>3, Zenon DEF AllAccepted
<1> QED
  BY <1>1, <1>2, KindsOfSteps, Zenon DEF Dispatches, Cancels, Quiet

(* What the steps read, hold and pass on. *)
TakesHead(b) ==
  /\ b \in Reg /\ held' = [held EXCEPT ![b] = Head(queue[b])]
  /\ read' = [read EXCEPT ![b] = Append(read[b], Head(queue[b]))]
  /\ Passed' = Passed /\ held[b] = NoMsg
PassesOn(b) ==
  /\ b \in Reg /\ held' = [held EXCEPT ![b] = NoMsg]
  /\ read' = read /\ Passed' = Append(Passed, held[b])

(* Every other step leaves alone what is read, held and passed on. *)
LEMMA KindsOfFlow ==
  ASSUME PInv, [PipelineNext]_allVars
  PROVE  UNCHANGED <<held, read, Passed>> \/ \E b \in Reg : TakesHead(b) \/ PassesOn(b)
<1>1. CASE UNCHANGED allVars
  BY <1>1 DEF allVars, vars, pipelineVars, Passed
<1>2. ASSUME NEW t \in Tag, DeliverFirst(t) PROVE UNCHANGED <<held, read, Passed>>
  BY <1>2, AddIs DEF DeliverFirst, Passed
<1>3. ASSUME NEW t \in Tag, DeliverNext(t) \/ CancelTag(t) PROVE UNCHANGED <<held, read, Passed>>
  BY <1>3 DEF DeliverNext, CancelTag, Send, Cancel, goroutineVars, Passed
<1>4. CASE SendFirst
  BY <1>4 DEF SendFirst, Send, goroutineVars, Passed
<1>5. CASE Accepted
  BY <1>5 DEF Accepted, SendDone, pipelineVars, Passed
<1>6. ASSUME NEW b \in Reg, Buffer(b) \/ ForwarderEnds(b) PROVE UNCHANGED <<held, read, Passed>>
  BY <1>6 DEF Buffer, ForwarderEnds, vars, pipelineVars, RangeEnds, SelectInflightEnds,
              CloseOut, Passed
<1>7. ASSUME NEW b \in Reg, Take(b) PROVE TakesHead(b)
  <2>1. forwarder[b] # "holding"
    BY <1>7 DEF Take
  <2>2. held[b] = NoMsg
    BY <2>1, FlowingIs, Zenon
  <2> QED
    BY <1>7, <2>2 DEF Take, SelectOut, TakesHead, Passed
<1>8. ASSUME NEW b \in Reg, PassOn(b) PROVE PassesOn(b)
  <2>1. forwarder[b] = "holding"
    BY <1>8 DEF PassOn
  <2>2. held[b] \in Msg
    BY <2>1, FlowingIs, FlowTypes
  <2>3. Passed' = Append(Passed, held[b])
    BY <1>8, <2>2, FlowTypes, AppendAtEnd DEF PassOn, vars, Passed
  <2> QED
    BY <1>8, <2>3 DEF PassOn, vars, PassesOn
<1>9. CASE Handle
  <2>1. UNCHANGED <<held, read>> /\ chMsg # <<>>
        /\ handled' = Append(handled, Head(chMsg)) /\ chMsg' = Tail(chMsg)
    BY <1>9 DEF Handle, vars
  <2>2. Passed' = Passed
    BY <2>1, FlowTypes, HeadMovesOver, Zenon DEF Passed
  <2> QED
    BY <2>1, <2>2
<1> QED
  BY <1>1, <1>2, <1>3, <1>4, <1>5, <1>6, <1>7, <1>8, <1>9, Zenon DEF PipelineNext

(* A forwarder lets go of a delivery only to pass it on. *)
LEMMA StepReadIsPassedOn ==
  ASSUME PInv, ReadIsPassedOn, [PipelineNext]_allVars PROVE ReadIsPassedOn'
<1>1. CASE UNCHANGED <<held, read, Passed>>
  BY <1>1 DEF ReadIsPassedOn, ReadFrom, PassedOn
<1>2. ASSUME NEW b \in Reg, TakesHead(b) PROVE ReadIsPassedOn'
  <2>1. PICK h, longer : h = Head(queue[b]) /\ longer = Append(read[b], h)
    BY Zenon
  <2>2. /\ read'[b] = longer /\ held'[b] = h /\ Passed' = Passed /\ held[b] = NoMsg
        /\ \A a \in Reg \ {b} : read'[a] = read[a] /\ held'[a] = held[a]
    BY <1>2, <2>1, FlowTypes DEF TakesHead
  <2>3. ASSUME NEW a \in Reg, NEW m \in Msg, ReadFrom(m, a)'
        PROVE  held'[a] = m \/ PassedOn(m)'
    <3>1. CASE a # b
      BY <2>2, <2>3, <3>1 DEF ReadIsPassedOn, ReadFrom, PassedOn
    <3>2. CASE a = b
      <4>1. PICK j \in DOMAIN longer : longer[j] = m
        BY <2>2, <2>3, <3>2, Zenon DEF ReadFrom
      <4>2. m = h \/ ReadFrom(m, b)
        BY <2>1, <4>1, LongerIs, FlowTypes DEF ReadFrom
      <4>3. ReadFrom(m, b) => PassedOn(m)
        BY <2>2, FlowTypes DEF ReadIsPassedOn
      <4> QED
        BY <2>2, <3>2, <4>2, <4>3 DEF PassedOn
    <3> QED
      BY <3>1, <3>2
  <2> QED
    BY <2>3 DEF ReadIsPassedOn
<1>3. ASSUME NEW b \in Reg, PassesOn(b) PROVE ReadIsPassedOn'
  <2>1. PICK h, longer : h = held[b] /\ longer = Append(Passed, h)
    BY Zenon
  <2>2. /\ Passed' = longer /\ read' = read
        /\ \A a \in Reg \ {b} : held'[a] = held[a]
    BY <1>3, <2>1, FlowTypes DEF PassesOn
  <2>3. \A m : PassedOn(m) \/ m = h => PassedOn(m)'
    <3>1. PICK p \in Seq(Msg) : p = Passed
      BY FlowTypes, Zenon
    <3>2. /\ \A i \in DOMAIN p : i \in DOMAIN longer /\ longer[i] = p[i]
          /\ Len(p) + 1 \in DOMAIN longer /\ longer[Len(p) + 1] = h
      BY <2>1, <3>1, LongerIs
    <3>3. \A m : PassedOn(m) => \E i \in DOMAIN p : p[i] = m
      BY <3>1, Zenon DEF PassedOn
    <3>4. \A m : PassedOn(m) \/ m = h => \E i \in DOMAIN longer : longer[i] = m
      BY <3>2, <3>3
    <3> QED
      BY <2>2, <3>4, Zenon DEF PassedOn
  <2>4. ASSUME NEW a \in Reg, NEW m \in Msg, ReadFrom(m, a)'
        PROVE  held'[a] = m \/ PassedOn(m)'
    <3>1. held[a] = m \/ PassedOn(m)
      BY <2>2, <2>4 DEF ReadIsPassedOn, ReadFrom
    <3>2. CASE PassedOn(m)
      BY <2>3, <3>2, Zenon
    <3>3. CASE held[a] = m
      BY <2>1, <2>2, <2>3, <3>3
    <3> QED
      BY <3>1, <3>2, <3>3
  <2> QED
    BY <2>4 DEF ReadIsPassedOn
<1> QED
  BY <1>1, <1>2, <1>3, KindsOfFlow, Zenon

(* A forwarder begins with its registration and ends after it. *)
LEMMA StepHasForwarder ==
  ASSUME PInv, HasForwarder, [PipelineNext]_allVars PROVE HasForwarder'
<1>0. /\ forwarder \in [Reg -> {"none", "ranging", "holding", "ended"}]
      /\ stage \in [Reg -> Stages]
  BY FlowTypes, CallerIsParser
<1>1. CASE UNCHANGED <<forwarder, stage, outClosed>>
  BY <1>1 DEF HasForwarder
<1>2. ASSUME NEW t \in Tag, DeliverFirst(t) PROVE HasForwarder'
  <2>1. Add(Parser, t) /\ forwarder' = [forwarder EXCEPT ![chans'[t]] = "ranging"]
    BY <1>2 DEF DeliverFirst
  <2>2. PICK b \in Reg : stage[b] = "unborn" /\ chans'[t] = b /\ stage' = [stage EXCEPT ![b] = "range"]
    BY <2>1, AddIs, Zenon
  <2>3. outClosed' = outClosed
    BY <2>1 DEF Add, goroutineVars
  <2>4. b \notin outClosed
    BY <2>2 DEF HasForwarder
  <2> QED
    BY <1>0, <2>1, <2>2, <2>3, <2>4 DEF HasForwarder
<1>3. ASSUME NEW t \in Tag, DeliverNext(t) \/ CancelTag(t)
      PROVE  UNCHANGED <<forwarder, stage, outClosed>>
  BY <1>3 DEF DeliverNext, CancelTag, Send, Cancel, goroutineVars
<1>4. CASE SendFirst
  <2>1. UNCHANGED <<forwarder, stage, outClosed>>
    BY <1>4 DEF SendFirst, Send, goroutineVars
  <2> QED
    BY <1>1, <2>1
<1>5. ASSUME NEW b \in Reg, stage[b] \in {"range", "select"}, UNCHANGED <<forwarder, outClosed>>,
             NEW s \in Stages, s # "unborn", stage' = [stage EXCEPT ![b] = s]
      PROVE  HasForwarder'
  <2>1. b \notin outClosed
    BY <1>5 DEF HasForwarder
  <2> QED
    BY <1>0, <1>5, <2>1 DEF HasForwarder
<1>6. ASSUME NEW b \in Reg, CloseOut(b), UNCHANGED forwarder PROVE HasForwarder'
  BY <1>0, <1>6 DEF HasForwarder, CloseOut
<1>7. ASSUME NEW b \in Reg, Take(b) PROVE HasForwarder'
  <2>1. forwarder' = [forwarder EXCEPT ![b] = "holding"] /\ outClosed' = outClosed
        /\ stage[b] = "select"
        /\ stage' = [stage EXCEPT ![b] = IF Tail(queue[b]) = <<>> THEN "range" ELSE "select"]
    BY <1>7 DEF Take, SelectOut
  <2>2. b \notin outClosed
    BY <2>1 DEF HasForwarder
  <2> QED
    BY <1>0, <2>1, <2>2 DEF HasForwarder
<1>8. ASSUME NEW b \in Reg, PassOn(b) \/ ForwarderEnds(b) PROVE HasForwarder'
  <2>1. UNCHANGED <<stage, outClosed>>
    BY <1>8 DEF PassOn, ForwarderEnds, vars
  <2> QED
    BY <1>0, <1>8, <2>1 DEF HasForwarder, PassOn, ForwarderEnds
<1>9. CASE Handle \/ UNCHANGED allVars
  <2>1. UNCHANGED <<forwarder, stage, outClosed>>
    BY <1>9 DEF Handle, allVars, vars, pipelineVars
  <2> QED
    BY <1>1, <2>1
<1>10. CASE Accepted
  <2>1. PICK d \in Reg, t \in Tag : d = call[Parser].to /\ d = chans[t]
    BY <1>10, AcceptedIs, BusyIs, Zenon
  <2>2. d # NoReg
    BY CallerIsParser
  <2>3. stage[d] \in {"range", "select"}
    BY <2>1, <2>2 DEF PInv, IInv, Mapped, Live
  <2>4. UNCHANGED <<forwarder, outClosed>> /\ stage' = [stage EXCEPT ![d] = "select"]
    BY <1>10, <2>1 DEF Accepted, SendDone, pipelineVars
  <2> QED
    BY <1>5, <2>3, <2>4 DEF Stages
<1>11. ASSUME NEW b \in Reg, Buffer(b) PROVE HasForwarder'
  <2>1. UNCHANGED forwarder
    BY <1>11 DEF Buffer, pipelineVars
  <2>2. CASE RangeEnds(b)
    <3>1. stage[b] \in {"range", "select"} /\ stage' = [stage EXCEPT ![b] = "leaving"]
          /\ UNCHANGED outClosed
      BY <2>2 DEF RangeEnds, Leave
    <3> QED
      BY <1>5, <2>1, <3>1 DEF Stages
  <2>3. CASE SelectInflightEnds(b)
    BY <1>1, <2>1, <2>3 DEF SelectInflightEnds
  <2> QED
    BY <1>6, <1>11, <2>1, <2>2, <2>3 DEF Buffer
<1> QED
  BY <1>1, <1>2, <1>3, <1>4, <1>7, <1>8, <1>9, <1>10, <1>11, Zenon DEF PipelineNext

(* The invariant says that nothing is lost. *)
LEMMA KeptIsNotLost == KeptInv => NothingIsLost
<1> SUFFICES ASSUME KeptInv, NEW m \in DOMAIN tagOf, ~(m = Len(tagOf) /\ ~Idle), ~Sent(m)
             PROVE  \E b \in Reg : InHand(m, b)
  BY Zenon DEF NothingIsLost
<1>0. PInv
  BY DEF KeptInv
<1>1. m \in Msg /\ m <= Count
  <2>1. /\ tagOf \in Seq(Tag) /\ Len(tagOf) <= MaxSend /\ Count \in Nat
        /\ Len(tagOf) = IF Idle THEN Count ELSE Count + 1
    BY <1>0, SlotsAreFinite DEF PInv, PipelineTypeOK, Numbered
  <2>2. m \in 1 .. Len(tagOf)
    BY <2>1
  <2> QED
    BY <2>1, <2>2, ConsumersAssumption DEF Msg
<1>2. PICK b \in Reg : In(m, b)
  BY <1>1, Zenon DEF KeptInv, AllAccepted
<1>3. PICK i \in DOMAIN accepted[b] : accepted[b][i] = m
  BY <1>2, Zenon DEF In
<1>4. CASE ReadFrom(m, b)
  <2>1. ~PassedOn(m)
    <3>1. handled \in Seq(Msg) /\ chMsg \in Seq(Msg)
      BY <1>0, FlowTypes
    <3> QED
      BY <3>1 DEF PassedOn, Passed, Sent
  <2>2. held[b] = m /\ m # NoMsg
    BY <1>0, <1>1, <1>4, <2>1, FlowTypes DEF KeptInv, ReadIsPassedOn
  <2> QED
    BY <1>0, <2>2, FlowingIs DEF InHand
<1>5. CASE ~ReadFrom(m, b)
  <2>1. /\ read[b] \in Seq(Msg) /\ queue[b] \in Seq(Msg) /\ accepted[b] \in Seq(Msg)
        /\ stage[b] \in Stages
    BY <1>0, FlowTypes, CallerIsParser
  <2>2. Live(b)
    <3> SUFFICES ASSUME ~Live(b) PROVE FALSE
      OBVIOUS
    <3>1. stage[b] = "unborn" \/ stage[b] \in {"leaving", "gone"}
      BY <2>1 DEF Live, Stages
    <3>2. CASE stage[b] = "unborn"
      <4>1. accepted[b] = <<>>
        BY <1>0, <3>2 DEF PInv, IInv, Placed
      <4> QED
        BY <1>3, <4>1
    <3>3. CASE stage[b] \in {"leaving", "gone"}
      <4>1. read[b] = accepted[b]
        BY <1>0, <3>3 DEF PInv, IInv, NothingLostOrReordered
      <4> QED
        BY <1>3, <1>5, <4>1 DEF ReadFrom
    <3> QED
      BY <3>1, <3>2, <3>3
  <2>3. accepted[b] = read[b] \o queue[b]
    BY <1>0, <2>2 DEF PInv, IInv, NothingLostOrReordered, Live
  <2>4. \E j \in DOMAIN queue[b] : queue[b][j] = m
    <3>1. PICK r, q : r = read[b] /\ q = queue[b]
      BY Zenon
    <3>2. r \in Seq(Msg) /\ q \in Seq(Msg) /\ i \in DOMAIN (r \o q) /\ (r \o q)[i] = m
      BY <1>3, <2>1, <2>3, <3>1
    <3>3. ~(\E j \in DOMAIN r : r[j] = m)
      BY <1>5, <3>1 DEF ReadFrom
    <3>4. (\E j \in DOMAIN r : r[j] = m) \/ (\E j \in DOMAIN q : q[j] = m)
      BY <3>2
    <3> QED
      BY <3>1, <3>3, <3>4
  <2>5. forwarder[b] \in {"ranging", "holding"}
    <3>1. forwarder[b] \in {"none", "ranging", "holding", "ended"}
      BY <1>0, FlowTypes
    <3> QED
      BY <2>2, <3>1 DEF KeptInv, HasForwarder, Live
  <2> QED
    BY <2>2, <2>4, <2>5 DEF InHand, Buffered
<1> QED
  BY <1>4, <1>5

(* Nothing has been dispatched yet. *)
LEMMA InitKept == PipelineInit => KeptInv
<1> SUFFICES ASSUME PipelineInit PROVE KeptInv
  OBVIOUS
<1>1. PInv
  BY InitPInv
<1>2. \A b \in Reg : accepted[b] = <<>> /\ read[b] = <<>> /\ stage[b] = "unborn"
                       /\ forwarder[b] = "none"
  BY DEF PipelineInit, Init
<1>3. Slots = {}
  BY <1>2 DEF Slots
<1>4. Count = 0
  BY <1>3, FS_EmptySet, Zenon DEF Count
<1>5. AllAccepted
  BY <1>4, ConsumersAssumption DEF AllAccepted, Msg
<1>6. ReadIsPassedOn
  BY <1>2 DEF ReadIsPassedOn, ReadFrom
<1>7. HasForwarder
  BY <1>2 DEF HasForwarder, PipelineInit, Init
<1> QED
  BY <1>1, <1>5, <1>6, <1>7 DEF KeptInv

(***************************************************************************)
(* Whatever is dispatched is handled or in the hands of a goroutine that   *)
(* can pass it on: parsing loses no delivery on its way to handleMsg, nor  *)
(* does a cancellation.                                                    *)
(***************************************************************************)
THEOREM DeliveriesAreKept == PipelineSpec => []NothingIsLost
<1>1. KeptInv /\ [PipelineNext]_allVars => KeptInv'
  BY StepPInv, StepAllAccepted, StepReadIsPassedOn, StepHasForwarder, Zenon DEF KeptInv
<1> QED
  BY <1>1, InitKept, KeptIsNotLost, PTL DEF PipelineSpec

-----------------------------------------------------------------------------
(* What is picked from a sequence: facts about Among, by induction.        *)

(* Induction over the natural numbers, on the set of those it holds for. *)
LEMMA Induction ==
  ASSUME NEW S, 0 \in S, \A n \in Nat : n \in S => n + 1 \in S
  PROVE  Nat \subseteq S
<1>1. PICK R : R = {p \in Nat \X Nat : p[1] < p[2]}
  BY Zenon
<1>2. IsWellFoundedOn({p \in Nat \X Nat : p[1] < p[2]}, Nat)
  BY NatLessThanWellFounded DEF OpToRel
<1>3. PICK T : T = Nat \ S
  BY Zenon
<1>4. ASSUME T # {} PROVE FALSE
  <2>1. PICK x \in T : \A y \in T : ~(<<y, x>> \in R)
    BY <1>1, <1>2, <1>3, <1>4, WFMin
  <2>2. x # 0 /\ x - 1 \in Nat
    BY <1>3
  <2>3. <<x - 1, x>> \in R
    BY <1>1, <1>3, <2>2
  <2> QED
    BY <1>3, <2>1, <2>2, <2>3
<1> QED
  BY <1>3, <1>4

(* What is appended to a concatenation is appended to its second part. *)
LEMMA AppendedToJoined ==
  ASSUME NEW M, NEW r \in Seq(M), NEW q \in Seq(M), NEW m \in M
  PROVE  Append(q, m) \in Seq(M) /\ Append(r \o q, m) = r \o Append(q, m)
OBVIOUS

(* up is the function Among defines for the first n elements of s. *)
Picking(up, A, s, n) ==
  up = [k \in 0 .. n |-> IF k = 0 THEN <<>>
                         ELSE IF s[k] \in A THEN Append(up[k-1], s[k]) ELSE up[k-1]]

PicksAt(up, A, s, k) == up[k] = IF s[k] \in A THEN Append(up[k-1], s[k]) ELSE up[k-1]

(* What such a function is, value by value. *)
LEMMA PickingIs ==
  ASSUME NEW up, NEW A, NEW s, NEW n \in Nat
  PROVE  Picking(up, A, s, n) <=>
           /\ up = [k \in 0 .. n |-> up[k]]
           /\ up[0] = <<>>
           /\ \A k \in 1 .. n : PicksAt(up, A, s, k)
<1> DEFINE E(k) == IF k = 0 THEN <<>>
                   ELSE IF s[k] \in A THEN Append(up[k-1], s[k]) ELSE up[k-1]
<1>1. ASSUME Picking(up, A, s, n)
      PROVE  /\ up = [k \in 0 .. n |-> up[k]]
             /\ up[0] = <<>>
             /\ \A k \in 1 .. n : PicksAt(up, A, s, k)
  <2>1. up = [k \in 0 .. n |-> E(k)]
    BY <1>1, Zenon DEF Picking
  <2>2. \A k \in 0 .. n : up[k] = E(k)
    <3> HIDE DEF E
    <3> QED
      BY <2>1
  <2>3. up = [k \in 0 .. n |-> up[k]]
    <3> HIDE DEF E
    <3> QED
      BY <2>1
  <2>4. up[0] = <<>>
    BY <2>2
  <2>5. ASSUME NEW k \in 1 .. n PROVE PicksAt(up, A, s, k)
    <3>1. k \in 0 .. n /\ k # 0
      OBVIOUS
    <3> QED
      BY <2>2, <3>1, Zenon DEF PicksAt
  <2> QED
    BY <2>3, <2>4, <2>5
<1>2. ASSUME up = [k \in 0 .. n |-> up[k]], up[0] = <<>>,
             \A k \in 1 .. n : PicksAt(up, A, s, k)
      PROVE  Picking(up, A, s, n)
  <2>1. ASSUME NEW k \in 0 .. n PROVE up[k] = E(k)
    <3>1. CASE k = 0
      BY <1>2, <3>1, Zenon
    <3>2. CASE k # 0
      <4>1. k \in 1 .. n
        BY <3>2
      <4> QED
        BY <1>2, <3>2, <4>1, Zenon DEF PicksAt
    <3> QED
      BY <3>1, <3>2
  <2>2. up = [k \in 0 .. n |-> E(k)]
    <3> HIDE DEF E
    <3> QED
      BY <1>2, <2>1
  <2> QED
    BY <2>2, Zenon DEF Picking
<1> QED
  BY <1>1, <1>2

(* There is such a function ... *)
LEMMA PickingExists ==
  ASSUME NEW A, NEW s, NEW j \in Nat PROVE \E up : Picking(up, A, s, j)
<1> DEFINE S == {n \in Nat : \E up : Picking(up, A, s, n)}
<1>1. 0 \in S
  <2> DEFINE up == [n \in 0 .. 0 |-> <<>>]
  <2>1. up[0] = <<>> /\ up = [n \in 0 .. 0 |-> up[n]]
    OBVIOUS
  <2>2. Picking(up, A, s, 0)
    <3> HIDE DEF up
    <3> QED
      BY <2>1, PickingIs
  <2> QED
    BY <2>2
<1>2. ASSUME NEW n \in Nat, n \in S PROVE n + 1 \in S
  <2>1. PICK up : Picking(up, A, s, n)
    BY <1>2
  <2>2. PICK e : e = IF s[n+1] \in A THEN Append(up[n], s[n+1]) ELSE up[n]
    BY Zenon
  <2> DEFINE more == [m \in 0 .. n+1 |-> IF m = n+1 THEN e ELSE up[m]]
  <2>3. (\A m \in 0 .. n : more[m] = up[m]) /\ more[n+1] = e /\ more = [m \in 0 .. n+1 |-> more[m]]
    OBVIOUS
  <2> HIDE DEF more
  <2>4. /\ up[0] = <<>>
        /\ \A k \in 1 .. n : PicksAt(up, A, s, k)
    BY <2>1, PickingIs
  <2>5. ASSUME NEW m \in 1 .. n+1
        PROVE  PicksAt(more, A, s, m)
    <3>1. CASE m = n+1
      <4>1. m - 1 = n /\ n \in 0 .. n
        BY <3>1
      <4>2. more[m-1] = up[n]
        BY <2>3, <4>1, Zenon
      <4> QED
        BY <2>2, <2>3, <3>1, <4>1, <4>2, Zenon DEF PicksAt
    <3>2. CASE m # n+1
      <4>1. m \in 1 .. n /\ m \in 0 .. n /\ m-1 \in 0 .. n
        BY <3>2
      <4>2. more[m] = up[m] /\ more[m-1] = up[m-1] /\ PicksAt(up, A, s, m)
        BY <2>3, <2>4, <4>1, Zenon
      <4> QED
        BY <4>2, Zenon DEF PicksAt
    <3> QED
      BY <3>1, <3>2
  <2>6. Picking(more, A, s, n+1)
    <3>1. n + 1 \in Nat /\ 0 \in 0 .. n
      OBVIOUS
    <3>2. more[0] = <<>>
      BY <2>3, <2>4, <3>1, Zenon
    <3> QED
      BY <2>3, <2>5, <3>1, <3>2, PickingIs, Zenon
  <2> QED
    BY <2>6
<1>3. Nat \subseteq S
  <2> HIDE DEF S
  <2> QED
    BY <1>1, <1>2, Induction
<1> QED
  BY <1>3

(* ... whose last value Among returns. *)
LEMMA AmongIs ==
  ASSUME NEW A, NEW s, Len(s) \in Nat
  PROVE  \E up : Picking(up, A, s, Len(s)) /\ Among(A, s) = up[Len(s)]
<1>1. \E up : Picking(up, A, s, Len(s))
  BY PickingExists
<1> DEFINE chosen == CHOOSE up : Picking(up, A, s, Len(s))
<1>2. Picking(chosen, A, s, Len(s))
  BY <1>1
<1>3. Among(A, s) = chosen[Len(s)]
  BY DEF Among, Picking
<1> QED
  BY <1>2, <1>3
(* A and B pick the same of the first j elements of s and r. *)
SamePicked(A, s, B, r, j) == \A n \in 1 .. j : s[n] = r[n] /\ (s[n] \in A <=> r[n] \in B)

(* Two such functions agree on the elements they have in common. *)
LEMMA PickingAgrees ==
  ASSUME NEW A, NEW s, NEW B, NEW r, NEW j \in Nat, NEW k \in Nat, NEW f, NEW g,
         j <= k, SamePicked(A, s, B, r, j), Picking(f, A, s, j), Picking(g, B, r, k)
  PROVE  f[j] = g[j]
<1> DEFINE S == {n \in Nat : n <= j => f[n] = g[n]}
<1>1. /\ f[0] = <<>> /\ g[0] = <<>>
      /\ \A n \in 1 .. j : PicksAt(f, A, s, n)
      /\ \A n \in 1 .. k : PicksAt(g, B, r, n)
  BY PickingIs
<1>2. 0 \in S
  BY <1>1
<1>3. ASSUME NEW n \in Nat, n \in S PROVE n + 1 \in S
  <2> SUFFICES ASSUME n + 1 <= j PROVE f[n+1] = g[n+1]
    OBVIOUS
  <2>1. PICK m \in Nat : m = n + 1
    OBVIOUS
  <2>2. m \in 1 .. j /\ m \in 1 .. k /\ m - 1 = n /\ n <= j
    BY <2>1
  <2>3. f[m-1] = g[m-1]
    BY <1>3, <2>2
  <2>4. f[m] = g[m]
    BY <1>1, <2>2, <2>3, Zenon DEF SamePicked, PicksAt
  <2> QED
    BY <2>1, <2>4
<1>4. Nat \subseteq S
  <2> HIDE DEF S
  <2> QED
    BY <1>2, <1>3, Induction
<1> QED
  BY <1>4

(* Nothing is picked of nothing. *)
LEMMA AmongNothing == ASSUME NEW A PROVE Among(A, <<>>) = <<>>
<1>1. Len(<<>>) = 0
  OBVIOUS
<1>2. PICK up : Picking(up, A, <<>>, 0) /\ Among(A, <<>>) = up[0]
  BY <1>1, AmongIs
<1> QED
  BY <1>2, PickingIs

(* What is picked depends on the elements and on which of them are in A. *)
LEMMA AmongAgrees ==
  ASSUME NEW A, NEW B, NEW M, NEW s \in Seq(M), \A n \in DOMAIN s : s[n] \in A <=> s[n] \in B
  PROVE  Among(A, s) = Among(B, s)
<1>1. Len(s) \in Nat /\ DOMAIN s = 1 .. Len(s)
  OBVIOUS
<1>2. SamePicked(A, s, B, s, Len(s))
  BY <1>1 DEF SamePicked
<1>3. PICK f : Picking(f, A, s, Len(s)) /\ Among(A, s) = f[Len(s)]
  BY <1>1, AmongIs
<1>4. PICK g : Picking(g, B, s, Len(s)) /\ Among(B, s) = g[Len(s)]
  BY <1>1, AmongIs
<1>5. PICK n \in Nat : n = Len(s)
  BY <1>1
<1>6. f[n] = g[n]
  BY <1>2, <1>3, <1>4, <1>5, PickingAgrees
<1> QED
  BY <1>3, <1>4, <1>5, <1>6

(* An element appended is picked when it is in A. *)
LEMMA AmongAppend ==
  ASSUME NEW A, NEW M, NEW s \in Seq(M), NEW m \in M
  PROVE  Among(A, Append(s, m)) = IF m \in A THEN Append(Among(A, s), m) ELSE Among(A, s)
<1>1. PICK r : r = Append(s, m)
  BY Zenon
<1>2. PICK n \in Nat : n = Len(s)
  OBVIOUS
<1>3. Len(r) = n + 1 /\ n + 1 \in Nat /\ r[n+1] = m /\ \A i \in 1 .. n : r[i] = s[i]
  BY <1>1, <1>2
<1>4. PICK f : Picking(f, A, s, n) /\ Among(A, s) = f[n]
  BY <1>2, AmongIs
<1>5. PICK g : Picking(g, A, r, n + 1) /\ Among(A, r) = g[n+1]
  BY <1>3, AmongIs
<1>6. SamePicked(A, s, A, r, n)
  BY <1>3 DEF SamePicked
<1>7. f[n] = g[n]
  BY <1>3, <1>4, <1>5, <1>6, PickingAgrees
<1>8. n + 1 \in 1 .. n + 1 /\ (n + 1) - 1 = n
  OBVIOUS
<1>9. g[n+1] = IF r[n+1] \in A THEN Append(g[n], r[n+1]) ELSE g[n]
  <2>1. \A k \in 1 .. n + 1 : PicksAt(g, A, r, k)
    BY <1>3, <1>5, PickingIs, Zenon
  <2> QED
    BY <1>8, <2>1 DEF PicksAt
<1> QED
  BY <1>1, <1>3, <1>4, <1>5, <1>7, <1>9, Zenon

(* What is picked is a sequence of the same kind. *)
LEMMA AmongType ==
  ASSUME NEW A, NEW M, NEW s \in Seq(M) PROVE Among(A, s) \in Seq(M)
<1>1. PICK n \in Nat : n = Len(s)
  OBVIOUS
<1>2. PICK f : Picking(f, A, s, n) /\ Among(A, s) = f[n]
  BY <1>1, AmongIs
<1>3. /\ f[0] = <<>>
      /\ \A k \in 1 .. n : PicksAt(f, A, s, k)
  BY <1>2, PickingIs
<1> DEFINE S == {k \in Nat : k <= n => f[k] \in Seq(M)}
<1>4. 0 \in S
  <2>1. f[0] \in Seq(M)
    BY <1>3, EmptyIsSeq
  <2> QED
    BY <2>1
<1>5. ASSUME NEW k \in Nat, k \in S PROVE k + 1 \in S
  <2> SUFFICES ASSUME k + 1 <= n PROVE f[k+1] \in Seq(M)
    OBVIOUS
  <2>1. PICK m \in Nat : m = k + 1
    OBVIOUS
  <2>2. m \in 1 .. n /\ m - 1 = k /\ k <= n /\ s[m] \in M
    BY <1>1, <2>1
  <2>3. f[m-1] \in Seq(M)
    BY <1>5, <2>2
  <2>4. Append(f[m-1], s[m]) \in Seq(M)
    BY <2>2, <2>3
  <2>5. f[m] \in Seq(M)
    BY <1>3, <2>2, <2>3, <2>4, Zenon DEF PicksAt
  <2> QED
    BY <2>1, <2>5
<1>6. Nat \subseteq S
  <2> HIDE DEF S
  <2> QED
    BY <1>4, <1>5, Induction
<1> QED
  BY <1>2, <1>6

(* The first element is the first picked, when it is in A. *)
LEMMA AmongHead ==
  ASSUME NEW A, NEW M, NEW s \in Seq(M), s # <<>>
  PROVE  Among(A, s) = IF Head(s) \in A THEN <<Head(s)>> \o Among(A, Tail(s)) ELSE Among(A, Tail(s))
<1>0. Tail(s) \in Seq(M)
  OBVIOUS
<1>1. PICK r \in Seq(M) : r = Tail(s)
  BY <1>0, Zenon
<1>2. PICK n \in Nat : n = Len(r)
  OBVIOUS
<1>3. /\ Len(s) = n + 1 /\ n + 1 \in Nat /\ s[1] = Head(s) /\ Head(s) \in M
      /\ \A i \in 1 .. n : r[i] = s[i+1] /\ r[i] \in M
  BY <1>1, <1>2
<1>4. PICK f : Picking(f, A, s, n + 1) /\ Among(A, s) = f[n+1]
  BY <1>3, AmongIs
<1>5. PICK g : Picking(g, A, r, n) /\ Among(A, r) = g[n]
  BY <1>2, AmongIs
<1>6. /\ f[0] = <<>>
      /\ \A k \in 1 .. n + 1 : PicksAt(f, A, s, k)
  BY <1>3, <1>4, PickingIs, Zenon
<1>7. /\ g[0] = <<>>
      /\ \A k \in 1 .. n : PicksAt(g, A, r, k)
  BY <1>5, PickingIs, Zenon
<1>8. PICK h : h = IF Head(s) \in A THEN <<Head(s)>> ELSE <<>>
  BY Zenon
<1>9. h \in Seq(M)
  BY <1>3, <1>8
<1> DEFINE S == {k \in Nat : k <= n => g[k] \in Seq(M) /\ f[k+1] = h \o g[k]}
<1>10. 0 \in S
  <2>1. 1 \in 1 .. n + 1 /\ 1 - 1 = 0
    OBVIOUS
  <2>2. f[1] = IF s[1] \in A THEN Append(<<>>, s[1]) ELSE <<>>
    BY <1>6, <2>1 DEF PicksAt
  <2>3. Append(<<>>, s[1]) = <<s[1]>> /\ h \o <<>> = h
    BY <1>9
  <2>4. f[1] = h \o g[0]
    BY <1>3, <1>7, <1>8, <2>2, <2>3, Zenon
  <2>5. g[0] \in Seq(M) /\ f[0+1] = h \o g[0]
    BY <1>7, <2>4, EmptyIsSeq
  <2> QED
    BY <2>5
<1>11. ASSUME NEW k \in Nat, k \in S PROVE k + 1 \in S
  <2> SUFFICES ASSUME k + 1 <= n PROVE g[k+1] \in Seq(M) /\ f[(k+1)+1] = h \o g[k+1]
    OBVIOUS
  <2>1. PICK m \in Nat : m = k + 1
    OBVIOUS
  <2>2. m \in 1 .. n /\ m + 1 \in 1 .. n + 1 /\ m - 1 = k /\ (m + 1) - 1 = m /\ k <= n
    BY <2>1
  <2>3. g[k] \in Seq(M) /\ f[m] = h \o g[k]
    BY <1>11, <2>1, <2>2
  <2>4. g[m] = IF r[m] \in A THEN Append(g[k], r[m]) ELSE g[k]
    BY <1>7, <2>2 DEF PicksAt
  <2>5. f[m+1] = IF s[m+1] \in A THEN Append(f[m], s[m+1]) ELSE f[m]
    BY <1>6, <2>2 DEF PicksAt
  <2>6. s[m+1] = r[m] /\ r[m] \in M
    BY <1>3, <2>2
  <2>7. PICK x : x = r[m]
    BY Zenon
  <2>8. Append(g[k], x) \in Seq(M) /\ Append(h \o g[k], x) = h \o Append(g[k], x)
    <3>1. PICK q \in Seq(M) : q = g[k]
      BY <2>3
    <3>2. x \in M
      BY <2>6, <2>7
    <3>3. Append(q, x) \in Seq(M) /\ Append(h \o q, x) = h \o Append(q, x)
      BY <1>9, <3>2, AppendedToJoined
    <3> QED
      BY <3>1, <3>3
  <2>9. g[m] \in Seq(M) /\ f[m+1] = h \o g[m]
    BY <2>3, <2>4, <2>5, <2>6, <2>7, <2>8, Zenon
  <2> QED
    BY <2>1, <2>9
<1>12. Nat \subseteq S
  <2> HIDE DEF S
  <2> QED
    BY <1>10, <1>11, Induction
<1>13. Among(A, r) \in Seq(M) /\ Among(A, s) = h \o Among(A, r)
  BY <1>4, <1>5, <1>12
<1>14. <<>> \o Among(A, r) = Among(A, r)
  BY <1>13
<1> QED
  BY <1>1, <1>8, <1>13, <1>14, Zenon

-----------------------------------------------------------------------------
(* A registration is a lossless queue from dispatch to handleMsg.          *)

(* What registration b has accepted, and what of it is in chMsg, in the    *)
(* hands of its forwarder, and handled.                                    *)
Handed(b) == {accepted[b][i] : i \in DOMAIN accepted[b]}
InChMsg(b) == Of(b, chMsg)
Holding(b) == IF held[b] = NoMsg THEN <<>> ELSE <<held[b]>>
HandledOf(b) == Of(b, handled)

(* The phase of its queue. *)
QueuePhase(b) ==
  IF stage[b] = "unborn" THEN "new" ELSE IF b \in inClosed THEN "ending" ELSE "open"

(* What it has accepted, said in two ways. *)
LEMMA HandedIs == \A b : \A m : m \in Handed(b) <=> In(m, b)
BY DEF Handed, In

(* Both are picked by what the registration has accepted ... *)
LEMMA PickedBy ==
  ASSUME NEW b
  PROVE  /\ InChMsg(b) = Among(Handed(b), chMsg) /\ HandledOf(b) = Among(Handed(b), handled)
         /\ InChMsg(b)' = Among(Handed(b)', chMsg') /\ HandledOf(b)' = Among(Handed(b)', handled')
BY DEF InChMsg, HandledOf, Of, Handed

(* ... and with what is held and queued make up what is on the way. *)
LEMMA WayIs ==
  ASSUME NEW b
  PROVE  /\ OnTheWay(b) = InChMsg(b) \o Holding(b) \o queue[b]
         /\ OnTheWay(b)' = InChMsg(b)' \o Holding(b)' \o queue'[b]
BY DEF OnTheWay, InChMsg, Holding

(* The types of these parts. *)
LEMMA WayTypes ==
  ASSUME PInv, NEW b \in Reg
  PROVE  /\ InChMsg(b) \in Seq(Msg) /\ HandledOf(b) \in Seq(Msg) /\ Holding(b) \in Seq(Msg)
         /\ queue[b] \in Seq(Msg) /\ Handed(b) \subseteq Msg
<1>1. InChMsg(b) \in Seq(Msg) /\ HandledOf(b) \in Seq(Msg)
  BY FlowTypes, PickedBy, AmongType
<1>2. Holding(b) \in Seq(Msg)
  <2>1. held[b] \in Msg \cup {NoMsg}
    BY FlowTypes
  <2> QED
    BY <2>1 DEF Holding
<1>3. queue[b] \in Seq(Msg) /\ Handed(b) \subseteq Msg
  BY FlowTypes DEF Handed
<1> QED
  BY <1>1, <1>2, <1>3

(* What is in chMsg or handled was read from some registration, and is of  *)
(* no other.                                                               *)
LEMMA PassedIsRead ==
  ASSUME PInv
  PROVE  /\ \A i \in DOMAIN chMsg : chMsg[i] \in Msg /\ \E b \in Reg : ReadFrom(chMsg[i], b)
         /\ \A i \in DOMAIN handled : handled[i] \in Msg /\ \E b \in Reg : ReadFrom(handled[i], b)
<1>1. ASSUME NEW i \in DOMAIN handled PROVE handled[i] \in Msg /\ \E b \in Reg : ReadFrom(handled[i], b)
  <2>1. i \in DOMAIN Passed /\ Passed[i] = handled[i] /\ handled[i] \in Msg
    BY FlowTypes DEF Passed
  <2> QED
    BY <2>1, FlowingIs
<1>2. ASSUME NEW i \in DOMAIN chMsg PROVE chMsg[i] \in Msg /\ \E b \in Reg : ReadFrom(chMsg[i], b)
  <2>1. PICK n \in Nat : n = Len(handled)
    BY FlowTypes
  <2>2. n + i \in DOMAIN Passed /\ Passed[n + i] = chMsg[i] /\ chMsg[i] \in Msg
    BY <2>1, FlowTypes DEF Passed
  <2> QED
    BY <2>2, FlowingIs
<1> QED
  BY <1>1, <1>2

(* What the queues of the pipeline are seen to be. *)
LEMMA QueuesAre ==
  /\ PipelineQueues!vars = <<[b \in Reg |-> QueuePhase(b)], [b \in Reg |-> OnTheWay(b)],
                             [b \in Reg |-> HandledOf(b)], FALSE>>
BY DEF PipelineQueues!vars, QueuePhase, HandledOf

(* A step that nothing of this is changed by is not seen. *)
LEMMA NotSeen ==
  ASSUME \A b \in Reg : QueuePhase(b)' = QueuePhase(b),
         \A b \in Reg : OnTheWay(b)' = OnTheWay(b),
         \A b \in Reg : HandledOf(b)' = HandledOf(b)
  PROVE  UNCHANGED PipelineQueues!vars
BY DEF PipelineQueues!vars, QueuePhase, HandledOf
(* What is picked when nothing is accepted. *)
LEMMA HandedStays ==
  ASSUME UNCHANGED accepted PROVE \A b : Handed(b)' = Handed(b)
BY DEF Handed

(* Nothing of registration b moves. *)
LEMMA WayStays ==
  ASSUME NEW b, UNCHANGED <<accepted, chMsg>>, held'[b] = held[b], queue'[b] = queue[b]
  PROVE  OnTheWay(b)' = OnTheWay(b)
<1>1. InChMsg(b)' = InChMsg(b)
  BY HandedStays, PickedBy
<1>2. Holding(b)' = Holding(b)
  BY DEF Holding
<1> QED
  BY <1>1, <1>2, WayIs

(* Nothing is handled. *)
LEMMA HandledStays ==
  ASSUME NEW b, UNCHANGED <<accepted, handled>> PROVE HandledOf(b)' = HandledOf(b)
BY HandedStays, PickedBy

(* What moves from one part of the way to the next stays in its place. *)
LEMMA OutOfQueue ==
  ASSUME NEW S, NEW c \in Seq(S), NEW q \in Seq(S), q # <<>>
  PROVE  (c \o <<Head(q)>>) \o Tail(q) = (c \o <<>>) \o q
OBVIOUS

(* From the hands of a forwarder into chMsg. *)
LEMMA IntoChMsg ==
  ASSUME NEW S, NEW c \in Seq(S), NEW q \in Seq(S), NEW m \in S
  PROVE  (Append(c, m) \o <<>>) \o q = (c \o <<m>>) \o q
OBVIOUS

(* One element is a sequence. *)
LEMMA OneIsSeq == ASSUME NEW S, NEW m \in S PROVE <<m>> \in Seq(S)
OBVIOUS

(* What is first leaves first. *)
LEMMA FirstOfWay ==
  ASSUME NEW S, NEW c \in Seq(S), NEW h \in Seq(S), NEW q \in Seq(S), NEW m \in S,
         NEW w, w = ((<<m>> \o c) \o h) \o q
  PROVE  w # <<>> /\ Head(w) = m /\ Tail(w) = (c \o h) \o q
<1>1. \A r \in Seq(S) : <<m>> \o r # <<>> /\ Head(<<m>> \o r) = m /\ Tail(<<m>> \o r) = r
  OBVIOUS
<1>2. PICK d \in Seq(S) : d = c \o h
  BY ConcatProperties, Zenon
<1>3. PICK e \in Seq(S) : e = d \o q
  BY ConcatProperties, Zenon
<1>4. PICK f \in Seq(S) : f = <<m>>
  BY OneIsSeq, Zenon
<1>5. (f \o c) \o h = f \o (c \o h)
  OBVIOUS
<1>6. (f \o d) \o q = f \o (d \o q)
  OBVIOUS
<1>7. w = <<m>> \o e
  BY <1>2, <1>3, <1>4, <1>5, <1>6, Zenon
<1> QED
  BY <1>1, <1>2, <1>3, <1>7, Zenon

(* A forwarder takes the next delivery of its registration. *)
LEMMA TakeNotSeen ==
  ASSUME PInv, NEW b \in Reg, Take(b) PROVE UNCHANGED PipelineQueues!vars
<1>1. PICK m : m = Head(queue[b])
  BY Zenon
<1>2. PICK rest : rest = Tail(queue[b])
  BY Zenon
<1>3. /\ held' = [held EXCEPT ![b] = m] /\ queue' = [queue EXCEPT ![b] = rest]
      /\ stage' = [stage EXCEPT ![b] = IF rest = <<>> THEN "range" ELSE "select"]
      /\ UNCHANGED <<handled, chMsg, accepted, inClosed>>
      /\ stage[b] = "select" /\ forwarder[b] = "ranging"
  BY <1>1, <1>2 DEF Take, SelectOut
<1>4. queue[b] # <<>> /\ m \in Msg /\ held[b] = NoMsg /\ m # NoMsg
  BY <1>1, <1>3, NextIsLater, FlowingIs, FlowTypes
<1>5. /\ held'[b] = m /\ queue'[b] = rest
      /\ stage'[b] \in {"range", "select"}
      /\ \A a \in Reg \ {b} : held'[a] = held[a] /\ queue'[a] = queue[a] /\ stage'[a] = stage[a]
  BY <1>3, FlowTypes, CallerIsParser
<1>6. \A a \in Reg : QueuePhase(a)' = QueuePhase(a)
  BY <1>3, <1>5 DEF QueuePhase
<1>7. \A a \in Reg : HandledOf(a)' = HandledOf(a)
  BY <1>3, HandledStays
<1>8. InChMsg(b)' = InChMsg(b)
  BY <1>3, HandedStays, PickedBy
<1>9. Holding(b) = <<>> /\ Holding(b)' = <<m>>
  BY <1>4, <1>5 DEF Holding
<1>10. OnTheWay(b)' = OnTheWay(b)
  <2>1. PICK c \in Seq(Msg), q \in Seq(Msg) : c = InChMsg(b) /\ q = queue[b]
    BY WayTypes, Zenon
  <2>2. (c \o <<m>>) \o rest = (c \o <<>>) \o q
    BY <1>1, <1>2, <1>4, <2>1, OutOfQueue, Zenon
  <2> QED
    BY <1>5, <1>8, <1>9, <2>1, <2>2, WayIs, Zenon
<1>11. \A a \in Reg : OnTheWay(a)' = OnTheWay(a)
  BY <1>3, <1>5, <1>10, WayStays
<1> QED
  BY <1>6, <1>7, <1>11, NotSeen, Zenon

(* A forwarder passes on what it holds. *)
LEMMA PassOnNotSeen ==
  ASSUME PInv, NEW b \in Reg, PassOn(b) PROVE UNCHANGED PipelineQueues!vars
<1>1. PICK m : m = held[b]
  BY Zenon
<1>2. /\ forwarder[b] = "holding" /\ chMsg' = Append(chMsg, m)
      /\ held' = [held EXCEPT ![b] = NoMsg]
      /\ UNCHANGED <<accepted, handled, queue, stage, inClosed>>
  BY <1>1 DEF PassOn, vars
<1>3. m # NoMsg /\ ReadFrom(m, b)
  BY <1>1, <1>2, FlowingIs, Zenon
<1>4. m \in Msg /\ \A a \in Reg : m \in Handed(a) <=> a = b
  BY <1>3, ReadFromIs, HandedIs, Zenon
<1>5. held'[b] = NoMsg /\ \A a \in Reg \ {b} : held'[a] = held[a]
  BY <1>2, FlowTypes
<1>6. \A a \in Reg : InChMsg(a)' = IF a = b THEN Append(InChMsg(a), m) ELSE InChMsg(a)
  <2> SUFFICES ASSUME NEW a \in Reg
               PROVE  InChMsg(a)' = IF a = b THEN Append(InChMsg(a), m) ELSE InChMsg(a)
    BY Zenon
  <2>1. InChMsg(a)' = Among(Handed(a), Append(chMsg, m))
    BY <1>2, HandedStays, PickedBy
  <2>2. Among(Handed(a), Append(chMsg, m)) =
          IF m \in Handed(a) THEN Append(Among(Handed(a), chMsg), m) ELSE Among(Handed(a), chMsg)
    BY <1>4, FlowTypes, AmongAppend
  <2> QED
    BY <1>4, <2>1, <2>2, PickedBy
<1>7. OnTheWay(b)' = OnTheWay(b)
  <2>1. PICK c \in Seq(Msg), q \in Seq(Msg) : c = InChMsg(b) /\ q = queue[b]
    BY WayTypes, Zenon
  <2>2. Holding(b) = <<m>> /\ Holding(b)' = <<>>
    BY <1>1, <1>3, <1>5 DEF Holding
  <2>3. InChMsg(b)' = Append(c, m) /\ queue'[b] = q
    BY <1>2, <1>6, <2>1
  <2>4. (Append(c, m) \o <<>>) \o q = (c \o <<m>>) \o q
    BY <1>4, <2>1, IntoChMsg, Zenon
  <2> QED
    BY <2>1, <2>2, <2>3, <2>4, WayIs, Zenon
<1>8. ASSUME NEW a \in Reg, a # b PROVE OnTheWay(a)' = OnTheWay(a)
  <2>1. InChMsg(a)' = InChMsg(a) /\ queue'[a] = queue[a]
    BY <1>2, <1>6, <1>8
  <2>2. Holding(a)' = Holding(a)
    BY <1>5, <1>8 DEF Holding
  <2> QED
    BY <2>1, <2>2, WayIs, Zenon
<1>9. \A a \in Reg : QueuePhase(a)' = QueuePhase(a)
  BY <1>2 DEF QueuePhase
<1>10. \A a \in Reg : HandledOf(a)' = HandledOf(a)
  BY <1>2, HandledStays
<1> QED
  BY <1>7, <1>8, <1>9, <1>10, NotSeen, Zenon

(* handleMsg takes the first delivery in chMsg: its registration hands it  *)
(* out.                                                                    *)
LEMMA HandleHandsOut ==
  ASSUME PInv, Handle PROVE PipelineQueues!Next
<1>1. PICK m : m = Head(chMsg)
  BY Zenon
<1>2. PICK rest : rest = Tail(chMsg)
  BY Zenon
<1>3. /\ chMsg # <<>> /\ handled' = Append(handled, m) /\ chMsg' = rest
      /\ UNCHANGED <<accepted, held, queue, stage, inClosed>>
  BY <1>1, <1>2 DEF Handle, vars
<1>4. 1 \in DOMAIN chMsg /\ m = chMsg[1] /\ rest \in Seq(Msg)
  BY <1>1, <1>2, <1>3, FlowTypes
<1>5. PICK d \in Reg : ReadFrom(m, d)
  BY <1>4, PassedIsRead
<1>6. m \in Msg /\ \A a \in Reg : m \in Handed(a) <=> a = d
  BY <1>5, ReadFromIs, HandedIs, Zenon
<1>7. \A a \in Reg : InChMsg(a) = IF a = d THEN <<m>> \o InChMsg(a)' ELSE InChMsg(a)'
  <2> SUFFICES ASSUME NEW a \in Reg
               PROVE  InChMsg(a) = IF a = d THEN <<m>> \o InChMsg(a)' ELSE InChMsg(a)'
    BY Zenon
  <2>1. InChMsg(a)' = Among(Handed(a), rest)
    BY <1>3, HandedStays, PickedBy
  <2>2. Among(Handed(a), chMsg) =
          IF m \in Handed(a) THEN <<m>> \o Among(Handed(a), rest) ELSE Among(Handed(a), rest)
    BY <1>1, <1>2, <1>3, FlowTypes, AmongHead, Zenon
  <2>3. InChMsg(a) = Among(Handed(a), chMsg)
    BY PickedBy
  <2> QED
    BY <1>6, <2>1, <2>2, <2>3, Zenon
<1>8. \A a \in Reg : HandledOf(a)' = IF a = d THEN Append(HandledOf(a), m) ELSE HandledOf(a)
  <2> SUFFICES ASSUME NEW a \in Reg
               PROVE  HandledOf(a)' = IF a = d THEN Append(HandledOf(a), m) ELSE HandledOf(a)
    BY Zenon
  <2>1. HandledOf(a)' = Among(Handed(a), Append(handled, m))
    BY <1>3, HandedStays, PickedBy
  <2>2. Among(Handed(a), Append(handled, m)) =
          IF m \in Handed(a) THEN Append(Among(Handed(a), handled), m) ELSE Among(Handed(a), handled)
    BY <1>6, FlowTypes, AmongAppend
  <2> QED
    BY <1>6, <2>1, <2>2, PickedBy
<1>9. \A a \in Reg : Holding(a)' = Holding(a) /\ queue'[a] = queue[a] /\ QueuePhase(a)' = QueuePhase(a)
  BY <1>3 DEF Holding, QueuePhase
<1>10. OnTheWay(d) # <<>> /\ Head(OnTheWay(d)) = m /\ Tail(OnTheWay(d)) = OnTheWay(d)'
  <2>1. InChMsg(d)' \in Seq(Msg)
    <3>1. InChMsg(d)' = Among(Handed(d), rest)
      BY <1>3, HandedStays, PickedBy
    <3> QED
      BY <1>4, <3>1, AmongType
  <2>2. PICK c \in Seq(Msg), h \in Seq(Msg), q \in Seq(Msg) :
          c = InChMsg(d)' /\ h = Holding(d) /\ q = queue[d]
    BY <2>1, WayTypes, Zenon
  <2>3. PICK w : w = ((<<m>> \o c) \o h) \o q
    BY Zenon
  <2>4. w # <<>> /\ Head(w) = m /\ Tail(w) = (c \o h) \o q
    BY <1>6, <2>3, FirstOfWay
  <2>5. OnTheWay(d) = w
    BY <1>7, <2>2, <2>3, WayIs, Zenon
  <2>6. OnTheWay(d)' = (c \o h) \o q
    BY <1>9, <2>2, WayIs, Zenon
  <2> QED
    BY <2>4, <2>5, <2>6, Zenon
<1>11. \A a \in Reg \ {d} : OnTheWay(a)' = OnTheWay(a)
  BY <1>7, <1>9, WayIs, Zenon
<1>12. QueuePhase(d) \in {"open", "ending"}
  <2>1. \E i : i \in DOMAIN accepted[d]
    BY <1>6 DEF Handed
  <2>2. stage[d] # "unborn"
    BY <2>1 DEF PInv, IInv, Placed
  <2> QED
    BY <2>2 DEF QueuePhase
<1>13. PipelineQueues!HandOut(d)
  <2>1. [b \in Reg |-> HandledOf(b)]' =
          [[b \in Reg |-> HandledOf(b)] EXCEPT ![d] = Append(HandledOf(d), m)]
    BY <1>8
  <2>2. [b \in Reg |-> OnTheWay(b)]' = [[b \in Reg |-> OnTheWay(b)] EXCEPT ![d] = Tail(OnTheWay(d))]
    BY <1>10, <1>11
  <2>3. [b \in Reg |-> QueuePhase(b)]' = [b \in Reg |-> QueuePhase(b)]
    BY <1>9
  <2> QED
    BY <1>10, <1>12, <2>1, <2>2, <2>3 DEF PipelineQueues!HandOut, QueuePhase, HandledOf
<1> QED
  BY <1>13, Zenon DEF PipelineQueues!Next

(* dispatch hands a delivery over: its registration accepts it. *)
LEMMA AcceptedIsAccepted ==
  ASSUME PInv, Accepted PROVE PipelineQueues!Next
<1>1. PICK m \in Msg, d \in Reg : m = Len(tagOf) /\ m = Count + 1 /\ d = chans[tagOf[m]]
  BY AcceptedIs, BusyIs, Zenon
<1>2. PICK longer : longer = Append(queue[d], m)
  BY Zenon
<1>3. UNCHANGED <<chMsg, handled, held>> /\ queue' = [queue EXCEPT ![d] = longer]
  BY <1>1, <1>2, AcceptedIs DEF pipelineVars
<1>4. \A a \in Reg, x \in Msg : x # m => (x \in Handed(a)' <=> x \in Handed(a))
  <2>1. \A a, x : x \in Handed(a)' <=> In(x, a)'
    BY DEF Handed, In
  <2> QED
    BY <1>1, <2>1, AcceptedCounts, HandedIs, Zenon
<1>5. /\ \A i \in DOMAIN chMsg : chMsg[i] \in Msg /\ chMsg[i] # m
      /\ \A i \in DOMAIN handled : handled[i] \in Msg /\ handled[i] # m
  <2>1. ASSUME NEW b \in Reg, NEW x, ReadFrom(x, b) PROVE x # m
    BY <1>1, <2>1, ReadFromIs, SlotsAreFinite
  <2> QED
    BY <2>1, PassedIsRead
<1>6. \A a \in Reg : InChMsg(a)' = InChMsg(a) /\ HandledOf(a)' = HandledOf(a)
  <2> SUFFICES ASSUME NEW a \in Reg PROVE InChMsg(a)' = InChMsg(a) /\ HandledOf(a)' = HandledOf(a)
    BY Zenon
  <2>1. PICK A, B : A = Handed(a) /\ B = Handed(a)'
    BY Zenon
  <2>2. Among(A, chMsg) = Among(B, chMsg) /\ Among(A, handled) = Among(B, handled)
    BY <1>4, <1>5, <2>1, FlowTypes, AmongAgrees
  <2> QED
    BY <1>3, <2>1, <2>2, PickedBy
<1>7. \A a \in Reg : Holding(a)' = Holding(a)
  BY <1>3 DEF Holding
<1>8. queue'[d] = longer /\ \A a \in Reg \ {d} : queue'[a] = queue[a]
  BY <1>3, FlowTypes
<1>9. OnTheWay(d)' = Append(OnTheWay(d), m)
  <2>1. PICK c \in Seq(Msg), h \in Seq(Msg), q \in Seq(Msg) :
          c = InChMsg(d) /\ h = Holding(d) /\ q = queue[d]
    BY WayTypes, Zenon
  <2>0. c \o h \in Seq(Msg)
    OBVIOUS
  <2>2. PICK r \in Seq(Msg) : r = c \o h
    BY <2>0, Zenon
  <2>3. Append(r \o q, m) = r \o Append(q, m)
    BY AppendAtEnd, Zenon
  <2> QED
    BY <1>2, <1>6, <1>7, <1>8, <2>1, <2>2, <2>3, WayIs, Zenon
<1>10. \A a \in Reg \ {d} : OnTheWay(a)' = OnTheWay(a)
  BY <1>6, <1>7, <1>8, WayIs, Zenon
<1>11. call[Parser].to = d /\ d \notin inClosed /\ Live(d)
  BY <1>1, AcceptedIs, SendIsServed, PipelineAssumption, CallerIsParser, Zenon DEF PInv
<1>12. /\ UNCHANGED inClosed
       /\ stage' = [stage EXCEPT ![d] = "select"]
  BY <1>11 DEF Accepted, SendDone
<1>13. QueuePhase(d) = "open" /\ \A a \in Reg : QueuePhase(a)' = QueuePhase(a)
  BY <1>11, <1>12, CallerIsParser DEF QueuePhase, Live
<1>14. PipelineQueues!Accept(d, m)
  <2>1. [b \in Reg |-> OnTheWay(b)]' = [[b \in Reg |-> OnTheWay(b)] EXCEPT ![d] = Append(OnTheWay(d), m)]
    BY <1>9, <1>10
  <2>2. [b \in Reg |-> QueuePhase(b)]' = [b \in Reg |-> QueuePhase(b)]
    BY <1>13
  <2>3. [b \in Reg |-> HandledOf(b)]' = [b \in Reg |-> HandledOf(b)]
    BY <1>6
  <2> QED
    BY <1>13, <2>1, <2>2, <2>3 DEF PipelineQueues!Accept, QueuePhase, HandledOf
<1> QED
  BY <1>14, Zenon DEF PipelineQueues!Next

(* A step that only the phases see. *)
LEMMA OnlyPhases ==
  ASSUME UNCHANGED <<accepted, chMsg, handled, held, queue>>
  PROVE  \A a \in Reg : OnTheWay(a)' = OnTheWay(a) /\ HandledOf(a)' = HandledOf(a)
BY WayStays, HandledStays

(* The first delivery of a tag opens a queue. *)
LEMMA FirstOpens ==
  ASSUME PInv, NEW t \in Tag, DeliverFirst(t) PROVE PipelineQueues!Next
<1>1. chans[t] = NoReg /\ Add(Parser, t) /\ UNCHANGED <<chMsg, handled, held>>
  BY DEF DeliverFirst
<1>2. PICK d \in Reg : stage[d] = "unborn" /\ stage' = [stage EXCEPT ![d] = "range"]
  BY <1>1, AddIs, Zenon
<1>3. inClosed' = inClosed /\ UNCHANGED <<accepted, queue>>
  BY <1>1 DEF Add, CloseIn, Registered
<1>4. d \notin inClosed
  BY <1>2 DEF PInv, IInv, Placed
<1>5. QueuePhase(d) = "new" /\ QueuePhase(d)' = "open"
      /\ \A a \in Reg \ {d} : QueuePhase(a)' = QueuePhase(a)
  BY <1>2, <1>3, <1>4, CallerIsParser DEF QueuePhase
<1>6. \A a \in Reg : OnTheWay(a)' = OnTheWay(a) /\ HandledOf(a)' = HandledOf(a)
  BY <1>1, <1>3, OnlyPhases
<1>7. PipelineQueues!Open(d, {})
  BY <1>5, <1>6 DEF PipelineQueues!Open, QueuePhase, HandledOf
<1> QED
  BY <1>7 DEF PipelineQueues!Next

(* A cancellation ends the queue of its tag. *)
LEMMA CancelTagCancels ==
  ASSUME PInv, NEW t \in Tag, CancelTag(t) PROVE PipelineQueues!Next
<1>1. Cancel(Parser, t) /\ UNCHANGED <<chMsg, handled, held>>
  BY DEF CancelTag
<1>2. PICK d \in Reg : d = chans[t] /\ Registered({t}) = {d}
  BY <1>1, CallerIsParser DEF Registered, Cancel
<1>3. UNCHANGED <<stage, queue, accepted>> /\ inClosed' = inClosed \cup {d}
  BY <1>1, <1>2 DEF Cancel, CloseIn, goroutineVars
<1>4. Live(d) /\ d \notin inClosed
  BY <1>2, RegisteredIsOpen DEF PInv
<1>5. QueuePhase(d) = "open" /\ QueuePhase(d)' = "ending"
      /\ \A a \in Reg \ {d} : QueuePhase(a)' = QueuePhase(a)
  BY <1>3, <1>4 DEF QueuePhase, Live
<1>6. \A a \in Reg : OnTheWay(a)' = OnTheWay(a) /\ HandledOf(a)' = HandledOf(a)
  BY <1>1, <1>3, OnlyPhases
<1>7. PipelineQueues!Cancel(d)
  BY <1>5, <1>6 DEF PipelineQueues!Cancel, QueuePhase, HandledOf
<1> QED
  BY <1>7, Zenon DEF PipelineQueues!Next

(* The other steps are not seen. *)
LEMMA OthersNotSeen ==
  ASSUME PInv,
         \/ UNCHANGED allVars \/ SendFirst
         \/ \E t \in Tag : DeliverNext(t)
         \/ \E b \in Reg : Buffer(b) \/ ForwarderEnds(b)
  PROVE  UNCHANGED PipelineQueues!vars
<1>1. UNCHANGED <<accepted, chMsg, handled, held, queue, inClosed>>
  BY CallerIsParser, SendIs DEF allVars, vars, pipelineVars, SendFirst, DeliverNext, Buffer, ForwarderEnds,
         RangeEnds, SelectInflightEnds, CloseOut, Send, goroutineVars
<1>2. \A a \in Reg : stage'[a] = "unborn" <=> stage[a] = "unborn"
  BY CallerIsParser DEF allVars, vars, pipelineVars, SendFirst, DeliverNext, Buffer, ForwarderEnds,
         RangeEnds, SelectInflightEnds, CloseOut, Send, goroutineVars, Leave
<1>3. \A a \in Reg : QueuePhase(a)' = QueuePhase(a)
  BY <1>1, <1>2 DEF QueuePhase
<1> QED
  BY <1>1, <1>3, OnlyPhases, NotSeen

(* Every step is a step of the queues, or is not seen. *)
LEMMA StepPipelineQueues ==
  PInv /\ [PipelineNext]_allVars => [PipelineQueues!Next]_(PipelineQueues!vars)
BY HandleHandsOut, AcceptedIsAccepted, FirstOpens, CancelTagCancels, OthersNotSeen,
   TakeNotSeen, PassOnNotSeen, Zenon DEF PipelineNext

(* The queues are all new at first. *)
LEMMA InitPipelineQueues == PipelineInit => PipelineQueues!Init
<1> SUFFICES ASSUME PipelineInit PROVE PipelineQueues!Init
  OBVIOUS
<1>1. \A b \in Reg : QueuePhase(b) = "new"
  BY DEF PipelineInit, Init, QueuePhase
<1>2. chMsg = <<>> /\ handled = <<>>
  BY DEF PipelineInit
<1>3. \A b \in Reg : HandledOf(b) = <<>> /\ InChMsg(b) = <<>>
  BY <1>2, PickedBy, AmongNothing
<1>4. \A b \in Reg : Holding(b) = <<>> /\ queue[b] = <<>>
  BY DEF PipelineInit, Init, Holding
<1>5. \A b \in Reg : OnTheWay(b) = <<>>
  <2>1. (<<>> \o <<>>) \o <<>> = <<>>
    OBVIOUS
  <2> QED
    BY <1>3, <1>4, <2>1, WayIs, Zenon
<1> QED
  BY <1>1, <1>3, <1>5 DEF PipelineQueues!Init, QueuePhase, HandledOf

(***************************************************************************)
(* From dispatch to handleMsg every registration is one lossless queue,    *)
(* for any tags, any deliveries and cancellations and any capacity of      *)
(* chMsg: nothing is lost, repeated or reordered between the goroutines.   *)
(***************************************************************************)
THEOREM PipelineRefinement == PipelineSpec => ImplementsPipelineQueues
BY StepPipelineQueues, InitPipelineQueues, PipelineInvariance, PTL
   DEF PipelineSpec, PipelineQueues!Spec, ImplementsPipelineQueues
=============================================================================
