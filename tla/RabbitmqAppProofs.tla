------------------------- MODULE RabbitmqAppProofs -------------------------
(***************************************************************************)
(* The queue of the RabbitMQ example is a work queue, whatever number of   *)
(* processes runs, one after the other or at a time, and however many      *)
(* messages they publish. Each step changes one process and its            *)
(* connections: there is a lemma <action>Local for each, which says that   *)
(* what holds of that process still does, and that the broker's books only *)
(* grow. That is enough for the others. The second part of the module      *)
(* counts how often a message is handled again.                            *)
(***************************************************************************)
EXTENDS RabbitmqApp, TLAPS, FiniteSetTheorems

Enqueued == queue \cup removed \cup UNION {link[p].unacked : p \in Proc}

(***************************************************************************)
(* What holds of one process P and its connections L, H being the messages *)
(* handled and E those that have come to the queue. wg counts publish and  *)
(* consume. What is acknowledged was handled, and what is delivered came   *)
(* from the queue. While the consumer's connection is up, its one          *)
(* unacknowledged delivery is in one place: not handled yet, held by the   *)
(* consumer, or in an acknowledgement on its way.                          *)
(***************************************************************************)
Counted(P) ==
  P.wg = (IF P.pub = "gone" THEN 0 ELSE 1) + (IF P.con \in {"dial", "waiting"} THEN 1 ELSE 0)

(* What publish has done by where it stands. *)
Published(P, L) ==
  /\ L.received <= P.count
  /\ P.pub = "publish" => P.count < MaxPublish
  /\ P.pub \in {"loop", "publish", "close"} => L.pub \in {"open", "down"}
  /\ P.main \in {"waiting", "joining"} /\ P.pub = "gone" => L.pub \in {"closed", "down"}
  /\ L.pub = "closed" => L.received = P.count

(* consume starts the consumer, once it has a connection. *)
Started(P, L) ==
  /\ P.worker = "acking" <=> P.holding # NoMsg
  /\ P.main = "idle" => P.con = "gone"
  /\ P.main = "idle" \/ P.con = "dial" => P.worker = "gone" /\ L.con = "none"

Placed(P, L) == Counted(P) /\ Published(P, L) /\ Started(P, L)

Justified(P, L, H, E) ==
  /\ L.acks \subseteq H /\ (P.holding # NoMsg => P.holding \in H)
  /\ L.inbox \subseteq E

InOnePlace(P, L) ==
  /\ L.acks \subseteq L.unacked
  /\ L.unacked = {} \/ \E m \in Msg : L.unacked = {m}
  /\ L.con \in {"none", "open"} =>
       /\ L.inbox \subseteq L.unacked \ L.acks
       /\ P.holding # NoMsg => P.holding \in L.unacked \ (L.acks \cup L.inbox)

Good(P, L, H, E) == Placed(P, L) /\ Justified(P, L, H, E) /\ InOnePlace(P, L)

Typed ==
  /\ proc \in [Proc -> Process] /\ link \in [Proc -> Links]
  /\ declared \in BOOLEAN
  /\ queue \subseteq Msg /\ removed \subseteq Msg /\ handled \subseteq Msg
  /\ repeats \in Nat

IInv ==
  /\ Typed
  /\ removed \subseteq handled
  /\ \A p \in Proc : Good(proc[p], link[p], handled, Enqueued)

(***************************************************************************)
(* What every step is: one process and its connections change, and the     *)
(* messages that have come, were handled or were removed get more.         *)
(***************************************************************************)
Local(p) ==
  /\ Typed'
  /\ \A q \in Proc \ {p} : proc'[q] = proc[q] /\ link'[q] = link[q]
  /\ Enqueued \subseteq Enqueued' /\ handled \subseteq handled'
  /\ removed \subseteq removed' /\ removed' \subseteq handled'
  /\ Good(proc'[p], link'[p], handled', Enqueued')

LEMMA OfProcess ==
  ASSUME IInv, NEW p \in Proc
  PROVE  /\ proc[p] \in Process /\ link[p] \in Links
         /\ Good(proc[p], link[p], handled, Enqueued)
BY DEF IInv, Typed

(* One value of a function is replaced.                                    *)
LEMMA OneChanges ==
  ASSUME NEW S, NEW V, NEW f \in [S -> V], NEW x \in S, NEW v \in V, NEW g,
         g = [f EXCEPT ![x] = v]
  PROVE  g \in [S -> V] /\ g[x] = v /\ \A y \in S \ {x} : g[y] = f[y]
OBVIOUS

(* Messages that come, are handled and are removed do not disturb anyone.  *)
LEMMA GoodIsStable ==
  ASSUME NEW P, NEW L, NEW H, NEW E, NEW H2, NEW E2,
         H \subseteq H2, E \subseteq E2, Good(P, L, H, E)
  PROVE  Good(P, L, H2, E2)
BY DEF Good, Justified

LEMMA LocalIInv ==
  ASSUME IInv, NEW p \in Proc, Local(p)
  PROVE  IInv'
<1>1. ASSUME NEW q \in Proc PROVE Good(proc'[q], link'[q], handled', Enqueued')
  <2>1. CASE q = p
    BY <2>1 DEF Local
  <2>2. CASE q # p
    <3>1. Good(proc[q], link[q], handled, Enqueued)
      BY DEF IInv
    <3>2. Good(proc[q], link[q], handled', Enqueued')
      BY <3>1, GoodIsStable DEF Local
    <3> QED BY <2>2, <3>2 DEF Local
  <2> QED BY <2>1, <2>2
<1> QED BY <1>1 DEF IInv, Local

-----------------------------------------------------------------------------
(* Messages stay in the broker's books when those of one process move.     *)
LEMMA EnqueuedGrows ==
  ASSUME Typed, NEW p \in Proc, Typed',
         \A q \in Proc \ {p} : link'[q] = link[q],
         queue \subseteq queue' \cup link'[p].unacked,
         link[p].unacked \subseteq queue' \cup removed' \cup link'[p].unacked,
         removed \subseteq removed'
  PROVE  Enqueued \subseteq Enqueued'
<1> SUFFICES ASSUME NEW m \in Enqueued PROVE m \in Enqueued'
  OBVIOUS
<1>1. link'[p].unacked \subseteq Enqueued'
  BY DEF Enqueued
<1>2. CASE m \in queue \cup removed \cup link[p].unacked
  BY <1>1, <1>2 DEF Enqueued
<1>3. ASSUME NEW q \in Proc \ {p}, m \in link[q].unacked PROVE m \in Enqueued'
  BY <1>3 DEF Enqueued
<1> QED BY <1>2, <1>3 DEF Enqueued

-----------------------------------------------------------------------------
(* Steps of the goroutines that leave connections and messages alone.      *)
Goroutine(p) ==
  /\ proc' \in [Proc -> Process] /\ \A q \in Proc \ {p} : proc'[q] = proc[q]
  /\ UNCHANGED <<link, store, history>>
  /\ proc'[p].holding \in {proc[p].holding, NoMsg}

LEMMA GoroutineLocal ==
  ASSUME IInv, NEW p \in Proc, Goroutine(p), Placed(proc'[p], link[p])
  PROVE  Local(p)
<1>1. Enqueued' = Enqueued
  BY DEF Enqueued, Goroutine, store
<1>2. Good(proc'[p], link'[p], handled', Enqueued')
  BY <1>1 DEF IInv, Good, Goroutine, store, history, Justified, InOnePlace
<1> QED BY <1>1, <1>2 DEF IInv, Typed, Local, Goroutine, store, history

LEMMA StartLocal == ASSUME IInv, NEW p \in Proc, Start(p) PROVE Local(p)
<1> DEFINE P == [proc[p] EXCEPT !.main = "waiting", !.wg = 2, !.pub = "dial", !.con = "dial"]
<1>0. proc[p] \in Process
  BY DEF IInv, Typed
<1>1. /\ P \in Process /\ P.wg = 2 /\ P.pub = "dial" /\ P.con = "dial"
      /\ P.worker = proc[p].worker /\ P.holding = proc[p].holding /\ P.count = proc[p].count
  <2>1. P \in Process
    <3>1. 2 \in 0 .. 2
      OBVIOUS
    <3> QED BY <1>0, <3>1, Zenon DEF Process
  <2>2. P.wg = 2 /\ P.pub = "dial" /\ P.con = "dial"
    BY <1>0 DEF Process
  <2>3. P.worker = proc[p].worker /\ P.holding = proc[p].holding /\ P.count = proc[p].count
    BY <1>0 DEF Process
  <2> QED BY <2>1, <2>2, <2>3
<1>2. proc' = [proc EXCEPT ![p] = P]
  BY DEF Start, IInv, Typed
<1> HIDE DEF P
<1>3. Goroutine(p) /\ proc'[p] = P
  <2>1. /\ proc' \in [Proc -> Process] /\ proc'[p] = P
        /\ \A q \in Proc \ {p} : proc'[q] = proc[q]
    BY <1>1, <1>2, OneChanges DEF IInv, Typed
  <2>2. UNCHANGED <<link, store, history>>
    BY DEF Start
  <2> QED BY <1>1, <2>1, <2>2 DEF Goroutine
<1>4. Counted(proc'[p])
  BY <1>1, <1>3 DEF Counted
<1>5. /\ proc[p].main = "idle" /\ P.main = "waiting"
      /\ Published(proc[p], link[p]) /\ Started(proc[p], link[p])
  BY <1>0, OfProcess DEF P, Start, MayStart, Process, Good, Placed
<1>6. Published(P, link[p])
  BY <1>1, <1>5 DEF Published
<1>7. Started(P, link[p])
  BY <1>1, <1>5 DEF Started
<1> QED BY <1>3, <1>4, <1>6, <1>7, GoroutineLocal DEF Placed

LEMMA InterruptLocal == ASSUME IInv, NEW p \in Proc, Interrupt(p) PROVE Local(p)
<1>1. Goroutine(p)
  BY DEF Interrupt, Goroutine, IInv, Typed, Process
<1>2. Placed(proc'[p], link[p])
  BY DEF Interrupt, IInv, Typed, Process, Good, Placed, Counted, Published, Started
<1> QED BY <1>1, <1>2, GoroutineLocal

LEMMA PubSelectLocal == ASSUME IInv, NEW p \in Proc, PubSelect(p) PROVE Local(p)
<1>1. PICK pub \in {"close", "publish"} :
        /\ proc' = [proc EXCEPT ![p].pub = pub]
        /\ pub = "publish" => proc[p].count < MaxPublish
  BY DEF PubSelect
<1> DEFINE P == [proc[p] EXCEPT !.pub = pub]
<1>2. /\ P \in Process /\ P.pub = pub /\ P.main = proc[p].main /\ P.wg = proc[p].wg
      /\ P.count = proc[p].count /\ P.con = proc[p].con
      /\ P.worker = proc[p].worker /\ P.holding = proc[p].holding
  BY OfProcess DEF Process
<1>3. proc' = [proc EXCEPT ![p] = P]
  BY <1>1
<1> HIDE DEF P
<1>4. Goroutine(p) /\ proc'[p] = P
  <2>1. /\ proc' \in [Proc -> Process] /\ proc'[p] = P
        /\ \A q \in Proc \ {p} : proc'[q] = proc[q]
    BY <1>2, <1>3, OneChanges DEF IInv, Typed
  <2>2. UNCHANGED <<link, store, history>>
    BY DEF PubSelect
  <2> QED BY <1>2, <2>1, <2>2 DEF Goroutine
<1>5. proc[p].pub = "loop" /\ Placed(proc[p], link[p])
  BY OfProcess DEF PubSelect, Good
<1>6. Counted(P) /\ Started(P, link[p])
  BY <1>2, <1>5 DEF Placed, Counted, Started
<1>7. Published(P, link[p])
  BY <1>1, <1>2, <1>5 DEF Placed, Published
<1> QED BY <1>4, <1>6, <1>7, GoroutineLocal DEF Placed

LEMMA ConDoneLocal == ASSUME IInv, NEW p \in Proc, ConDone(p) PROVE Local(p)
<1>1. Counted(proc'[p]) /\ proc'[p].wg \in 0 .. 2
  BY DEF ConDone, IInv, Typed, Process, Good, Placed, Counted
<1>2. Goroutine(p) /\ Published(proc'[p], link[p]) /\ Started(proc'[p], link[p])
  BY <1>1 DEF ConDone, Goroutine, IInv, Typed, Process, Good, Placed, Published, Started
<1> QED BY <1>1, <1>2, GoroutineLocal DEF Placed

LEMMA LeaveLocal == ASSUME IInv, NEW p \in Proc, Leave(p) PROVE Local(p)
<1>1. Goroutine(p)
  BY DEF Leave, Goroutine, IInv, Typed, Process
<1>2. Placed(proc'[p], link[p])
  BY DEF Leave, IInv, Typed, Process, Good, Placed, Counted, Published, Started
<1> QED BY <1>1, <1>2, GoroutineLocal

-----------------------------------------------------------------------------
(* The process ends: its connections fall, what they hold comes back.      *)
LEMMA EndLocal ==
  ASSUME IInv, NEW p \in Proc, NEW how \in {"exited", "failed"}, End(p, how)
  PROVE  Local(p)
<1>0. PICK n \in link[p].received .. proc[p].count, A \in SUBSET link[p].acks :
      /\ link' = [link EXCEPT ![p] =
           [TakenBack(link[p], IF ConUp(p) THEN "down" ELSE link[p].con) EXCEPT
              !.pub = IF link[p].pub = "none" THEN "none" ELSE "down",
              !.received = n, !.inbox = {}]]
      /\ queue' = queue \cup Arriving(p, n) \cup (link[p].unacked \ A)
      /\ removed' = removed \cup A
  BY DEF End
<1> DEFINE P == proc[p]
           L == link[p]
<1>1. /\ P \in Process /\ L \in Links /\ L.received \in Nat /\ P.count \in Nat
      /\ Good(P, L, handled, Enqueued)
  BY RabbitmqAppAssumption DEF IInv, Typed, Process, Links
<1>2. /\ proc' \in [Proc -> Process] /\ \A q \in Proc \ {p} : proc'[q] = proc[q]
      /\ proc'[p].main = how /\ proc'[p].wg = 0 /\ proc'[p].pub = "gone" /\ proc'[p].con = "gone"
      /\ proc'[p].worker = "gone" /\ proc'[p].holding = NoMsg /\ proc'[p].count = P.count
  <2> DEFINE ended == [P EXCEPT !.main = how, !.pub = "gone", !.con = "gone",
                                !.worker = "gone", !.holding = NoMsg, !.wg = 0]
  <2>1. ended \in Process
    <3>1. 0 \in 0 .. 2
      OBVIOUS
    <3> QED BY <1>1, <3>1, Zenon DEF Process
  <2>2. /\ ended.main = how /\ ended.wg = 0 /\ ended.pub = "gone" /\ ended.con = "gone"
        /\ ended.worker = "gone" /\ ended.holding = NoMsg /\ ended.count = P.count
    BY <1>1 DEF Process
  <2>3. proc' = [proc EXCEPT ![p] = ended]
    BY DEF End, IInv, Typed
  <2> HIDE DEF ended
  <2> QED BY <2>1, <2>2, <2>3 DEF IInv, Typed
<1>3. /\ link' \in [Proc -> Links] /\ \A q \in Proc \ {p} : link'[q] = link[q]
      /\ link'[p].pub # "closed" /\ link'[p].received = n /\ link'[p].inbox = {}
      /\ link'[p].unacked = {} /\ link'[p].acks = {}
  <2>1. n \in 0 .. MaxPublish
    BY <1>1, RabbitmqAppAssumption DEF Process
  <2> DEFINE con == IF ConUp(p) THEN "down" ELSE L.con
             pub == IF L.pub = "none" THEN "none" ELSE "down"
             fallen == [TakenBack(L, con) EXCEPT !.pub = pub, !.received = n, !.inbox = {}]
  <2>2. con \in {"none", "open", "closing", "down"} /\ pub \in {"none", "open", "closed", "down"}
    BY <1>1 DEF Links
  <2>0. pub # "closed"
    OBVIOUS
  <2> HIDE DEF con, pub
  <2>3. /\ fallen \in Links /\ fallen.pub = pub /\ fallen.received = n /\ fallen.inbox = {}
        /\ fallen.unacked = {} /\ fallen.acks = {}
    BY <1>1, <2>1, <2>2 DEF Links, TakenBack
  <2>4. link' = [link EXCEPT ![p] = fallen]
    BY <1>0 DEF con, pub
  <2> HIDE DEF fallen
  <2>5. /\ link' \in [Proc -> Links] /\ link'[p] = fallen
        /\ \A q \in Proc \ {p} : link'[q] = link[q]
    BY <2>3, <2>4 DEF IInv, Typed
  <2> QED BY <2>0, <2>3, <2>5
<1>4. A \subseteq handled /\ A \subseteq Msg
  BY <1>1 DEF Good, Justified, Links
<1>5. Arriving(p, n) \subseteq Msg
  <2>1. \A i \in L.received + 1 .. n : i \in 1 .. MaxPublish
    BY <1>1, RabbitmqAppAssumption DEF Process
  <2> QED BY <2>1 DEF Arriving, Msg, Own
<1>6. Typed'
  BY <1>0, <1>1, <1>2, <1>3, <1>4, <1>5 DEF IInv, Typed, End, history, Links
<1>7. Enqueued \subseteq Enqueued'
  BY <1>0, <1>3, <1>6, EnqueuedGrows DEF IInv
<1>8. Placed(proc'[p], link'[p])
  <2>1. Counted(proc'[p])
    BY <1>2 DEF Counted
  <2>2. Started(proc'[p], link'[p])
    BY <1>2 DEF Started
  <2>3. Published(proc'[p], link'[p])
    BY <1>1, <1>2, <1>3 DEF Published
  <2> QED BY <2>1, <2>2, <2>3 DEF Placed
<1>9. Justified(proc'[p], link'[p], handled', Enqueued') /\ InOnePlace(proc'[p], link'[p])
  BY <1>1, <1>2, <1>3 DEF End, history, Good, Justified, InOnePlace
<1> QED BY <1>0, <1>2, <1>3, <1>4, <1>6, <1>7, <1>8, <1>9 DEF Local, Good, IInv, End, history

LEMMA FatalLocal == ASSUME IInv, NEW p \in Proc, Fatal(p) PROVE Local(p)
BY EndLocal DEF Fatal

LEMMA MainReturnsLocal == ASSUME IInv, NEW p \in Proc, MainReturns(p) PROVE Local(p)
BY EndLocal DEF MainReturns

-----------------------------------------------------------------------------
(* The process is P after the step, its connections are L.                 *)
LEMMA StepLocal ==
  ASSUME IInv, NEW p \in Proc, NEW P \in Process, NEW L \in Links,
         proc' = [proc EXCEPT ![p] = P], link' = [link EXCEPT ![p] = L],
         UNCHANGED declared, queue' \subseteq Msg, handled' \subseteq Msg, repeats' \in Nat,
         handled \subseteq handled', removed \subseteq removed', removed' \subseteq handled',
         queue \subseteq queue' \cup L.unacked,
         link[p].unacked \subseteq queue' \cup removed' \cup L.unacked,
         Good(P, L, handled', Enqueued \cup L.unacked)
  PROVE  Local(p)
<1>1. /\ proc' \in [Proc -> Process] /\ proc'[p] = P
      /\ \A q \in Proc \ {p} : proc'[q] = proc[q]
  BY OneChanges DEF IInv, Typed
<1>2. /\ link' \in [Proc -> Links] /\ link'[p] = L
      /\ \A q \in Proc \ {p} : link'[q] = link[q]
  BY OneChanges DEF IInv, Typed
<1>3. Typed'
  BY <1>1, <1>2 DEF IInv, Typed
<1>4. Enqueued \subseteq Enqueued'
  BY <1>2, <1>3, EnqueuedGrows DEF IInv
<1>5. L.unacked \subseteq Enqueued'
  BY <1>2 DEF Enqueued
<1>6. Good(P, L, handled', Enqueued')
  BY <1>4, <1>5, GoodIsStable
<1> QED BY <1>1, <1>2, <1>3, <1>4, <1>6 DEF Local

LEMMA PublishLocal == ASSUME IInv, NEW p \in Proc, Publish(p) PROVE Local(p)
<1>1. CASE Fatal(p)
  BY <1>1, FatalLocal
<1>2. CASE ~Fatal(p)
  <2>1. /\ proc[p].pub = "publish" /\ PubUp(p)
        /\ proc' = [proc EXCEPT ![p].pub = "loop", ![p].count = @ + 1]
        /\ UNCHANGED <<link, store, history>>
    BY <1>2 DEF Publish
  <2>2. /\ proc[p].count \in Nat /\ link[p].received \in Nat
        /\ proc[p].count + 1 \in 0 .. MaxPublish
    BY <2>1, RabbitmqAppAssumption DEF IInv, Good, Placed, Published, Typed, Process, Links
  <2>3. Goroutine(p)
    BY <2>1, <2>2 DEF Goroutine, IInv, Typed, Process
  <2>4. Counted(proc'[p])
    BY <2>1 DEF Counted, IInv, Typed, Process, Good, Placed
  <2>5. Published(proc'[p], link[p]) /\ Started(proc'[p], link[p])
    BY <2>1, <2>2 DEF Published, Started, IInv, Typed, Process, Good, Placed, PubUp
  <2> QED BY <2>3, <2>4, <2>5, GoroutineLocal DEF Placed
<1> QED BY <1>1, <1>2

(* Steps that change a connection and leave what is on it alone.           *)
LEMMA ConnectionLocal ==
  ASSUME IInv, NEW p \in Proc, NEW P \in Process, NEW L \in Links,
         proc' = [proc EXCEPT ![p] = P], link' = [link EXCEPT ![p] = L],
         UNCHANGED <<store, history>>,
         P.holding = proc[p].holding, L.unacked = link[p].unacked,
         L.acks = link[p].acks, L.inbox = link[p].inbox,
         L.con \in {"none", "open"} => link[p].con \in {"none", "open"},
         Placed(P, L)
  PROVE  Local(p)
<1>1. Good(P, L, handled', Enqueued \cup L.unacked)
  <2>1. Good(proc[p], link[p], handled, Enqueued)
    BY DEF IInv
  <2>2. Justified(P, L, handled', Enqueued \cup L.unacked)
    BY <2>1 DEF Good, Justified, history
  <2>3. InOnePlace(P, L)
    BY <2>1 DEF Good, InOnePlace
  <2> QED BY <2>2, <2>3 DEF Good
<1> QED BY <1>1, StepLocal DEF IInv, Typed, store, history

LEMMA PubDialLocal == ASSUME IInv, NEW p \in Proc, PubDial(p) PROVE Local(p)
<1>1. CASE Fatal(p)
  BY <1>1, FatalLocal
<1>2. CASE ~Fatal(p)
  <2> DEFINE P == [proc[p] EXCEPT !.pub = "loop"]
             L == [link[p] EXCEPT !.pub = "open"]
  <2>1. /\ proc[p].pub = "dial" /\ UNCHANGED <<store, history>>
        /\ proc' = [proc EXCEPT ![p] = P] /\ link' = [link EXCEPT ![p] = L]
    BY <1>2 DEF PubDial
  <2>2. P \in Process /\ L \in Links
    <3>1. P \in Process
      BY OfProcess, Zenon DEF Process
    <3>2. L \in Links
      BY OfProcess, Zenon DEF Links
    <3> QED BY <3>1, <3>2
  <2>3. Placed(P, L)
    BY <2>1 DEF IInv, Typed, Process, Links, Good, Placed, Counted, Published, Started
  <2> QED BY <2>1, <2>2, <2>3, ConnectionLocal DEF IInv, Typed, Process, Links
<1> QED BY <1>1, <1>2

LEMMA PubCloseLocal == ASSUME IInv, NEW p \in Proc, PubClose(p) PROVE Local(p)
<1> DEFINE P == [proc[p] EXCEPT !.pub = "gone", !.wg = @ - 1]
           L == [link[p] EXCEPT !.pub = IF PubUp(p) THEN "closed" ELSE @]
<1>1. /\ proc[p].pub = "close" /\ UNCHANGED <<store, history>>
      /\ PubUp(p) => link[p].received = proc[p].count
      /\ proc' = [proc EXCEPT ![p] = P] /\ link' = [link EXCEPT ![p] = L]
  BY DEF PubClose, IInv, Typed
<1>2. Counted(P) /\ P.wg \in 0 .. 2
  BY <1>1 DEF IInv, Typed, Process, Good, Placed, Counted
<1>3. P \in Process /\ L \in Links
  <2>1. P \in Process
    BY OfProcess, <1>2, Zenon DEF Process
  <2>2. L \in Links
    BY OfProcess, Zenon DEF Links
  <2> QED BY <2>1, <2>2
<1>4. Published(P, L) /\ Started(P, L)
  BY <1>1 DEF IInv, Typed, Process, Links, Good, Placed, Published, Started, PubUp
<1> QED BY <1>1, <1>2, <1>3, <1>4, ConnectionLocal DEF IInv, Typed, Process, Links, Placed

LEMMA ConDialLocal == ASSUME IInv, NEW p \in Proc, ConDial(p) PROVE Local(p)
<1>1. CASE Fatal(p)
  BY <1>1, FatalLocal
<1>2. CASE ~Fatal(p)
  <2> DEFINE P == [proc[p] EXCEPT !.con = "waiting", !.worker = "subscribe"]
             L == [link[p] EXCEPT !.con = "open"]
  <2>1. /\ proc[p].con = "dial" /\ UNCHANGED <<store, history>>
        /\ proc' = [proc EXCEPT ![p] = P] /\ link' = [link EXCEPT ![p] = L]
    BY <1>2 DEF ConDial, IInv, Typed
  <2>2. P \in Process /\ L \in Links
    <3>1. P \in Process
      BY OfProcess, Zenon DEF Process
    <3>2. L \in Links
      BY OfProcess, Zenon DEF Links
    <3> QED BY <3>1, <3>2
  <2>3. Counted(P) /\ Published(P, L)
    BY <2>1 DEF IInv, Typed, Process, Links, Good, Placed, Counted, Published
  <2>4. proc[p].worker = "gone" /\ proc[p].holding = NoMsg /\ link[p].con = "none"
    BY <2>1, OfProcess DEF Good, Placed, Started
  <2>5. Started(P, L)
    BY <2>1, <2>4, OfProcess DEF Process, Good, Placed, Started
  <2> QED BY <2>1, <2>2, <2>3, <2>4, <2>5, ConnectionLocal DEF IInv, Typed, Process, Links, Placed
<1> QED BY <1>1, <1>2

LEMMA ConCloseLocal == ASSUME IInv, NEW p \in Proc, ConClose(p) PROVE Local(p)
<1> DEFINE P == [proc[p] EXCEPT !.con = "gone"]
           L == [link[p] EXCEPT !.con = IF @ = "open" THEN "closing" ELSE @]
<1>1. /\ proc[p].con = "close" /\ UNCHANGED <<store, history>>
      /\ proc' = [proc EXCEPT ![p] = P] /\ link' = [link EXCEPT ![p] = L]
  BY DEF ConClose, IInv, Typed
<1>2. P \in Process /\ L \in Links
  <2>1. P \in Process
    BY OfProcess, Zenon DEF Process
  <2>2. L \in Links
    BY OfProcess, Zenon DEF Links
  <2> QED BY <2>1, <2>2
<1>3. Counted(P) /\ Published(P, L)
  BY <1>1 DEF IInv, Typed, Process, Links, Good, Placed, Counted, Published
<1>4. Started(P, L)
  BY <1>1 DEF IInv, Typed, Process, Links, Good, Placed, Started
<1> QED BY <1>1, <1>2, <1>3, <1>4, ConnectionLocal DEF IInv, Typed, Process, Links, Placed

LEMMA SubscribeLocal == ASSUME IInv, NEW p \in Proc, Subscribe(p) PROVE Local(p)
<1>1. CASE Fatal(p)
  BY <1>1, FatalLocal
<1>2. CASE ~Fatal(p)
  <2> DEFINE P == [proc[p] EXCEPT !.worker = "loop"]
             L == [link[p] EXCEPT !.consuming = TRUE]
  <2>1. /\ proc[p].worker = "subscribe" /\ UNCHANGED <<store, history>>
        /\ proc' = [proc EXCEPT ![p] = P] /\ link' = [link EXCEPT ![p] = L]
    BY <1>2 DEF Subscribe, IInv, Typed
  <2>2. P \in Process /\ L \in Links
    <3>1. P \in Process
      BY OfProcess, Zenon DEF Process
    <3>2. L \in Links
      BY OfProcess, Zenon DEF Links
    <3> QED BY <3>1, <3>2
  <2>3. Counted(P) /\ Published(P, L) /\ Started(P, L)
    BY <2>1 DEF IInv, Typed, Process, Links, Good, Placed, Counted, Published, Started
  <2> QED BY <2>1, <2>2, <2>3, ConnectionLocal DEF IInv, Typed, Process, Links, Placed
<1> QED BY <1>1, <1>2

-----------------------------------------------------------------------------
(* The consumer.                                                           *)
LEMMA HandleLocal ==
  ASSUME IInv, NEW p \in Proc, NEW m \in Msg, Handle(p, m) PROVE Local(p)
<1>1. CASE Fatal(p)
  BY <1>1, FatalLocal
<1>2. CASE ~Fatal(p)
  <2> DEFINE P == [proc[p] EXCEPT !.worker = "acking", !.holding = m]
             L == [link[p] EXCEPT !.inbox = @ \ {m}]
  <2>1. /\ proc[p].worker = "loop" /\ m \in link[p].inbox
        /\ proc' = [proc EXCEPT ![p] = P] /\ link' = [link EXCEPT ![p] = L]
        /\ handled' = handled \cup {m} /\ repeats' \in {repeats, repeats + 1}
        /\ UNCHANGED store
    BY <1>2 DEF Handle, IInv, Typed
  <2>2. P \in Process /\ L \in Links
    <3>1. P \in Process
      BY OfProcess, Zenon DEF Process
    <3>2. L \in Links
      BY OfProcess DEF Links
    <3> QED BY <3>1, <3>2
  <2>3. /\ P.worker = "acking" /\ P.holding = m /\ P.main = proc[p].main
        /\ P.wg = proc[p].wg /\ P.pub = proc[p].pub /\ P.con = proc[p].con
        /\ P.count = proc[p].count
    BY OfProcess DEF Process
  <2>4. /\ L.inbox = link[p].inbox \ {m} /\ L.unacked = link[p].unacked
        /\ L.acks = link[p].acks /\ L.con = link[p].con /\ L.pub = link[p].pub
        /\ L.received = link[p].received
    BY OfProcess DEF Links
  <2> HIDE DEF P, L
  <2>5. m \notin {NoMsg}
    BY RabbitmqAppAssumption
  <2>6. Counted(P) /\ Published(P, L) /\ Started(P, L)
    BY <2>1, <2>3, <2>4, <2>5, OfProcess DEF Good, Placed, Counted, Published, Started
  <2>7. Justified(P, L, handled', Enqueued \cup L.unacked)
    BY <2>1, <2>3, <2>4, OfProcess DEF Good, Justified
  <2>8. InOnePlace(P, L)
    BY <2>1, <2>3, <2>4, OfProcess DEF Good, InOnePlace
  <2>9. repeats' \in Nat
    BY <2>1 DEF IInv, Typed
  <2>10. Good(P, L, handled', Enqueued \cup L.unacked)
    BY <2>6, <2>7, <2>8 DEF Good, Placed
  <2>11. /\ UNCHANGED declared /\ queue' \subseteq Msg /\ handled' \subseteq Msg
         /\ handled \subseteq handled' /\ removed \subseteq removed' /\ removed' \subseteq handled'
         /\ queue \subseteq queue' \cup L.unacked
         /\ link[p].unacked \subseteq queue' \cup removed' \cup L.unacked
    BY <2>1, <2>4 DEF IInv, Typed, store
  <2> QED BY <2>1, <2>2, <2>9, <2>10, <2>11, StepLocal
<1> QED BY <1>1, <1>2

LEMMA AckDeliveryLocal == ASSUME IInv, NEW p \in Proc, AckDelivery(p) PROVE Local(p)
<1> DEFINE P == [proc[p] EXCEPT !.worker = "loop", !.holding = NoMsg]
<1>1. P \in Process
  BY OfProcess, Zenon DEF Process
<1>2. /\ P.worker = "loop" /\ P.holding = NoMsg /\ P.main = proc[p].main
      /\ P.wg = proc[p].wg /\ P.pub = proc[p].pub /\ P.con = proc[p].con
      /\ P.count = proc[p].count
  BY OfProcess DEF Process
<1>3. Acked(p) => proc' = [proc EXCEPT ![p] = P]
  BY DEF Acked, IInv, Typed
<1> HIDE DEF P
<1>4. CASE Fatal(p)
  BY <1>4, FatalLocal
<1>5. ASSUME proc[p].worker = "acking", link[p].con = "open", Acked(p),
             link' = [link EXCEPT ![p].acks = @ \cup {proc[p].holding}],
             UNCHANGED <<store, history>>
      PROVE  Local(p)
  <2> DEFINE L == [link[p] EXCEPT !.acks = @ \cup {proc[p].holding}]
  <2>1. /\ proc[p].holding \in handled
        /\ proc[p].holding \in link[p].unacked \ (link[p].acks \cup link[p].inbox)
    BY <1>5, OfProcess DEF Good, Placed, Started, Justified, InOnePlace
  <2>2. L \in Links
    BY <2>1, OfProcess DEF Links
  <2>3. /\ L.inbox = link[p].inbox /\ L.unacked = link[p].unacked
        /\ L.acks = link[p].acks \cup {proc[p].holding}
        /\ L.con = link[p].con /\ L.pub = link[p].pub /\ L.received = link[p].received
    BY OfProcess DEF Links
  <2>4. link' = [link EXCEPT ![p] = L]
    BY <1>5 DEF IInv, Typed
  <2> HIDE DEF L
  <2>5. Counted(P) /\ Published(P, L) /\ Started(P, L)
    BY <1>2, <1>5, <2>3, OfProcess DEF Good, Placed, Counted, Published, Started
  <2>6. Justified(P, L, handled', Enqueued \cup L.unacked)
    BY <1>2, <1>5, <2>1, <2>3, OfProcess DEF Good, Justified, history
  <2>7. InOnePlace(P, L)
    BY <1>2, <2>1, <2>3, OfProcess DEF Good, InOnePlace
  <2> QED BY <1>1, <1>3, <1>5, <2>2, <2>3, <2>4, <2>5, <2>6, <2>7, StepLocal
             DEF Good, Placed, IInv, Typed, store, history
<1>6. ASSUME proc[p].worker = "acking", Acked(p), UNCHANGED <<link, store, history>>
      PROVE  Local(p)
  <2>1. Goroutine(p) /\ proc'[p] = P
    BY <1>1, <1>2, <1>3, <1>6 DEF Goroutine, IInv, Typed
  <2>2. Placed(P, link[p])
    BY <1>2, <1>6, OfProcess DEF Good, Placed, Counted, Published, Started
  <2> QED BY <2>1, <2>2, GoroutineLocal
<1> QED BY <1>4, <1>5, <1>6 DEF AckDelivery

LEMMA LeaveChannelLocal == ASSUME IInv, NEW p \in Proc, LeaveChannel(p) PROVE Local(p)
<1> DEFINE P == [proc[p] EXCEPT !.worker = "gone"]
           LeftOpen == [TakenBack(link[p], "open") EXCEPT !.inbox = {}]
           LeftDown == [link[p] EXCEPT !.inbox = {}]
<1>1. P \in Process
  BY OfProcess, Zenon DEF Process
<1>2. /\ proc[p].worker = "leaving" /\ proc' = [proc EXCEPT ![p] = P]
      /\ UNCHANGED <<declared, removed, history>>
  BY DEF LeaveChannel, IInv, Typed
<1>3. /\ P.worker = "gone" /\ P.holding = proc[p].holding /\ P.main = proc[p].main
      /\ P.wg = proc[p].wg /\ P.pub = proc[p].pub /\ P.con = proc[p].con
      /\ P.count = proc[p].count
  BY OfProcess DEF Process
<1> HIDE DEF P
<1>4. ASSUME link' = [link EXCEPT ![p] = LeftOpen], link[p].con = "open", queue' = queue \cup link[p].unacked
      PROVE  Local(p)
  <2>1. LeftOpen \in Links
    BY OfProcess, Zenon DEF Links, TakenBack
  <2>2. /\ LeftOpen.inbox = {} /\ LeftOpen.unacked = {} /\ LeftOpen.acks = {}
        /\ LeftOpen.con = "open" /\ LeftOpen.pub = link[p].pub
        /\ LeftOpen.received = link[p].received
    BY OfProcess DEF Links, TakenBack
  <2> HIDE DEF LeftOpen
  <2>3. Placed(P, LeftOpen)
    BY <1>2, <1>3, <1>4, <2>2, OfProcess DEF Good, Placed, Counted, Published, Started
  <2>4. proc[p].holding = NoMsg
    BY <1>2, OfProcess DEF Good, Placed, Started
  <2>5. Good(P, LeftOpen, handled', Enqueued \cup LeftOpen.unacked)
    BY <1>3, <2>2, <2>3, <2>4 DEF Good, Justified, InOnePlace
  <2> QED BY <1>1, <1>2, <1>4, <2>1, <2>2, <2>5, OfProcess, StepLocal DEF IInv, Typed, history, Links
<1>5. ASSUME link' = [link EXCEPT ![p] = LeftDown], UNCHANGED queue
      PROVE  Local(p)
  <2>1. LeftDown \in Links
    BY OfProcess, Zenon DEF Links
  <2>2. /\ LeftDown.inbox = {} /\ LeftDown.unacked = link[p].unacked
        /\ LeftDown.acks = link[p].acks /\ LeftDown.con = link[p].con
        /\ LeftDown.pub = link[p].pub /\ LeftDown.received = link[p].received
    BY OfProcess DEF Links
  <2> HIDE DEF LeftDown
  <2>3. Placed(P, LeftDown)
    BY <1>2, <1>3, <2>2, OfProcess DEF Good, Placed, Counted, Published, Started
  <2>4. proc[p].holding = NoMsg
    BY <1>2, OfProcess DEF Good, Placed, Started
  <2>5. Good(P, LeftDown, handled', Enqueued \cup LeftDown.unacked)
    BY <1>2, <1>3, <2>2, <2>3, <2>4, OfProcess DEF Good, Justified, InOnePlace, history
  <2> QED BY <1>1, <1>2, <1>5, <2>1, <2>2, <2>5, OfProcess, StepLocal DEF IInv, Typed, history, Links
<1>6. \/ link' = [link EXCEPT ![p] = LeftOpen] /\ link[p].con = "open" /\ queue' = queue \cup link[p].unacked
      \/ link' = [link EXCEPT ![p] = LeftDown] /\ UNCHANGED queue
  BY DEF LeaveChannel, IInv, Typed
<1> QED BY <1>4, <1>5, <1>6

LEMMA MsgsClosedLocal == ASSUME IInv, NEW p \in Proc, MsgsClosed(p) PROVE Local(p)
<1> DEFINE P == [proc[p] EXCEPT !.worker = "gone"]
           L == [link[p] EXCEPT !.inbox = {}]
<1>1. P \in Process /\ L \in Links
  <2>1. P \in Process
    BY OfProcess, Zenon DEF Process
  <2>2. L \in Links
    BY OfProcess, Zenon DEF Links
  <2> QED BY <2>1, <2>2
<1>2. /\ proc[p].worker = "loop" /\ proc' = [proc EXCEPT ![p] = P]
      /\ link' = [link EXCEPT ![p] = L] /\ UNCHANGED <<store, history>>
  BY DEF MsgsClosed, IInv, Typed
<1>3. /\ P.worker = "gone" /\ P.holding = proc[p].holding /\ P.main = proc[p].main
      /\ P.wg = proc[p].wg /\ P.pub = proc[p].pub /\ P.con = proc[p].con
      /\ P.count = proc[p].count
  BY OfProcess DEF Process
<1>4. /\ L.inbox = {} /\ L.unacked = link[p].unacked /\ L.acks = link[p].acks
      /\ L.con = link[p].con /\ L.pub = link[p].pub /\ L.received = link[p].received
  BY OfProcess DEF Links
<1> HIDE DEF P, L
<1>5. Placed(P, L)
  BY <1>2, <1>3, <1>4, OfProcess DEF Good, Placed, Counted, Published, Started
<1>6. proc[p].holding = NoMsg
  BY <1>2, OfProcess DEF Good, Placed, Started
<1>7. Good(P, L, handled', Enqueued \cup L.unacked)
  BY <1>2, <1>3, <1>4, <1>5, <1>6, OfProcess DEF Good, Justified, InOnePlace, history
<1> QED BY <1>1, <1>2, <1>4, <1>7, StepLocal DEF IInv, Typed, store, history

-----------------------------------------------------------------------------
(* The network and the broker: the process does nothing.                   *)
LEMMA LinkLocal ==
  ASSUME IInv, NEW p \in Proc, NEW L \in Links,
         link' = [link EXCEPT ![p] = L], UNCHANGED <<proc, declared, history>>,
         queue' \subseteq Msg, removed \subseteq removed', removed' \subseteq handled,
         queue \subseteq queue' \cup L.unacked,
         link[p].unacked \subseteq queue' \cup removed' \cup L.unacked,
         Good(proc[p], L, handled, Enqueued \cup L.unacked)
  PROVE  Local(p)
<1>1. proc' = [proc EXCEPT ![p] = proc[p]]
  BY DEF IInv, Typed
<1>2. Good(proc[p], L, handled', Enqueued \cup L.unacked)
  BY DEF history
<1> QED BY <1>1, <1>2, OfProcess, StepLocal DEF IInv, Typed, history

(* The first n publishings are messages.                                   *)
LEMMA ArrivingAreMessages ==
  ASSUME IInv, NEW p \in Proc, NEW n \in 0 .. proc[p].count
  PROVE  Arriving(p, n) \subseteq Msg
<1>1. proc[p].count \in 0 .. MaxPublish /\ link[p].received \in 0 .. MaxPublish
  BY OfProcess DEF Process, Links
<1>2. \A i \in link[p].received + 1 .. n : i \in 1 .. MaxPublish
  BY <1>1, RabbitmqAppAssumption
<1> QED BY <1>2 DEF Arriving, Msg, Own

LEMMA LosePubLocal ==
  ASSUME IInv, NEW p \in Proc, PubUp(p), UNCHANGED <<proc, history>>,
         NEW n \in link[p].received .. proc[p].count, LosePub(p, n)
  PROVE  Local(p)
<1> DEFINE L == [link[p] EXCEPT !.pub = "down", !.received = n]
<1>1. n \in 0 .. MaxPublish /\ n \in 0 .. proc[p].count
  <2>1. /\ proc[p].count \in 0 .. MaxPublish
        /\ link[p].received \in 0 .. MaxPublish
    BY OfProcess DEF Process, Links
  <2> QED BY <2>1, RabbitmqAppAssumption
<1>2. L \in Links
  BY <1>1, OfProcess DEF Links
<1>3. /\ L.pub = "down" /\ L.received = n /\ L.con = link[p].con
      /\ L.unacked = link[p].unacked /\ L.acks = link[p].acks /\ L.inbox = link[p].inbox
  BY OfProcess DEF Links
<1>4. link' = [link EXCEPT ![p] = L]
  BY DEF LosePub, IInv, Typed
<1> HIDE DEF L
<1>5. n <= proc[p].count
  BY <1>1, OfProcess DEF Process
<1>6. Placed(proc[p], L)
  BY <1>3, <1>5, OfProcess DEF Good, Placed, Published, Started
<1>7. Good(proc[p], L, handled, Enqueued \cup L.unacked)
  BY <1>3, <1>6, OfProcess DEF Good, Justified, InOnePlace
<1>8. queue' \subseteq Msg /\ queue \subseteq queue' /\ UNCHANGED <<declared, removed>>
  BY <1>1, ArrivingAreMessages DEF LosePub, IInv, Typed
<1> QED BY <1>2, <1>3, <1>4, <1>7, <1>8, LinkLocal DEF IInv

LEMMA LoseConLocal ==
  ASSUME IInv, NEW p \in Proc, ConUp(p), UNCHANGED <<proc, history>>,
         NEW A \in SUBSET link[p].acks, LoseCon(p, A)
  PROVE  Local(p)
<1> DEFINE L == TakenBack(link[p], "down")
<1>1. L \in Links
  BY OfProcess, Zenon DEF Links, TakenBack
<1>2. /\ L.con = "down" /\ L.unacked = {} /\ L.acks = {} /\ L.inbox = link[p].inbox
      /\ L.pub = link[p].pub /\ L.received = link[p].received
  BY OfProcess DEF Links, TakenBack
<1>3. link' = [link EXCEPT ![p] = L]
  BY DEF LoseCon
<1> HIDE DEF L
<1>4. link[p].con \in {"open", "closing"}
  BY DEF ConUp
<1>5. Placed(proc[p], L)
  BY <1>2, <1>4, OfProcess DEF Good, Placed, Published, Started
<1>6. Good(proc[p], L, handled, Enqueued \cup L.unacked)
  BY <1>2, <1>5, OfProcess DEF Good, Justified, InOnePlace
<1>7. A \subseteq handled /\ link[p].unacked \subseteq Msg
  BY OfProcess DEF Good, Justified, Links
<1>8. /\ queue' \subseteq Msg /\ queue \subseteq queue' /\ removed' \subseteq handled
      /\ removed \subseteq removed' /\ UNCHANGED declared
      /\ link[p].unacked \subseteq queue' \cup removed'
  BY <1>7 DEF LoseCon, IInv, Typed
<1> QED BY <1>1, <1>2, <1>3, <1>6, <1>8, LinkLocal

LEMMA BrokerReceivesLocal == ASSUME IInv, NEW p \in Proc, BrokerReceives(p) PROVE Local(p)
<1> DEFINE L == [link[p] EXCEPT !.received = @ + 1]
<1>1. /\ PubUp(p) /\ UNCHANGED <<proc, declared, removed, history>>
      /\ link[p].received < proc[p].count /\ link' = [link EXCEPT ![p] = L]
      /\ queue' = queue \cup Arriving(p, link[p].received + 1)
  BY DEF BrokerReceives, IInv, Typed
<1>2. /\ link[p].received + 1 \in 0 .. MaxPublish
      /\ link[p].received + 1 \in 0 .. proc[p].count
      /\ link[p].received + 1 <= proc[p].count
  <2>1. /\ proc[p].count \in 0 .. MaxPublish
        /\ link[p].received \in 0 .. MaxPublish
    BY OfProcess DEF Process, Links
  <2> QED BY <1>1, <2>1, RabbitmqAppAssumption
<1>3. L \in Links
  BY <1>2, OfProcess DEF Links
<1>4. /\ L.received = link[p].received + 1 /\ L.pub = link[p].pub /\ L.con = link[p].con
      /\ L.unacked = link[p].unacked /\ L.acks = link[p].acks /\ L.inbox = link[p].inbox
  BY OfProcess DEF Links
<1> HIDE DEF L
<1>5. Placed(proc[p], L)
  BY <1>1, <1>2, <1>4, OfProcess DEF Good, Placed, Published, Started, PubUp
<1>6. Good(proc[p], L, handled, Enqueued \cup L.unacked)
  BY <1>4, <1>5, OfProcess DEF Good, Justified, InOnePlace
<1>7. queue' \subseteq Msg /\ queue \subseteq queue'
  BY <1>1, <1>2, ArrivingAreMessages DEF IInv, Typed
<1> QED BY <1>1, <1>3, <1>4, <1>6, <1>7, LinkLocal DEF IInv

(* With a prefetch of one, nothing else is unacknowledged.                 *)
LEMMA BrokerDeliversLocal ==
  ASSUME IInv, NEW p \in Proc, NEW m \in Msg, BrokerDelivers(p, m) PROVE Local(p)
<1> DEFINE L == [link[p] EXCEPT !.unacked = @ \cup {m}, !.inbox = @ \cup {m}]
<1>1. /\ link[p].con = "open" /\ WithinPrefetch(p) /\ m \in queue
      /\ queue' = queue \ {m} /\ UNCHANGED <<proc, declared, removed, history>>
      /\ link' = [link EXCEPT ![p] = L]
  BY DEF BrokerDelivers, IInv, Typed
<1>2. L \in Links
  BY OfProcess DEF Links
<1>3. link[p].unacked = {}
  <2>1. SUFFICES ASSUME NEW w \in Msg, link[p].unacked = {w} PROVE FALSE
    BY OfProcess DEF Good, InOnePlace
  <2>2. Cardinality({w}) = 1
    BY FS_Singleton
  <2>3. Cardinality({w}) < 1
    BY <1>1, <2>1, RabbitmqAppAssumption DEF WithinPrefetch
  <2> QED BY <2>2, <2>3
<1>4. link[p].acks = {} /\ link[p].inbox = {} /\ proc[p].holding = NoMsg
  BY <1>1, <1>3, OfProcess DEF Good, InOnePlace
<1>5. /\ L.unacked = {m} /\ L.inbox = {m} /\ L.acks = {} /\ L.con = "open"
      /\ L.pub = link[p].pub /\ L.received = link[p].received
  BY <1>1, <1>3, <1>4, OfProcess DEF Links
<1> HIDE DEF L
<1>6. Placed(proc[p], L)
  BY <1>1, <1>5, OfProcess DEF Good, Placed, Published, Started
<1>7. Good(proc[p], L, handled, Enqueued \cup L.unacked)
  BY <1>4, <1>5, <1>6 DEF Good, Justified, InOnePlace
<1> QED BY <1>1, <1>2, <1>3, <1>5, <1>7, LinkLocal DEF IInv, Typed

LEMMA BrokerGetsAckLocal ==
  ASSUME IInv, NEW p \in Proc, NEW m \in Msg, BrokerGetsAck(p, m) PROVE Local(p)
<1> DEFINE L == [link[p] EXCEPT !.acks = @ \ {m}, !.unacked = @ \ {m}]
<1>1. /\ m \in link[p].acks /\ removed' = removed \cup {m}
      /\ UNCHANGED <<proc, declared, queue, history>>
      /\ link' = [link EXCEPT ![p] = L]
  BY DEF BrokerGetsAck, IInv, Typed
<1>2. L \in Links
  BY OfProcess DEF Links
<1>3. link[p].unacked = {m} /\ m \in handled
  BY <1>1, OfProcess DEF Good, InOnePlace, Justified
<1>4. link[p].con \in {"none", "open"} => link[p].inbox = {} /\ proc[p].holding = NoMsg
  BY <1>1, <1>3, OfProcess DEF Good, InOnePlace
<1>5. /\ L.unacked = link[p].unacked \ {m} /\ L.inbox = link[p].inbox
      /\ L.acks = link[p].acks \ {m} /\ L.con = link[p].con
      /\ L.pub = link[p].pub /\ L.received = link[p].received
  BY OfProcess DEF Links
<1> HIDE DEF L
<1>6. Placed(proc[p], L)
  BY <1>5, OfProcess DEF Good, Placed, Published, Started
<1>7. Good(proc[p], L, handled, Enqueued \cup L.unacked)
  BY <1>3, <1>4, <1>5, <1>6, OfProcess DEF Good, Justified, InOnePlace
<1> QED BY <1>1, <1>2, <1>3, <1>5, <1>7, LinkLocal DEF IInv, Typed

LEMMA LoseConnLocal == ASSUME IInv, NEW p \in Proc, LoseConn(p) PROVE Local(p)
BY LosePubLocal, LoseConLocal DEF LoseConn

LEMMA BrokerClosesLocal == ASSUME IInv, NEW p \in Proc, BrokerCloses(p) PROVE Local(p)
<1>1. ConUp(p) /\ {} \in SUBSET link[p].acks
  BY DEF BrokerCloses, ConUp
<1> QED BY <1>1, LoseConLocal DEF BrokerCloses

-----------------------------------------------------------------------------
(* The inductive invariant.                                                *)
LEMMA InitIInv == Init => IInv
<1> SUFFICES ASSUME Init PROVE IInv
  OBVIOUS
<1>1. Typed
  <2>1. 0 \in 0 .. 2 /\ 0 \in 0 .. MaxPublish
    BY RabbitmqAppAssumption
  <2>2. proc \in [Proc -> Process]
    BY <2>1 DEF Init, Process
  <2>3. link \in [Proc -> Links]
    BY <2>1 DEF Init, Links
  <2>4. queue \subseteq Msg
    BY DEF Init, Msg
  <2> QED BY <2>2, <2>3, <2>4 DEF Init, Typed
<1>2. ASSUME NEW p \in Proc PROVE Good(proc[p], link[p], handled, Enqueued)
  <2>1. /\ proc[p].main = "idle" /\ proc[p].wg = 0 /\ proc[p].pub = "gone" /\ proc[p].count = 0
        /\ proc[p].con = "gone" /\ proc[p].worker = "gone" /\ proc[p].holding = NoMsg
    BY DEF Init
  <2>2. /\ link[p].pub = "none" /\ link[p].received = 0 /\ link[p].con = "none"
        /\ link[p].unacked = {} /\ link[p].inbox = {} /\ link[p].acks = {}
    BY DEF Init
  <2> QED BY <2>1, <2>2
          DEF Good, Placed, Counted, Published, Started, Justified, InOnePlace
<1> QED BY <1>1, <1>2 DEF IInv, Init

LEMMA NextLocal == ASSUME IInv, Next PROVE \E p \in Proc : Local(p)
<1>1. PICK p \in Proc :
        \/ Start(p) \/ Interrupt(p) \/ Crash(p) \/ LoseConn(p)
        \/ ProgramStep(p) \/ BrokerStep(p)
  BY DEF Next
<1>2. CASE Start(p) \/ Interrupt(p) \/ Crash(p) \/ LoseConn(p)
  BY <1>2, StartLocal, InterruptLocal, FatalLocal, LoseConnLocal DEF Crash
<1>3. CASE ProgramStep(p)
  BY <1>3, MainReturnsLocal, PubDialLocal, PubSelectLocal, PublishLocal, PubCloseLocal,
     ConDialLocal, ConDoneLocal, ConCloseLocal, SubscribeLocal, HandleLocal,
     AckDeliveryLocal, LeaveLocal, LeaveChannelLocal, MsgsClosedLocal DEF ProgramStep
<1>4. CASE BrokerStep(p)
  BY <1>4, BrokerReceivesLocal, BrokerClosesLocal, BrokerDeliversLocal, BrokerGetsAckLocal
     DEF BrokerStep
<1> QED BY <1>1, <1>2, <1>3, <1>4

LEMMA StepIInv == IInv /\ [Next]_vars => IInv'
<1> SUFFICES ASSUME IInv, [Next]_vars PROVE IInv'
  OBVIOUS
<1>1. CASE Next
  BY <1>1, NextLocal, LocalIInv
<1>2. CASE UNCHANGED vars
  BY <1>2 DEF vars, store, history, IInv, Typed, Enqueued
<1> QED BY <1>1, <1>2

(* The inductive invariant holds: each process knows where it stands.      *)
THEOREM Invariant == Spec => []IInv
<1> QED BY InitIInv, StepIInv, PTL DEF Spec

(* The variables keep their types, whatever the number of processes.       *)
THEOREM TypeCorrect == Spec => []TypeOK
<1>1. IInv => TypeOK
  BY DEF IInv, Typed, TypeOK, Good, Placed, Published, Started, InOnePlace
<1> QED BY <1>1, Invariant, PTL

-----------------------------------------------------------------------------
(* Messages are handled in one way: out of what was delivered.             *)
Taken(m) ==
  /\ m \in Enqueued /\ handled' = handled \cup {m}
  /\ Enqueued' = Enqueued /\ removed' = removed

LEMMA HandleTakes ==
  ASSUME IInv, NEW p \in Proc, NEW m \in Msg, Handle(p, m)
  PROVE  UNCHANGED handled \/ Taken(m)
<1>1. CASE Fatal(p)
  BY <1>1 DEF Fatal, End, history
<1>2. CASE ~Fatal(p)
  <2>1. /\ m \in link[p].inbox /\ handled' = handled \cup {m} /\ UNCHANGED store
        /\ link' = [link EXCEPT ![p].inbox = @ \ {m}]
    BY <1>2 DEF Handle
  <2>2. \A q \in Proc : link'[q].unacked = link[q].unacked
    BY <2>1 DEF IInv, Typed, Links
  <2>3. Enqueued' = Enqueued
    BY <2>1, <2>2 DEF Enqueued, store
  <2> QED BY <2>1, <2>3, OfProcess DEF Taken, Good, Justified, store
<1> QED BY <1>1, <1>2

LEMMA OnlyHandleTakes ==
  ASSUME IInv, Next
  PROVE  UNCHANGED handled \/ \E m \in Msg : Taken(m)
<1>1. PICK p \in Proc :
        \/ Start(p) \/ Interrupt(p) \/ Crash(p) \/ LoseConn(p)
        \/ ProgramStep(p) \/ BrokerStep(p)
  BY DEF Next
<1>2. CASE Start(p) \/ Interrupt(p) \/ Crash(p) \/ LoseConn(p)
  BY <1>2 DEF Start, Interrupt, Crash, Fatal, End, LoseConn, history
<1>3. CASE ProgramStep(p)
  <2>1. CASE \E m \in Msg : Handle(p, m)
    BY <2>1, HandleTakes
  <2>2. CASE \/ MainReturns(p) \/ PubDial(p) \/ PubSelect(p) \/ Publish(p) \/ PubClose(p)
             \/ ConDial(p) \/ ConDone(p) \/ ConClose(p)
    BY <2>2 DEF MainReturns, Fatal, End, PubDial, PubSelect, Publish, PubClose,
       ConDial, ConDone, ConClose, history
  <2>3. CASE \/ Subscribe(p) \/ AckDelivery(p) \/ Leave(p) \/ LeaveChannel(p) \/ MsgsClosed(p)
    BY <2>3 DEF Fatal, End, Subscribe, AckDelivery, Leave, LeaveChannel, MsgsClosed, history
  <2> QED BY <1>3, <2>1, <2>2, <2>3 DEF ProgramStep
<1>4. CASE BrokerStep(p)
  BY <1>4 DEF BrokerStep, BrokerReceives, BrokerCloses, BrokerDelivers, BrokerGetsAck, history
<1> QED BY <1>1, <1>2, <1>3, <1>4

-----------------------------------------------------------------------------
(* The refinement.                                                         *)
LEMMA InitRefines == Init => Work!Init
<1> SUFFICES ASSUME Init PROVE Work!Init
  OBVIOUS
<1>1. Typed
  BY InitIInv DEF IInv
<1>2. \A p \in Proc : link[p].unacked \subseteq Msg
  BY <1>1 DEF Typed, Links
<1>3. queue \cup removed \cup UNION {link[p].unacked : p \in Proc} \in SUBSET Msg
  BY <1>1, <1>2 DEF Typed
<1> QED BY <1>3 DEF Work!Init, Init

LEMMA StepRefines == IInv /\ IInv' /\ [Next]_vars => [Work!Next]_(Work!vars)
<1> SUFFICES ASSUME IInv, IInv', [Next]_vars PROVE [Work!Next]_(Work!vars)
  OBVIOUS
<1>1. CASE UNCHANGED vars
  BY <1>1 DEF vars, store, history, Work!vars
<1>2. CASE Next
  <2>1. /\ Enqueued \subseteq Enqueued' /\ removed \subseteq removed'
        /\ removed' \subseteq handled'
    BY <1>2, NextLocal DEF Local
  <2>2. CASE UNCHANGED handled
    <3>1. \A p \in Proc : link'[p].unacked \subseteq Msg
      BY DEF IInv, Typed, Links
    <3>2. Enqueued' \in SUBSET Msg
      BY <3>1 DEF IInv, Typed, Enqueued
    <3>3. Work!Move
      BY <2>1, <2>2, <3>2 DEF Work!Move, Enqueued
    <3> QED BY <3>3 DEF Work!Next
  <2>3. ASSUME NEW m \in Msg, Taken(m) PROVE Work!Next
    <3>1. Work!Handle(m)
      BY <2>3 DEF Taken, Work!Handle, Enqueued
    <3> QED BY <3>1 DEF Work!Next
  <2> QED BY <1>2, <2>2, <2>3, OnlyHandleTakes
<1> QED BY <1>1, <1>2

(***************************************************************************)
(* The program implements a work queue for any number of processes: what   *)
(* came to the queue leaves it only after a consumer has handled it, even  *)
(* when processes crash and connections are lost.                          *)
(***************************************************************************)
THEOREM ProgramImplementsWorkQueue == Spec => ImplementsWorkQueue
<1> QED BY InitRefines, StepRefines, Invariant, PTL DEF Spec, ImplementsWorkQueue, Work!Spec

-----------------------------------------------------------------------------
(* A process exits with status 0 only as main returns.                     *)
LEMMA OnlyMainReturns ==
  ASSUME IInv, NEW q \in Proc, proc[q].main = "joining", proc'[q].main = "exited",
         NEW p \in Proc,
         \/ Start(p) \/ Interrupt(p) \/ Crash(p) \/ LoseConn(p)
         \/ ProgramStep(p) \/ BrokerStep(p)
  PROVE  MainReturns(q)
<1>1. proc # proc' /\ proc \in [Proc -> Process]
  BY DEF IInv, Typed
<1>2. ~Fatal(p)
  <2>1. SUFFICES ASSUME Fatal(p) PROVE FALSE
    OBVIOUS
  <2>2. proc'[p].main = "failed"
    BY <1>1, <2>1 DEF Fatal, End, Process
  <2>3. q # p => proc'[q] = proc[q]
    BY <1>1, <2>1 DEF Fatal, End
  <2> QED BY <2>2, <2>3
<1>3. CASE Start(p)
  BY <1>1, <1>3 DEF Start, Process
<1>4. CASE Interrupt(p)
  BY <1>1, <1>4 DEF Interrupt, Process
<1>5. CASE MainReturns(p)
  <2>1. q # p => proc'[q] = proc[q]
    BY <1>1, <1>5 DEF MainReturns, End
  <2> QED BY <1>5, <2>1
<1>6. CASE PubDial(p) \/ PubSelect(p) \/ Publish(p) \/ PubClose(p)
  BY <1>1, <1>2, <1>6 DEF PubDial, PubSelect, Publish, PubClose, Process
<1>7. CASE ConDial(p) \/ ConDone(p) \/ ConClose(p)
  BY <1>1, <1>2, <1>7 DEF ConDial, ConDone, ConClose, Process
<1>8. CASE Subscribe(p) \/ (\E m \in Msg : Handle(p, m)) \/ AckDelivery(p)
  <2>1. CASE Subscribe(p)
    BY <1>1, <1>2, <2>1 DEF Subscribe, Process
  <2>2. ASSUME NEW m \in Msg, Handle(p, m) PROVE MainReturns(q)
    BY <1>1, <1>2, <2>2 DEF Handle, Process
  <2>3. CASE AckDelivery(p)
    BY <1>1, <1>2, <2>3 DEF AckDelivery, Acked, Process
  <2> QED BY <1>8, <2>1, <2>2, <2>3
<1>9. CASE Leave(p) \/ LeaveChannel(p) \/ MsgsClosed(p)
  BY <1>1, <1>9 DEF Leave, LeaveChannel, MsgsClosed, Process
<1>10. ~LoseConn(p) /\ ~BrokerStep(p)
  BY <1>1 DEF LoseConn, BrokerStep, BrokerReceives, BrokerCloses, BrokerDelivers, BrokerGetsAck
<1> QED BY <1>2, <1>3, <1>4, <1>5, <1>6, <1>7, <1>8, <1>9, <1>10 DEF Crash, ProgramStep

(***************************************************************************)
(* A process that exits with status 0 has had all its publishings taken by *)
(* the broker, or has lost the connection: wg counts publish until it has  *)
(* closed its own.                                                         *)
(***************************************************************************)
THEOREM ExitWaitsForTheBroker == Spec => PublishedIsReceived
<1>1. ASSUME IInv, Next, NEW q \in Proc, proc[q].main = "joining", proc'[q].main = "exited"
      PROVE  link[q].received = proc[q].count \/ link[q].pub = "down"
  <2>1. MainReturns(q)
    BY <1>1, OnlyMainReturns DEF Next
  <2>2. proc[q].wg = 0
    BY <2>1 DEF MainReturns
  <2>3. proc[q].pub = "gone"
    BY <1>1, <2>2, OfProcess DEF Good, Placed, Counted
  <2> QED BY <1>1, <2>3, OfProcess DEF Good, Placed, Published
<1>2. IInv /\ [Next]_vars =>
        [\A p \in Proc :
           proc[p].main = "joining" /\ proc'[p].main = "exited" =>
             link[p].received = proc[p].count \/ link[p].pub = "down"]_vars
  BY <1>1
<1> QED BY <1>2, Invariant, PTL DEF Spec, PublishedIsReceived

-----------------------------------------------------------------------------
(***************************************************************************)
(* How often the RabbitMQ example handles a message again, for any number  *)
(* of processes. A connection that ends has a budget of one: it pays for   *)
(* the repetition of a message it gave back, or for the delivery of a lost *)
(* connection that its consumer handles all the same.                      *)
(***************************************************************************)

(* The deliveries a process is still to handle and has not lost.           *)
Live(L) == IF L.con = "down" THEN {} ELSE L.inbox

(* Handled messages that are going to be handled again.                    *)
Pending == {m \in handled : m \in queue \/ \E p \in Proc : m \in Live(link[p])}

(* Connections that have ended and have nothing left to handle.            *)
Ended(L) == L.con = "down" /\ L.inbox = {}
Spent == {p \in Proc : Ended(link[p])}

Budget ==
  /\ IsFiniteSet(Pending)
  /\ repeats + Cardinality(Pending) <= Cardinality(Spent)

(***************************************************************************)
(* Where the deliveries of a process are, when its connection is up and    *)
(* when it is not: nothing is unacknowledged without a reason.             *)
(***************************************************************************)
AllThere(P, L) ==
  /\ L.con \in {"none", "down"} => L.unacked = {}
  /\ L.con = "none" => L.inbox = {}
  /\ L.con = "open" => L.unacked = L.acks \cup L.inbox \cup ({P.holding} \ {NoMsg})
  /\ L.con = "closing" => L.inbox \subseteq L.unacked \ L.acks
  /\ L.inbox = {} \/ \E m \in Msg : L.inbox = {m}

(* A message is in one place of the broker's books.                        *)
Apart ==
  \A p \in Proc : /\ queue \cap link[p].unacked = {}
                  /\ \A q \in Proc \ {p} : link[p].unacked \cap link[q].unacked = {}

(* What has come of a process' publishings are the first ones.             *)
FirstOnes ==
  \A p \in Proc : \A i \in 1 .. MaxPublish : <<p, i>> \in Enqueued => i <= link[p].received

BookInv ==
  /\ IInv
  /\ \A p \in Proc : AllThere(proc[p], link[p])
  /\ Apart /\ FirstOnes /\ handled \subseteq Enqueued
  /\ Budget

-----------------------------------------------------------------------------
(* A step of p, and what it does to the messages ...                       *)
Flows(p) ==
  /\ \A q \in Proc \ {p} : link'[q] = link[q]
  /\ link[p].received <= link'[p].received
  /\ queue' \cup link'[p].unacked
       \subseteq queue \cup link[p].unacked \cup Arriving(p, link'[p].received)
  /\ removed' \subseteq removed \cup link[p].unacked
  /\ queue' \cap link'[p].unacked = {}

(* ... and to the budget: nothing, it puts one more in, takes one out, or  *)
(* both.                                                                   *)
Keeps == repeats' = repeats /\ Pending' \subseteq Pending /\ Spent \subseteq Spent'

Ends(p) ==
  /\ repeats' = repeats /\ p \notin Spent /\ Spent' = Spent \cup {p}
  /\ \E m : Pending' \subseteq Pending \cup {m}

Repeats(p) ==
  /\ repeats' = repeats + 1
  /\ \/ Spent \subseteq Spent' /\ \E m \in Pending : Pending' \subseteq Pending \ {m}
     \/ p \notin Spent /\ Spent' = Spent \cup {p} /\ Pending' \subseteq Pending

Paid(p) == Keeps \/ Ends(p) \/ Repeats(p)

(* All that is shown of a step of p.                                       *)
Accounted(p) == Local(p) /\ AllThere(proc'[p], link'[p]) /\ Flows(p) /\ Paid(p)

LEMMA ProcsAreFinite == IsFiniteSet(Proc) /\ IsFiniteSet(Spent) /\ IsFiniteSet(Spent')
<1>1. IsFiniteSet(Proc)
  BY FS_Interval, RabbitmqAppAssumption DEF Proc
<1> QED BY <1>1, FS_Subset DEF Spent

LEMMA PaidBudget ==
  ASSUME BookInv, NEW p \in Proc, Paid(p)
  PROVE  Budget'
<1>1. /\ repeats \in Nat /\ IsFiniteSet(Pending) /\ Cardinality(Pending) \in Nat
      /\ Cardinality(Spent) \in Nat /\ Cardinality(Spent') \in Nat
      /\ repeats + Cardinality(Pending) <= Cardinality(Spent)
  BY ProcsAreFinite, FS_CardinalityType DEF BookInv, IInv, Typed, Budget
<1>2. ASSUME Spent \subseteq Spent' PROVE Cardinality(Spent) <= Cardinality(Spent')
  BY <1>2, ProcsAreFinite, FS_Subset
<1>3. ASSUME p \notin Spent, Spent' = Spent \cup {p}
      PROVE  Cardinality(Spent') = Cardinality(Spent) + 1
  BY <1>3, ProcsAreFinite, FS_AddElement
<1>4. ASSUME Pending' \subseteq Pending
      PROVE  /\ IsFiniteSet(Pending') /\ Cardinality(Pending') \in Nat
             /\ Cardinality(Pending') <= Cardinality(Pending)
  BY <1>1, <1>4, FS_Subset, FS_CardinalityType
<1>5. ASSUME NEW m, Pending' \subseteq Pending \cup {m}
      PROVE  /\ IsFiniteSet(Pending') /\ Cardinality(Pending') \in Nat
             /\ Cardinality(Pending') <= Cardinality(Pending) + 1
  <2>1. /\ IsFiniteSet(Pending \cup {m})
        /\ \/ Cardinality(Pending \cup {m}) = Cardinality(Pending)
           \/ Cardinality(Pending \cup {m}) = Cardinality(Pending) + 1
    BY <1>1, FS_AddElement
  <2>2. IsFiniteSet(Pending') /\ Cardinality(Pending') <= Cardinality(Pending \cup {m})
    BY <1>5, <2>1, FS_Subset
  <2> QED BY <1>1, <2>1, <2>2, FS_CardinalityType
<1>6. ASSUME NEW m \in Pending, Pending' \subseteq Pending \ {m}
      PROVE  /\ IsFiniteSet(Pending') /\ Cardinality(Pending') \in Nat
             /\ Cardinality(Pending') + 1 <= Cardinality(Pending)
  <2>1. IsFiniteSet(Pending \ {m}) /\ Cardinality(Pending \ {m}) = Cardinality(Pending) - 1
    BY <1>1, <1>6, FS_RemoveElement
  <2>2. IsFiniteSet(Pending') /\ Cardinality(Pending') <= Cardinality(Pending \ {m})
    BY <1>6, <2>1, FS_Subset
  <2> QED BY <1>1, <2>1, <2>2, FS_CardinalityType
<1>7. CASE Keeps
  <2>1. /\ IsFiniteSet(Pending') /\ Cardinality(Pending') \in Nat /\ repeats' = repeats
        /\ Cardinality(Pending') <= Cardinality(Pending)
        /\ Cardinality(Spent) <= Cardinality(Spent')
    BY <1>2, <1>4, <1>7 DEF Keeps
  <2> QED BY <1>1, <2>1 DEF Budget
<1>8. CASE Ends(p)
  <2>1. /\ IsFiniteSet(Pending') /\ Cardinality(Pending') \in Nat /\ repeats' = repeats
        /\ Cardinality(Pending') <= Cardinality(Pending) + 1
        /\ Cardinality(Spent') = Cardinality(Spent) + 1
    BY <1>3, <1>5, <1>8 DEF Ends
  <2> QED BY <1>1, <2>1 DEF Budget
<1>9. CASE Repeats(p)
  <2>1. CASE Spent \subseteq Spent' /\ \E m \in Pending : Pending' \subseteq Pending \ {m}
    <3>1. /\ IsFiniteSet(Pending') /\ Cardinality(Pending') \in Nat /\ repeats' = repeats + 1
          /\ Cardinality(Pending') + 1 <= Cardinality(Pending)
          /\ Cardinality(Spent) <= Cardinality(Spent')
      BY <1>2, <1>6, <1>9, <2>1 DEF Repeats
    <3> QED BY <1>1, <3>1 DEF Budget
  <2>2. CASE p \notin Spent /\ Spent' = Spent \cup {p} /\ Pending' \subseteq Pending
    <3>1. /\ IsFiniteSet(Pending') /\ Cardinality(Pending') \in Nat /\ repeats' = repeats + 1
          /\ Cardinality(Pending') <= Cardinality(Pending)
          /\ Cardinality(Spent') = Cardinality(Spent) + 1
      BY <1>3, <1>4, <1>9, <2>2 DEF Repeats
    <3> QED BY <1>1, <3>1 DEF Budget
  <2> QED BY <1>9, <2>1, <2>2 DEF Repeats
<1> QED BY <1>7, <1>8, <1>9 DEF Paid

-----------------------------------------------------------------------------
(* Publishings that arrive are new.                                        *)
LEMMA ArrivingAreNew ==
  ASSUME BookInv, NEW p \in Proc, NEW n \in 0 .. MaxPublish, NEW x \in Arriving(p, n)
  PROVE  /\ x \notin Enqueued /\ x \notin handled
         /\ \E i \in 1 .. MaxPublish : x = <<p, i>> /\ i <= n
<1>1. link[p].received \in 0 .. MaxPublish
  BY OfProcess DEF BookInv, Links
<1>2. PICK i \in link[p].received + 1 .. n : x = <<p, i>>
  BY DEF Arriving
<1>3. i \in 1 .. MaxPublish /\ i <= n /\ ~(i <= link[p].received)
  BY <1>1, <1>2, RabbitmqAppAssumption
<1>4. x \notin Enqueued
  BY <1>2, <1>3 DEF BookInv, FirstOnes
<1> QED BY <1>2, <1>3, <1>4 DEF BookInv

LEMMA FlowsInPlace ==
  ASSUME BookInv, NEW p \in Proc, Local(p), Flows(p)
  PROVE  Apart' /\ FirstOnes'
<1> DEFINE n == link'[p].received
<1>1. /\ n \in 0 .. MaxPublish /\ n \in Nat
      /\ \A q \in Proc : link[q].received \in Nat
  BY OfProcess, RabbitmqAppAssumption DEF BookInv, Local, Typed, Links
<1>2. \A q \in Proc : link[q].unacked \subseteq Enqueued
  BY DEF Enqueued
<1>3. ASSUME NEW x \in queue' \cup link'[p].unacked, NEW q \in Proc \ {p}
      PROVE  x \notin link[q].unacked
  <2>1. CASE x \in queue \cup link[p].unacked
    BY <2>1 DEF BookInv, Apart
  <2>2. CASE x \in Arriving(p, n)
    BY <1>1, <1>2, <2>2, ArrivingAreNew
  <2> QED BY <1>3, <2>1, <2>2 DEF Flows
<1>4. Apart'
  <2>1. ASSUME NEW q \in Proc PROVE queue' \cap link'[q].unacked = {}
    <3>1. CASE q = p
      BY <3>1 DEF Flows
    <3>2. CASE q # p
      BY <1>3, <3>2 DEF Flows
    <3> QED BY <3>1, <3>2
  <2>2. ASSUME NEW q \in Proc, NEW r \in Proc \ {q}
        PROVE  link'[q].unacked \cap link'[r].unacked = {}
    <3>1. CASE q = p
      BY <1>3, <3>1 DEF Flows
    <3>2. CASE r = p
      BY <1>3, <3>2 DEF Flows
    <3>3. CASE q # p /\ r # p
      BY <3>3 DEF Flows, BookInv, Apart
    <3> QED BY <3>1, <3>2, <3>3
  <2> QED BY <2>1, <2>2 DEF Apart
<1>5. FirstOnes'
  <2>1. SUFFICES ASSUME NEW q \in Proc, NEW i \in 1 .. MaxPublish, <<q, i>> \in Enqueued'
                 PROVE  i <= link'[q].received
    BY DEF FirstOnes
  <2>2. link[q].received <= link'[q].received /\ link'[q].received \in Nat
    BY <1>1 DEF Flows
  <2>3. CASE <<q, i>> \in Enqueued
    <3>1. i <= link[q].received
      BY <2>3 DEF BookInv, FirstOnes
    <3> QED BY <1>1, <2>2, <3>1
  <2>4. CASE <<q, i>> \in Arriving(p, n)
    BY <1>1, <2>4, ArrivingAreNew
  <2>5. ASSUME <<q, i>> \notin Enqueued PROVE <<q, i>> \in Arriving(p, n)
    <3>1. <<q, i>> \notin queue \cup removed \cup link[p].unacked
      BY <2>5 DEF Enqueued
    <3>2. \A r \in Proc \ {p} : <<q, i>> \notin link'[r].unacked
      BY <2>5, <1>2 DEF Flows
    <3>3. <<q, i>> \in queue' \cup removed' \cup link'[p].unacked
      BY <2>1, <3>2 DEF Enqueued
    <3> QED BY <3>1, <3>3 DEF Flows
  <2> QED BY <2>3, <2>4, <2>5
<1> QED BY <1>4, <1>5

LEMMA AccountedIsEnough ==
  ASSUME BookInv, NEW p \in Proc, Accounted(p), handled' \subseteq Enqueued'
  PROVE  BookInv'
<1>1. IInv' /\ Apart' /\ FirstOnes' /\ Budget'
  BY LocalIInv, FlowsInPlace, PaidBudget DEF Accounted, BookInv
<1>2. \A q \in Proc : AllThere(proc'[q], link'[q])
  <2>1. \A q \in Proc \ {p} : proc'[q] = proc[q] /\ link'[q] = link[q]
    BY DEF Accounted, Local
  <2> QED BY <2>1 DEF BookInv, Accounted
<1> QED BY <1>1, <1>2 DEF BookInv

-----------------------------------------------------------------------------
(* How a step of p may change what is pending and spent.                   *)
LEMMA PendingBy ==
  ASSUME BookInv, NEW p \in Proc, \A q \in Proc \ {p} : link'[q] = link[q],
         NEW X, handled \subseteq handled', handled' \subseteq handled \cup X,
         (queue' \cup Live(link'[p])) \cap handled' \subseteq queue \cup Live(link[p]) \cup X
  PROVE  Pending' \subseteq Pending \cup X
<1> SUFFICES ASSUME NEW m \in Pending', m \notin X PROVE m \in Pending
  OBVIOUS
<1>1. m \in handled /\ m \in handled'
  BY DEF Pending
<1>2. CASE m \in queue' \cup Live(link'[p])
  BY <1>1, <1>2 DEF Pending
<1>3. ASSUME NEW q \in Proc \ {p}, m \in Live(link'[q]) PROVE m \in Pending
  BY <1>1, <1>3 DEF Pending
<1> QED BY <1>2, <1>3 DEF Pending

LEMMA SpentBy ==
  ASSUME NEW p \in Proc, \A q \in Proc \ {p} : link'[q] = link[q]
  PROVE  /\ (Ended(link[p]) => Ended(link'[p])) => Spent \subseteq Spent'
         /\ ~Ended(link[p]) /\ Ended(link'[p]) => p \notin Spent /\ Spent' = Spent \cup {p}
BY DEF Spent

(* A connection that is up has its deliveries from nowhere else.           *)
LEMMA LiveIsUnacked ==
  ASSUME BookInv, NEW p \in Proc
  PROVE  Live(link[p]) \subseteq link[p].unacked
<1>1. AllThere(proc[p], link[p]) /\ InOnePlace(proc[p], link[p]) /\ link[p] \in Links
  BY OfProcess DEF BookInv, Good
<1>2. link[p].con \in {"none", "open", "closing", "down"}
  BY <1>1 DEF Links
<1> QED BY <1>1, <1>2 DEF AllThere, InOnePlace, Live

(* Steps that move no message and end no connection.                       *)
LEMMA NothingMoves ==
  ASSUME BookInv, NEW p \in Proc, Local(p), UNCHANGED <<queue, removed, history>>,
         link'[p].unacked = link[p].unacked, link'[p].inbox = link[p].inbox,
         link'[p].received = link[p].received,
         link'[p].con = "down" <=> link[p].con = "down",
         AllThere(proc'[p], link'[p])
  PROVE  Accounted(p)
<1>1. \A q \in Proc \ {p} : link'[q] = link[q]
  BY DEF Local
<1>2. Live(link'[p]) = Live(link[p]) /\ (Ended(link[p]) => Ended(link'[p]))
  BY DEF Live, Ended
<1>3. Pending' \subseteq Pending
  BY <1>1, <1>2 DEF Pending, history
<1>4. Spent \subseteq Spent'
  BY <1>1, <1>2, SpentBy
<1>5. queue \cap link[p].unacked = {} /\ link[p].received \in Nat
  BY OfProcess, RabbitmqAppAssumption DEF BookInv, Apart, Links
<1>6. Flows(p)
  BY <1>1, <1>5 DEF Flows
<1> QED BY <1>3, <1>4, <1>6 DEF Accounted, Paid, Keeps, history

(* Those that leave the connection alone.                                  *)
LEMMA LinkStays ==
  ASSUME BookInv, NEW p \in Proc, Local(p), UNCHANGED <<link, queue, removed, history>>,
         proc'[p].holding = proc[p].holding \/ link[p].con # "open"
  PROVE  Accounted(p)
<1>1. AllThere(proc'[p], link'[p])
  BY DEF BookInv, AllThere
<1> QED BY <1>1, NothingMoves

LEMMA ControlAccounted ==
  ASSUME BookInv, NEW p \in Proc,
         \/ Start(p) \/ Interrupt(p) \/ PubSelect(p) \/ ConDone(p) \/ Leave(p)
  PROVE  Accounted(p)
<1>1. Local(p)
  BY StartLocal, InterruptLocal, PubSelectLocal, ConDoneLocal, LeaveLocal DEF BookInv
<1>2. UNCHANGED <<link, queue, removed, history>>
  BY DEF Start, Interrupt, PubSelect, ConDone, Leave, store
<1>3. proc \in [Proc -> Process]
  BY DEF BookInv, IInv, Typed
<1>4. proc'[p].holding = proc[p].holding
  <2>1. CASE Start(p)
    <3> DEFINE P == [proc[p] EXCEPT !.main = "waiting", !.wg = 2, !.pub = "dial", !.con = "dial"]
    <3>1. proc'[p] = P
      BY <1>3, <2>1 DEF Start
    <3>2. P.holding = proc[p].holding
      BY <1>3 DEF Process
    <3> QED BY <3>1, <3>2
  <2>2. CASE Interrupt(p) \/ PubSelect(p) \/ ConDone(p) \/ Leave(p)
    BY <1>3, <2>2 DEF Interrupt, PubSelect, ConDone, Leave, Process
  <2> QED BY <2>1, <2>2
<1> QED BY <1>1, <1>2, <1>4, LinkStays

LEMMA PublisherAccounted ==
  ASSUME BookInv, NEW p \in Proc, ~Fatal(p), PubDial(p) \/ Publish(p) \/ PubClose(p)
  PROVE  Accounted(p)
<1>1. Local(p)
  BY PubDialLocal, PublishLocal, PubCloseLocal DEF BookInv
<1>2. UNCHANGED <<queue, removed, history>>
  BY DEF PubDial, Publish, PubClose, store
<1>3. /\ proc[p] \in Process /\ link[p] \in Links
      /\ proc \in [Proc -> Process] /\ link \in [Proc -> Links]
  BY DEF BookInv, IInv, Typed
<1>4. proc'[p].holding = proc[p].holding
  BY <1>3 DEF PubDial, Publish, PubClose, Process
<1>5. /\ link'[p].unacked = link[p].unacked /\ link'[p].inbox = link[p].inbox
      /\ link'[p].acks = link[p].acks /\ link'[p].con = link[p].con
      /\ link'[p].received = link[p].received
  BY <1>3 DEF PubDial, Publish, PubClose, Links
<1>6. AllThere(proc'[p], link'[p])
  BY <1>4, <1>5 DEF BookInv, AllThere
<1> QED BY <1>1, <1>2, <1>5, <1>6, NothingMoves

LEMMA ConsumeAccounted ==
  ASSUME BookInv, NEW p \in Proc, ~Fatal(p), ConDial(p) \/ ConClose(p) \/ Subscribe(p)
  PROVE  Accounted(p)
<1>1. Local(p)
  BY ConDialLocal, ConCloseLocal, SubscribeLocal DEF BookInv
<1>2. UNCHANGED <<queue, removed, history>>
  BY DEF ConDial, ConClose, Subscribe, store
<1>3. /\ proc[p] \in Process /\ link[p] \in Links
      /\ proc \in [Proc -> Process] /\ link \in [Proc -> Links]
  BY DEF BookInv, IInv, Typed
<1>4. proc'[p].holding = proc[p].holding
  BY <1>3 DEF ConDial, ConClose, Subscribe, Process
<1>5. /\ link'[p].unacked = link[p].unacked /\ link'[p].inbox = link[p].inbox
      /\ link'[p].acks = link[p].acks /\ link'[p].received = link[p].received
  BY <1>3 DEF ConDial, ConClose, Subscribe, Links
<1>6. Good(proc[p], link[p], handled, Enqueued) /\ AllThere(proc[p], link[p])
  BY OfProcess DEF BookInv
<1>7. CASE ConDial(p)
  <2>1. link'[p].con = "open"
    BY <1>3, <1>7 DEF ConDial, Links
  <2>2. link[p].con = "none" /\ proc[p].holding = NoMsg
    BY <1>6, <1>7 DEF ConDial, Good, Placed, Started
  <2>3. link[p].unacked = {} /\ link[p].inbox = {} /\ link[p].acks = {}
    BY <1>6, <2>2 DEF AllThere, Good, InOnePlace
  <2>4. AllThere(proc'[p], link'[p])
    BY <1>4, <1>5, <2>1, <2>2, <2>3 DEF AllThere
  <2> QED BY <1>1, <1>2, <1>5, <2>1, <2>2, <2>4, NothingMoves
<1>8. CASE ConClose(p)
  <2>1. link'[p].con = IF link[p].con = "open" THEN "closing" ELSE link[p].con
    BY <1>3, <1>8 DEF ConClose, Links
  <2>2. AllThere(proc'[p], link'[p])
    BY <1>4, <1>5, <1>6, <2>1 DEF AllThere, Good, InOnePlace
  <2> QED BY <1>1, <1>2, <1>5, <2>1, <2>2, NothingMoves
<1>9. CASE Subscribe(p)
  <2>1. link'[p].con = link[p].con
    BY <1>3, <1>9 DEF Subscribe, Links
  <2>2. AllThere(proc'[p], link'[p])
    BY <1>4, <1>5, <1>6, <2>1 DEF AllThere
  <2> QED BY <1>1, <1>2, <1>5, <2>1, <2>2, NothingMoves
<1> QED BY <1>7, <1>8, <1>9

LEMMA AckDeliveryAccounted ==
  ASSUME BookInv, NEW p \in Proc, ~Fatal(p), AckDelivery(p)
  PROVE  Accounted(p)
<1>1. Local(p)
  BY AckDeliveryLocal DEF BookInv
<1>2. UNCHANGED <<queue, removed, history>>
  BY DEF AckDelivery, store
<1>3. /\ proc[p] \in Process /\ link[p] \in Links
      /\ proc \in [Proc -> Process] /\ link \in [Proc -> Links]
  BY DEF BookInv, IInv, Typed
<1>4. proc'[p].holding = NoMsg
  BY <1>3 DEF AckDelivery, Acked, Process
<1>5. Good(proc[p], link[p], handled, Enqueued) /\ AllThere(proc[p], link[p])
  BY OfProcess DEF BookInv
<1>6. CASE link[p].con = "open"
  <2>1. proc[p].holding # NoMsg
    BY <1>5 DEF AckDelivery, Good, Placed, Started
  <2>2. /\ link'[p].unacked = link[p].unacked /\ link'[p].inbox = link[p].inbox
        /\ link'[p].acks = link[p].acks \cup {proc[p].holding}
        /\ link'[p].con = link[p].con /\ link'[p].received = link[p].received
    BY <1>3, <1>6 DEF AckDelivery, Links
  <2>3. AllThere(proc'[p], link'[p])
    BY <1>4, <1>5, <1>6, <2>1, <2>2 DEF AllThere
  <2> QED BY <1>1, <1>2, <2>2, <2>3, NothingMoves
<1>7. CASE link[p].con # "open"
  <2>1. UNCHANGED link
    BY <1>7 DEF AckDelivery
  <2> QED BY <1>1, <1>2, <1>7, <2>1, LinkStays
<1> QED BY <1>6, <1>7

-----------------------------------------------------------------------------
(* Steps that move messages. Publishings arrive, acknowledgements arrive,  *)
(* a delivery is put on the way: nothing becomes pending.                  *)
LEMMA NothingPends ==
  ASSUME BookInv, NEW p \in Proc, Local(p), Flows(p), UNCHANGED history,
         (queue' \cup Live(link'[p])) \cap handled \subseteq queue \cup Live(link[p]),
         Ended(link[p]) => Ended(link'[p]),
         AllThere(proc'[p], link'[p])
  PROVE  Accounted(p)
<1>1. \A q \in Proc \ {p} : link'[q] = link[q]
  BY DEF Flows
<1>2. handled' = handled /\ repeats' = repeats
  BY DEF history
<1>3. Pending' \subseteq Pending \cup {}
  BY <1>1, <1>2, PendingBy
<1>4. Spent \subseteq Spent'
  BY <1>1, SpentBy
<1> QED BY <1>2, <1>3, <1>4 DEF Accounted, Paid, Keeps

(* A connection ends that has handled what it gives back, so that nothing  *)
(* is left for its consumer: the budget grows with what is pending.        *)
LEMMA OnePends ==
  ASSUME BookInv, NEW p \in Proc, Local(p), Flows(p), UNCHANGED history,
         (queue' \cup Live(link'[p])) \cap handled \subseteq queue \cup Live(link[p]) \cup link[p].unacked,
         ~Ended(link[p]), Ended(link'[p]),
         AllThere(proc'[p], link'[p])
  PROVE  Accounted(p)
<1>1. \A q \in Proc \ {p} : link'[q] = link[q]
  BY DEF Flows
<1>2. handled' = handled /\ repeats' = repeats
  BY DEF history
<1>3. Pending' \subseteq Pending \cup link[p].unacked
  BY <1>1, <1>2, PendingBy
<1>4. \E m : Pending' \subseteq Pending \cup {m}
  BY <1>3, OfProcess DEF BookInv, Good, InOnePlace
<1>5. p \notin Spent /\ Spent' = Spent \cup {p}
  BY <1>1, SpentBy
<1> QED BY <1>2, <1>4, <1>5 DEF Accounted, Paid, Ends

LEMMA EndAccounted ==
  ASSUME BookInv, NEW p \in Proc, NEW how \in {"exited", "failed"}, End(p, how)
  PROVE  Accounted(p)
<1> DEFINE L == link[p]
<1>0. PICK n \in L.received .. proc[p].count, A \in SUBSET L.acks :
      /\ link' = [link EXCEPT ![p] =
           [TakenBack(L, IF ConUp(p) THEN "down" ELSE L.con) EXCEPT
              !.pub = IF L.pub = "none" THEN "none" ELSE "down",
              !.received = n, !.inbox = {}]]
      /\ queue' = queue \cup Arriving(p, n) \cup (L.unacked \ A)
      /\ removed' = removed \cup A
  BY DEF End
<1>1. Local(p)
  BY EndLocal DEF BookInv
<1>2. /\ proc[p] \in Process /\ L \in Links /\ link \in [Proc -> Links]
      /\ Good(proc[p], L, handled, Enqueued) /\ AllThere(proc[p], L)
  BY OfProcess DEF BookInv, IInv, Typed
<1>3. n \in 0 .. MaxPublish /\ L.received <= n
  <2>1. L.received \in 0 .. MaxPublish /\ proc[p].count \in 0 .. MaxPublish
    BY <1>2 DEF Process, Links
  <2> QED BY <2>1, RabbitmqAppAssumption
<1>4. /\ link'[p].received = n /\ link'[p].inbox = {} /\ link'[p].unacked = {}
      /\ link'[p].con = IF ConUp(p) THEN "down" ELSE L.con
  <2> DEFINE con == IF ConUp(p) THEN "down" ELSE L.con
             pub == IF L.pub = "none" THEN "none" ELSE "down"
             fallen == [TakenBack(L, con) EXCEPT !.pub = pub, !.received = n, !.inbox = {}]
  <2>1. link' = [link EXCEPT ![p] = fallen]
    BY <1>0
  <2> HIDE DEF con, pub
  <2>2. /\ fallen.received = n /\ fallen.inbox = {} /\ fallen.unacked = {} /\ fallen.con = con
    BY <1>2 DEF Links, TakenBack
  <2> HIDE DEF fallen
  <2>3. link'[p] = fallen
    BY <1>2, <2>1
  <2> QED BY <2>2, <2>3 DEF con
<1>5. A \subseteq L.unacked
  BY <1>2 DEF Good, InOnePlace
<1>6. Flows(p)
  BY <1>0, <1>1, <1>3, <1>4, <1>5 DEF Flows, Local
<1>7. UNCHANGED history /\ Live(link'[p]) = {}
  BY <1>4 DEF End, Live
<1>8. Arriving(p, n) \cap handled = {}
  BY <1>3, ArrivingAreNew
<1>9. CASE ConUp(p)
  <2>1. AllThere(proc'[p], link'[p])
    BY <1>4, <1>9 DEF AllThere
  <2>2. ~Ended(L) /\ Ended(link'[p])
    BY <1>4, <1>9 DEF Ended, ConUp
  <2>3. (queue' \cup Live(link'[p])) \cap handled \subseteq queue \cup Live(L) \cup L.unacked
    BY <1>0, <1>7, <1>8
  <2> QED BY <1>1, <1>6, <1>7, <2>1, <2>2, <2>3, OnePends
<1>10. CASE ~ConUp(p)
  <2>0. L.con \in {"none", "down"}
    BY <1>2, <1>10 DEF ConUp, Links
  <2>1. AllThere(proc'[p], link'[p])
    BY <1>4, <1>10, <2>0 DEF AllThere
  <2>2. Ended(L) => Ended(link'[p])
    BY <1>4, <1>10 DEF Ended
  <2>3. L.unacked = {}
    BY <1>2, <2>0 DEF AllThere
  <2>4. (queue' \cup Live(link'[p])) \cap handled \subseteq queue \cup Live(L)
    BY <1>0, <1>7, <1>8, <2>3
  <2> QED BY <1>1, <1>6, <1>7, <2>1, <2>2, <2>4, NothingPends
<1> QED BY <1>9, <1>10

LEMMA LoseConAccounted ==
  ASSUME BookInv, NEW p \in Proc, ConUp(p), UNCHANGED <<proc, history>>,
         NEW A \in SUBSET link[p].acks, LoseCon(p, A)
  PROVE  Accounted(p)
<1> DEFINE L == link[p]
<1>1. Local(p)
  BY LoseConLocal DEF BookInv
<1>2. /\ L \in Links /\ link \in [Proc -> Links]
      /\ Good(proc[p], L, handled, Enqueued) /\ AllThere(proc[p], L)
  BY OfProcess DEF BookInv, IInv, Typed
<1>3. /\ link'[p].received = L.received /\ link'[p].inbox = L.inbox
      /\ link'[p].unacked = {} /\ link'[p].con = "down"
  BY <1>2 DEF LoseCon, TakenBack, Links
<1>4. A \subseteq L.unacked /\ L.received \in Nat
  BY <1>2, RabbitmqAppAssumption DEF Good, InOnePlace, Links
<1>5. Flows(p)
  BY <1>1, <1>3, <1>4 DEF Flows, Local, LoseCon
<1>6. Live(link'[p]) = {} /\ L.con \in {"open", "closing"}
  BY <1>3 DEF Live, ConUp
<1>7. AllThere(proc'[p], link'[p])
  BY <1>2, <1>3 DEF AllThere
<1>8. CASE L.inbox = {}
  <2>1. ~Ended(L) /\ Ended(link'[p])
    BY <1>3, <1>6, <1>8 DEF Ended
  <2>2. (queue' \cup Live(link'[p])) \cap handled \subseteq queue \cup Live(L) \cup L.unacked
    BY <1>6 DEF LoseCon
  <2> QED BY <1>1, <1>5, <1>7, <2>1, <2>2, OnePends
<1>9. CASE L.inbox # {}
  <2>1. Live(L) = L.inbox
    BY <1>6 DEF Live
  <2>2. L.unacked = L.inbox
    BY <1>2, <1>9, <2>1, LiveIsUnacked DEF Good, InOnePlace
  <2>3. (queue' \cup Live(link'[p])) \cap handled \subseteq queue \cup Live(L)
    BY <1>6, <2>1, <2>2 DEF LoseCon
  <2>4. ~Ended(L)
    BY <1>9 DEF Ended
  <2> QED BY <1>1, <1>5, <1>7, <2>3, <2>4, NothingPends
<1> QED BY <1>8, <1>9

LEMMA LosePubAccounted ==
  ASSUME BookInv, NEW p \in Proc, PubUp(p), UNCHANGED <<proc, history>>,
         NEW n \in link[p].received .. proc[p].count, LosePub(p, n)
  PROVE  Accounted(p)
<1> DEFINE L == link[p]
<1>1. Local(p)
  BY LosePubLocal DEF BookInv
<1>2. /\ proc[p] \in Process /\ L \in Links /\ link \in [Proc -> Links] /\ AllThere(proc[p], L)
  BY OfProcess DEF BookInv, IInv, Typed
<1>3. n \in 0 .. MaxPublish /\ L.received <= n
  <2>1. L.received \in 0 .. MaxPublish /\ proc[p].count \in 0 .. MaxPublish
    BY <1>2 DEF Process, Links
  <2> QED BY <2>1, RabbitmqAppAssumption
<1>4. /\ link'[p].received = n /\ link'[p].inbox = L.inbox /\ link'[p].con = L.con
      /\ link'[p].unacked = L.unacked /\ link'[p].acks = L.acks
  BY <1>2 DEF LosePub, Links
<1>5. Arriving(p, n) \cap handled = {} /\ Arriving(p, n) \cap L.unacked = {}
  <2>1. L.unacked \subseteq Enqueued
    BY DEF Enqueued
  <2> QED BY <1>3, <2>1, ArrivingAreNew
<1>6. Flows(p)
  BY <1>1, <1>3, <1>4, <1>5 DEF Flows, Local, LosePub, BookInv, Apart
<1>7. AllThere(proc'[p], link'[p])
  BY <1>2, <1>4 DEF AllThere
<1>8. (queue' \cup Live(link'[p])) \cap handled \subseteq queue \cup Live(L)
  BY <1>4, <1>5 DEF LosePub, Live
<1> QED BY <1>1, <1>4, <1>6, <1>7, <1>8, NothingPends DEF Ended

LEMMA BrokerReceivesAccounted ==
  ASSUME BookInv, NEW p \in Proc, BrokerReceives(p)
  PROVE  Accounted(p)
<1> DEFINE L == link[p]
           n == L.received + 1
<1>1. Local(p)
  BY BrokerReceivesLocal DEF BookInv
<1>2. /\ proc[p] \in Process /\ L \in Links /\ link \in [Proc -> Links] /\ AllThere(proc[p], L)
  BY OfProcess DEF BookInv, IInv, Typed
<1>3. n \in 0 .. MaxPublish /\ L.received <= n
  <2>1. L.received \in 0 .. MaxPublish /\ proc[p].count \in 0 .. MaxPublish
        /\ L.received < proc[p].count
    BY <1>2 DEF Process, Links, BrokerReceives
  <2> QED BY <2>1, RabbitmqAppAssumption
<1>4. /\ link'[p].received = n /\ link'[p].inbox = L.inbox /\ link'[p].con = L.con
      /\ link'[p].unacked = L.unacked /\ link'[p].acks = L.acks
      /\ queue' = queue \cup Arriving(p, n)
      /\ UNCHANGED <<proc, removed, history>>
  BY <1>2 DEF BrokerReceives, Links
<1> HIDE DEF n
<1>5. Arriving(p, n) \cap handled = {} /\ Arriving(p, n) \cap L.unacked = {}
  <2>1. L.unacked \subseteq Enqueued
    BY DEF Enqueued
  <2> QED BY <1>3, <2>1, ArrivingAreNew
<1>6. Flows(p)
  BY <1>1, <1>3, <1>4, <1>5 DEF Flows, Local, BookInv, Apart
<1>7. AllThere(proc'[p], link'[p])
  BY <1>2, <1>4 DEF AllThere
<1>8. (queue' \cup Live(link'[p])) \cap handled \subseteq queue \cup Live(L)
  BY <1>4, <1>5 DEF Live
<1> QED BY <1>1, <1>4, <1>6, <1>7, <1>8, NothingPends DEF Ended

LEMMA BrokerDeliversAccounted ==
  ASSUME BookInv, NEW p \in Proc, NEW m \in Msg, BrokerDelivers(p, m)
  PROVE  Accounted(p)
<1> DEFINE L == link[p]
<1>1. Local(p)
  BY BrokerDeliversLocal DEF BookInv
<1>2. /\ L \in Links /\ link \in [Proc -> Links]
      /\ Good(proc[p], L, handled, Enqueued) /\ AllThere(proc[p], L)
  BY OfProcess DEF BookInv, IInv, Typed
<1>3. /\ link'[p].received = L.received /\ link'[p].con = "open" /\ L.con = "open"
      /\ link'[p].unacked = L.unacked \cup {m} /\ link'[p].inbox = L.inbox \cup {m}
      /\ link'[p].acks = L.acks
      /\ queue' = queue \ {m} /\ m \in queue /\ UNCHANGED <<proc, removed, history>>
  BY <1>2 DEF BrokerDelivers, Links
<1>4. L.unacked = {}
  <2>1. SUFFICES ASSUME NEW w \in Msg, L.unacked = {w} PROVE FALSE
    BY <1>2 DEF Good, InOnePlace
  <2>2. Cardinality({w}) = 1
    BY FS_Singleton
  <2>3. Cardinality({w}) < 1
    BY <2>1, RabbitmqAppAssumption DEF WithinPrefetch, BrokerDelivers
  <2> QED BY <2>2, <2>3
<1>5. L.inbox = {} /\ L.received \in Nat
  BY <1>2, <1>3, <1>4, RabbitmqAppAssumption DEF Good, InOnePlace, Links
<1>6. Flows(p)
  BY <1>1, <1>3, <1>4, <1>5 DEF Flows, Local
<1>7. AllThere(proc'[p], link'[p])
  BY <1>2, <1>3, <1>5 DEF AllThere
<1>8. (queue' \cup Live(link'[p])) \cap handled \subseteq queue \cup Live(L)
  BY <1>3, <1>5 DEF Live
<1>9. ~Ended(L)
  BY <1>3 DEF Ended
<1> QED BY <1>1, <1>3, <1>6, <1>7, <1>8, <1>9, NothingPends

LEMMA BrokerGetsAckAccounted ==
  ASSUME BookInv, NEW p \in Proc, NEW m \in Msg, BrokerGetsAck(p, m)
  PROVE  Accounted(p)
<1> DEFINE L == link[p]
<1>1. Local(p)
  BY BrokerGetsAckLocal DEF BookInv
<1>2. /\ L \in Links /\ link \in [Proc -> Links]
      /\ Good(proc[p], L, handled, Enqueued) /\ AllThere(proc[p], L)
  BY OfProcess DEF BookInv, IInv, Typed
<1>3. /\ link'[p].received = L.received /\ link'[p].con = L.con
      /\ link'[p].unacked = L.unacked \ {m} /\ link'[p].inbox = L.inbox
      /\ link'[p].acks = L.acks \ {m} /\ m \in L.acks
      /\ removed' = removed \cup {m} /\ UNCHANGED <<proc, queue, history>>
  BY <1>2 DEF BrokerGetsAck, Links
<1>4. L.acks = {m} /\ L.unacked = {m} /\ L.received \in Nat
  BY <1>2, <1>3, RabbitmqAppAssumption DEF Good, InOnePlace, Links
<1>5. Flows(p)
  BY <1>1, <1>3, <1>4 DEF Flows, Local
<1>6. L.con \in {"open", "closing"}
  BY <1>2, <1>4 DEF AllThere, Links
<1>7. AllThere(proc'[p], link'[p])
  BY <1>2, <1>3, <1>4, <1>6 DEF AllThere, Good, InOnePlace
<1>8. (queue' \cup Live(link'[p])) \cap handled \subseteq queue \cup Live(L)
  BY <1>3 DEF Live
<1> QED BY <1>1, <1>3, <1>5, <1>7, <1>8, NothingPends DEF Ended

-----------------------------------------------------------------------------
(* The consumer leaves: what it was delivered returns to the queue, or was *)
(* given back when the connection ended.                                   *)
LEMMA LeavingAccounted ==
  ASSUME BookInv, NEW p \in Proc, LeaveChannel(p) \/ MsgsClosed(p)
  PROVE  Accounted(p)
<1> DEFINE L == link[p]
<1>1. Local(p)
  BY LeaveChannelLocal, MsgsClosedLocal DEF BookInv
<1>2. /\ proc[p] \in Process /\ L \in Links
      /\ proc \in [Proc -> Process] /\ link \in [Proc -> Links]
      /\ Good(proc[p], L, handled, Enqueued) /\ AllThere(proc[p], L)
  BY OfProcess DEF BookInv, IInv, Typed
<1>3. proc[p].holding = NoMsg /\ proc'[p].holding = NoMsg
  BY <1>2 DEF LeaveChannel, MsgsClosed, Process, Good, Placed, Started
<1>4. L.received \in Nat
  BY <1>2, RabbitmqAppAssumption DEF Links
<1>5. UNCHANGED <<removed, history>>
  BY DEF LeaveChannel, MsgsClosed, store
<1>6. CASE L.con = "open"
  <2> DEFINE left == [TakenBack(L, "open") EXCEPT !.inbox = {}]
  <2>0. /\ link' = [link EXCEPT ![p] = left] /\ L.acks = {}
        /\ queue' = queue \cup L.unacked
    BY <1>6 DEF LeaveChannel, MsgsClosed
  <2>1. /\ link'[p].unacked = {} /\ link'[p].acks = {} /\ link'[p].inbox = {}
        /\ link'[p].received = L.received /\ link'[p].con = "open"
    <3>1. /\ left.unacked = {} /\ left.acks = {} /\ left.inbox = {}
          /\ left.received = L.received /\ left.con = "open"
      BY <1>2 DEF TakenBack, Links
    <3> HIDE DEF left
    <3> QED BY <1>2, <2>0, <3>1
  <2>2. L.unacked = L.inbox /\ Live(L) = L.inbox /\ Live(link'[p]) = {}
    BY <1>2, <1>3, <1>6, <2>0, <2>1 DEF AllThere, Live
  <2>3. Flows(p)
    BY <1>1, <1>4, <1>5, <2>0, <2>1 DEF Flows, Local
  <2>4. AllThere(proc'[p], link'[p])
    BY <1>3, <2>1 DEF AllThere
  <2> QED BY <1>1, <1>5, <1>6, <2>0, <2>1, <2>2, <2>3, <2>4, NothingPends DEF Ended
<1>7. CASE L.con = "down"
  <2>1. /\ link'[p].unacked = L.unacked /\ link'[p].inbox = {} /\ queue' = queue
        /\ link'[p].received = L.received /\ link'[p].con = "down"
    BY <1>2, <1>7 DEF LeaveChannel, MsgsClosed, Links, store
  <2>2. L.unacked = {} /\ Live(link'[p]) = {}
    BY <1>2, <1>7, <2>1 DEF AllThere, Live
  <2>3. Flows(p)
    BY <1>1, <1>4, <1>5, <2>1, <2>2 DEF Flows, Local
  <2>4. AllThere(proc'[p], link'[p])
    BY <2>1, <2>2 DEF AllThere
  <2> QED BY <1>1, <1>5, <1>7, <2>1, <2>2, <2>3, <2>4, NothingPends DEF Ended
<1> QED BY <1>6, <1>7 DEF LeaveChannel, MsgsClosed

(***************************************************************************)
(* A message is handled: for the first time, or again. With the connection *)
(* up it is not pending any more; with the connection lost it may be       *)
(* pending elsewhere, but nothing is left for this consumer.               *)
(***************************************************************************)
LEMMA HandleAccounted ==
  ASSUME BookInv, NEW p \in Proc, NEW m \in Msg, ~Fatal(p), Handle(p, m)
  PROVE  Accounted(p)
<1> DEFINE L == link[p]
<1>1. Local(p)
  BY HandleLocal DEF BookInv
<1>2. /\ proc[p] \in Process /\ L \in Links
      /\ proc \in [Proc -> Process] /\ link \in [Proc -> Links]
      /\ Good(proc[p], L, handled, Enqueued) /\ AllThere(proc[p], L)
      /\ repeats \in Nat
  BY OfProcess DEF BookInv, IInv, Typed
<1>3. /\ proc[p].worker = "loop" /\ m \in L.inbox /\ handled' = handled \cup {m}
      /\ repeats' = IF m \in handled THEN repeats + 1 ELSE repeats
      /\ UNCHANGED <<queue, removed>>
  BY DEF Handle, store
<1>4. /\ link'[p].received = L.received /\ link'[p].con = L.con
      /\ link'[p].unacked = L.unacked /\ link'[p].acks = L.acks
      /\ link'[p].inbox = L.inbox \ {m}
  BY <1>2 DEF Handle, Links
<1>5. proc'[p].holding = m /\ proc[p].holding = NoMsg /\ L.received \in Nat /\ m # NoMsg
  BY <1>2, <1>3, RabbitmqAppAssumption DEF Handle, Process, Links, Good, Placed, Started
<1>6. L.inbox = {m} /\ link'[p].inbox = {}
  BY <1>2, <1>3, <1>4 DEF AllThere
<1>7. Flows(p)
  BY <1>1, <1>3, <1>4, <1>5 DEF Flows, Local, BookInv, Apart
<1>8. AllThere(proc'[p], link'[p])
  BY <1>2, <1>4, <1>5, <1>6 DEF AllThere
<1>9. \A q \in Proc \ {p} : link'[q] = link[q]
  BY <1>7 DEF Flows
<1>10. Live(link'[p]) = {}
  BY <1>6 DEF Live
<1>11. CASE L.con = "down"
  <2>1. p \notin Spent /\ Spent' = Spent \cup {p}
    <3>1. ~Ended(L) /\ Ended(link'[p])
      BY <1>3, <1>4, <1>6, <1>11 DEF Ended
    <3> QED BY <1>9, <3>1, SpentBy
  <2>2. CASE m \in handled
    <3>1. Pending' \subseteq Pending \cup {}
      BY <1>3, <1>9, <1>10, <2>2, PendingBy
    <3> QED BY <1>1, <1>3, <1>7, <1>8, <2>1, <2>2, <3>1 DEF Accounted, Paid, Repeats
  <2>3. CASE m \notin handled
    <3>1. Pending' \subseteq Pending \cup {m}
      BY <1>3, <1>9, <1>10, PendingBy
    <3> QED BY <1>1, <1>3, <1>7, <1>8, <2>1, <2>3, <3>1 DEF Accounted, Paid, Ends
  <2> QED BY <2>2, <2>3
<1>12. CASE L.con # "down"
  <2>1. Spent \subseteq Spent'
    BY <1>4, <1>9, <1>12, SpentBy DEF Ended
  <2>2. m \in Live(L) /\ m \in L.unacked
    BY <1>3, <1>12, LiveIsUnacked DEF Live
  <2>3. m \notin queue /\ \A q \in Proc \ {p} : m \notin Live(link[q])
    BY <2>2, LiveIsUnacked DEF BookInv, Apart
  <2>4. m \notin Pending'
    BY <1>3, <1>9, <1>10, <2>3 DEF Pending
  <2>5. Pending' \subseteq Pending \cup {m}
    BY <1>3, <1>9, <1>10, PendingBy
  <2>6. CASE m \in handled
    <3>1. m \in Pending
      BY <2>2, <2>6 DEF Pending
    <3> QED BY <1>1, <1>3, <1>7, <1>8, <2>1, <2>4, <2>5, <2>6, <3>1 DEF Accounted, Paid, Repeats
  <2>7. CASE m \notin handled
    BY <1>1, <1>3, <1>7, <1>8, <2>1, <2>4, <2>5, <2>7 DEF Accounted, Paid, Keeps
  <2> QED BY <2>6, <2>7
<1> QED BY <1>11, <1>12

-----------------------------------------------------------------------------
(* The invariant.                                                          *)
LEMMA InitBookInv == Init => BookInv
<1> SUFFICES ASSUME Init PROVE BookInv
  OBVIOUS
<1>1. IInv /\ handled = {} /\ repeats = 0 /\ removed = {}
  BY InitIInv DEF Init
<1>2. \A p \in Proc : /\ link[p].con = "none" /\ link[p].inbox = {}
                      /\ link[p].unacked = {} /\ link[p].received = 0
  BY DEF Init
<1>3. \A p \in Proc : AllThere(proc[p], link[p])
  BY <1>2 DEF AllThere
<1>4. Apart
  BY <1>2 DEF Apart
<1>5. FirstOnes
  <2>1. Enqueued \subseteq Earlier
    BY <1>1, <1>2 DEF Enqueued, Init
  <2>2. \A p \in Proc : \A i \in 1 .. MaxPublish : <<p, i>> \in Own
    BY DEF Own
  <2> QED BY <2>1, <2>2, RabbitmqAppAssumption DEF FirstOnes
<1>6. Budget
  <2>1. Pending = {} /\ Spent = {}
    BY <1>1, <1>2 DEF Pending, Spent, Ended
  <2> QED BY <1>1, <2>1, FS_EmptySet DEF Budget
<1> QED BY <1>1, <1>3, <1>4, <1>5, <1>6 DEF BookInv

LEMMA NextAccounted == ASSUME BookInv, Next PROVE \E p \in Proc : Accounted(p)
<1>1. PICK p \in Proc :
        \/ Start(p) \/ Interrupt(p) \/ Crash(p) \/ LoseConn(p)
        \/ ProgramStep(p) \/ BrokerStep(p)
  BY DEF Next
<1>2. CASE Fatal(p) \/ MainReturns(p)
  BY <1>2, EndAccounted DEF Fatal, MainReturns
<1>3. CASE LoseConn(p)
  BY <1>3, LosePubAccounted, LoseConAccounted DEF LoseConn
<1>4. CASE BrokerStep(p)
  <2>1. CASE BrokerCloses(p)
    <3>1. ConUp(p) /\ {} \in SUBSET link[p].acks
      BY <2>1 DEF BrokerCloses, ConUp
    <3> QED BY <2>1, <3>1, LoseConAccounted DEF BrokerCloses
  <2> QED BY <1>4, <2>1, BrokerReceivesAccounted, BrokerDeliversAccounted, BrokerGetsAckAccounted DEF BrokerStep
<1>5. CASE Start(p) \/ Interrupt(p)
  BY <1>5, ControlAccounted
<1>6. CASE ProgramStep(p) /\ ~Fatal(p) /\ ~MainReturns(p)
  <2>1. CASE PubSelect(p) \/ ConDone(p) \/ Leave(p)
    BY <2>1, ControlAccounted
  <2>2. CASE PubDial(p) \/ Publish(p) \/ PubClose(p) \/ ConDial(p) \/ ConClose(p) \/ Subscribe(p)
    BY <1>6, <2>2, PublisherAccounted, ConsumeAccounted
  <2>3. CASE AckDelivery(p) \/ \E m \in Msg : Handle(p, m)
    BY <1>6, <2>3, AckDeliveryAccounted, HandleAccounted
  <2>4. CASE LeaveChannel(p) \/ MsgsClosed(p)
    BY <2>4, LeavingAccounted
  <2> QED BY <1>6, <2>1, <2>2, <2>3, <2>4 DEF ProgramStep
<1> QED BY <1>1, <1>2, <1>3, <1>4, <1>5, <1>6 DEF Crash

LEMMA StepBookInv == BookInv /\ [Next]_vars => BookInv'
<1> SUFFICES ASSUME BookInv, [Next]_vars PROVE BookInv'
  OBVIOUS
<1>1. CASE Next
  <2>1. handled' \subseteq Enqueued'
    <3>1. IInv /\ handled \subseteq Enqueued
      BY DEF BookInv
    <3>2. Enqueued \subseteq Enqueued'
      BY <1>1, <3>1, NextLocal DEF Local
    <3> QED BY <1>1, <3>1, <3>2, OnlyHandleTakes DEF Taken
  <2> QED BY <1>1, <2>1, NextAccounted, AccountedIsEnough
<1>2. CASE UNCHANGED vars
  <2>1. IInv'
    BY <1>2, StepIInv DEF BookInv
  <2>2. UNCHANGED <<proc, link, queue, removed, handled, repeats>>
    BY <1>2 DEF vars, store, history
  <2>3. UNCHANGED <<Enqueued, Pending, Spent>>
    BY <2>2 DEF Enqueued, Pending, Spent
  <2> QED BY <2>1, <2>2, <2>3 DEF BookInv, Apart, FirstOnes, Budget
<1> QED BY <1>1, <1>2

(***************************************************************************)
(* A message is handled again at most once for each connection that has    *)
(* ended, however many processes there are.                                *)
(***************************************************************************)
THEOREM RepetitionsHaveACause == Spec => []RepeatsAreBounded
<1>1. BookInv => RepeatsAreBounded
  <2> SUFFICES ASSUME BookInv PROVE RepeatsAreBounded
    OBVIOUS
  <2> DEFINE Down == {p \in Proc : link[p].con = "down"}
  <2>1. IsFiniteSet(Down) /\ Spent \subseteq Down
    BY ProcsAreFinite, FS_Subset DEF Spent, Ended
  <2>2. Cardinality(Spent) <= Cardinality(Down)
    BY <2>1, FS_Subset
  <2>3. /\ Cardinality(Spent) \in Nat /\ Cardinality(Down) \in Nat
        /\ Cardinality(Pending) \in Nat /\ repeats \in Nat
    BY <2>1, ProcsAreFinite, FS_CardinalityType DEF BookInv, Budget, IInv, Typed
  <2>4. repeats + Cardinality(Pending) <= Cardinality(Spent)
    BY DEF BookInv, Budget
  <2> QED BY <2>2, <2>3, <2>4 DEF RepeatsAreBounded
<1> QED BY <1>1, InitBookInv, StepBookInv, PTL DEF Spec
=============================================================================
