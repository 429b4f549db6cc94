--------------------------- MODULE ConfirmsProofs ---------------------------
(***************************************************************************)
(* Proofs about Confirms, for any listeners, any capacity of their Go      *)
(* channels and any number of publishings. The inductive invariant is IInv:*)
(* TypeOK; the listeners are distinct, none of them closed, and whoever was*)
(* told something is one of them (Registered); while the reader is in its  *)
(* loop over the listeners, those still to be told are some of them, and   *)
(* the others were told the same (Telling); all before the expected tag is *)
(* answered, and the sequencer holds the answers to what follows, but for  *)
(* those the loop of Multiple is about to confirm (Holding); and what was  *)
(* told is in order, below the expected tag, and agrees (Told).            *)
(***************************************************************************)
EXTENDS Confirms, TLAPS

Working == work # Unlocked

Registered ==
  /\ \A i, j \in DOMAIN listeners : listeners[i] = listeners[j] => i = j
  /\ \A i \in DOMAIN listeners : listeners[i] \notin closed
  /\ \A l \in Listener : told[l] # <<>> /\ l \notin closed =>
       \E i \in DOMAIN listeners : listeners[i] = l

Telling ==
  Working =>
    /\ \A i, j \in DOMAIN work.to : work.to[i] = work.to[j] => i = j
    /\ \A i \in DOMAIN work.to : \E j \in DOMAIN listeners : listeners[j] = work.to[i]
    /\ work.to # <<>> =>
         /\ work.emit # <<>> /\ Head(work.emit).DeliveryTag = expecting - 1
         /\ \A l \in Listener : \A i \in DOMAIN told[l] :
              told[l][i].DeliveryTag = expecting - 1 => told[l][i] = Head(work.emit)

Holding ==
  /\ 1 .. expecting - 1 \subseteq DOMAIN settled
  /\ DOMAIN sequencer \subseteq {t \in DOMAIN settled : t >= expecting}
  /\ \A t \in DOMAIN sequencer : sequencer[t] = [DeliveryTag |-> t, Ack |-> settled[t]]
  /\ work.op = "multiple" => 1 .. work.upto \subseteq DOMAIN settled
  /\ \A t \in DOMAIN settled :
       t >= expecting /\ ~(work.op = "multiple" /\ t <= work.upto) => t \in DOMAIN sequencer

Told ==
  \A l \in Listener :
    /\ InSequence(l)
    /\ \A i \in DOMAIN told[l] : told[l][i].DeliveryTag < expecting
    /\ \A k \in Listener : Agree(l, k)

IInv == TypeOK /\ Registered /\ Telling /\ Holding /\ Told

-----------------------------------------------------------------------------
(* Sequences and records.                                                  *)

(* The empty sequence is a sequence of anything, and has no elements. *)
LEMMA EmptyIsSeq == ASSUME NEW S PROVE <<>> \in Seq(S)
OBVIOUS

(* A sequence of one element. *)
LEMMA OneIsSeq ==
  ASSUME NEW S, NEW e \in S
  PROVE  <<e>> \in Seq(S) /\ <<e>> # <<>> /\ Head(<<e>>) = e
OBVIOUS

(* What appending does to a sequence. *)
LEMMA AppendIs ==
  ASSUME NEW S, NEW s \in Seq(S), NEW e \in S, NEW r, r = Append(s, e)
  PROVE  /\ r \in Seq(S) /\ r # <<>>
         /\ Len(s) \in Nat /\ Len(r) = Len(s) + 1
         /\ DOMAIN s = 1 .. Len(s) /\ DOMAIN r = 1 .. Len(s) + 1
         /\ \A i \in DOMAIN s : r[i] = s[i]
         /\ r[Len(s) + 1] = e
OBVIOUS

(* What taking the head of a sequence leaves. *)
LEMMA TailIs ==
  ASSUME NEW S, NEW s \in Seq(S), s # <<>>, NEW r, r = Tail(s)
  PROVE  /\ r \in Seq(S) /\ Head(s) \in S /\ Head(s) = s[1] /\ 1 \in DOMAIN s
         /\ \A i \in DOMAIN r : i + 1 \in DOMAIN s /\ r[i] = s[i + 1] /\ i >= 1
         /\ \A i \in DOMAIN s : i # 1 => i - 1 \in DOMAIN r
OBVIOUS

(* A function changed at one point. *)
LEMMA OneChanges ==
  ASSUME NEW D, NEW R, NEW f \in [D -> R], NEW d \in D, NEW v \in R,
         NEW g, g = [f EXCEPT ![d] = v]
  PROVE  g \in [D -> R] /\ g[d] = v /\ \A e \in D \ {d} : g[e] = f[e]
OBVIOUS

(* Where the reader can be in One or Multiple. *)
Work == [op : {"one", "multiple"}, upto : Tag, ack : BOOLEAN,
         emit : Seq(Confirmation), to : Seq(Listener)]

(* The reader turns to a confirmation and to the listeners it goes to. *)
LEMMA WorkTurns ==
  ASSUME NEW w \in Work, NEW e \in Seq(Confirmation), NEW to \in Seq(Listener),
         NEW v, v = [op |-> w.op, upto |-> w.upto, ack |-> w.ack, emit |-> e, to |-> to]
  PROVE  /\ v \in Work /\ v.op = w.op /\ v.upto = w.upto /\ v.ack = w.ack
         /\ v.emit = e /\ v.to = to
BY DEF Work

(* The reader begins a call. *)
LEMMA WorkBegins ==
  ASSUME NEW op \in {"one", "multiple"}, NEW t \in Tag, NEW a \in BOOLEAN,
         NEW v, v = [op |-> op, upto |-> t, ack |-> a, emit |-> <<>>, to |-> <<>>]
  PROVE  /\ v \in Work /\ v.op = op /\ v.upto = t /\ v.ack = a /\ v.to = <<>>
<1>1. <<>> \in Seq(Confirmation) /\ <<>> \in Seq(Listener)
  BY EmptyIsSeq, Zenon
<1> QED
  BY <1>1 DEF Work

(* A confirmation is about its tag. *)
LEMMA ConfirmationIs ==
  ASSUME NEW t \in Tag, NEW a \in BOOLEAN, NEW c, c = [DeliveryTag |-> t, Ack |-> a]
  PROVE  c \in Confirmation /\ c.DeliveryTag = t /\ c.Ack = a
BY DEF Confirmation

(* Working is one of these. *)
LEMMA WorkingIs ==
  ASSUME TypeOK
  PROVE  /\ Working <=> work \in Work
         /\ ~Working => work.op = "unlocked"
         /\ Working => work.op \in {"one", "multiple"} /\ work.upto \in Tag
                       /\ work.ack \in BOOLEAN /\ work.emit \in Seq(Confirmation)
                       /\ work.to \in Seq(Listener)
<1>1. work \in {Unlocked} \cup Work
  BY Zenon DEF TypeOK, Work
<1>2. \A w \in Work : w # Unlocked
  BY DEF Work, Unlocked
<1>3. Working <=> work \in Work
  BY <1>1, <1>2, Zenon DEF Working
<1>4. ~Working => work.op = "unlocked"
  BY DEF Working, Unlocked
<1> QED
  BY <1>3, <1>4 DEF Work

(* What is told is a confirmation. *)
LEMMA ToldIsTyped ==
  ASSUME TypeOK, NEW l \in Listener
  PROVE  /\ told[l] \in Seq(Confirmation)
         /\ \A i \in DOMAIN told[l] :
              told[l][i] \in Confirmation /\ told[l][i].DeliveryTag \in Nat
<1>1. told[l] \in Seq(Confirmation)
  BY Zenon DEF TypeOK
<1>2. \A c \in Confirmation : c.DeliveryTag \in Nat
  BY DEF Confirmation, Tag
<1>3. \A i \in DOMAIN told[l] : told[l][i] \in Confirmation
  BY <1>1
<1> QED
  BY <1>1, <1>2, <1>3, Zenon

-----------------------------------------------------------------------------
(* The steps.                                                              *)

(* A confirms object is made right. *)
LEMMA InitIInv == Init => IInv
<1> SUFFICES ASSUME Init PROVE IInv
  OBVIOUS
<1>1. DOMAIN <<>> = {}
  OBVIOUS
<1>2. TypeOK
  <2>1. <<>> \in Seq(Listener) /\ <<>> \in Seq(Confirmation)
    BY EmptyIsSeq, Zenon
  <2>2. told \in [Listener -> Seq(Confirmation)] /\ receives \in [Listener -> Nat]
    BY <2>1 DEF Init
  <2>3. expecting \in 1 .. MaxPublish + 1 /\ published \in 0 .. MaxPublish
    BY ConfirmsAssumption DEF Init
  <2> QED
    BY <1>1, <2>1, <2>2, <2>3, Zenon DEF Init, TypeOK
<1>3. Registered
  BY <1>1 DEF Init, Registered
<1>4. Telling
  BY DEF Init, Telling, Working
<1>5. Holding
  BY <1>1 DEF Init, Holding, Unlocked
<1>6. Told
  BY <1>1 DEF Init, Told, InSequence, Agree
<1> QED
  BY <1>2, <1>3, <1>4, <1>5, <1>6 DEF IInv

(* confirm: the loop over the listeners begins, about the expected tag.    *)
(* Nobody has been told of it.                                             *)
LEMMA ConfirmBegins ==
  ASSUME IInv, Working => work.to = <<>>, NEW w \in Work, NEW c \in Confirmation,
         expecting \in Tag, c.DeliveryTag = expecting, Confirm(w, c),
         UNCHANGED <<listeners, told, closed>>
  PROVE  /\ work' \in Work /\ work'.op = w.op /\ work'.upto = w.upto
         /\ expecting' = expecting + 1 /\ expecting' \in 1 .. MaxPublish + 1
         /\ DOMAIN sequencer' = DOMAIN sequencer \ {expecting}
         /\ \A t \in DOMAIN sequencer' : sequencer'[t] = sequencer[t]
         /\ Registered' /\ Telling' /\ Told'
<1>1. expecting' = expecting + 1 /\ expecting' \in 1 .. MaxPublish + 1 /\ expecting \in Nat
  BY ConfirmsAssumption DEF Confirm, Tag
<1>2. <<c>> \in Seq(Confirmation) /\ <<c>> # <<>> /\ Head(<<c>>) = c
  BY OneIsSeq, Zenon
<1>3. listeners \in Seq(Listener)
  BY DEF IInv, TypeOK
<1>4. /\ work' \in Work /\ work'.op = w.op /\ work'.upto = w.upto
      /\ work'.emit = <<c>> /\ work'.to = listeners
  <2>1. work' = [op |-> w.op, upto |-> w.upto, ack |-> w.ack, emit |-> <<c>>, to |-> listeners]
    BY DEF Confirm, Work
  <2> QED
    BY <1>2, <1>3, <2>1, WorkTurns, Zenon
<1>5. DOMAIN sequencer' = DOMAIN sequencer \ {expecting}
      /\ \A t \in DOMAIN sequencer' : sequencer'[t] = sequencer[t]
  BY DEF Confirm, Without
<1>6. Registered'
  BY DEF IInv, Registered
<1>7. \A l \in Listener : \A i \in DOMAIN told[l] : told[l][i].DeliveryTag < expecting
  BY DEF IInv, Told
<1>8. Telling'
  <2>1. \A i, j \in DOMAIN listeners : listeners[i] = listeners[j] => i = j
    BY DEF IInv, Registered
  <2>2. Head(work'.emit) = c /\ work'.emit # <<>>
    BY <1>2, <1>4, Zenon
  <2>3. expecting' - 1 = expecting
    BY <1>1
  <2>4. \A l \in Listener : \A i \in DOMAIN told[l] : told[l][i].DeliveryTag # expecting
    BY <1>1, <1>7
  <2> QED
    BY <1>4, <2>1, <2>2, <2>3, <2>4, Zenon DEF Telling
<1>9. Told'
  <2> SUFFICES ASSUME NEW l \in Listener
               PROVE  /\ InSequence(l)'
                      /\ \A i \in DOMAIN told[l] : told[l][i].DeliveryTag < expecting'
                      /\ \A k \in Listener : Agree(l, k)'
    BY Zenon DEF Told
  <2>1. \A i \in DOMAIN told[l] : told[l][i].DeliveryTag < expecting'
    <3> SUFFICES ASSUME NEW i \in DOMAIN told[l] PROVE told[l][i].DeliveryTag < expecting'
      OBVIOUS
    <3>1. told[l][i].DeliveryTag \in Nat
      BY ToldIsTyped DEF IInv
    <3> QED
      BY <1>1, <1>7, <3>1
  <2>2. \A k \in Listener : Agree(l, k)'
    BY DEF IInv, Told, Agree
  <2>3. InSequence(l)
    BY DEF IInv, Told
  <2>4. ASSUME told[l] # <<>>, l \notin closed
        PROVE  told[l][Len(told[l])].DeliveryTag = expecting' - (IF Owed(l)' THEN 2 ELSE 1)
    <3>1. ~Owed(l)
      BY DEF Owed, Working
    <3>2. Owed(l)'
      <4>1. \E i \in DOMAIN listeners : listeners[i] = l
        BY <2>4 DEF IInv, Registered
      <4>2. work' # Unlocked
        BY <1>4 DEF Work, Unlocked
      <4> QED
        BY <1>4, <4>1, <4>2, Zenon DEF Owed
    <3>3. told[l][Len(told[l])].DeliveryTag = expecting - 1
      BY <2>3, <2>4, <3>1 DEF InSequence
    <3> QED
      BY <1>1, <3>2, <3>3
  <2>5. InSequence(l)'
    BY <2>3, <2>4, Zenon DEF InSequence
  <2> QED
    BY <2>1, <2>2, <2>5
<1> QED
  BY <1>1, <1>4, <1>5, <1>6, <1>8, <1>9

(* Who was told what does not change when nothing is told.                 *)
LEMMA ToldStays ==
  ASSUME Told, UNCHANGED <<told, expecting>>, closed \subseteq closed',
         \A l \in Listener : Owed(l)' <=> Owed(l)
  PROVE  Told'
<1>1. \A l \in Listener : InSequence(l) => InSequence(l)'
  BY DEF InSequence
<1> QED
  BY <1>1 DEF Told, Agree

(* Nor do the listeners and those still to be told.                        *)
LEMMA SameStays ==
  ASSUME Registered, Telling, UNCHANGED <<listeners, expecting, work, told, closed>>
  PROVE  Registered' /\ Telling'
BY DEF Registered, Telling, Working

(* The reader takes up a single answer: if it is to the expected tag the   *)
(* sequencer did not hold one, else it is kept for later.                  *)
LEMMA OneStep ==
  ASSUME IInv, NEW t \in Tag, NEW ack \in BOOLEAN, One(t, ack) PROVE IInv' /\ work' \in Work
<1>1. PICK w \in Work :
        /\ w.op = "one" /\ w.upto = t /\ w.to = <<>>
        /\ w = [op |-> "one", upto |-> t, ack |-> ack, emit |-> <<>>, to |-> <<>>]
  <2>1. PICK w : w = [op |-> "one", upto |-> t, ack |-> ack, emit |-> <<>>, to |-> <<>>]
    BY Zenon
  <2>2. w \in Work /\ w.op = "one" /\ w.upto = t /\ w.to = <<>>
    BY <2>1, WorkBegins
  <2> QED
    BY <2>1, <2>2, Zenon
<1>2. PICK c \in Confirmation : c = [DeliveryTag |-> t, Ack |-> ack] /\ c.DeliveryTag = t
  BY ConfirmationIs, Zenon
<1>3. /\ work = Unlocked /\ ~Working /\ Answered({t}, t, ack)
      /\ UNCHANGED <<listeners, published, told, receives, closed>>
  BY DEF One, Working
<1>4. /\ DOMAIN settled' = DOMAIN settled \cup {t} /\ t \notin DOMAIN settled
      /\ DOMAIN settled' \subseteq Tag
      /\ \A u \in DOMAIN settled : settled'[u] = settled[u]
      /\ settled'[t] = ack
      /\ \A u \in DOMAIN settled' : settled'[u] \in BOOLEAN
  <2>1. t \notin DOMAIN settled /\ settled' = [u \in DOMAIN settled \cup {t} |->
                                                IF u \in DOMAIN settled THEN settled[u] ELSE ack]
    BY <1>3 DEF Answered
  <2>2. DOMAIN settled \subseteq Tag /\ \A u \in DOMAIN settled : settled[u] \in BOOLEAN
    BY DEF IInv, TypeOK
  <2> QED
    BY <2>1, <2>2
<1>5. expecting \in Nat /\ t \in Nat /\ t >= expecting /\ DOMAIN sequencer \subseteq Tag
      /\ t \notin DOMAIN sequencer
  BY <1>4 DEF IInv, TypeOK, Holding, Tag
<1>6. CASE expecting = t /\ Confirm(w, c)
  <2>1. /\ work' \in Work /\ work'.op = "one" /\ expecting' = expecting + 1
        /\ expecting' \in 1 .. MaxPublish + 1
        /\ DOMAIN sequencer' = DOMAIN sequencer \ {expecting}
        /\ \A u \in DOMAIN sequencer' : sequencer'[u] = sequencer[u]
        /\ Registered' /\ Telling' /\ Told'
    BY <1>1, <1>2, <1>3, <1>6, ConfirmBegins, Zenon
  <2>2. TypeOK'
    <3>1. \A u \in DOMAIN sequencer' : sequencer'[u] \in Confirmation
      BY <2>1 DEF IInv, TypeOK
    <3> QED
      BY <1>3, <1>4, <1>5, <2>1, <3>1, Zenon DEF IInv, TypeOK, Work
  <2>3. DOMAIN sequencer' = DOMAIN sequencer
    BY <1>5, <1>6, <2>1
  <2>4. Holding'
    <3>1. work'.op # "multiple"
      BY <2>1
    <3>2. 1 .. expecting' - 1 \subseteq DOMAIN settled'
      BY <1>4, <1>5, <1>6, <2>1 DEF IInv, Holding
    <3>3. DOMAIN sequencer' \subseteq {u \in DOMAIN settled' : u >= expecting'}
      BY <1>4, <1>5, <1>6, <2>1, <2>3 DEF IInv, Holding, Tag
    <3>4. \A u \in DOMAIN sequencer' :
             sequencer'[u] = [DeliveryTag |-> u, Ack |-> settled'[u]]
      BY <1>4, <2>1, <2>3 DEF IInv, Holding
    <3>5. \A u \in DOMAIN settled' : u >= expecting' => u \in DOMAIN sequencer'
      <4> SUFFICES ASSUME NEW u \in DOMAIN settled', u >= expecting'
                   PROVE  u \in DOMAIN sequencer
        BY <2>3
      <4>1. u \in DOMAIN settled /\ u >= expecting
        BY <1>4, <1>5, <1>6, <2>1 DEF Tag
      <4> QED
        BY <1>3, <4>1 DEF IInv, Holding, Unlocked
    <3> QED
      BY <3>1, <3>2, <3>3, <3>4, <3>5, Zenon DEF Holding
  <2> QED
    BY <2>1, <2>2, <2>4, Zenon DEF IInv
<1>7. CASE expecting # t /\ sequencer' = With(sequencer, t, c) /\ work' = w /\ UNCHANGED expecting
  <2>1. /\ DOMAIN sequencer' = DOMAIN sequencer \cup {t} /\ sequencer'[t] = c
        /\ \A u \in DOMAIN sequencer : sequencer'[u] = sequencer[u]
    BY <1>5, <1>7 DEF With
  <2>2. TypeOK'
    <3>1. \A u \in DOMAIN sequencer' : sequencer'[u] \in Confirmation
      BY <2>1 DEF IInv, TypeOK
    <3>2. DOMAIN sequencer' \subseteq Tag
      BY <1>5, <2>1
    <3>3. work' \in Work
      BY <1>7
    <3> QED
      BY <1>3, <1>4, <1>7, <3>1, <3>2, <3>3, Zenon DEF IInv, TypeOK, Work
  <2>3. Registered'
    BY <1>3 DEF IInv, Registered
  <2>4. Telling'
    BY <1>1, <1>7 DEF Telling
  <2>5. Told'
    <3>1. \A l \in Listener : ~Owed(l) /\ ~Owed(l)'
      BY <1>1, <1>3, <1>7 DEF Owed
    <3> QED
      BY <1>3, <1>7, <3>1, ToldStays DEF IInv
  <2>6. Holding'
    <3>1. work'.op # "multiple" /\ work.op # "multiple"
      BY <1>1, <1>3, <1>7 DEF Unlocked
    <3>2. 1 .. expecting' - 1 \subseteq DOMAIN settled'
      BY <1>4, <1>7 DEF IInv, Holding
    <3>3. DOMAIN sequencer' \subseteq {u \in DOMAIN settled' : u >= expecting'}
      BY <1>4, <1>5, <1>7, <2>1 DEF IInv, Holding
    <3>4. \A u \in DOMAIN sequencer' :
             sequencer'[u] = [DeliveryTag |-> u, Ack |-> settled'[u]]
      BY <1>2, <1>4, <2>1 DEF IInv, Holding
    <3>5. \A u \in DOMAIN settled' : u >= expecting' => u \in DOMAIN sequencer'
      BY <1>4, <1>7, <2>1, <3>1 DEF IInv, Holding
    <3> QED
      BY <3>1, <3>2, <3>3, <3>4, <3>5, Zenon DEF Holding
  <2> QED
    BY <1>7, <2>2, <2>3, <2>4, <2>5, <2>6, Zenon DEF IInv
<1> QED
  BY <1>1, <1>2, <1>6, <1>7, Zenon DEF One

(* The reader takes up an answer to all up to a tag. *)
LEMMA MultipleStep ==
  ASSUME IInv, NEW t \in Tag, NEW ack \in BOOLEAN, Multiple(t, ack) PROVE IInv' /\ work' \in Work
<1>1. work' \in Work /\ work'.op = "multiple" /\ work'.upto = t /\ work'.to = <<>>
  <2>1. work' = [op |-> "multiple", upto |-> t, ack |-> ack, emit |-> <<>>, to |-> <<>>]
    BY DEF Multiple
  <2> QED
    BY <2>1, WorkBegins
<1>2. /\ work = Unlocked /\ ~Working /\ Answered(1 .. t, t, ack)
      /\ UNCHANGED <<listeners, sequencer, published, expecting, told, receives, closed>>
  BY DEF Multiple, Working
<1>3. /\ DOMAIN settled' = DOMAIN settled \cup 1 .. t /\ DOMAIN settled' \subseteq Tag
      /\ \A u \in DOMAIN settled : settled'[u] = settled[u]
      /\ \A u \in DOMAIN settled' : settled'[u] \in BOOLEAN
  <2>1. settled' = [u \in DOMAIN settled \cup 1 .. t |->
                      IF u \in DOMAIN settled THEN settled[u] ELSE ack]
    BY <1>2 DEF Answered
  <2>2. DOMAIN settled \subseteq Tag /\ \A u \in DOMAIN settled : settled[u] \in BOOLEAN
    BY DEF IInv, TypeOK
  <2>3. 1 .. t \subseteq Tag
    BY ConfirmsAssumption DEF Tag
  <2> QED
    BY <2>1, <2>2, <2>3
<1>4. TypeOK'
  BY <1>1, <1>2, <1>3, Zenon DEF IInv, TypeOK, Work
<1>5. Registered'
  BY <1>2 DEF IInv, Registered
<1>6. Telling'
  BY <1>1 DEF Telling
<1>7. Told'
  <2>1. \A l \in Listener : ~Owed(l) /\ ~Owed(l)'
    BY <1>1, <1>2 DEF Owed
  <2> QED
    BY <1>2, <2>1, ToldStays DEF IInv
<1>8. Holding'
  <2>1. work.op # "multiple"
    BY <1>2 DEF Unlocked
  <2>2. DOMAIN sequencer \subseteq {u \in DOMAIN settled' : u >= expecting}
    BY <1>3 DEF IInv, Holding
  <2>3. \A u \in DOMAIN sequencer : sequencer[u] = [DeliveryTag |-> u, Ack |-> settled'[u]]
    BY <1>3 DEF IInv, Holding
  <2>4. \A u \in DOMAIN settled' : u >= expecting /\ ~(u <= t) => u \in DOMAIN sequencer
    <3> SUFFICES ASSUME NEW u \in DOMAIN settled', u >= expecting, ~(u <= t)
                 PROVE  u \in DOMAIN sequencer
      OBVIOUS
    <3>1. u \in DOMAIN settled
      BY <1>3
    <3> QED
      BY <2>1, <3>1 DEF IInv, Holding
  <2>5. 1 .. expecting - 1 \subseteq DOMAIN settled'
    BY <1>3 DEF IInv, Holding
  <2> QED
    BY <1>1, <1>2, <1>3, <2>2, <2>3, <2>4, <2>5 DEF Holding
<1> QED
  BY <1>1, <1>4, <1>5, <1>6, <1>7, <1>8, Zenon DEF IInv

(* The loop of Multiple confirms the expected tag: it is answered, whatever *)
(* the sequencer held for it is dropped.                                   *)
LEMMA MultipleNextStep == ASSUME IInv, MultipleNext PROVE IInv' /\ work' \in Work
<1>1. /\ Working /\ work.to = <<>> /\ work.op = "multiple" /\ expecting <= work.upto
      /\ UNCHANGED <<listeners, published, told, receives, closed, settled>>
      /\ Confirm(work, [DeliveryTag |-> expecting, Ack |-> work.ack])
  BY DEF MultipleNext, Emitted, LoopsOn, Working
<1>2. work \in Work /\ work.upto \in Tag /\ work.ack \in BOOLEAN
  BY <1>1, WorkingIs DEF IInv
<1>3. expecting \in Tag
  BY <1>1, <1>2, ConfirmsAssumption DEF IInv, TypeOK, Tag
<1>4. PICK c : c = [DeliveryTag |-> expecting, Ack |-> work.ack]
  BY Zenon
<1>5. c \in Confirmation /\ c.DeliveryTag = expecting
  BY <1>2, <1>3, <1>4, ConfirmationIs
<1>6. /\ work' \in Work /\ work'.op = work.op /\ work'.upto = work.upto
      /\ expecting' = expecting + 1 /\ expecting' \in 1 .. MaxPublish + 1
      /\ DOMAIN sequencer' = DOMAIN sequencer \ {expecting}
      /\ \A t \in DOMAIN sequencer' : sequencer'[t] = sequencer[t]
      /\ Registered' /\ Telling' /\ Told'
  BY <1>1, <1>2, <1>3, <1>4, <1>5, ConfirmBegins, Zenon
<1>7. TypeOK'
  <2>1. \A t \in DOMAIN sequencer' : sequencer'[t] \in Confirmation
    BY <1>6 DEF IInv, TypeOK
  <2> QED
    BY <1>1, <1>6, <2>1, Zenon DEF IInv, TypeOK, Work
<1>8. Holding'
  <2>1. 1 .. work.upto \subseteq DOMAIN settled /\ DOMAIN settled \subseteq Tag
    BY <1>1 DEF IInv, Holding, TypeOK
  <2>2. 1 .. expecting' - 1 \subseteq DOMAIN settled
    BY <1>1, <1>2, <1>3, <1>6, <2>1 DEF Tag
  <2>3. DOMAIN sequencer' \subseteq {t \in DOMAIN settled : t >= expecting'}
    BY <1>3, <1>6, <2>1 DEF IInv, Holding, Tag
  <2>4. \A t \in DOMAIN sequencer' : sequencer'[t] = [DeliveryTag |-> t, Ack |-> settled[t]]
    BY <1>6 DEF IInv, Holding
  <2>5. \A t \in DOMAIN settled : t >= expecting' /\ ~(t <= work.upto) => t \in DOMAIN sequencer'
    BY <1>1, <1>3, <1>6, <2>1 DEF IInv, Holding, Tag
  <2> QED
    BY <1>1, <1>6, <2>1, <2>2, <2>3, <2>4, <2>5 DEF Holding
<1> QED
  BY <1>6, <1>7, <1>8, Zenon DEF IInv

(* The loop of resequence confirms the expected tag, as the sequencer has it. *)
LEMMA ResequenceStep == ASSUME IInv, Resequence PROVE IInv' /\ work' \in Work
<1>1. /\ Working /\ work.to = <<>> /\ ~LoopsOn /\ expecting \in DOMAIN sequencer
      /\ UNCHANGED <<listeners, published, told, receives, closed, settled>>
      /\ Confirm(work, sequencer[expecting])
  BY DEF Resequence, Emitted, Sequenced, Working
<1>2. work \in Work /\ work.upto \in Tag
  BY <1>1, WorkingIs DEF IInv
<1>3. /\ DOMAIN settled \subseteq Tag /\ DOMAIN sequencer \subseteq DOMAIN settled
      /\ expecting \in Tag /\ sequencer[expecting] \in Confirmation
  BY <1>1 DEF IInv, TypeOK, Holding
<1>4. sequencer[expecting].DeliveryTag = expecting
  BY <1>1 DEF IInv, Holding
<1>5. /\ work' \in Work /\ work'.op = work.op /\ work'.upto = work.upto
      /\ expecting' = expecting + 1 /\ expecting' \in 1 .. MaxPublish + 1
      /\ DOMAIN sequencer' = DOMAIN sequencer \ {expecting}
      /\ \A t \in DOMAIN sequencer' : sequencer'[t] = sequencer[t]
      /\ Registered' /\ Telling' /\ Told'
  BY <1>1, <1>2, <1>3, <1>4, ConfirmBegins, Zenon
<1>6. TypeOK'
  <2>1. \A t \in DOMAIN sequencer' : sequencer'[t] \in Confirmation
    BY <1>5 DEF IInv, TypeOK
  <2> QED
    BY <1>1, <1>5, <2>1, Zenon DEF IInv, TypeOK, Work
<1>7. Holding'
  <2>1. 1 .. expecting' - 1 \subseteq DOMAIN settled
    BY <1>1, <1>3, <1>5 DEF IInv, Holding, Tag
  <2>2. DOMAIN sequencer' \subseteq {t \in DOMAIN settled : t >= expecting'}
    BY <1>3, <1>5 DEF IInv, Holding, Tag
  <2>3. \A t \in DOMAIN sequencer' : sequencer'[t] = [DeliveryTag |-> t, Ack |-> settled[t]]
    BY <1>5 DEF IInv, Holding
  <2>4. \A t \in DOMAIN settled :
           t >= expecting' /\ ~(work.op = "multiple" /\ t <= work.upto) => t \in DOMAIN sequencer'
    BY <1>3, <1>5 DEF IInv, Holding, Tag
  <2>5. work.op = "multiple" => 1 .. work.upto \subseteq DOMAIN settled
    BY DEF IInv, Holding
  <2> QED
    BY <1>1, <1>5, <2>1, <2>2, <2>3, <2>4, <2>5 DEF Holding
<1> QED
  BY <1>5, <1>6, <1>7, Zenon DEF IInv

(* The reader returns: the sequencer holds all the answers that remain. *)
LEMMA ReturnStep == ASSUME IInv, Return PROVE IInv'
<1>1. /\ Working /\ work.to = <<>> /\ ~LoopsOn /\ work' = Unlocked
      /\ UNCHANGED <<listeners, sequencer, published, expecting, told, receives, closed, settled>>
  BY DEF Return, Emitted, Working
<1>2. TypeOK'
  BY <1>1, Zenon DEF IInv, TypeOK
<1>3. Registered'
  BY <1>1 DEF IInv, Registered
<1>4. Telling'
  BY <1>1 DEF Telling, Working
<1>5. Told'
  <2>1. \A l \in Listener : ~Owed(l) /\ ~Owed(l)'
    BY <1>1 DEF Owed
  <2> QED
    BY <1>1, <2>1, ToldStays DEF IInv
<1>6. Holding'
  <2>1. \A t \in DOMAIN settled : t >= expecting => t \in DOMAIN sequencer
    <3> SUFFICES ASSUME NEW t \in DOMAIN settled, t >= expecting
                 PROVE  ~(work.op = "multiple" /\ t <= work.upto)
      BY DEF IInv, Holding
    <3>1. t \in Nat /\ expecting \in Nat
      BY DEF IInv, TypeOK, Tag
    <3>2. work.op = "multiple" => work.upto \in Nat
      BY <1>1, WorkingIs DEF IInv, Tag
    <3> QED
      BY <1>1, <3>1, <3>2 DEF LoopsOn
  <2>2. work'.op # "multiple"
    BY <1>1 DEF Unlocked
  <2> QED
    BY <1>1, <2>1, <2>2 DEF IInv, Holding
<1> QED
  BY <1>2, <1>3, <1>4, <1>5, <1>6, Zenon DEF IInv

(* A listener is told of the tag before the expected one: what it was told *)
(* last is the tag before that, and who knows of the tag was told the same.*)
LEMMA EmitTold ==
  ASSUME IInv, Working, work.to # <<>>, NEW h \in Listener, h = Head(work.to),
         NEW e \in Confirmation, e = Head(work.emit),
         told' = [told EXCEPT ![h] = Append(told[h], e)],
         work' \in Work, work'.to = Tail(work.to),
         UNCHANGED <<expecting, closed>>
  PROVE  /\ Told'
         /\ \A l \in Listener : \A i \in DOMAIN told'[l] :
              told'[l][i].DeliveryTag = expecting - 1 => told'[l][i] = e
<1>1. e.DeliveryTag = expecting - 1 /\ expecting \in Nat
  BY DEF IInv, Telling, TypeOK
<1>2. \A l \in Listener : told[l] \in Seq(Confirmation)
  BY ToldIsTyped DEF IInv
<1>3. told \in [Listener -> Seq(Confirmation)]
  BY Zenon DEF IInv, TypeOK
<1>4. PICK longer : longer = Append(told[h], e)
  BY Zenon
<1>5. /\ longer \in Seq(Confirmation) /\ longer # <<>>
      /\ Len(told[h]) \in Nat /\ Len(longer) = Len(told[h]) + 1
      /\ DOMAIN told[h] = 1 .. Len(told[h]) /\ DOMAIN longer = 1 .. Len(told[h]) + 1
      /\ \A i \in DOMAIN told[h] : longer[i] = told[h][i]
      /\ longer[Len(told[h]) + 1] = e
  BY <1>2, <1>4, AppendIs
<1>6. told'[h] = longer /\ \A l \in Listener \ {h} : told'[l] = told[l]
  BY <1>3, <1>4, <1>5, OneChanges
<1>7. \A l \in Listener : \A i \in DOMAIN told'[l] :
        (i \in DOMAIN told[l] /\ told'[l][i] = told[l][i]) \/ (l = h /\ told'[l][i] = e)
  BY <1>5, <1>6
<1>8. \A l \in Listener : \A i \in DOMAIN told[l] :
        /\ told[l][i].DeliveryTag \in Nat /\ told[l][i].DeliveryTag < expecting
        /\ told[l][i].DeliveryTag = expecting - 1 => told[l][i] = e
  BY ToldIsTyped DEF IInv, Told, Telling
<1>9. \A l \in Listener : \A i \in DOMAIN told'[l] :
        /\ told'[l][i].DeliveryTag < expecting
        /\ told'[l][i].DeliveryTag = expecting - 1 => told'[l][i] = e
  BY <1>1, <1>7, <1>8
<1>10. \A l, k \in Listener : Agree(l, k)'
  <2> SUFFICES ASSUME NEW l \in Listener, NEW k \in Listener,
                      NEW i \in DOMAIN told'[l], NEW j \in DOMAIN told'[k],
                      told'[l][i].DeliveryTag = told'[k][j].DeliveryTag
               PROVE  told'[l][i] = told'[k][j]
    BY DEF Agree
  <2>1. CASE told'[l][i].DeliveryTag = expecting - 1
    BY <1>9, <2>1
  <2>2. CASE told'[l][i].DeliveryTag # expecting - 1
    <3>1. /\ i \in DOMAIN told[l] /\ told'[l][i] = told[l][i]
          /\ j \in DOMAIN told[k] /\ told'[k][j] = told[k][j]
      BY <1>1, <1>7, <2>2
    <3>2. Agree(l, k)
      BY DEF IInv, Told
    <3> QED
      BY <3>1, <3>2 DEF Agree
  <2> QED
    BY <2>1, <2>2
<1>11. /\ work.to \in Seq(Listener) /\ work # Unlocked /\ work' # Unlocked
       /\ h = work.to[1] /\ 1 \in DOMAIN work.to
       /\ \A i \in DOMAIN work'.to :
            i + 1 \in DOMAIN work.to /\ work'.to[i] = work.to[i + 1] /\ i >= 1
       /\ \A i \in DOMAIN work.to : i # 1 => i - 1 \in DOMAIN work'.to
  <2>1. work.to \in Seq(Listener) /\ work # Unlocked /\ work' # Unlocked
    BY WorkingIs DEF IInv, Working, Work, Unlocked
  <2>2. PICK rest : rest = Tail(work.to)
    BY Zenon
  <2>3. /\ h = work.to[1] /\ 1 \in DOMAIN work.to
        /\ \A i \in DOMAIN rest :
             i + 1 \in DOMAIN work.to /\ rest[i] = work.to[i + 1] /\ i >= 1
        /\ \A i \in DOMAIN work.to : i # 1 => i - 1 \in DOMAIN rest
    BY <2>1, <2>2, TailIs
  <2> QED
    BY <2>1, <2>2, <2>3, Zenon
<1>12. \A i \in DOMAIN work.to : i \in Nat
  BY <1>11
<1>13. \A l \in Listener \ {h} : Owed(l)' <=> Owed(l)
  <2> SUFFICES ASSUME NEW l \in Listener, l # h PROVE Owed(l)' <=> Owed(l)
    OBVIOUS
  <2>1. ASSUME NEW i \in DOMAIN work.to, work.to[i] = l PROVE Owed(l)'
    <3>1. i # 1
      BY <1>11, <2>1
    <3>2. i - 1 \in DOMAIN work'.to /\ (i - 1) + 1 = i
      BY <1>11, <1>12, <3>1
    <3>3. work'.to[i - 1] = l
      BY <1>11, <2>1, <3>2
    <3> QED
      BY <1>11, <3>2, <3>3, Zenon DEF Owed
  <2>2. ASSUME NEW i \in DOMAIN work'.to, work'.to[i] = l PROVE Owed(l)
    <3>1. i + 1 \in DOMAIN work.to /\ work.to[i + 1] = l
      BY <1>11, <2>2
    <3> QED
      BY <1>11, <3>1, Zenon DEF Owed
  <2> QED
    BY <2>1, <2>2, Zenon DEF Owed
<1>14. Owed(h)
  BY <1>11, Zenon DEF Owed
<1>15. ~Owed(h)'
  <2> SUFFICES ASSUME NEW i \in DOMAIN work'.to, work'.to[i] = h PROVE FALSE
    BY Zenon DEF Owed
  <2>1. i + 1 \in DOMAIN work.to /\ work.to[i + 1] = h /\ i >= 1 /\ i + 1 \in Nat
    BY <1>11, <1>12
  <2>2. i + 1 = 1
    BY <1>11, <2>1, Zenon DEF IInv, Telling
  <2>3. i + 1 # 1
    <3>1. i \in Nat
      BY DEF Work
    <3> QED
      BY <2>1, <3>1
  <2> QED
    BY <2>2, <2>3
<1>16. \A l \in Listener \ {h} : InSequence(l)'
  BY <1>6, <1>13 DEF IInv, Told, InSequence
<1>17. InSequence(h)'
  <2>1. h \notin closed
    BY <1>11 DEF IInv, Telling, Registered
  <2> DEFINE n == Len(told[h])
  <2>2. InSequence(h)
    BY DEF IInv, Told
  <2>3. n # 0 => /\ told[h] # <<>> /\ n \in DOMAIN told[h] /\ 1 \in DOMAIN told[h]
    BY <1>2, <1>5
  <2>4. n # 0 => told[h][n].DeliveryTag = expecting - 2
    BY <1>14, <2>1, <2>2, <2>3, Zenon DEF InSequence
  <2>5. n # 0 => expecting - 2 = told[h][1].DeliveryTag + n - 1
    BY <2>2, <2>3, <2>4, Zenon DEF InSequence
  <2>6. n # 0 => longer[1] = told[h][1] /\ told[h][1].DeliveryTag \in Nat
    BY <1>5, <1>8, <2>3, Zenon
  <2>7. \A i \in DOMAIN told[h] : longer[i].DeliveryTag = longer[1].DeliveryTag + i - 1
    BY <1>5, <2>2, <2>6 DEF InSequence
  <2>8. /\ n \in Nat /\ DOMAIN told[h] = 1 .. n /\ DOMAIN longer = 1 .. n + 1
        /\ longer[n + 1] = e
    BY <1>5, Zenon
  <2> HIDE DEF n
  <2>9. longer[n + 1].DeliveryTag = longer[1].DeliveryTag + (n + 1) - 1
    <3>1. CASE n = 0
      <4>1. longer[n + 1] = longer[1] /\ longer[1].DeliveryTag \in Int
        BY <1>1, <2>8, <3>1
      <4> QED
        BY <3>1, <4>1
    <3>2. CASE n # 0
      <4>1. longer[n + 1].DeliveryTag = expecting - 1
        BY <1>1, <2>8, Zenon
      <4>2. expecting - 2 = longer[1].DeliveryTag + n - 1 /\ longer[1].DeliveryTag \in Nat
        BY <2>5, <2>6, <3>2, Zenon
      <4>3. \A x, m, y \in Nat : y - 2 = x + m - 1 => y - 1 = x + (m + 1) - 1
        OBVIOUS
      <4>4. n \in Nat /\ expecting \in Nat
        BY <1>1, <2>8
      <4> QED
        BY <4>1, <4>2, <4>3, <4>4, Zenon
    <3> QED
      BY <3>1, <3>2
  <2>10. \A i \in DOMAIN longer : longer[i].DeliveryTag = longer[1].DeliveryTag + i - 1
    <3> SUFFICES ASSUME NEW i \in 1 .. n + 1
                 PROVE  longer[i].DeliveryTag = longer[1].DeliveryTag + i - 1
      BY <2>8, Zenon
    <3>1. CASE i = n + 1
      BY <2>9, <3>1, Zenon
    <3>2. CASE i \in DOMAIN told[h]
      BY <2>7, <3>2, Zenon
    <3> QED
      BY <2>8, <3>1, <3>2
  <2>11. longer[Len(longer)].DeliveryTag = expecting - 1
    BY <1>1, <1>5
  <2> QED
    BY <1>6, <1>15, <2>10, <2>11 DEF InSequence
<1> QED
  BY <1>9, <1>10, <1>16, <1>17 DEF Told

(* l <- confirmation *)
LEMMA EmitStep == ASSUME IInv, Emit PROVE IInv' /\ work' \in Work
<1>1. Working /\ work \in Work /\ work.to # <<>> /\ work.to \in Seq(Listener)
      /\ work.emit \in Seq(Confirmation)
  BY WorkingIs DEF Emit, Working, IInv
<1>2. work.emit # <<>>
  BY <1>1 DEF IInv, Telling
<1>3. PICK e : e = Head(work.emit)
  BY Zenon
<1>4. e \in Confirmation
  BY <1>1, <1>2, <1>3, TailIs
<1>5. PICK h : h = Head(work.to)
  BY Zenon
<1>6. PICK rest : rest = Tail(work.to)
  BY Zenon
<1>7. /\ h \in Listener /\ rest \in Seq(Listener) /\ h = work.to[1]
      /\ \A i \in DOMAIN rest : i + 1 \in DOMAIN work.to /\ rest[i] = work.to[i + 1] /\ i >= 1
  BY <1>1, <1>5, <1>6, TailIs
<1>8. /\ told' = [told EXCEPT ![h] = Append(told[h], e)]
      /\ work' = [work EXCEPT !.to = rest]
      /\ UNCHANGED <<listeners, sequencer, published, expecting, receives, closed, settled>>
  BY <1>3, <1>5, <1>6 DEF Emit
<1>9. /\ work' \in Work /\ work'.op = work.op /\ work'.upto = work.upto
      /\ work'.emit = work.emit /\ work'.to = rest
  <2>1. work' = [op |-> work.op, upto |-> work.upto, ack |-> work.ack,
                 emit |-> work.emit, to |-> rest]
    BY <1>1, <1>8 DEF Work
  <2> QED
    BY <1>1, <1>7, <2>1, WorkTurns, Zenon
<1>10. told' \in [Listener -> Seq(Confirmation)]
  <2>1. told[h] \in Seq(Confirmation)
    BY <1>7, ToldIsTyped DEF IInv
  <2>2. Append(told[h], e) \in Seq(Confirmation)
    BY <1>4, <2>1
  <2>3. told \in [Listener -> Seq(Confirmation)]
    BY Zenon DEF IInv, TypeOK
  <2> QED
    BY <1>7, <1>8, <2>2, <2>3, OneChanges, Zenon
<1>11. TypeOK'
  BY <1>8, <1>9, <1>10, Zenon DEF IInv, TypeOK, Work
<1>12. /\ Told'
       /\ \A l \in Listener : \A i \in DOMAIN told'[l] :
            told'[l][i].DeliveryTag = expecting - 1 => told'[l][i] = e
  BY <1>1, <1>3, <1>4, <1>5, <1>6, <1>7, <1>8, <1>9, EmitTold, Zenon
<1>13. Registered'
  <2>1. \E i \in DOMAIN listeners : listeners[i] = h
    BY <1>1, <1>7 DEF IInv, Telling
  <2>2. \A l \in Listener : l # h => told'[l] = told[l]
    BY <1>8 DEF IInv, TypeOK
  <2> QED
    BY <1>8, <2>1, <2>2 DEF IInv, Registered
<1>14. Telling'
  <2>1. \A i \in DOMAIN rest : i \in Nat
    BY <1>7
  <2>2. \A i, j \in DOMAIN rest : rest[i] = rest[j] => i = j
    <3> SUFFICES ASSUME NEW i \in DOMAIN rest, NEW j \in DOMAIN rest, rest[i] = rest[j]
                 PROVE  i = j
      OBVIOUS
    <3>1. \A m, n \in DOMAIN work.to : work.to[m] = work.to[n] => m = n
      BY <1>1, Zenon DEF IInv, Telling
    <3>2. i + 1 = j + 1
      BY <1>7, <3>1, Zenon
    <3> QED
      BY <2>1, <3>2
  <2>3. \A i \in DOMAIN rest : \E j \in DOMAIN listeners : listeners[j] = rest[i]
    BY <1>1, <1>7 DEF IInv, Telling
  <2>4. work.emit # <<>> /\ e.DeliveryTag = expecting - 1
    BY <1>1, <1>2, <1>3 DEF IInv, Telling
  <2> QED
    BY <1>3, <1>8, <1>9, <1>12, <2>2, <2>3, <2>4 DEF Telling
<1>15. Holding'
  BY <1>8, <1>9 DEF IInv, Holding
<1> QED
  BY <1>9, <1>11, <1>12, <1>13, <1>14, <1>15, Zenon DEF IInv

(* The calls of the application find the mutex free, or do not take it. *)
LEMMA ApplicationStep ==
  ASSUME IInv, (\E l \in Listener : Listen(l) \/ Receive(l)) \/ Publish \/ Close
  PROVE  IInv'
<1>1. UNCHANGED <<sequencer, expecting, work, told, settled>>
  BY DEF Listen, Receive, Publish, Close
<1>2. Holding'
  BY <1>1 DEF IInv, Holding
<1>3. closed \subseteq closed'
  BY DEF Listen, Receive, Publish, Close
<1>4. Told'
  <2>1. \A l \in Listener : Owed(l)' <=> Owed(l)
    BY <1>1, Zenon DEF Owed
  <2> QED
    BY <1>1, <1>3, <2>1, ToldStays DEF IInv
<1>5. ASSUME NEW l \in Listener, Listen(l) PROVE TypeOK' /\ Registered' /\ Telling'
  <2>1. /\ listeners \in Seq(Listener) /\ listeners' = Append(listeners, l)
        /\ ~Working /\ ~Working'
        /\ l \notin closed /\ \A i \in DOMAIN listeners : listeners[i] # l
        /\ UNCHANGED <<sequencer, published, expecting, work, told, receives, closed, settled>>
    BY <1>5 DEF Listen, Working, IInv, TypeOK
  <2>2. /\ listeners' \in Seq(Listener)
        /\ Len(listeners) \in Nat
        /\ DOMAIN listeners = 1 .. Len(listeners) /\ DOMAIN listeners' = 1 .. Len(listeners) + 1
        /\ \A i \in DOMAIN listeners : listeners'[i] = listeners[i]
        /\ listeners'[Len(listeners) + 1] = l
    BY <2>1, AppendIs
  <2>3. \A i \in DOMAIN listeners' :
          (i \in DOMAIN listeners /\ listeners'[i] = listeners[i])
          \/ (i = Len(listeners) + 1 /\ listeners'[i] = l)
    BY <2>2
  <2>4. TypeOK'
    BY <2>1, <2>2, Zenon DEF IInv, TypeOK
  <2>5. Registered'
    <3>1. \A i, j \in DOMAIN listeners' : listeners'[i] = listeners'[j] => i = j
      <4>1. \A i, j \in DOMAIN listeners : listeners[i] = listeners[j] => i = j
        BY Zenon DEF IInv, Registered
      <4> QED
        BY <2>1, <2>3, <4>1, Zenon
    <3>2. \A i \in DOMAIN listeners' : listeners'[i] \notin closed
      BY <2>1, <2>3, Zenon DEF IInv, Registered
    <3>3. \A i \in DOMAIN listeners : i \in DOMAIN listeners' /\ listeners'[i] = listeners[i]
      BY <2>2
    <3>4. \A k \in Listener : told[k] # <<>> /\ k \notin closed =>
            \E i \in DOMAIN listeners' : listeners'[i] = k
      BY <3>3 DEF IInv, Registered
    <3> QED
      BY <2>1, <3>1, <3>2, <3>4, Zenon DEF Registered
  <2>6. Telling'
    BY <2>1 DEF Telling
  <2> QED
    BY <2>4, <2>5, <2>6
<1>6. ASSUME NEW l \in Listener, Receive(l) PROVE TypeOK' /\ Registered' /\ Telling'
  <2>1. receives' \in [Listener -> Nat]
    BY <1>6 DEF Receive, IInv, TypeOK
  <2>2. UNCHANGED <<listeners, sequencer, published, expecting, work, told, closed, settled>>
    BY <1>6 DEF Receive
  <2>3. TypeOK'
    BY <2>1, <2>2, Zenon DEF IInv, TypeOK
  <2> QED
    BY <2>2, <2>3, SameStays DEF IInv
<1>7. CASE Publish
  <2>1. published' \in 0 .. MaxPublish
    BY <1>7, ConfirmsAssumption DEF Publish, IInv, TypeOK
  <2>2. UNCHANGED <<listeners, sequencer, expecting, work, told, receives, closed, settled>>
    BY <1>7 DEF Publish
  <2>3. TypeOK'
    BY <2>1, <2>2, Zenon DEF IInv, TypeOK
  <2>4. Registered' /\ Telling'
    BY <2>2, SameStays DEF IInv
  <2> QED
    BY <1>2, <1>4, <2>3, <2>4, Zenon DEF IInv
<1>8. CASE Close
  <2>1. /\ ~Working' /\ listeners' = <<>>
        /\ closed' = closed \cup {listeners[i] : i \in DOMAIN listeners}
        /\ UNCHANGED <<sequencer, published, expecting, work, told, receives, settled>>
    BY <1>8 DEF Close, Working
  <2>2. <<>> \in Seq(Listener) /\ closed' \subseteq Listener
    BY <2>1, EmptyIsSeq DEF IInv, TypeOK
  <2>3. TypeOK'
    BY <2>1, <2>2, Zenon DEF IInv, TypeOK
  <2>4. Registered'
    <3>1. DOMAIN listeners' = {}
      BY <2>1
    <3>2. \A l \in Listener : told[l] # <<>> => l \in closed'
      BY <2>1 DEF IInv, Registered
    <3> QED
      BY <2>1, <3>1, <3>2 DEF Registered
  <2>5. Telling'
    BY <2>1 DEF Telling
  <2> QED
    BY <1>2, <1>4, <2>3, <2>4, <2>5, Zenon DEF IInv
<1> QED
  BY <1>2, <1>4, <1>5, <1>6, <1>7, <1>8, Zenon DEF IInv

(* The invariant is inductive. *)
LEMMA StepIInv == ASSUME IInv, [Next]_vars PROVE IInv'
<1>1. CASE UNCHANGED vars
  <2>1. UNCHANGED <<listeners, sequencer, published, expecting, work, told, receives,
                    closed, settled>>
    BY <1>1 DEF vars
  <2>2. TypeOK'
    BY <2>1, Zenon DEF IInv, TypeOK
  <2>3. Registered' /\ Telling' /\ Holding'
    BY <2>1, SameStays DEF IInv, Holding
  <2>4. Told'
    <3>1. \A l \in Listener : Owed(l)' <=> Owed(l)
      BY <2>1 DEF Owed
    <3> QED
      BY <2>1, <3>1, ToldStays DEF IInv
  <2> QED
    BY <2>2, <2>3, <2>4, Zenon DEF IInv
<1> QED
  BY <1>1, ApplicationStep, OneStep, MultipleStep, EmitStep, MultipleNextStep,
     ResequenceStep, ReturnStep, Zenon DEF Next

-----------------------------------------------------------------------------
(* What the invariant says of a run.                                       *)

(* Every state of a run satisfies the invariant. *)
THEOREM Invariance == Spec => []IInv
<1>1. Init => IInv
  BY InitIInv
<1>2. IInv /\ [Next]_vars => IInv'
  BY StepIInv
<1> QED
  BY <1>1, <1>2, PTL DEF Spec

(* The variables always have their types. *)
THEOREM TypeCorrect == Spec => []TypeOK
<1>1. IInv => TypeOK
  BY DEF IInv
<1> QED
  BY <1>1, Invariance, PTL

(* Listeners are told of consecutive tags, all the same, and of nothing    *)
(* that the broker has not answered.                                       *)
THEOREM InOrder == Spec => []ToldInOrder
<1>1. IInv => ToldInOrder
  <2> SUFFICES ASSUME IInv, NEW l \in Listener, NEW i \in DOMAIN told[l]
               PROVE  told[l][i].DeliveryTag \in DOMAIN settled
    BY DEF IInv, Told, ToldInOrder
  <2>1. told[l][i] \in Confirmation
    BY ToldIsTyped DEF IInv
  <2>2. told[l][i].DeliveryTag \in Nat /\ told[l][i].DeliveryTag >= 1
    BY <2>1 DEF Confirmation, Tag
  <2>3. told[l][i].DeliveryTag < expecting /\ expecting \in Nat
    BY DEF IInv, Told, TypeOK
  <2>4. told[l][i].DeliveryTag \in 1 .. expecting - 1
    BY <2>2, <2>3
  <2> QED
    BY <2>4 DEF IInv, Holding
<1> QED
  BY <1>1, Invariance, PTL

(* The sequencer holds answers to publishings to come, and between calls   *)
(* all of them: none is left behind, none is invented.                     *)
THEOREM Tidy == Spec => []SequencerIsTidy
<1>1. IInv => SequencerIsTidy
  <2> SUFFICES ASSUME IInv PROVE SequencerIsTidy
    OBVIOUS
  <2>1. work = Unlocked => work.op # "multiple"
    BY DEF Unlocked
  <2> QED
    BY <2>1 DEF IInv, Holding, SequencerIsTidy
<1> QED
  BY <1>1, Invariance, PTL

(* One and Multiple do not return while they hold back the answer to the   *)
(* publishing that is expected next.                                       *)
THEOREM HoldsNothingBack == Spec => NothingHeldBack
<1>1. ASSUME IInv, [Next]_vars
      PROVE  [(work # Unlocked /\ work' = Unlocked) =>
                (expecting \in DOMAIN settled => expecting > published)]_vars
  <2> SUFFICES ASSUME work # Unlocked, work' = Unlocked, expecting \in DOMAIN settled
               PROVE  expecting > published
    OBVIOUS
  <2>1. work' \notin Work
    BY DEF Work, Unlocked
  <2>2. work' # work /\ work \in Work
    BY <1>1, WorkingIs DEF IInv, Working
  <2>3. Return
    <3>1. ~(\E l \in Listener : Listen(l)) /\ ~Publish /\ ~Close
      BY DEF Listen, Publish, Close
    <3>2. ~(\E l \in Listener : Receive(l)) /\ ~UNCHANGED vars
      BY <2>2 DEF Receive, vars
    <3> QED
      BY <1>1, <2>1, <3>1, <3>2, OneStep, MultipleStep, EmitStep, MultipleNextStep,
         ResequenceStep, Zenon DEF Next
  <2>4. ~LoopsOn /\ ~Sequenced
    BY <2>3 DEF Return
  <2>5. ~(work.op = "multiple" /\ expecting <= work.upto)
    BY <2>4, Zenon DEF LoopsOn
  <2>6. expecting \in DOMAIN sequencer
    BY <1>1, <2>5 DEF IInv, Holding, TypeOK
  <2> QED
    BY <1>1, <2>4, <2>6 DEF Sequenced, IInv, TypeOK
<1> QED
  BY <1>1, Invariance, PTL DEF Spec, NothingHeldBack

(***************************************************************************)
(* What MutexIsReleased rests on besides fairness: while a call holds the  *)
(* mutex, each of its steps either tells one of the listeners still to be  *)
(* told, or confirms the next tag; the tags are bounded (TypeOK), so the   *)
(* loops of Multiple, resequence and confirm cannot run for ever.          *)
(***************************************************************************)
CallAdvances ==
  [][work # Unlocked /\ work' # work =>
       \/ work' = Unlocked
       \/ expecting' = expecting /\ Len(work'.to) < Len(work.to)
       \/ expecting' = expecting + 1]_vars

(* The steps of One and Multiple lead to their return. *)
THEOREM CallsAdvance == Spec => CallAdvances
<1>1. ASSUME IInv, [Next]_vars
      PROVE  [work # Unlocked /\ work' # work =>
                \/ work' = Unlocked
                \/ expecting' = expecting /\ Len(work'.to) < Len(work.to)
                \/ expecting' = expecting + 1]_vars
  <2> SUFFICES ASSUME work # Unlocked, work' # work
               PROVE  \/ work' = Unlocked
                      \/ expecting' = expecting /\ Len(work'.to) < Len(work.to)
                      \/ expecting' = expecting + 1
    OBVIOUS
  <2>1. work \in Work
    BY <1>1, WorkingIs DEF IInv, Working
  <2>2. Emit \/ MultipleNext \/ Resequence \/ Return
    BY <1>1 DEF Next, Listen, Receive, Publish, Close, One, Multiple, vars
  <2>3. CASE Emit
    <3>1. work.to \in Seq(Listener) /\ work.to # <<>>
      BY <2>1, <2>3 DEF Work, Emit
    <3>2. work' = [work EXCEPT !.to = Tail(work.to)] /\ expecting' = expecting
      BY <2>3 DEF Emit
    <3>3. work'.to = Tail(work.to)
      BY <2>1, <3>2 DEF Work
    <3>4. Len(Tail(work.to)) < Len(work.to)
      BY <3>1
    <3> QED
      BY <3>2, <3>3, <3>4
  <2>4. CASE MultipleNext
    BY <2>4 DEF MultipleNext, Confirm
  <2>5. CASE Resequence
    BY <2>5 DEF Resequence, Confirm
  <2>6. CASE Return
    BY <2>6 DEF Return
  <2> QED
    BY <2>2, <2>3, <2>4, <2>5, <2>6
<1> QED
  BY <1>1, Invariance, PTL DEF Spec, CallAdvances
=============================================================================
