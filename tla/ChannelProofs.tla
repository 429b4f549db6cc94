--------------------------- MODULE ChannelProofs ---------------------------
(***************************************************************************)
(* Proofs about Channel, for any set of channels, methods, frames and any  *)
(* bound. The inductive invariant is IInv: TypeOK, the property proved     *)
(* (DispatchedIsSpelled) and what each handler knows of the frames already *)
(* received (HandlerKnowsPlace). FullInv adds what completeness needs: a   *)
(* handler that awaits a method leaves no content open (NothingLeftOpen).  *)
(***************************************************************************)
EXTENDS Channel, WellFoundedInduction, TLAPS

(* A Channel is made with values of the right types. *)
LEMMA TypeInit == Init => TypeOK
<1> SUFFICES ASSUME Init PROVE TypeOK
  OBVIOUS
<1> USE DEF Init
<1>1. <<>> \in Seq(Octet) /\ <<>> \in Seq(Frame) /\ <<>> \in Seq(Message)
  OBVIOUS
<1>2. body \in [Chan -> Seq(Octet)]
  BY <1>1
<1>3. wire \in [Chan -> Seq(Frame)]
  BY <1>1
<1>4. dispatched \in [Chan -> Seq(Message)]
  BY <1>1
<1>5. message \in [Chan -> ContentMethod \cup {NoMessage}]
  OBVIOUS
<1>6. header \in [Chan -> HeaderFrame \cup {NoHeader}]
  OBVIOUS
<1> QED
  BY <1>2, <1>3, <1>4, <1>5, <1>6 DEF TypeOK

(* A dispatch adds a message to those of its channel. *)
LEMMA DispatchType ==
  ASSUME TypeOK, NEW c \in Chan, NEW m \in Method,
         NEW h \in HeaderFrame \cup {NoHeader}, NEW b \in Seq(Octet),
         Dispatch(c, m, h, b)
  PROVE  dispatched' \in [Chan -> Seq(Message)]
<1>1. Len(wire[c]) + 1 \in Nat
  BY DEF TypeOK
<1>2. [method |-> m, header |-> h, body |-> b, at |-> Len(wire[c]) + 1] \in Message
  BY <1>1 DEF Message
<1>3. Append(dispatched[c], [method |-> m, header |-> h, body |-> b,
                             at |-> Len(wire[c]) + 1]) \in Seq(Message)
  BY <1>2 DEF TypeOK
<1> QED
  BY <1>3 DEF Dispatch, TypeOK

(* The types of what a handler changes; the frame it is given has a type.  *)
MachineTypeOK ==
  /\ recv \in [Chan -> {"recvMethod", "recvHeader", "recvContent"}]
  /\ message \in [Chan -> ContentMethod \cup {NoMessage}]
  /\ header \in [Chan -> HeaderFrame \cup {NoHeader}]
  /\ body \in [Chan -> Seq(Octet)]
  /\ panicked \in BOOLEAN
  /\ dispatched \in [Chan -> Seq(Message)]

(* Dropping a frame keeps the types. *)
LEMMA DropType ==
  ASSUME TypeOK, NEW c \in Chan, Drop(c) PROVE MachineTypeOK'
BY DEF TypeOK, MachineTypeOK, Drop, Transition

(* A panic keeps the types. *)
LEMMA PanicType ==
  ASSUME TypeOK, Panic PROVE MachineTypeOK'
BY DEF TypeOK, MachineTypeOK, Panic

(* A method frame keeps the types, whichever handler it comes to. *)
LEMMA HandleMethodType ==
  ASSUME TypeOK, NEW c \in Chan, NEW f \in Frame, HandleMethod(c, f)
  PROVE  MachineTypeOK'
<1>1. CASE BeginContent(c, f)
  <2>1. <<>> \in Seq(Octet)
    OBVIOUS
  <2>2. body' \in [Chan -> Seq(Octet)]
    BY <1>1, <2>1 DEF BeginContent, TypeOK
  <2>3. message' \in [Chan -> ContentMethod \cup {NoMessage}]
    BY <1>1 DEF BeginContent, TypeOK
  <2> QED
    BY <1>1, <2>2, <2>3 DEF BeginContent, Transition, TypeOK, MachineTypeOK
<1>2. CASE HandlePlain(c, f)
  <2>1. f.method \in Method /\ <<>> \in Seq(Octet)
    BY <1>2 DEF HandlePlain, Method
  <2>2. dispatched' \in [Chan -> Seq(Message)]
    BY <1>2, <2>1, DispatchType DEF HandlePlain
  <2> QED
    BY <1>2, <2>2 DEF HandlePlain, Transition, TypeOK, MachineTypeOK
<1> QED
  BY <1>1, <1>2 DEF HandleMethod

(* recvMethod keeps the types. *)
LEMMA RecvMethodType ==
  ASSUME TypeOK, NEW c \in Chan, NEW f \in Frame, RecvMethod(c, f)
  PROVE  MachineTypeOK'
BY HandleMethodType, DropType, PanicType DEF RecvMethod

(* recvHeader keeps the types, message not being nil. *)
LEMMA RecvHeaderType ==
  ASSUME TypeOK, NEW c \in Chan, NEW f \in Frame, RecvHeader(c, f),
         message[c] \in ContentMethod
  PROVE  MachineTypeOK'
<1>1. CASE HandleMethod(c, f)
  BY <1>1, HandleMethodType
<1>2. CASE f.kind = "body" /\ Drop(c)
  BY <1>2, DropType
<1>3. CASE f.kind = "heartbeat" /\ Panic
  BY <1>3, PanicType
<1>4. CASE /\ f.kind = "header" /\ f.size = 0
           /\ header' = [header EXCEPT ![c] = f]
           /\ Dispatch(c, message[c], f, body[c])
           /\ Transition(c, "recvMethod")
           /\ UNCHANGED <<message, body, panicked>>
  <2>1. f \in HeaderFrame
    BY <1>4 DEF Frame, MethodFrame, HeaderFrame, BodyFrame, HeartbeatFrame
  <2>2. message[c] \in Method /\ body[c] \in Seq(Octet)
    BY DEF Method, TypeOK
  <2>3. dispatched' \in [Chan -> Seq(Message)]
    BY <1>4, <2>1, <2>2, DispatchType
  <2> QED
    BY <1>4, <2>1, <2>3 DEF Transition, TypeOK, MachineTypeOK
<1>5. CASE /\ f.kind = "header" /\ f.size > 0
           /\ header' = [header EXCEPT ![c] = f]
           /\ Transition(c, "recvContent")
           /\ UNCHANGED <<message, body, panicked, dispatched>>
  <2>1. f \in HeaderFrame
    BY <1>5 DEF Frame, MethodFrame, HeaderFrame, BodyFrame, HeartbeatFrame
  <2> QED
    BY <1>5, <2>1 DEF Transition, TypeOK, MachineTypeOK
<1> QED
  BY <1>1, <1>2, <1>3, <1>4, <1>5 DEF RecvHeader

(* recvContent keeps the types, message and header not being nil. *)
LEMMA RecvContentType ==
  ASSUME TypeOK, NEW c \in Chan, NEW f \in Frame, RecvContent(c, f),
         message[c] \in ContentMethod, header[c] \in HeaderFrame
  PROVE  MachineTypeOK'
<1>1. CASE HandleMethod(c, f)
  BY <1>1, HandleMethodType
<1>2. CASE f.kind = "header" /\ Drop(c)
  BY <1>2, DropType
<1>3. CASE f.kind = "heartbeat" /\ Panic
  BY <1>3, PanicType
<1>4. CASE f.kind = "body" /\ CannotAllocate(c) /\ Panic
  BY <1>4, PanicType
<1>5. ASSUME f.kind = "body", NEW grown, grown = body[c] \o f.body,
             body' = [body EXCEPT ![c] = grown],
             \/ /\ Dispatch(c, message[c], header[c], grown)
                /\ Transition(c, "recvMethod")
             \/ /\ Transition(c, "recvContent")
                /\ UNCHANGED dispatched,
             UNCHANGED <<message, header, panicked>>
      PROVE  MachineTypeOK'
  <2>1. f.body \in Seq(Octet)
    BY <1>5 DEF Frame, MethodFrame, HeaderFrame, BodyFrame, HeartbeatFrame
  <2>2. grown \in Seq(Octet)
    BY <1>5, <2>1 DEF TypeOK
  <2>3. message[c] \in Method
    BY DEF Method
  <2>4. dispatched' \in [Chan -> Seq(Message)]
    BY <1>5, <2>2, <2>3, DispatchType DEF TypeOK
  <2>5. body' \in [Chan -> Seq(Octet)]
    BY <1>5, <2>2 DEF TypeOK
  <2>6. recv' \in [Chan -> {"recvMethod", "recvHeader", "recvContent"}]
    BY <1>5 DEF Transition, TypeOK
  <2> QED
    BY <1>5, <2>4, <2>5, <2>6 DEF TypeOK, MachineTypeOK
<1> QED
  BY <1>1, <1>2, <1>3, <1>4, <1>5 DEF RecvContent

-----------------------------------------------------------------------------
(* recvHeader runs with a message: HandlerKnowsPlace says which frame it is. *)
LEMMA HeaderPlace ==
  ASSUME TypeOK, HandlerKnowsPlace, ~panicked, NEW c \in Chan, recv[c] = "recvHeader"
  PROVE  message[c] \in ContentMethod
BY DEF HandlerKnowsPlace, IsContentFrame

(* recvContent runs with a message and a header. *)
LEMMA ContentPlace ==
  ASSUME TypeOK, HandlerKnowsPlace, ~panicked, NEW c \in Chan, recv[c] = "recvContent"
  PROVE  message[c] \in ContentMethod /\ header[c] \in HeaderFrame
<1>1. PICK i \in DOMAIN wire[c] :
        Gathers(wire[c], i, Len(wire[c]), message[c], header[c], body[c])
  BY DEF HandlerKnowsPlace
<1>2. /\ wire[c] \in Seq(Frame) /\ i \in 1 .. Len(wire[c]) - 1
      /\ wire[c][i].method = message[c] /\ wire[c][i].method \in ContentMethod
      /\ wire[c][i+1].kind = "header" /\ wire[c][i+1] = header[c]
  BY <1>1 DEF Gathers, IsContentFrame, TypeOK
<1>3. wire[c][i+1] \in Frame
  BY <1>2
<1> QED
  BY <1>2, <1>3 DEF Frame, MethodFrame, HeaderFrame, BodyFrame, HeartbeatFrame

(* One frame keeps the types, whoever put it on the channel. *)
LEMMA TypeStep ==
  ASSUME TypeOK, HandlerKnowsPlace, NEW c \in Chan, NEW f \in Frame, Demux(c, f)
  PROVE  TypeOK'
<1>1. ~panicked /\ channels' \subseteq Chan
  BY DEF Demux, TypeOK
<1>2. Append(wire[c], f) \in Seq(Frame)
  BY DEF TypeOK
<1>3. wire' \in [Chan -> Seq(Frame)]
  BY <1>2 DEF Demux, TypeOK
<1>4. MachineTypeOK'
  <2>1. CASE recv[c] = "recvMethod" /\ RecvMethod(c, f)
    BY <2>1, RecvMethodType
  <2>2. CASE recv[c] = "recvHeader" /\ RecvHeader(c, f)
    BY <1>1, <2>2, HeaderPlace, RecvHeaderType
  <2>3. CASE recv[c] = "recvContent" /\ RecvContent(c, f)
    BY <1>1, <2>3, ContentPlace, RecvContentType
  <2> QED
    BY <2>1, <2>2, <2>3 DEF Demux
<1> QED
  BY <1>1, <1>3, <1>4 DEF TypeOK, MachineTypeOK

-----------------------------------------------------------------------------
(* Facts about the reference definitions, on any sequence of frames w.     *)

(* A further frame does not change what the body frames before it carry. *)
LEMMA PiecesAppend ==
  ASSUME NEW w \in Seq(Frame), NEW f \in Frame, NEW i \in 1 .. Len(w),
         NEW j \in i+1 .. Len(w), NEW b \in Seq(Octet), NEW cut \in Cuts(i, j, b),
         Pieces(w, i, j, b, cut)
  PROVE  Pieces(Append(w, f), i, j, b, cut)
<1>1. \A n \in i+2 .. j : Append(w, f)[n] = w[n]
  OBVIOUS
<1> QED
  BY <1>1 DEF Pieces

(* What a run of frames spells does not depend on the frames after it. *)
LEMMA SpellsAppend ==
  ASSUME NEW w \in Seq(Frame), NEW f \in Frame, NEW i \in Nat, NEW j \in Nat,
         NEW m, NEW h, NEW b \in Seq(Octet), Spells(w, i, j, m, h, b)
  PROVE  Spells(Append(w, f), i, j, m, h, b)
<1>1. i \in 1 .. Len(w) /\ j \in i+1 .. Len(w)
  BY DEF Spells
<1>2. Append(w, f)[i] = w[i] /\ Append(w, f)[i+1] = w[i+1] /\ Len(Append(w, f)) = Len(w) + 1
  BY <1>1
<1>3. PICK cut \in Cuts(i, j, b) :
        Pieces(w, i, j, b, cut) /\ (j > i+1 => cut[j-1] < h.size)
  BY DEF Spells
<1>4. Pieces(Append(w, f), i, j, b, cut)
  BY <1>1, <1>3, PiecesAppend
<1> QED
  BY <1>1, <1>2, <1>3, <1>4 DEF Spells, IsContentFrame

(* A header frame after a method frame with content. *)
LEMMA HeaderFollows ==
  ASSUME NEW w \in Seq(Frame), NEW f \in HeaderFrame, Len(w) > 0,
         IsContentFrame(w[Len(w)])
  PROVE  LET m == w[Len(w)].method
             grownWire == Append(w, f)
         IN  /\ f.size > 0 => Gathers(grownWire, Len(w), Len(w) + 1, m, f, <<>>)
             /\ f.size = 0 => Spells(grownWire, Len(w), Len(w) + 1, m, f, <<>>)
<1> DEFINE i == Len(w)
           v == Append(w, f)
           cut == [n \in i+1 .. i+1 |-> 0]
<1>1. i \in Nat \ {0} /\ f \in Frame
  BY DEF Frame
<1>2. v[i] = w[i] /\ v[i+1] = f /\ Len(v) = i + 1
  BY <1>1
<1>3. cut \in Cuts(i, i+1, <<>>)
  BY <1>1 DEF Cuts
<1>4. Pieces(v, i, i+1, <<>>, cut)
  BY <1>1 DEF Pieces
<1>5. f.kind = "header" /\ f.size \in Nat
  BY DEF HeaderFrame
<1>6. i \in 1 .. (i+1) - 1
  BY <1>1
<1> HIDE DEF v, cut
<1>7. f.size > 0 => Gathers(v, i, i+1, w[i].method, f, <<>>)
  BY <1>1, <1>2, <1>3, <1>4, <1>5, <1>6 DEF Gathers, IsContentFrame
<1>8. f.size = 0 => Spells(v, i, i+1, w[i].method, f, <<>>)
  BY <1>1, <1>2, <1>3, <1>4, <1>5, <1>6 DEF Spells, IsContentFrame
<1> QED
  BY <1>7, <1>8 DEF v

(* A place inside a piece of a sequence is a place of the sequence. *)
LEMMA WithinSum ==
  ASSUME NEW x \in Nat, NEW l \in Nat, NEW t \in Nat, x + l <= t
  PROVE  \A p \in 1 .. l : x + p \in 1 .. t
OBVIOUS

(* A body frame while content is being gathered. *)
LEMMA BodyFollows ==
  ASSUME NEW w \in Seq(Frame), NEW f \in BodyFrame, NEW i \in Nat, NEW m,
         NEW h \in HeaderFrame, NEW b \in Seq(Octet),
         Gathers(w, i, Len(w), m, h, b)
  PROVE  LET grown == b \o f.body
             grownWire == Append(w, f)
         IN  /\ Len(grown) < h.size => Gathers(grownWire, i, Len(w) + 1, m, h, grown)
             /\ Len(grown) >= h.size => Spells(grownWire, i, Len(w) + 1, m, h, grown)
<1> DEFINE j == Len(w)
           v == Append(w, f)
           grown == b \o f.body
<1>1. i \in 1 .. j-1 /\ j \in Nat /\ IsContentFrame(w[i]) /\ w[i].method = m
  BY DEF Gathers
<1>2. w[i+1].kind = "header" /\ w[i+1] = h /\ Len(b) < h.size
  BY DEF Gathers
<1>3. PICK cut \in Cuts(i, j, b) : Pieces(w, i, j, b, cut)
  BY DEF Gathers
<1>4. /\ f \in Frame /\ f.kind = "body" /\ f.body \in Seq(Octet)
      /\ h.size \in Nat
  BY DEF Frame, BodyFrame, HeaderFrame
<1>5. /\ Len(v) = j + 1 /\ v[j+1] = f
      /\ \A n \in 1 .. j : v[n] = w[n]
  BY <1>1, <1>4
<1>6. /\ grown \in Seq(Octet) /\ Len(grown) = Len(b) + Len(f.body)
      /\ Len(b) \in Nat /\ Len(f.body) \in Nat
      /\ \A p \in 1 .. Len(b) : grown[p] = b[p]
      /\ \A p \in 1 .. Len(f.body) : grown[Len(b) + p] = f.body[p]
  BY <1>4
<1> DEFINE more == [n \in i+1 .. j+1 |-> IF n = j+1 THEN Len(grown) ELSE cut[n]]
<1> HIDE DEF v, grown
<1>7. more \in Cuts(i, j+1, grown)
  <2>1. \A n \in i+1 .. j : cut[n] \in 0 .. Len(b)
    BY <1>3 DEF Cuts
  <2>2. \A n \in i+1 .. j+1 : more[n] \in 0 .. Len(grown)
    BY <1>1, <1>6, <2>1
  <2> QED
    BY <2>2 DEF Cuts
<1>8. /\ more[i+1] = 0 /\ more[j] = Len(b) /\ more[j+1] = Len(grown)
      /\ \A n \in i+1 .. j : more[n] = cut[n] /\ cut[n] \in 0 .. Len(b)
  <2>1. cut[i+1] = 0 /\ cut[j] = Len(b)
    BY <1>3 DEF Pieces
  <2>2. \A n \in i+1 .. j : cut[n] \in 0 .. Len(b)
    BY <1>3 DEF Cuts
  <2>3. \A n \in i+1 .. j : more[n] = cut[n]
    BY <1>1
  <2>4. more[j+1] = Len(grown) /\ i+1 \in i+1 .. j /\ j \in i+1 .. j
    BY <1>1
  <2> QED
    BY <2>1, <2>2, <2>3, <2>4
<1> HIDE DEF more
<1>9. Pieces(v, i, j+1, grown, more)
  <2>1. ASSUME NEW n \in i+2 .. j+1
        PROVE  /\ v[n].kind = "body"
               /\ more[n] = more[n-1] + Len(v[n].body)
               /\ \A p \in 1 .. Len(v[n].body) : grown[more[n-1] + p] = v[n].body[p]
    <3>1. CASE n = j+1
      <4>1. v[n] = f /\ more[n] = Len(b) + Len(f.body) /\ more[n-1] = Len(b)
        BY <1>1, <1>5, <1>6, <1>8, <3>1
      <4> QED
        BY <1>4, <1>6, <4>1
    <3>2. CASE n \in i+2 .. j
      <4>1. v[n] = w[n] /\ n-1 \in i+1 .. j /\ n \in i+1 .. j
        BY <1>1, <1>5, <3>2
      <4>2. /\ w[n].kind = "body" /\ cut[n] = cut[n-1] + Len(w[n].body)
            /\ \A p \in 1 .. Len(w[n].body) : b[cut[n-1] + p] = w[n].body[p]
        BY <1>3, <3>2 DEF Pieces
      <4>3. w[n] \in Frame
        BY <1>1, <4>1
      <4>4. w[n].body \in Seq(Octet)
        BY <4>2, <4>3 DEF Frame, MethodFrame, HeaderFrame, BodyFrame, HeartbeatFrame
      <4>5. /\ cut[n] \in 0 .. Len(b) /\ cut[n-1] \in 0 .. Len(b)
            /\ more[n] = cut[n] /\ more[n-1] = cut[n-1]
        BY <1>8, <4>1
      <4>6. Len(w[n].body) \in Nat
        BY <4>4
      <4>7. \A p \in 1 .. Len(w[n].body) : cut[n-1] + p \in 1 .. Len(b)
        <5>1. /\ cut[n-1] \in Nat /\ Len(b) \in Nat
              /\ cut[n-1] + Len(w[n].body) <= Len(b)
          BY <1>6, <4>2, <4>5
        <5> QED
          BY <4>6, <5>1, WithinSum
      <4> QED
        BY <1>6, <4>1, <4>2, <4>5, <4>7
    <3> QED
      BY <1>1, <3>1, <3>2
  <2> QED
    BY <1>8, <2>1 DEF Pieces
<1>10. i \in 1 .. (j+1) - 1 /\ v[i] = w[i] /\ v[i+1] = w[i+1]
  BY <1>1, <1>5
<1>11. Len(grown) < h.size => Gathers(v, i, j+1, m, h, grown)
  BY <1>1, <1>2, <1>5, <1>7, <1>9, <1>10 DEF Gathers
<1>12. Len(grown) >= h.size => Spells(v, i, j+1, m, h, grown)
  <2>1. more[(j+1) - 1] < h.size
    BY <1>1, <1>2, <1>8
  <2> QED
    BY <1>1, <1>2, <1>5, <1>7, <1>9, <1>10, <2>1 DEF Spells
<1> QED
  BY <1>11, <1>12 DEF v, grown

-----------------------------------------------------------------------------
(* One frame, and the channel it is on. *)

(* A frame is added to its channel and to no other. *)
LEMMA WireStep ==
  ASSUME TypeOK, NEW c \in Chan, NEW f \in Frame, Demux(c, f)
  PROVE  /\ wire'[c] = Append(wire[c], f)
         /\ \A d \in Chan \ {c} : wire'[d] = wire[d]
         /\ wire[c] \in Seq(Frame) /\ Len(wire'[c]) = Len(wire[c]) + 1
BY DEF Demux, TypeOK

(* The state machines of the other channels do not move. *)
LEMMA OthersUntouched ==
  ASSUME TypeOK, NEW c \in Chan, NEW f \in Frame, Demux(c, f), NEW d \in Chan \ {c}
  PROVE  /\ recv'[d] = recv[d] /\ message'[d] = message[d] /\ header'[d] = header[d]
         /\ body'[d] = body[d] /\ dispatched'[d] = dispatched[d]
<1> USE DEF TypeOK, Transition, Dispatch
<1>1. CASE HandleMethod(c, f)
  BY <1>1 DEF HandleMethod, BeginContent, HandlePlain
<1>2. CASE Drop(c) \/ Panic
  BY <1>2 DEF Drop, Panic
<1>3. CASE RecvMethod(c, f)
  BY <1>1, <1>2, <1>3 DEF RecvMethod
<1>4. CASE RecvHeader(c, f)
  BY <1>1, <1>2, <1>4 DEF RecvHeader
<1>5. CASE RecvContent(c, f)
  BY <1>1, <1>2, <1>5 DEF RecvContent
<1> QED
  BY <1>3, <1>4, <1>5 DEF Demux

(* What the handlers do to the channel of the frame, as the four outcomes  *)
(* that matter: nothing is being gathered, a method frame with content has *)
(* come, content is being gathered, or the program has panicked.           *)
LEMMA PlaceOfChannel ==
  ASSUME TypeOK, HandlerKnowsPlace, NEW c \in Chan, NEW f \in Frame, Demux(c, f),
         ~panicked'
  PROVE  \/ recv'[c] = "recvMethod"
         \/ /\ recv'[c] = "recvHeader" /\ body'[c] = <<>>
            /\ IsContentFrame(f) /\ f.method = message'[c]
         \/ /\ recv'[c] = "recvContent"
            /\ \E i \in DOMAIN wire'[c] :
                 Gathers(wire'[c], i, Len(wire'[c]), message'[c], header'[c], body'[c])
<1>1. CASE HandleMethod(c, f)
  BY <1>1 DEF HandleMethod, BeginContent, HandlePlain, Transition, TypeOK, IsContentFrame
<1>2. CASE Drop(c)
  BY <1>2 DEF Drop, Transition, TypeOK
<1>3. ~Panic /\ ~panicked
  BY DEF Panic, Demux
<1>4. CASE recv[c] = "recvMethod" /\ RecvMethod(c, f)
  BY <1>1, <1>2, <1>3, <1>4 DEF RecvMethod
<1>5. CASE recv[c] = "recvHeader" /\ RecvHeader(c, f)
  <2>1. CASE f.kind = "header" /\ f.size = 0 /\ Transition(c, "recvMethod")
    BY <2>1 DEF Transition, TypeOK
  <2>2. CASE /\ f.kind = "header" /\ f.size > 0
             /\ header' = [header EXCEPT ![c] = f]
             /\ Transition(c, "recvContent")
             /\ UNCHANGED <<message, body, panicked, dispatched>>
    <3>1. /\ body[c] = <<>> /\ Len(wire[c]) > 0 /\ IsContentFrame(wire[c][Len(wire[c])])
          /\ wire[c][Len(wire[c])].method = message[c]
      BY <1>3, <1>5 DEF HandlerKnowsPlace
    <3>2. f \in HeaderFrame
      BY <2>2 DEF Frame, MethodFrame, HeaderFrame, BodyFrame, HeartbeatFrame
    <3>3. Gathers(wire'[c], Len(wire[c]), Len(wire[c]) + 1, message[c], f, <<>>)
      BY <2>2, <3>1, <3>2, HeaderFollows, WireStep
    <3>4. /\ recv'[c] = "recvContent" /\ header'[c] = f /\ message'[c] = message[c]
          /\ body'[c] = <<>>
      BY <2>2, <3>1 DEF Transition, TypeOK
    <3>5. Len(wire[c]) \in DOMAIN wire'[c]
      BY <3>1, WireStep
    <3> QED
      BY <3>3, <3>4, <3>5, WireStep
  <2> QED
    BY <1>1, <1>2, <1>3, <1>5, <2>1, <2>2 DEF RecvHeader
<1>6. CASE recv[c] = "recvContent" /\ RecvContent(c, f)
  <2>1. CASE f.kind = "body" /\ ~CannotAllocate(c)
    <3> DEFINE grown == body[c] \o f.body
    <3>0. ~Complete(c, grown) => Len(grown) < header[c].size
      <4>1. f.body \in Seq(Octet)
        BY <2>1 DEF Frame, MethodFrame, HeaderFrame, BodyFrame, HeartbeatFrame
      <4>2. Len(grown) \in Nat
        <5>1. body[c] \in Seq(Octet)
          BY DEF TypeOK
        <5>2. grown \in Seq(Octet)
          BY <4>1, <5>1
        <5> HIDE DEF grown
        <5> QED
          BY <5>2
      <4>3. header[c].size \in Nat
        BY <1>3, <1>6, ContentPlace DEF HeaderFrame
      <4> HIDE DEF grown
      <4> QED
        BY <4>2, <4>3 DEF Complete
    <3>1. /\ body' = [body EXCEPT ![c] = grown]
          /\ \/ Transition(c, "recvMethod")
             \/ Len(grown) < header[c].size /\ Transition(c, "recvContent")
          /\ UNCHANGED <<message, header, panicked>>
      BY <1>3, <1>6, <2>1, <3>0 DEF RecvContent, HandleMethod, BeginContent, HandlePlain
    <3>2. CASE Transition(c, "recvMethod")
      BY <3>2 DEF Transition, TypeOK
    <3>3. CASE Len(grown) < header[c].size /\ Transition(c, "recvContent")
      <4>1. PICK i \in DOMAIN wire[c] :
              Gathers(wire[c], i, Len(wire[c]), message[c], header[c], body[c])
        BY <1>3, <1>6 DEF HandlerKnowsPlace
      <4>2. f \in BodyFrame /\ header[c] \in HeaderFrame /\ body[c] \in Seq(Octet) /\ i \in Nat
        <5>1. f \in BodyFrame
          BY <2>1 DEF Frame, MethodFrame, HeaderFrame, BodyFrame, HeartbeatFrame
        <5> QED
          BY <1>3, <1>6, <5>1, ContentPlace, WireStep DEF TypeOK
      <4>3. Gathers(wire'[c], i, Len(wire[c]) + 1, message[c], header[c], grown)
        BY <3>3, <4>1, <4>2, BodyFollows, WireStep
      <4>4. /\ recv'[c] = "recvContent" /\ header'[c] = header[c] /\ message'[c] = message[c]
            /\ body'[c] = grown
        BY <3>1, <3>3 DEF Transition, TypeOK
      <4>5. i \in DOMAIN wire'[c]
        BY WireStep
      <4> QED
        BY <4>3, <4>4, <4>5, WireStep
    <3> QED
      BY <3>1, <3>2, <3>3
  <2> QED
    BY <1>1, <1>2, <1>3, <1>6, <2>1 DEF RecvContent
<1> QED
  BY <1>4, <1>5, <1>6 DEF Demux

(* One frame keeps HandlerKnowsPlace. *)
LEMMA PlaceStep ==
  ASSUME TypeOK, HandlerKnowsPlace, NEW c \in Chan, NEW f \in Frame, Demux(c, f)
  PROVE  HandlerKnowsPlace'
<1> SUFFICES ASSUME ~panicked', NEW d \in Chan
             PROVE  /\ recv'[d] = "recvHeader" =>
                         /\ body'[d] = <<>>
                         /\ Len(wire'[d]) > 0
                         /\ IsContentFrame(wire'[d][Len(wire'[d])])
                         /\ wire'[d][Len(wire'[d])].method = message'[d]
                    /\ recv'[d] = "recvContent" =>
                         \E i \in DOMAIN wire'[d] :
                           Gathers(wire'[d], i, Len(wire'[d]), message'[d], header'[d], body'[d])
  BY DEF HandlerKnowsPlace
<1>1. CASE d = c
  <2>1. wire'[c][Len(wire'[c])] = f /\ Len(wire'[c]) > 0
    BY WireStep
  <2> QED
    BY <1>1, <2>1, PlaceOfChannel
<1>2. CASE d # c
  <2>1. /\ recv'[d] = recv[d] /\ message'[d] = message[d]
        /\ header'[d] = header[d] /\ body'[d] = body[d] /\ wire'[d] = wire[d]
    BY <1>2, WireStep, OthersUntouched
  <2>2. ~panicked
    BY DEF Demux
  <2>3. /\ recv[d] = "recvHeader" =>
             /\ body[d] = <<>>
             /\ Len(wire[d]) > 0
             /\ IsContentFrame(wire[d][Len(wire[d])])
             /\ wire[d][Len(wire[d])].method = message[d]
        /\ recv[d] = "recvContent" =>
             \E i \in DOMAIN wire[d] :
               Gathers(wire[d], i, Len(wire[d]), message[d], header[d], body[d])
    BY <2>2 DEF HandlerKnowsPlace
  <2> QED
    BY <2>1, <2>3, Zenon
<1> QED
  BY <1>1, <1>2

(* What a dispatched message must be on the wire of its channel. *)
Spelled(w, d) ==
  /\ d.at <= Len(w)
  /\ \/ \E i \in 1 .. d.at : Spells(w, i, d.at, d.method, d.header, d.body)
     \/ d.at > 0 /\ IsPlainFrame(w[d.at]) /\ w[d.at].method = d.method

(* A message spelled by a wire is spelled by any longer one. *)
LEMMA SpelledAppend ==
  ASSUME NEW w \in Seq(Frame), NEW f \in Frame, NEW d \in Message, Spelled(w, d)
  PROVE  Spelled(Append(w, f), d)
<1>1. d.at \in Nat /\ d.at <= Len(w) /\ d.body \in Seq(Octet)
  BY DEF Message, Spelled
<1>2. CASE \E i \in 1 .. d.at : Spells(w, i, d.at, d.method, d.header, d.body)
  <2>1. PICK i \in 1 .. d.at : Spells(w, i, d.at, d.method, d.header, d.body)
    BY <1>2
  <2>2. Spells(Append(w, f), i, d.at, d.method, d.header, d.body)
    BY <1>1, <2>1, SpellsAppend
  <2> QED
    BY <1>1, <2>2 DEF Spelled
<1>3. CASE d.at > 0 /\ IsPlainFrame(w[d.at]) /\ w[d.at].method = d.method
  <2>1. Append(w, f)[d.at] = w[d.at]
    BY <1>1, <1>3
  <2> QED
    BY <1>1, <1>3, <2>1 DEF Spelled
<1> QED
  BY <1>2, <1>3 DEF Spelled

(* A step dispatches nothing, or one message spelled by the frames so far. *)
LEMMA DispatchStep ==
  ASSUME TypeOK, HandlerKnowsPlace, NEW c \in Chan, NEW f \in Frame, Demux(c, f)
  PROVE  \/ dispatched'[c] = dispatched[c]
         \/ \E d : dispatched'[c] = Append(dispatched[c], d) /\ Spelled(wire'[c], d)
<1> DEFINE n == Len(wire[c]) + 1
           Dispatched(m, h, b) == [method |-> m, header |-> h, body |-> b, at |-> n]
<1>0. /\ wire'[c] = Append(wire[c], f) /\ Len(wire'[c]) = n /\ wire'[c][n] = f
      /\ n \in Nat \ {0}
  BY WireStep
<1>1. ASSUME NEW m, NEW h, NEW b, Dispatch(c, m, h, b), Spelled(wire'[c], Dispatched(m, h, b))
      PROVE  \E d : dispatched'[c] = Append(dispatched[c], d) /\ Spelled(wire'[c], d)
  <2>1. dispatched'[c] = Append(dispatched[c], Dispatched(m, h, b))
    BY <1>1 DEF Dispatch, TypeOK
  <2> QED
    BY <1>1, <2>1
<1>2. ASSUME NEW m, NEW h, NEW b, NEW i \in 1 .. n, Spells(wire'[c], i, n, m, h, b)
      PROVE  Spelled(wire'[c], Dispatched(m, h, b))
  BY <1>0, <1>2 DEF Spelled
<1>3. CASE HandleMethod(c, f)
  <2>1. CASE BeginContent(c, f)
    BY <2>1 DEF BeginContent
  <2>2. CASE HandlePlain(c, f)
    <3>1. IsPlainFrame(f) /\ Dispatch(c, f.method, NoHeader, <<>>)
      BY <2>2 DEF HandlePlain, IsPlainFrame
    <3>2. Spelled(wire'[c], Dispatched(f.method, NoHeader, <<>>))
      BY <1>0, <3>1 DEF Spelled
    <3> QED
      BY <1>1, <3>1, <3>2
  <2> QED
    BY <1>3, <2>1, <2>2 DEF HandleMethod
<1>4. CASE Drop(c) \/ Panic \/ UNCHANGED dispatched
  BY <1>4 DEF Drop, Panic
<1>5. CASE recv[c] = "recvMethod" /\ RecvMethod(c, f)
  BY <1>3, <1>4, <1>5 DEF RecvMethod
<1>6. CASE recv[c] = "recvHeader" /\ RecvHeader(c, f)
  <2>1. CASE f.kind = "header" /\ f.size = 0 /\ Dispatch(c, message[c], f, body[c])
    <3>1. /\ body[c] = <<>> /\ Len(wire[c]) > 0 /\ IsContentFrame(wire[c][Len(wire[c])])
          /\ wire[c][Len(wire[c])].method = message[c]
      BY <1>6 DEF HandlerKnowsPlace, Demux
    <3>2. f \in HeaderFrame
      BY <2>1 DEF Frame, MethodFrame, HeaderFrame, BodyFrame, HeartbeatFrame
    <3>3. Spells(wire'[c], n-1, n, message[c], f, <<>>) /\ n-1 \in 1 .. n
      BY <1>0, <2>1, <3>1, <3>2, HeaderFollows, WireStep
    <3> QED
      BY <1>1, <1>2, <2>1, <3>1, <3>3
  <2> QED
    BY <1>3, <1>4, <1>6, <2>1 DEF RecvHeader
<1>7. CASE recv[c] = "recvContent" /\ RecvContent(c, f)
  <2> DEFINE grown == body[c] \o f.body
  <2>1. CASE /\ f.kind = "body" /\ Len(grown) >= header[c].size
             /\ Dispatch(c, message[c], header[c], grown)
    <3>1. PICK i \in DOMAIN wire[c] :
            Gathers(wire[c], i, Len(wire[c]), message[c], header[c], body[c])
      BY <1>7 DEF HandlerKnowsPlace, Demux
    <3>2. f \in BodyFrame
      BY <2>1 DEF Frame, MethodFrame, HeaderFrame, BodyFrame, HeartbeatFrame
    <3>3. header[c] \in HeaderFrame /\ body[c] \in Seq(Octet) /\ i \in 1 .. n /\ i \in Nat
      BY <1>7, ContentPlace, WireStep DEF TypeOK, Demux
    <3>4. Len(grown) >= header[c].size =>
            Spells(Append(wire[c], f), i, Len(wire[c]) + 1, message[c], header[c], grown)
      BY <3>1, <3>2, <3>3, BodyFollows, WireStep
    <3>5. Spells(wire'[c], i, n, message[c], header[c], grown)
      BY <1>0, <2>1, <3>4
    <3> QED
      BY <1>1, <1>2, <2>1, <3>3, <3>5
  <2> QED
    BY <1>3, <1>4, <1>7, <2>1 DEF RecvContent, Complete
<1> QED
  BY <1>5, <1>6, <1>7 DEF Demux

(* One frame keeps DispatchedIsSpelled. *)
LEMMA SpelledStep ==
  ASSUME TypeOK, HandlerKnowsPlace, DispatchedIsSpelled,
         NEW c \in Chan, NEW f \in Frame, Demux(c, f)
  PROVE  DispatchedIsSpelled'
<1>1. \A d \in Chan : \A n \in DOMAIN dispatched[d] : Spelled(wire[d], dispatched[d][n])
  BY DEF DispatchedIsSpelled, Spelled
<1>2. SUFFICES ASSUME NEW d \in Chan, NEW n \in DOMAIN dispatched'[d]
               PROVE  Spelled(wire'[d], dispatched'[d][n])
  BY DEF DispatchedIsSpelled, Spelled
<1>3. CASE d # c
  BY <1>1, <1>3, WireStep, OthersUntouched
<1>4. CASE d = c
  <2>1. dispatched[c] \in Seq(Message) /\ wire[c] \in Seq(Frame)
    BY DEF TypeOK
  <2>2. ASSUME NEW k \in DOMAIN dispatched[c]
        PROVE  Spelled(wire'[c], dispatched[c][k])
    <3>1. dispatched[c][k] \in Message /\ Spelled(wire[c], dispatched[c][k])
      BY <1>1, <2>1
    <3> QED
      BY <2>1, <3>1, SpelledAppend, WireStep
  <2>3. CASE dispatched'[c] = dispatched[c]
    BY <1>4, <2>2, <2>3
  <2>4. ASSUME NEW e, dispatched'[c] = Append(dispatched[c], e), Spelled(wire'[c], e)
        PROVE  Spelled(wire'[c], dispatched'[c][n])
    <3>1. \/ n \in DOMAIN dispatched[c] /\ dispatched'[c][n] = dispatched[c][n]
          \/ dispatched'[c][n] = e
      BY <1>4, <2>1, <2>4
    <3> QED
      BY <2>2, <2>4, <3>1
  <2> QED
    BY <1>4, <2>3, <2>4, DispatchStep
<1> QED
  BY <1>3, <1>4

-----------------------------------------------------------------------------
IInv == TypeOK /\ HandlerKnowsPlace /\ DispatchedIsSpelled

(* A new Channel satisfies the inductive invariant. *)
LEMMA InitIInv == Init => IInv
<1>1. Init => HandlerKnowsPlace
  BY DEF Init, HandlerKnowsPlace
<1>2. Init => DispatchedIsSpelled
  BY DEF Init, DispatchedIsSpelled
<1> QED
  BY <1>1, <1>2, TypeInit DEF IInv

(* A step keeps IInv whatever frame of whatever channel it is for: this is *)
(* also what the composition with the peers of the connection rests on.    *)
LEMMA DemuxIInv ==
  ASSUME IInv, NEW c \in Chan, NEW f \in Frame, Demux(c, f) PROVE IInv'
BY TypeStep, PlaceStep, SpelledStep DEF IInv

(* So does a step that does not concern the analyser. *)
LEMMA StutterIInv == IInv /\ UNCHANGED vars => IInv'
<1> SUFFICES ASSUME IInv, UNCHANGED vars PROVE IInv'
  OBVIOUS
<1>1. TypeOK'
  BY DEF IInv, vars, TypeOK
<1>2. HandlerKnowsPlace'
  BY DEF IInv, vars, HandlerKnowsPlace
<1>3. DispatchedIsSpelled'
  BY DEF IInv, vars, DispatchedIsSpelled
<1> QED
  BY <1>1, <1>2, <1>3 DEF IInv

(***************************************************************************)
(* The inductive invariant holds in every reachable state.                 *)
(***************************************************************************)
THEOREM Inductive == Spec => []IInv
<1>1. Init => IInv
  BY InitIInv
<1>2. IInv /\ [Next]_vars => IInv'
  BY ChannelAssumption, DemuxIInv, StutterIInv DEF Next
<1> QED
  BY <1>1, <1>2, PTL DEF Spec

(***************************************************************************)
(* Every variable of the state machine keeps its type: in particular a     *)
(* message handed to dispatch always has a method, never the nil message.  *)
(***************************************************************************)
THEOREM TypeCorrect == Spec => []TypeOK
<1>1. IInv => TypeOK
  BY DEF IInv
<1> QED
  BY <1>1, Inductive, PTL

(***************************************************************************)
(* No handler ever finds message or header nil, or a body left over from   *)
(* content that was interrupted.                                           *)
(***************************************************************************)
THEOREM HandlersKnowTheirPlace == Spec => []HandlerKnowsPlace
<1>1. IInv => HandlerKnowsPlace
  BY DEF IInv
<1> QED
  BY <1>1, Inductive, PTL

(***************************************************************************)
(* Soundness of the reassembly: whatever frames arrive, in whatever order, *)
(* a message is dispatched only as spelled by consecutive frames of its    *)
(* channel, ending with the frame just received.                           *)
(***************************************************************************)
THEOREM ReassemblyIsSound == Spec => []DispatchedIsSpelled
<1>1. IInv => DispatchedIsSpelled
  BY DEF IInv
<1> QED
  BY <1>1, Inductive, PTL

-----------------------------------------------------------------------------
(* Completeness: its reference counts the octets of a run by a recursive   *)
(* function, so that facts about it need induction over the frames.        *)

(* Induction over the natural numbers, on the set of those it holds for. *)
LEMMA Induction ==
  ASSUME NEW S, 0 \in S, \A n \in Nat : n \in S => n + 1 \in S
  PROVE  Nat \subseteq S
<1>1. PICK R : R = {p \in Nat \X Nat : p[1] < p[2]}
  BY Zenon
<1>2. IsWellFoundedOn({p \in Nat \X Nat : p[1] < p[2]}, Nat)
  BY NatLessThanWellFounded DEF OpToRel
<1>3. PICK T : T = Nat \ S
  BY Zenon
<1>4. ASSUME T # {} PROVE FALSE
  <2>1. PICK x \in T : \A y \in T : ~(<<y, x>> \in R)
    BY <1>1, <1>2, <1>3, <1>4, WFMin
  <2>2. x # 0 /\ x - 1 \in Nat
    BY <1>3
  <2>3. <<x - 1, x>> \in R
    BY <1>1, <1>3, <2>2
  <2> QED
    BY <1>3, <2>1, <2>2, <2>3
<1> QED
  BY <1>3, <1>4

(* up is the function Carried defines for the frames up to j. *)
Gathering(up, w, i, j) ==
  up = [n \in i+1 .. j |-> IF n = i+1 THEN <<>> ELSE up[n-1] \o w[n].body]

(* There is such a function, so Carried returns its last value. *)
LEMMA GatheringExists ==
  ASSUME NEW w, NEW i \in Nat, NEW k \in Nat
  PROVE  \E up : Gathering(up, w, i, i+1+k)
<1> DEFINE S == {n \in Nat : \E up : Gathering(up, w, i, i+1+n)}
<1>1. 0 \in S
  <2> DEFINE up == [n \in i+1 .. i+1 |-> <<>>]
  <2>1. Gathering(up, w, i, i+1)
    BY DEF Gathering
  <2> QED
    BY <2>1
<1>2. ASSUME NEW n \in Nat, n \in S PROVE n + 1 \in S
  <2>1. PICK up : Gathering(up, w, i, i+1+n)
    BY <1>2
  <2>0. PICK j \in Nat : j = i+1+n
    OBVIOUS
  <2>e. PICK e : e = up[j] \o w[j+1].body
    BY Zenon
  <2> DEFINE more == [m \in i+1 .. j+1 |-> IF m = j+1 THEN e ELSE up[m]]
  <2>2. i+1 <= j /\ i+1+(n+1) = j+1
    BY <2>0
  <2>3. /\ \A m \in i+1 .. j : more[m] = up[m]
        /\ more[j+1] = e
    BY <2>2
  <2>4. \A m \in i+1 .. j : up[m] = IF m = i+1 THEN <<>> ELSE up[m-1] \o w[m].body
    BY <2>0, <2>1 DEF Gathering
  <2>5. \A m \in i+1 .. j+1 : more[m] = IF m = i+1 THEN <<>> ELSE more[m-1] \o w[m].body
    <3> HIDE DEF more
    <3>1. ASSUME NEW m \in i+1 .. j+1, m # j+1
          PROVE  more[m] = IF m = i+1 THEN <<>> ELSE more[m-1] \o w[m].body
      <4>1. m \in i+1 .. j /\ (m # i+1 => m-1 \in i+1 .. j)
        BY <2>2, <3>1
      <4> QED
        BY <2>3, <2>4, <4>1
    <3>2. j+1 # i+1 /\ (j+1) - 1 = j /\ j \in i+1 .. j
      BY <2>2
    <3>3. more[j+1] = more[j] \o w[j+1].body
      BY <2>3, <2>e, <3>2
    <3> QED
      BY <3>1, <3>2, <3>3
  <2>6. more = [m \in i+1 .. j+1 |-> more[m]]
    OBVIOUS
  <2>7. Gathering(more, w, i, j+1)
    <3> HIDE DEF more
    <3>1. [m \in i+1 .. j+1 |-> more[m]] =
            [m \in i+1 .. j+1 |-> IF m = i+1 THEN <<>> ELSE more[m-1] \o w[m].body]
      BY <2>5
    <3> QED
      BY <2>6, <3>1 DEF Gathering
  <2> HIDE DEF more
  <2> QED
    BY <2>2, <2>7
<1>3. Nat \subseteq S
  <2> HIDE DEF S
  <2> QED
    BY <1>1, <1>2, Induction
<1> QED
  BY <1>3

(* What Carried returns. *)
LEMMA CarriedIs ==
  ASSUME NEW w, NEW i \in Nat, NEW j \in Nat, i+1 <= j
  PROVE  \E up : Gathering(up, w, i, j) /\ Carried(w, i, j) = up[j]
<1>1. j - (i+1) \in Nat /\ i+1+(j-(i+1)) = j
  OBVIOUS
<1>2. PICK k \in Nat : i+1+k = j
  BY <1>1
<1>3. \E up : Gathering(up, w, i, j)
  BY <1>2, GatheringExists
<1> DEFINE chosen == CHOOSE up : Gathering(up, w, i, j)
<1>4. Gathering(chosen, w, i, j)
  BY <1>3
<1>5. Carried(w, i, j) = chosen[j]
  BY DEF Carried, Gathering
<1> QED
  BY <1>4, <1>5

(* v and w have the same frames after the one at i+1 and up to j. *)
SameUpTo(w, v, i, j) == \A n \in i+2 .. j : v[n] = w[n]

(* Two such functions agree on the frames they have in common. *)
LEMMA GatheringAgrees ==
  ASSUME NEW w, NEW v, NEW i \in Nat, NEW j \in Nat, NEW k \in Nat, NEW f, NEW g,
         i+1 <= j, j <= k, SameUpTo(w, v, i, j),
         Gathering(f, w, i, j), Gathering(g, v, i, k)
  PROVE  \A n \in i+1 .. j : g[n] = f[n]
<1> DEFINE S == {n \in Nat : i+1+n <= j => g[i+1+n] = f[i+1+n]}
<1>1. /\ \A n \in i+1 .. j : f[n] = IF n = i+1 THEN <<>> ELSE f[n-1] \o w[n].body
      /\ \A n \in i+1 .. k : g[n] = IF n = i+1 THEN <<>> ELSE g[n-1] \o v[n].body
  BY DEF Gathering
<1>2. 0 \in S
  BY <1>1
<1>3. ASSUME NEW n \in Nat, n \in S PROVE n + 1 \in S
  <2> SUFFICES ASSUME i+1+(n+1) <= j PROVE g[i+1+(n+1)] = f[i+1+(n+1)]
    OBVIOUS
  <2>1. PICK m \in Nat : m = i+1+(n+1)
    OBVIOUS
  <2>2. m \in i+2 .. j /\ m \in i+1 .. k /\ m \in i+1 .. j /\ m # i+1 /\ m-1 = i+1+n
        /\ i+1+n <= j
    BY <2>1
  <2>3. g[m-1] = f[m-1]
    BY <1>3, <2>2
  <2> QED
    BY <1>1, <2>1, <2>2, <2>3 DEF SameUpTo
<1>4. Nat \subseteq S
  <2> HIDE DEF S
  <2> QED
    BY <1>2, <1>3, Induction
<1>5. ASSUME NEW n \in i+1 .. j PROVE g[n] = f[n]
  <2>1. n - (i+1) \in Nat /\ i+1+(n-(i+1)) = n /\ n <= j
    OBVIOUS
  <2> QED
    BY <1>4, <2>1
<1> QED
  BY <1>5

(* What the octets carried are, frame by frame. *)
LEMMA CarriedGrows ==
  ASSUME NEW w, NEW i \in Nat, NEW j \in Nat, i+1 <= j
  PROVE  /\ Carried(w, i, i+1) = <<>>
         /\ Carried(w, i, j+1) = Carried(w, i, j) \o w[j+1].body
<1>1. PICK f : Gathering(f, w, i, i+1) /\ Carried(w, i, i+1) = f[i+1]
  BY CarriedIs
<1>2. PICK g : Gathering(g, w, i, j) /\ Carried(w, i, j) = g[j]
  BY CarriedIs
<1>3. PICK h : Gathering(h, w, i, j+1) /\ Carried(w, i, j+1) = h[j+1]
  BY CarriedIs
<1>4. h[j] = g[j]
  <2>1. j + 1 \in Nat /\ j <= j + 1 /\ j \in i+1 .. j
    OBVIOUS
  <2>2. SameUpTo(w, w, i, j)
    BY DEF SameUpTo
  <2>3. \A n \in i+1 .. j : h[n] = g[n]
    BY <1>2, <1>3, <2>1, <2>2, GatheringAgrees
  <2> QED
    BY <2>1, <2>3
<1>5. f[i+1] = <<>>
  BY <1>1 DEF Gathering
<1>6. h[j+1] = h[j] \o w[j+1].body
  <2>1. j+1 \in i+1 .. j+1 /\ j+1 # i+1 /\ (j+1) - 1 = j
    OBVIOUS
  <2>2. \A n \in i+1 .. j+1 : h[n] = IF n = i+1 THEN <<>> ELSE h[n-1] \o w[n].body
    BY <1>3 DEF Gathering
  <2> QED
    BY <2>1, <2>2
<1> QED
  BY <1>1, <1>2, <1>3, <1>4, <1>5, <1>6

(* They do not depend on the frames that follow. *)
LEMMA CarriedStays ==
  ASSUME NEW w, NEW v, NEW i \in Nat, NEW j \in Nat, i+1 <= j,
         SameUpTo(w, v, i, j)
  PROVE  Carried(v, i, j) = Carried(w, i, j)
<1>1. PICK f : Gathering(f, w, i, j) /\ Carried(w, i, j) = f[j]
  BY CarriedIs
<1>2. PICK g : Gathering(g, v, i, j) /\ Carried(v, i, j) = g[j]
  BY CarriedIs
<1>3. j <= j
  OBVIOUS
<1>4. \A n \in i+1 .. j : g[n] = f[n]
  BY <1>1, <1>2, <1>3, GatheringAgrees
<1> QED
  BY <1>1, <1>2, <1>4

-----------------------------------------------------------------------------
(* Completeness: what a channel's frames spell, seen from its last frame.  *)

(* Frames i..j of w are a content method, a header and body frames. *)
Run(w, i, j) ==
  /\ i \in 1 .. j-1
  /\ IsContentFrame(w[i]) /\ w[i+1].kind = "header"
  /\ \A n \in i+2 .. j : w[n].kind = "body"

(* The octets that frames i..j of w carry, counted. *)
Total(w, i, j) == Len(Carried(w, i, j))

(* Frames i..j of w are content still short of the size announced. *)
Unfinished(w, i, j) == Run(w, i, j) /\ Total(w, i, j) < w[i+1].size

(* A run has one beginning. *)
LEMMA RunIsOne ==
  ASSUME NEW w, NEW j \in Nat, NEW i, NEW k, Run(w, i, j), Run(w, k, j)
  PROVE  i = k
<1>1. i \in 1 .. j-1 /\ k \in 1 .. j-1
  BY DEF Run
<1>2. ASSUME NEW a \in 1 .. j-1, NEW b \in 1 .. j-1, a < b, Run(w, a, j), Run(w, b, j)
      PROVE  FALSE
  <2>1. b = a+1 \/ b \in a+2 .. j
    BY <1>2
  <2>2. w[b].kind = "method"
    BY <1>2 DEF Run, IsContentFrame
  <2> QED
    BY <1>2, <2>1, <2>2 DEF Run
<1> QED
  BY <1>1, <1>2

(* The last frame of a run is no method frame. *)
LEMMA RunEnds ==
  ASSUME NEW w, NEW j \in Nat, NEW i, Run(w, i, j) PROVE w[j].kind \in {"header", "body"}
<1>1. j = i+1 \/ j \in i+2 .. j
  BY DEF Run
<1> QED
  BY <1>1 DEF Run

(* What frames of which types a frame can be. *)
LEMMA FrameIs ==
  ASSUME NEW f \in Frame
  PROVE  /\ f.kind \in {"method", "header", "body", "heartbeat"}
         /\ f.kind = "method" => f.method \in Method
         /\ f.kind = "header" => f \in HeaderFrame /\ f.size \in Nat
         /\ f.kind = "body" => f \in BodyFrame /\ f.body \in Seq(Octet)
BY DEF Frame, MethodFrame, HeaderFrame, BodyFrame, HeartbeatFrame

(* How the octets of the run i..j are counted, l being the frame before j. *)
Counts(w, i, j, l) ==
  /\ Total(w, i, j) \in Nat
  /\ j = i+1 => Total(w, i, j) = 0
  /\ j > i+1 => /\ Total(w, i, j) = Total(w, i, l) + Len(w[j].body)
                /\ Total(w, i, l) \in Nat /\ Len(w[j].body) \in Nat

(* Counting the octets of a run, frame by frame. *)
LEMMA TotalGrows ==
  ASSUME NEW w \in Seq(Frame), NEW i \in Nat, NEW j \in Nat, NEW l, l = j-1,
         Run(w, i, j), j <= Len(w)
  PROVE  Counts(w, i, j, l)
<1> DEFINE S == {k \in Nat : \A n \in i+1 .. j : n = i+1+k => Carried(w, i, n) \in Seq(Octet)}
<1>0. i+1 <= j /\ i >= 1
  BY DEF Run
<1>1. Carried(w, i, i+1) = <<>>
  BY <1>0, CarriedGrows
<1>2. 0 \in S
  <2> SUFFICES ASSUME NEW n \in i+1 .. j, n = i+1+0 PROVE Carried(w, i, n) \in Seq(Octet)
    OBVIOUS
  <2>1. n = i+1
    OBVIOUS
  <2>2. <<>> \in Seq(Octet)
    OBVIOUS
  <2> QED
    BY <1>1, <2>1, <2>2, Zenon
<1>3. ASSUME NEW n \in i+1 .. j-1
      PROVE  /\ Carried(w, i, n+1) = Carried(w, i, n) \o w[n+1].body
             /\ w[n+1].body \in Seq(Octet)
  <2>1. n \in Nat /\ i+1 <= n /\ n+1 \in i+2 .. j /\ n+1 \in 1 .. Len(w)
    BY <1>0
  <2>2. w[n+1] \in Frame /\ w[n+1].kind = "body"
    BY <2>1 DEF Run
  <2> QED
    BY <2>1, <2>2, CarriedGrows, FrameIs
<1>4. ASSUME NEW k \in Nat, k \in S PROVE k + 1 \in S
  <2> SUFFICES ASSUME NEW m \in i+1 .. j, m = i+1+(k+1) PROVE Carried(w, i, m) \in Seq(Octet)
    OBVIOUS
  <2>1. PICK n \in i+1 .. j-1 : n = i+1+k /\ n+1 = m
    OBVIOUS
  <2>2. Carried(w, i, n) \in Seq(Octet)
    BY <1>4, <2>1
  <2>3. Carried(w, i, n) \o w[n+1].body \in Seq(Octet)
    BY <1>3, <2>2
  <2> QED
    BY <1>3, <2>1, <2>3
<1>5. Nat \subseteq S
  <2> HIDE DEF S
  <2> QED
    BY <1>2, <1>4, Induction
<1>6. ASSUME NEW n \in i+1 .. j PROVE Carried(w, i, n) \in Seq(Octet) /\ Total(w, i, n) \in Nat
  <2>1. n - (i+1) \in Nat /\ i+1+(n-(i+1)) = n /\ n <= j
    OBVIOUS
  <2>2. Carried(w, i, n) \in Seq(Octet)
    BY <1>5, <2>1
  <2> QED
    BY <2>2 DEF Total
<1>7. Total(w, i, j) \in Nat
  BY <1>0, <1>6
<1>8. j = i+1 => Total(w, i, j) = 0
  BY <1>1 DEF Total
<1>9. ASSUME j > i+1
      PROVE  /\ Total(w, i, j) = Total(w, i, l) + Len(w[j].body)
             /\ Total(w, i, l) \in Nat /\ Len(w[j].body) \in Nat
  <2>1. PICK n \in i+1 .. j-1 : n+1 = j /\ n = l
    BY <1>9
  <2>2. Carried(w, i, n) \in Seq(Octet) /\ Total(w, i, n) \in Nat
    BY <1>6
  <2>3. Carried(w, i, j) = Carried(w, i, n) \o w[j].body /\ w[j].body \in Seq(Octet)
    BY <1>3, <2>1
  <2>4. /\ Len(Carried(w, i, n) \o w[j].body) = Len(Carried(w, i, n)) + Len(w[j].body)
        /\ Len(w[j].body) \in Nat
    BY <2>2, <2>3
  <2> QED
    BY <2>1, <2>2, <2>3, <2>4 DEF Total
<1> QED
  BY <1>7, <1>8, <1>9 DEF Counts

(* Gathering content is being in a run whose octets are those gathered. *)
LEMMA GathersIsOpen ==
  ASSUME NEW w \in Seq(Frame), NEW i \in Nat, NEW j \in Nat, NEW m,
         NEW h \in HeaderFrame, NEW b \in Seq(Octet), Gathers(w, i, j, m, h, b)
  PROVE  Unfinished(w, i, j) /\ Total(w, i, j) = Len(b) /\ w[i+1] = h
<1>1. Run(w, i, j) /\ j <= Len(w) /\ i+1 <= j /\ Len(b) < h.size /\ w[i+1] = h
  BY DEF Gathers, Pieces, Run
<1>2. PICK cut \in Cuts(i, j, b) : Pieces(w, i, j, b, cut)
  BY DEF Gathers
<1> DEFINE S == {k \in Nat : \A n \in i+1 .. j : n = i+1+k => Total(w, i, n) = cut[n]}
<1>3. ASSUME NEW n \in i+1 .. j
      PROVE  /\ n = i+1 => Total(w, i, n) = cut[n]
             /\ n > i+1 /\ Total(w, i, n-1) = cut[n-1] => Total(w, i, n) = cut[n]
  <2>1. n \in Nat /\ n <= Len(w) /\ (n > i+1 => n \in i+2 .. j)
    BY <1>1
  <2>2. Run(w, i, n)
    <3>1. i \in 1 .. n-1 /\ \A k \in i+2 .. n : k \in i+2 .. j
      BY <1>1 DEF Run
    <3> QED
      BY <1>1, <3>1 DEF Run
  <2>3. /\ n > i+1 => Total(w, i, n) = Total(w, i, n-1) + Len(w[n].body)
        /\ n = i+1 => Total(w, i, n) = 0
    BY <2>1, <2>2, TotalGrows DEF Counts
  <2>4. cut[i+1] = 0
    BY <1>2 DEF Pieces
  <2>5. n > i+1 => cut[n] = cut[n-1] + Len(w[n].body)
    BY <1>2, <2>1 DEF Pieces
  <2> QED
    BY <2>3, <2>4, <2>5
<1>4. 0 \in S
  BY <1>3
<1>5. ASSUME NEW k \in Nat, k \in S PROVE k + 1 \in S
  <2> SUFFICES ASSUME NEW n \in i+1 .. j, n = i+1+(k+1) PROVE Total(w, i, n) = cut[n]
    OBVIOUS
  <2>1. n-1 \in i+1 .. j /\ n-1 = i+1+k /\ n > i+1
    OBVIOUS
  <2>2. Total(w, i, n-1) = cut[n-1]
    BY <1>5, <2>1
  <2> QED
    BY <1>3, <2>1, <2>2
<1>6. Nat \subseteq S
  <2> HIDE DEF S
  <2> QED
    BY <1>4, <1>5, Induction
<1>7. Total(w, i, j) = cut[j]
  <2>1. j - (i+1) \in Nat /\ j = i+1+(j-(i+1)) /\ j \in i+1 .. j
    BY <1>1
  <2> QED
    BY <1>6, <2>1
<1>8. cut[j] = Len(b)
  BY <1>2 DEF Pieces
<1> QED
  BY <1>1, <1>7, <1>8 DEF Unfinished

(* EndsMessage in these terms. *)
LEMMA EndsIs ==
  ASSUME NEW w \in Seq(Frame), NEW j \in Nat, NEW l, l = j-1
  PROVE  EndsMessage(w, j) <=>
           \/ IsPlainFrame(w[j])
           \/ \E i : /\ Run(w, i, j) /\ Total(w, i, j) >= w[i+1].size
                     /\ j > i+1 => Total(w, i, l) < w[i+1].size
BY DEF EndsMessage, Run, Total

(* A further frame and those before it. *)
LEMMA FrameAppend ==
  ASSUME NEW w \in Seq(Frame), NEW f \in Frame, NEW v, v = Append(w, f)
  PROVE  /\ v \in Seq(Frame) /\ Len(v) = Len(w) + 1 /\ v[Len(w) + 1] = f
         /\ Len(w) \in Nat /\ \A n \in 1 .. Len(w) : v[n] = w[n]
OBVIOUS

(* It changes no run before it. *)
LEMMA RunAppend ==
  ASSUME NEW w \in Seq(Frame), NEW f \in Frame, NEW v, v = Append(w, f),
         NEW j \in 1 .. Len(w), NEW i
  PROVE  Run(v, i, j) <=> Run(w, i, j)
<1>1. SUFFICES ASSUME i \in 1 .. j-1 PROVE Run(v, i, j) <=> Run(w, i, j)
  BY DEF Run
<1>2. i \in 1 .. Len(w) /\ i+1 \in 1 .. Len(w) /\ \A n \in i+2 .. j : n \in 1 .. Len(w)
  BY <1>1
<1>3. v[i] = w[i] /\ v[i+1] = w[i+1] /\ \A n \in i+2 .. j : v[n] = w[n]
  BY <1>2, FrameAppend
<1> QED
  BY <1>3 DEF Run, IsContentFrame

(* It changes no octets counted before it. *)
LEMMA TotalAppend ==
  ASSUME NEW w \in Seq(Frame), NEW f \in Frame, NEW v, v = Append(w, f),
         NEW j \in 1 .. Len(w), NEW i \in 1 .. j-1
  PROVE  Total(v, i, j) = Total(w, i, j)
<1>1. \A n \in i+2 .. j : v[n] = w[n]
  <2>1. \A n \in i+2 .. j : n \in 1 .. Len(w)
    OBVIOUS
  <2> QED
    BY <2>1, FrameAppend
<1>2. SameUpTo(w, v, i, j) /\ i \in Nat /\ j \in Nat /\ i+1 <= j
  BY <1>1 DEF SameUpTo
<1>3. Carried(v, i, j) = Carried(w, i, j)
  BY <1>2, CarriedStays
<1> QED
  BY <1>3 DEF Total

(* What was the end of a message still is, and nothing else becomes one. *)
LEMMA EndsAppend ==
  ASSUME NEW w \in Seq(Frame), NEW f \in Frame, NEW v, v = Append(w, f),
         NEW j \in 1 .. Len(w)
  PROVE  EndsMessage(v, j) <=> EndsMessage(w, j)
<1>1. /\ v \in Seq(Frame) /\ v[j] = w[j]
      /\ \A i \in 1 .. j-1 : v[i+1] = w[i+1]
  BY FrameAppend
<1>0. PICK l : l = j-1
  BY Zenon
<1>2. ASSUME NEW i, Run(w, i, j)
      PROVE  /\ Total(v, i, j) = Total(w, i, j)
             /\ j > i+1 => Total(v, i, l) = Total(w, i, l)
  <2>1. i \in 1 .. j-1
    BY <1>2 DEF Run
  <2>2. Total(v, i, j) = Total(w, i, j)
    BY <2>1, TotalAppend, Zenon
  <2>3. ASSUME j > i+1 PROVE Total(v, i, l) = Total(w, i, l)
    <3>1. l \in 1 .. Len(w) /\ i \in 1 .. l-1
      BY <1>0, <2>1, <2>3
    <3> QED
      BY <3>1, TotalAppend, Zenon
  <2> QED
    BY <2>2, <2>3
<1>3. \A i : Run(w, i, j) => i \in 1 .. j-1
  BY DEF Run
<1>4. j \in Nat
  OBVIOUS
<1>5. IsPlainFrame(v[j]) <=> IsPlainFrame(w[j])
  BY <1>1
<1>6. ASSUME NEW i
      PROVE  /\ Run(v, i, j) /\ Total(v, i, j) >= v[i+1].size
             /\ j > i+1 => Total(v, i, l) < v[i+1].size
         <=> /\ Run(w, i, j) /\ Total(w, i, j) >= w[i+1].size
             /\ j > i+1 => Total(w, i, l) < w[i+1].size
  <2>1. Run(v, i, j) <=> Run(w, i, j)
    BY RunAppend, Zenon
  <2> QED
    BY <1>1, <1>2, <1>3, <2>1
<1>7. EndsMessage(w, j) <=>
        \/ IsPlainFrame(w[j])
        \/ \E i : /\ Run(w, i, j) /\ Total(w, i, j) >= w[i+1].size
                  /\ j > i+1 => Total(w, i, l) < w[i+1].size
  BY <1>0, <1>4, EndsIs, Zenon
<1>8. EndsMessage(v, j) <=>
        \/ IsPlainFrame(v[j])
        \/ \E i : /\ Run(v, i, j) /\ Total(v, i, j) >= v[i+1].size
                  /\ j > i+1 => Total(v, i, l) < v[i+1].size
  BY <1>0, <1>1, <1>4, EndsIs, Zenon
<1> QED
  BY <1>5, <1>6, <1>7, <1>8

(* What a method frame ends: only itself. *)
LEMMA MethodEnds ==
  ASSUME NEW w \in Seq(Frame), NEW f \in Frame, NEW v, v = Append(w, f), f.kind = "method",
         NEW n \in Nat, n = Len(w) + 1
  PROVE  /\ EndsMessage(v, n) <=> IsPlainFrame(f)
         /\ \A i : ~Run(v, i, n)
<1>1. PICK l : l = n-1
  BY Zenon
<1>2. v \in Seq(Frame) /\ v[n] = f
  BY FrameAppend
<1>3. \A i : ~Run(v, i, n)
  BY <1>2, RunEnds
<1>4. EndsMessage(v, n) <=> IsPlainFrame(f)
  BY <1>1, <1>2, <1>3, EndsIs
<1> QED
  BY <1>3, <1>4

(* A header frame ends or opens the content the frame before it announces. *)
HeaderOutcome(w, f, v, l, n) ==
  /\ EndsMessage(v, n) <=> l > 0 /\ IsContentFrame(w[l]) /\ f.size = 0
  /\ \A i : Unfinished(v, i, n) => l > 0 /\ IsContentFrame(w[l]) /\ f.size > 0

(* It does so whatever came before. *)
LEMMA HeaderEnds ==
  ASSUME NEW w \in Seq(Frame), NEW f \in HeaderFrame, NEW v, v = Append(w, f),
         NEW l \in Nat, l = Len(w), NEW n \in Nat, n = l + 1
  PROVE  HeaderOutcome(w, f, v, l, n)
<1>2. f \in Frame /\ f.kind = "header" /\ f.size \in Nat
  BY DEF Frame, HeaderFrame
<1>3. v \in Seq(Frame) /\ Len(v) = n /\ v[n] = f /\ \A k \in 1 .. l : v[k] = w[k]
  BY <1>2, FrameAppend
<1>4. ASSUME NEW i, Run(v, i, n)
      PROVE  /\ i = l /\ l > 0 /\ IsContentFrame(w[l])
             /\ Total(v, i, n) = 0 /\ v[i+1] = f
  <2>1. i \in 1 .. l /\ IsContentFrame(v[i]) /\ \A k \in i+2 .. n : v[k].kind = "body"
    BY <1>4 DEF Run
  <2>2. i = l
    <3>1. i # l => n \in i+2 .. n
      BY <2>1
    <3> QED
      BY <1>2, <1>3, <2>1, <3>1
  <2>3. n = i+1 /\ n <= Len(v) /\ l = n-1 /\ i \in Nat
    BY <1>3, <2>1, <2>2
  <2>4. Total(v, i, n) = 0
    BY <1>3, <1>4, <2>3, TotalGrows DEF Counts
  <2>5. v[i] = w[l] /\ v[i+1] = f
    BY <1>3, <2>1, <2>2, <2>3
  <2> QED
    BY <2>1, <2>2, <2>4, <2>5
<1>5. l > 0 /\ IsContentFrame(w[l]) => Run(v, l, n)
  <2> SUFFICES ASSUME l > 0, IsContentFrame(w[l]) PROVE Run(v, l, n)
    OBVIOUS
  <2>1. l \in 1 .. n-1 /\ l+1 = n /\ l+2 .. n = {}
    OBVIOUS
  <2>2. v[l] = w[l] /\ v[l+1] = f
    BY <1>3, <2>1
  <2> QED
    BY <1>2, <2>1, <2>2 DEF Run
<1>6. EndsMessage(v, n) <=>
        \/ IsPlainFrame(f)
        \/ \E i : /\ Run(v, i, n) /\ Total(v, i, n) >= v[i+1].size
                  /\ n > i+1 => Total(v, i, l) < v[i+1].size
  <2>1. l = n-1
    OBVIOUS
  <2> QED
    BY <1>3, <2>1, EndsIs
<1>7. ~IsPlainFrame(f)
  BY <1>2 DEF IsPlainFrame
<1>8. ASSUME EndsMessage(v, n) PROVE l > 0 /\ IsContentFrame(w[l]) /\ f.size = 0
  <2>1. PICK i : Run(v, i, n) /\ Total(v, i, n) >= v[i+1].size
    BY <1>6, <1>7, <1>8
  <2> QED
    BY <1>2, <1>4, <2>1
<1>9. ASSUME l > 0, IsContentFrame(w[l]), f.size = 0 PROVE EndsMessage(v, n)
  <2>1. Run(v, l, n)
    BY <1>5, <1>9
  <2>2. Total(v, l, n) = 0 /\ v[l+1] = f /\ ~(n > l+1)
    BY <1>4, <2>1
  <2>3. Total(v, l, n) >= v[l+1].size
    BY <1>9, <2>2
  <2> QED
    BY <1>6, <2>1, <2>2, <2>3
<1>10. ASSUME NEW i, Unfinished(v, i, n) PROVE l > 0 /\ IsContentFrame(w[l]) /\ f.size > 0
  BY <1>2, <1>4, <1>10 DEF Unfinished
<1> QED
  BY <1>8, <1>9, <1>10 DEF HeaderOutcome

(* Frame n of v, the body frame f, continues a run of w that ends with l.  *)
Adds(w, f, v, i, l, n) ==
  /\ Run(v, i, n) <=> Run(w, i, l)
  /\ Run(w, i, l) =>
       /\ n > i+1 /\ v[i+1] = w[i+1]
       /\ Total(v, i, l) = Total(w, i, l)
       /\ Total(v, i, n) = Total(w, i, l) + Len(f.body)
       /\ Total(w, i, l) \in Nat /\ Len(f.body) \in Nat

(* What a body frame adds to: the run that ends with the frame before it.  *)
LEMMA BodyAdds ==
  ASSUME NEW w \in Seq(Frame), NEW f \in BodyFrame, NEW v, v = Append(w, f),
         NEW l \in Nat, l = Len(w), NEW n \in Nat, n = l + 1, NEW i
  PROVE  Adds(w, f, v, i, l, n)
<1>2. f \in Frame /\ f.kind = "body" /\ f.body \in Seq(Octet)
  BY DEF Frame, BodyFrame
<1>3. v \in Seq(Frame) /\ Len(v) = n /\ v[n] = f /\ \A k \in 1 .. l : v[k] = w[k]
  BY <1>2, FrameAppend
<1>4. ASSUME Run(v, i, n) PROVE Run(w, i, l)
  <2>1. i \in 1 .. l /\ i # l
    <3>1. i \in 1 .. l /\ v[i+1].kind = "header"
      BY <1>4 DEF Run
    <3> QED
      BY <1>2, <1>3, <3>1
  <2>2. Run(v, i, l)
    <3>1. i \in 1 .. l-1 /\ \A k \in i+2 .. l : k \in i+2 .. n
      BY <2>1
    <3> QED
      BY <1>4, <3>1 DEF Run
  <2>3. l \in 1 .. Len(w)
    BY <2>1
  <2> QED
    BY <1>2, <2>2, <2>3, RunAppend
<1>5. ASSUME Run(w, i, l)
      PROVE  /\ Run(v, i, n) /\ n > i+1 /\ v[i+1] = w[i+1]
             /\ Total(v, i, l) = Total(w, i, l)
             /\ Total(v, i, n) = Total(w, i, l) + Len(f.body)
             /\ Total(w, i, l) \in Nat /\ Len(f.body) \in Nat
  <2>1. /\ i \in 1 .. l-1 /\ l \in 1 .. Len(w) /\ i+1 \in 1 .. l /\ i \in Nat
        /\ n > i+1 /\ l = n-1 /\ n <= Len(v)
    BY <1>3, <1>5 DEF Run
  <2>2. Run(v, i, l)
    BY <1>2, <1>5, <2>1, RunAppend
  <2>3. Run(v, i, n)
    <3>1. i \in 1 .. n-1 /\ \A k \in i+2 .. n : k \in i+2 .. l \/ k = n
      BY <2>1
    <3>2. v[n].kind = "body"
      BY <1>2, <1>3
    <3>3. /\ IsContentFrame(v[i]) /\ v[i+1].kind = "header"
          /\ \A k \in i+2 .. l : v[k].kind = "body"
      BY <2>2 DEF Run
    <3> QED
      BY <3>1, <3>2, <3>3 DEF Run
  <2>4. Total(v, i, l) = Total(w, i, l)
    BY <1>2, <2>1, TotalAppend
  <2>5. /\ Total(v, i, n) = Total(v, i, l) + Len(v[n].body)
        /\ Total(v, i, l) \in Nat /\ Len(v[n].body) \in Nat
    <3>1. v \in Seq(Frame) /\ i \in Nat /\ l = n-1 /\ n <= Len(v) /\ n > i+1
      BY <1>3, <2>1
    <3>2. Counts(v, i, n, l)
      BY <2>3, <3>1, TotalGrows
    <3> QED
      BY <3>1, <3>2 DEF Counts
  <2> QED
    BY <1>3, <2>1, <2>3, <2>4, <2>5
<1> QED
  BY <1>4, <1>5 DEF Adds

(* A body frame ends the open content it completes. *)
BodyOutcome(w, f, v, l, n) ==
  /\ EndsMessage(v, n) <=>
       \E i : Unfinished(w, i, l) /\ Total(w, i, l) + Len(f.body) >= w[i+1].size
  /\ \A i : Unfinished(v, i, n) =>
       Unfinished(w, i, l) /\ Total(w, i, l) + Len(f.body) < w[i+1].size

(* It does so whatever came before. *)
LEMMA BodyEnds ==
  ASSUME NEW w \in Seq(Frame), NEW f \in BodyFrame, NEW v, v = Append(w, f),
         NEW l \in Nat, l = Len(w), NEW n \in Nat, n = l + 1
  PROVE  BodyOutcome(w, f, v, l, n)
<1>2. f \in Frame /\ f.kind = "body"
  BY DEF Frame, BodyFrame
<1>3. v \in Seq(Frame) /\ v[n] = f
  BY <1>2, FrameAppend
<1>4. ASSUME NEW i
      PROVE  /\ Run(v, i, n) <=> Run(w, i, l)
             /\ Run(w, i, l) =>
                  /\ n > i + 1 /\ v[i+1] = w[i+1] /\ w[i+1].size \in Nat
                  /\ Total(v, i, l) = Total(w, i, l)
                  /\ Total(v, i, n) = Total(w, i, l) + Len(f.body)
                  /\ Total(w, i, l) \in Nat /\ Len(f.body) \in Nat
  <2>1. ASSUME Run(w, i, l) PROVE w[i+1].size \in Nat
    <3>1. i+1 \in 1 .. Len(w) /\ w[i+1].kind = "header"
      BY <2>1 DEF Run
    <3> QED
      BY <3>1, FrameIs
  <2>2. Adds(w, f, v, i, l, n)
    BY BodyAdds
  <2> QED
    BY <2>1, <2>2 DEF Adds
<1>5. EndsMessage(v, n) <=>
        \/ IsPlainFrame(f)
        \/ \E i : /\ Run(v, i, n) /\ Total(v, i, n) >= v[i+1].size
                  /\ n > i+1 => Total(v, i, l) < v[i+1].size
  <2>1. l = n-1
    OBVIOUS
  <2> QED
    BY <1>3, <2>1, EndsIs
<1>6. ~IsPlainFrame(f)
  BY <1>2 DEF IsPlainFrame
<1>7. EndsMessage(v, n) <=>
        \E i : Unfinished(w, i, l) /\ Total(w, i, l) + Len(f.body) >= w[i+1].size
  <2>1. ASSUME NEW i
        PROVE  /\ Run(v, i, n) /\ Total(v, i, n) >= v[i+1].size
               /\ n > i+1 => Total(v, i, l) < v[i+1].size
           <=> Unfinished(w, i, l) /\ Total(w, i, l) + Len(f.body) >= w[i+1].size
    BY <1>4 DEF Unfinished
  <2> QED
    BY <1>5, <1>6, <2>1
<1>8. ASSUME NEW i, Unfinished(v, i, n)
      PROVE  Unfinished(w, i, l) /\ Total(w, i, l) + Len(f.body) < w[i+1].size
  <2>1. Run(v, i, n) /\ Total(v, i, n) < v[i+1].size
    BY <1>8 DEF Unfinished
  <2>2. /\ Run(w, i, l) /\ v[i+1] = w[i+1] /\ w[i+1].size \in Nat
        /\ Total(v, i, n) = Total(w, i, l) + Len(f.body)
        /\ Total(w, i, l) \in Nat /\ Len(f.body) \in Nat
    BY <1>4, <2>1
  <2> QED
    BY <2>1, <2>2 DEF Unfinished
<1> QED
  BY <1>7, <1>8 DEF BodyOutcome

-----------------------------------------------------------------------------
(* A channel that awaits a method has no content open and none announced.  *)
AwaitsMethod(r, w) ==
  r = "recvMethod" =>
    /\ Len(w) > 0 => ~IsContentFrame(w[Len(w)])
    /\ \A i : ~Unfinished(w, i, Len(w))

NothingLeftOpen == ~panicked => \A c \in Chan : AwaitsMethod(recv[c], wire[c])

(* Frame n of channel c is dispatched if it ends a message, and only then. *)
Answered(c, n) ==
  \/ dispatched'[c] = dispatched[c] /\ ~EndsMessage(wire'[c], n)
  \/ /\ EndsMessage(wire'[c], n)
     /\ \E d : dispatched'[c] = Append(dispatched[c], d) /\ d.at = n

(* What Dispatch does to its channel. *)
LEMMA DispatchIs ==
  ASSUME TypeOK, NEW c \in Chan, NEW m, NEW h, NEW b, Dispatch(c, m, h, b),
         NEW n, n = Len(wire[c]) + 1
  PROVE  \E d : dispatched'[c] = Append(dispatched[c], d) /\ d.at = n
<1>1. PICK d : d = [method |-> m, header |-> h, body |-> b, at |-> Len(wire[c]) + 1]
  BY Zenon
<1>2. dispatched'[c] = Append(dispatched[c], d)
  BY <1>1 DEF Dispatch, TypeOK
<1>3. d.at = n
  BY <1>1
<1> QED
  BY <1>2, <1>3

(* A method frame, whichever handler it comes to. *)
LEMMA MethodAnswered ==
  ASSUME IInv, NEW c \in Chan, NEW f \in Frame, Demux(c, f), HandleMethod(c, f),
         NEW n \in Nat, n = Len(wire[c]) + 1
  PROVE  Answered(c, n) /\ AwaitsMethod(recv'[c], wire'[c])
<1>1. PICK w \in Seq(Frame) : w = wire[c]
  BY DEF IInv, TypeOK
<1>2. PICK v : v = wire'[c]
  BY Zenon
<1>3. v = Append(w, f) /\ n = Len(w) + 1 /\ Len(v) = n /\ v[n] = f
  BY <1>1, <1>2, WireStep DEF IInv
<1>4. f.kind = "method"
  BY DEF HandleMethod, BeginContent, HandlePlain
<1>5. (EndsMessage(v, n) <=> IsPlainFrame(f)) /\ \A i : ~Unfinished(v, i, n)
  BY <1>3, <1>4, MethodEnds DEF Unfinished
<1>6. CASE BeginContent(c, f)
  <2>1. dispatched'[c] = dispatched[c] /\ recv'[c] = "recvHeader"
    BY <1>6 DEF BeginContent, Transition, IInv, TypeOK
  <2>2. ~IsPlainFrame(f)
    BY <1>6, ChannelAssumption DEF BeginContent, IsPlainFrame
  <2> QED
    BY <1>2, <1>5, <2>1, <2>2 DEF Answered, AwaitsMethod
<1>7. CASE HandlePlain(c, f)
  <2>1. IsPlainFrame(f) /\ ~IsContentFrame(f)
    BY <1>7, ChannelAssumption DEF HandlePlain, IsPlainFrame, IsContentFrame
  <2>2. \E d : dispatched'[c] = Append(dispatched[c], d) /\ d.at = n
    BY <1>7, DispatchIs DEF HandlePlain, IInv
  <2>3. Answered(c, n)
    BY <1>2, <1>5, <2>1, <2>2 DEF Answered
  <2>4. AwaitsMethod(recv'[c], v)
    BY <1>3, <1>5, <2>1 DEF AwaitsMethod
  <2> QED
    BY <1>2, <2>3, <2>4
<1> QED
  BY <1>6, <1>7 DEF HandleMethod

(* A frame that is dropped, when it neither ends nor announces anything.   *)
LEMMA DropAnswered ==
  ASSUME IInv, NEW c \in Chan, NEW f \in Frame, Demux(c, f), Drop(c),
         f.kind # "method", NEW n \in Nat, n = Len(wire[c]) + 1,
         ~EndsMessage(wire'[c], n), \A i : ~Unfinished(wire'[c], i, n)
  PROVE  Answered(c, n) /\ AwaitsMethod(recv'[c], wire'[c])
<1>1. wire'[c][n] = f /\ Len(wire'[c]) = n
  BY WireStep DEF IInv, TypeOK
<1>2. dispatched'[c] = dispatched[c]
  BY DEF Drop
<1>3. ~IsContentFrame(f)
  BY DEF IsContentFrame
<1>4. Answered(c, n)
  BY <1>2 DEF Answered
<1>5. AwaitsMethod(recv'[c], wire'[c])
  BY <1>1, <1>3 DEF AwaitsMethod
<1> QED
  BY <1>4, <1>5

(* The frames of a channel that awaits a method. *)
LEMMA RecvMethodAnswered ==
  ASSUME IInv, NEW c \in Chan, NEW f \in Frame, Demux(c, f), ~panicked',
         recv[c] = "recvMethod", RecvMethod(c, f), AwaitsMethod(recv[c], wire[c]),
         NEW n \in Nat, n = Len(wire[c]) + 1
  PROVE  Answered(c, n) /\ AwaitsMethod(recv'[c], wire'[c])
<1>1. PICK w \in Seq(Frame) : w = wire[c]
  BY DEF IInv, TypeOK
<1>2. PICK l \in Nat : l = Len(w) /\ n = l + 1
  BY <1>1
<1>3. PICK v : v = wire'[c]
  BY Zenon
<1>9. v = Append(w, f)
  BY <1>1, <1>3, WireStep DEF IInv
<1>4. (l > 0 => ~IsContentFrame(w[l])) /\ \A i : ~Unfinished(w, i, l)
  BY <1>1, <1>2 DEF AwaitsMethod
<1>5. CASE HandleMethod(c, f)
  BY <1>5, MethodAnswered
<1>6. CASE f.kind = "header" /\ Drop(c)
  <2>1. f \in HeaderFrame
    BY <1>6, FrameIs
  <2>2. ~EndsMessage(v, n) /\ \A i : ~Unfinished(v, i, n)
    <3>1. HeaderOutcome(w, f, v, l, n)
      BY <1>2, <1>9, <2>1, HeaderEnds
    <3> QED
      BY <1>4, <2>1, <3>1 DEF HeaderOutcome
  <2> QED
    BY <1>3, <1>6, <2>2, DropAnswered
<1>7. CASE f.kind = "body" /\ Drop(c)
  <2>1. f \in BodyFrame
    BY <1>7, FrameIs
  <2>2. ~EndsMessage(v, n) /\ \A i : ~Unfinished(v, i, n)
    <3>1. BodyOutcome(w, f, v, l, n)
      BY <1>2, <1>9, <2>1, BodyEnds
    <3> QED
      BY <1>4, <2>1, <3>1 DEF BodyOutcome
  <2> QED
    BY <1>3, <1>7, <2>2, DropAnswered
<1> QED
  BY <1>5, <1>6, <1>7 DEF RecvMethod, Panic

(* The frames of a channel that awaits a header. *)
LEMMA RecvHeaderAnswered ==
  ASSUME IInv, NEW c \in Chan, NEW f \in Frame, Demux(c, f), ~panicked',
         recv[c] = "recvHeader", RecvHeader(c, f),
         NEW n \in Nat, n = Len(wire[c]) + 1
  PROVE  Answered(c, n) /\ AwaitsMethod(recv'[c], wire'[c])
<1>1. PICK w \in Seq(Frame) : w = wire[c]
  BY DEF IInv, TypeOK
<1>2. PICK l \in Nat : l = Len(w) /\ n = l + 1
  BY <1>1
<1>3. PICK v : v = wire'[c]
  BY Zenon
<1>9. v = Append(w, f)
  BY <1>1, <1>3, WireStep DEF IInv
<1>4. l > 0 /\ IsContentFrame(w[l])
  BY <1>1, <1>2 DEF IInv, HandlerKnowsPlace, Demux
<1>5. CASE HandleMethod(c, f)
  BY <1>5, MethodAnswered
<1>6. CASE /\ f.kind = "header" /\ f.size = 0
           /\ Dispatch(c, message[c], f, body[c])
           /\ Transition(c, "recvMethod")
  <2>1. f \in HeaderFrame
    BY <1>6, FrameIs
  <2>2. EndsMessage(v, n) /\ \A i : ~Unfinished(v, i, n)
    <3>1. HeaderOutcome(w, f, v, l, n)
      BY <1>2, <1>9, <2>1, HeaderEnds
    <3> QED
      BY <1>4, <1>6, <2>1, <3>1 DEF HeaderOutcome
  <2>3. \E d : dispatched'[c] = Append(dispatched[c], d) /\ d.at = n
    BY <1>6, DispatchIs DEF IInv
  <2>4. Len(v) = n /\ ~IsContentFrame(v[n])
    BY <1>1, <1>2, <1>3, <1>6, WireStep DEF IsContentFrame, IInv
  <2>5. Answered(c, n)
    BY <1>3, <2>2, <2>3 DEF Answered
  <2>6. AwaitsMethod(recv'[c], v)
    BY <2>2, <2>4 DEF AwaitsMethod
  <2> QED
    BY <1>3, <2>5, <2>6
<1>7. CASE /\ f.kind = "header" /\ f.size > 0
           /\ Transition(c, "recvContent") /\ UNCHANGED dispatched
  <2>1. f \in HeaderFrame /\ f.size \in Nat
    BY <1>7, FrameIs
  <2>2. ~EndsMessage(v, n)
    <3>1. HeaderOutcome(w, f, v, l, n)
      BY <1>2, <1>9, <2>1, HeaderEnds
    <3> QED
      BY <1>7, <2>1, <3>1 DEF HeaderOutcome
  <2>3. recv'[c] = "recvContent" /\ dispatched'[c] = dispatched[c]
    BY <1>7 DEF Transition, IInv, TypeOK
  <2> QED
    BY <1>3, <2>2, <2>3 DEF Answered, AwaitsMethod
<1>8. CASE f.kind = "body" /\ Drop(c)
  <2>1. f \in BodyFrame
    BY <1>8, FrameIs
  <2>2. \A i : ~Unfinished(w, i, l)
    BY <1>4, RunEnds DEF Unfinished, IsContentFrame
  <2>3. ~EndsMessage(v, n) /\ \A i : ~Unfinished(v, i, n)
    <3>1. BodyOutcome(w, f, v, l, n)
      BY <1>2, <1>9, <2>1, BodyEnds
    <3> QED
      BY <2>2, <2>1, <3>1 DEF BodyOutcome
  <2> QED
    BY <1>3, <1>8, <2>3, DropAnswered
<1> QED
  BY <1>5, <1>6, <1>7, <1>8 DEF RecvHeader, Panic

(* The frames of a channel that gathers content. *)
LEMMA RecvContentAnswered ==
  ASSUME IInv, NEW c \in Chan, NEW f \in Frame, Demux(c, f), ~panicked',
         recv[c] = "recvContent", RecvContent(c, f),
         NEW n \in Nat, n = Len(wire[c]) + 1
  PROVE  Answered(c, n) /\ AwaitsMethod(recv'[c], wire'[c])
<1>1. PICK w \in Seq(Frame) : w = wire[c]
  BY DEF IInv, TypeOK
<1>2. PICK l \in Nat : l = Len(w) /\ n = l + 1
  BY <1>1
<1>3. PICK v : v = wire'[c]
  BY Zenon
<1>4. v = Append(w, f)
  BY <1>1, <1>3, WireStep DEF IInv
<1>5. PICK i \in Nat : Unfinished(w, i, l) /\ Total(w, i, l) = Len(body[c]) /\ w[i+1] = header[c]
  <2>1. PICK i \in DOMAIN w : Gathers(w, i, l, message[c], header[c], body[c])
    BY <1>1, <1>2 DEF IInv, HandlerKnowsPlace, Demux
  <2>2. i \in Nat /\ header[c] \in HeaderFrame /\ body[c] \in Seq(Octet)
    BY ContentPlace DEF IInv, TypeOK, Demux
  <2> QED
    BY <2>1, <2>2, GathersIsOpen
<1>6. \A k : Unfinished(w, k, l) => k = i
  BY <1>5, RunIsOne DEF Unfinished
<1>7. ~IsContentFrame(w[l])
  BY <1>5, RunEnds DEF Unfinished, IsContentFrame
<1>8. CASE HandleMethod(c, f)
  BY <1>8, MethodAnswered
<1>9. CASE f.kind = "header" /\ Drop(c)
  <2>1. f \in HeaderFrame
    BY <1>9, FrameIs
  <2>2. HeaderOutcome(w, f, v, l, n)
    BY <1>2, <1>4, <2>1, HeaderEnds
  <2>3. ~EndsMessage(v, n) /\ \A k : ~Unfinished(v, k, n)
    BY <1>7, <2>2 DEF HeaderOutcome
  <2> QED
    BY <1>3, <1>9, <2>3, DropAnswered
<1>10. ASSUME f.kind = "body", NEW grown, grown = body[c] \o f.body,
              \/ /\ Complete(c, grown)
                 /\ Dispatch(c, message[c], header[c], grown)
                 /\ Transition(c, "recvMethod")
              \/ /\ ~Complete(c, grown)
                 /\ Transition(c, "recvContent")
                 /\ UNCHANGED dispatched
       PROVE  Answered(c, n) /\ AwaitsMethod(recv'[c], wire'[c])
  <2>1. f \in BodyFrame /\ f.body \in Seq(Octet)
    BY <1>10, FrameIs
  <2>2. BodyOutcome(w, f, v, l, n)
    BY <1>2, <1>4, <2>1, BodyEnds
  <2>3. Len(grown) = Total(w, i, l) + Len(f.body)
    <3>1. body[c] \in Seq(Octet)
      BY DEF IInv, TypeOK
    <3>2. Len(grown) = Len(body[c]) + Len(f.body)
      BY <1>10, <2>1, <3>1
    <3> QED
      BY <1>5, <3>2
  <2>4. header[c].size \in Nat /\ Len(grown) \in Nat
    <3>1. header[c] \in HeaderFrame
      BY ContentPlace DEF IInv, Demux
    <3>2. grown \in Seq(Octet)
      BY <1>10, <2>1 DEF IInv, TypeOK
    <3> QED
      BY <3>1, <3>2 DEF HeaderFrame
  <2>5. CASE Complete(c, grown)
    <3>1. Dispatch(c, message[c], header[c], grown)
      BY <1>10, <2>5
    <3>2. Total(w, i, l) + Len(f.body) >= w[i+1].size
      BY <1>5, <2>3, <2>5 DEF Complete
    <3>3. EndsMessage(v, n)
      BY <1>5, <2>2, <3>2 DEF BodyOutcome
    <3>4. \A k : ~Unfinished(v, k, n)
      <4>1. ~(Total(w, i, l) + Len(f.body) < w[i+1].size)
        <5>1. w[i+1].size \in Nat /\ Total(w, i, l) + Len(f.body) \in Nat
          BY <1>5, <2>3, <2>4
        <5> QED
          BY <3>2, <5>1
      <4> QED
        BY <1>6, <2>2, <4>1 DEF BodyOutcome
    <3>5. \E d : dispatched'[c] = Append(dispatched[c], d) /\ d.at = n
      BY <3>1, DispatchIs DEF IInv
    <3>6. Len(v) = n /\ ~IsContentFrame(v[n])
      BY <1>1, <1>2, <1>3, <1>10, WireStep DEF IsContentFrame, IInv
    <3>7. Answered(c, n)
      BY <1>3, <3>3, <3>5 DEF Answered
    <3>8. AwaitsMethod(recv'[c], v)
      BY <3>4, <3>6 DEF AwaitsMethod
    <3> QED
      BY <1>3, <3>7, <3>8
  <2>6. CASE ~Complete(c, grown)
    <3>1. ~(Total(w, i, l) + Len(f.body) >= w[i+1].size)
      BY <1>5, <2>3, <2>6 DEF Complete
    <3>2. ~EndsMessage(v, n)
      BY <1>6, <2>2, <3>1 DEF BodyOutcome
    <3>3. recv'[c] = "recvContent" /\ dispatched'[c] = dispatched[c]
      BY <1>10, <2>6 DEF Transition, IInv, TypeOK
    <3> QED
      BY <1>3, <3>2, <3>3 DEF Answered, AwaitsMethod
  <2> QED
    BY <2>5, <2>6
<1> QED
  BY <1>8, <1>9, <1>10 DEF RecvContent, Panic

(* A frame on its channel: it is answered as it should, and nothing is     *)
(* left open by a handler that goes back to awaiting a method.             *)
LEMMA FrameAnswered ==
  ASSUME IInv, NothingLeftOpen, NEW c \in Chan, NEW f \in Frame, Demux(c, f), ~panicked',
         NEW n \in Nat, n = Len(wire[c]) + 1
  PROVE  Answered(c, n) /\ AwaitsMethod(recv'[c], wire'[c])
<1>1. AwaitsMethod(recv[c], wire[c])
  BY DEF NothingLeftOpen, Demux
<1> QED
  BY <1>1, RecvMethodAnswered, RecvHeaderAnswered, RecvContentAnswered DEF Demux

(* One frame keeps NothingLeftOpen. *)
LEMMA OpenStep ==
  ASSUME IInv, NothingLeftOpen, NEW c \in Chan, NEW f \in Frame, Demux(c, f)
  PROVE  NothingLeftOpen'
<1> SUFFICES ASSUME ~panicked', NEW d \in Chan PROVE AwaitsMethod(recv'[d], wire'[d])
  BY DEF NothingLeftOpen
<1>1. CASE d = c
  <2>1. Len(wire[c]) + 1 \in Nat
    BY DEF IInv, TypeOK
  <2> QED
    BY <1>1, <2>1, FrameAnswered
<1>2. CASE d # c
  <2>1. recv'[d] = recv[d] /\ wire'[d] = wire[d]
    BY <1>2, WireStep, OthersUntouched DEF IInv
  <2> QED
    BY <2>1 DEF NothingLeftOpen, Demux
<1> QED
  BY <1>1, <1>2

(* What SpelledIsDispatched says of one channel. *)
Reassembled(w, ds) ==
  /\ \A j \in DOMAIN w : EndsMessage(w, j) <=> \E k \in DOMAIN ds : ds[k].at = j
  /\ \A k, m \in DOMAIN ds : k < m => ds[k].at < ds[m].at

(* A sequence with something appended to it. *)
LEMMA AppendIs ==
  ASSUME NEW S, NEW s \in Seq(S), NEW e, NEW r, r = Append(s, e),
         NEW m, m = Len(s) + 1
  PROVE  DOMAIN r = 1 .. m /\ r[m] = e /\ \A k \in DOMAIN s : r[k] = s[k]
<1>1. DOMAIN r = 1 .. m
  OBVIOUS
<1>2. r[m] = e
  OBVIOUS
<1>3. \A k \in DOMAIN s : r[k] = s[k]
  OBVIOUS
<1> QED
  BY <1>1, <1>2, <1>3

(* A further frame that is answered keeps it. *)
LEMMA AnsweredKeeps ==
  ASSUME NEW w \in Seq(Frame), NEW f \in Frame, NEW v, v = Append(w, f),
         NEW n \in Nat, n = Len(w) + 1,
         NEW ds \in Seq(Message), NEW es,
         \A k \in DOMAIN ds : ds[k].at <= Len(w), Reassembled(w, ds),
         \/ es = ds /\ ~EndsMessage(v, n)
         \/ EndsMessage(v, n) /\ \E d : es = Append(ds, d) /\ d.at = n
  PROVE  Reassembled(v, es)
<1>1. /\ DOMAIN w = 1 .. Len(w) /\ DOMAIN v = 1 .. n /\ v \in Seq(Frame)
      /\ DOMAIN ds = 1 .. Len(ds) /\ Len(ds) \in Nat /\ Len(w) \in Nat
  BY FrameAppend
<1>2. \A j \in 1 .. Len(w) : EndsMessage(v, j) <=> EndsMessage(w, j)
  BY EndsAppend
<1>3. \A k \in DOMAIN ds : ds[k].at \in Nat /\ ds[k].at < n
  <2>1. \A k \in DOMAIN ds : ds[k] \in Message
    BY <1>1
  <2> QED
    BY <1>1, <2>1 DEF Message
<1>4. CASE es = ds /\ ~EndsMessage(v, n)
  <2>1. ASSUME NEW j \in 1 .. n
        PROVE  EndsMessage(v, j) <=> \E k \in DOMAIN es : es[k].at = j
    <3>1. CASE j \in 1 .. Len(w)
      BY <1>1, <1>2, <1>4, <3>1 DEF Reassembled
    <3>2. CASE j = n
      BY <1>3, <1>4, <3>2
    <3> QED
      BY <1>1, <3>1, <3>2
  <2> QED
    BY <1>1, <1>4, <2>1 DEF Reassembled
<1>5. ASSUME EndsMessage(v, n), NEW d, es = Append(ds, d), d.at = n
      PROVE  Reassembled(v, es)
  <2>1. PICK m \in Nat : m = Len(ds) + 1
    BY <1>1
  <2>2. DOMAIN es = 1 .. m /\ es[m] = d /\ \A k \in DOMAIN ds : es[k] = ds[k]
    BY <1>5, <2>1, AppendIs
  <2>3. \A k \in DOMAIN es : k \in DOMAIN ds \/ k = m
    BY <1>1, <2>1, <2>2
  <2>4. m \in DOMAIN es /\ \A k \in DOMAIN ds : k \in DOMAIN es /\ k < m
    BY <1>1, <2>1, <2>2
  <2>5. ASSUME NEW j \in 1 .. n PROVE EndsMessage(v, j) <=> \E k \in DOMAIN es : es[k].at = j
    <3>1. CASE j = n
      BY <1>5, <2>2, <2>4, <3>1
    <3>2. CASE j \in 1 .. Len(w)
      <4>1. EndsMessage(v, j) <=> \E k \in DOMAIN ds : ds[k].at = j
        BY <1>1, <1>2, <3>2 DEF Reassembled
      <4>2. j # n
        BY <3>2
      <4>3. (\E k \in DOMAIN ds : ds[k].at = j) <=> \E k \in DOMAIN es : es[k].at = j
        BY <1>5, <2>2, <2>3, <2>4, <4>2
      <4> QED
        BY <4>1, <4>3
    <3> QED
      BY <1>1, <3>1, <3>2
  <2>6. ASSUME NEW k \in DOMAIN es, NEW p \in DOMAIN es, k < p PROVE es[k].at < es[p].at
    <3>1. k \in DOMAIN ds
      BY <1>1, <2>1, <2>2, <2>6
    <3>2. CASE p = m
      BY <1>3, <1>5, <2>2, <3>1, <3>2
    <3>3. CASE p \in DOMAIN ds
      BY <2>2, <2>6, <3>1, <3>3 DEF Reassembled
    <3> QED
      BY <2>3, <3>2, <3>3
  <2> QED
    BY <1>1, <2>5, <2>6 DEF Reassembled
<1> QED
  BY <1>4, <1>5

(* One frame keeps SpelledIsDispatched. *)
LEMMA CompleteStep ==
  ASSUME IInv, NothingLeftOpen, SpelledIsDispatched,
         NEW c \in Chan, NEW f \in Frame, Demux(c, f)
  PROVE  SpelledIsDispatched'
<1> SUFFICES ASSUME ~panicked', NEW d \in Chan PROVE Reassembled(wire'[d], dispatched'[d])
  BY DEF SpelledIsDispatched, Reassembled
<1>1. ~panicked /\ \A e \in Chan : Reassembled(wire[e], dispatched[e])
  BY DEF SpelledIsDispatched, Reassembled, Demux
<1>2. CASE d # c
  BY <1>1, <1>2, WireStep, OthersUntouched DEF IInv
<1>3. CASE d = c
  <2>1. wire[c] \in Seq(Frame) /\ dispatched[c] \in Seq(Message)
    BY DEF IInv, TypeOK
  <2>2. PICK n \in Nat : n = Len(wire[c]) + 1
    BY <2>1
  <2>3. Answered(c, n)
    BY <2>2, FrameAnswered
  <2>4. \A k \in DOMAIN dispatched[c] : dispatched[c][k].at <= Len(wire[c])
    BY DEF IInv, DispatchedIsSpelled
  <2>5. wire'[c] = Append(wire[c], f)
    BY WireStep DEF IInv
  <2>6. Reassembled(wire'[c], dispatched'[c])
    BY <1>1, <2>1, <2>2, <2>3, <2>4, <2>5, AnsweredKeeps DEF Answered
  <2> QED
    BY <1>3, <2>6
<1> QED
  BY <1>2, <1>3

-----------------------------------------------------------------------------
FullInv == IInv /\ NothingLeftOpen /\ SpelledIsDispatched

(* A new Channel has received nothing and dispatched nothing. *)
LEMMA InitFullInv == Init => FullInv
<1> SUFFICES ASSUME Init PROVE FullInv
  OBVIOUS
<1>1. ASSUME NEW c \in Chan
      PROVE  AwaitsMethod(recv[c], wire[c]) /\ Reassembled(wire[c], dispatched[c])
  <2>1. wire[c] = <<>> /\ dispatched[c] = <<>>
    BY DEF Init
  <2>2. \A i : ~Unfinished(<<>>, i, 0)
    BY DEF Unfinished, Run
  <2> QED
    BY <2>1, <2>2 DEF AwaitsMethod, Reassembled
<1>2. NothingLeftOpen
  BY <1>1 DEF NothingLeftOpen
<1>3. SpelledIsDispatched
  BY <1>1 DEF SpelledIsDispatched, Reassembled
<1> QED
  BY <1>2, <1>3, InitIInv DEF FullInv

(* A step keeps FullInv whatever frame of whatever channel it is for. *)
LEMMA DemuxFullInv ==
  ASSUME FullInv, NEW c \in Chan, NEW f \in Frame, Demux(c, f) PROVE FullInv'
BY DemuxIInv, OpenStep, CompleteStep DEF FullInv

(* So does a step that does not concern the analyser. *)
LEMMA StutterFullInv == FullInv /\ UNCHANGED vars => FullInv'
<1> SUFFICES ASSUME FullInv, UNCHANGED vars PROVE FullInv'
  OBVIOUS
<1>1. NothingLeftOpen'
  BY DEF FullInv, vars, NothingLeftOpen
<1>2. SpelledIsDispatched'
  BY DEF FullInv, vars, SpelledIsDispatched
<1> QED
  BY <1>1, <1>2, StutterIInv DEF FullInv

(***************************************************************************)
(* Completeness and order of the reassembly: unless the program panics,    *)
(* every message the frames of a channel spell is dispatched, once, with   *)
(* its last frame, and in the order of the frames.                         *)
(***************************************************************************)
THEOREM ReassemblyIsComplete == Spec => []SpelledIsDispatched
<1>1. Init => FullInv
  BY InitFullInv
<1>2. FullInv /\ [Next]_vars => FullInv'
  BY ChannelAssumption, DemuxFullInv, StutterFullInv DEF Next
<1>3. FullInv => SpelledIsDispatched
  BY DEF FullInv
<1> QED
  BY <1>1, <1>2, <1>3, PTL DEF Spec
=============================================================================
