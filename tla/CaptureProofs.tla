--------------------------- MODULE CaptureProofs ---------------------------
(***************************************************************************)
(* Proofs about Capture, for any ports, channels, contents and captures.   *)
(* Four invariants, each of which uses those before it:                    *)
(*   Typed     the types, and all that ChannelProofs shows of a channel    *)
(*             for any frames (FullInv);                                   *)
(*   Known     the Connection of a port was made for one of its TCP        *)
(*             connections, before any content that has been read from it  *)
(*             was sent;                                                   *)
(*   Orderly   what the peers keep to: who may send what, and when;        *)
(*   Pending   what a channel has gathered so far is the beginning of what *)
(*             its sender sent (Aligned), or will never become complete    *)
(*             (Astray), or its connection broke off and the next one      *)
(*             begins with another method (Broken).                        *)
(* Contained counts what the missing frames have cost so far: the contents *)
(* that have not arrived and can not any more (Missed).                    *)
(***************************************************************************)
EXTENDS Capture, ChannelProofs, FiniteSetTheorems

(* A function that is extended. *)
LEMMA ExtendedIs ==
  ASSUME NEW f, NEW x, NEW v, NEW g, g = Extended(f, x, v)
  PROVE  /\ DOMAIN g = DOMAIN f \cup {x}
         /\ \A y \in DOMAIN f : g[y] = f[y]
         /\ x \notin DOMAIN f => g[x] = v
BY DEF Extended

(* An element of a sequence. *)
LEMMA ElementOf ==
  ASSUME NEW S, NEW s \in Seq(S), NEW k \in 1 .. Len(s) PROVE s[k] \in S
OBVIOUS

(* The endpoints of connection k as printPacketInfo tells them. *)
Info(k) == [server |-> Server, client |-> Client(k)]

(* What the types say of a capture and its connections. *)
LEMMA CaptureIs ==
  ASSUME capture \in Captures, NEW k \in Conn
  PROVE  /\ Client(k) \in Endpoint /\ Client(k).Port \in Port
         /\ capture.conns[k].sends \in [Peer -> Nat]
         /\ k \in Nat /\ Before(k) \subseteq Conn \ {k} /\ capture.loss \in Nat
<1>1. capture.conns \in Seq([client : Endpoint, sends : [Peer -> Nat]])
  BY CaptureAssumption
<1>2. Conn = 1 .. Len(capture.conns) /\ Len(capture.conns) \in Nat
  BY <1>1 DEF Conn
<1>3. capture.conns[k] \in [client : Endpoint, sends : [Peer -> Nat]]
  BY <1>1, <1>2, ElementOf, Zenon
<1>4. Client(k).Port \in Port
  BY CaptureAssumption DEF Conn, Client
<1>5. Before(k) \subseteq Conn \ {k}
  BY <1>2 DEF Before
<1> QED
  BY <1>2, <1>3, <1>4, <1>5, CaptureAssumption DEF Client

(* They are not changed by a step that does not change the capture. *)
LEMMA SameCapture ==
  ASSUME UNCHANGED capture
  PROVE  Conn' = Conn /\ \A k : Client(k)' = Client(k) /\ Before(k)' = Before(k)
BY DEF Conn, Client, Before

(* Whichever peer sent a packet, its endpoints are told apart. *)
LEMMA InfoIs ==
  ASSUME capture \in Captures, NEW k \in Conn
  PROVE  /\ printPacketInfo(Client(k), Server) = Info(k)
         /\ printPacketInfo(Server, Client(k)) = Info(k)
<1>1. Client(k) \in Endpoint /\ Client(k).Port \in Port
  BY CaptureIs
<1>2. Client(k).Port # Server.Port
  BY <1>1, CaptureAssumption
<1>3. /\ Client(k) = [Host |-> Client(k).Host, Port |-> Client(k).Port]
      /\ Server = [Host |-> Server.Host, Port |-> Server.Port]
  BY <1>1, CaptureAssumption DEF Endpoint
<1>4. printPacketInfo(Client(k), Server)
        = [server |-> [Host |-> Server.Host, Port |-> Server.Port],
           client |-> [Host |-> Client(k).Host, Port |-> Client(k).Port]]
  <2>1. CASE Client(k).Host = Server.Host
    BY <1>2, <2>1 DEF printPacketInfo, isServerHost, isServerPort
  <2>2. CASE Client(k).Host # Server.Host
    BY <1>2, <2>2 DEF printPacketInfo, isServerHost, isServerPort
  <2> QED
    BY <2>1, <2>2
<1>5. printPacketInfo(Server, Client(k))
        = [server |-> [Host |-> Server.Host, Port |-> Server.Port],
           client |-> [Host |-> Client(k).Host, Port |-> Client(k).Port]]
  BY DEF printPacketInfo, isServerHost, isServerPort
<1> QED
  BY <1>3, <1>4, <1>5, Zenon DEF Info

(* A frame of connection k, channel id: read by the analyser, or lost. *)
Read(k, id, f) ==
  /\ connections' = Extended(connections, Client(k).Port, Info(k))
  /\ Demux(<<Client(k).Port, id>>, f)
  /\ lost' = lost

Lost(k) ==
  /\ ~panicked /\ lost < capture.loss /\ lost' = lost + 1
  /\ connections' \in {connections, Extended(connections, Client(k).Port, Info(k))}
  /\ UNCHANGED vars

(* A frame on the wire is read or lost. *)
LEMMA OnWireIs ==
  ASSUME capture \in Captures, NEW p \in Peer, NEW k \in Conn, NEW id \in Id, NEW f,
         OnWire(p, k, id, f)
  PROVE  Read(k, id, f) \/ Lost(k)
<1>1. PICK info : info = Info(k)
  BY Zenon
<1>2. /\ (IF p = "client" THEN printPacketInfo(Client(k), Server)
          ELSE printPacketInfo(Server, Client(k))) = info
      /\ info.client.Port = Client(k).Port
  BY <1>1, InfoIs DEF Info
<1>3. \/ getConnection(info) /\ Demux(<<info.client.Port, id>>, f) /\ UNCHANGED lost
      \/ /\ ~panicked /\ lost < capture.loss /\ lost' = lost + 1
         /\ getConnection(info) \/ UNCHANGED connections
         /\ UNCHANGED vars
  BY <1>2, Zenon DEF OnWire
<1> QED
  BY <1>1, <1>2, <1>3 DEF Read, Lost, getConnection

-----------------------------------------------------------------------------
(* The frames the peers send.                                              *)

(* The octets of a content are octets. *)
LEMMA BodyIs ==
  ASSUME NEW x \in Deliveries \cup Publishings, NEW a \in Nat, NEW b \in 0 .. MaxBody, a <= b
  PROVE  Body(x, a, b) \in Seq(Octet) /\ Len(Body(x, a, b)) = b - a
<1>1. b - a \in Nat /\ MaxBody \in Nat /\ b \in Nat
  BY CaptureAssumption
<1>2. ASSUME NEW i \in 1 .. b - a PROVE <<x, a + i>> \in Octet
  BY <1>1, CaptureAssumption
<1>3. Body(x, a, b) \in [1 .. b - a -> Octet]
  BY <1>2 DEF Body
<1>4. ASSUME NEW S, NEW n \in Nat, NEW s \in [1 .. n -> S] PROVE s \in Seq(S) /\ Len(s) = n
  OBVIOUS
<1> QED
  BY <1>1, <1>3, <1>4

(* Sequences are equal when their elements are. *)
LEMMA SameSequence ==
  ASSUME NEW S, NEW r \in Seq(S), NEW u \in Seq(S), Len(r) = Len(u),
         \A i \in 1 .. Len(u) : r[i] = u[i]
  PROVE  r = u
OBVIOUS

(* What a concatenation is. *)
LEMMA ConcatIs ==
  ASSUME NEW S, NEW s \in Seq(S), NEW t \in Seq(S), NEW u \in Seq(S),
         Len(u) = Len(s) + Len(t),
         \A i \in 1 .. Len(s) : u[i] = s[i],
         \A i \in Len(s) + 1 .. Len(s) + Len(t) : u[i] = t[i - Len(s)]
  PROVE  s \o t = u
<1>1. PICK r : r = s \o t
  BY Zenon
<1>2. r \in Seq(S) /\ Len(r) = Len(s) + Len(t)
  BY <1>1
<1>3. \A i \in 1 .. Len(s) : r[i] = s[i]
  BY <1>1
<1>4. \A i \in Len(s) + 1 .. Len(s) + Len(t) : r[i] = t[i - Len(s)]
  BY <1>1
<1>5. Len(s) \in Nat /\ Len(t) \in Nat
  OBVIOUS
<1>6. \A i \in 1 .. Len(u) : r[i] = u[i]
  BY <1>3, <1>4, <1>5
<1> QED
  BY <1>1, <1>2, <1>6, SameSequence

(* Those of one part followed by those of the next. *)
LEMMA BodyGrows ==
  ASSUME NEW x \in Deliveries \cup Publishings, NEW a \in Nat, NEW b \in 0 .. MaxBody, a <= b
  PROVE  Body(x, 0, a) \o Body(x, a, b) = Body(x, 0, b)
<1>1. a \in 0 .. MaxBody /\ 0 \in Nat /\ b \in Nat /\ 0 <= b /\ 0 <= a /\ MaxBody \in Nat
  BY CaptureAssumption
<1>2. /\ Body(x, 0, a) \in Seq(Octet) /\ Len(Body(x, 0, a)) = a - 0
      /\ Body(x, a, b) \in Seq(Octet) /\ Len(Body(x, a, b)) = b - a
      /\ Body(x, 0, b) \in Seq(Octet) /\ Len(Body(x, 0, b)) = b - 0
  BY <1>1, BodyIs, Zenon
<1>3. \A i \in 1 .. a : Body(x, 0, b)[i] = Body(x, 0, a)[i]
  BY CaptureAssumption DEF Body
<1>4. \A i \in a + 1 .. b : Body(x, 0, b)[i] = Body(x, a, b)[i - a]
  BY CaptureAssumption DEF Body
<1> QED
  BY <1>1, <1>2, <1>3, <1>4, ConcatIs

MethodOf(x) == [kind |-> "method", method |-> x]
HeaderOf(x, n) == [kind |-> "header", size |-> n, properties |-> x]
BodyOf(b) == [kind |-> "body", body |-> b]

(* They are frames. *)
LEMMA FramesAre ==
  /\ \A x \in Deliveries \cup Publishings :
       /\ MethodOf(x) \in Frame
       /\ \A n \in Nat : HeaderOf(x, n) \in Frame
  /\ MethodOf(Open) \in Frame
  /\ \A x \in Deliveries : MethodOf(Ack(x)) \in Frame
  /\ \A b \in Seq(Octet) : BodyOf(b) \in Frame
BY CaptureAssumption
   DEF MethodOf, HeaderOf, BodyOf, Frame, MethodFrame, HeaderFrame, BodyFrame, Method

-----------------------------------------------------------------------------
(* Type correctness.                                                       *)

Stages(S) ==
  {Idle} \cup [stage : {"open"}] \cup [stage : {"header"}, content : S]
         \cup [stage : {"body"}, content : S, done : 0 .. MaxBody]
Slots == Peer \X (Conn \X Id)

(* More contents, more that a peer can be doing. *)
LEMMA StagesGrow ==
  ASSUME NEW S, NEW T, S \subseteq T PROVE Stages(S) \subseteq Stages(T)
BY DEF Stages

(* What a peer can be doing on a channel. *)
LEMMA StageIs ==
  ASSUME NEW S, NEW now \in Stages(S)
  PROVE  /\ now.stage \in {"idle", "open", "header", "body"}
         /\ now.stage = "idle" => now = Idle
         /\ now.stage = "header" => now.content \in S /\ now = [stage |-> "header", content |-> now.content]
         /\ now.stage = "body" =>
              /\ now.content \in S /\ now.done \in 0 .. MaxBody
              /\ now = [stage |-> "body", content |-> now.content, done |-> now.done]
BY DEF Stages, Idle

(* Connections are numbered by the port of their client. *)
Numbered ==
  /\ DOMAIN connections \subseteq Port
  /\ \A port \in DOMAIN connections :
       /\ connections[port] \in [server : Endpoint, client : Endpoint]
       /\ connections[port].client.Port = port

(* A new Connection is one of them. *)
LEMMA NumberedStep ==
  ASSUME capture \in Captures, Numbered, NEW k \in Conn,
         connections' = Extended(connections, Client(k).Port, Info(k))
  PROVE  Numbered'
<1>1. PICK port, info : port = Client(k).Port /\ info = Info(k)
  BY Zenon
<1>2. connections' = Extended(connections, port, info)
  BY <1>1
<1>3. /\ DOMAIN connections' = DOMAIN connections \cup {port}
      /\ \A y \in DOMAIN connections : connections'[y] = connections[y]
      /\ port \notin DOMAIN connections => connections'[port] = info
  BY <1>2, ExtendedIs
<1>4. port \in Port /\ Client(k) \in Endpoint
  BY <1>1, CaptureIs
<1>5. info \in [server : Endpoint, client : Endpoint] /\ info.client.Port = port
  BY <1>1, <1>4, CaptureAssumption DEF Info
<1> QED
  BY <1>3, <1>4, <1>5 DEF Numbered

(* What the analyser does with a frame, and with one that is lost to it. *)
LEMMA OnWireType ==
  ASSUME FullInv, capture \in Captures, Numbered, lost \in 0 .. capture.loss,
         UNCHANGED capture, NEW p \in Peer, NEW k \in Conn, NEW id \in Id, NEW f \in Frame,
         OnWire(p, k, id, f)
  PROVE  FullInv' /\ Numbered' /\ (lost \in 0 .. capture.loss)'
<1>1. CASE Read(k, id, f)
  <2>1. <<Client(k).Port, id>> \in Chan
    BY CaptureIs, CaptureAssumption
  <2>2. FullInv'
    BY <1>1, <2>1, DemuxFullInv DEF Read
  <2> QED
    BY <1>1, <2>2, NumberedStep DEF Read
<1>2. CASE Lost(k)
  <2>1. FullInv'
    BY <1>2, StutterFullInv DEF Lost
  <2>2. Numbered'
    <3>1. CASE connections' = connections
      BY <3>1 DEF Numbered
    <3> QED
      BY <1>2, <3>1, NumberedStep DEF Lost
  <2>3. (lost \in 0 .. capture.loss)'
    BY <1>2, CaptureIs DEF Lost
  <2> QED
    BY <2>1, <2>2, <2>3
<1> QED
  BY <1>1, <1>2, OnWireIs

(* What the peers know of the connections, and what the histories say.     *)
PeersOK ==
  /\ capture \in Captures /\ ended \subseteq Conn
  /\ outgoing \in [Slots -> Stages(Sent)]
  /\ Sent \subseteq Deliveries \cup Publishings /\ size \in [Sent -> 0 .. MaxBody]
  /\ place \in [Sent -> Conn \X Id]
  /\ acked \subseteq Deliveries

Typed == FullInv /\ Numbered /\ PeersOK /\ lost \in 0 .. capture.loss

(* The type invariant of Capture is part of Typed. *)
LEMMA TypedIs == Typed => CaptureTypeOK
BY Zenon DEF Typed, FullInv, IInv, Numbered, PeersOK, CaptureTypeOK, Slots, Stages

(* A peer goes on to something else on one channel. *)
LEMMA OutgoingStep ==
  ASSUME outgoing \in [Slots -> Stages(Sent)], UNCHANGED capture,
         NEW q, NEW v \in Stages(Sent'), Sent \subseteq Sent',
         outgoing' = [outgoing EXCEPT ![q] = v]
  PROVE  (outgoing \in [Slots -> Stages(Sent)])'
<1>1. PICK T : T = Stages(Sent')
  BY Zenon
<1>2. Stages(Sent) \subseteq T
  BY <1>1, StagesGrow, Zenon
<1>3. outgoing' \in [Slots -> T]
  BY <1>1, <1>2
<1>4. Slots' = Slots
  BY SameCapture DEF Slots
<1>5. Stages(Sent)' = T
  BY <1>1, Zenon DEF Stages, Idle
<1> QED
  BY <1>3, <1>4, <1>5

(* The peers' part of a step: what Send leaves to the five actions. *)
LEMMA OpenPeers ==
  ASSUME PeersOK, NEW k \in Conn, NEW id \in Id, SendOpen(k, id), UNCHANGED <<capture, ended>>
  PROVE  PeersOK'
<1>1. Idle \in Stages(Sent') /\ Sent' = Sent
  BY DEF SendOpen, Stages, Sent
<1>2. (outgoing \in [Slots -> Stages(Sent)])'
  BY <1>1, OutgoingStep DEF SendOpen, PeersOK
<1>3. Conn' = Conn
  BY SameCapture
<1> QED
  BY <1>1, <1>2, <1>3 DEF SendOpen, PeersOK

(* SendMethod sends a new content. *)
LEMMA MethodPeers ==
  ASSUME PeersOK, NEW p \in Peer, NEW k \in Conn, NEW id \in Id,
         NEW x \in Contents(p), NEW n \in 0 .. MaxBody,
         SendMethod(p, k, id, x, n), UNCHANGED <<capture, ended>>
  PROVE  PeersOK' /\ Sent' = Sent \cup {x} /\ x \notin Sent
<1>1. x \in Deliveries \cup Publishings /\ x \notin Sent
  BY DEF Contents, SendMethod
<1>2. size' = Extended(size, x, n) /\ place' = Extended(place, x, <<k, id>>)
  BY DEF SendMethod
<1>3. Sent' = Sent \cup {x} /\ size' \in [Sent \cup {x} -> 0 .. MaxBody]
  BY <1>2 DEF Extended, PeersOK, Sent
<1>4. place' \in [Sent \cup {x} -> Conn \X Id]
  <2>1. <<k, id>> \in Conn \X Id
    OBVIOUS
  <2> QED
    BY <1>2, <2>1 DEF Extended, PeersOK
<1>5. PICK v : v = [stage |-> "header", content |-> x]
  BY Zenon
<1>6. v \in Stages(Sent')
  BY <1>3, <1>5 DEF Stages
<1>7. outgoing' = [outgoing EXCEPT ![<<p, <<k, id>>>>] = v]
  BY <1>5, Zenon DEF SendMethod
<1>8. (outgoing \in [Slots -> Stages(Sent)])'
  BY <1>3, <1>6, <1>7, OutgoingStep DEF PeersOK
<1>9. Conn' = Conn
  BY SameCapture
<1> QED
  BY <1>1, <1>3, <1>4, <1>8, <1>9 DEF SendMethod, PeersOK

(* SendHeader goes on with the body, if there is one. *)
LEMMA HeaderPeers ==
  ASSUME PeersOK, NEW p \in Peer, NEW k \in Conn, NEW id \in Id,
         SendHeader(p, k, id), UNCHANGED <<capture, ended>>
  PROVE  PeersOK'
<1>1. PICK q, now : q = <<p, <<k, id>>>> /\ now = outgoing[q]
  BY Zenon
<1>2. q \in Slots
  BY <1>1 DEF Slots
<1>3. now \in Stages(Sent) /\ now.stage = "header"
  BY <1>1, <1>2, Zenon DEF PeersOK, SendHeader
<1>4. PICK x \in Sent : x = now.content
  BY <1>3, StageIs
<1>5. PICK v : v = IF size[x] = 0 THEN Idle ELSE [stage |-> "body", content |-> x, done |-> 0]
  BY Zenon
<1>6. Sent' = Sent /\ v \in Stages(Sent')
  BY <1>5, CaptureAssumption DEF Stages, SendHeader, Sent
<1>7. outgoing' = [outgoing EXCEPT ![q] = v]
  BY <1>1, <1>4, <1>5, Zenon DEF SendHeader
<1>8. (outgoing \in [Slots -> Stages(Sent)])'
  BY <1>6, <1>7, OutgoingStep DEF PeersOK
<1>9. Conn' = Conn
  BY SameCapture
<1> QED
  BY <1>6, <1>8, <1>9 DEF SendHeader, PeersOK

(* SendBody goes on with the next octets, or ends the content. *)
LEMMA BodyPeers ==
  ASSUME PeersOK, NEW p \in Peer, NEW k \in Conn, NEW id \in Id, NEW n \in 1 .. MaxBody,
         SendBody(p, k, id, n), UNCHANGED <<capture, ended>>
  PROVE  PeersOK'
<1>1. PICK q, now : q = <<p, <<k, id>>>> /\ now = outgoing[q]
  BY Zenon
<1>2. q \in Slots
  BY <1>1 DEF Slots
<1>3. now \in Stages(Sent) /\ now.stage = "body"
  BY <1>1, <1>2, Zenon DEF PeersOK, SendBody
<1>4. now.content \in Sent /\ now.done \in 0 .. MaxBody
      /\ now = [stage |-> "body", content |-> now.content, done |-> now.done]
  BY <1>3, StageIs
<1>5. now.done + n <= size[now.content] /\ size[now.content] \in 0 .. MaxBody
  BY <1>1, <1>4, Zenon DEF SendBody, PeersOK
<1>6. PICK v : v = IF now.done + n = size[now.content] THEN Idle ELSE [now EXCEPT !.done = @ + n]
  BY Zenon
<1>7. now.done + n \in 0 .. MaxBody
  BY <1>4, <1>5, CaptureAssumption
<1>8. Sent' = Sent
  BY DEF SendBody, Sent
<1>9. v \in Stages(Sent)
  BY <1>4, <1>6, <1>7 DEF Stages
<1>10. outgoing' = [outgoing EXCEPT ![q] = v]
  BY <1>1, <1>6, Zenon DEF SendBody
<1>11. (outgoing \in [Slots -> Stages(Sent)])'
  BY <1>8, <1>9, <1>10, OutgoingStep DEF PeersOK
<1>12. Conn' = Conn
  BY SameCapture
<1> QED
  BY <1>8, <1>11, <1>12 DEF SendBody, PeersOK

(* SendAck acknowledges a delivery. *)
LEMMA AckPeers ==
  ASSUME PeersOK, NEW k \in Conn, NEW id \in Id, NEW x \in Deliveries,
         SendAck(k, id, x), UNCHANGED <<capture, ended>>
  PROVE  PeersOK'
<1>1. Conn' = Conn /\ Slots' = Slots /\ Sent' = Sent
  BY SameCapture DEF Slots, SendAck, Sent
<1>2. (outgoing \in [Slots -> Stages(Sent)])'
  BY <1>1 DEF PeersOK, Stages, Idle, SendAck
<1> QED
  BY <1>1, <1>2 DEF PeersOK, SendAck

(* The frame a content's header is sent with, and one with its octets.     *)
LEMMA HeaderSent ==
  ASSUME PeersOK, NEW p \in Peer, NEW k \in Conn, NEW id \in Id, SendHeader(p, k, id)
  PROVE  LET x == outgoing[<<p, <<k, id>>>>].content
         IN  x \in Sent /\ HeaderOf(x, size[x]) \in Frame
<1>1. PICK now : now = outgoing[<<p, <<k, id>>>>]
  BY Zenon
<1>2. now \in Stages(Sent) /\ now.stage = "header"
  BY <1>1 DEF PeersOK, SendHeader, Slots
<1>3. now.content \in Sent
  BY <1>2, StageIs
<1>4. size[now.content] \in Nat /\ now.content \in Deliveries \cup Publishings
  BY <1>3 DEF PeersOK
<1> QED
  BY <1>1, <1>3, <1>4, FramesAre

(* The octets of a body frame are within the content. *)
LEMMA BodySent ==
  ASSUME PeersOK, NEW p \in Peer, NEW k \in Conn, NEW id \in Id, NEW n \in 1 .. MaxBody,
         SendBody(p, k, id, n)
  PROVE  LET now == outgoing[<<p, <<k, id>>>>]
         IN  /\ now.content \in Sent /\ now.done \in 0 .. MaxBody
             /\ now.done + n <= size[now.content] /\ size[now.content] \in 0 .. MaxBody
             /\ BodyOf(Body(now.content, now.done, now.done + n)) \in Frame
<1>1. PICK now : now = outgoing[<<p, <<k, id>>>>]
  BY Zenon
<1>2. now \in Stages(Sent) /\ now.stage = "body"
  BY <1>1 DEF PeersOK, SendBody, Slots
<1>3. now.content \in Sent /\ now.done \in 0 .. MaxBody
  BY <1>2, StageIs
<1>4. now.done + n <= size[now.content]
  BY <1>1, Zenon DEF SendBody
<1>5. size[now.content] \in 0 .. MaxBody /\ now.content \in Deliveries \cup Publishings
  BY <1>3 DEF PeersOK
<1>6. /\ now.done \in Nat /\ now.done + n \in 0 .. MaxBody /\ now.done <= now.done + n
  BY <1>3, <1>4, <1>5, CaptureAssumption
<1>7. Body(now.content, now.done, now.done + n) \in Seq(Octet)
  BY <1>5, <1>6, BodyIs, Zenon
<1> QED
  BY <1>1, <1>3, <1>4, <1>5, <1>7, FramesAre, Zenon

(* Typed holds initially. *)
LEMMA TypedInit == CaptureInit => Typed
<1> SUFFICES ASSUME CaptureInit PROVE Typed
  OBVIOUS
<1>1. FullInv
  BY InitFullInv DEF CaptureInit
<1>2. connections = <<>> /\ size = <<>> /\ place = <<>> /\ lost = 0 /\ capture \in Captures
      /\ ended = {} /\ acked = {}
  BY DEF CaptureInit
<1>3. Numbered
  BY <1>2 DEF Numbered
<1>4. Idle \in Stages(Sent) /\ [stage |-> "open"] \in Stages(Sent)
  BY DEF Stages
<1>5. outgoing \in [Slots -> Stages(Sent)]
  <2>1. PICK T : T = Stages(Sent)
    BY Zenon
  <2> QED
    BY <1>4, <2>1 DEF CaptureInit, Slots
<1>6. Sent = {}
  BY <1>2 DEF Sent
<1>7. size \in [Sent -> 0 .. MaxBody] /\ place \in [Sent -> Conn \X Id]
  BY <1>2, <1>6
<1>8. PeersOK
  BY <1>2, <1>5, <1>6, <1>7 DEF PeersOK
<1>9. lost \in 0 .. capture.loss
  BY <1>2, CaptureAssumption
<1> QED
  BY <1>1, <1>3, <1>8, <1>9 DEF Typed

(* It is kept by what the peers send. *)
LEMMA TypedSend ==
  ASSUME Typed, NEW k \in Conn, NEW id \in Id, Send(k, id) PROVE Typed'
<1> DEFINE Analysed == FullInv' /\ Numbered' /\ (lost \in 0 .. capture.loss)'
<1>1. UNCHANGED <<capture, ended>> /\ PeersOK /\ "client" \in Peer
  BY DEF Send, Typed, Peer
<1>2. ASSUME NEW p \in Peer, NEW f \in Frame, OnWire(p, k, id, f) PROVE Analysed
  BY <1>1, <1>2, OnWireType DEF Typed, PeersOK
<1> HIDE DEF Analysed
<1>3. CASE SendOpen(k, id)
  <2>1. PeersOK'
    BY <1>1, <1>3, OpenPeers
  <2>2. Analysed
    BY <1>1, <1>2, <1>3, FramesAre, Zenon DEF SendOpen, MethodOf
  <2> QED
    BY <2>1, <2>2 DEF Typed, Analysed
<1>4. ASSUME NEW p \in Peer, NEW x \in Contents(p), NEW n \in 0 .. MaxBody,
             SendMethod(p, k, id, x, n)
      PROVE  Typed'
  <2>1. PeersOK'
    BY <1>1, <1>4, MethodPeers
  <2>2. OnWire(p, k, id, MethodOf(x)) /\ x \in Deliveries \cup Publishings
    BY <1>4 DEF SendMethod, Contents, MethodOf
  <2>3. Analysed
    BY <1>2, <2>2, FramesAre, Zenon
  <2> QED
    BY <2>1, <2>3 DEF Typed, Analysed
<1>5. ASSUME NEW p \in Peer, SendHeader(p, k, id) PROVE Typed'
  <2>1. PeersOK'
    BY <1>1, <1>5, HeaderPeers
  <2>2. Analysed
    BY <1>1, <1>2, <1>5, HeaderSent, Zenon DEF SendHeader, HeaderOf
  <2> QED
    BY <2>1, <2>2 DEF Typed, Analysed
<1>6. ASSUME NEW p \in Peer, NEW n \in 1 .. MaxBody, SendBody(p, k, id, n) PROVE Typed'
  <2>1. PeersOK'
    BY <1>1, <1>6, BodyPeers
  <2>2. Analysed
    BY <1>1, <1>2, <1>6, BodySent, Zenon DEF SendBody, BodyOf
  <2> QED
    BY <2>1, <2>2 DEF Typed, Analysed
<1>7. ASSUME NEW x \in Deliveries, SendAck(k, id, x) PROVE Typed'
  <2>1. PeersOK'
    BY <1>1, <1>7, AckPeers
  <2>2. Analysed
    BY <1>1, <1>2, <1>7, FramesAre, Zenon DEF SendAck, MethodOf
  <2> QED
    BY <2>1, <2>2 DEF Typed, Analysed
<1> QED
  BY <1>3, <1>4, <1>5, <1>6, <1>7 DEF Send

(* The peers' connections break off: the analyser is told nothing. *)
LEMMA TypedBreak ==
  ASSUME Typed, NEW k \in Conn, Break(k) PROVE Typed'
<1>1. /\ UNCHANGED vars /\ UNCHANGED <<capture, connections, outgoing, size, place, acked, lost>>
      /\ ended' = ended \cup {k} /\ Conn' = Conn /\ Sent' = Sent
  BY SameCapture DEF Break, Sent
<1>2. FullInv'
  BY <1>1, StutterFullInv DEF Typed
<1>3. Numbered'
  BY <1>1 DEF Typed, Numbered
<1>4. PeersOK'
  BY <1>1 DEF Typed, PeersOK, Slots, Stages, Idle
<1>5. (lost \in 0 .. capture.loss)'
  BY <1>1 DEF Typed
<1> QED
  BY <1>2, <1>3, <1>4, <1>5 DEF Typed

(* It is kept when nothing happens. *)
LEMMA TypedStutter == Typed /\ UNCHANGED captureVars => Typed'
<1> SUFFICES ASSUME Typed, UNCHANGED captureVars PROVE Typed'
  OBVIOUS
<1>1. /\ UNCHANGED vars
      /\ UNCHANGED <<capture, connections, ended, outgoing, size, place, acked, lost>>
      /\ Conn' = Conn /\ Sent' = Sent
  BY SameCapture DEF captureVars, Sent
<1>2. FullInv'
  BY <1>1, StutterFullInv DEF Typed
<1>3. Numbered'
  BY <1>1 DEF Typed, Numbered
<1>4. PeersOK'
  BY <1>1 DEF Typed, PeersOK, Slots, Stages, Idle
<1>5. (lost \in 0 .. capture.loss)'
  BY <1>1 DEF Typed
<1> QED
  BY <1>2, <1>3, <1>4, <1>5 DEF Typed

(***************************************************************************)
(* Whatever the capture, and whatever is missing from it: every variable   *)
(* of the analyser and of its peers keeps its type, a Connection is        *)
(* numbered by the port of its client, and all that is proved of Channel   *)
(* for any frames holds for the frames the peers send.                     *)
(***************************************************************************)
THEOREM AlwaysTyped == CaptureSpec => []Typed
<1>1. Typed /\ [CaptureNext]_captureVars => Typed'
  BY TypedSend, TypedBreak, TypedStutter DEF CaptureNext
<1> QED
  BY <1>1, TypedInit, PTL DEF CaptureSpec

(***************************************************************************)
(* Whatever the capture and whatever is missing from it: the channels of   *)
(* the analyser and what is known of its peers are what CaptureTypeOK says.*)
(***************************************************************************)
THEOREM CaptureTypeCorrect == CaptureSpec => []CaptureTypeOK
<1> QED
  BY AlwaysTyped, TypedIs, PTL

-----------------------------------------------------------------------------
(* The endpoints a Connection tells.                                       *)

ChanOf(x) == <<Client(place[x][1]).Port, place[x][2]>>

(* x was sent on channel c by connection j or by one after it on its port. *)
SentAfter(c, j, x) ==
  x \in Sent /\ ChanOf(x) = c /\ j \in Before(place[x][1]) \cup {place[x][1]}

(* The analyser has read the method frame of content x on channel c. *)
IsRead(c, x) == \E n \in DOMAIN wire[c] : IsContentFrame(wire[c][n]) /\ wire[c][n].method = x

(* The Connection of this port was made for connection j. *)
MadeFor(port, j) ==
  /\ Client(j).Port = port /\ Before(j) \subseteq ended /\ connections[port] = Info(j)
  /\ \A c \in Chan, x \in ContentMethod :
       c[1] = port /\ IsRead(c, x) => SentAfter(c, j, x)

Known ==
  /\ \A port \in DOMAIN connections : \E j \in Conn : MadeFor(port, j)
  /\ \A c \in Chan : c[1] \notin DOMAIN connections => wire[c] = <<>>

(* What was sent stays where it was sent. *)
Grows == Sent \subseteq Sent' /\ \A y \in Sent : place'[y] = place[y] /\ size'[y] = size[y]

(* Sending forgets nothing. *)
LEMMA SendGrows ==
  ASSUME Typed, NEW k \in Conn, NEW id \in Id, Send(k, id) PROVE Grows
<1>1. ASSUME UNCHANGED <<size, place>> PROVE Grows
  BY <1>1 DEF Grows, Sent
<1>2. ASSUME NEW x, NEW n, NEW s, size' = Extended(size, x, n), place' = Extended(place, x, s)
      PROVE  Grows
  <2>1. DOMAIN size = Sent /\ DOMAIN place = Sent
    BY DEF Sent, Typed, PeersOK
  <2> QED
    BY <1>2, <2>1 DEF Grows, Extended, Sent
<1> QED
  BY <1>1, <1>2 DEF Send, SendOpen, SendMethod, SendHeader, SendBody, SendAck

(* Nor is it forgotten who had the port first. *)
LEMMA SentAfterGrows ==
  ASSUME Grows, UNCHANGED capture, NEW c, NEW j, NEW x, SentAfter(c, j, x)
  PROVE  SentAfter(c, j, x)'
<1>1. PICK s : s = place[x]
  BY Zenon
<1>2. place'[x] = s /\ x \in Sent'
  BY <1>1 DEF SentAfter, Grows
<1>3. Client(s[1])' = Client(s[1]) /\ Before(s[1])' = Before(s[1])
  BY SameCapture, Zenon
<1>4. ChanOf(x)' = ChanOf(x)
  BY <1>1, <1>2, <1>3 DEF ChanOf, Client
<1>5. Before(place[x][1])' = Before(s[1]) /\ Before(place[x][1]) = Before(s[1])
  BY <1>1, <1>2, <1>3 DEF Before, Client
<1> QED
  BY <1>1, <1>2, <1>4, <1>5 DEF SentAfter

(* At any time, one connection of a port is up at most. *)
LEMMA OneAlive ==
  ASSUME Typed, NEW k \in Conn, Alive(k), NEW j \in Conn, Client(j).Port = Client(k).Port,
         Before(j) \subseteq ended
  PROVE  j \in Before(k) \cup {k}
<1>1. j \in Nat /\ k \in Nat /\ j >= 1 /\ k >= 1
  <2>1. capture.conns \in Seq([client : Endpoint, sends : [Peer -> Nat]])
    BY CaptureAssumption DEF Typed, PeersOK
  <2> QED
    BY <2>1 DEF Conn
<1>2. k \notin ended
  BY DEF Alive
<1>3. ~(k < j)
  <2>1. SUFFICES ASSUME k < j PROVE FALSE
    OBVIOUS
  <2>2. k \in Before(j)
    BY <1>1, <2>1 DEF Before
  <2> QED
    BY <1>2, <2>2
<1>4. j < k => j \in Before(k)
  BY <1>1 DEF Before
<1> QED
  BY <1>1, <1>3, <1>4

(* The frames on the channels before and after a step of the peers. *)
LEMMA WireIs ==
  ASSUME Typed, NEW k \in Conn, NEW id \in Id, NEW f \in Frame, Read(k, id, f) \/ Lost(k)
  PROVE  /\ \A c \in Chan : \A n \in DOMAIN wire'[c] :
              \/ n \in DOMAIN wire[c] /\ wire'[c][n] = wire[c][n]
              \/ c = <<Client(k).Port, id>> /\ wire'[c][n] = f
         /\ \A c \in Chan :
              \/ wire'[c] = wire[c]
              \/ c = <<Client(k).Port, id>> /\ Client(k).Port \in DOMAIN connections'
<1>1. CASE Lost(k)
  BY <1>1 DEF Lost, vars
<1>2. CASE Read(k, id, f)
  <2>1. PICK d \in Chan : d = <<Client(k).Port, id>>
    BY CaptureIs, CaptureAssumption DEF Typed, PeersOK
  <2>2. /\ wire'[d] = Append(wire[d], f) /\ \A c \in Chan \ {d} : wire'[c] = wire[c]
        /\ wire[d] \in Seq(Frame)
    BY <1>2, <2>1, WireStep DEF Read, Typed, FullInv, IInv
  <2>3. Client(k).Port \in DOMAIN connections'
    BY <1>2 DEF Read, Extended
  <2>4. ASSUME NEW c \in Chan, NEW n \in DOMAIN wire'[c]
        PROVE  \/ n \in DOMAIN wire[c] /\ wire'[c][n] = wire[c][n]
               \/ c = d /\ wire'[c][n] = f
    BY <2>2
  <2> QED
    BY <2>1, <2>2, <2>3, <2>4
<1> QED
  BY <1>1, <1>2

(* The Connections before and after it. *)
LEMMA ConnectionsAre ==
  ASSUME NEW k, NEW id, NEW f, Read(k, id, f) \/ Lost(k)
  PROVE  \A port \in DOMAIN connections' :
           \/ port \in DOMAIN connections /\ connections'[port] = connections[port]
           \/ /\ port \notin DOMAIN connections /\ port = Client(k).Port
              /\ connections'[port] = Info(k)
<1>1. PICK q, info : q = Client(k).Port /\ info = Info(k)
  BY Zenon
<1>2. connections' = connections \/ connections' = Extended(connections, q, info)
  BY <1>1 DEF Read, Lost
<1>3. CASE connections' = Extended(connections, q, info)
  <2>1. /\ DOMAIN connections' = DOMAIN connections \cup {q}
        /\ \A y \in DOMAIN connections : connections'[y] = connections[y]
        /\ q \notin DOMAIN connections => connections'[q] = info
    BY <1>3 DEF Extended
  <2> QED
    BY <1>1, <2>1
<1> QED
  BY <1>2, <1>3

(* Connection k puts a frame on channel id. *)
LEMMA KnownWire ==
  ASSUME Typed, Known, Grows, UNCHANGED <<capture, ended>>,
         NEW k \in Conn, NEW id \in Id, Alive(k), NEW f \in Frame,
         Read(k, id, f) \/ Lost(k),
         IsContentFrame(f) => f.method \in Sent' /\ place'[f.method] = <<k, id>>
  PROVE  Known'
<1>1. PICK d \in Chan : d = <<Client(k).Port, id>>
  BY CaptureIs, CaptureAssumption DEF Typed, PeersOK
<1>2. /\ \A c \in Chan : \A n \in DOMAIN wire'[c] :
           \/ n \in DOMAIN wire[c] /\ wire'[c][n] = wire[c][n]
           \/ c = d /\ wire'[c][n] = f
      /\ \A c \in Chan :
           \/ wire'[c] = wire[c]
           \/ c = d /\ Client(k).Port \in DOMAIN connections'
  BY <1>1, WireIs
<1>3. Conn' = Conn /\ \A j : Client(j)' = Client(j) /\ Before(j)' = Before(j)
  BY SameCapture
<1>4. ASSUME NEW j \in Conn, Client(j).Port = Client(k).Port, Before(j) \subseteq ended,
             IsContentFrame(f), NEW x, f.method = x
      PROVE  SentAfter(d, j, x)'
  <2>1. j \in Before(k) \cup {k}
    BY <1>4, OneAlive
  <2>3. x \in Sent' /\ place'[x] = <<k, id>>
    BY <1>4
  <2>4. (place[x][1] = k)' /\ (place[x][2] = id)'
    BY <2>3
  <2>5. (Client(place[x][1]) = Client(k))' /\ (Before(place[x][1]) = Before(k))'
    BY <2>4 DEF Client, Before
  <2>6. (ChanOf(x) = d)'
    BY <1>1, <1>3, <2>4, <2>5 DEF ChanOf
  <2>7. (j \in Before(place[x][1]) \cup {place[x][1]})'
    BY <1>3, <2>1, <2>4, <2>5
  <2> QED
    BY <2>3, <2>6, <2>7 DEF SentAfter
<1>5. ASSUME NEW j \in Conn, NEW port, Client(j).Port = port, Before(j) \subseteq ended,
             connections'[port] = Info(j),
             \A c \in Chan, x \in ContentMethod : c[1] = port /\ IsRead(c, x) => SentAfter(c, j, x)
      PROVE  MadeFor(port, j)'
  <2>1. ASSUME NEW c \in Chan, NEW x \in ContentMethod, c[1] = port, IsRead(c, x)'
        PROVE  SentAfter(c, j, x)'
    <3>1. PICK n \in DOMAIN wire'[c] : IsContentFrame(wire'[c][n]) /\ wire'[c][n].method = x
      BY <2>1 DEF IsRead, IsContentFrame
    <3>2. CASE n \in DOMAIN wire[c] /\ wire'[c][n] = wire[c][n]
      <4>1. IsRead(c, x)
        BY <3>1, <3>2 DEF IsRead
      <4> QED
        BY <1>5, <2>1, <4>1, SentAfterGrows
    <3>3. CASE c = d /\ wire'[c][n] = f
      <4>1. Client(j).Port = Client(k).Port
        BY <1>1, <1>5, <2>1, <3>3
      <4>2. IsContentFrame(f) /\ f.method = x
        BY <3>1, <3>3
      <4> QED
        BY <1>4, <1>5, <3>3, <4>1, <4>2
    <3> QED
      BY <1>2, <3>1, <3>2, <3>3
  <2>2. Info(j)' = Info(j)
    BY <1>3 DEF Info
  <2>3. (Client(j).Port = port)' /\ (Before(j) \subseteq ended)'
    BY <1>3, <1>5
  <2>4. (connections[port] = Info(j))'
    BY <1>5, <2>2
  <2> QED
    BY <2>1, <2>3, <2>4 DEF MadeFor
<1>6. ASSUME NEW port \in DOMAIN connections' PROVE \E j \in Conn : MadeFor(port, j)'
  <2>1. CASE port \in DOMAIN connections /\ connections'[port] = connections[port]
    <3>1. PICK j \in Conn : MadeFor(port, j)
      BY <2>1 DEF Known
    <3>2. MadeFor(port, j)'
      BY <1>5, <2>1, <3>1 DEF MadeFor
    <3> QED
      BY <3>2
  <2>2. CASE /\ port \notin DOMAIN connections /\ port = Client(k).Port
             /\ connections'[port] = Info(k)
    <3>1. \A c \in Chan, x \in ContentMethod : c[1] = port => ~IsRead(c, x)
      BY <2>2 DEF Known, IsRead
    <3>2. MadeFor(port, k)'
      BY <1>5, <2>2, <3>1 DEF Alive
    <3> QED
      BY <3>2
  <2> QED
    BY <2>1, <2>2, ConnectionsAre
<1>7. ASSUME NEW c \in Chan, c[1] \notin DOMAIN connections' PROVE wire'[c] = <<>>
  <2>1. wire'[c] = wire[c]
    BY <1>1, <1>2, <1>7
  <2>2. c[1] \notin DOMAIN connections
    BY <1>7 DEF Read, Lost, Extended
  <2> QED
    BY <2>1, <2>2 DEF Known
<1> QED
  BY <1>3, <1>6, <1>7 DEF Known

(* The step of a peer: what it puts on the wire, and where it sends it.    *)
LEMMA KnownSend ==
  ASSUME Typed, Known, NEW k \in Conn, NEW id \in Id, Send(k, id) PROVE Known'
<1>1. UNCHANGED <<capture, ended>> /\ Alive(k) /\ Grows /\ PeersOK /\ capture \in Captures
      /\ "client" \in Peer
  BY SendGrows DEF Send, Typed, PeersOK, Peer
<1>2. ASSUME NEW p \in Peer, NEW f \in Frame, OnWire(p, k, id, f),
             IsContentFrame(f) => f.method \in Sent' /\ place'[f.method] = <<k, id>>
      PROVE  Known'
  BY <1>1, <1>2, OnWireIs, KnownWire
<1>3. ASSUME NEW x \in PlainMethod, NEW y
      PROVE  ~IsContentFrame(MethodOf(x)) /\ ~IsContentFrame(HeaderOf(y, y)) /\ ~IsContentFrame(BodyOf(y))
  BY ChannelAssumption DEF IsContentFrame, MethodOf, HeaderOf, BodyOf
<1>4. CASE SendOpen(k, id)
  <2>1. OnWire("client", k, id, MethodOf(Open)) /\ Open \in PlainMethod
    BY <1>4, CaptureAssumption DEF SendOpen, MethodOf
  <2> QED
    BY <1>1, <1>2, <1>3, <2>1, FramesAre
<1>5. ASSUME NEW p \in Peer, NEW x \in Contents(p), NEW n \in 0 .. MaxBody,
             SendMethod(p, k, id, x, n)
      PROVE  Known'
  <2>1. OnWire(p, k, id, MethodOf(x)) /\ x \in Deliveries \cup Publishings
    BY <1>5 DEF SendMethod, Contents, MethodOf
  <2>2. MethodOf(x) \in Frame /\ MethodOf(x).method = x
    BY <2>1, FramesAre DEF MethodOf
  <2>3. Sent' = Sent \cup {x} /\ x \notin Sent
    BY <1>1, <1>5, MethodPeers
  <2>4. place'[x] = <<k, id>>
    <3>1. DOMAIN place = Sent
      BY <1>1 DEF PeersOK
    <3> QED
      BY <1>5, <2>3, <3>1 DEF SendMethod, Extended
  <2> QED
    BY <1>2, <2>1, <2>2, <2>3, <2>4
<1>6. ASSUME NEW p \in Peer, SendHeader(p, k, id) PROVE Known'
  <2>1. PICK x, n : x = outgoing[<<p, <<k, id>>>>].content /\ n = size[x]
    BY Zenon
  <2>2. OnWire(p, k, id, HeaderOf(x, n)) /\ HeaderOf(x, n) \in Frame
    BY <1>1, <1>6, <2>1, HeaderSent, Zenon DEF SendHeader, HeaderOf
  <2>3. ~IsContentFrame(HeaderOf(x, n))
    BY DEF IsContentFrame, HeaderOf
  <2> QED
    BY <1>2, <2>2, <2>3
<1>7. ASSUME NEW p \in Peer, NEW n \in 1 .. MaxBody, SendBody(p, k, id, n) PROVE Known'
  <2>1. PICK now : now = outgoing[<<p, <<k, id>>>>]
    BY Zenon
  <2>2. PICK b : b = Body(now.content, now.done, now.done + n)
    BY Zenon
  <2>3. OnWire(p, k, id, BodyOf(b)) /\ BodyOf(b) \in Frame
    BY <1>1, <1>7, <2>1, <2>2, BodySent, Zenon DEF SendBody, BodyOf
  <2>4. ~IsContentFrame(BodyOf(b))
    BY DEF IsContentFrame, BodyOf
  <2> QED
    BY <1>2, <2>3, <2>4
<1>8. ASSUME NEW x \in Deliveries, SendAck(k, id, x) PROVE Known'
  <2>1. OnWire("client", k, id, MethodOf(Ack(x))) /\ Ack(x) \in PlainMethod
    BY <1>8, CaptureAssumption DEF SendAck, MethodOf
  <2> QED
    BY <1>1, <1>2, <1>3, <2>1, FramesAre
<1> QED
  BY <1>4, <1>5, <1>6, <1>7, <1>8 DEF Send

(* Known holds initially. *)
LEMMA KnownInit == CaptureInit => Known
BY DEF CaptureInit, Init, Known

(* So do steps that put nothing on the wire. *)
LEMMA KnownQuiet ==
  ASSUME Known, UNCHANGED <<wire, capture, connections, size, place>>, ended \subseteq ended'
  PROVE  Known'
<1>1. Grows /\ Conn' = Conn /\ \A j : Client(j)' = Client(j) /\ Before(j)' = Before(j)
  BY SameCapture DEF Grows, Sent
<1>2. ASSUME NEW port, NEW j \in Conn, MadeFor(port, j) PROVE MadeFor(port, j)'
  <2>1. \A c \in Chan, x \in ContentMethod : c[1] = port /\ IsRead(c, x)' => SentAfter(c, j, x)'
    BY <1>1, <1>2, SentAfterGrows DEF MadeFor, IsRead
  <2>2. (Client(j).Port = port /\ Before(j) \subseteq ended)'
    BY <1>1, <1>2 DEF MadeFor
  <2>3. (connections[port] = Info(j))'
    BY <1>1, <1>2 DEF MadeFor, Info
  <2> QED
    BY <2>1, <2>2, <2>3 DEF MadeFor
<1> QED
  BY <1>1, <1>2 DEF Known

(* Every step keeps Known. *)
LEMMA KnownStep == Typed /\ Known /\ [CaptureNext]_captureVars => Known'
<1> SUFFICES ASSUME Typed, Known, [CaptureNext]_captureVars PROVE Known'
  OBVIOUS
<1>1. CASE UNCHANGED captureVars
  BY <1>1, KnownQuiet DEF captureVars, vars
<1>2. ASSUME NEW k \in Conn, Break(k) PROVE Known'
  BY <1>2, KnownQuiet DEF Break, vars
<1> QED
  BY <1>1, <1>2, KnownSend DEF CaptureNext

(* A content that is dispatched has been read on its channel. *)
LEMMA DispatchedIsRead ==
  ASSUME Typed, NEW c \in Chan, NEW n \in DOMAIN dispatched[c],
         dispatched[c][n].method \in ContentMethod
  PROVE  IsRead(c, dispatched[c][n].method)
<1>1. PICK d : d = dispatched[c][n]
  BY Zenon
<1>2. /\ d.at <= Len(wire[c])
      /\ \/ \E i \in 1 .. d.at : Spells(wire[c], i, d.at, d.method, d.header, d.body)
         \/ d.at > 0 /\ IsPlainFrame(wire[c][d.at]) /\ wire[c][d.at].method = d.method
  BY <1>1 DEF Typed, FullInv, IInv, DispatchedIsSpelled
<1>3. ~(d.at > 0 /\ IsPlainFrame(wire[c][d.at]) /\ wire[c][d.at].method = d.method)
  BY <1>1, ChannelAssumption DEF IsPlainFrame
<1>4. PICK i \in 1 .. d.at : Spells(wire[c], i, d.at, d.method, d.header, d.body)
  BY <1>2, <1>3
<1>5. IsContentFrame(wire[c][i]) /\ wire[c][i].method = d.method /\ i \in Nat /\ i >= 1
  BY <1>4 DEF Spells
<1>6. d.at \in Nat /\ wire[c] \in Seq(Frame)
  <2>1. dispatched[c] \in Seq(Message) /\ wire[c] \in Seq(Frame)
    BY DEF Typed, FullInv, IInv, TypeOK
  <2>2. d \in Message
    BY <1>1, <2>1
  <2> QED
    BY <2>1, <2>2 DEF Message
<1>7. i \in DOMAIN wire[c]
  BY <1>2, <1>4, <1>6
<1> QED
  BY <1>1, <1>5, <1>7 DEF IsRead

(***************************************************************************)
(* Whatever the capture and whatever is missing from it: the endpoints a   *)
(* Connection tells with a delivery are those of the TCP connection it was *)
(* sent on, unless a client on another host had used the port before.      *)
(***************************************************************************)
THEOREM EndpointsTold == CaptureSpec => []EndpointsAreTrue
<1>1. ASSUME Typed, Known PROVE EndpointsAreTrue
  <2>1. SUFFICES ASSUME NEW c \in Chan, NEW n \in DOMAIN dispatched[c], NEW x, NEW k,
                        x = dispatched[c][n].method, x \in ContentMethod, k = place[x][1],
                        \A j \in Before(k) : Client(j) = Client(k)
                 PROVE  connections[c[1]] = [server |-> Server, client |-> Client(k)]
    BY DEF EndpointsAreTrue
  <2>2. IsRead(c, x)
    BY <1>1, <2>1, DispatchedIsRead
  <2>3. c[1] \in DOMAIN connections
    BY <1>1, <2>2 DEF Known, IsRead
  <2>4. PICK j \in Conn : MadeFor(c[1], j)
    BY <1>1, <2>3 DEF Known
  <2>5. SentAfter(c, j, x) /\ connections[c[1]] = Info(j)
    BY <2>1, <2>2, <2>4 DEF MadeFor
  <2>6. Client(j) = Client(k)
    BY <2>1, <2>5 DEF SentAfter
  <2> QED
    BY <2>5, <2>6 DEF Info
<1> QED
  BY <1>1, AlwaysTyped, KnownInit, KnownStep, PTL DEF CaptureSpec

-----------------------------------------------------------------------------
(* What the peers keep to.                                                 *)

Sender(x) == IF x \in Deliveries THEN "server" ELSE "client"

(* x is a content of p's, sent on channel s and not acknowledged. *)
Own(p, s, x) == x \in Contents(p) /\ x \in Sent /\ place[x] = s /\ x \notin acked

(* Nothing has happened on a connection that is not up yet. *)
NotYet ==
  \A j \in Conn, i \in Id : ~(Before(j) \subseteq ended) =>
    outgoing[<<"client", <<j, i>>>>].stage = "open" /\ outgoing[<<"server", <<j, i>>>>] = Idle

(* A content in progress is one of the peer's own, on that channel. *)
Sends(p, s) ==
  outgoing[<<p, s>>].stage \in {"header", "body"} => Own(p, s, outgoing[<<p, s>>].content)
Sending == \A p \in Peer, s \in Conn \X Id : Sends(p, s)

(* The server sends nothing on a channel still to be opened. *)
OpensFirst ==
  \A s \in Conn \X Id :
    outgoing[<<"client", s>>].stage = "open" => outgoing[<<"server", s>>] = Idle

(* Contents were sent on connections that were up, by peers that send some. *)
SentUp ==
  \A y \in Sent :
    /\ Before(place[y][1]) \subseteq ended
    /\ capture.conns[place[y][1]].sends[Sender(y)] > 0

(* With a prefetch of one, one delivery at most waits for its acknowledgement. *)
OneUnacked ==
  Prefetch <= 1 =>
    \A y, z \in Sent \cap Deliveries :
      place[y] = place[z] /\ y \notin acked /\ z \notin acked => y = z

Orderly ==
  /\ IsFiniteSet(Sent) /\ acked \subseteq Sent
  /\ NotYet /\ Sending /\ OpensFirst /\ SentUp /\ OneUnacked

(* A content has the one sender whose contents it is among. *)
LEMMA SenderIs ==
  /\ \A p \in Peer : \A x \in Contents(p) : Sender(x) = p
  /\ \A x \in Deliveries \cup Publishings : Sender(x) \in Peer /\ x \in Contents(Sender(x))
BY CaptureAssumption DEF Peer, Contents, Sender

(* Orderly holds initially. *)
LEMMA OrderlyInit == CaptureInit => Orderly
<1> SUFFICES ASSUME CaptureInit PROVE Orderly
  OBVIOUS
<1>1. Sent = {} /\ acked = {} /\ ended = {}
  BY DEF CaptureInit, Sent
<1>2. IsFiniteSet(Sent)
  BY <1>1, FS_EmptySet
<1>3. \A p \in Peer, s \in Conn \X Id : outgoing[<<p, s>>] =
        IF p = "client" /\ Before(s[1]) # {} THEN [stage |-> "open"] ELSE Idle
  BY DEF CaptureInit
<1>4. Idle.stage = "idle"
  BY DEF Idle
<1>5. NotYet
  <2>1. SUFFICES ASSUME NEW j \in Conn, NEW i \in Id, ~(Before(j) \subseteq ended)
        PROVE  /\ outgoing[<<"client", <<j, i>>>>].stage = "open"
               /\ outgoing[<<"server", <<j, i>>>>] = Idle
    BY DEF NotYet
  <2>2. PICK s \in Conn \X Id : s = <<j, i>>
    OBVIOUS
  <2>3. Before(s[1]) # {}
    BY <1>1, <2>1, <2>2
  <2> QED
    BY <1>3, <2>2, <2>3 DEF Peer
<1>6. Sending
  BY <1>3, <1>4 DEF Sending, Sends
<1>7. OpensFirst
  BY <1>3 DEF OpensFirst, Peer
<1>8. SentUp /\ OneUnacked
  BY <1>1 DEF SentUp, OneUnacked
<1> QED
  BY <1>1, <1>2, <1>5, <1>6, <1>7, <1>8 DEF Orderly

(* A peer goes on to v on channel s. *)
LEMMA OrderlySlot ==
  ASSUME Typed, Orderly, Grows, UNCHANGED <<capture, ended, acked>>,
         NEW p \in Peer, NEW k \in Conn, NEW i \in Id, Alive(k), NEW s, s = <<k, i>>,
         NEW v, outgoing' = [outgoing EXCEPT ![<<p, s>>] = v],
         v.stage # "open", v.stage \in {"header", "body"} => Own(p, s, v.content)',
         p = "server" /\ outgoing[<<"client", s>>].stage = "open" => v = Idle
  PROVE  NotYet' /\ Sending' /\ OpensFirst'
<1>1. Conn' = Conn /\ \A j : Before(j)' = Before(j)
  BY SameCapture
<1>2. outgoing \in [Slots -> Stages(Sent)] /\ s \in Conn \X Id
  BY DEF Typed, PeersOK
<1>3. PICK q \in Slots : q = <<p, s>>
  BY <1>2 DEF Slots
<1>4. outgoing'[q] = v /\ \A r \in Slots \ {q} : outgoing'[r] = outgoing[r]
  BY <1>2, <1>3
<1>5. NotYet'
  <2>1. SUFFICES ASSUME NEW j \in Conn, NEW m \in Id, ~(Before(j) \subseteq ended)
        PROVE  /\ outgoing'[<<"client", <<j, m>>>>].stage = "open"
               /\ outgoing'[<<"server", <<j, m>>>>] = Idle
    BY <1>1 DEF NotYet, Idle
  <2>2. j # k
    BY <2>1 DEF Alive
  <2>3. /\ <<"client", <<j, m>>>> \in Slots \ {q}
        /\ <<"server", <<j, m>>>> \in Slots \ {q}
    BY <1>3, <2>2 DEF Slots, Peer
  <2>4. /\ outgoing'[<<"client", <<j, m>>>>] = outgoing[<<"client", <<j, m>>>>]
        /\ outgoing'[<<"server", <<j, m>>>>] = outgoing[<<"server", <<j, m>>>>]
    BY <1>4, <2>3
  <2> QED
    BY <2>1, <2>4 DEF Orderly, NotYet
<1>6. Sending'
  <2>0. SUFFICES ASSUME NEW a \in Peer, NEW t \in Conn \X Id PROVE Sends(a, t)'
    BY <1>1 DEF Sending
  <2>1. SUFFICES ASSUME NEW x, x = outgoing'[<<a, t>>].content,
                        outgoing'[<<a, t>>].stage \in {"header", "body"}
                 PROVE  Own(a, t, x)'
    BY DEF Sends, Own
  <2>2. CASE <<a, t>> = q
    <3>1. x = v.content /\ v.stage \in {"header", "body"} /\ a = p /\ t = s
      BY <1>3, <1>4, <2>1, <2>2
    <3> QED
      BY <3>1
  <2>3. CASE <<a, t>> # q
    <3>1. outgoing'[<<a, t>>] = outgoing[<<a, t>>]
      BY <1>4, <2>3 DEF Slots
    <3>2. Own(a, t, x)
      BY <2>1, <3>1 DEF Orderly, Sending, Sends
    <3> QED
      BY <3>2 DEF Own, Grows, Contents
  <2> QED
    BY <2>2, <2>3
<1>7. OpensFirst'
  <2>1. SUFFICES ASSUME NEW t \in Conn \X Id, outgoing'[<<"client", t>>].stage = "open"
        PROVE  outgoing'[<<"server", t>>] = Idle
    BY <1>1 DEF OpensFirst, Idle
  <2>2. <<"client", t>> # q
    BY <1>4, <2>1
  <2>3. outgoing'[<<"client", t>>] = outgoing[<<"client", t>>]
    BY <1>4, <2>2 DEF Slots, Peer
  <2>4. outgoing[<<"server", t>>] = Idle
    BY <2>1, <2>3 DEF Orderly, OpensFirst
  <2>5. CASE <<"server", t>> = q
    <3>1. p = "server" /\ s = t
      BY <1>3, <2>5
    <3> QED
      BY <1>4, <2>1, <2>3, <2>5, <3>1
  <2>6. CASE <<"server", t>> # q
    BY <1>4, <2>4, <2>6 DEF Slots, Peer
  <2> QED
    BY <2>5, <2>6
<1> QED
  BY <1>5, <1>6, <1>7

(* Connections that were up have been up. *)
LEMMA SentUpGrows ==
  ASSUME Orderly, Grows, UNCHANGED <<capture, ended>>, NEW y \in Sent
  PROVE  (Before(place[y][1]) \subseteq ended /\ capture.conns[place[y][1]].sends[Sender(y)] > 0)'
<1>1. PICK s : s = place[y]
  BY Zenon
<1>2. place'[y] = s /\ y \in Sent'
  BY <1>1 DEF Grows
<1>3. Before(s[1]) \subseteq ended /\ capture.conns[s[1]].sends[Sender(y)] > 0
  BY <1>1 DEF Orderly, SentUp
<1>4. Before(s[1])' = Before(s[1])
  BY SameCapture, Zenon
<1>5. Before(place[y][1])' = Before(s[1])
  BY <1>2, <1>4 DEF Before, Client
<1> QED
  BY <1>2, <1>3, <1>5 DEF Sender

(* Nothing new is sent: the parts of Orderly about contents. *)
LEMMA OrderlySame ==
  ASSUME Typed, Orderly, Grows, Sent' = Sent, UNCHANGED <<capture, ended>>,
         acked \subseteq acked', acked' \subseteq Sent
  PROVE  IsFiniteSet(Sent)' /\ (acked \subseteq Sent)' /\ SentUp' /\ OneUnacked'
<1>1. SentUp'
  BY SentUpGrows DEF SentUp
<1>2. OneUnacked'
  BY DEF Orderly, OneUnacked, Grows
<1> QED
  BY <1>1, <1>2 DEF Orderly

(* Something new is sent. *)
LEMMA OrderlyMethod ==
  ASSUME Typed, Orderly, NEW p \in Peer, NEW k \in Conn, NEW id \in Id, Alive(k), Grows,
         NEW x \in Contents(p), NEW n \in 0 .. MaxBody,
         SendMethod(p, k, id, x, n), UNCHANGED <<capture, ended>>
  PROVE  Orderly'
<1>1. Sent' = Sent \cup {x} /\ x \notin Sent /\ acked' = acked
  BY MethodPeers DEF Typed, SendMethod
<1>2. PICK s \in Conn \X Id : s = <<k, id>>
  OBVIOUS
<1>3. place'[x] = s
  <2>1. DOMAIN place = Sent
    BY DEF Typed, PeersOK
  <2> QED
    BY <1>1, <1>2, <2>1 DEF SendMethod, Extended
<1>4. IsFiniteSet(Sent) /\ acked \subseteq Sent /\ IsFiniteSet(Sent)'
  BY <1>1, FS_AddElement DEF Orderly
<1>5. PICK v : v = [stage |-> "header", content |-> x]
  BY Zenon
<1>6. outgoing' = [outgoing EXCEPT ![<<p, s>>] = v] /\ outgoing[<<p, s>>] = Idle
  BY <1>2, <1>5, Zenon DEF SendMethod
<1>7. MaySend(p, s) /\ Cardinality(SentBy(p, k)) < capture.conns[k].sends[p]
  BY <1>2, Zenon DEF SendMethod
<1>8. NotYet' /\ Sending' /\ OpensFirst'
  <2>1. Own(p, s, v.content)'
    BY <1>1, <1>3, <1>4, <1>5 DEF Own, Contents
  <2>2. ~(p = "server" /\ outgoing[<<"client", s>>].stage = "open")
    BY <1>7 DEF MaySend
  <2>3. v.stage # "open"
    BY <1>5
  <2> QED
    BY <1>1, <1>2, <1>6, <2>1, <2>2, <2>3, OrderlySlot
<1>9. SentUp'
  <2>1. Cardinality(SentBy(p, k)) \in Nat
    <3>1. IsFiniteSet(SentBy(p, k))
      BY <1>4, FS_Subset DEF SentBy
    <3> QED
      BY <3>1, FS_CardinalityType
  <2>2. capture.conns[k].sends[p] > 0
    <3>1. capture.conns[k].sends[p] \in Nat
      BY CaptureIs DEF Typed, PeersOK
    <3> QED
      BY <1>7, <2>1, <3>1
  <2>3. Sender(x) = p
    BY SenderIs
  <2>4. Before(k)' = Before(k) /\ Before(k) \subseteq ended
    BY SameCapture DEF Alive
  <2>5. (place[x][1] = k)'
    BY <1>2, <1>3
  <2>6. (Before(place[x][1]) \subseteq ended)'
    BY <2>4, <2>5 DEF Before, Client
  <2>7. (capture.conns[place[x][1]].sends[Sender(x)] > 0)'
    BY <2>2, <2>3, <2>5 DEF Sender
  <2> QED
    BY <1>1, <2>6, <2>7, SentUpGrows DEF SentUp
<1>10. OneUnacked'
  <2>1. SUFFICES ASSUME Prefetch <= 1, NEW y \in Sent' \cap Deliveries, NEW z \in Sent' \cap Deliveries,
                        place'[y] = place'[z], y \notin acked, z \notin acked
                 PROVE  y = z
    BY <1>1 DEF OneUnacked
  <2> DEFINE Unacked == {d \in Sent \cap Deliveries : place[d] = s /\ d \notin acked}
  <2>2. x \in Deliveries => Unacked = {}
    <3>1. SUFFICES ASSUME x \in Deliveries PROVE Unacked = {}
      OBVIOUS
    <3>2. p = "server"
      BY <3>1, CaptureAssumption DEF Contents
    <3>3. Cardinality(Unacked) < Prefetch
      BY <1>7, <3>2, Zenon DEF MaySend
    <3>4. IsFiniteSet(Unacked)
      BY <1>4, FS_Subset
    <3>5. Cardinality(Unacked) = 0
      <4>1. Cardinality(Unacked) \in Nat
        BY <3>4, FS_CardinalityType
      <4> HIDE DEF Unacked
      <4> QED
        BY <2>1, <3>3, <4>1, CaptureAssumption
    <3> QED
      BY <3>4, <3>5, FS_EmptySet
  <2>3. \A w \in Sent : place'[w] = place[w]
    BY DEF Grows
  <2>4. CASE y = x \/ z = x
    BY <1>1, <1>3, <2>1, <2>2, <2>3, <2>4
  <2>5. CASE y # x /\ z # x
    BY <1>1, <2>1, <2>3, <2>5 DEF Orderly, OneUnacked
  <2> QED
    BY <2>4, <2>5
<1> QED
  BY <1>1, <1>4, <1>8, <1>9, <1>10 DEF Orderly

(* What the peers send keeps Orderly. *)
LEMMA OrderlySend ==
  ASSUME Typed, Orderly, NEW k \in Conn, NEW id \in Id, Send(k, id) PROVE Orderly'
<1>1. UNCHANGED <<capture, ended>> /\ Alive(k) /\ Grows /\ PeersOK /\ acked \subseteq Sent
  BY SendGrows DEF Send, Typed, Orderly
<1>2. PICK s \in Conn \X Id : s = <<k, id>>
  OBVIOUS
<1>3. ASSUME NEW p \in Peer, NEW v, UNCHANGED <<size, place, acked>>,
             outgoing' = [outgoing EXCEPT ![<<p, s>>] = v],
             v.stage # "open", v.stage \in {"header", "body"} => Own(p, s, v.content),
             p = "server" /\ outgoing[<<"client", s>>].stage = "open" => v = Idle
      PROVE  Orderly'
  <2>1. Sent' = Sent
    BY <1>3 DEF Sent
  <2>2. v.stage \in {"header", "body"} => Own(p, s, v.content)'
    BY <1>3, <2>1 DEF Own, Contents
  <2>3. NotYet' /\ Sending' /\ OpensFirst'
    BY <1>1, <1>2, <1>3, <2>2, OrderlySlot
  <2> QED
    BY <1>1, <1>3, <2>1, <2>3, OrderlySame DEF Orderly
<1>4. ASSUME NEW p \in Peer, outgoing[<<p, s>>].stage \in {"header", "body"}
      PROVE  /\ Own(p, s, outgoing[<<p, s>>].content)
             /\ ~(p = "server" /\ outgoing[<<"client", s>>].stage = "open")
  BY <1>4 DEF Orderly, Sending, Sends, OpensFirst, Idle
<1>5. CASE SendOpen(k, id)
  <2>1. /\ UNCHANGED <<size, place, acked>> /\ outgoing' = [outgoing EXCEPT ![<<"client", s>>] = Idle]
        /\ "client" \in Peer /\ Idle.stage = "idle"
    BY <1>2, <1>5 DEF SendOpen, Peer, Idle
  <2> QED
    BY <1>3, <2>1
<1>6. ASSUME NEW p \in Peer, SendHeader(p, k, id) PROVE Orderly'
  <2>1. PICK now : now = outgoing[<<p, s>>]
    BY Zenon
  <2>2. PICK v : v = IF size[now.content] = 0 THEN Idle
                     ELSE [stage |-> "body", content |-> now.content, done |-> 0]
    BY Zenon
  <2>3. /\ now.stage = "header" /\ UNCHANGED <<size, place, acked>>
        /\ outgoing' = [outgoing EXCEPT ![<<p, s>>] = v]
    BY <1>2, <1>6, <2>1, <2>2, Zenon DEF SendHeader
  <2>4. v.stage # "open" /\ (v.stage \in {"header", "body"} => v.content = now.content)
    BY <2>2 DEF Idle
  <2> QED
    BY <1>3, <1>4, <2>1, <2>3, <2>4
<1>7. ASSUME NEW p \in Peer, NEW n \in 1 .. MaxBody, SendBody(p, k, id, n) PROVE Orderly'
  <2>1. PICK now : now = outgoing[<<p, s>>]
    BY Zenon
  <2>2. PICK v : v = IF now.done + n = size[now.content] THEN Idle ELSE [now EXCEPT !.done = @ + n]
    BY Zenon
  <2>3. /\ now.stage = "body" /\ UNCHANGED <<size, place, acked>>
        /\ outgoing' = [outgoing EXCEPT ![<<p, s>>] = v]
    BY <1>2, <1>7, <2>1, <2>2, Zenon DEF SendBody
  <2>4. now \in Stages(Sent)
    BY <1>1, <2>1 DEF PeersOK, Slots
  <2>5. now = [stage |-> "body", content |-> now.content, done |-> now.done]
    BY <2>3, <2>4, StageIs
  <2>6. v.stage # "open" /\ (v.stage \in {"header", "body"} => v.content = now.content)
    BY <2>2, <2>5 DEF Idle
  <2> QED
    BY <1>3, <1>4, <2>1, <2>3, <2>6
<1>8. ASSUME NEW x \in Deliveries, SendAck(k, id, x) PROVE Orderly'
  <2>1. /\ UNCHANGED <<outgoing, size, place>> /\ acked' = acked \cup {x}
        /\ x \in Sent \cap Deliveries /\ place[x] = s
        /\ outgoing[<<"server", s>>].stage # "idle" => outgoing[<<"server", s>>].content # x
    BY <1>2, <1>8 DEF SendAck
  <2>2. Sent' = Sent /\ Conn' = Conn /\ \A j : Before(j)' = Before(j)
    BY <1>1, <2>1, SameCapture DEF Sent
  <2>3. NotYet' /\ OpensFirst'
    BY <1>1, <2>1, <2>2 DEF Orderly, NotYet, OpensFirst, Idle
  <2>4. Sending'
    <3>0. SUFFICES ASSUME NEW a \in Peer, NEW t \in Conn \X Id PROVE Sends(a, t)'
      BY <2>2 DEF Sending
    <3>1. SUFFICES ASSUME NEW y, y = outgoing[<<a, t>>].content,
                          outgoing[<<a, t>>].stage \in {"header", "body"}
                   PROVE  Own(a, t, y)'
      BY <2>1, <2>2 DEF Sends, Own
    <3>2. Own(a, t, y)
      BY <3>1 DEF Orderly, Sending, Sends
    <3>3. y # x
      <4>1. SUFFICES ASSUME y = x PROVE FALSE
        OBVIOUS
      <4>2. a = "server" /\ t = s
        BY <2>1, <3>2, <4>1, CaptureAssumption DEF Own, Contents
      <4> QED
        BY <2>1, <3>1, <4>1, <4>2
    <3> QED
      BY <2>1, <2>2, <3>2, <3>3 DEF Own, Contents
  <2> QED
    BY <1>1, <2>1, <2>2, <2>3, <2>4, OrderlySame DEF Orderly
<1> QED
  BY <1>1, <1>5, <1>6, <1>7, <1>8, OrderlyMethod DEF Send

(* So do steps in which nothing is sent. *)
LEMMA OrderlyQuiet ==
  ASSUME Typed, Orderly, UNCHANGED <<capture, outgoing, size, place, acked>>, ended \subseteq ended'
  PROVE  Orderly'
<1>1. Sent' = Sent /\ Conn' = Conn /\ \A j : Before(j)' = Before(j)
  BY SameCapture DEF Sent
<1>2. NotYet'
  BY <1>1 DEF Orderly, NotYet, Idle
<1>3. Sending' /\ OpensFirst' /\ OneUnacked'
  BY <1>1 DEF Orderly, Sending, Sends, Own, Contents, OpensFirst, Idle, OneUnacked
<1>4. SentUp'
  <2>1. ASSUME NEW y \in Sent PROVE (Before(place[y][1]) \subseteq ended)'
    <3>1. Before(place[y][1])' = Before(place[y][1])
      BY DEF Before, Client
    <3> QED
      BY <3>1 DEF Orderly, SentUp
  <2>2. ASSUME NEW y \in Sent PROVE (capture.conns[place[y][1]].sends[Sender(y)] > 0)'
    BY DEF Orderly, SentUp, Sender
  <2> QED
    BY <1>1, <2>1, <2>2 DEF SentUp
<1> QED
  BY <1>1, <1>2, <1>3, <1>4 DEF Orderly

(* Every step keeps Orderly. *)
LEMMA OrderlyStep == Typed /\ Orderly /\ [CaptureNext]_captureVars => Orderly'
<1> SUFFICES ASSUME Typed, Orderly, [CaptureNext]_captureVars PROVE Orderly'
  OBVIOUS
<1>1. CASE UNCHANGED captureVars
  BY <1>1, OrderlyQuiet DEF captureVars
<1>2. ASSUME NEW k \in Conn, Break(k) PROVE Orderly'
  BY <1>2, OrderlyQuiet DEF Break
<1> QED
  BY <1>1, <1>2, OrderlySend DEF CaptureNext

-----------------------------------------------------------------------------
(* What a frame does to the channel it is read on.                         *)

(* A method that carries content: the channel awaits its header. *)
LEMMA MethodRead ==
  ASSUME Typed, NEW c \in Chan, NEW x \in ContentMethod, Demux(c, MethodOf(x))
  PROVE  /\ recv'[c] = "recvHeader" /\ message'[c] = x /\ panicked' = FALSE
         /\ dispatched' = dispatched
<1>1. TypeOK /\ panicked = FALSE
  BY DEF Typed, FullInv, IInv, Demux, TypeOK
<1>2. PICK f : f = MethodOf(x)
  BY Zenon
<1>3. f.kind = "method" /\ f.method = x /\ x \notin PlainMethod
  BY <1>2, ChannelAssumption DEF MethodOf
<1>4. BeginContent(c, f)
  BY <1>2, <1>3 DEF Demux, RecvMethod, RecvHeader, RecvContent, HandleMethod, HandlePlain
<1> QED
  BY <1>1, <1>3, <1>4 DEF BeginContent, Transition, TypeOK

(* Any other method: it is dispatched. *)
LEMMA PlainRead ==
  ASSUME Typed, NEW c \in Chan, NEW x \in PlainMethod, Demux(c, MethodOf(x))
  PROVE  /\ recv'[c] = "recvMethod" /\ panicked' = FALSE
         /\ \E d : dispatched'[c] = Append(dispatched[c], d) /\ d.method = x
<1>1. TypeOK /\ panicked = FALSE
  BY DEF Typed, FullInv, IInv, Demux, TypeOK
<1>2. PICK f : f = MethodOf(x)
  BY Zenon
<1>3. f.kind = "method" /\ f.method = x /\ x \notin ContentMethod
  BY <1>2, ChannelAssumption DEF MethodOf
<1>4. HandlePlain(c, f)
  BY <1>2, <1>3 DEF Demux, RecvMethod, RecvHeader, RecvContent, HandleMethod, BeginContent
<1>5. PICK d : d = [method |-> x, header |-> NoHeader, body |-> <<>>, at |-> Len(wire[c]) + 1]
  BY Zenon
<1>6. dispatched' = [dispatched EXCEPT ![c] = Append(@, d)]
  BY <1>3, <1>4, <1>5, Zenon DEF HandlePlain, Dispatch
<1>7. dispatched'[c] = Append(dispatched[c], d) /\ d.method = x
  BY <1>1, <1>5, <1>6 DEF TypeOK
<1>8. recv'[c] = "recvMethod" /\ panicked' = FALSE
  BY <1>1, <1>4 DEF HandlePlain, Transition, TypeOK
<1> QED
  BY <1>7, <1>8

HeaderEffect(c, f) ==
  \/ recv[c] # "recvHeader" /\ recv'[c] = "recvMethod" /\ dispatched' = dispatched
  \/ /\ recv[c] = "recvHeader" /\ f.size = 0 /\ recv'[c] = "recvMethod"
     /\ \E d : /\ dispatched'[c] = Append(dispatched[c], d)
               /\ d.method = message[c] /\ d.header = f /\ d.body = <<>>
  \/ /\ recv[c] = "recvHeader" /\ f.size > 0 /\ recv'[c] = "recvContent"
     /\ message'[c] = message[c] /\ header'[c] = f /\ body'[c] = <<>>
     /\ dispatched' = dispatched

(* A header where none is awaited is dropped. *)
LEMMA HeaderRead ==
  ASSUME Typed, NEW c \in Chan, NEW f \in HeaderFrame, Demux(c, f)
  PROVE  HeaderEffect(c, f) /\ panicked' = FALSE
<1>1. TypeOK /\ panicked = FALSE /\ HandlerKnowsPlace
  BY DEF Typed, FullInv, IInv, Demux, TypeOK
<1>2. f.kind = "header" /\ f.size \in Nat
  BY DEF HeaderFrame
<1>3. ~HandleMethod(c, f)
  BY <1>2 DEF HandleMethod, BeginContent, HandlePlain
<1>4. CASE recv[c] # "recvHeader"
  <2>1. Drop(c)
    BY <1>2, <1>3, <1>4 DEF Demux, RecvMethod, RecvContent
  <2> QED
    BY <1>1, <1>4, <2>1 DEF Drop, Transition, TypeOK, HeaderEffect
<1>5. CASE recv[c] = "recvHeader" /\ f.size = 0
  <2>1. /\ Dispatch(c, message[c], f, body[c]) /\ Transition(c, "recvMethod") /\ panicked' = panicked
    BY <1>2, <1>3, <1>5 DEF Demux, RecvHeader
  <2>2. body[c] = <<>>
    BY <1>1, <1>5 DEF HandlerKnowsPlace
  <2>3. PICK d : d = [method |-> message[c], header |-> f, body |-> body[c], at |-> Len(wire[c]) + 1]
    BY Zenon
  <2>4. dispatched' = [dispatched EXCEPT ![c] = Append(@, d)]
    BY <2>1, <2>3, Zenon DEF Dispatch
  <2>5. dispatched'[c] = Append(dispatched[c], d)
    BY <1>1, <2>4 DEF TypeOK
  <2>6. d.method = message[c] /\ d.header = f /\ d.body = <<>>
    BY <2>2, <2>3
  <2>7. recv'[c] = "recvMethod" /\ panicked' = FALSE
    BY <1>1, <2>1 DEF Transition, TypeOK
  <2> QED
    BY <1>5, <2>5, <2>6, <2>7 DEF HeaderEffect
<1>6. CASE recv[c] = "recvHeader" /\ f.size > 0
  <2>1. /\ header' = [header EXCEPT ![c] = f] /\ Transition(c, "recvContent")
        /\ UNCHANGED <<message, body, panicked, dispatched>>
    BY <1>2, <1>3, <1>6 DEF Demux, RecvHeader
  <2>2. body[c] = <<>>
    BY <1>1, <1>6 DEF HandlerKnowsPlace
  <2> QED
    BY <1>1, <1>6, <2>1, <2>2 DEF Transition, TypeOK, HeaderEffect
<1>7. f.size = 0 \/ f.size > 0
  BY <1>2
<1> QED
  BY <1>4, <1>5, <1>6, <1>7

BodyEffect(c, g) ==
  \/ recv[c] # "recvContent" /\ recv'[c] = "recvMethod" /\ dispatched' = dispatched /\ panicked' = FALSE
  \/ recv[c] = "recvContent" /\ header[c].size > MaxSlice /\ dispatched' = dispatched /\ panicked' = TRUE
  \/ /\ recv[c] = "recvContent" /\ Len(g) >= header[c].size /\ recv'[c] = "recvMethod"
     /\ \E d : /\ dispatched'[c] = Append(dispatched[c], d)
               /\ d.method = message[c] /\ d.header = header[c] /\ d.body = g
     /\ panicked' = FALSE
  \/ /\ recv[c] = "recvContent" /\ ~(Len(g) >= header[c].size) /\ recv'[c] = "recvContent"
     /\ message'[c] = message[c] /\ header'[c] = header[c] /\ body'[c] = g
     /\ dispatched' = dispatched /\ panicked' = FALSE

(* A body where none is awaited is dropped. *)
LEMMA BodyRead ==
  ASSUME Typed, NEW c \in Chan, NEW f \in BodyFrame, Demux(c, f), NEW g, g = body[c] \o f.body
  PROVE  BodyEffect(c, g)
<1>1. TypeOK /\ panicked = FALSE
  BY DEF Typed, FullInv, IInv, Demux, TypeOK
<1>2. f.kind = "body"
  BY DEF BodyFrame
<1>3. ~HandleMethod(c, f)
  BY <1>2 DEF HandleMethod, BeginContent, HandlePlain
<1>4. CASE recv[c] # "recvContent"
  <2>1. Drop(c)
    BY <1>2, <1>3, <1>4 DEF Demux, RecvMethod, RecvHeader
  <2> QED
    BY <1>1, <1>4, <2>1 DEF Drop, Transition, TypeOK, BodyEffect
<1>5. CASE recv[c] = "recvContent" /\ CannotAllocate(c)
  <2>1. Panic
    BY <1>2, <1>3, <1>5 DEF Demux, RecvContent
  <2> QED
    BY <1>5, <2>1 DEF Panic, CannotAllocate, BodyEffect
<1>6. CASE recv[c] = "recvContent" /\ ~CannotAllocate(c)
  <2>1. /\ body' = [body EXCEPT ![c] = g] /\ UNCHANGED <<message, header, panicked>>
        /\ \/ Complete(c, g) /\ Dispatch(c, message[c], header[c], g) /\ Transition(c, "recvMethod")
           \/ ~Complete(c, g) /\ Transition(c, "recvContent") /\ dispatched' = dispatched
    BY <1>2, <1>3, <1>6 DEF Demux, RecvContent
  <2>2. CASE Complete(c, g)
    <3>1. PICK d : d = [method |-> message[c], header |-> header[c], body |-> g, at |-> Len(wire[c]) + 1]
      BY Zenon
    <3>2. dispatched' = [dispatched EXCEPT ![c] = Append(@, d)] /\ Transition(c, "recvMethod")
      BY <2>1, <2>2, <3>1, Zenon DEF Dispatch
    <3>3. dispatched'[c] = Append(dispatched[c], d)
      BY <1>1, <3>2 DEF TypeOK
    <3>4. d.method = message[c] /\ d.header = header[c] /\ d.body = g
      BY <3>1
    <3>5. recv'[c] = "recvMethod" /\ panicked' = FALSE /\ Len(g) >= header[c].size
      BY <1>1, <2>1, <2>2, <3>2 DEF Transition, TypeOK, Complete
    <3> QED
      BY <1>6, <3>3, <3>4, <3>5 DEF BodyEffect
  <2>3. CASE ~Complete(c, g)
    BY <1>1, <1>6, <2>1, <2>3 DEF Transition, TypeOK, Complete, BodyEffect
  <2> QED
    BY <2>2, <2>3
<1> QED
  BY <1>4, <1>5, <1>6

-----------------------------------------------------------------------------
(* The content a channel is gathering.                                     *)

(* On each connection one peer at most sends contents. *)
OneWay(x) == \A k \in DOMAIN x.conns : \E p \in Peer : x.conns[k].sends[p] = 0

(* What sender x of a content is doing on its channel. *)
Now(x) == outgoing[<<Sender(x), place[x]>>]

(* The analyser has read every frame of x so far. *)
Aligned(c, x) ==
  \/ Now(x) = [stage |-> "header", content |-> x] /\ recv[c] = "recvHeader"
  \/ /\ Now(x).stage = "body" /\ Now(x).content = x
     /\ recv[c] = "recvContent" /\ header[c] = HeaderOf(x, size[x])
     /\ body[c] = Body(x, 0, Now(x).done)

(* Frames of x are missing: what has been gathered will not become complete. *)
Astray(c, x) ==
  /\ lost >= 1 /\ (x \in acked => lost >= 2)
  /\ \/ Now(x) = Idle /\ (recv[c] = "recvContent" => Len(body[c]) < size[x])
     \/ /\ Now(x).stage = "body" /\ Now(x).content = x
        /\ recv[c] = "recvContent" => Len(body[c]) < Now(x).done
  /\ recv[c] = "recvContent" => header[c] = HeaderOf(x, size[x])

(* The connection of x broke off: one after it starts by opening the channel. *)
Broken(c, x) ==
  \A j \in Conn : place[x][1] \in Before(j) /\ j \notin ended =>
    /\ \A p \in Peer : outgoing[<<p, <<j, c[2]>>>>].stage \in {"idle", "open"}
    /\ outgoing[<<"client", <<j, c[2]>>>>].stage = "idle" => lost >= 1

Pends(c, x) ==
  /\ x \in Sent /\ ChanOf(x) = c
  /\ \/ place[x][1] \notin ended /\ Aligned(c, x) /\ x \notin acked
     \/ place[x][1] \notin ended /\ Astray(c, x)
     \/ place[x][1] \in ended /\ Broken(c, x)

Pending ==
  ~panicked => \A c \in Chan, x \in ContentMethod :
    recv[c] # "recvMethod" /\ message[c] = x => Pends(c, x)

(* The content a peer is sending is the only one the channel can be        *)
(* gathering from this connection.                                         *)
LEMMA SameSender ==
  ASSUME Typed, Orderly, OneWay(capture), NEW k \in Conn, NEW p \in Peer,
         capture.conns[k].sends[p] > 0, NEW y \in Sent, place[y][1] = k
  PROVE  Sender(y) = p
<1>1. PICK q \in Peer : capture.conns[k].sends[q] = 0
  BY DEF OneWay, Conn
<1>2. capture.conns[k].sends[Sender(y)] > 0 /\ Sender(y) \in Peer
  BY SenderIs DEF Orderly, SentUp, Typed, PeersOK
<1>3. Sender(y) # q /\ p # q
  BY <1>1, <1>2
<1> QED
  BY <1>2, <1>3 DEF Peer

(* What p is sending on channel s. *)
LEMMA CurrentIs ==
  ASSUME Typed, Orderly, NEW p \in Peer, NEW s \in Conn \X Id,
         NEW now, now = outgoing[<<p, s>>], now.stage \in {"header", "body"},
         NEW x, x = now.content
  PROVE  /\ x \in Sent /\ x \in Contents(p) /\ place[x] = s /\ x \notin acked /\ Now(x) = now
         /\ Sender(x) = p /\ capture.conns[s[1]].sends[p] > 0
         /\ x \in ContentMethod /\ x \in Deliveries \cup Publishings
         /\ now \in Stages(Sent)
<1>1. Own(p, s, x)
  BY DEF Orderly, Sending, Sends
<1>2. Sender(x) = p
  BY <1>1, SenderIs DEF Own
<1>3. capture.conns[s[1]].sends[p] > 0
  BY <1>1, <1>2 DEF Orderly, SentUp, Own
<1>4. x \in Deliveries \cup Publishings /\ x \in ContentMethod
  BY <1>1, CaptureAssumption DEF Own, Contents
<1>5. now \in Stages(Sent)
  BY DEF Typed, PeersOK, Slots
<1> QED
  BY <1>1, <1>2, <1>3, <1>4, <1>5 DEF Own, Now

(* A pair is made of its components. *)
LEMMA PairIs ==
  ASSUME NEW S, NEW T, NEW t \in S \X T PROVE t = <<t[1], t[2]>>
OBVIOUS

(* The channel of the frame is gathering x, of this connection or of one   *)
(* that broke off.                                                         *)
LEMMA HereIs ==
  ASSUME Typed, Orderly, NEW k \in Conn, NEW id \in Id, Alive(k),
         NEW c, c = <<Client(k).Port, id>>, NEW x, Pends(c, x)
  PROVE  \/ place[x] = <<k, id>> /\ ((Aligned(c, x) /\ x \notin acked) \/ Astray(c, x))
         \/ place[x][1] \in Before(k) /\ place[x][1] \in ended /\ Broken(c, x)
<1>1. x \in Sent /\ Client(place[x][1]).Port = Client(k).Port /\ place[x][2] = id
  BY DEF Pends, ChanOf
<1>2. place[x] \in Conn \X Id
  BY <1>1 DEF Typed, PeersOK
<1>3. PICK j \in Conn : j = place[x][1]
  BY <1>2
<1>4. Before(j) \subseteq ended
  BY <1>1, <1>3 DEF Orderly, SentUp
<1>5. j \in Before(k) \cup {k}
  BY <1>1, <1>3, <1>4, OneAlive
<1>6. k \notin ended /\ Before(k) \subseteq ended
  BY DEF Alive
<1>7. CASE j = k
  <2>1. place[x] = <<k, id>>
    BY <1>1, <1>2, <1>3, <1>7, PairIs
  <2> QED
    BY <1>3, <1>6, <1>7, <2>1 DEF Pends
<1>8. CASE j \in Before(k)
  BY <1>3, <1>6, <1>8 DEF Pends
<1> QED
  BY <1>5, <1>7, <1>8

(* A step of connection k on channel id, as the other channels see it. *)
Aside(k, id) ==
  /\ Grows /\ UNCHANGED <<capture, ended>>
  /\ \A p \in Peer, t \in Conn \X Id : t # <<k, id>> => outgoing'[<<p, t>>] = outgoing[<<p, t>>]
  /\ lost \in Nat /\ lost' \in Nat /\ lost <= lost'
  /\ \A y \in acked' : y \in acked \/ place[y] = <<k, id>>

(* The facts about content x that do not change when it is not concerned. *)
LEMMA NowStays ==
  ASSUME Typed, Grows, NEW x \in Sent, NEW t, t = place[x],
         outgoing'[<<Sender(x), t>>] = outgoing[<<Sender(x), t>>],
         UNCHANGED capture
  PROVE  /\ Now(x)' = Now(x) /\ size'[x] = size[x] /\ place'[x] = place[x] /\ x \in Sent'
         /\ ChanOf(x)' = ChanOf(x) /\ HeaderOf(x, size[x])' = HeaderOf(x, size[x])
<1>1. place'[x] = t /\ size'[x] = size[x] /\ x \in Sent'
  BY DEF Grows
<1>2. Now(x)' = Now(x)
  BY <1>1 DEF Now, Sender
<1>3. ChanOf(x)' = ChanOf(x)
  BY <1>1 DEF ChanOf, Client
<1> QED
  BY <1>1, <1>2, <1>3 DEF HeaderOf

(* A content that broke off stays behind until the channel is opened anew. *)
LEMMA BrokenStays ==
  ASSUME Typed, NEW k \in Conn, NEW id \in Id, Aside(k, id), NEW c \in Chan,
         NEW x \in Sent, ChanOf(x) = c, Broken(c, x),
         \/ c # <<Client(k).Port, id>>
         \/ /\ \A p \in Peer : outgoing'[<<p, <<k, id>>>>].stage \in {"idle", "open"}
            /\ outgoing'[<<"client", <<k, id>>>>].stage = "idle" => lost' >= 1
  PROVE  Broken(c, x)'
<1>1. Conn' = Conn /\ \A j : Before(j)' = Before(j) /\ Client(j)' = Client(j)
  BY SameCapture DEF Aside
<1>2. PICK i : i = place[x][1]
  BY Zenon
<1>3. (place[x][1] = i)'
  BY <1>2 DEF Aside, Grows
<1>4. SUFFICES ASSUME NEW j \in Conn, i \in Before(j), j \notin ended
               PROVE  /\ \A p \in Peer : outgoing'[<<p, <<j, c[2]>>>>].stage \in {"idle", "open"}
                      /\ outgoing'[<<"client", <<j, c[2]>>>>].stage = "idle" => lost' >= 1
  BY <1>1, <1>3 DEF Broken, Aside
<1>5. PICK m \in Id : m = c[2]
  BY CaptureAssumption
<1>6. /\ \A p \in Peer : outgoing[<<p, <<j, m>>>>].stage \in {"idle", "open"}
      /\ outgoing[<<"client", <<j, m>>>>].stage = "idle" => lost >= 1
  BY <1>2, <1>4, <1>5 DEF Broken
<1>7. CASE <<j, m>> # <<k, id>>
  <2>1. \A p \in Peer : outgoing'[<<p, <<j, m>>>>] = outgoing[<<p, <<j, m>>>>]
    BY <1>7 DEF Aside
  <2>2. lost >= 1 => lost' >= 1
    BY DEF Aside
  <2> QED
    BY <1>5, <1>6, <2>1, <2>2 DEF Peer
<1>8. CASE <<j, m>> = <<k, id>>
  <2>1. c[1] = Client(i).Port /\ c[2] = m
    BY <1>2, <1>5 DEF ChanOf
  <2>2. Client(i).Port = Client(j).Port
    BY <1>4 DEF Before
  <2>3. c = <<c[1], c[2]>>
    BY CaptureAssumption, PairIs
  <2>4. c = <<Client(k).Port, id>>
    BY <1>8, <2>1, <2>2, <2>3
  <2> QED
    BY <1>5, <1>8, <2>4
<1> QED
  BY <1>7, <1>8

(* What another channel gathers is not disturbed. *)
LEMMA PendsElsewhere ==
  ASSUME Typed, NEW k \in Conn, NEW id \in Id, Aside(k, id),
         NEW c \in Chan, c # <<Client(k).Port, id>>, NEW x, Pends(c, x),
         recv'[c] = recv[c], header'[c] = header[c], body'[c] = body[c]
  PROVE  Pends(c, x)'
<1>1. x \in Sent /\ ChanOf(x) = c /\ Grows /\ UNCHANGED <<capture, ended>>
  BY DEF Pends, Aside
<1>2. PICK t \in Conn \X Id : t = place[x]
  BY <1>1 DEF Typed, PeersOK
<1>3. t # <<k, id>>
  <2>1. SUFFICES ASSUME t = <<k, id>> PROVE FALSE
    OBVIOUS
  <2>2. place[x][1] = k /\ place[x][2] = id
    BY <1>2, <2>1
  <2> QED
    BY <1>1, <2>2 DEF ChanOf
<1>4. Sender(x) \in Peer
  BY <1>1, SenderIs DEF Typed, PeersOK
<1>5. outgoing'[<<Sender(x), t>>] = outgoing[<<Sender(x), t>>]
  BY <1>3, <1>4 DEF Aside
<1>6. /\ Now(x)' = Now(x) /\ size'[x] = size[x] /\ place'[x] = place[x] /\ x \in Sent'
      /\ ChanOf(x)' = c /\ HeaderOf(x, size[x])' = HeaderOf(x, size[x])
  BY <1>1, <1>2, <1>5, NowStays
<1>7. x \in acked' => x \in acked
  BY <1>2, <1>3 DEF Aside
<1>8. CASE place[x][1] \notin ended /\ Aligned(c, x) /\ x \notin acked
  <2>1. PICK now : now = Now(x)
    BY Zenon
  <2>2. Now(x)' = now
    BY <1>6, <2>1
  <2>3. Aligned(c, x)'
    BY <1>6, <1>8, <2>1, <2>2 DEF Aligned, Body
  <2> QED
    BY <1>1, <1>6, <1>7, <1>8, <2>3 DEF Pends
<1>9. CASE place[x][1] \notin ended /\ Astray(c, x)
  <2>1. lost' >= 1 /\ (x \in acked' => lost' >= 2)
    BY <1>7, <1>9 DEF Astray, Aside
  <2>2. Astray(c, x)'
    BY <1>6, <1>9, <2>1 DEF Astray, Idle
  <2> QED
    BY <1>1, <1>6, <1>9, <2>2 DEF Pends
<1>10. CASE place[x][1] \in ended /\ Broken(c, x)
  <2>1. Broken(c, x)'
    BY <1>1, <1>10, BrokenStays
  <2> QED
    BY <1>1, <1>6, <1>10, <2>1 DEF Pends
<1> QED
  BY <1>8, <1>9, <1>10 DEF Pends

(* ContentIsIntact for one message of channel c. *)
Intact(c, d) ==
  d.method \in ContentMethod =>
    /\ d.method \in Sent /\ c = ChanOf(d.method)
    /\ d.header.properties = d.method
    /\ d.body = Body(d.method, 0, size[d.method])

(* ContentIsIntact, message by message. *)
LEMMA IntactIs ==
  ContentIsIntact <=> \A c \in Chan : \A n \in DOMAIN dispatched[c] : Intact(c, dispatched[c][n])
BY DEF ContentIsIntact, Intact, ChanOf

(* The same after a step. *)
LEMMA IntactNext ==
  (\A c \in Chan : \A n \in DOMAIN dispatched[c] : Intact(c, dispatched[c][n]))'
    => ContentIsIntact'
BY IntactIs, PTL

(* ContentIsIntact holds after a step when it does message by message. *)
LEMMA AllIntact ==
  ASSUME \A c \in Chan : \A n \in DOMAIN dispatched'[c] :
           \A d : d = dispatched'[c][n] => Intact(c, d)'
  PROVE  ContentIsIntact'
<1>1. ASSUME NEW c \in Chan, NEW n \in DOMAIN dispatched'[c] PROVE Intact(c, dispatched[c][n])'
  <2>1. PICK d : d = dispatched'[c][n]
    BY Zenon
  <2>2. Intact(c, d)'
    BY <2>1
  <2> QED
    BY <2>1, <2>2 DEF Intact
<1> QED
  BY <1>1, IntactNext

(* A message that is intact stays so. *)
LEMMA IntactGrows ==
  ASSUME Grows, UNCHANGED capture, NEW c, NEW d, Intact(c, d) PROVE Intact(c, d)'
<1>1. SUFFICES ASSUME NEW x, x = d.method, x \in ContentMethod PROVE Intact(c, d)'
  BY DEF Intact
<1>2. x \in Sent /\ c = ChanOf(x) /\ d.header.properties = x /\ d.body = Body(x, 0, size[x])
  BY <1>1 DEF Intact
<1>3. place'[x] = place[x] /\ size'[x] = size[x] /\ x \in Sent'
  BY <1>2 DEF Grows
<1>4. ChanOf(x)' = c
  BY <1>2, <1>3 DEF ChanOf, Client
<1>5. (d.body = Body(x, 0, size[x]))'
  BY <1>2, <1>3 DEF Body
<1> QED
  BY <1>1, <1>2, <1>3, <1>4, <1>5 DEF Intact

(* Element n of r is one of s, or the one appended to it. *)
OldOrNew(n, s, r, g) == (n \in DOMAIN s /\ r[n] = s[n]) \/ r[n] = g

(* The elements of a sequence with something appended to it. *)
LEMMA AppendElement ==
  ASSUME NEW S, NEW s, NEW g, NEW r, NEW n, s \in Seq(S), r = Append(s, g), n \in DOMAIN r
  PROVE  OldOrNew(n, s, r, g)
<1>1. Len(s) \in Nat /\ DOMAIN s = 1 .. Len(s) /\ DOMAIN r = 1 .. Len(s) + 1
  OBVIOUS
<1>2. CASE n \in DOMAIN s
  BY <1>1, <1>2 DEF OldOrNew
<1>3. CASE n = Len(s) + 1
  BY <1>1, <1>3 DEF OldOrNew
<1> QED
  BY <1>1, <1>2, <1>3

(* What connection k does on channel id concerns that channel alone. *)
LEMMA FrameStep ==
  ASSUME Typed, Pending, ContentIsIntact, NEW k \in Conn, NEW id \in Id, Aside(k, id),
         NEW c \in Chan, c = <<Client(k).Port, id>>,
         NEW f \in Frame, Demux(c, f) \/ (UNCHANGED vars /\ ~panicked),
         ~panicked' => \A x \in ContentMethod :
           recv'[c] # "recvMethod" /\ message'[c] = x => Pends(c, x)',
         \/ dispatched'[c] = dispatched[c]
         \/ \E d : dispatched'[c] = Append(dispatched[c], d) /\ Intact(c, d)'
  PROVE  Pending' /\ ContentIsIntact'
<1>1. TypeOK /\ ~panicked
  BY DEF Typed, FullInv, IInv, Demux
<1>2. ASSUME NEW e \in Chan \ {c}
      PROVE  /\ recv'[e] = recv[e] /\ message'[e] = message[e] /\ header'[e] = header[e]
             /\ body'[e] = body[e] /\ dispatched'[e] = dispatched[e]
  <2>1. CASE Demux(c, f)
    BY <1>1, <2>1, OthersUntouched
  <2> QED
    BY <2>1 DEF vars
<1>3. Pending'
  <2>1. SUFFICES ASSUME ~panicked', NEW e \in Chan, NEW x \in ContentMethod,
                        recv'[e] # "recvMethod", message'[e] = x
                 PROVE  Pends(e, x)'
    BY DEF Pending
  <2>2. CASE e # c
    <3>1. Pends(e, x)
      BY <1>1, <1>2, <2>1, <2>2 DEF Pending
    <3> QED
      BY <1>2, <2>2, <3>1, PendsElsewhere
  <2> QED
    BY <2>1, <2>2
<1>4. ASSUME NEW e \in Chan, NEW n \in DOMAIN dispatched'[e], NEW d, d = dispatched'[e][n]
      PROVE  Intact(e, d)'
  <2>1. Grows /\ UNCHANGED capture
    BY DEF Aside
  <2>2. CASE n \in DOMAIN dispatched[e] /\ d = dispatched[e][n]
    <3>1. Intact(e, d)
      BY <2>2, IntactIs
    <3> QED
      BY <2>1, <3>1, IntactGrows
  <2>3. CASE e = c /\ Intact(c, d)'
    BY <2>3
  <2>4. CASE e = c
    <3>1. ASSUME NEW g, dispatched'[c] = Append(dispatched[c], g), Intact(c, g)'
          PROVE  Intact(e, d)'
      <4>1. dispatched[c] \in Seq(Message)
        BY <1>1 DEF TypeOK
      <4>2. \/ n \in DOMAIN dispatched[e] /\ d = dispatched[e][n]
            \/ d = g
        <5>1. PICK r, ds : r = dispatched'[c] /\ ds = dispatched[c]
          BY Zenon
        <5>2. ds \in Seq(Message) /\ r = Append(ds, g) /\ n \in DOMAIN r
          BY <1>4, <2>4, <3>1, <4>1, <5>1
        <5>3. OldOrNew(n, ds, r, g)
          BY <5>2, AppendElement
        <5> QED
          BY <1>4, <2>4, <5>1, <5>3 DEF OldOrNew
      <4> QED
        BY <2>2, <2>4, <3>1, <4>2
    <3> QED
      BY <1>4, <2>2, <2>4, <3>1
  <2>5. CASE e # c
    BY <1>2, <1>4, <2>2, <2>5
  <2> QED
    BY <2>4, <2>5
<1>5. ContentIsIntact'
  BY <1>4, AllIntact
<1> QED
  BY <1>3, <1>5

(* Whatever is sent on a channel concerns that channel alone. *)
LEMMA SendAside ==
  ASSUME Typed, NEW k \in Conn, NEW id \in Id, Send(k, id) PROVE Aside(k, id)
<1>1. /\ Grows /\ UNCHANGED <<capture, ended>> /\ capture \in Captures
      /\ outgoing \in [Slots -> Stages(Sent)] /\ lost \in 0 .. capture.loss
  BY SendGrows DEF Send, Typed, PeersOK
<1>2. lost \in Nat
  <2>1. capture.loss \in Nat
    BY <1>1, CaptureAssumption
  <2> QED
    BY <1>1, <2>1
<1>3. ASSUME NEW p \in Peer, NEW v, outgoing' = [outgoing EXCEPT ![<<p, <<k, id>>>>] = v]
      PROVE  \A q \in Peer, t \in Conn \X Id :
               t # <<k, id>> => outgoing'[<<q, t>>] = outgoing[<<q, t>>]
  <2>1. SUFFICES ASSUME NEW q \in Peer, NEW t \in Conn \X Id, t # <<k, id>>
                 PROVE  outgoing'[<<q, t>>] = outgoing[<<q, t>>]
    OBVIOUS
  <2>2. <<q, t>> \in Slots /\ <<q, t>> # <<p, <<k, id>>>>
    BY <2>1 DEF Slots
  <2> QED
    BY <1>1, <1>3, <2>2
<1>4. ASSUME NEW p \in Peer, NEW f, OnWire(p, k, id, f)
      PROVE  lost' \in Nat /\ lost <= lost'
  <2>1. lost' = lost \/ lost' = lost + 1
    BY <1>1, <1>4, OnWireIs DEF Read, Lost
  <2> QED
    BY <1>2, <2>1
<1>5. "client" \in Peer
  BY DEF Peer
<1>6. CASE SendOpen(k, id)
  BY <1>1, <1>2, <1>3, <1>4, <1>5, <1>6 DEF SendOpen, Aside
<1>7. ASSUME NEW p \in Peer, NEW x \in Contents(p), NEW n \in 0 .. MaxBody, SendMethod(p, k, id, x, n)
      PROVE  Aside(k, id)
  BY <1>1, <1>2, <1>3, <1>4, <1>7, Zenon DEF SendMethod, Aside
<1>8. ASSUME NEW p \in Peer, SendHeader(p, k, id) PROVE Aside(k, id)
  BY <1>1, <1>2, <1>3, <1>4, <1>8, Zenon DEF SendHeader, Aside
<1>9. ASSUME NEW p \in Peer, NEW n \in 1 .. MaxBody, SendBody(p, k, id, n) PROVE Aside(k, id)
  BY <1>1, <1>2, <1>3, <1>4, <1>9, Zenon DEF SendBody, Aside
<1>10. ASSUME NEW x \in Deliveries, SendAck(k, id, x) PROVE Aside(k, id)
  <2>1. UNCHANGED outgoing /\ place[x] = <<k, id>> /\ acked' = acked \cup {x}
    BY <1>10 DEF SendAck
  <2>2. lost' \in Nat /\ lost <= lost'
    BY <1>4, <1>5, <1>10 DEF SendAck
  <2> QED
    BY <1>1, <1>2, <2>1, <2>2 DEF Aside
<1> QED
  BY <1>6, <1>7, <1>8, <1>9, <1>10 DEF Send

(* What may be missing for ContentIsIntact to hold: one frame, or two when *)
(* there are deliveries only, one at a time, and ports are not used again. *)
Tolerable(x) ==
  \/ x.loss <= 1
  \/ /\ x.loss <= 2 /\ Prefetch <= 1
     /\ \A k \in DOMAIN x.conns : x.conns[k].sends["client"] = 0
     /\ \A j, k \in DOMAIN x.conns : x.conns[j].client.Port = x.conns[k].client.Port => j = k

(* What a step on channel c has to establish there. *)
Settled(c) ==
  /\ ~panicked' => \A x \in ContentMethod :
       recv'[c] # "recvMethod" /\ message'[c] = x => Pends(c, x)'
  /\ \/ dispatched'[c] = dispatched[c]
     \/ \E d : dispatched'[c] = Append(dispatched[c], d) /\ Intact(c, d)'

(* How Pends is shown after a step. *)
LEMMA PendsAfter ==
  ASSUME Typed, Grows, UNCHANGED <<capture, ended>>, NEW c, NEW x, Pends(c, x),
         \/ place[x][1] \notin ended /\ Aligned(c, x)' /\ x \notin acked'
         \/ place[x][1] \notin ended /\ Astray(c, x)'
         \/ place[x][1] \in ended /\ Broken(c, x)'
  PROVE  Pends(c, x)'
<1>1. x \in Sent' /\ place'[x] = place[x]
  BY DEF Pends, Grows
<1>2. ChanOf(x)' = c
  BY <1>1 DEF Pends, ChanOf, Client
<1> QED
  BY <1>1, <1>2 DEF Pends

(* Nothing changes for a content whose sender does nothing. *)
LEMMA StaysAligned ==
  ASSUME Typed, Grows, UNCHANGED capture, NEW c, NEW x \in Sent, Now(x)' = Now(x),
         recv'[c] = recv[c], header'[c] = header[c], body'[c] = body[c], Aligned(c, x)
  PROVE  Aligned(c, x)'
<1>1. size'[x] = size[x]
  BY DEF Grows
<1>2. PICK now : now = Now(x)
  BY Zenon
<1>3. Now(x)' = now
  BY <1>2
<1>4. CASE now = [stage |-> "header", content |-> x] /\ recv[c] = "recvHeader"
  BY <1>3, <1>4 DEF Aligned
<1>5. CASE /\ now.stage = "body" /\ now.content = x
           /\ recv[c] = "recvContent" /\ header[c] = HeaderOf(x, size[x])
           /\ body[c] = Body(x, 0, now.done)
  BY <1>1, <1>3, <1>5 DEF Aligned, HeaderOf, Body
<1> QED
  BY <1>2, <1>4, <1>5 DEF Aligned

(* A content gone astray stays so. *)
LEMMA StaysAstray ==
  ASSUME Typed, Grows, UNCHANGED capture, NEW c, NEW x \in Sent, Now(x)' = Now(x),
         recv'[c] = recv[c], header'[c] = header[c], body'[c] = body[c], Astray(c, x),
         lost \in Nat, lost' \in Nat, lost <= lost', x \in acked' => x \in acked \/ lost' >= 2
  PROVE  Astray(c, x)'
<1>1. size'[x] = size[x]
  BY DEF Grows
<1>2. PICK now : now = Now(x)
  BY Zenon
<1>3. Now(x)' = now
  BY <1>2
<1>4. lost' >= 1 /\ (x \in acked' => lost' >= 2)
  BY DEF Astray
<1>5. recv'[c] = "recvContent" => header'[c] = HeaderOf(x, size'[x])
  BY <1>1 DEF Astray
<1>6. \/ now = Idle /\ (recv'[c] = "recvContent" => Len(body'[c]) < size'[x])
      \/ /\ now.stage = "body" /\ now.content = x
         /\ recv'[c] = "recvContent" => Len(body'[c]) < now.done
  BY <1>1, <1>2 DEF Astray
<1> QED
  BY <1>3, <1>4, <1>5, <1>6 DEF Astray, HeaderOf, Idle

(* The content of a connection that broke off, as the next one sees it. *)
LEMMA BrokenHere ==
  ASSUME NEW k \in Conn, NEW id, Alive(k), NEW c, c = <<Client(k).Port, id>>,
         NEW x, Broken(c, x), place[x][1] \in Before(k)
  PROVE  /\ \A p \in Peer : outgoing[<<p, <<k, id>>>>].stage \in {"idle", "open"}
         /\ outgoing[<<"client", <<k, id>>>>].stage = "idle" => lost >= 1
BY DEF Broken, Alive

(* Frames that are lost. *)
LEMMA LostStep ==
  ASSUME Typed, Pending, NEW k \in Conn, Lost(k), NEW c \in Chan,
         \A x \in ContentMethod :
           recv[c] # "recvMethod" /\ message[c] = x /\ Pends(c, x) => Pends(c, x)'
  PROVE  Settled(c)
<1>1. UNCHANGED vars /\ ~panicked
  BY DEF Lost
<1>2. recv'[c] = recv[c] /\ message'[c] = message[c] /\ dispatched'[c] = dispatched[c]
  BY <1>1 DEF vars
<1> QED
  BY <1>1, <1>2 DEF Pending, Settled

(* The method that opens the channel is lost. *)
LEMMA OpenLost ==
  ASSUME Typed, Orderly, Pending, NEW k \in Conn, NEW id \in Id, Alive(k), Aside(k, id),
         NEW c \in Chan, c = <<Client(k).Port, id>>, SendOpen(k, id), Lost(k)
  PROVE  Settled(c)
<1>1. SUFFICES ASSUME NEW x \in ContentMethod, Pends(c, x) PROVE Pends(c, x)'
  BY LostStep
<1>2. PICK s \in Conn \X Id : s = <<k, id>>
  OBVIOUS
<1>3. /\ UNCHANGED <<recv, message, header, body>> /\ lost' = lost + 1 /\ UNCHANGED acked
      /\ outgoing[<<"client", s>>].stage = "open"
      /\ outgoing' = [outgoing EXCEPT ![<<"client", s>>] = Idle]
  BY <1>2 DEF Lost, SendOpen, vars
<1>4. /\ outgoing'[<<"client", s>>] = Idle
      /\ outgoing'[<<"server", s>>] = outgoing[<<"server", s>>]
  <2>1. <<"client", s>> \in Slots /\ <<"server", s>> \in Slots
    BY DEF Slots, Peer
  <2> QED
    BY <1>3, <2>1 DEF Typed, PeersOK
<1>5. Grows /\ UNCHANGED <<capture, ended>> /\ lost \in Nat /\ lost' \in Nat /\ x \in Sent /\ ChanOf(x) = c
  BY <1>1 DEF Aside, Pends
<1>6. CASE place[x] = s
  <2>1. (Aligned(c, x) /\ x \notin acked) \/ Astray(c, x)
    <3>1. place[x][1] = k /\ k \notin Before(k)
      BY <1>2, <1>6, CaptureIs DEF Typed, PeersOK
    <3> QED
      BY <1>1, <1>2, <3>1, HereIs
  <2>2. Now(x).stage # "open"
    BY <2>1 DEF Aligned, Astray, Idle
  <2>3. Sender(x) = "server"
    BY <1>3, <1>6, <2>2 DEF Now, Sender
  <2>4. Now(x)' = Now(x)
    BY <1>4, <1>5, <1>6, <2>3, NowStays
  <2>5. k \notin ended /\ place[x][1] = k
    BY <1>2, <1>6 DEF Alive
  <2> QED
    BY <1>1, <1>3, <1>5, <2>1, <2>4, <2>5, StaysAligned, StaysAstray, PendsAfter
<1>7. CASE place[x][1] \in Before(k) /\ place[x][1] \in ended /\ Broken(c, x)
  <2>1. \A p \in Peer : outgoing[<<p, s>>].stage \in {"idle", "open"}
    BY <1>2, <1>7, BrokenHere
  <2>2. /\ \A p \in Peer : outgoing'[<<p, s>>].stage \in {"idle", "open"}
        /\ lost' >= 1
    BY <1>3, <1>4, <1>5, <2>1 DEF Peer, Idle
  <2>3. Broken(c, x)'
    BY <1>2, <1>5, <1>7, <2>2, BrokenStays
  <2> QED
    BY <1>1, <1>5, <1>7, <2>3, PendsAfter
<1> QED
  BY <1>1, <1>2, <1>6, <1>7, HereIs

(* With a content of one of them under way and a frame of the next to come *)
(* missing as well, more would be missing than is tolerable.               *)
LEMMA MethodLost ==
  ASSUME Typed, Orderly, Pending, OneWay(capture), Tolerable(capture),
         NEW p \in Peer, NEW k \in Conn, NEW id \in Id, Alive(k), Aside(k, id),
         NEW c \in Chan, c = <<Client(k).Port, id>>,
         NEW y \in Contents(p), NEW n \in 0 .. MaxBody, SendMethod(p, k, id, y, n), Lost(k)
  PROVE  Settled(c)
<1>1. SUFFICES ASSUME NEW x \in ContentMethod, Pends(c, x) PROVE FALSE
  BY LostStep
<1>2. PICK s \in Conn \X Id : s = <<k, id>>
  OBVIOUS
<1>3. outgoing[<<p, s>>] = Idle /\ MaySend(p, s)
      /\ Cardinality(SentBy(p, k)) < capture.conns[k].sends[p]
  BY <1>2, Zenon DEF SendMethod
<1>4. capture.conns[k].sends[p] > 0
  <2>1. IsFiniteSet(SentBy(p, k))
    BY FS_Subset DEF SentBy, Orderly
  <2>2. Cardinality(SentBy(p, k)) \in Nat
    BY <2>1, FS_CardinalityType
  <2>3. capture.conns[k].sends[p] \in Nat
    BY CaptureIs DEF Typed, PeersOK
  <2> QED
    BY <1>3, <2>2, <2>3
<1>5. lost < capture.loss /\ lost \in Nat /\ capture.loss \in Nat
  BY CaptureAssumption DEF Lost, Aside, Typed, PeersOK
<1>6. lost >= 1 => /\ capture.loss <= 2 /\ capture.loss > 1 /\ Prefetch <= 1
                   /\ capture.conns[k].sends["client"] = 0
                   /\ \A j \in Conn : Client(j).Port = Client(k).Port => j = k
  BY <1>5 DEF Tolerable, Conn, Client
<1>7. CASE place[x] = s
  <2>1. (Aligned(c, x) /\ x \notin acked) \/ Astray(c, x)
    <3>1. place[x][1] = k /\ k \notin Before(k)
      BY <1>2, <1>7, CaptureIs DEF Typed, PeersOK
    <3> QED
      BY <1>1, <1>2, <3>1, HereIs
  <2>2. x \in Sent /\ Sender(x) = p
    <3>1. x \in Sent /\ place[x][1] = k
      BY <1>1, <1>2, <1>7 DEF Pends
    <3> QED
      BY <1>4, <3>1, SameSender
  <2>3. Now(x) = Idle
    BY <1>3, <1>7, <2>2 DEF Now
  <2>4. Astray(c, x)
    BY <2>1, <2>3 DEF Aligned, Idle
  <2>5. lost >= 1
    BY <2>4 DEF Astray
  <2>6. p = "server"
    BY <1>4, <1>6, <2>5 DEF Peer
  <2>7. x \in Deliveries
    BY <2>2, <2>6 DEF Sender
  <2> DEFINE Unacked == {d \in Sent \cap Deliveries : place[d] = s /\ d \notin acked}
  <2>8. Cardinality(Unacked) < Prefetch
    BY <1>3, <2>6, Zenon DEF MaySend
  <2>9. IsFiniteSet(Unacked)
    BY FS_Subset DEF Orderly
  <2>10. Unacked = {}
    <3>1. Cardinality(Unacked) \in Nat
      BY <2>9, FS_CardinalityType
    <3>2. Cardinality(Unacked) = 0
      <4> HIDE DEF Unacked
      <4> QED
        BY <1>6, <2>5, <2>8, <3>1, CaptureAssumption
    <3> QED
      BY <2>9, <3>2, FS_EmptySet
  <2>11. x \in acked
    BY <1>7, <2>2, <2>7, <2>10
  <2>12. lost >= 2
    BY <2>4, <2>11 DEF Astray
  <2> QED
    BY <1>5, <1>6, <2>5, <2>12
<1>8. CASE place[x][1] \in Before(k) /\ place[x][1] \in ended /\ Broken(c, x)
  <2>1. /\ \A q \in Peer : outgoing[<<q, s>>].stage \in {"idle", "open"}
        /\ outgoing[<<"client", s>>].stage = "idle" => lost >= 1
    BY <1>2, <1>8, BrokenHere
  <2>2. outgoing[<<"client", s>>].stage = "idle"
    <3>1. CASE p = "server"
      BY <1>3, <2>1, <3>1 DEF MaySend, Peer
    <3>2. CASE p = "client"
      BY <1>3, <3>2 DEF Idle
    <3> QED
      BY <3>1, <3>2 DEF Peer
  <2>3. place[x][1] \in Conn /\ place[x][1] # k /\ Client(place[x][1]).Port = Client(k).Port
    BY <1>8, CaptureIs DEF Before, Typed, PeersOK
  <2> QED
    BY <1>6, <2>1, <2>2, <2>3
<1> QED
  BY <1>1, <1>2, <1>7, <1>8, HereIs

(* The content p is sending, if that is what the channel is gathering. *)
LEMMA HereCurrent ==
  ASSUME Typed, Orderly, OneWay(capture), NEW p \in Peer, NEW k \in Conn, NEW id \in Id, Alive(k),
         NEW c, c = <<Client(k).Port, id>>, NEW s \in Conn \X Id, s = <<k, id>>,
         NEW now, now = outgoing[<<p, s>>], now.stage \in {"header", "body"},
         NEW y, y = now.content, NEW x, Pends(c, x)
  PROVE  /\ x = y /\ Now(x) = now /\ place[x][1] \notin ended
         /\ (Aligned(c, x) /\ x \notin acked) \/ Astray(c, x)
<1>1. ~(place[x][1] \in Before(k) /\ Broken(c, x))
  <2>1. SUFFICES ASSUME place[x][1] \in Before(k), Broken(c, x) PROVE FALSE
    OBVIOUS
  <2>2. outgoing[<<p, s>>].stage \in {"idle", "open"}
    BY <2>1, BrokenHere
  <2> QED
    BY <2>2
<1>2. place[x] = s /\ ((Aligned(c, x) /\ x \notin acked) \/ Astray(c, x))
  BY <1>1, HereIs
<1>3. Sender(x) = p
  <2>1. x \in Sent /\ place[x][1] = k /\ s[1] = k
    BY <1>2 DEF Pends
  <2>2. capture.conns[k].sends[p] > 0
    BY <2>1, CurrentIs
  <2> QED
    BY <2>1, <2>2, SameSender
<1>4. Now(x) = now
  BY <1>2, <1>3 DEF Now
<1>5. x = y
  BY <1>2, <1>4 DEF Aligned, Astray, Idle
<1>6. place[x][1] \notin ended
  BY <1>2 DEF Alive
<1> QED
  BY <1>2, <1>4, <1>5, <1>6

(* outgoing after p has gone on to v. *)
LEMMA SlotIs ==
  ASSUME Typed, NEW p \in Peer, NEW s \in Conn \X Id, NEW v,
         outgoing' = [outgoing EXCEPT ![<<p, s>>] = v]
  PROVE  outgoing'[<<p, s>>] = v
BY DEF Typed, PeersOK, Slots

(* A header is lost: its content goes astray. *)
LEMMA HeaderLost ==
  ASSUME Typed, Orderly, Pending, OneWay(capture),
         NEW p \in Peer, NEW k \in Conn, NEW id \in Id, Alive(k), Aside(k, id),
         NEW c \in Chan, c = <<Client(k).Port, id>>, SendHeader(p, k, id), Lost(k)
  PROVE  Settled(c)
<1>1. SUFFICES ASSUME NEW x \in ContentMethod, recv[c] # "recvMethod", Pends(c, x) PROVE Pends(c, x)'
  BY LostStep
<1>2. PICK s \in Conn \X Id : s = <<k, id>>
  OBVIOUS
<1>3. PICK now : now = outgoing[<<p, s>>]
  BY Zenon
<1>4. PICK v : v = IF size[now.content] = 0 THEN Idle
                   ELSE [stage |-> "body", content |-> now.content, done |-> 0]
  BY Zenon
<1>5. /\ now.stage = "header" /\ UNCHANGED <<size, place, acked>>
      /\ outgoing' = [outgoing EXCEPT ![<<p, s>>] = v]
  BY <1>2, <1>3, <1>4, Zenon DEF SendHeader
<1>6. /\ x = now.content /\ Now(x) = now /\ place[x][1] \notin ended
      /\ (Aligned(c, x) /\ x \notin acked) \/ Astray(c, x)
  BY <1>1, <1>2, <1>3, <1>5, HereCurrent
<1>7. Aligned(c, x) /\ x \notin acked /\ recv[c] = "recvHeader"
  BY <1>5, <1>6 DEF Aligned, Astray, Idle
<1>8. place[x] = s /\ Sender(x) = p
  BY <1>3, <1>5, <1>6, CurrentIs
<1>9. (Now(x) = v)'
  <2>1. outgoing'[<<p, s>>] = v
    BY <1>5, SlotIs
  <2> QED
    BY <1>5, <1>8, <2>1 DEF Now, Sender
<1>10. /\ recv'[c] = "recvHeader" /\ lost' >= 1
       /\ Grows /\ UNCHANGED <<capture, ended>>
  BY <1>7 DEF Lost, vars, Aside
<1>11. Astray(c, x)'
  <2>1. CASE v = Idle
    BY <1>5, <1>7, <1>9, <1>10, <2>1 DEF Astray, Idle
  <2>2. CASE v = [stage |-> "body", content |-> x, done |-> 0]
    BY <1>5, <1>7, <1>9, <1>10, <2>2 DEF Astray
  <2> QED
    BY <1>4, <1>6, <2>1, <2>2
<1> QED
  BY <1>1, <1>6, <1>10, <1>11, PendsAfter

(* A body is lost: its content goes astray. *)
LEMMA BodyLost ==
  ASSUME Typed, Orderly, Pending, OneWay(capture),
         NEW p \in Peer, NEW k \in Conn, NEW id \in Id, Alive(k), Aside(k, id),
         NEW c \in Chan, c = <<Client(k).Port, id>>,
         NEW n \in 1 .. MaxBody, SendBody(p, k, id, n), Lost(k)
  PROVE  Settled(c)
<1>1. SUFFICES ASSUME NEW x \in ContentMethod, recv[c] # "recvMethod", Pends(c, x) PROVE Pends(c, x)'
  BY LostStep
<1>2. PICK s \in Conn \X Id : s = <<k, id>>
  OBVIOUS
<1>3. PICK now : now = outgoing[<<p, s>>]
  BY Zenon
<1>4. PICK v : v = IF now.done + n = size[now.content] THEN Idle ELSE [now EXCEPT !.done = @ + n]
  BY Zenon
<1>5. /\ now.stage = "body" /\ UNCHANGED <<size, place, acked>>
      /\ outgoing' = [outgoing EXCEPT ![<<p, s>>] = v] /\ now.done + n <= size[now.content]
  BY <1>2, <1>3, <1>4, Zenon DEF SendBody
<1>6. /\ x = now.content /\ Now(x) = now /\ place[x][1] \notin ended
      /\ (Aligned(c, x) /\ x \notin acked) \/ Astray(c, x)
  BY <1>1, <1>2, <1>3, <1>5, HereCurrent
<1>7. /\ place[x] = s /\ Sender(x) = p /\ now \in Stages(Sent) /\ x \in Sent
      /\ x \in Deliveries \cup Publishings
  BY <1>3, <1>5, <1>6, CurrentIs
<1>8. (Now(x) = v)'
  <2>1. outgoing'[<<p, s>>] = v
    BY <1>5, SlotIs
  <2> QED
    BY <1>5, <1>7, <2>1 DEF Now, Sender
<1>9. /\ UNCHANGED <<recv, header, body>> /\ lost' = lost + 1 /\ lost \in Nat
      /\ Grows /\ UNCHANGED <<capture, ended>>
  BY DEF Lost, vars, Aside
<1>10. now.done \in 0 .. MaxBody /\ now = [stage |-> "body", content |-> x, done |-> now.done]
       /\ size[x] \in 0 .. MaxBody /\ MaxBody \in Nat
  BY <1>5, <1>6, <1>7, StageIs, CaptureAssumption DEF Typed, PeersOK
<1>11. recv[c] = "recvContent" => /\ header[c] = HeaderOf(x, size[x])
                                  /\ Len(body[c]) \in Nat /\ Len(body[c]) <= now.done
  <2>1. CASE Aligned(c, x)
    <3>1. recv[c] = "recvContent" /\ header[c] = HeaderOf(x, size[x]) /\ body[c] = Body(x, 0, now.done)
      BY <1>5, <1>6, <2>1 DEF Aligned
    <3>2. Len(body[c]) = now.done - 0
      BY <1>7, <1>10, <3>1, BodyIs
    <3> QED
      BY <1>10, <3>1, <3>2
  <2>2. CASE Astray(c, x)
    <3>1. recv[c] = "recvContent" => header[c] = HeaderOf(x, size[x]) /\ Len(body[c]) < now.done
      BY <1>5, <1>6, <2>2 DEF Astray, Idle
    <3>2. Len(body[c]) \in Nat
      BY DEF Typed, FullInv, IInv, TypeOK
    <3> QED
      BY <1>10, <3>1, <3>2
  <2> QED
    BY <1>6, <2>1, <2>2
<1>12. x \in acked => lost >= 1
  BY <1>6 DEF Astray
<1>13. Astray(c, x)'
  <2>1. /\ lost' >= 1 /\ (x \in acked' => lost' >= 2)
        /\ recv'[c] = "recvContent" => header'[c] = HeaderOf(x, size'[x])
    BY <1>5, <1>9, <1>11, <1>12
  <2>2. CASE v = Idle /\ now.done + n = size[x]
    <3>1. recv'[c] = "recvContent" => Len(body'[c]) < size'[x]
      BY <1>5, <1>9, <1>10, <1>11, <2>2
    <3> QED
      BY <1>8, <2>1, <2>2, <3>1 DEF Astray, Idle, HeaderOf
  <2>3. CASE v = [now EXCEPT !.done = @ + n]
    <3>1. v = [stage |-> "body", content |-> x, done |-> now.done + n]
      BY <1>10, <2>3
    <3>2. recv'[c] = "recvContent" => Len(body'[c]) < now.done + n
      BY <1>9, <1>10, <1>11
    <3> QED
      BY <1>8, <2>1, <3>1, <3>2 DEF Astray, HeaderOf
  <2> QED
    BY <1>4, <1>6, <2>2, <2>3
<1> QED
  BY <1>1, <1>6, <1>9, <1>13, PendsAfter

(* An acknowledgement is lost. *)
LEMMA AckLost ==
  ASSUME Typed, Orderly, Pending, NEW k \in Conn, NEW id \in Id, Alive(k), Aside(k, id),
         NEW c \in Chan, c = <<Client(k).Port, id>>,
         NEW y \in Deliveries, SendAck(k, id, y), Lost(k)
  PROVE  Settled(c)
<1>1. SUFFICES ASSUME NEW x \in ContentMethod, Pends(c, x) PROVE Pends(c, x)'
  BY LostStep
<1>2. PICK s \in Conn \X Id : s = <<k, id>>
  OBVIOUS
<1>3. /\ UNCHANGED <<recv, header, body, outgoing, size, place>>
      /\ lost' = lost + 1 /\ lost \in Nat /\ acked' = acked \cup {y}
      /\ outgoing[<<"server", s>>].stage # "idle" => outgoing[<<"server", s>>].content # y
      /\ Grows /\ UNCHANGED <<capture, ended>>
  BY <1>2 DEF Lost, SendAck, vars, Aside
<1>4. x \in Sent /\ Now(x)' = Now(x)
  BY <1>1, <1>3 DEF Pends, Now, Sender
<1>5. CASE place[x] = s
  <2>1. (Aligned(c, x) /\ x \notin acked) \/ Astray(c, x)
    <3>1. place[x][1] = k /\ k \notin Before(k)
      BY <1>2, <1>5, CaptureIs DEF Typed, PeersOK
    <3> QED
      BY <1>1, <1>2, <3>1, HereIs
  <2>2. place[x][1] \notin ended
    BY <1>2, <1>5 DEF Alive
  <2>3. CASE Aligned(c, x) /\ x \notin acked
    <3>1. Now(x).stage \in {"header", "body"} /\ Now(x).content = x
      BY <2>3 DEF Aligned
    <3>2. x # y
      BY <1>3, <1>5, <3>1 DEF Now, Sender
    <3>3. Aligned(c, x)'
      BY <1>3, <1>4, <2>3, StaysAligned
    <3> QED
      BY <1>1, <1>3, <2>2, <2>3, <3>2, <3>3, PendsAfter
  <2>4. CASE Astray(c, x)
    <3>1. lost' >= 2 /\ lost' \in Nat /\ lost <= lost'
      BY <1>3, <2>4 DEF Astray
    <3>2. Astray(c, x)'
      BY <1>3, <1>4, <2>4, <3>1, StaysAstray
    <3> QED
      BY <1>1, <1>3, <2>2, <3>2, PendsAfter
  <2> QED
    BY <2>1, <2>3, <2>4
<1>6. CASE place[x][1] \in Before(k) /\ place[x][1] \in ended /\ Broken(c, x)
  <2>1. \A p \in Peer : outgoing[<<p, s>>].stage \in {"idle", "open"}
    BY <1>2, <1>6, BrokenHere
  <2>2. /\ \A p \in Peer : outgoing'[<<p, s>>].stage \in {"idle", "open"}
        /\ lost' >= 1
    BY <1>3, <2>1
  <2>3. ChanOf(x) = c
    BY <1>1 DEF Pends
  <2>4. Broken(c, x)'
    BY <1>2, <1>4, <1>6, <2>2, <2>3, BrokenStays
  <2> QED
    BY <1>1, <1>3, <1>6, <2>4, PendsAfter
<1> QED
  BY <1>1, <1>2, <1>5, <1>6, HereIs

(* Frames that are read. *)
LEMMA PlainSettled ==
  ASSUME Typed, NEW k \in Conn, NEW id \in Id, NEW c \in Chan, c = <<Client(k).Port, id>>,
         NEW m \in PlainMethod, Read(k, id, MethodOf(m))
  PROVE  Settled(c)
<1>1. Demux(c, MethodOf(m))
  BY DEF Read
<1>2. recv'[c] = "recvMethod"
  BY <1>1, PlainRead
<1>3. PICK d : dispatched'[c] = Append(dispatched[c], d) /\ d.method = m
  BY <1>1, PlainRead
<1>4. Intact(c, d)'
  BY <1>3, ChannelAssumption DEF Intact
<1> QED
  BY <1>2, <1>3, <1>4 DEF Settled

(* The method frame of a content is read: the channel gathers that         *)
(* content.                                                                *)
LEMMA MethodOn ==
  ASSUME Typed, Orderly, NEW p \in Peer, NEW k \in Conn, NEW id \in Id, Alive(k),
         UNCHANGED <<capture, ended>>, NEW c \in Chan, c = <<Client(k).Port, id>>,
         NEW y \in Contents(p), NEW n \in 0 .. MaxBody, SendMethod(p, k, id, y, n),
         Read(k, id, MethodOf(y))
  PROVE  message'[c] = y /\ dispatched' = dispatched /\ Aligned(c, y)' /\ Pends(c, y)'
<1>1. y \in ContentMethod
  BY CaptureAssumption DEF Contents
<1>2. /\ recv'[c] = "recvHeader" /\ message'[c] = y /\ dispatched' = dispatched
  BY <1>1, MethodRead DEF Read
<1>3. PICK s \in Conn \X Id : s = <<k, id>>
  OBVIOUS
<1>4. Sent' = Sent \cup {y} /\ y \notin Sent /\ acked' = acked
  BY MethodPeers DEF Typed, SendMethod
<1>5. place'[y] = s
  <2>1. DOMAIN place = Sent
    BY DEF Typed, PeersOK
  <2> QED
    BY <1>3, <1>4, <2>1 DEF SendMethod, Extended
<1>6. PICK v : v = [stage |-> "header", content |-> y]
  BY Zenon
<1>7. outgoing'[<<p, s>>] = v
  <2>1. outgoing' = [outgoing EXCEPT ![<<p, s>>] = v]
    BY <1>3, <1>6, Zenon DEF SendMethod
  <2> QED
    BY <2>1, SlotIs
<1>8. Sender(y) = p
  BY SenderIs
<1>9. (Now(y) = v)'
  BY <1>5, <1>7, <1>8 DEF Now, Sender
<1>10. Aligned(c, y)'
  BY <1>2, <1>6, <1>9 DEF Aligned
<1>11. (ChanOf(y) = c)' /\ (place[y][1] \notin ended)'
  BY <1>3, <1>5 DEF ChanOf, Client, Alive
<1>12. y \in Sent' /\ y \notin acked'
  BY <1>4 DEF Orderly
<1>13. Pends(c, y)'
  BY <1>10, <1>11, <1>12 DEF Pends
<1> QED
  BY <1>2, <1>10, <1>13

(* The first octets of a content: none. *)
LEMMA NoOctets == ASSUME NEW x \in Deliveries \cup Publishings PROVE Body(x, 0, 0) = <<>>
<1>1. Body(x, 0, 0) \in Seq(Octet) /\ Len(Body(x, 0, 0)) = 0
  BY BodyIs, CaptureAssumption
<1> QED
  BY <1>1

(* The frames of content y so far are followed by one more of them: it is  *)
(* still being gathered, or dispatched as it was sent.                     *)
Followed(c, y) ==
  \/ message'[c] = y /\ Aligned(c, y)' /\ dispatched' = dispatched
  \/ /\ recv'[c] = "recvMethod"
     /\ \E d : /\ dispatched'[c] = Append(dispatched[c], d)
               /\ d.method = y /\ Intact(c, d)'

(* That settles the channel. *)
LEMMA FollowedIsSettled ==
  ASSUME Typed, Grows, UNCHANGED <<capture, ended, acked>>, NEW c, NEW y, Followed(c, y),
         Pends(c, y), place[y][1] \notin ended, y \notin acked
  PROVE  Settled(c)
BY PendsAfter DEF Followed, Settled

(* Whatever a channel gathers is a content. *)
LEMMA GatheredIs ==
  ASSUME Typed, ~panicked, NEW c \in Chan, recv[c] # "recvMethod" PROVE message[c] \in ContentMethod
<1>1. recv[c] \in {"recvHeader", "recvContent"} /\ HandlerKnowsPlace
  BY DEF Typed, FullInv, IInv, TypeOK
<1>2. CASE recv[c] = "recvHeader"
  BY <1>1, <1>2 DEF HandlerKnowsPlace, IsContentFrame
<1>3. CASE recv[c] = "recvContent"
  <2>1. PICK i \in DOMAIN wire[c] :
          Gathers(wire[c], i, Len(wire[c]), message[c], header[c], body[c])
    BY <1>1, <1>3 DEF HandlerKnowsPlace
  <2> QED
    BY <2>1, Zenon DEF Gathers, IsContentFrame
<1> QED
  BY <1>1, <1>2, <1>3

(* The header is read where it is awaited. *)
LEMMA HeaderOn ==
  ASSUME Typed, Orderly, NEW p \in Peer, NEW k \in Conn, NEW id \in Id, Aside(k, id),
         NEW c \in Chan, c = <<Client(k).Port, id>>, SendHeader(p, k, id),
         NEW y, y = outgoing[<<p, <<k, id>>>>].content, Read(k, id, HeaderOf(y, size[y])),
         recv[c] = "recvHeader", message[c] = y
  PROVE  Followed(c, y)
<1>1. PICK s \in Conn \X Id : s = <<k, id>>
  OBVIOUS
<1>2. PICK now : now = outgoing[<<p, s>>]
  BY Zenon
<1>3. PICK v : v = IF size[y] = 0 THEN Idle ELSE [stage |-> "body", content |-> y, done |-> 0]
  BY Zenon
<1>4. /\ now.stage = "header" /\ y = now.content /\ UNCHANGED <<size, place, acked>>
      /\ outgoing' = [outgoing EXCEPT ![<<p, s>>] = v]
  BY <1>1, <1>2, <1>3, Zenon DEF SendHeader
<1>5. PICK f : f = HeaderOf(y, size[y])
  BY Zenon
<1>6. y \in Deliveries \cup Publishings /\ y \in Sent /\ place[y] = s /\ Sender(y) = p
  BY <1>2, <1>4, CurrentIs
<1>7. size[y] \in Nat
  BY <1>6 DEF Typed, PeersOK
<1>8. f \in HeaderFrame /\ f.size = size[y] /\ f.properties = y
  BY <1>5, <1>6, <1>7, CaptureAssumption DEF HeaderOf, HeaderFrame
<1>9. HeaderEffect(c, f)
  <2>1. Demux(c, f)
    BY <1>5 DEF Read
  <2> QED
    BY <1>8, <2>1, HeaderRead
<1>10. Grows /\ UNCHANGED <<capture, ended>>
  BY DEF Aside
<1>11. CASE /\ f.size = 0 /\ recv'[c] = "recvMethod"
            /\ \E d : /\ dispatched'[c] = Append(dispatched[c], d)
                      /\ d.method = message[c] /\ d.header = f /\ d.body = <<>>
  <2>1. PICK d : /\ dispatched'[c] = Append(dispatched[c], d)
                 /\ d.method = message[c] /\ d.header = f /\ d.body = <<>>
    BY <1>11
  <2>2. ChanOf(y) = c
    BY <1>1, <1>6 DEF ChanOf
  <2>3. d.body = Body(y, 0, size[y])
    BY <1>6, <1>8, <1>11, <2>1, NoOctets
  <2>4. Intact(c, d)
    BY <1>6, <1>8, <2>1, <2>2, <2>3 DEF Intact
  <2>5. Intact(c, d)'
    BY <1>10, <2>4, IntactGrows
  <2> QED
    BY <1>11, <2>1, <2>5 DEF Followed
<1>12. CASE /\ f.size > 0 /\ recv'[c] = "recvContent"
            /\ message'[c] = message[c] /\ header'[c] = f /\ body'[c] = <<>>
            /\ dispatched' = dispatched
  <2>1. v = [stage |-> "body", content |-> y, done |-> 0]
    BY <1>3, <1>8, <1>12
  <2>2. outgoing'[<<p, s>>] = v
    BY <1>4, SlotIs
  <2>3. (Now(y) = v)'
    BY <1>4, <1>6, <2>2 DEF Now, Sender
  <2>4. /\ Now(y)'.stage = "body" /\ Now(y)'.content = y /\ Now(y)'.done = 0
    BY <2>1, <2>3
  <2>5. header'[c] = HeaderOf(y, size[y])'
    BY <1>4, <1>5, <1>12 DEF HeaderOf
  <2>6. body'[c] = Body(y, 0, Now(y).done)'
    <3>1. body'[c] = Body(y, 0, 0)
      BY <1>6, <1>12, NoOctets
    <3> QED
      BY <2>4, <3>1 DEF Body
  <2>7. Aligned(c, y)'
    BY <1>12, <2>4, <2>5, <2>6 DEF Aligned
  <2> QED
    BY <1>12, <2>7 DEF Followed
<1> QED
  BY <1>9, <1>11, <1>12 DEF HeaderEffect

(* A header is read, awaited or not. *)
LEMMA HeaderSettled ==
  ASSUME Typed, Orderly, Pending, OneWay(capture),
         NEW p \in Peer, NEW k \in Conn, NEW id \in Id, Alive(k), Aside(k, id),
         NEW c \in Chan, c = <<Client(k).Port, id>>, SendHeader(p, k, id),
         NEW y, y = outgoing[<<p, <<k, id>>>>].content, Read(k, id, HeaderOf(y, size[y]))
  PROVE  Settled(c)
<1>1. PICK s \in Conn \X Id : s = <<k, id>>
  OBVIOUS
<1>2. PICK now : now = outgoing[<<p, s>>]
  BY Zenon
<1>3. now.stage = "header" /\ y = now.content /\ UNCHANGED acked /\ ~panicked
  BY <1>1, <1>2, Zenon DEF SendHeader, Read, Demux
<1>4. Grows /\ UNCHANGED <<capture, ended>>
  BY DEF Aside
<1>5. CASE recv[c] = "recvHeader"
  <2>1. PICK x : x = message[c]
    BY Zenon
  <2>2. Pends(c, x)
    BY <1>3, <1>5, <2>1, GatheredIs DEF Pending
  <2>3. /\ x = y /\ Now(x) = now /\ place[x][1] \notin ended
        /\ (Aligned(c, x) /\ x \notin acked) \/ Astray(c, x)
    BY <1>1, <1>2, <1>3, <2>2, HereCurrent
  <2>4. x \notin acked
    BY <1>3, <2>3 DEF Astray, Idle
  <2>5. Followed(c, y)
    BY <1>5, <2>1, <2>3, HeaderOn
  <2> QED
    BY <1>3, <1>4, <2>2, <2>3, <2>4, <2>5, FollowedIsSettled
<1>6. CASE recv[c] # "recvHeader"
  <2>1. PICK f : f = HeaderOf(y, size[y])
    BY Zenon
  <2>2. y \in Deliveries \cup Publishings /\ y \in Sent
    BY <1>1, <1>2, <1>3, CurrentIs
  <2>3. f \in HeaderFrame
    BY <2>1, <2>2, CaptureAssumption DEF HeaderOf, HeaderFrame, Typed, PeersOK
  <2>4. HeaderEffect(c, f)
    BY <2>1, <2>3, HeaderRead DEF Read
  <2> QED
    BY <1>6, <2>4 DEF HeaderEffect, Settled
<1> QED
  BY <1>5, <1>6

(* The n octets b a peer sends next, of the content y with z octets, after *)
(* which it goes on to v. *)
NextOctets(p, k, id, n, now, b, y, i, z, v) ==
  /\ now.stage = "body" /\ UNCHANGED <<size, place, acked>>
  /\ outgoing' = [outgoing EXCEPT ![<<p, <<k, id>>>>] = v]
  /\ y \in Deliveries \cup Publishings /\ y \in Sent /\ place[y] = <<k, id>> /\ Sender(y) = p
  /\ z \in 0 .. MaxBody /\ i \in Nat /\ n \in Nat /\ n > 0
  /\ i + n <= z /\ i + n \in 0 .. MaxBody /\ MaxBody \in Nat
  /\ b = Body(y, i, i + n) /\ b \in Seq(Octet) /\ Len(b) = n
  /\ i + n = z => v = Idle
  /\ i + n # z => v = [stage |-> "body", content |-> y, done |-> i + n]

(* That is what SendBody sends. *)
LEMMA BodyIsNext ==
  ASSUME Typed, Orderly, NEW p \in Peer, NEW k \in Conn, NEW id \in Id,
         NEW n \in 1 .. MaxBody, SendBody(p, k, id, n),
         NEW now, now = outgoing[<<p, <<k, id>>>>],
         NEW b, b = Body(now.content, now.done, now.done + n),
         NEW y, y = now.content, NEW i, i = now.done, NEW z, z = size[y],
         NEW v, v = IF i + n = z THEN Idle ELSE [now EXCEPT !.done = @ + n]
  PROVE  NextOctets(p, k, id, n, now, b, y, i, z, v)
<1>1. PICK s \in Conn \X Id : s = <<k, id>>
  OBVIOUS
<1>2. /\ now.stage = "body" /\ i + n <= z /\ UNCHANGED <<size, place, acked>>
      /\ outgoing' = [outgoing EXCEPT ![<<p, s>>] = v]
  BY <1>1, Zenon DEF SendBody
<1>3. /\ y \in Deliveries \cup Publishings /\ y \in Sent /\ place[y] = s /\ Sender(y) = p
      /\ now \in Stages(Sent)
  BY <1>1, <1>2, CurrentIs
<1>4. z \in 0 .. MaxBody
  BY <1>3 DEF Typed, PeersOK
<1>5. i \in 0 .. MaxBody /\ now = [stage |-> "body", content |-> y, done |-> i]
  BY <1>2, <1>3, StageIs
<1>6. /\ i \in Nat /\ n \in Nat /\ n > 0 /\ i + n \in 0 .. MaxBody /\ i <= i + n /\ MaxBody \in Nat
  BY <1>2, <1>4, <1>5, CaptureAssumption
<1>7. b = Body(y, i, i + n) /\ b \in Seq(Octet) /\ Len(b) = n
  <2>1. Body(y, i, i + n) \in Seq(Octet) /\ Len(Body(y, i, i + n)) = (i + n) - i
    BY <1>3, <1>6, BodyIs, Zenon
  <2> QED
    BY <1>6, <2>1
<1>8. i + n # z => v = [stage |-> "body", content |-> y, done |-> i + n]
  BY <1>5
<1> QED
  BY <1>1, <1>2, <1>3, <1>4, <1>6, <1>7, <1>8 DEF NextOctets

(* A body is read by the channel that has gathered all before it. *)
LEMMA BodyOn ==
  ASSUME Typed, Orderly, NEW p \in Peer, NEW k \in Conn, NEW id \in Id, Aside(k, id),
         NEW c \in Chan, c = <<Client(k).Port, id>>,
         NEW n \in 1 .. MaxBody, SendBody(p, k, id, n),
         NEW now, now = outgoing[<<p, <<k, id>>>>],
         NEW b, b = Body(now.content, now.done, now.done + n), Read(k, id, BodyOf(b)),
         NEW y, y = now.content, Aligned(c, y), Now(y) = now, message[c] = y
  PROVE  Followed(c, y) \/ (panicked' = TRUE /\ dispatched' = dispatched)
<1>1. PICK i, z : i = now.done /\ z = size[y]
  BY Zenon
<1>2. PICK v : v = IF i + n = z THEN Idle ELSE [now EXCEPT !.done = @ + n]
  BY Zenon
<1>3. /\ now.stage = "body" /\ UNCHANGED <<size, place, acked>>
      /\ outgoing' = [outgoing EXCEPT ![<<p, <<k, id>>>>] = v]
      /\ y \in Deliveries \cup Publishings /\ y \in Sent /\ place[y] = <<k, id>> /\ Sender(y) = p
      /\ z \in 0 .. MaxBody /\ i \in Nat /\ n \in Nat /\ n > 0
      /\ i + n <= z /\ i + n \in 0 .. MaxBody /\ MaxBody \in Nat
      /\ b = Body(y, i, i + n) /\ b \in Seq(Octet) /\ Len(b) = n
      /\ i + n = z => v = Idle
      /\ i + n # z => v = [stage |-> "body", content |-> y, done |-> i + n]
  <2>1. NextOctets(p, k, id, n, now, b, y, i, z, v)
    BY <1>1, <1>2, BodyIsNext
  <2> QED
    BY <2>1 DEF NextOctets
<1>4. /\ recv[c] = "recvContent" /\ header[c] = HeaderOf(y, z) /\ body[c] = Body(y, 0, i)
  BY <1>1, <1>3 DEF Aligned
<1>5. PICK g : g = body[c] \o b
  BY Zenon
<1>6. g = Body(y, 0, i + n)
  <2>1. i <= i + n
    BY <1>3
  <2>2. Body(y, 0, i) \o Body(y, i, i + n) = Body(y, 0, i + n)
    BY <1>3, <2>1, BodyGrows
  <2> QED
    BY <1>3, <1>4, <1>5, <2>2
<1>7. Len(g) = i + n
  <2>1. 0 \in Nat /\ 0 <= i + n
    BY <1>3
  <2>2. Len(Body(y, 0, i + n)) = (i + n) - 0
    BY <1>3, <2>1, BodyIs, Zenon
  <2> QED
    BY <1>3, <1>6, <2>2
<1>8. BodyEffect(c, g)
  <2>1. PICK f : f = BodyOf(b)
    BY Zenon
  <2>2. f \in BodyFrame /\ f.body = b /\ Demux(c, f)
    BY <1>3, <2>1 DEF BodyOf, BodyFrame, Read
  <2> QED
    BY <1>5, <2>2, BodyRead
<1>9. Grows /\ UNCHANGED <<capture, ended>>
  BY DEF Aside
<1>10. header[c].size = z /\ header[c].properties = y
  BY <1>4 DEF HeaderOf
<1>11. CASE /\ Len(g) >= header[c].size /\ recv'[c] = "recvMethod"
            /\ \E d : /\ dispatched'[c] = Append(dispatched[c], d)
                      /\ d.method = message[c] /\ d.header = header[c] /\ d.body = g
  <2>1. PICK d : /\ dispatched'[c] = Append(dispatched[c], d)
                 /\ d.method = message[c] /\ d.header = header[c] /\ d.body = g
    BY <1>11
  <2>2. i + n = z
    BY <1>3, <1>7, <1>10, <1>11
  <2>3. d.body = Body(y, 0, size[y])
    BY <1>1, <1>6, <2>1, <2>2
  <2>4. ChanOf(y) = c
    BY <1>1, <1>3 DEF ChanOf
  <2>5. Intact(c, d)
    BY <1>3, <1>10, <2>1, <2>3, <2>4 DEF Intact
  <2>6. Intact(c, d)'
    BY <1>9, <2>5, IntactGrows
  <2> QED
    BY <1>11, <2>1, <2>6 DEF Followed
<1>12. CASE /\ ~(Len(g) >= header[c].size) /\ recv'[c] = "recvContent"
            /\ message'[c] = message[c] /\ header'[c] = header[c] /\ body'[c] = g
            /\ dispatched' = dispatched
  <2>1. i + n # z
    BY <1>3, <1>7, <1>10, <1>12
  <2>2. outgoing'[<<p, <<k, id>>>>] = v
    BY <1>3, SlotIs
  <2>3. (Now(y) = v)'
    BY <1>3, <2>2 DEF Now, Sender
  <2>4. /\ Now(y)'.stage = "body" /\ Now(y)'.content = y /\ Now(y)'.done = i + n
    BY <1>3, <2>1, <2>3
  <2>5. header'[c] = HeaderOf(y, size[y])'
    BY <1>1, <1>3, <1>4, <1>12 DEF HeaderOf
  <2>6. body'[c] = Body(y, 0, Now(y).done)'
    BY <1>6, <1>12, <2>4 DEF Body
  <2>7. Aligned(c, y)'
    BY <1>12, <2>4, <2>5, <2>6 DEF Aligned
  <2> QED
    BY <1>12, <2>7 DEF Followed
<1> QED
  BY <1>4, <1>8, <1>11, <1>12 DEF BodyEffect

(* A body is read, awaited or not; of a content gone astray it ends        *)
(* nothing.                                                                *)
LEMMA BodySettled ==
  ASSUME Typed, Orderly, Pending, OneWay(capture),
         NEW p \in Peer, NEW k \in Conn, NEW id \in Id, Alive(k), Aside(k, id),
         NEW c \in Chan, c = <<Client(k).Port, id>>,
         NEW n \in 1 .. MaxBody, SendBody(p, k, id, n),
         NEW now, now = outgoing[<<p, <<k, id>>>>],
         NEW b, b = Body(now.content, now.done, now.done + n), Read(k, id, BodyOf(b))
  PROVE  Settled(c)
<1>1. PICK y, i, z : y = now.content /\ i = now.done /\ z = size[y]
  BY Zenon
<1>2. PICK v : v = IF i + n = z THEN Idle ELSE [now EXCEPT !.done = @ + n]
  BY Zenon
<1>3. /\ now.stage = "body" /\ UNCHANGED <<size, place, acked>>
      /\ outgoing' = [outgoing EXCEPT ![<<p, <<k, id>>>>] = v]
      /\ y \in Deliveries \cup Publishings /\ y \in Sent /\ place[y] = <<k, id>> /\ Sender(y) = p
      /\ z \in 0 .. MaxBody /\ i \in Nat /\ n \in Nat /\ n > 0
      /\ i + n <= z /\ i + n \in 0 .. MaxBody /\ MaxBody \in Nat
      /\ b = Body(y, i, i + n) /\ b \in Seq(Octet) /\ Len(b) = n
      /\ i + n = z => v = Idle
      /\ i + n # z => v = [stage |-> "body", content |-> y, done |-> i + n]
  <2>1. NextOctets(p, k, id, n, now, b, y, i, z, v)
    BY <1>1, <1>2, BodyIsNext
  <2> QED
    BY <2>1 DEF NextOctets
<1>4. PICK g : g = body[c] \o b
  BY Zenon
<1>5. BodyEffect(c, g) /\ ~panicked
  <2>1. PICK f : f = BodyOf(b)
    BY Zenon
  <2>2. f \in BodyFrame /\ f.body = b /\ Demux(c, f)
    BY <1>3, <2>1 DEF BodyOf, BodyFrame, Read
  <2> QED
    BY <1>4, <2>2, BodyRead DEF Demux
<1>6. Grows /\ UNCHANGED <<capture, ended>> /\ lost' = lost
  BY DEF Aside, Read
<1>7. CASE recv[c] # "recvContent"
  BY <1>5, <1>7 DEF BodyEffect, Settled
<1>8. ASSUME recv[c] = "recvContent"
      PROVE  /\ message[c] = y /\ Pends(c, y) /\ Now(y) = now /\ place[y][1] \notin ended
             /\ (Aligned(c, y) /\ y \notin acked) \/ Astray(c, y)
  <2>1. PICK x : x = message[c]
    BY Zenon
  <2>2. Pends(c, x)
    BY <1>5, <1>8, <2>1, GatheredIs DEF Pending
  <2>3. PICK s \in Conn \X Id : s = <<k, id>>
    OBVIOUS
  <2>4. /\ x = y /\ Now(x) = now /\ place[x][1] \notin ended
        /\ (Aligned(c, x) /\ x \notin acked) \/ Astray(c, x)
    BY <1>1, <1>3, <2>2, <2>3, HereCurrent
  <2> QED
    BY <2>1, <2>2, <2>4
<1>9. CASE recv[c] = "recvContent" /\ Aligned(c, y) /\ y \notin acked
  <2>1. Followed(c, y) \/ (panicked' = TRUE /\ dispatched' = dispatched)
    BY <1>1, <1>8, <1>9, BodyOn
  <2>2. CASE Followed(c, y)
    BY <1>3, <1>6, <1>8, <1>9, <2>2, FollowedIsSettled
  <2> QED
    BY <2>1, <2>2 DEF Settled
<1>10. CASE recv[c] = "recvContent" /\ Astray(c, y)
  <2>1. header[c] = HeaderOf(y, z) /\ header[c].size = z /\ Len(body[c]) < i
    <3>1. header[c] = HeaderOf(y, z)
      BY <1>1, <1>10 DEF Astray
    <3>2. Now(y).stage = "body" /\ Now(y).done = i
      BY <1>1, <1>3, <1>8, <1>10
    <3>3. Len(body[c]) < i
      BY <1>10, <3>2 DEF Astray, Idle
    <3> QED
      BY <3>1, <3>3 DEF HeaderOf
  <2>2. Len(g) < i + n
    <3>1. ASSUME NEW r \in Seq(Octet), NEW t \in Seq(Octet)
          PROVE  Len(r) \in Nat /\ Len(r \o t) = Len(r) + Len(t)
      OBVIOUS
    <3>2. body[c] \in Seq(Octet)
      BY DEF Typed, FullInv, IInv, TypeOK
    <3>3. Len(body[c]) \in Nat /\ Len(body[c] \o b) = Len(body[c]) + Len(b)
      BY <1>3, <3>1, <3>2, Zenon
    <3>4. n \in Nat /\ i \in Nat /\ Len(b) = n
      BY <1>3
    <3>5. Len(g) = Len(body[c]) + n
      BY <1>4, <3>3, <3>4
    <3>6. Len(body[c]) < i
      BY <2>1
    <3> QED
      BY <3>3, <3>4, <3>5, <3>6
  <2>3. Len(g) \in Nat /\ ~(Len(g) >= z)
    <3>1. body[c] \in Seq(Octet)
      BY DEF Typed, FullInv, IInv, TypeOK
    <3>2. ASSUME NEW r \in Seq(Octet), NEW t \in Seq(Octet) PROVE Len(r \o t) \in Nat
      OBVIOUS
    <3>3. Len(g) \in Nat
      BY <1>3, <1>4, <3>1, <3>2
    <3> QED
      BY <1>3, <2>2, <3>3
  <2>4. CASE dispatched' = dispatched /\ panicked' = TRUE
    BY <2>4 DEF Settled
  <2>5. CASE /\ recv'[c] = "recvContent" /\ message'[c] = message[c] /\ header'[c] = header[c]
             /\ body'[c] = g /\ dispatched' = dispatched
    <3>1. outgoing'[<<p, <<k, id>>>>] = v
      BY <1>3, SlotIs
    <3>2. (Now(y) = v)'
      BY <1>3, <3>1 DEF Now, Sender
    <3>3. header'[c] = HeaderOf(y, size[y])'
      BY <1>1, <1>3, <2>1, <2>5 DEF HeaderOf
    <3>4. lost' >= 1 /\ (y \in acked' => lost' >= 2)
      BY <1>3, <1>6, <1>10 DEF Astray
    <3>5. Astray(c, y)'
      <4>1. CASE i + n = z
        <5>1. (Now(y) = Idle)' /\ Len(body'[c]) < size'[y]
          BY <1>1, <1>3, <2>2, <2>5, <3>2, <4>1 DEF Idle
        <5> QED
          BY <3>3, <3>4, <5>1 DEF Astray, Idle
      <4>2. CASE i + n # z
        <5>1. Now(y)'.stage = "body" /\ Now(y)'.content = y /\ Now(y)'.done = i + n
          BY <1>3, <3>2, <4>2
        <5>2. Len(body'[c]) < Now(y)'.done
          BY <2>2, <2>5, <5>1
        <5> QED
          BY <3>3, <3>4, <5>1, <5>2 DEF Astray
      <4> QED
        BY <4>1, <4>2
    <3>6. Pends(c, y)'
      BY <1>6, <1>8, <1>10, <3>5, PendsAfter
    <3> QED
      BY <1>8, <1>10, <2>5, <3>6 DEF Settled
  <2> QED
    BY <1>5, <1>10, <2>1, <2>3, <2>4, <2>5 DEF BodyEffect
<1> QED
  BY <1>7, <1>8, <1>9, <1>10

-----------------------------------------------------------------------------
(* The contents are intact.                                                *)

(* Whatever is sent, read or lost, the contents stay intact. *)
LEMMA SoundSend ==
  ASSUME Typed, Orderly, Pending, ContentIsIntact, OneWay(capture), Tolerable(capture),
         NEW k \in Conn, NEW id \in Id, Send(k, id)
  PROVE  Pending' /\ ContentIsIntact'
<1>1. /\ UNCHANGED <<capture, ended>> /\ Alive(k) /\ Aside(k, id) /\ PeersOK
      /\ capture \in Captures /\ "client" \in Peer
  BY SendAside DEF Send, Typed, PeersOK, Peer
<1>2. PICK c \in Chan : c = <<Client(k).Port, id>>
  BY <1>1, CaptureIs, CaptureAssumption
<1>3. ASSUME NEW p \in Peer, NEW f \in Frame, OnWire(p, k, id, f),
             Read(k, id, f) \/ Lost(k) => Settled(c)
      PROVE  Pending' /\ ContentIsIntact'
  <2>1. Read(k, id, f) \/ Lost(k)
    BY <1>1, <1>3, OnWireIs
  <2>2. Demux(c, f) \/ (UNCHANGED vars /\ ~panicked)
    BY <1>2, <2>1 DEF Read, Lost
  <2>3. Settled(c)
    BY <1>3, <2>1
  <2> QED
    BY <1>1, <1>2, <2>2, <2>3, FrameStep DEF Settled
<1>4. CASE SendOpen(k, id)
  <2>1. OnWire("client", k, id, MethodOf(Open)) /\ Open \in PlainMethod /\ MethodOf(Open) \in Frame
    BY <1>4, CaptureAssumption, FramesAre DEF SendOpen, MethodOf
  <2> QED
    BY <1>1, <1>2, <1>3, <1>4, <2>1, OpenLost, PlainSettled
<1>5. ASSUME NEW p \in Peer, NEW x \in Contents(p), NEW n \in 0 .. MaxBody, SendMethod(p, k, id, x, n)
      PROVE  Pending' /\ ContentIsIntact'
  <2>1. OnWire(p, k, id, MethodOf(x)) /\ MethodOf(x) \in Frame
    BY <1>5, FramesAre DEF SendMethod, Contents, MethodOf
  <2>2. Read(k, id, MethodOf(x)) => Settled(c)
    BY <1>1, <1>2, <1>5, MethodOn DEF Settled
  <2>3. Lost(k) => Settled(c)
    BY <1>1, <1>2, <1>5, MethodLost
  <2> QED
    BY <1>3, <2>1, <2>2, <2>3
<1>6. ASSUME NEW p \in Peer, SendHeader(p, k, id) PROVE Pending' /\ ContentIsIntact'
  <2>1. PICK y : y = outgoing[<<p, <<k, id>>>>].content
    BY Zenon
  <2>2. OnWire(p, k, id, HeaderOf(y, size[y])) /\ HeaderOf(y, size[y]) \in Frame
    BY <1>1, <1>6, <2>1, HeaderSent, Zenon DEF SendHeader, HeaderOf
  <2>3. Read(k, id, HeaderOf(y, size[y])) => Settled(c)
    BY <1>1, <1>2, <1>6, <2>1, HeaderSettled
  <2>4. Lost(k) => Settled(c)
    BY <1>1, <1>2, <1>6, HeaderLost
  <2> QED
    BY <1>3, <2>2, <2>3, <2>4
<1>7. ASSUME NEW p \in Peer, NEW n \in 1 .. MaxBody, SendBody(p, k, id, n)
      PROVE  Pending' /\ ContentIsIntact'
  <2>1. PICK now : now = outgoing[<<p, <<k, id>>>>]
    BY Zenon
  <2>2. PICK b : b = Body(now.content, now.done, now.done + n)
    BY Zenon
  <2>3. OnWire(p, k, id, BodyOf(b)) /\ BodyOf(b) \in Frame
    BY <1>1, <1>7, <2>1, <2>2, BodySent, Zenon DEF SendBody, BodyOf
  <2>4. Read(k, id, BodyOf(b)) => Settled(c)
    BY <1>1, <1>2, <1>7, <2>1, <2>2, BodySettled
  <2>5. Lost(k) => Settled(c)
    BY <1>1, <1>2, <1>7, BodyLost
  <2> QED
    BY <1>3, <2>3, <2>4, <2>5
<1>8. ASSUME NEW x \in Deliveries, SendAck(k, id, x) PROVE Pending' /\ ContentIsIntact'
  <2>1. OnWire("client", k, id, MethodOf(Ack(x))) /\ Ack(x) \in PlainMethod /\ MethodOf(Ack(x)) \in Frame
    BY <1>8, CaptureAssumption, FramesAre DEF SendAck, MethodOf
  <2> QED
    BY <1>1, <1>2, <1>3, <1>8, <2>1, AckLost, PlainSettled
<1> QED
  BY <1>4, <1>5, <1>6, <1>7, <1>8 DEF Send

(* Connections that break off, and steps of nobody. *)
LEMMA SoundQuiet ==
  ASSUME Typed, Orderly, Pending, ContentIsIntact, ended \subseteq ended',
         UNCHANGED <<vars, capture, outgoing, size, place, acked, lost>>
  PROVE  Pending' /\ ContentIsIntact'
<1>1. Grows /\ Sent' = Sent /\ Conn' = Conn /\ \A j : Before(j)' = Before(j) /\ Client(j)' = Client(j)
  BY SameCapture DEF Grows, Sent
<1>2. UNCHANGED <<recv, message, header, body, panicked, dispatched>>
  BY DEF vars
<1>3. ASSUME NEW c \in Chan, NEW x, Pends(c, x) PROVE Pends(c, x)'
  <2>1. x \in Sent /\ ChanOf(x) = c /\ (ChanOf(x) = c)' /\ x \in Sent'
    BY <1>1, <1>3 DEF Pends, ChanOf, Client
  <2>2. Now(x)' = Now(x)
    BY DEF Now, Sender
  <2>3. CASE Aligned(c, x) /\ x \notin acked /\ place[x][1] \notin ended'
    <3>1. Aligned(c, x)'
      BY <1>1, <1>2, <2>1, <2>2, <2>3, StaysAligned
    <3> QED
      BY <2>1, <2>3, <3>1 DEF Pends
  <2>4. CASE Astray(c, x) /\ place[x][1] \notin ended'
    <3>1. lost \in Nat /\ lost' = lost
      BY CaptureIs, CaptureAssumption DEF Typed, PeersOK
    <3>2. Astray(c, x)'
      BY <1>1, <1>2, <2>1, <2>2, <2>4, <3>1, StaysAstray
    <3> QED
      BY <2>1, <2>4, <3>2 DEF Pends
  <2>5. CASE place[x][1] \in ended /\ Broken(c, x)
    <3>1. Broken(c, x)'
      BY <1>1, <2>5 DEF Broken
    <3> QED
      BY <2>1, <2>5, <3>1 DEF Pends
  <2>6. CASE place[x][1] \notin ended /\ place[x][1] \in ended'
    <3>1. c[2] \in Id
      BY CaptureAssumption
    <3>2. PICK i, m : i = place[x][1] /\ m = c[2]
      BY Zenon
    <3>3. ASSUME NEW j \in Conn, i \in Before(j)
          PROVE  /\ \A p \in Peer : outgoing[<<p, <<j, m>>>>].stage \in {"idle", "open"}
                 /\ outgoing[<<"client", <<j, m>>>>].stage # "idle"
      <4>1. ~(Before(j) \subseteq ended)
        BY <2>6, <3>2, <3>3
      <4>2. outgoing[<<"client", <<j, m>>>>].stage = "open" /\ outgoing[<<"server", <<j, m>>>>] = Idle
        BY <3>1, <3>2, <4>1 DEF Orderly, NotYet
      <4> QED
        BY <4>2 DEF Peer, Idle
    <3>4. Broken(c, x)'
      <4>1. (place[x][1] = i)' /\ c[2] = m
        BY <3>2
      <4> QED
        BY <1>1, <3>3, <4>1 DEF Broken
    <3> QED
      BY <2>1, <2>6, <3>4 DEF Pends
  <2> QED
    BY <1>3, <2>3, <2>4, <2>5, <2>6 DEF Pends
<1>4. Pending'
  BY <1>2, <1>3 DEF Pending
<1>5. ContentIsIntact'
  <2>1. ASSUME NEW c \in Chan, NEW n \in DOMAIN dispatched'[c], NEW d, d = dispatched'[c][n]
        PROVE  Intact(c, d)'
    <3>1. Intact(c, d)
      BY <1>2, <2>1, IntactIs
    <3> QED
      BY <1>1, <3>1, IntactGrows
  <2> QED
    BY <2>1, AllIntact
<1> QED
  BY <1>4, <1>5

(* Nothing is gathered or dispatched initially. *)
LEMMA SoundInit == CaptureInit => Pending /\ ContentIsIntact
BY DEF CaptureInit, Init, Pending, ContentIsIntact

(* Every step keeps the contents intact. *)
LEMMA SoundStep ==
  ASSUME \A x \in Captures : OneWay(x) /\ Tolerable(x)
  PROVE  Typed /\ Orderly /\ Pending /\ ContentIsIntact /\ [CaptureNext]_captureVars
           => Pending' /\ ContentIsIntact'
<1> SUFFICES ASSUME Typed, Orderly, Pending, ContentIsIntact, [CaptureNext]_captureVars
             PROVE  Pending' /\ ContentIsIntact'
  OBVIOUS
<1>1. OneWay(capture) /\ Tolerable(capture)
  BY DEF Typed, PeersOK
<1>2. CASE UNCHANGED captureVars
  BY <1>2, SoundQuiet DEF captureVars
<1>3. ASSUME NEW k \in Conn, Break(k) PROVE Pending' /\ ContentIsIntact'
  BY <1>3, SoundQuiet DEF Break
<1> QED
  BY <1>1, <1>2, <1>3, SoundSend DEF CaptureNext

(***************************************************************************)
(* A content message handed to dispatch is the one its sender sent, with   *)
(* all its octets, also after a connection on the same port that broke off *)
(* in the middle of a content: whatever the captures, as long as on every  *)
(* connection one of the peers sends contents, and no more is missing than *)
(* is tolerable.                                                           *)
(***************************************************************************)
THEOREM ContentArrivesIntact ==
  ASSUME \A x \in Captures : OneWay(x) /\ Tolerable(x)
  PROVE  CaptureSpec => []ContentIsIntact
<1>1. Typed /\ Orderly /\ Pending /\ ContentIsIntact /\ [CaptureNext]_captureVars
        => Pending' /\ ContentIsIntact'
  BY SoundStep
<1> QED
  BY <1>1, AlwaysTyped, OrderlyInit, OrderlyStep, SoundInit, PTL DEF CaptureSpec

-----------------------------------------------------------------------------
(* What a missing frame costs.                                             *)

(* Every frame of x so far has been read, or was before its connection     *)
(* broke off, and there is more of x to come.                              *)
OnTrack(x) ==
  /\ Now(x).stage \in {"header", "body"} /\ Now(x).content = x
  /\ place[x][1] \in ended \/ (message[ChanOf(x)] = x /\ Aligned(ChanOf(x), x))

Missed == {x \in Sent : x \notin Arrived /\ ~OnTrack(x)}

(* No body is larger than what can be allocated. *)
Fits == ~panicked /\ \A c \in Chan : recv[c] = "recvContent" => header[c].size <= MaxBody

Fitting(f) ==
  \/ f \in MethodFrame
  \/ f \in HeaderFrame /\ f.size <= MaxBody
  \/ f \in BodyFrame

(* The frames the peers send do not make a handler panic. *)
LEMMA FitsFrame ==
  ASSUME Typed, Fits, MaxBody <= MaxSlice, NEW c \in Chan, NEW f \in Frame, Fitting(f), Demux(c, f)
  PROVE  Fits'
<1>1. TypeOK /\ panicked = FALSE /\ header[c] \in HeaderFrame \cup {NoHeader}
  BY DEF Typed, FullInv, IInv, TypeOK, Demux
<1>2. SUFFICES panicked' = FALSE /\ (recv'[c] = "recvContent" => header'[c].size <= MaxBody)
  BY <1>1, OthersUntouched DEF Fits
<1>3. CASE f \in MethodFrame
  <2>1. PICK m \in Method : f = MethodOf(m)
    BY <1>3 DEF MethodFrame, MethodOf
  <2>2. CASE m \in ContentMethod
    BY <2>1, <2>2, MethodRead
  <2>3. CASE m \in PlainMethod
    <3>1. recv'[c] = "recvMethod" /\ panicked' = FALSE
      BY <2>1, <2>3, PlainRead
    <3> QED
      BY <3>1
  <2> QED
    BY <2>1, <2>2, <2>3 DEF Method
<1>4. CASE f \in HeaderFrame /\ f.size <= MaxBody
  <2>1. HeaderEffect(c, f) /\ panicked' = FALSE
    BY <1>4, HeaderRead
  <2> QED
    BY <1>4, <2>1 DEF HeaderEffect
<1>5. CASE f \in BodyFrame
  <2>1. PICK g : g = body[c] \o f.body
    BY Zenon
  <2>2. BodyEffect(c, g)
    BY <1>5, <2>1, BodyRead
  <2>3. ~(recv[c] = "recvContent" /\ header[c].size > MaxSlice)
    <3>1. SUFFICES ASSUME recv[c] = "recvContent" PROVE ~(header[c].size > MaxSlice)
      OBVIOUS
    <3>2. header[c].size <= MaxBody
      BY <3>1 DEF Fits
    <3>3. PICK i \in DOMAIN wire[c] :
            Gathers(wire[c], i, Len(wire[c]), message[c], header[c], body[c])
      BY <1>1, <3>1 DEF Typed, FullInv, IInv, HandlerKnowsPlace
    <3>4. header[c].kind = "header"
      BY <3>3, Zenon DEF Gathers
    <3>5. header[c].size \in Nat
      BY <1>1, <3>4 DEF NoHeader, HeaderFrame
    <3> QED
      BY <3>2, <3>5, CaptureAssumption, ChannelAssumption
  <2> QED
    BY <2>2, <2>3 DEF BodyEffect, Fits
<1> QED
  BY <1>3, <1>4, <1>5 DEF Fitting

(* The contents of other channels and connections stay on track. *)
LEMMA TrackElsewhere ==
  ASSUME Typed, Orderly, NEW k \in Conn, NEW id \in Id, Alive(k), Aside(k, id),
         NEW c \in Chan, c = <<Client(k).Port, id>>,
         NEW f \in Frame, Demux(c, f) \/ UNCHANGED vars,
         NEW x \in Sent, place[x] # <<k, id>>, OnTrack(x)
  PROVE  OnTrack(x)'
<1>1. Grows /\ UNCHANGED <<capture, ended>>
  BY DEF Aside
<1>2. PICK t \in Conn \X Id : t = place[x]
  BY DEF Typed, PeersOK
<1>3. Sender(x) \in Peer
  BY SenderIs DEF Typed, PeersOK
<1>4. outgoing'[<<Sender(x), t>>] = outgoing[<<Sender(x), t>>]
  BY <1>2, <1>3 DEF Aside
<1>5. /\ Now(x)' = Now(x) /\ place'[x] = place[x] /\ ChanOf(x)' = ChanOf(x)
  BY <1>1, <1>2, <1>4, NowStays
<1>6. CASE place[x][1] \in ended
  <2>1. (place[x][1] \in ended)'
    BY <1>1, <1>5, <1>6
  <2> QED
    BY <1>5, <2>1 DEF OnTrack
<1>7. CASE place[x][1] \notin ended
  <2>1. PICK e : e = ChanOf(x)
    BY Zenon
  <2>2. e \in Chan
    BY <1>2, <2>1, CaptureIs, CaptureAssumption DEF ChanOf, Typed, PeersOK
  <2>3. e # c
    <3>1. SUFFICES ASSUME e = c PROVE FALSE
      OBVIOUS
    <3>2. Client(t[1]).Port = Client(k).Port /\ t[2] = id
      BY <1>2, <2>1, <3>1 DEF ChanOf
    <3>3. Before(t[1]) \subseteq ended
      BY <1>2 DEF Orderly, SentUp
    <3>4. t[1] \in Before(k) \cup {k}
      BY <3>2, <3>3, OneAlive
    <3>5. t[1] = k
      BY <1>2, <1>7, <3>4 DEF Alive
    <3> QED
      BY <1>2, <3>2, <3>5, PairIs
  <2>4. message'[e] = message[e] /\ recv'[e] = recv[e] /\ header'[e] = header[e] /\ body'[e] = body[e]
    <3>1. CASE Demux(c, f)
      BY <2>2, <2>3, <3>1, OthersUntouched DEF Typed, FullInv, IInv
    <3> QED
      BY <3>1 DEF vars
  <2>5. message[e] = x /\ Aligned(e, x)
    BY <1>7, <2>1 DEF OnTrack
  <2>6. Aligned(e, x)'
    BY <1>1, <1>5, <2>4, <2>5, StaysAligned
  <2>7. (message[ChanOf(x)] = x /\ Aligned(ChanOf(x), x))'
    <3>1. ChanOf(x)' = e
      BY <1>5, <2>1
    <3> QED
      BY <2>4, <2>5, <2>6, <3>1 DEF Aligned
  <2> QED
    BY <1>5, <2>7 DEF OnTrack
<1> QED
  BY <1>6, <1>7

(* What has arrived has arrived. *)
LEMMA ArrivedGrows ==
  ASSUME Typed, Grows, NEW c \in Chan, NEW f \in Frame, Demux(c, f) \/ UNCHANGED vars
  PROVE  Arrived \subseteq Arrived'
<1>1. SUFFICES ASSUME NEW x \in Sent, NEW e \in Chan, NEW n \in DOMAIN dispatched[e],
                      dispatched[e][n].method = x
               PROVE  n \in DOMAIN dispatched'[e] /\ dispatched'[e][n] = dispatched[e][n]
  BY DEF Arrived, Grows
<1>2. TypeOK /\ HandlerKnowsPlace
  BY DEF Typed, FullInv, IInv
<1>3. CASE dispatched'[e] = dispatched[e]
  BY <1>3
<1>4. ASSUME NEW d, dispatched'[e] = Append(dispatched[e], d)
      PROVE  n \in DOMAIN dispatched'[e] /\ dispatched'[e][n] = dispatched[e][n]
  <2>1. dispatched[e] \in Seq(Message)
    BY <1>2 DEF TypeOK
  <2> QED
    BY <1>4, <2>1
<1>5. CASE Demux(c, f)
  <2>1. CASE e = c
    BY <1>2, <1>3, <1>4, <1>5, <2>1, DispatchStep
  <2>2. CASE e # c
    BY <1>2, <1>3, <1>5, <2>2, OthersUntouched
  <2> QED
    BY <2>1, <2>2
<1> QED
  BY <1>3, <1>5 DEF vars

(* What is dispatched by this step has arrived after it. *)
LEMMA ArrivesNow ==
  ASSUME Typed, NEW c \in Chan, NEW y \in Sent', NEW d,
         dispatched'[c] = Append(dispatched[c], d), d.method = y
  PROVE  y \in Arrived'
<1>1. dispatched[c] \in Seq(Message)
  BY DEF Typed, FullInv, IInv, TypeOK
<1>2. PICK n : n = Len(dispatched[c]) + 1
  BY Zenon
<1>3. n \in DOMAIN dispatched'[c] /\ dispatched'[c][n] = d
  <2>1. PICK s, r : s = dispatched[c] /\ r = dispatched'[c]
    BY Zenon
  <2>2. DOMAIN r = 1 .. n /\ r[n] = d
    BY <1>1, <1>2, <2>1, AppendIs
  <2>3. n \in Nat /\ n >= 1
    BY <1>1, <1>2
  <2> QED
    BY <2>1, <2>2, <2>3
<1> QED
  BY <1>3 DEF Arrived

(* A frame of content y, or of none: a content is missed by it only if the *)
(* frame is, and that is y.                                                *)
LEMMA MissedFrame ==
  ASSUME Typed, Orderly, Cardinality(Missed) <= lost, IsFiniteSet(Sent'),
         NEW k \in Conn, NEW id \in Id, Alive(k), Aside(k, id),
         NEW c \in Chan, c = <<Client(k).Port, id>>, NEW f \in Frame,
         \/ Demux(c, f) /\ lost' = lost
         \/ UNCHANGED vars /\ lost' = lost + 1,
         NEW y, Sent' \subseteq Sent \cup {y},
         \A x \in Sent : place[x] = <<k, id>> /\ OnTrack(x) => x = y,
         lost' = lost /\ y \in Sent' /\ (y \in Sent => place[y] = <<k, id>> /\ OnTrack(y))
           => y \in Arrived' \/ OnTrack(y)'
  PROVE  (Cardinality(Missed) <= lost)'
<1>1. Arrived \subseteq Arrived'
  BY ArrivedGrows DEF Aside
<1>2. ASSUME NEW x \in Missed', x \notin Missed PROVE x = y
  <2>1. SUFFICES ASSUME x # y PROVE FALSE
    OBVIOUS
  <2>2. x \in Sent /\ x \notin Arrived /\ ~OnTrack(x)'
    BY <1>1, <1>2, <2>1 DEF Missed
  <2>3. OnTrack(x)
    BY <1>2, <2>2 DEF Missed
  <2>4. place[x] # <<k, id>>
    BY <2>1, <2>2, <2>3
  <2> QED
    BY <2>2, <2>3, <2>4, TrackElsewhere
<1>3. lost' = lost => Missed' \subseteq Missed
  <2>1. SUFFICES ASSUME lost' = lost, NEW x \in Missed', x \notin Missed PROVE FALSE
    OBVIOUS
  <2>2. x = y /\ y \in Sent' /\ y \notin Arrived' /\ ~OnTrack(y)'
    BY <1>2, <2>1 DEF Missed
  <2>3. y \in Sent /\ ~(place[y] = <<k, id>> /\ OnTrack(y))
    BY <2>1, <2>2
  <2>4. OnTrack(y)
    BY <1>1, <2>1, <2>2, <2>3 DEF Missed
  <2> QED
    BY <2>2, <2>3, <2>4, TrackElsewhere
<1>4. IsFiniteSet(Missed) /\ IsFiniteSet(Missed') /\ lost \in Nat
  BY FS_Subset DEF Missed, Orderly, Aside
<1>5. Cardinality(Missed) \in Nat /\ Cardinality(Missed') \in Nat
  BY <1>4, FS_CardinalityType
<1>6. CASE lost' = lost
  <2>1. Cardinality(Missed') <= Cardinality(Missed)
    BY <1>3, <1>4, <1>6, FS_Subset
  <2> QED
    BY <1>4, <1>5, <1>6, <2>1
<1>7. CASE lost' = lost + 1
  <2>1. Missed' \subseteq Missed \cup {y}
    BY <1>2
  <2>2. /\ IsFiniteSet(Missed \cup {y})
        /\ Cardinality(Missed \cup {y}) <= Cardinality(Missed) + 1
    <3>1. PICK M : M = Missed
      BY Zenon
    <3>2. /\ IsFiniteSet(M \cup {y})
          /\ Cardinality(M \cup {y}) = IF y \in M THEN Cardinality(M) ELSE Cardinality(M) + 1
      BY <1>4, <3>1, FS_AddElement
    <3>3. Cardinality(M) \in Nat
      BY <1>5, <3>1
    <3>4. Cardinality(M \cup {y}) <= Cardinality(M) + 1
      BY <3>2, <3>3
    <3> QED
      BY <3>1, <3>2, <3>4
  <2>3. Cardinality(Missed') <= Cardinality(Missed \cup {y})
    BY <2>1, <2>2, FS_Subset
  <2>4. Cardinality(Missed \cup {y}) \in Nat
    BY <2>2, FS_CardinalityType
  <2> QED
    BY <1>4, <1>5, <1>7, <2>2, <2>3, <2>4
<1> QED
  BY <1>6, <1>7

(* Only the content a peer is sending can be on track on its channel. *)
LEMMA NoneOnTrack ==
  ASSUME Typed, Orderly, NEW s \in Conn \X Id,
         \A p \in Peer : outgoing[<<p, s>>].stage \notin {"header", "body"},
         NEW x \in Sent, place[x] = s
  PROVE  ~OnTrack(x)
<1>1. Sender(x) \in Peer
  BY SenderIs DEF Typed, PeersOK
<1> QED
  BY <1>1 DEF OnTrack, Now

(* And that is the content the peer is in the middle of. *)
LEMMA OneOnTrack ==
  ASSUME Typed, Orderly, OneWay(capture), NEW p \in Peer, NEW s \in Conn \X Id,
         capture.conns[s[1]].sends[p] > 0, NEW x \in Sent, place[x] = s, OnTrack(x)
  PROVE  outgoing[<<p, s>>].stage \in {"header", "body"} /\ outgoing[<<p, s>>].content = x
<1>1. Sender(x) = p
  BY SameSender
<1> QED
  BY <1>1 DEF OnTrack, Now

(* Nothing is under way on a channel that is being opened. *)
LEMMA MissedOpen ==
  ASSUME Typed, Orderly, NEW k \in Conn, NEW id \in Id, SendOpen(k, id),
         NEW x \in Sent, place[x] = <<k, id>>
  PROVE  ~OnTrack(x)
<1>1. PICK s \in Conn \X Id : s = <<k, id>>
  OBVIOUS
<1>2. outgoing[<<"client", s>>].stage = "open"
  BY <1>1 DEF SendOpen
<1>3. outgoing[<<"server", s>>].stage = "idle"
  BY <1>2 DEF Orderly, OpensFirst, Idle
<1>4. \A p \in Peer : outgoing[<<p, s>>].stage \notin {"header", "body"}
  BY <1>2, <1>3 DEF Peer
<1> QED
  BY <1>1, <1>4, NoneOnTrack

(* With a prefetch of one nothing else is under way when a delivery is     *)
(* acknowledged.                                                           *)
LEMMA MissedAck ==
  ASSUME Typed, Orderly, Prefetch <= 1, NEW k \in Conn, NEW id \in Id,
         NEW y \in Deliveries, SendAck(k, id, y), NEW x \in Sent, place[x] = <<k, id>>
  PROVE  ~OnTrack(x)
<1>1. PICK s \in Conn \X Id : s = <<k, id>>
  OBVIOUS
<1>2. /\ outgoing[<<"client", s>>].stage = "idle"
      /\ y \in Sent \cap Deliveries /\ y \notin acked /\ place[y] = s
      /\ outgoing[<<"server", s>>].stage # "idle" => outgoing[<<"server", s>>].content # y
  BY <1>1 DEF SendAck, Idle
<1>3. outgoing[<<"server", s>>].stage \notin {"header", "body"}
  <2>1. SUFFICES ASSUME outgoing[<<"server", s>>].stage \in {"header", "body"} PROVE FALSE
    OBVIOUS
  <2>2. PICK z : z = outgoing[<<"server", s>>].content
    BY Zenon
  <2>3. z \in Deliveries /\ z \in Sent /\ place[z] = s /\ z \notin acked
    BY <2>1, <2>2 DEF Orderly, Sending, Sends, Own, Contents, Peer
  <2>4. z = y
    BY <1>2, <2>3 DEF Orderly, OneUnacked
  <2> QED
    BY <1>2, <2>1, <2>2, <2>4
<1>4. \A p \in Peer : outgoing[<<p, s>>].stage \notin {"header", "body"}
  BY <1>2, <1>3 DEF Peer
<1> QED
  BY <1>1, <1>4, NoneOnTrack

(* What p starts on or goes on with is on track, or has arrived. *)
LEMMA AlignedIsOnTrack ==
  ASSUME NEW c, NEW x, (ChanOf(x) = c)', message'[c] = x, Aligned(c, x)' PROVE OnTrack(x)'
<1>1. /\ (Now(x).stage \in {"header", "body"})' /\ (Now(x).content = x)'
  BY DEF Aligned
<1>2. (message[ChanOf(x)] = x /\ Aligned(ChanOf(x), x))'
  BY DEF Aligned
<1> QED
  BY <1>1, <1>2 DEF OnTrack

(* A content followed by its next frame is on track, or arrives. *)
LEMMA FollowedIsFound ==
  ASSUME Typed, Grows, UNCHANGED capture, NEW c \in Chan, NEW y \in Sent, ChanOf(y) = c,
         Followed(c, y)
  PROVE  y \in Arrived' \/ OnTrack(y)'
<1>1. y \in Sent' /\ (ChanOf(y) = c)'
  BY DEF Grows, ChanOf, Client
<1>2. CASE message'[c] = y /\ Aligned(c, y)'
  BY <1>1, <1>2, AlignedIsOnTrack
<1>3. CASE \E d : dispatched'[c] = Append(dispatched[c], d) /\ d.method = y
  BY <1>1, <1>3, ArrivesNow
<1> QED
  BY <1>2, <1>3 DEF Followed

Contained == Fits /\ Cardinality(Missed) <= lost

(* Whatever is sent, read or lost: a loss costs one content at most. *)
LEMMA ContainedSend ==
  ASSUME Typed, Orderly, Contained, OneWay(capture), Prefetch <= 1, MaxBody <= MaxSlice,
         NEW k \in Conn, NEW id \in Id, Send(k, id)
  PROVE  Contained'
<1>1. /\ UNCHANGED <<capture, ended>> /\ Alive(k) /\ Aside(k, id) /\ Grows /\ PeersOK
      /\ capture \in Captures /\ "client" \in Peer /\ IsFiniteSet(Sent')
  <2>1. IsFiniteSet(Sent)'
    BY OrderlySend DEF Orderly
  <2> QED
    BY <2>1, SendAside DEF Send, Typed, PeersOK, Peer, Aside
<1>2. PICK c \in Chan : c = <<Client(k).Port, id>>
  BY <1>1, CaptureIs, CaptureAssumption
<1>3. PICK s \in Conn \X Id : s = <<k, id>>
  OBVIOUS
<1>4. ASSUME NEW p \in Peer, NEW f \in Frame, OnWire(p, k, id, f), Fitting(f),
             NEW y, Sent' \subseteq Sent \cup {y},
             \A x \in Sent : place[x] = s /\ OnTrack(x) => x = y,
             Read(k, id, f) /\ ~panicked' /\ y \in Sent' /\ (y \in Sent => place[y] = s /\ OnTrack(y))
               => y \in Arrived' \/ OnTrack(y)'
      PROVE  Contained'
  <2>1. Read(k, id, f) \/ Lost(k)
    BY <1>1, <1>4, OnWireIs
  <2>2. Fits'
    <3>1. CASE Read(k, id, f)
      BY <1>2, <1>4, <3>1, FitsFrame DEF Contained, Read
    <3>2. CASE Lost(k)
      BY <3>2 DEF Lost, vars, Contained, Fits
    <3> QED
      BY <2>1, <3>1, <3>2
  <2>3. \/ Demux(c, f) /\ lost' = lost
        \/ UNCHANGED vars /\ lost' = lost + 1
    BY <1>2, <2>1 DEF Read, Lost
  <2>4. lost' = lost => Read(k, id, f)
    <3>1. lost \in Nat
      BY <1>1 DEF Aside
    <3> QED
      BY <2>1, <3>1 DEF Lost
  <2>5. lost' = lost /\ y \in Sent' /\ (y \in Sent => place[y] = s /\ OnTrack(y))
          => y \in Arrived' \/ OnTrack(y)'
    BY <1>4, <2>2, <2>4 DEF Fits
  <2>6. Cardinality(Missed) <= lost
    BY DEF Contained
  <2>7. (Cardinality(Missed) <= lost)'
    BY <1>1, <1>2, <1>3, <1>4, <2>3, <2>5, <2>6, MissedFrame
  <2> QED
    BY <2>2, <2>7 DEF Contained
<1>5. ASSUME NEW m \in Method PROVE Fitting(MethodOf(m))
  BY DEF Fitting, MethodOf, MethodFrame
<1>6. CASE SendOpen(k, id)
  <2>1. OnWire("client", k, id, MethodOf(Open)) /\ Open \in Method /\ MethodOf(Open) \in Frame
    BY <1>6, CaptureAssumption, FramesAre DEF SendOpen, MethodOf, Method
  <2>2. Sent' = Sent
    BY <1>6 DEF SendOpen, Sent
  <2>3. PICK y : y \notin Sent
    BY <1>1, CaptureAssumption, ChannelAssumption DEF PeersOK, Method
  <2> QED
    BY <1>1, <1>3, <1>4, <1>5, <1>6, <2>1, <2>2, <2>3, MissedOpen
<1>7. ASSUME NEW x \in Deliveries, SendAck(k, id, x) PROVE Contained'
  <2>1. OnWire("client", k, id, MethodOf(Ack(x))) /\ Ack(x) \in Method /\ MethodOf(Ack(x)) \in Frame
    BY <1>7, CaptureAssumption, FramesAre DEF SendAck, MethodOf, Method
  <2>2. Sent' = Sent
    BY <1>7 DEF SendAck, Sent
  <2>3. PICK y : y \notin Sent
    BY <1>1, CaptureAssumption, ChannelAssumption DEF PeersOK, Method
  <2> QED
    BY <1>1, <1>3, <1>4, <1>5, <1>7, <2>1, <2>2, <2>3, MissedAck
<1>8. ASSUME NEW p \in Peer, NEW y \in Contents(p), NEW n \in 0 .. MaxBody, SendMethod(p, k, id, y, n)
      PROVE  Contained'
  <2>1. OnWire(p, k, id, MethodOf(y)) /\ MethodOf(y) \in Frame /\ y \in Method
    BY <1>8, FramesAre, CaptureAssumption DEF SendMethod, Contents, MethodOf, Method
  <2>2. Sent' = Sent \cup {y}
    BY <1>1, <1>8, MethodPeers
  <2>3. ASSUME NEW x \in Sent, place[x] = s, OnTrack(x) PROVE FALSE
    <3>1. outgoing[<<p, s>>] = Idle /\ Cardinality(SentBy(p, k)) < capture.conns[k].sends[p]
      BY <1>3, <1>8, Zenon DEF SendMethod
    <3>2. IsFiniteSet(SentBy(p, k))
      BY FS_Subset DEF SentBy, Orderly
    <3>3. Cardinality(SentBy(p, k)) \in Nat /\ capture.conns[k].sends[p] \in Nat
      BY <1>1, <3>2, FS_CardinalityType, CaptureIs
    <3>4. capture.conns[k].sends[p] > 0
      BY <3>1, <3>3
    <3>5. s[1] = k
      BY <1>3
    <3> QED
      BY <2>3, <3>1, <3>4, <3>5, OneOnTrack DEF Idle
  <2>4. Read(k, id, MethodOf(y)) => OnTrack(y)'
    <3>1. SUFFICES ASSUME Read(k, id, MethodOf(y)) PROVE OnTrack(y)'
      OBVIOUS
    <3>2. message'[c] = y /\ Aligned(c, y)' /\ Pends(c, y)'
      BY <1>1, <1>2, <1>8, <3>1, MethodOn
    <3>3. (ChanOf(y) = c)'
      BY <3>2 DEF Pends
    <3> QED
      BY <3>2, <3>3, AlignedIsOnTrack
  <2> QED
    BY <1>4, <1>5, <2>1, <2>2, <2>3, <2>4
<1>9. ASSUME NEW p \in Peer, NEW now, now = outgoing[<<p, s>>], now.stage \in {"header", "body"},
             NEW y, y = now.content
      PROVE  /\ y \in Sent /\ y \in Deliveries \cup Publishings /\ ChanOf(y) = c /\ Now(y) = now
             /\ place[y] = s
             /\ \A x \in Sent : place[x] = s /\ OnTrack(x) => x = y
             /\ OnTrack(y) => Aligned(c, y) /\ message[c] = y
  <2>1. /\ y \in Sent /\ y \in Deliveries \cup Publishings /\ place[y] = s /\ Now(y) = now
        /\ capture.conns[s[1]].sends[p] > 0
    BY <1>9, CurrentIs
  <2>2. ChanOf(y) = c
    BY <1>2, <1>3, <2>1 DEF ChanOf
  <2>3. \A x \in Sent : place[x] = s /\ OnTrack(x) => x = y
    BY <1>9, <2>1, OneOnTrack
  <2>4. place[y][1] \notin ended
    BY <1>1, <1>3, <2>1 DEF Alive
  <2> QED
    BY <2>1, <2>2, <2>3, <2>4 DEF OnTrack
<1>10. ASSUME NEW p \in Peer, SendHeader(p, k, id) PROVE Contained'
  <2>1. PICK now : now = outgoing[<<p, s>>]
    BY Zenon
  <2>2. PICK y : y = now.content
    BY Zenon
  <2>3. now.stage = "header" /\ UNCHANGED size
    BY <1>3, <1>10, <2>1, Zenon DEF SendHeader
  <2>4. /\ y \in Sent /\ y \in Deliveries \cup Publishings /\ ChanOf(y) = c /\ Now(y) = now
        /\ place[y] = s
        /\ \A x \in Sent : place[x] = s /\ OnTrack(x) => x = y
        /\ OnTrack(y) => Aligned(c, y) /\ message[c] = y
    BY <1>9, <2>1, <2>2, <2>3
  <2>5. PICK f : f = HeaderOf(y, size[y])
    BY Zenon
  <2>6. OnWire(p, k, id, f) /\ f \in Frame
    BY <1>1, <1>3, <1>10, <2>1, <2>2, <2>5, HeaderSent, Zenon DEF SendHeader, HeaderOf
  <2>7. Fitting(f)
    <3>1. size[y] \in 0 .. MaxBody /\ y \in Properties /\ MaxBody \in Nat
      BY <1>1, <2>4, CaptureAssumption DEF PeersOK
    <3> QED
      BY <2>5, <3>1 DEF Fitting, HeaderOf, HeaderFrame
  <2>8. Read(k, id, f) /\ OnTrack(y) => y \in Arrived' \/ OnTrack(y)'
    <3>1. SUFFICES ASSUME Read(k, id, f), OnTrack(y) PROVE y \in Arrived' \/ OnTrack(y)'
      OBVIOUS
    <3>2. recv[c] = "recvHeader" /\ message[c] = y
      BY <2>3, <2>4, <3>1 DEF Aligned
    <3>3. Followed(c, y)
      BY <1>1, <1>2, <1>3, <1>10, <2>1, <2>2, <2>5, <3>1, <3>2, HeaderOn
    <3> QED
      BY <1>1, <2>4, <3>3, FollowedIsFound
  <2>9. Sent' = Sent
    BY <2>3 DEF Sent
  <2> QED
    BY <1>4, <2>4, <2>6, <2>7, <2>8, <2>9
<1>11. ASSUME NEW p \in Peer, NEW n \in 1 .. MaxBody, SendBody(p, k, id, n) PROVE Contained'
  <2>1. PICK now : now = outgoing[<<p, s>>]
    BY Zenon
  <2>2. PICK y : y = now.content
    BY Zenon
  <2>3. now.stage = "body" /\ UNCHANGED size
    BY <1>3, <1>11, <2>1, Zenon DEF SendBody
  <2>4. /\ y \in Sent /\ y \in Deliveries \cup Publishings /\ ChanOf(y) = c /\ Now(y) = now
        /\ place[y] = s
        /\ \A x \in Sent : place[x] = s /\ OnTrack(x) => x = y
        /\ OnTrack(y) => Aligned(c, y) /\ message[c] = y
    BY <1>9, <2>1, <2>2, <2>3
  <2>5. PICK b : b = Body(now.content, now.done, now.done + n)
    BY Zenon
  <2>6. OnWire(p, k, id, BodyOf(b)) /\ BodyOf(b) \in Frame
    BY <1>1, <1>3, <1>11, <2>1, <2>5, BodySent, Zenon DEF SendBody, BodyOf
  <2>7. Fitting(BodyOf(b))
    BY <2>6 DEF Fitting, BodyOf, Frame, MethodFrame, HeaderFrame, HeartbeatFrame
  <2>8. Read(k, id, BodyOf(b)) /\ ~panicked' /\ OnTrack(y) => y \in Arrived' \/ OnTrack(y)'
    <3>1. SUFFICES ASSUME Read(k, id, BodyOf(b)), ~panicked', OnTrack(y)
                   PROVE  y \in Arrived' \/ OnTrack(y)'
      OBVIOUS
    <3>2. now = outgoing[<<p, <<k, id>>>>] /\ Aligned(c, y) /\ message[c] = y
      BY <1>3, <2>1, <2>4, <3>1
    <3>3. Followed(c, y)
      BY <1>1, <1>2, <1>11, <2>2, <2>4, <2>5, <3>1, <3>2, BodyOn
    <3> QED
      BY <1>1, <2>4, <3>3, FollowedIsFound
  <2>9. Sent' = Sent
    BY <2>3 DEF Sent
  <2> QED
    BY <1>4, <2>4, <2>6, <2>7, <2>8, <2>9
<1> QED
  BY <1>6, <1>7, <1>8, <1>10, <1>11 DEF Send

(* A connection that breaks off costs none. *)
LEMMA ContainedQuiet ==
  ASSUME Typed, Orderly, Contained, ended \subseteq ended',
         UNCHANGED <<vars, capture, outgoing, size, place, acked, lost>>
  PROVE  Contained'
<1>1. Sent' = Sent /\ UNCHANGED <<recv, message, header, body, panicked, dispatched>>
  BY DEF Sent, vars
<1>2. Arrived' = Arrived
  BY <1>1 DEF Arrived
<1>3. ASSUME NEW x \in Sent, OnTrack(x) PROVE OnTrack(x)'
  <2>1. PICK c, now : c = ChanOf(x) /\ now = Now(x)
    BY Zenon
  <2>2. ChanOf(x)' = c /\ Now(x)' = now /\ Grows
    BY <1>1, <2>1 DEF ChanOf, Client, Now, Sender, Grows
  <2>3. now.stage \in {"header", "body"} /\ now.content = x
    BY <1>3, <2>1 DEF OnTrack
  <2>4. CASE place[x][1] \in ended
    <3>1. (place[x][1] \in ended)'
      BY <2>4
    <3> QED
      BY <2>2, <2>3, <3>1 DEF OnTrack
  <2>5. CASE message[c] = x /\ Aligned(c, x)
    <3>1. Aligned(c, x)'
      BY <1>1, <2>1, <2>2, <2>5, StaysAligned
    <3> QED
      BY <1>1, <2>2, <2>5, <3>1, AlignedIsOnTrack
  <2> QED
    BY <1>3, <2>1, <2>4, <2>5 DEF OnTrack
<1>4. Missed' \subseteq Missed
  BY <1>1, <1>2, <1>3 DEF Missed
<1>5. IsFiniteSet(Missed)
  BY FS_Subset DEF Missed, Orderly
<1>6. /\ Cardinality(Missed') <= Cardinality(Missed) /\ IsFiniteSet(Missed')
  BY <1>4, <1>5, FS_Subset
<1>7. Cardinality(Missed) \in Nat /\ Cardinality(Missed') \in Nat /\ lost \in Nat
  BY <1>5, <1>6, FS_CardinalityType, CaptureAssumption DEF Typed, PeersOK
<1>8. (Cardinality(Missed) <= lost)'
  BY <1>6, <1>7 DEF Contained
<1> QED
  BY <1>1, <1>8 DEF Contained, Fits

(* Nothing is missed initially. *)
LEMMA ContainedInit == CaptureInit => Contained
<1> SUFFICES ASSUME CaptureInit PROVE Contained
  OBVIOUS
<1>1. Missed = {} /\ lost = 0
  BY DEF CaptureInit, Missed, Sent
<1>2. Cardinality(Missed) = 0
  BY <1>1, FS_EmptySet
<1>3. Fits
  BY DEF CaptureInit, Init, Fits
<1> QED
  BY <1>1, <1>2, <1>3 DEF Contained

(* Every step keeps the cost within the loss. *)
LEMMA ContainedStep ==
  ASSUME \A x \in Captures : OneWay(x), Prefetch <= 1, MaxBody <= MaxSlice
  PROVE  Typed /\ Orderly /\ Contained /\ [CaptureNext]_captureVars => Contained'
<1> SUFFICES ASSUME Typed, Orderly, Contained, [CaptureNext]_captureVars PROVE Contained'
  OBVIOUS
<1>1. OneWay(capture)
  BY DEF Typed, PeersOK
<1>2. CASE UNCHANGED captureVars
  BY <1>2, ContainedQuiet DEF captureVars
<1>3. ASSUME NEW k \in Conn, Break(k) PROVE Contained'
  BY <1>3, ContainedQuiet DEF Break
<1> QED
  BY <1>1, <1>2, <1>3, ContainedSend DEF CaptureNext

(* A content of which every frame has been sent is not on track any more.  *)
LEMMA ContainedIs ==
  ASSUME Typed, Orderly, Contained PROVE LossIsContained
<1>1. Finished \ Arrived \subseteq Missed
  <2>1. SUFFICES ASSUME NEW x \in Finished, OnTrack(x) PROVE FALSE
    BY DEF Finished, Missed
  <2>2. x \in Sent
    BY DEF Finished
  <2>3. Sender(x) \in Peer /\ place[x] \in Conn \X Id
    BY <2>2, SenderIs DEF Typed, PeersOK
  <2> QED
    BY <2>1, <2>3 DEF OnTrack, Now, Finished
<1>2. IsFiniteSet(Missed)
  BY FS_Subset DEF Missed, Orderly
<1>3. Cardinality(Finished \ Arrived) <= Cardinality(Missed) /\ IsFiniteSet(Finished \ Arrived)
  BY <1>1, <1>2, FS_Subset
<1>4. Cardinality(Missed) \in Nat /\ Cardinality(Finished \ Arrived) \in Nat /\ lost \in Nat
  BY <1>2, <1>3, FS_CardinalityType, CaptureAssumption DEF Typed, PeersOK
<1> QED
  BY <1>3, <1>4 DEF Contained, LossIsContained

(***************************************************************************)
(* Every frame missing from the capture costs the analyser at most one     *)
(* content message, however many are missing, and a connection that breaks *)
(* off costs none: as long as on every connection one of the peers sends   *)
(* contents, deliveries one at a time, none larger than recvContent can    *)
(* allocate.                                                               *)
(***************************************************************************)
THEOREM LossCostsLittle ==
  ASSUME \A x \in Captures : OneWay(x), Prefetch <= 1, MaxBody <= MaxSlice
  PROVE  CaptureSpec => []LossIsContained
<1>1. Typed /\ Orderly /\ Contained /\ [CaptureNext]_captureVars => Contained'
  BY ContainedStep
<1>2. Typed /\ Orderly /\ Contained => LossIsContained
  BY ContainedIs
<1> QED
  BY <1>1, <1>2, AlwaysTyped, OrderlyInit, OrderlyStep, ContainedInit, PTL DEF CaptureSpec
=============================================================================
