------------------------------ MODULE Capture ------------------------------
(***************************************************************************)
(* The analyser fed with captured traffic: clients exchange frames with a  *)
(* server, each on a TCP connection of its own, and the Channel objects of *)
(* a Connection see the frames of BOTH directions. Parser.getConnection    *)
(* finds the Connection by the client's port alone, which printPacketInfo  *)
(* takes from one or the other end of the packet, and never forgets one: a *)
(* later TCP connection on the same port goes on where that one broke off. *)
(*                                                                         *)
(* The peers are the programs around the analyser: the broker, and the     *)
(* publisher and the consumer of mq/rabbitmq/main.go, of which the latter  *)
(* asks for a prefetch of one (ch.Qos(1, 0, false)) and acknowledges every *)
(* delivery on its channel. Each peer sends the frames of a content        *)
(* message in order and puts no other frame of its own on that channel     *)
(* between them; nothing orders the frames of one peer with those of the   *)
(* other, or those of two connections.                                     *)
(*                                                                         *)
(* A frame may be missing from the capture: a packet was not captured, or  *)
(* the frame was cut by a packet border and ReadFrame failed on it.        *)
(***************************************************************************)
EXTENDS Channel, FiniteSets

CONSTANTS
  Port, Id,    (* the clients' ports, and the numbers of AMQP channels      *)
  Host,        (* hosts                                                     *)
  Server,      (* the endpoint isServerHost and isServerPort know           *)
  Deliveries,  (* contents the server sends (basic.deliver)                 *)
  Publishings, (* contents the clients send (basic.publish)                 *)
  Ack(_),      (* the method by which a client acknowledges a delivery      *)
  Open,        (* the method by which a client opens a channel              *)
  Prefetch,    (* deliveries the server may have unacknowledged             *)
  Captures,    (* the captures considered: their TCP connections, each with *)
               (* the endpoint of its client and how many contents its      *)
               (* peers send, in the order in which those that share a port *)
               (* come, and, a bound, the frames missing from the capture   *)
  MaxBody      (* bound: octets in a content                                *)

Peer == {"server", "client"}
Endpoint == [Host : Host, Port : Port \cup {Server.Port}]

ASSUME CaptureAssumption ==
  /\ Chan = Port \X Id
  /\ Server \in Endpoint /\ Server.Port \notin Port
  /\ Deliveries \cup Publishings \subseteq ContentMethod
  /\ Deliveries \cap Publishings = {}
  /\ Open \in PlainMethod /\ \A d \in Deliveries : Ack(d) \in PlainMethod
  /\ Deliveries \cup Publishings \subseteq Properties
  /\ (Deliveries \cup Publishings) \X (1 .. MaxBody) \subseteq Octet
  /\ Prefetch \in Nat /\ MaxBody \in Nat
  /\ \A x \in Captures :
       /\ x.conns \in Seq([client : Endpoint, sends : [Peer -> Nat]])
       /\ \A k \in DOMAIN x.conns : x.conns[k].client.Port \in Port
       /\ x.loss \in Nat

Idle == [stage |-> "idle"]

VARIABLES
  capture,  (* the capture                                                  *)
  connections, (* Parser.connections: the endpoints of each Connection      *)
  ended,    (* TCP connections that broke off                               *)
  outgoing, (* per peer and channel: the content being sent                 *)
  size,     (* history: the size of each content sent so far                *)
  place,    (* history: the connection and channel of each content          *)
  acked,    (* deliveries the client has acknowledged                       *)
  lost      (* frames missing from the capture so far                       *)

captureVars == <<vars, capture, connections, ended, outgoing, size, place, acked, lost>>

Sent == DOMAIN size
Conn == DOMAIN capture.conns
Client(k) == capture.conns[k].client
Before(k) == {j \in 1 .. k - 1 : Client(j).Port = Client(k).Port}
Contents(p) == IF p = "server" THEN Deliveries ELSE Publishings

(* The channel opened on a port anew has its first frame still to come.    *)
CaptureInit ==
  /\ Init
  /\ capture \in Captures
  /\ connections = <<>>
  /\ ended = {}
  /\ outgoing = [x \in Peer \X (Conn \X Id) |->
       IF x[1] = "client" /\ Before(x[2][1]) # {} THEN [stage |-> "open"] ELSE Idle]
  /\ size = <<>>
  /\ place = <<>>
  /\ acked = {}
  /\ lost = 0

-----------------------------------------------------------------------------
(* The analyser.                                                           *)

isServerHost(host) == host = Server.Host
isServerPort(port) == port = Server.Port

(* Mutant of printPacketInfo: the sender's host is taken for the client's. *)
printPacketInfoSender(src, dst) ==
  [server |-> [Host |-> dst.Host, Port |-> IF isServerPort(src.Port) THEN src.Port ELSE dst.Port],
   client |-> [Host |-> src.Host, Port |-> IF isServerPort(src.Port) THEN dst.Port ELSE src.Port]]

(* setHost and setIP: which end of a packet is the server. *)
printPacketInfo(src, dst) ==
  [server |-> [Host |-> IF isServerHost(src.Host) THEN src.Host ELSE dst.Host,
               Port |-> IF isServerPort(src.Port) THEN src.Port ELSE dst.Port],
   client |-> [Host |-> IF isServerHost(src.Host) THEN dst.Host ELSE src.Host,
               Port |-> IF isServerPort(src.Port) THEN dst.Port ELSE src.Port]]

(* f with the value v for x, if it has none yet. *)
Extended(f, x, v) ==
  [y \in DOMAIN f \cup {x} |-> IF y \in DOMAIN f THEN f[y] ELSE v]

(* A Connection keeps the endpoints it was made with. *)
getConnection(info) ==
  connections' = Extended(connections, info.client.Port, info)

(* A frame p sends on channel id of connection k is read by the analyser,  *)
(* or lost to it, with its packet or not.                                  *)
OnWire(p, k, id, f) ==
  LET info == IF p = "client" THEN printPacketInfo(Client(k), Server)
              ELSE printPacketInfo(Server, Client(k)) IN
  \/ getConnection(info) /\ Demux(<<info.client.Port, id>>, f) /\ UNCHANGED lost
  \/ /\ ~panicked /\ lost < capture.loss /\ lost' = lost + 1
     /\ getConnection(info) \/ UNCHANGED connections
     /\ UNCHANGED vars

-----------------------------------------------------------------------------
(* The peers (external).                                                   *)

(* Connection k is up: those before it on its port have broken off. *)
Alive(k) == k \notin ended /\ Before(k) \subseteq ended

Break(k) ==
  /\ Alive(k) /\ \E j \in Conn : k \in Before(j)
  /\ ended' = ended \cup {k}
  /\ UNCHANGED <<vars, capture, connections, outgoing, size, place, acked, lost>>

SendOpen(k, id) ==
  /\ outgoing[<<"client", <<k, id>>>>].stage = "open"
  /\ OnWire("client", k, id, [kind |-> "method", method |-> Open])
  /\ outgoing' = [outgoing EXCEPT ![<<"client", <<k, id>>>>] = Idle]
  /\ UNCHANGED <<size, place, acked>>

Body(x, from, to) == [i \in 1 .. to - from |-> <<x, from + i>>]

(* The broker keeps at most Prefetch deliveries unacknowledged, once the   *)
(* channel is open.                                                        *)
MaySend(p, s) ==
  p = "server" =>
    /\ outgoing[<<"client", s>>].stage # "open"
    /\ Cardinality({d \in Sent \cap Deliveries : place[d] = s /\ d \notin acked}) < Prefetch

SentBy(p, k) == {y \in Sent \cap Contents(p) : place[y][1] = k}

SendMethod(p, k, id, x, n) ==
  LET s == <<k, id>> IN
  /\ outgoing[<<p, s>>] = Idle /\ x \in Contents(p) \ Sent
  /\ Cardinality(SentBy(p, k)) < capture.conns[k].sends[p]
  /\ MaySend(p, s)
  /\ OnWire(p, k, id, [kind |-> "method", method |-> x])
  /\ outgoing' = [outgoing EXCEPT ![<<p, s>>] = [stage |-> "header", content |-> x]]
  /\ size' = Extended(size, x, n)
  /\ place' = Extended(place, x, s)
  /\ UNCHANGED acked

SendHeader(p, k, id) ==
  LET now == outgoing[<<p, <<k, id>>>>] IN
  /\ now.stage = "header"
  /\ LET x == now.content IN
     /\ OnWire(p, k, id, [kind |-> "header", size |-> size[x], properties |-> x])
     /\ outgoing' = [outgoing EXCEPT ![<<p, <<k, id>>>>] =
          IF size[x] = 0 THEN Idle ELSE [stage |-> "body", content |-> x, done |-> 0]]
  /\ UNCHANGED <<size, place, acked>>

SendBody(p, k, id, n) ==
  LET now == outgoing[<<p, <<k, id>>>>] IN
  /\ now.stage = "body" /\ now.done + n <= size[now.content]
  /\ OnWire(p, k, id, [kind |-> "body", body |-> Body(now.content, now.done, now.done + n)])
  /\ outgoing' = [outgoing EXCEPT ![<<p, <<k, id>>>>] =
       IF now.done + n = size[now.content] THEN Idle ELSE [now EXCEPT !.done = @ + n]]
  /\ UNCHANGED <<size, place, acked>>

(* msg.Ack(false), once the client has received all of the delivery. *)
SendAck(k, id, x) ==
  LET s == <<k, id>> IN
  /\ x \in (Sent \cap Deliveries) \ acked /\ place[x] = s
  /\ outgoing[<<"client", s>>] = Idle
  /\ outgoing[<<"server", s>>].stage # "idle" => outgoing[<<"server", s>>].content # x
  /\ OnWire("client", k, id, [kind |-> "method", method |-> Ack(x)])
  /\ acked' = acked \cup {x}
  /\ UNCHANGED <<outgoing, size, place>>

Send(k, id) ==
  /\ Alive(k)
  /\ \/ SendOpen(k, id)
     \/ \E p \in Peer :
          \/ \E x \in Contents(p), n \in 0 .. MaxBody : SendMethod(p, k, id, x, n)
          \/ SendHeader(p, k, id)
          \/ \E n \in 1 .. MaxBody : SendBody(p, k, id, n)
     \/ \E x \in Deliveries : SendAck(k, id, x)
  /\ UNCHANGED <<capture, ended>>

CaptureNext ==
  \E k \in Conn : Break(k) \/ \E id \in Id : Send(k, id)

CaptureSpec == CaptureInit /\ [][CaptureNext]_captureVars

-----------------------------------------------------------------------------
CaptureTypeOK ==
  /\ TypeOK
  /\ capture \in Captures
  /\ DOMAIN connections \subseteq Port
  /\ \A port \in DOMAIN connections :
       /\ connections[port] \in [server : Endpoint, client : Endpoint]
       /\ connections[port].client.Port = port
  /\ ended \subseteq Conn
  /\ outgoing \in [Peer \X (Conn \X Id) ->
       {Idle} \cup [stage : {"open"}] \cup [stage : {"header"}, content : Sent]
              \cup [stage : {"body"}, content : Sent, done : 0 .. MaxBody]]
  /\ Sent \subseteq Deliveries \cup Publishings /\ size \in [Sent -> 0 .. MaxBody]
  /\ place \in [Sent -> Conn \X Id]
  /\ acked \subseteq Deliveries
  /\ lost \in 0 .. capture.loss

(***************************************************************************)
(* A content message handed to dispatch is the one its sender sent: the    *)
(* header and all the octets belong to the method (the doc of headerFrame, *)
(* amqp/types.go: a peer always follows such a method frame with a content *)
(* header and its content body frames), also when the content before it    *)
(* broke off in the middle with the last connection on that port.          *)
(***************************************************************************)
ContentIsIntact ==
  \A c \in Chan : \A n \in DOMAIN dispatched[c] :
    LET d == dispatched[c][n] IN
    d.method \in ContentMethod =>
      /\ d.method \in Sent
      /\ c = <<Client(place[d.method][1]).Port, place[d.method][2]>>
      /\ d.header.properties = d.method
      /\ d.body = Body(d.method, 0, size[d.method])

(***************************************************************************)
(* The endpoints a Connection tells with a delivery are those of the       *)
(* connection it was sent on, whichever peer's packet was seen first,      *)
(* unless a client on another host had used the port before.               *)
(***************************************************************************)
EndpointsAreTrue ==
  \A c \in Chan : \A n \in DOMAIN dispatched[c] :
    LET x == dispatched[c][n].method IN
    x \in ContentMethod =>
      LET k == place[x][1] IN
      (\A j \in Before(k) : Client(j) = Client(k)) =>
        connections[c[1]] = [server |-> Server, client |-> Client(k)]

(* Contents of which every frame has been sent. *)
Finished == {x \in Sent : \A p \in Peer, s \in Conn \X Id :
               outgoing[<<p, s>>].stage \in {"header", "body"} => outgoing[<<p, s>>].content # x}
Arrived == {x \in Sent : \E c \in Chan : \E n \in DOMAIN dispatched[c] :
               dispatched[c][n].method = x}

(***************************************************************************)
(* Every frame missing from the capture costs the analyser at most one     *)
(* content message: recvMethod, recvHeader and recvContent resynchronise   *)
(* with the next method frame. With nothing lost, nothing sent is missed,  *)
(* not even after a connection that broke off.                             *)
(***************************************************************************)
LossIsContained == Cardinality(Finished \ Arrived) <= lost
=============================================================================
