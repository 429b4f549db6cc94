----------------------------- MODULE MCCapture -----------------------------
(***************************************************************************)
(* Captures of AMQP channel 1 of up to two connections. In Capture.cfg the *)
(* peers of a connection send content in one direction only, as in the     *)
(* programs of mq/rabbitmq: a consumer's connection, of which two frames   *)
(* may be missing; a publisher's, which has no acknowledgements between    *)
(* the contents, of which one may be; both at a time, on a port each; and  *)
(* two that follow each other on one port, the second from the same host   *)
(* or from another. In CaptureTwoWay.cfg both peers send content on one    *)
(* connection and nothing is missing.                                      *)
(***************************************************************************)
EXTENDS Capture, TLC

CONSTANTS d1, d2, d3, q1, q2, q3

MCPort == {"p1", "p2"}
MCId == {1}
MCChan == MCPort \X MCId
MCHost == {"server", "h1", "h2"}
MCServer == [Host |-> "server", Port |-> "amqp"]
MCContentMethod == {d1, d2, d3, q1, q2, q3}
MCDeliveries == {d1, d2, d3}
MCPublishings == {q1, q2, q3}
MCNone == {}
Connected(host, port, deliveries, publishings) ==
  [client |-> [Host |-> host, Port |-> port],
   sends |-> "server" :> deliveries @@ "client" :> publishings]
MCOneWay == {
  [conns |-> <<Connected("h1", "p1", 3, 0)>>, loss |-> 2],
  [conns |-> <<Connected("h1", "p1", 0, 3)>>, loss |-> 1],
  [conns |-> <<Connected("h1", "p1", 0, 2), Connected("h1", "p2", 2, 0)>>, loss |-> 1],
  [conns |-> <<Connected("h1", "p1", 2, 0), Connected("h1", "p1", 1, 0)>>, loss |-> 1],
  [conns |-> <<Connected("h1", "p1", 0, 2), Connected("h2", "p1", 0, 1)>>, loss |-> 1]}
MCTwoWay == {[conns |-> <<Connected("h1", "p1", 3, 3)>>, loss |-> 0]}
MCAck(x) == <<"ack", x>>
MCOpen == <<"open">>
MCPlainMethod == {MCOpen} \cup {MCAck(x) : x \in MCDeliveries}
MCOctet == MCContentMethod \X (1 .. MaxBody)
MCSymmetry == Permutations(MCDeliveries) \cup Permutations(MCPublishings)
=============================================================================
