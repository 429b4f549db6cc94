------------------------------ MODULE Channel ------------------------------
(***************************************************************************)
(* Frame reassembly on the channels of one AMQP connection, as the packet  *)
(* analyser does it (amqp/connection.go, amqp/channel.go).                 *)
(*                                                                         *)
(* Every frame read from the capture is handed by Connection.demux to the  *)
(* Channel it names; the Channel's recv field holds the handler of its     *)
(* state machine (recvMethod, recvHeader, recvContent), which gathers a    *)
(* method frame, a header frame and body frames into one content message   *)
(* and hands complete messages to dispatch.                                *)
(*                                                                         *)
(* Frames on channel 0 (dispatch0) change no state, since the rpc Go       *)
(* channel of a Connection is never made: they are not modelled.           *)
(***************************************************************************)
EXTENDS Integers, Sequences

CONSTANTS
  Chan,          (* the channel ids greater than 0                          *)
  ContentMethod, (* methods implementing messageWithContent                 *)
  PlainMethod,   (* all other methods                                       *)
  NoMessage,     (* the nil message of a channel that has not seen content  *)
  Properties,    (* what a header frame carries besides the body size       *)
  Octet,         (* what a body frame carries                               *)
  MaxSlice,      (* the largest capacity make([]byte, 0, n) accepts         *)
  FrameIn,       (* the frames the environment may put on a channel         *)
  MaxWire        (* bound: frames received on one channel                   *)

Method == ContentMethod \cup PlainMethod

(***************************************************************************)
(* The four frame types ReadFrame can return. A method frame carries the   *)
(* whole decoded method: its arguments are part of the Method value.       *)
(***************************************************************************)
MethodFrame == [kind : {"method"}, method : Method]
HeaderFrame == [kind : {"header"}, size : Nat, properties : Properties]
BodyFrame   == [kind : {"body"}, body : Seq(Octet)]
HeartbeatFrame == [kind : {"heartbeat"}]
Frame == MethodFrame \cup HeaderFrame \cup BodyFrame \cup HeartbeatFrame

NoHeader == [kind |-> "nil"]

ASSUME ChannelAssumption ==
  /\ ContentMethod \cap PlainMethod = {}
  /\ NoMessage \notin Method
  /\ MaxSlice \in Nat
  /\ MaxWire \in Nat
  /\ FrameIn \subseteq Frame

(***************************************************************************)
(* What dispatch is given: the method with the content set on it. Plain    *)
(* methods have no header and no body. at is the number of frames the      *)
(* channel had received by then (history, not in the code).                *)
(***************************************************************************)
Message == [method : Method, header : HeaderFrame \cup {NoHeader},
            body : Seq(Octet), at : Nat]

VARIABLES
  channels,   (* Connection.channels: the ids a Channel was made for        *)
  recv,       (* Channel.recv: the handler of the next frame                *)
  message,    (* Channel.message                                            *)
  header,     (* Channel.header                                             *)
  body,       (* Channel.body                                               *)
  panicked,   (* TRUE once a handler panicked: the program has died         *)
  wire,       (* history: frames received so far, per channel               *)
  dispatched  (* history: messages handed to dispatch so far, per channel   *)

machine == <<recv, message, header, body>>
vars == <<channels, recv, message, header, body, panicked, wire, dispatched>>

TypeOK ==
  /\ channels \subseteq Chan
  /\ recv \in [Chan -> {"recvMethod", "recvHeader", "recvContent"}]
  /\ message \in [Chan -> ContentMethod \cup {NoMessage}]
  /\ header \in [Chan -> HeaderFrame \cup {NoHeader}]
  /\ body \in [Chan -> Seq(Octet)]
  /\ panicked \in BOOLEAN
  /\ wire \in [Chan -> Seq(Frame)]
  /\ dispatched \in [Chan -> Seq(Message)]

(* Mutant of Init: a Channel starts with the wrong handler. *)
InitAwaitingHeader ==
  /\ channels = {}
  /\ recv = [c \in Chan |-> "recvHeader"]
  /\ message = [c \in Chan |-> NoMessage]
  /\ header = [c \in Chan |-> NoHeader]
  /\ body = [c \in Chan |-> <<>>]
  /\ panicked = FALSE
  /\ wire = [c \in Chan |-> <<>>]
  /\ dispatched = [c \in Chan |-> <<>>]

(***************************************************************************)
(* newChannel: the state of a Channel when dispatchClosed makes it.        *)
(***************************************************************************)
Init ==
  /\ channels = {}
  /\ recv = [c \in Chan |-> "recvMethod"]
  /\ message = [c \in Chan |-> NoMessage]
  /\ header = [c \in Chan |-> NoHeader]
  /\ body = [c \in Chan |-> <<>>]
  /\ panicked = FALSE
  /\ wire = [c \in Chan |-> <<>>]
  /\ dispatched = [c \in Chan |-> <<>>]

-----------------------------------------------------------------------------
(* The steps the handlers are made of.                                     *)

Transition(c, handler) == recv' = [recv EXCEPT ![c] = handler]

(* ch.dispatch(m), with the content that setContent put on m. *)
Dispatch(c, m, h, b) ==
  dispatched' = [dispatched EXCEPT ![c] =
    Append(@, [method |-> m, header |-> h, body |-> b, at |-> Len(wire[c]) + 1])]

(* Mutant of Drop: the frame is dropped, the state machine not reset. *)
DropWithoutReset(c) == UNCHANGED machine /\ UNCHANGED <<panicked, dispatched>>

(* An unexpected frame is dropped and the state machine reset. *)
Drop(c) ==
  /\ Transition(c, "recvMethod")
  /\ UNCHANGED <<message, header, body, panicked, dispatched>>

(* panic("unexpected frame type"), or make with an impossible capacity.     *)
Panic ==
  /\ panicked' = TRUE
  /\ UNCHANGED <<recv, message, header, body, dispatched>>

(* Mutant of BeginContent: the body of interrupted content is kept. *)
BeginContentKeepingBody(c, f) ==
  /\ f.kind = "method" /\ f.method \in ContentMethod
  /\ message' = [message EXCEPT ![c] = f.method]
  /\ Transition(c, "recvHeader")
  /\ UNCHANGED <<header, body, panicked, dispatched>>

(* recvMethod on a method frame that carries content. *)
BeginContent(c, f) ==
  /\ f.kind = "method" /\ f.method \in ContentMethod
  /\ body' = [body EXCEPT ![c] = <<>>]
  /\ message' = [message EXCEPT ![c] = f.method]
  /\ Transition(c, "recvHeader")
  /\ UNCHANGED <<header, panicked, dispatched>>

(* recvMethod on any other method frame. *)
HandlePlain(c, f) ==
  /\ f.kind = "method" /\ f.method \in PlainMethod
  /\ Dispatch(c, f.method, NoHeader, <<>>)
  /\ Transition(c, "recvMethod")
  /\ UNCHANGED <<message, header, body, panicked>>

(* Mutant of HandleMethod: a method frame amid content is dropped. *)
HandleMethodWhenIdle(c, f) ==
  \/ recv[c] = "recvMethod" /\ (BeginContent(c, f) \/ HandlePlain(c, f))
  \/ recv[c] # "recvMethod" /\ f.kind = "method" /\ Drop(c)

(* The part of recvMethod the two other handlers delegate method frames to *)
HandleMethod(c, f) == BeginContent(c, f) \/ HandlePlain(c, f)

-----------------------------------------------------------------------------
(* The three handlers of the state machine.                                *)

RecvMethod(c, f) ==
  \/ HandleMethod(c, f)
  \/ f.kind \in {"header", "body"} /\ Drop(c)
  \/ f.kind = "heartbeat" /\ Panic

RecvHeader(c, f) ==
  \/ HandleMethod(c, f)                       \* interrupts the content
  \/ /\ f.kind = "header" /\ f.size = 0       \* content without body
     /\ header' = [header EXCEPT ![c] = f]
     /\ Dispatch(c, message[c], f, body[c])
     /\ Transition(c, "recvMethod")
     /\ UNCHANGED <<message, body, panicked>>
  \/ /\ f.kind = "header" /\ f.size > 0
     /\ header' = [header EXCEPT ![c] = f]
     /\ Transition(c, "recvContent")
     /\ UNCHANGED <<message, body, panicked, dispatched>>
  \/ f.kind = "body" /\ Drop(c)
  \/ f.kind = "heartbeat" /\ Panic

(* make([]byte, 0, ch.header.Size) is reached with the first body frame.   *)
CannotAllocate(c) == header[c].size > MaxSlice

(* Mutant of Complete: off by one. *)
CompleteBeyondSize(c, octets) == Len(octets) > header[c].size

(* The body has reached the size announced by the header (or passed it).   *)
Complete(c, octets) == Len(octets) >= header[c].size

RecvContent(c, f) ==
  \/ HandleMethod(c, f)                       \* interrupts the content
  \/ f.kind = "header" /\ Drop(c)
  \/ f.kind = "body" /\ CannotAllocate(c) /\ Panic
  \/ /\ f.kind = "body" /\ ~CannotAllocate(c)
     /\ LET grown == body[c] \o f.body IN
        /\ body' = [body EXCEPT ![c] = grown]
        /\ \/ /\ Complete(c, grown)
              /\ Dispatch(c, message[c], header[c], grown)
              /\ Transition(c, "recvMethod")
           \/ /\ ~Complete(c, grown)
              /\ Transition(c, "recvContent")
              /\ UNCHANGED dispatched
     /\ UNCHANGED <<message, header, panicked>>
  \/ f.kind = "heartbeat" /\ Panic

(***************************************************************************)
(* Connection.demux for a frame f on channel c: dispatchN finds the        *)
(* Channel, or dispatchClosed makes it, and its recv handler runs.         *)
(***************************************************************************)
Demux(c, f) ==
  /\ ~panicked
  /\ channels' = channels \cup {c}
  /\ wire' = [wire EXCEPT ![c] = Append(@, f)]
  /\ \/ recv[c] = "recvMethod" /\ RecvMethod(c, f)
     \/ recv[c] = "recvHeader" /\ RecvHeader(c, f)
     \/ recv[c] = "recvContent" /\ RecvContent(c, f)

Next ==
  \E c \in Chan, f \in FrameIn : Len(wire[c]) < MaxWire /\ Demux(c, f)

Spec == Init /\ [][Next]_vars
-----------------------------------------------------------------------------
(***************************************************************************)
(* What the state machine is for, stated on the frames alone: the picture  *)
(* of a channel in amqp/types.go,                                          *)
(*     [method]                                                            *)
(*     [method] [header] [body] [body]                                     *)
(*     [method]                                                            *)
(***************************************************************************)
IsContentFrame(f) == f.kind = "method" /\ f.method \in ContentMethod
IsPlainFrame(f) == f.kind = "method" /\ f.method \in PlainMethod

(* b is what the body frames i+2..j of w carry, frame n ending at cut[n]. *)
Pieces(w, i, j, b, cut) ==
  /\ cut[i+1] = 0 /\ cut[j] = Len(b)
  /\ \A n \in i+2 .. j :
       /\ w[n].kind = "body"
       /\ cut[n] = cut[n-1] + Len(w[n].body)
       /\ \A p \in 1 .. Len(w[n].body) : b[cut[n-1] + p] = w[n].body[p]

Cuts(i, j, b) == [i+1 .. j -> 0 .. Len(b)]

(* Frames i..j of w are content of method m and header h, gathered up to  *)
(* the octets b and still short of the size announced by the header.      *)
Gathers(w, i, j, m, h, b) ==
  /\ i \in 1 .. j-1 /\ j <= Len(w)
  /\ IsContentFrame(w[i]) /\ w[i].method = m
  /\ w[i+1].kind = "header" /\ w[i+1] = h
  /\ \E cut \in Cuts(i, j, b) : Pieces(w, i, j, b, cut)
  /\ Len(b) < h.size

(* Frames i..j of w spell the content message with method m, header h and *)
(* body b: the body frames end with the one that reaches the size.        *)
Spells(w, i, j, m, h, b) ==
  /\ i \in 1 .. j-1 /\ j <= Len(w)
  /\ IsContentFrame(w[i]) /\ w[i].method = m
  /\ w[i+1].kind = "header" /\ w[i+1] = h
  /\ \E cut \in Cuts(i, j, b) :
       /\ Pieces(w, i, j, b, cut)
       /\ j > i+1 => cut[j-1] < h.size
  /\ Len(b) >= h.size

(***************************************************************************)
(* Soundness: a content message reaches dispatch only as spelled by an     *)
(* uninterrupted run of frames of its own channel, with exactly the octets *)
(* of those frames (no stale header, no leftover of an interrupted body),  *)
(* and a plain method only as the frame just received.                     *)
(***************************************************************************)
DispatchedIsSpelled ==
  \A c \in Chan : \A n \in DOMAIN dispatched[c] :
    LET d == dispatched[c][n] IN
    /\ d.at <= Len(wire[c])
    /\ \/ \E i \in 1 .. d.at : Spells(wire[c], i, d.at, d.method, d.header, d.body)
       \/ d.at > 0 /\ IsPlainFrame(wire[c][d.at]) /\ wire[c][d.at].method = d.method

(***************************************************************************)
(* The octets the body frames i+2..j of w carry, by the reference's own    *)
(* concatenation.                                                          *)
(***************************************************************************)
Carried(w, i, j) ==
  LET upTo[n \in i+1 .. j] == IF n = i+1 THEN <<>> ELSE upTo[n-1] \o w[n].body
  IN  upTo[j]

(* Frame j of w is the last of a content message or a plain method. *)
EndsMessage(w, j) ==
  \/ IsPlainFrame(w[j])
  \/ \E i \in 1 .. j-1 :
       /\ IsContentFrame(w[i]) /\ w[i+1].kind = "header"
       /\ \A n \in i+2 .. j : w[n].kind = "body"
       /\ Len(Carried(w, i, j)) >= w[i+1].size
       /\ j > i+1 => Len(Carried(w, i, j-1)) < w[i+1].size

(***************************************************************************)
(* Completeness and order: every message the frames of a channel spell is  *)
(* dispatched, once, when its last frame arrives, and in the order of the  *)
(* frames. (A panic stops the program before the dispatch.)                *)
(***************************************************************************)
SpelledIsDispatched ==
  ~panicked =>
  \A c \in Chan :
    /\ \A j \in DOMAIN wire[c] :
         EndsMessage(wire[c], j) <=> \E n \in DOMAIN dispatched[c] : dispatched[c][n].at = j
    /\ \A n, k \in DOMAIN dispatched[c] : n < k => dispatched[c][n].at < dispatched[c][k].at

(***************************************************************************)
(* The strengthening that makes DispatchedIsSpelled inductive: each        *)
(* handler knows where on the wire the channel is. It also says that the   *)
(* pointers message and header are never nil when a handler uses them.     *)
(* (Once a handler has panicked nothing runs any more.)                    *)
(***************************************************************************)
HandlerKnowsPlace ==
  ~panicked =>
  \A c \in Chan :
    /\ recv[c] = "recvHeader" =>
         /\ body[c] = <<>>
         /\ Len(wire[c]) > 0
         /\ IsContentFrame(wire[c][Len(wire[c])])
         /\ wire[c][Len(wire[c])].method = message[c]
    /\ recv[c] = "recvContent" =>
         \E i \in DOMAIN wire[c] :
           Gathers(wire[c], i, Len(wire[c]), message[c], header[c], body[c])
=============================================================================
