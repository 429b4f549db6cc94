---------------------------- MODULE FrameReader ----------------------------
(***************************************************************************)
(* From packets to frames (amqp/parser.go, amqp/read.go): the octets that  *)
(* one side of a connection sends are cut into packets wherever TCP likes, *)
(* and Parser.Parse reads every captured packet with a reader of its own.  *)
(*                                                                         *)
(* An octet is its position in the stream; what is modelled is which       *)
(* octets each call of ReadFrame consumes and how it returns. A frame at   *)
(* the reader's position is read as what it is. Inside a frame, ReadFrame  *)
(* takes octets for a frame header that are none: it may fail after any    *)
(* number of octets, or find by chance what looks like a whole frame.      *)
(***************************************************************************)
EXTENDS Integers, Sequences

CONSTANTS
  Streams,     (* the streams of frames considered                          *)
  Cuts,        (* bound: the octets before which packets may begin and end  *)
  MaxPackets   (* bound: packets captured                                   *)

FrameHeader == 7        \* octets before the payload: type, channel, size

(***************************************************************************)
(* Frame k is the octets from .. to-1. A "plain" frame is one ReadFrame    *)
(* understands. On a "strange" one it fails, with an error other than      *)
(* io.EOF, before the octet at stop: the protocol header that opens a      *)
(* connection, an unknown method or field type. On a "short" one a field   *)
(* table ends amid a field, and ReadFrame returns the io.EOF of the        *)
(* table's own buffer.                                                     *)
(***************************************************************************)
Frame == [kind : {"plain", "strange", "short"}, from : Nat, to : Nat, stop : Nat]

ASSUME FrameReaderAssumption ==
  /\ MaxPackets \in Nat /\ Cuts \subseteq Nat
  /\ \A s \in Streams :
       /\ s \in Seq(Frame) /\ s # <<>> /\ s[1].from = 0
       /\ \A k \in DOMAIN s :
            /\ s[k].from + FrameHeader <= s[k].stop /\ s[k].stop < s[k].to
            /\ k + 1 \in DOMAIN s => s[k+1].from = s[k].to

MadeUp == 0   \* in place of a frame's number: what octets amid frames look like

VARIABLES
  stream,   (* external: the frames sent                                    *)
  packets,  (* external: the packets captured so far, as octets from .. to-1*)
  pos,      (* the position of the reader in the last packet                *)
  parsing,  (* Parse has not returned from the last packet                  *)
  panicked, (* ReadFrame panicked: the program has died                     *)
  obtained  (* history: the frames given to demux, and from which packet    *)

vars == <<stream, packets, pos, parsing, panicked, obtained>>

Length == stream[Len(stream)].to
Packet == packets[Len(packets)]
Left == Packet.to - pos          \* octets not read yet

TypeOK ==
  /\ stream \in Streams
  /\ packets \in Seq([from : 0 .. Length, to : 0 .. Length])
  /\ parsing \in BOOLEAN /\ panicked \in BOOLEAN
  /\ pos \in 0 .. Length
  /\ obtained \in Seq([frame : DOMAIN stream \cup {MadeUp}, packet : DOMAIN packets])
  /\ parsing => packets # <<>> /\ pos \in Packet.from .. Packet.to

Init ==
  /\ stream \in Streams
  /\ packets = <<>>
  /\ pos = 0
  /\ parsing = FALSE /\ panicked = FALSE
  /\ obtained = <<>>

(* A packet with the next octets, one that skips octets never captured, or *)
(* one that was retransmitted: nothing reassembles the TCP stream.         *)
NewPacket(from, to) ==
  /\ ~parsing /\ ~panicked /\ Len(packets) < MaxPackets
  /\ from < to
  /\ packets' = Append(packets, [from |-> from, to |-> to])
  /\ pos' = from
  /\ parsing' = TRUE
  /\ UNCHANGED <<stream, panicked, obtained>>

-----------------------------------------------------------------------------
(* ReadFrame, and what the loop of Parse makes of its result.              *)

At(k) == stream[k].from = pos

(* io.EOF: Parse returns, and what is left of the packet is not read. *)
Eof ==
  /\ parsing' = FALSE
  /\ UNCHANGED <<stream, packets, pos, panicked, obtained>>

(* Mutant of Fails: the octets read are put back. *)
PutsBack(consumed) == UNCHANGED vars

(* Another error: the loop goes on behind the octets consumed. *)
Fails(consumed) ==
  /\ pos' = pos + consumed
  /\ UNCHANGED <<stream, packets, parsing, panicked, obtained>>

(* Mutant of Obtain: Parse returns with the first frame. *)
ObtainOne(k, to) ==
  /\ obtained' = Append(obtained, [frame |-> k, packet |-> Len(packets)])
  /\ pos' = to
  /\ parsing' = FALSE
  /\ UNCHANGED <<stream, packets, panicked>>

(* make([]byte, len) with the negative length of an octet array. *)
Panic ==
  /\ panicked' = TRUE
  /\ parsing' = FALSE
  /\ UNCHANGED <<stream, packets, pos, obtained>>

(* The frame goes to demux, and the loop goes on behind it. *)
Obtain(k, to) ==
  /\ obtained' = Append(obtained, [frame |-> k, packet |-> Len(packets)])
  /\ pos' = to
  /\ UNCHANGED <<stream, packets, parsing, panicked>>

(* Mutant of HasEnd: the frame end octet is not waited for. *)
HasPayload(k) == stream[k].to - 1 <= Packet.to

(* The frame with its end octet is in the packet. *)
HasEnd(k) == stream[k].to <= Packet.to

ReadPlain(k) == At(k) /\ stream[k].kind = "plain" /\ HasEnd(k) /\ Obtain(k, stream[k].to)

(* The packet ends amid a frame, or before a place where reading would     *)
(* fail: io.EOF between two fields, otherwise an error at the end.         *)
ReadCut(k) ==
  /\ At(k) /\ Left > 0
  /\ IF stream[k].kind = "plain" THEN ~HasEnd(k) ELSE Packet.to < stream[k].stop
  /\ \/ Left >= FrameHeader /\ Eof
     \/ Fails(Left)

ReadStrange(k) ==
  /\ At(k) /\ stream[k].kind = "strange" /\ stream[k].stop <= Packet.to
  /\ Fails(stream[k].stop - pos)

ReadShort(k) ==
  /\ At(k) /\ stream[k].kind = "short" /\ stream[k].stop <= Packet.to
  /\ Eof

(* The reader is inside a frame. *)
Misaligned == \A k \in DOMAIN stream : ~At(k)

Misread ==
  /\ Misaligned /\ Left > 0
  /\ \/ Fails(Left)
     \/ Left >= FrameHeader /\ (Eof \/ Panic \/ \E n \in FrameHeader .. Left : Fails(n))
     \/ \E n \in FrameHeader + 1 .. Left : Obtain(MadeUp, pos + n)

ReadNothing == Left = 0 /\ Eof

ReadFrame ==
  \/ \E k \in DOMAIN stream :
       Left > 0 /\ (ReadPlain(k) \/ ReadCut(k) \/ ReadStrange(k) \/ ReadShort(k))
  \/ Misread
  \/ ReadNothing

Parse == parsing /\ ReadFrame

Next ==
  \/ \E from, to \in Cuts \cap 0 .. Length : NewPacket(from, to)
  \/ Parse

(* Parse runs in the goroutine of main and never waits. *)
Spec == Init /\ [][Next]_vars /\ WF_vars(Parse)

-----------------------------------------------------------------------------
Border(octet) == \E k \in DOMAIN stream : stream[k].from = octet
Within(k, p) == p.from <= stream[k].from /\ stream[k].to <= p.to
Overlaps(k, p) == p.from < stream[k].to /\ stream[k].from < p.to

(* Nothing makes the reader of packet p lose its place. *)
InStep(p) ==
  /\ Border(p.from)
  /\ \A k \in DOMAIN stream : Overlaps(k, p) => stream[k].kind # "strange"

(***************************************************************************)
(* demux is given a frame only if ONE packet holds all of it, end octet    *)
(* included, and ReadFrame understands it; it is given something that was  *)
(* never sent only from a packet that begins amid a frame or holds a       *)
(* frame on which ReadFrame fails midway.                                  *)
(***************************************************************************)
OnlySentFrames ==
  \A n \in DOMAIN obtained :
    LET k == obtained[n].frame
        p == packets[obtained[n].packet] IN
    \/ k = MadeUp /\ ~InStep(p)
    \/ k # MadeUp /\ stream[k].kind = "plain" /\ Within(k, p)

(* The whole frames of a packet before the first one that is not plain. *)
Readable(p) ==
  {k \in DOMAIN stream :
     /\ Within(k, p)
     /\ \A j \in 1 .. k : Overlaps(j, p) => stream[j].kind = "plain"}

(***************************************************************************)
(* The loop of Parse: once Parse has returned from a packet that begins    *)
(* with a frame, each whole frame in it was given to demux exactly once,   *)
(* up to the first frame ReadFrame cannot read; and the frames of a packet *)
(* are given to demux in the order in which they were sent.                *)
(***************************************************************************)
AlignedPacketIsRead ==
  /\ \A i \in DOMAIN packets :
       (i < Len(packets) \/ ~parsing) /\ Border(packets[i].from) =>
         \A k \in Readable(packets[i]) :
           \E n \in DOMAIN obtained :
             \A m \in DOMAIN obtained :
               obtained[m] = [frame |-> k, packet |-> i] <=> m = n
  /\ \A m, n \in DOMAIN obtained :
       /\ m < n /\ obtained[m].packet = obtained[n].packet
       /\ MadeUp \notin {obtained[m].frame, obtained[n].frame}
       => obtained[m].frame < obtained[n].frame

(***************************************************************************)
(* Parse returns from every packet (or panics): each turn of its loop      *)
(* consumes octets or meets io.EOF, whatever the octets are.               *)
(***************************************************************************)
ParseReturns == parsing ~> ~parsing
=============================================================================
