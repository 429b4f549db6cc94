------------------------- MODULE FrameReaderProofs -------------------------
(***************************************************************************)
(* The theorems about FrameReader, for any streams, cut and captured in    *)
(* any way: from packets the reader keeps its place in, demux is only      *)
(* given frames that were sent; and from a packet that begins with a frame *)
(* it is given all that can be read, each once and in order.               *)
(***************************************************************************)
EXTENDS FrameReader, WellFoundedInduction, TLAPS

(***************************************************************************)
(* What makes OnlySentFrames inductive: in a packet in which nothing makes *)
(* the reader lose its place, it is at the border of a frame or at the end *)
(* of the packet.                                                          *)
(***************************************************************************)
KeepsPlace == parsing /\ InStep(Packet) => Border(pos) \/ pos = Packet.to

IInv == TypeOK /\ KeepsPlace /\ OnlySentFrames

(* Sequences: the type of an element, and of a sequence over a larger set. *)
LEMMA ElementType ==
  ASSUME NEW S, NEW s \in Seq(S), NEW i \in DOMAIN s
  PROVE  s[i] \in S
  OBVIOUS

(* A sequence over a set is one over a larger set. *)
LEMMA WiderSeq ==
  ASSUME NEW S, NEW T, S \subseteq T, NEW s \in Seq(S)
  PROVE  s \in Seq(T)
<1>1. Len(s) \in Nat /\ s \in [1 .. Len(s) -> T]
  BY ElementType
<1> QED
  BY <1>1

(* The shape of a stream, from the assumption on Streams. *)
LEMMA StreamShape ==
  ASSUME TypeOK
  PROVE  /\ stream \in Seq(Frame) /\ Len(stream) \in Nat \ {0} /\ Length \in Nat
         /\ stream[Len(stream)].to = Length
         /\ \A k \in DOMAIN stream :
              /\ stream[k].from \in Nat /\ stream[k].to \in Nat /\ stream[k].stop \in Nat
              /\ stream[k].from + FrameHeader <= stream[k].stop
              /\ stream[k].stop < stream[k].to
              /\ k # Len(stream) =>
                   k + 1 \in DOMAIN stream /\ stream[k+1].from = stream[k].to
<1>1. /\ stream \in Seq(Frame) /\ stream # <<>>
      /\ \A k \in DOMAIN stream :
           /\ stream[k].from + FrameHeader <= stream[k].stop /\ stream[k].stop < stream[k].to
           /\ k + 1 \in DOMAIN stream => stream[k+1].from = stream[k].to
  BY FrameReaderAssumption DEF TypeOK
<1>2. Len(stream) \in Nat /\ DOMAIN stream = 1 .. Len(stream)
  BY <1>1
<1>3. Len(stream) # 0
  BY <1>1, <1>2
<1>4. \A k \in DOMAIN stream : stream[k] \in Frame
  BY <1>1, <1>2
<1>5. \A k \in DOMAIN stream :
        stream[k].from \in Nat /\ stream[k].to \in Nat /\ stream[k].stop \in Nat
  BY <1>4 DEF Frame
<1>6. Length \in Nat
  BY <1>2, <1>3, <1>5 DEF Length
<1> QED
  BY <1>1, <1>2, <1>3, <1>5, <1>6 DEF Length

(* While Parse runs, its reader is within the last packet. *)
LEMMA ReaderPlace ==
  ASSUME TypeOK, parsing
  PROVE  /\ packets # <<>> /\ Len(packets) \in DOMAIN packets
         /\ Packet \in [from : 0 .. Length, to : 0 .. Length]
         /\ pos \in Nat /\ Packet.from <= pos /\ pos <= Packet.to
         /\ Left \in Nat
<1>1. packets # <<>> /\ pos \in Packet.from .. Packet.to /\ pos \in 0 .. Length
  BY DEF TypeOK
<1>2. Len(packets) \in DOMAIN packets
  BY <1>1 DEF TypeOK
<1>3. Packet \in [from : 0 .. Length, to : 0 .. Length]
  <2>1. packets \in Seq([from : 0 .. Length, to : 0 .. Length])
    BY DEF TypeOK
  <2> QED
    BY <1>2, <2>1, ElementType DEF Packet
<1>4. Length \in Nat
  BY StreamShape
<1>5. /\ Packet.from \in Nat /\ Packet.to \in Nat
      /\ pos \in Nat /\ Packet.from <= pos /\ pos <= Packet.to
  BY <1>1, <1>3, <1>4
<1> QED
  BY <1>1, <1>2, <1>3, <1>5 DEF Left

(* Where a frame that begins at the reader's place ends. *)
LEMMA NextBorder ==
  ASSUME TypeOK, parsing, NEW k \in DOMAIN stream, At(k), HasEnd(k)
  PROVE  /\ Within(k, Packet)
         /\ stream[k].to \in Packet.from .. Packet.to
         /\ Border(stream[k].to) \/ stream[k].to = Packet.to
<1>1. stream[k].from = pos /\ stream[k].to <= Packet.to
  BY DEF At, HasEnd
<1>2. /\ Packet.from \in Nat /\ Packet.to \in Nat /\ Packet.to <= Length
      /\ Packet.from <= pos /\ pos \in Nat /\ Length \in Nat
  BY ReaderPlace, StreamShape
<1>3. stream[k].to \in Nat /\ stream[k].from <= stream[k].to
  BY StreamShape DEF FrameHeader
<1>4. Border(stream[k].to) \/ stream[k].to = Packet.to
  <2>1. CASE k = Len(stream)
    BY <1>1, <1>2, <1>3, <2>1, StreamShape
  <2>2. CASE k # Len(stream)
    BY <2>2, StreamShape DEF Border
  <2> QED
    BY <2>1, <2>2
<1> QED
  BY <1>1, <1>2, <1>3, <1>4 DEF Within

(* The four things a turn of the loop of Parse can do. *)
ReadsOn(n) == Fails(n) /\ (pos + n = Packet.to \/ ~InStep(Packet))
Understands(k) == /\ At(k) /\ stream[k].kind = "plain" /\ HasEnd(k)
                  /\ Obtain(k, stream[k].to)
MakesUp(n) == ~InStep(Packet) /\ Obtain(MadeUp, pos + n)

(* A turn of the loop of Parse is of one of these kinds. *)
LEMMA TurnOfLoop ==
  ASSUME TypeOK, KeepsPlace, Parse
  PROVE  \/ Eof \/ Panic
         \/ \E n \in 1 .. Left : ReadsOn(n) \/ MakesUp(n)
         \/ \E k \in DOMAIN stream : Understands(k)
<1>0. parsing /\ ReadFrame
  BY DEF Parse
<1>1. /\ Left \in Nat /\ Left = Packet.to - pos /\ pos \in Nat
      /\ Packet.from \in Nat /\ Packet.to \in Nat /\ Packet.from <= pos
  BY <1>0, ReaderPlace, StreamShape DEF Left
<1>2. ASSUME NEW k \in DOMAIN stream, Left > 0, ReadPlain(k)
      PROVE  Understands(k)
  BY <1>2 DEF ReadPlain, Understands
<1>3. ASSUME NEW k \in DOMAIN stream, Left > 0, ReadCut(k)
      PROVE  Eof \/ ReadsOn(Left)
  BY <1>1, <1>3 DEF ReadCut, ReadsOn
<1>4. ASSUME NEW k \in DOMAIN stream, Left > 0, ReadStrange(k)
      PROVE  \E n \in 1 .. Left : ReadsOn(n)
  <2>1. /\ stream[k].from = pos /\ stream[k].kind = "strange"
        /\ stream[k].stop <= Packet.to /\ Fails(stream[k].stop - pos)
    BY <1>4 DEF ReadStrange, At
  <2>2. /\ stream[k].stop \in Nat /\ stream[k].to \in Nat
        /\ pos + 7 <= stream[k].stop /\ stream[k].stop < stream[k].to
    BY <2>1, StreamShape DEF FrameHeader
  <2>3. Overlaps(k, Packet)
    BY <1>1, <1>4, <2>1, <2>2 DEF Overlaps
  <2>4. ~InStep(Packet)
    BY <2>1, <2>3 DEF InStep
  <2>5. stream[k].stop - pos \in 1 .. Left
    BY <1>1, <2>1, <2>2
  <2> QED
    BY <2>1, <2>4, <2>5 DEF ReadsOn
<1>5. ASSUME Misread
      PROVE  Eof \/ Panic \/ \E n \in 1 .. Left : ReadsOn(n) \/ MakesUp(n)
  <2>1. ~Border(pos) /\ Left > 0
    BY <1>5 DEF Misread, Misaligned, At, Border
  <2>2. ~InStep(Packet)
    BY <1>0, <1>1, <2>1 DEF KeepsPlace
  <2> QED
    BY <1>1, <1>5, <2>1, <2>2 DEF Misread, FrameHeader, ReadsOn, MakesUp
<1> QED
  BY <1>0, <1>1, <1>2, <1>3, <1>4, <1>5 DEF ReadFrame, ReadShort, ReadNothing

(***************************************************************************)
(* Each of the four keeps the invariant, and so does a new packet.         *)
(***************************************************************************)
(* Where packets and stream do not change, nothing defined from them does. *)
LEMMA SamePackets ==
  ASSUME UNCHANGED <<stream, packets>>
  PROVE  /\ Length' = Length /\ Packet' = Packet
         /\ \A p : InStep(p)' = InStep(p)
         /\ \A k, p : Within(k, p)' = Within(k, p)
         /\ \A o : Border(o)' = Border(o)
  BY DEF Length, Packet, InStep, Within, Border, Overlaps

(* Parse returns: the invariant holds. *)
LEMMA ReturnStep ==
  ASSUME IInv, Parse, Eof \/ Panic
  PROVE  IInv'
<1>1. UNCHANGED <<stream, packets, pos, obtained>> /\ parsing' = FALSE
      /\ panicked' \in BOOLEAN
  BY DEF IInv, TypeOK, Eof, Panic
<1>2. TypeOK'
  BY <1>1, SamePackets DEF IInv, TypeOK
<1>3. KeepsPlace'
  BY <1>1 DEF KeepsPlace
<1>4. OnlySentFrames'
  BY <1>1, SamePackets DEF IInv, OnlySentFrames
<1> QED
  BY <1>2, <1>3, <1>4 DEF IInv

(* ReadFrame gives an error: the invariant holds. *)
LEMMA ReadsOnStep ==
  ASSUME IInv, Parse, NEW n \in 1 .. Left, ReadsOn(n)
  PROVE  IInv'
<1>0. TypeOK /\ parsing
  BY DEF IInv, Parse
<1>1. UNCHANGED <<stream, packets, parsing, panicked, obtained>> /\ pos' = pos + n
  BY DEF ReadsOn, Fails
<1>2. pos' \in 0 .. Length /\ pos' \in Packet.from .. Packet.to
  BY <1>0, <1>1, ReaderPlace, StreamShape DEF Left
<1>3. TypeOK'
  BY <1>0, <1>1, <1>2, SamePackets DEF TypeOK
<1>4. KeepsPlace'
  BY <1>1, SamePackets DEF KeepsPlace, ReadsOn
<1>5. OnlySentFrames'
  BY <1>1, SamePackets DEF IInv, OnlySentFrames
<1> QED
  BY <1>3, <1>4, <1>5 DEF IInv

(* What demux has been given, and one frame more. *)
LEMMA ObtainStep ==
  ASSUME IInv, Parse, NEW k \in DOMAIN stream \cup {MadeUp}, NEW to, Obtain(k, to),
         to \in Packet.from .. Packet.to,
         InStep(Packet) => Border(to) \/ to = Packet.to,
         \/ k = MadeUp /\ ~InStep(Packet)
         \/ k # MadeUp /\ stream[k].kind = "plain" /\ Within(k, Packet)
  PROVE  IInv'
<1> DEFINE new == [frame |-> k, packet |-> Len(packets)]
           Given == [frame : DOMAIN stream \cup {MadeUp}, packet : DOMAIN packets]
<1>0. TypeOK /\ parsing
  BY DEF IInv, Parse
<1>1. /\ UNCHANGED <<stream, packets, parsing, panicked>>
      /\ pos' = to /\ obtained' = Append(obtained, new)
  BY DEF Obtain
<1>2. new \in Given /\ obtained \in Seq(Given)
  BY <1>0, ReaderPlace DEF TypeOK
<1>3. TypeOK'
  <2>1. obtained' \in Seq(Given)
    BY <1>1, <1>2
  <2>2. pos' \in 0 .. Length
    BY <1>0, <1>1, ReaderPlace, StreamShape
  <2> QED
    BY <1>0, <1>1, <2>1, <2>2, SamePackets DEF TypeOK
<1>4. KeepsPlace'
  BY <1>1, SamePackets DEF KeepsPlace
<1>5. OnlySentFrames'
  <2>1. SUFFICES ASSUME NEW n \in DOMAIN obtained'
                 PROVE  LET j == obtained'[n].frame
                            p == packets[obtained'[n].packet] IN
                        \/ j = MadeUp /\ ~InStep(p)
                        \/ j # MadeUp /\ stream[j].kind = "plain" /\ Within(j, p)
    BY <1>1, SamePackets DEF OnlySentFrames
  <2>2. CASE n \in DOMAIN obtained
    <3>1. obtained'[n] = obtained[n]
      BY <1>1, <1>2, <2>2
    <3> QED
      BY <2>2, <3>1 DEF IInv, OnlySentFrames
  <2>3. CASE n \notin DOMAIN obtained
    <3>1. obtained'[n] = new
      BY <1>1, <1>2, <2>1, <2>3
    <3>2. packets[new.packet] = Packet
      BY DEF Packet
    <3> QED
      BY <3>1, <3>2
  <2> QED
    BY <2>2, <2>3
<1> QED
  BY <1>3, <1>4, <1>5 DEF IInv

(* Parse is called with the next packet: the invariant holds. *)
LEMMA NewPacketStep ==
  ASSUME IInv, NEW from \in 0 .. Length, NEW to \in 0 .. Length, NewPacket(from, to)
  PROVE  IInv'
<1> DEFINE new == [from |-> from, to |-> to]
<1>0. TypeOK /\ Length \in Nat
  BY StreamShape DEF IInv
<1>1. /\ UNCHANGED <<stream, panicked, obtained>>
      /\ packets' = Append(packets, new) /\ pos' = from /\ parsing' = TRUE /\ from < to
  BY DEF NewPacket
<1>2. /\ packets \in Seq([from : 0 .. Length, to : 0 .. Length])
      /\ packets' \in Seq([from : 0 .. Length, to : 0 .. Length])
  BY <1>0, <1>1 DEF TypeOK
<1>3. /\ packets' # <<>> /\ Packet' = new
      /\ DOMAIN packets \subseteq DOMAIN packets'
      /\ \A i \in DOMAIN packets : packets'[i] = packets[i]
  BY <1>1, <1>2 DEF Packet
<1>4. Length' = Length
  BY <1>1 DEF Length
<1>5. TypeOK'
  <2>1. obtained' \in Seq([frame : DOMAIN stream \cup {MadeUp}, packet : DOMAIN packets'])
    <3> DEFINE Old == [frame : DOMAIN stream \cup {MadeUp}, packet : DOMAIN packets]
               Now == [frame : DOMAIN stream \cup {MadeUp}, packet : DOMAIN packets']
    <3>1. obtained \in Seq(Old)
      BY <1>0 DEF TypeOK
    <3>2. Old \subseteq Now
      BY <1>3
    <3> HIDE DEF Old, Now
    <3>3. obtained \in Seq(Now)
      BY <3>1, <3>2, WiderSeq
    <3> QED
      BY <1>1, <3>3 DEF Now
  <2>2. pos' \in Packet'.from .. Packet'.to
    BY <1>0, <1>1, <1>3
  <2> QED
    BY <1>0, <1>1, <1>2, <1>3, <1>4, <2>1, <2>2 DEF TypeOK
<1>6. KeepsPlace'
  BY <1>1, <1>3 DEF KeepsPlace, InStep, Border
<1>7. OnlySentFrames'
  <2>1. \A n \in DOMAIN obtained : obtained[n].packet \in DOMAIN packets
    <3> DEFINE Old == [frame : DOMAIN stream \cup {MadeUp}, packet : DOMAIN packets]
    <3>1. obtained \in Seq(Old)
      BY <1>0 DEF TypeOK
    <3> HIDE DEF Old
    <3>2. \A n \in DOMAIN obtained : obtained[n] \in Old
      BY <3>1, ElementType
    <3> QED
      BY <3>2 DEF Old
  <2> QED
    BY <1>1, <1>3, <2>1 DEF IInv, OnlySentFrames, InStep, Border, Overlaps, Within
<1> QED
  BY <1>5, <1>6, <1>7 DEF IInv

-----------------------------------------------------------------------------
(* Every state satisfies the invariant. *)
LEMMA InvariantHolds == Spec => []IInv
<1>1. Init => IInv
  <2> SUFFICES ASSUME Init PROVE IInv
    OBVIOUS
  <2>1. /\ stream \in Streams /\ packets = <<>> /\ pos = 0 /\ parsing = FALSE
        /\ panicked = FALSE /\ obtained = <<>>
    BY DEF Init
  <2>2. stream \in Seq(Frame) /\ stream # <<>>
    BY <2>1, FrameReaderAssumption
  <2>3. Length \in Nat
    <3>1. Len(stream) \in DOMAIN stream
      BY <2>2
    <3>2. stream[Len(stream)] \in Frame
      BY <2>2, <3>1, ElementType
    <3> QED
      BY <3>2 DEF Length, Frame
  <2>4. /\ packets \in Seq([from : 0 .. Length, to : 0 .. Length])
        /\ obtained \in Seq([frame : DOMAIN stream \cup {MadeUp}, packet : DOMAIN packets])
    BY <2>1
  <2>5. TypeOK
    <3>1. stream \in Streams /\ parsing \in BOOLEAN /\ panicked \in BOOLEAN /\ ~parsing
      BY <2>1
    <3>2. pos \in 0 .. Length
      BY <2>1, <2>3
    <3> QED
      BY <2>4, <3>1, <3>2 DEF TypeOK
  <2>6. KeepsPlace /\ OnlySentFrames
    BY <2>1 DEF KeepsPlace, OnlySentFrames
  <2> QED
    BY <2>5, <2>6 DEF IInv
<1>2. IInv /\ [Next]_vars => IInv'
  <2> SUFFICES ASSUME IInv, [Next]_vars PROVE IInv'
    OBVIOUS
  <2>1. ASSUME NEW from \in Cuts \cap 0 .. Length, NEW to \in Cuts \cap 0 .. Length,
               NewPacket(from, to)
        PROVE  IInv'
    BY <2>1, NewPacketStep
  <2>2. CASE Parse
    <3>1. ASSUME Eof \/ Panic PROVE IInv'
      BY <2>2, <3>1, ReturnStep
    <3>2. ASSUME NEW n \in 1 .. Left, ReadsOn(n) PROVE IInv'
      BY <2>2, <3>2, ReadsOnStep
    <3>3. ASSUME NEW n \in 1 .. Left, MakesUp(n) PROVE IInv'
      <4>1. pos + n \in Packet.from .. Packet.to
        BY <2>2, ReaderPlace DEF IInv, Parse, Left
      <4> QED
        BY <2>2, <3>3, <4>1, ObtainStep DEF MakesUp
    <3>4. ASSUME NEW k \in DOMAIN stream, Understands(k) PROVE IInv'
      <4>1. /\ Within(k, Packet) /\ stream[k].to \in Packet.from .. Packet.to
            /\ Border(stream[k].to) \/ stream[k].to = Packet.to
        BY <2>2, <3>4, NextBorder DEF IInv, Parse, Understands
      <4>2. k # MadeUp
        BY StreamShape DEF IInv, MadeUp
      <4> QED
        BY <2>2, <3>4, <4>1, <4>2, ObtainStep DEF Understands
    <3> QED
      BY <2>2, <3>1, <3>2, <3>3, <3>4, TurnOfLoop DEF IInv
  <2>3. CASE UNCHANGED vars
    BY <2>3, SamePackets DEF vars, IInv, TypeOK, KeepsPlace, OnlySentFrames
  <2> QED
    BY <2>1, <2>2, <2>3 DEF Next
<1> QED
  BY <1>1, <1>2, PTL DEF Spec

(***************************************************************************)
(* The reader's place and what it has given to demux keep their types:     *)
(* it never reads beyond the packet.                                       *)
(***************************************************************************)
THEOREM ReaderTypeCorrect == Spec => []TypeOK
<1>1. IInv => TypeOK
  BY DEF IInv
<1> QED
  BY <1>1, InvariantHolds, PTL

(***************************************************************************)
(* demux is given nothing but frames sent whole in one packet, unless the  *)
(* packet begins amid a frame or holds one that fails midway.              *)
(***************************************************************************)
THEOREM OnlyFramesAreObtained == Spec => []OnlySentFrames
<1>1. IInv => OnlySentFrames
  BY DEF IInv
<1> QED
  BY <1>1, InvariantHolds, PTL

-----------------------------------------------------------------------------
(* Completeness: what a packet holds is read, in order.                    *)

(* Frame k was given to demux from the i-th packet. *)
Got(k, i) == \E n \in DOMAIN obtained : obtained[n] = [frame |-> k, packet |-> i]

(* Packets Parse has returned from have been read. *)
FinishedAreRead ==
  \A i \in DOMAIN packets :
    (i < Len(packets) \/ ~parsing) /\ Border(packets[i].from) =>
      \A k \in Readable(packets[i]) : Got(k, i)

(* While there is more to read in the packet Parse is busy with, its reader*)
(* is at the border of a frame, and what it has not read lies ahead.       *)
RestIsAhead ==
  parsing /\ Border(Packet.from) =>
    \A k \in Readable(Packet) :
      Got(k, Len(packets)) \/ (Border(pos) /\ pos <= stream[k].from)

(* What was obtained from this packet lies behind the reader. *)
Real(n) == obtained[n].frame # MadeUp
ObtainedIsBehind ==
  parsing =>
    \A n \in DOMAIN obtained :
      obtained[n].packet = Len(packets) /\ Real(n) => stream[obtained[n].frame].to <= pos

(* The frames of a packet are in order. *)
InOrder ==
  \A m, n \in DOMAIN obtained :
    m < n /\ obtained[m].packet = obtained[n].packet /\ Real(m) /\ Real(n) =>
      obtained[m].frame < obtained[n].frame

CompleteInv == IInv /\ FinishedAreRead /\ RestIsAhead /\ ObtainedIsBehind /\ InOrder

(* Induction over the natural numbers, on the set of those it holds for. *)
LEMMA Induction ==
  ASSUME NEW S, 0 \in S, \A n \in Nat : n \in S => n + 1 \in S
  PROVE  Nat \subseteq S
<1>1. PICK R : R = {p \in Nat \X Nat : p[1] < p[2]}
  BY Zenon
<1>2. IsWellFoundedOn({p \in Nat \X Nat : p[1] < p[2]}, Nat)
  BY NatLessThanWellFounded DEF OpToRel
<1>3. PICK T : T = Nat \ S
  BY Zenon
<1>4. ASSUME T # {} PROVE FALSE
  <2>1. PICK x \in T : \A y \in T : ~(<<y, x>> \in R)
    BY <1>1, <1>2, <1>3, <1>4, WFMin
  <2>2. x # 0 /\ x - 1 \in Nat
    BY <1>3
  <2>3. <<x - 1, x>> \in R
    BY <1>1, <1>3, <2>2
  <2> QED
    BY <1>3, <2>1, <2>2, <2>3
<1> QED
  BY <1>3, <1>4

(* Where a frame begins and ends. *)
LEMMA FrameExtent ==
  ASSUME TypeOK, NEW k \in DOMAIN stream
  PROVE  /\ stream[k].from \in Nat /\ stream[k].to \in Nat /\ stream[k].stop \in Nat
         /\ stream[k].from < stream[k].to /\ stream[k].stop < stream[k].to
         /\ k \in Nat \ {0} /\ k <= Len(stream)
<1>1. /\ stream[k].from \in Nat /\ stream[k].to \in Nat /\ stream[k].stop \in Nat
      /\ stream[k].from + FrameHeader <= stream[k].stop /\ stream[k].stop < stream[k].to
      /\ DOMAIN stream = 1 .. Len(stream)
  BY StreamShape
<1> QED
  BY <1>1 DEF FrameHeader

(* A frame ends before the next ones begin. *)
LEMMA LaterFrames ==
  ASSUME TypeOK, NEW j \in DOMAIN stream, NEW k \in DOMAIN stream, j < k
  PROVE  stream[j].to <= stream[k].from
<1> DEFINE S == {d \in Nat : j + 1 + d <= Len(stream) => stream[j].to <= stream[j + 1 + d].from}
<1>1. /\ DOMAIN stream = 1 .. Len(stream) /\ Len(stream) \in Nat
      /\ \A i \in DOMAIN stream :
           /\ stream[i].from \in Nat /\ stream[i].to \in Nat /\ stream[i].from < stream[i].to
           /\ i # Len(stream) => i + 1 \in DOMAIN stream /\ stream[i+1].from = stream[i].to
  BY StreamShape, FrameExtent
<1>2. 0 \in S
  BY <1>1
<1>3. ASSUME NEW d \in Nat, d \in S PROVE d + 1 \in S
  <2> SUFFICES ASSUME j + 1 + (d + 1) <= Len(stream)
               PROVE  stream[j].to <= stream[j + 1 + (d + 1)].from
    OBVIOUS
  <2>1. PICK m \in Nat : m = j + 1 + d
    BY <1>1
  <2>2. m \in DOMAIN stream /\ m # Len(stream) /\ j + 1 + (d + 1) = m + 1
    BY <1>1, <2>1
  <2>3. stream[j].to <= stream[m].from
    BY <1>1, <1>3, <2>1, <2>2
  <2>4. stream[m+1].from = stream[m].to /\ stream[m].from < stream[m].to
        /\ stream[m].from \in Nat /\ stream[m].to \in Nat /\ stream[j].to \in Nat
    BY <1>1, <2>2
  <2> QED
    BY <2>2, <2>3, <2>4
<1>4. Nat \subseteq S
  <2> HIDE DEF S
  <2> QED
    BY <1>2, <1>3, Induction
<1>5. k - (j + 1) \in Nat /\ j + 1 + (k - (j + 1)) = k /\ k <= Len(stream)
  BY <1>1
<1> QED
  BY <1>4, <1>5

(* A frame that begins at or behind the border of another is not before it.*)
LEMMA FromIsMonotone ==
  ASSUME TypeOK, NEW j \in DOMAIN stream, NEW k \in DOMAIN stream,
         stream[j].from <= stream[k].from
  PROVE  j <= k
<1>1. k < j \/ j <= k
  BY StreamShape
<1>2. ASSUME k < j PROVE FALSE
  <2>1. stream[k].to <= stream[j].from
    BY <1>2, LaterFrames
  <2> QED
    BY <2>1, FrameExtent
<1> QED
  BY <1>1, <1>2

(* A readable frame is in its packet, and no frame before it in the packet *)
(* is one that ReadFrame cannot read.                                      *)
LEMMA ReadableIs ==
  ASSUME NEW p, NEW k \in Readable(p)
  PROVE  /\ k \in DOMAIN stream /\ p.from <= stream[k].from /\ stream[k].to <= p.to
         /\ \A j \in 1 .. k : Overlaps(j, p) => stream[j].kind = "plain"
BY DEF Readable, Within

(* A turn of the loop that does not understand a frame finds nothing left  *)
(* to read in a packet that begins with a frame.                           *)
LEMMA NothingLeft ==
  ASSUME CompleteInv, parsing, Border(Packet.from),
         \/ \E j \in DOMAIN stream : Left > 0 /\ (ReadCut(j) \/ ReadStrange(j) \/ ReadShort(j))
         \/ Misread
         \/ ReadNothing
  PROVE  \A k \in Readable(Packet) : Got(k, Len(packets))
<1> SUFFICES ASSUME NEW k \in Readable(Packet), Border(pos), pos <= stream[k].from
             PROVE  FALSE
  BY DEF CompleteInv, RestIsAhead
<1>0. TypeOK
  BY DEF CompleteInv, IInv
<1>1. /\ k \in DOMAIN stream /\ Packet.from <= stream[k].from /\ stream[k].to <= Packet.to
      /\ \A j \in 1 .. k : Overlaps(j, Packet) => stream[j].kind = "plain"
  BY ReadableIs
<1>2. /\ Packet.from \in Nat /\ Packet.to \in Nat /\ pos \in Nat /\ Packet.from <= pos
      /\ pos <= Packet.to /\ Left = Packet.to - pos
  BY <1>0, ReaderPlace, StreamShape DEF Left
<1>3. /\ stream[k].from \in Nat /\ stream[k].to \in Nat /\ stream[k].from < stream[k].to
      /\ \A j \in DOMAIN stream :
           /\ stream[j].from \in Nat /\ stream[j].to \in Nat /\ stream[j].stop \in Nat
           /\ stream[j].from < stream[j].to /\ stream[j].stop < stream[j].to
  BY <1>0, <1>1, FrameExtent
<1>4. ~ReadNothing
  BY <1>1, <1>2, <1>3 DEF ReadNothing
<1>5. ~Misread
  BY DEF Misread, Misaligned, At, Border
<1>6. PICK j \in DOMAIN stream : Left > 0 /\ (ReadCut(j) \/ ReadStrange(j) \/ ReadShort(j))
  BY <1>4, <1>5
<1>7. stream[j].from = pos
  BY <1>6 DEF ReadCut, ReadStrange, ReadShort, At
<1>8. j <= k
  BY <1>0, <1>1, <1>7, FromIsMonotone
<1>9. Overlaps(j, Packet)
  BY <1>2, <1>3, <1>6, <1>7 DEF Overlaps
<1>10. stream[j].kind = "plain"
  BY <1>1, <1>8, <1>9, StreamShape, <1>0
<1>11. ReadCut(j)
  BY <1>6, <1>10 DEF ReadStrange, ReadShort
<1>12. stream[j].to > Packet.to
  BY <1>2, <1>3, <1>10, <1>11 DEF ReadCut, HasEnd
<1>13. CASE j = k
  BY <1>1, <1>2, <1>3, <1>12, <1>13
<1>14. CASE j # k
  <2>1. stream[j].to <= stream[k].from
    BY <1>0, <1>1, <1>8, <1>14, StreamShape, LaterFrames
  <2> QED
    BY <1>1, <1>2, <1>3, <1>12, <2>1
<1> QED
  BY <1>13, <1>14

(* What has been given to demux, record by record. *)
LEMMA ObtainedAre ==
  ASSUME TypeOK
  PROVE  /\ Len(obtained) \in Nat /\ DOMAIN obtained = 1 .. Len(obtained)
         /\ \A n \in DOMAIN obtained :
              /\ obtained[n].packet \in DOMAIN packets
              /\ Real(n) => obtained[n].frame \in DOMAIN stream
         /\ Len(packets) \in Nat /\ DOMAIN packets = 1 .. Len(packets)
<1> DEFINE Given == [frame : DOMAIN stream \cup {MadeUp}, packet : DOMAIN packets]
<1>1. obtained \in Seq(Given)
  BY DEF TypeOK
<1> HIDE DEF Given
<1>2. \A n \in DOMAIN obtained : obtained[n] \in Given
  BY <1>1, ElementType
<1>3. Len(obtained) \in Nat /\ DOMAIN obtained = 1 .. Len(obtained)
  BY <1>1
<1>4. Len(packets) \in Nat /\ DOMAIN packets = 1 .. Len(packets)
  BY DEF TypeOK
<1> QED
  BY <1>2, <1>3, <1>4 DEF Given, Real

(* One more record. *)
LEMMA OneMoreObtained ==
  ASSUME TypeOK, NEW x, obtained' = Append(obtained, x)
  PROVE  /\ DOMAIN obtained' = DOMAIN obtained \cup {Len(obtained) + 1}
         /\ obtained'[Len(obtained) + 1] = x
         /\ \A n \in DOMAIN obtained : n < Len(obtained) + 1 /\ obtained'[n] = obtained[n]
<1> DEFINE Given == [frame : DOMAIN stream \cup {MadeUp}, packet : DOMAIN packets]
<1>1. obtained \in Seq(Given)
  BY DEF TypeOK
<1> HIDE DEF Given
<1> QED
  BY <1>1

(* What has been obtained stays so. *)
LEMMA GotStays ==
  ASSUME TypeOK, \/ obtained' = obtained
                 \/ \E x : obtained' = Append(obtained, x)
  PROVE  \A k, i : Got(k, i) => Got(k, i)'
<1>1. CASE obtained' = obtained
  BY <1>1 DEF Got
<1>2. ASSUME NEW x, obtained' = Append(obtained, x) PROVE \A k, i : Got(k, i) => Got(k, i)'
  BY <1>2, OneMoreObtained DEF Got
<1> QED
  BY <1>1, <1>2

(* A turn of the loop leaves the frames and the packets as they are, and    *)
(* gives one frame to demux at most.                                       *)
LEMMA TurnKeeps ==
  ASSUME CompleteInv, Parse
  PROVE  /\ UNCHANGED <<stream, packets>> /\ parsing
         /\ obtained' = obtained \/ \E x : obtained' = Append(obtained, x)
<1>1. \/ Eof \/ Panic
      \/ \E n \in 1 .. Left : ReadsOn(n) \/ MakesUp(n)
      \/ \E k \in DOMAIN stream : Understands(k)
  BY TurnOfLoop DEF CompleteInv, IInv
<1> QED
  BY <1>1 DEF Parse, Eof, Panic, ReadsOn, Fails, MakesUp, Understands, Obtain

(* Nothing defined from the packets changes with them unchanged. *)
LEMMA SameReadable ==
  ASSUME UNCHANGED <<stream, packets>>
  PROVE  \A p : Readable(p)' = Readable(p)
BY DEF Readable, Within, Overlaps

(* Packets Parse had returned from stay read. *)
LEMMA EarlierAreRead ==
  ASSUME CompleteInv, Parse, NEW i \in DOMAIN packets, i < Len(packets),
         Border(packets[i].from)', NEW k \in Readable(packets[i])'
  PROVE  Got(k, i)'
<1>1. UNCHANGED <<stream, packets>>
  BY TurnKeeps
<1>2. Border(packets[i].from) /\ k \in Readable(packets[i])
  BY <1>1 DEF Border, Readable, Within, Overlaps
<1>3. Got(k, i)
  BY <1>2 DEF CompleteInv, FinishedAreRead
<1> QED
  BY <1>3, TurnKeeps, GotStays DEF CompleteInv, IInv

(* A turn that does not understand a frame: there was nothing left. *)
LEMMA OtherTurnReads ==
  ASSUME CompleteInv, Parse, \A k \in DOMAIN stream : ~ReadPlain(k)
  PROVE  FinishedAreRead' /\ RestIsAhead'
<1>1. UNCHANGED <<stream, packets>> /\ parsing
  BY TurnKeeps
<1>2. \/ \E j \in DOMAIN stream : Left > 0 /\ (ReadCut(j) \/ ReadStrange(j) \/ ReadShort(j))
      \/ Misread
      \/ ReadNothing
  BY DEF Parse, ReadFrame
<1>3. Border(Packet.from) => \A k \in Readable(Packet) : Got(k, Len(packets))
  BY <1>1, <1>2, NothingLeft
<1>4. \A k, i : Got(k, i) => Got(k, i)'
  BY TurnKeeps, GotStays DEF CompleteInv, IInv
<1>5. Border(Packet.from)' => \A k \in Readable(Packet)' : Got(k, Len(packets))'
  <2> SUFFICES ASSUME Border(Packet.from)', NEW k \in Readable(Packet)'
               PROVE  Got(k, Len(packets))'
    BY Zenon
  <2>1. Border(Packet.from) /\ k \in Readable(Packet)
    BY <1>1 DEF Border, Readable, Within, Overlaps, Packet
  <2>2. PICK i : i = Len(packets)
    BY Zenon
  <2>3. Got(k, i)'
    BY <1>3, <1>4, <2>1, <2>2, Zenon
  <2> QED
    BY <1>1, <2>2, <2>3 DEF Got
<1>6. RestIsAhead'
  BY <1>5 DEF RestIsAhead
<1>7. FinishedAreRead'
  <2> SUFFICES ASSUME NEW i \in DOMAIN packets, Border(packets[i].from)',
                      NEW k \in Readable(packets[i])'
               PROVE  Got(k, i)'
    BY <1>1 DEF FinishedAreRead
  <2>1. CASE i < Len(packets)
    BY <2>1, EarlierAreRead
  <2>2. CASE i = Len(packets)
    BY <1>1, <1>5, <2>2 DEF Packet, Got
  <2> QED
    BY <2>1, <2>2, ObtainedAre DEF CompleteInv, IInv
<1> QED
  BY <1>6, <1>7

(* A frame is understood: the next one begins where it ends. *)
LEMMA PlainTurnReads ==
  ASSUME CompleteInv, Parse, NEW j \in DOMAIN stream, ReadPlain(j)
  PROVE  FinishedAreRead' /\ RestIsAhead'
<1>0. TypeOK
  BY DEF CompleteInv, IInv
<1>1. /\ UNCHANGED <<stream, packets, parsing>> /\ parsing
      /\ stream[j].from = pos /\ pos' = stream[j].to
      /\ obtained' = Append(obtained, [frame |-> j, packet |-> Len(packets)])
  BY DEF ReadPlain, At, Obtain, Parse
<1>2. \A k, i : Got(k, i) => Got(k, i)'
  BY <1>0, <1>1, GotStays
<1>3. Got(j, Len(packets))'
  BY <1>0, <1>1, OneMoreObtained DEF Got
<1>4. FinishedAreRead'
  <2> SUFFICES ASSUME NEW i \in DOMAIN packets, i < Len(packets), Border(packets[i].from)',
                      NEW k \in Readable(packets[i])'
               PROVE  Got(k, i)'
    BY <1>1 DEF FinishedAreRead
  <2> QED
    BY EarlierAreRead
<1>5. RestIsAhead'
  <2> SUFFICES ASSUME Border(Packet.from)', NEW k \in Readable(Packet)', ~Got(k, Len(packets))'
               PROVE  Border(pos)' /\ pos' <= stream[k].from
    BY <1>1 DEF RestIsAhead
  <2>1. Border(Packet.from) /\ k \in Readable(Packet)
    BY <1>1 DEF Border, Readable, Within, Overlaps, Packet
  <2>2. PICK i : i = Len(packets)
    BY Zenon
  <2>3. ~Got(k, i) /\ k # j
    BY <1>1, <1>2, <1>3, <2>2 DEF Got
  <2>4. pos <= stream[k].from /\ k \in DOMAIN stream
    BY <1>1, <2>1, <2>2, <2>3, ReadableIs DEF CompleteInv, RestIsAhead
  <2>5. j <= k
    BY <1>0, <1>1, <2>4, FromIsMonotone
  <2>6. j < k /\ k <= Len(stream) /\ j \in Nat /\ k \in Nat
    BY <1>0, <2>3, <2>4, <2>5, FrameExtent
  <2>7. stream[j].to <= stream[k].from
    BY <1>0, <2>4, <2>6, LaterFrames
  <2>8. j # Len(stream)
    <3>1. Len(stream) \in Nat
      BY <1>0, StreamShape
    <3> QED
      BY <2>6, <3>1
  <2>9. j + 1 \in DOMAIN stream /\ stream[j+1].from = stream[j].to
    BY <1>0, <2>8, StreamShape
  <2> QED
    BY <1>1, <2>7, <2>9 DEF Border
<1> QED
  BY <1>4, <1>5

(* A turn of the loop keeps the records of a packet in order. *)
LEMMA TurnKeepsOrder ==
  ASSUME CompleteInv, Parse PROVE ObtainedIsBehind' /\ InOrder'
<1>0. TypeOK /\ KeepsPlace
  BY DEF CompleteInv, IInv
<1>1. UNCHANGED <<stream, packets>> /\ parsing /\ pos \in Nat
  BY <1>0, TurnKeeps, ReaderPlace
<1>2. \A n \in DOMAIN obtained :
        obtained[n].packet = Len(packets) /\ Real(n) => stream[obtained[n].frame].to <= pos
  BY <1>1 DEF CompleteInv, ObtainedIsBehind
<1>3. ASSUME Eof \/ Panic PROVE ObtainedIsBehind' /\ InOrder'
  <2>1. obtained' = obtained /\ parsing' = FALSE
    BY <1>3 DEF Eof, Panic
  <2> QED
    BY <2>1 DEF ObtainedIsBehind, InOrder, CompleteInv, Real
<1>4. ASSUME NEW n \in 1 .. Left, ReadsOn(n) PROVE ObtainedIsBehind' /\ InOrder'
  <2>1. obtained' = obtained /\ pos' = pos + n
    BY <1>4 DEF ReadsOn, Fails
  <2>2. InOrder'
    BY <1>1, <2>1 DEF CompleteInv, InOrder, Real
  <2>3. ASSUME NEW m \in DOMAIN obtained, obtained[m].packet = Len(packets), Real(m)
        PROVE  stream[obtained[m].frame].to <= pos'
    <3>1. stream[obtained[m].frame].to \in Nat
      BY <1>0, <2>3, ObtainedAre, FrameExtent
    <3> QED
      BY <1>1, <1>2, <1>4, <2>1, <2>3, <3>1
  <2> QED
    BY <1>1, <2>1, <2>2, <2>3 DEF ObtainedIsBehind, Real
<1>5. ASSUME NEW k, NEW to, Obtain(k, to), to \in Nat, pos <= to,
             k = MadeUp \/ (k \in DOMAIN stream /\ stream[k].from = pos /\ stream[k].to = to)
      PROVE  ObtainedIsBehind' /\ InOrder'
  <2>1. PICK last : last = Len(obtained) + 1
    BY Zenon
  <2>2. PICK i : i = Len(packets)
    BY Zenon
  <2>3. pos' = to /\ obtained' = Append(obtained, [frame |-> k, packet |-> i])
    BY <1>5, <2>2 DEF Obtain
  <2>4. /\ DOMAIN obtained' = DOMAIN obtained \cup {last}
        /\ obtained'[last].frame = k /\ obtained'[last].packet = i
        /\ \A n \in DOMAIN obtained : n < last /\ obtained'[n] = obtained[n]
        /\ last \in Nat
    BY <1>0, <2>1, <2>3, OneMoreObtained, ObtainedAre
  <2>5. ASSUME NEW n \in DOMAIN obtained, obtained[n].packet = i, Real(n)
        PROVE  /\ obtained[n].frame \in DOMAIN stream
               /\ stream[obtained[n].frame].to \in Nat
               /\ stream[obtained[n].frame].to <= pos
    BY <1>0, <1>2, <2>2, <2>5, ObtainedAre, FrameExtent
  <2>6. ASSUME NEW n \in DOMAIN obtained', obtained'[n].packet = i, Real(n)'
        PROVE  stream[obtained'[n].frame].to <= to
    <3>1. CASE n \in DOMAIN obtained
      BY <1>1, <1>5, <2>4, <2>5, <2>6, <3>1 DEF Real
    <3>2. CASE n = last
      BY <1>5, <2>4, <2>6, <3>2 DEF Real
    <3> QED
      BY <2>4, <3>1, <3>2
  <2>7. ObtainedIsBehind'
    BY <1>1, <2>2, <2>3, <2>6 DEF ObtainedIsBehind
  <2>8. ASSUME NEW m \in DOMAIN obtained', NEW n \in DOMAIN obtained', m < n,
               obtained'[m].packet = obtained'[n].packet, Real(m)', Real(n)'
        PROVE  obtained'[m].frame < obtained'[n].frame
    <3>0. m \in DOMAIN obtained
      BY <1>0, <2>4, <2>8, ObtainedAre
    <3>1. CASE n \in DOMAIN obtained
      BY <2>4, <2>8, <3>0, <3>1 DEF CompleteInv, InOrder, Real
    <3>2. CASE n = last
      <4>1. obtained[m].packet = i /\ Real(m) /\ k \in DOMAIN stream /\ stream[k].from = pos
        BY <1>5, <2>4, <2>8, <3>0, <3>2 DEF Real
      <4>2. PICK f \in DOMAIN stream : f = obtained[m].frame
        BY <2>5, <3>0, <4>1
      <4>3. stream[f].to <= stream[k].from
        BY <2>5, <3>0, <4>1, <4>2
      <4>4. f < k
        BY <1>0, <4>1, <4>2, <4>3, LaterFrames, FrameExtent
      <4> QED
        BY <2>4, <3>0, <3>2, <4>2, <4>4
    <3> QED
      BY <2>4, <3>1, <3>2
  <2>9. InOrder'
    BY <2>8 DEF InOrder
  <2> QED
    BY <2>7, <2>9
<1>6. ASSUME NEW n \in 1 .. Left, MakesUp(n) PROVE ObtainedIsBehind' /\ InOrder'
  <2>1. pos + n \in Nat /\ pos <= pos + n /\ Obtain(MadeUp, pos + n)
    BY <1>1, <1>6 DEF MakesUp
  <2> QED
    BY <1>5, <2>1
<1>7. ASSUME NEW k \in DOMAIN stream, Understands(k) PROVE ObtainedIsBehind' /\ InOrder'
  <2>1. /\ Obtain(k, stream[k].to) /\ stream[k].from = pos /\ stream[k].to \in Nat
        /\ pos <= stream[k].to
    BY <1>0, <1>7, FrameExtent DEF Understands, At
  <2> QED
    BY <1>5, <2>1
<1> QED
  BY <1>0, <1>3, <1>4, <1>6, <1>7, TurnOfLoop

(* A packet is captured: nothing in it has been read. *)
LEMMA NewPacketBegins ==
  ASSUME CompleteInv, NEW from \in 0 .. Length, NEW to \in 0 .. Length, NewPacket(from, to)
  PROVE  FinishedAreRead' /\ RestIsAhead' /\ ObtainedIsBehind' /\ InOrder'
<1>0. TypeOK
  BY DEF CompleteInv, IInv
<1>1. /\ UNCHANGED <<stream, obtained>> /\ ~parsing /\ parsing' = TRUE /\ pos' = from
      /\ packets' = Append(packets, [from |-> from, to |-> to])
  BY DEF NewPacket
<1>2. /\ Len(packets) \in Nat /\ DOMAIN packets = 1 .. Len(packets)
      /\ Len(packets') = Len(packets) + 1 /\ DOMAIN packets' = 1 .. Len(packets) + 1
      /\ \A i \in DOMAIN packets : packets'[i] = packets[i]
      /\ packets'[Len(packets) + 1] = [from |-> from, to |-> to]
  BY <1>0, <1>1 DEF TypeOK
<1>3. InOrder'
  BY <1>1 DEF CompleteInv, InOrder, Real
<1>4. ObtainedIsBehind'
  BY <1>0, <1>1, <1>2, ObtainedAre DEF ObtainedIsBehind
<1>5. FinishedAreRead'
  <2> SUFFICES ASSUME NEW i \in DOMAIN packets', i < Len(packets'), Border(packets[i].from)',
                      NEW k \in Readable(packets[i])'
               PROVE  Got(k, i)'
    BY <1>1 DEF FinishedAreRead
  <2>1. i \in DOMAIN packets /\ packets'[i] = packets[i]
    BY <1>2
  <2>2. Border(packets[i].from) /\ k \in Readable(packets[i])
    BY <1>1, <2>1 DEF Border, Readable, Within, Overlaps
  <2>3. Got(k, i)
    BY <1>1, <2>1, <2>2 DEF CompleteInv, FinishedAreRead
  <2> QED
    BY <1>1, <2>3 DEF Got
<1>6. RestIsAhead'
  <2> SUFFICES ASSUME Border(Packet.from)', NEW k \in Readable(Packet)'
               PROVE  Border(pos)' /\ pos' <= stream'[k].from
    BY DEF RestIsAhead
  <2>1. Packet' = [from |-> from, to |-> to]
    BY <1>2 DEF Packet
  <2>2. from <= stream'[k].from
    BY <2>1 DEF Readable, Within
  <2> QED
    BY <1>1, <2>1, <2>2 DEF Border
<1> QED
  BY <1>3, <1>4, <1>5, <1>6

(* Every step keeps the invariant. *)
LEMMA StepComplete == CompleteInv /\ IInv' /\ [Next]_vars => CompleteInv'
<1> SUFFICES ASSUME CompleteInv, IInv', [Next]_vars PROVE CompleteInv'
  OBVIOUS
<1>1. CASE Parse
  <2>1. FinishedAreRead' /\ RestIsAhead'
    BY <1>1, PlainTurnReads, OtherTurnReads
  <2> QED
    BY <1>1, <2>1, TurnKeepsOrder DEF CompleteInv
<1>2. ASSUME NEW from \in Cuts \cap 0 .. Length, NEW to \in Cuts \cap 0 .. Length,
             NewPacket(from, to)
      PROVE  CompleteInv'
  BY <1>2, NewPacketBegins DEF CompleteInv
<1>3. CASE UNCHANGED vars
  <2>1. UNCHANGED <<stream, packets, pos, parsing, obtained>>
    BY <1>3 DEF vars
  <2>2. FinishedAreRead'
    BY <2>1 DEF CompleteInv, FinishedAreRead, Border, Readable, Within, Overlaps, Got
  <2>3. RestIsAhead'
    BY <2>1 DEF CompleteInv, RestIsAhead, Border, Readable, Within, Overlaps, Got, Packet
  <2>4. ObtainedIsBehind' /\ InOrder'
    BY <2>1 DEF CompleteInv, ObtainedIsBehind, InOrder, Real
  <2> QED
    BY <2>2, <2>3, <2>4 DEF CompleteInv
<1> QED
  BY <1>1, <1>2, <1>3 DEF Next

(* Every state satisfies the invariant. *)
LEMMA CompleteHolds == Spec => []CompleteInv
<1>1. Init => FinishedAreRead /\ RestIsAhead /\ ObtainedIsBehind /\ InOrder
  BY DEF Init, FinishedAreRead, RestIsAhead, ObtainedIsBehind, InOrder
<1>2. Init /\ IInv => CompleteInv
  BY <1>1 DEF CompleteInv
<1> QED
  BY <1>2, StepComplete, InvariantHolds, PTL DEF Spec

(* The invariant says that aligned packets are read. *)
LEMMA CompleteIsAligned == CompleteInv => AlignedPacketIsRead
<1> SUFFICES ASSUME CompleteInv PROVE AlignedPacketIsRead
  OBVIOUS
<1>0. TypeOK
  BY DEF CompleteInv, IInv
<1>1. ASSUME NEW i \in DOMAIN packets, i < Len(packets) \/ ~parsing, Border(packets[i].from),
             NEW k \in Readable(packets[i])
      PROVE  \E n \in DOMAIN obtained :
               \A m \in DOMAIN obtained :
                 obtained[m] = [frame |-> k, packet |-> i] <=> m = n
  <2>1. PICK n \in DOMAIN obtained : obtained[n] = [frame |-> k, packet |-> i]
    BY <1>1 DEF CompleteInv, FinishedAreRead, Got
  <2>2. k \in Nat \ {0}
    BY <1>0, <1>1, ReadableIs, FrameExtent
  <2>3. ASSUME NEW m \in DOMAIN obtained, obtained[m] = [frame |-> k, packet |-> i], m # n
        PROVE  FALSE
    <3>1. m < n \/ n < m
      BY <1>0, <2>3, ObtainedAre
    <3>2. Real(m) /\ Real(n) /\ obtained[m].packet = obtained[n].packet
          /\ obtained[m].frame = k /\ obtained[n].frame = k
      BY <2>1, <2>2, <2>3 DEF Real, MadeUp
    <3> QED
      BY <2>2, <3>1, <3>2 DEF CompleteInv, InOrder
  <2> QED
    BY <2>1, <2>3
<1>2. \A m, n \in DOMAIN obtained :
       /\ m < n /\ obtained[m].packet = obtained[n].packet
       /\ MadeUp \notin {obtained[m].frame, obtained[n].frame}
       => obtained[m].frame < obtained[n].frame
  BY DEF CompleteInv, InOrder, Real
<1> QED
  BY <1>1, <1>2 DEF AlignedPacketIsRead

(***************************************************************************)
(* Every packet that begins with a frame is read: each whole frame in it,  *)
(* up to the first one ReadFrame cannot read, is given to demux exactly    *)
(* once, and in order, for any streams, cut and captured in any way.       *)
(***************************************************************************)
THEOREM AlignedPacketsAreRead == Spec => []AlignedPacketIsRead
BY CompleteIsAligned, CompleteHolds, PTL

(* A turn of the loop that does not end it consumes octets. *)
LEMMA TurnAdvances ==
  ASSUME IInv, Parse
  PROVE  parsing' => pos < pos'
<1>0. TypeOK /\ KeepsPlace /\ parsing
  BY DEF IInv, Parse
<1>1. pos \in Nat
  BY <1>0, ReaderPlace
<1>2. CASE Eof \/ Panic
  BY <1>2 DEF Eof, Panic
<1>3. ASSUME NEW n \in 1 .. Left, ReadsOn(n) \/ MakesUp(n) PROVE pos < pos'
  <2>1. pos' = pos + n
    BY <1>3 DEF ReadsOn, MakesUp, Fails, Obtain
  <2> QED
    BY <1>1, <1>3, <2>1
<1>4. ASSUME NEW k \in DOMAIN stream, Understands(k) PROVE pos < pos'
  <2>1. pos = stream[k].from /\ pos' = stream[k].to
    BY <1>4 DEF Understands, Obtain, At
  <2> QED
    BY <1>0, <2>1, FrameExtent
<1> QED
  BY <1>0, <1>2, <1>3, <1>4, TurnOfLoop

(***************************************************************************)
(* What ParseReturns rests on besides fairness: a turn of the loop of Parse*)
(* ends it or moves the reader on, and by TypeOK never beyond the packet.  *)
(***************************************************************************)
THEOREM EachTurnAdvances == Spec => [][Parse /\ parsing' => pos < pos']_vars
BY TurnAdvances, InvariantHolds, PTL DEF Spec
=============================================================================
