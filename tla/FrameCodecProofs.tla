-------------------------- MODULE FrameCodecProofs --------------------------
(***************************************************************************)
(* Proofs about FrameCodec, for any scripts of frames: all methods, any    *)
(* arguments and properties, tables and arrays of any length, nested       *)
(* however deep, whatever order range takes through a map.                 *)
(*                                                                         *)
(* The inductive invariant is IInv: the histories have their types, the    *)
(* frames accepted are, in order, those read and those on the wire         *)
(* (InOrder), and the three properties hold. All the work is in what makes *)
(* a frame stand in the wire as InOrder says: it is read as what is carried*)
(* of it, and what is left is what follows it, whatever that is (IsOnWire).*)
(* That is shown from the inside out: a chunk (ReadNumberIs,               *)
(* ReadShortstrIs, ...), a plain field (PlainRead), an array and a table   *)
(* when the fields inside are known to be (ArrayReads, TableReads), all    *)
(* fields by induction on the number of chunks (DeepReads), an argument    *)
(* (ArgumentIs), one argument after the other (ReadArgumentsIs), the       *)
(* payload of each kind of frame (PayloadIs), a frame (OnWire).            *)
(*                                                                         *)
(* Induction is Upwards and Downwards, over a set of numbers; that a       *)
(* function defined by what it is one level down exists at all is shown    *)
(* for each (those called ...Is at the beginning of a section).            *)
(***************************************************************************)
EXTENDS FrameCodec, SequenceTheorems, FiniteSetTheorems, WellFoundedInduction, TLAPS

-----------------------------------------------------------------------------
(* Induction, over a set of numbers.                                       *)

LEMMA Upwards ==
  ASSUME NEW S, 0 \in S, \A n \in Nat : n \in S => n + 1 \in S
  PROVE  \A n \in Nat : n \in S
<1> SUFFICES ASSUME NEW T, T = {n \in Nat : n \notin S}, T # {} PROVE FALSE
  OBVIOUS
<1>1. IsWellFoundedOn({p \in Nat \X Nat : p[1] < p[2]}, Nat)
  BY NatLessThanWellFounded DEF OpToRel
<1>2. PICK n \in T : \A m \in T : ~(<<m, n>> \in {p \in Nat \X Nat : p[1] < p[2]})
  BY <1>1, WFMin
<1>3. n \in Nat /\ n # 0 /\ n \notin S
  BY <1>2
<1>4. n - 1 \in Nat /\ n - 1 < n /\ (n - 1) + 1 = n
  BY <1>3
<1>5. n - 1 \in T
  BY <1>3, <1>4
<1>6. <<n - 1, n>> \in {p \in Nat \X Nat : p[1] < p[2]}
  BY <1>3, <1>4
<1> QED BY <1>2, <1>5, <1>6

\* Down from n + 1 to 1.
LEMMA Downwards ==
  ASSUME NEW n \in Nat, NEW S, n + 1 \in S, \A k \in 1 .. n : k + 1 \in S => k \in S
  PROVE  \A k \in 1 .. n + 1 : k \in S
<1>1. PICK T : T = {m \in Nat : m <= n => n + 1 - m \in S}
  OBVIOUS
<1>2. 0 \in T
  BY <1>1
<1>3. ASSUME NEW m \in Nat, m \in T PROVE m + 1 \in T
  <2>1. CASE m + 1 <= n
    <3>1. n - m \in 1 .. n /\ (n - m) + 1 = n + 1 - m /\ n + 1 - (m + 1) = n - m
      BY <2>1
    <3> QED BY <3>1, <2>1, <1>1, <1>3
  <2> QED BY <2>1, <1>1
<1>4. \A m \in Nat : m \in T
  BY <1>2, <1>3, Upwards
<1>5. ASSUME NEW k \in 1 .. n + 1 PROVE k \in S
  <2>1. n + 1 - k \in Nat /\ n + 1 - k <= n /\ n + 1 - (n + 1 - k) = k
    BY <1>5
  <2> QED BY <2>1, <1>4, <1>1
<1> QED BY <1>5

-----------------------------------------------------------------------------
(* Joined and Total: the functions they are defined by exist.              *)

LEMMA JoinedFromIs ==
  ASSUME NEW seqs, Len(seqs) \in Nat
  PROVE  JoinedFrom(seqs) =
           [k \in 1 .. Len(seqs) + 1 |->
              IF k > Len(seqs) THEN <<>> ELSE seqs[k] \o JoinedFrom(seqs)[k + 1]]
<1>1. PICK n \in Nat : n = Len(seqs)
  OBVIOUS
<1>2. PICK S : S = {m \in Nat : m <= n => \E g : \A k \in n + 1 - m .. n + 1 :
                      g[k] = IF k > n THEN <<>> ELSE seqs[k] \o g[k + 1]}
  OBVIOUS
<1>3. 0 \in S
  <2>1. PICK g : g = [k \in {n + 1} |-> <<>>]
    OBVIOUS
  <2>2. ASSUME NEW k \in n + 1 - 0 .. n + 1
        PROVE  g[k] = IF k > n THEN <<>> ELSE seqs[k] \o g[k + 1]
    <3>1. k = n + 1 /\ k > n
      OBVIOUS
    <3> QED BY <2>1, <3>1
  <2> QED BY <1>2, <2>2
<1>4. ASSUME NEW m \in Nat, m \in S PROVE m + 1 \in S
  <2> SUFFICES ASSUME m + 1 <= n
               PROVE  \E g : \A k \in n + 1 - (m + 1) .. n + 1 :
                        g[k] = IF k > n THEN <<>> ELSE seqs[k] \o g[k + 1]
    BY <1>2
  <2>1. PICK g : \A k \in n + 1 - m .. n + 1 :
                   g[k] = IF k > n THEN <<>> ELSE seqs[k] \o g[k + 1]
    BY <1>2, <1>4
  <2>2. PICK h : h = [k \in 1 .. n + 1 |-> IF k = n - m THEN seqs[k] \o g[k + 1] ELSE g[k]]
    OBVIOUS
  <2>3. ASSUME NEW k \in n + 1 - (m + 1) .. n + 1
        PROVE  h[k] = IF k > n THEN <<>> ELSE seqs[k] \o h[k + 1]
    <3>1. CASE k = n - m
      BY <2>2, <3>1
    <3>2. CASE k # n - m
      <4>1. k \in n + 1 - m .. n + 1 /\ h[k] = g[k] /\ (k <= n => h[k + 1] = g[k + 1])
        BY <2>2, <3>2
      <4> QED BY <4>1, <2>1
    <3> QED BY <3>1, <3>2
  <2> QED BY <2>3
<1>5. PICK g : \A k \in 1 .. n + 1 : g[k] = IF k > n THEN <<>> ELSE seqs[k] \o g[k + 1]
  <2>1. n \in S
    BY <1>3, <1>4, Upwards
  <2> QED BY <1>2, <2>1
<1>6. PICK h : h = [k \in 1 .. n + 1 |-> g[k]]
  OBVIOUS
<1>7. h = [k \in 1 .. n + 1 |-> IF k > n THEN <<>> ELSE seqs[k] \o h[k + 1]]
  BY <1>5, <1>6
<1> QED BY <1>1, <1>7 DEF JoinedFrom

LEMMA TotalFromIs ==
  ASSUME NEW numbers, Len(numbers) \in Nat
  PROVE  TotalFrom(numbers) =
           [k \in 1 .. Len(numbers) + 1 |->
              IF k > Len(numbers) THEN 0 ELSE numbers[k] + TotalFrom(numbers)[k + 1]]
<1>1. PICK n \in Nat : n = Len(numbers)
  OBVIOUS
<1>2. PICK S : S = {m \in Nat : m <= n => \E g : \A k \in n + 1 - m .. n + 1 :
                      g[k] = IF k > n THEN 0 ELSE numbers[k] + g[k + 1]}
  OBVIOUS
<1>3. 0 \in S
  <2>1. PICK g : g = [k \in {n + 1} |-> 0]
    OBVIOUS
  <2>2. ASSUME NEW k \in n + 1 - 0 .. n + 1
        PROVE  g[k] = IF k > n THEN 0 ELSE numbers[k] + g[k + 1]
    <3>1. k = n + 1 /\ k > n
      OBVIOUS
    <3> QED BY <2>1, <3>1
  <2> QED BY <1>2, <2>2
<1>4. ASSUME NEW m \in Nat, m \in S PROVE m + 1 \in S
  <2> SUFFICES ASSUME m + 1 <= n
               PROVE  \E g : \A k \in n + 1 - (m + 1) .. n + 1 :
                        g[k] = IF k > n THEN 0 ELSE numbers[k] + g[k + 1]
    BY <1>2
  <2>1. PICK g : \A k \in n + 1 - m .. n + 1 :
                   g[k] = IF k > n THEN 0 ELSE numbers[k] + g[k + 1]
    BY <1>2, <1>4
  <2>2. PICK h : h = [k \in 1 .. n + 1 |-> IF k = n - m THEN numbers[k] + g[k + 1] ELSE g[k]]
    OBVIOUS
  <2>3. ASSUME NEW k \in n + 1 - (m + 1) .. n + 1
        PROVE  h[k] = IF k > n THEN 0 ELSE numbers[k] + h[k + 1]
    <3>1. CASE k = n - m
      BY <2>2, <3>1
    <3>2. CASE k # n - m
      <4>1. k \in n + 1 - m .. n + 1 /\ h[k] = g[k] /\ (k <= n => h[k + 1] = g[k + 1])
        BY <2>2, <3>2
      <4> QED BY <4>1, <2>1
    <3> QED BY <3>1, <3>2
  <2> QED BY <2>3
<1>5. PICK g : \A k \in 1 .. n + 1 : g[k] = IF k > n THEN 0 ELSE numbers[k] + g[k + 1]
  <2>1. n \in S
    BY <1>3, <1>4, Upwards
  <2> QED BY <1>2, <2>1
<1>6. PICK h : h = [k \in 1 .. n + 1 |-> g[k]]
  OBVIOUS
<1>7. h = [k \in 1 .. n + 1 |-> IF k > n THEN 0 ELSE numbers[k] + h[k + 1]]
  BY <1>5, <1>6
<1> QED BY <1>1, <1>7 DEF TotalFrom

-----------------------------------------------------------------------------
(* Sequences of chunks, joined.                                            *)

LEMMA SeqIs ==
  ASSUME NEW S, NEW s \in Seq(S)
  PROVE  Len(s) \in Nat /\ DOMAIN s = 1 .. Len(s) /\ \A i \in 1 .. Len(s) : s[i] \in S
BY LenProperties

LEMMA ChunksConcat ==
  /\ <<>> \in Chunks
  /\ \A a, b \in Chunks : a \o b \in Chunks /\ Len(a \o b) = Len(a) + Len(b)
  /\ \A a \in Chunks : a \o <<>> = a /\ <<>> \o a = a /\ Len(a) \in Nat
  /\ \A a, b, c \in Chunks : (a \o b) \o c = a \o (b \o c)
<1>1. <<>> \in Chunks
  BY EmptySeq DEF Chunks
<1>2. \A a, b \in Chunks : a \o b \in Chunks /\ Len(a \o b) = Len(a) + Len(b)
  BY ConcatProperties DEF Chunks
<1>3. \A a \in Chunks : a \o <<>> = a /\ <<>> \o a = a /\ Len(a) \in Nat
  BY ConcatEmptySeq, LenProperties, Zenon DEF Chunks
<1>4. ASSUME NEW a \in Chunks, NEW b \in Chunks, NEW c \in Chunks
      PROVE  (a \o b) \o c = a \o (b \o c)
  <2>1. a \in Seq(Chunk) /\ b \in Seq(Chunk) /\ c \in Seq(Chunk)
    BY DEF Chunks
  <2> QED BY <2>1, ConcatAssociative
<1> QED BY <1>1, <1>2, <1>3, <1>4, Zenon

LEMMA JoinedFromOf ==
  ASSUME NEW ss \in Seq(Chunks)
  PROVE  /\ \A k \in 1 .. Len(ss) + 1 : JoinedFrom(ss)[k] \in Chunks
         /\ JoinedFrom(ss)[Len(ss) + 1] = <<>>
         /\ \A k \in 1 .. Len(ss) : JoinedFrom(ss)[k] = ss[k] \o JoinedFrom(ss)[k + 1]
<1>1. PICK n \in Nat : n = Len(ss)
  BY SeqIs
<1>2. PICK from : from = JoinedFrom(ss)
  OBVIOUS
<1>3. from = [k \in 1 .. n + 1 |-> IF k > n THEN <<>> ELSE ss[k] \o from[k + 1]]
  BY <1>1, <1>2, JoinedFromIs
<1>4. from[n + 1] = <<>>
  BY <1>3
<1>5. ASSUME NEW k \in 1 .. n PROVE from[k] = ss[k] \o from[k + 1]
  <2>1. k \in 1 .. n + 1 /\ ~(k > n)
    OBVIOUS
  <2> QED BY <1>3, <2>1, Zenon
<1>6. PICK S : S = {k \in 1 .. n + 1 : from[k] \in Chunks}
  OBVIOUS
<1>7. n + 1 \in S
  BY <1>4, <1>6, ChunksConcat
<1>8. ASSUME NEW k \in 1 .. n, k + 1 \in S PROVE k \in S
  <2>1. ss[k] \in Chunks /\ from[k + 1] \in Chunks
    BY <1>1, <1>6, <1>8, SeqIs
  <2>2. ss[k] \o from[k + 1] \in Chunks
    BY <2>1, ChunksConcat, Zenon
  <2>3. k \in 1 .. n + 1
    OBVIOUS
  <2> QED BY <1>5, <1>6, <2>2, <2>3, Zenon
<1>9. \A k \in 1 .. n + 1 : k \in S
  BY <1>7, <1>8, Downwards
<1> QED BY <1>1, <1>2, <1>4, <1>5, <1>6, <1>9

(* The same, in a form without arithmetic. *)
LEMMA JoinedNext ==
  ASSUME NEW ss \in Seq(Chunks), NEW k \in 1 .. Len(ss), NEW j, j = k + 1
  PROVE  /\ ss[k] \in Chunks /\ JoinedFrom(ss)[j] \in Chunks
         /\ JoinedFrom(ss)[k] = ss[k] \o JoinedFrom(ss)[j]
<1>1. Len(ss) \in Nat /\ ss[k] \in Chunks
  BY SeqIs
<1>2. j \in 1 .. Len(ss) + 1
  BY <1>1
<1> QED BY <1>1, <1>2, JoinedFromOf, Zenon

LEMMA JoinedIs ==
  ASSUME NEW ss \in Seq(Chunks)
  PROVE  Joined(ss) \in Chunks /\ (ss = <<>> => Joined(ss) = <<>>)
<1>1. Len(ss) \in Nat /\ 1 \in 1 .. Len(ss) + 1
  BY SeqIs
<1>2. ss = <<>> => Len(ss) + 1 = 1
  BY EmptySeq
<1> QED BY <1>1, <1>2, JoinedFromOf DEF Joined

LEMMA JoinedTail ==
  ASSUME NEW ss \in Seq(Chunks), ss # <<>>
  PROVE  /\ Head(ss) \in Chunks /\ Tail(ss) \in Seq(Chunks)
         /\ Joined(ss) = Head(ss) \o Joined(Tail(ss))
<1>1. PICK n \in Nat : n = Len(ss) /\ n # 0
  BY SeqIs, EmptySeq
<1>2. PICK t : t = Tail(ss)
  OBVIOUS
<1>3. t \in Seq(Chunks) /\ Len(t) = n - 1 /\ \A i \in 1 .. n - 1 : t[i] = ss[i + 1]
  <2>1. /\ Tail(ss) \in Seq(Chunks) /\ Len(Tail(ss)) = Len(ss) - 1
        /\ \A i \in 1 .. Len(Tail(ss)) : Tail(ss)[i] = ss[i + 1]
    BY HeadTailProperties
  <2> QED BY <1>1, <1>2, <2>1, Zenon
<1>4. PICK S : S = {k \in 1 .. n : JoinedFrom(t)[k] = JoinedFrom(ss)[k + 1]}
  OBVIOUS
<1>5. (n - 1) + 1 \in S
  <2>1. n \in 1 .. n /\ (n - 1) + 1 = n /\ n = Len(t) + 1 /\ n + 1 = Len(ss) + 1
    BY <1>1, <1>3
  <2>2. JoinedFrom(t)[n] = JoinedFrom(ss)[n + 1]
    BY <1>3, <2>1, JoinedFromOf, Zenon
  <2> QED BY <1>4, <2>1, <2>2, Zenon
<1>6. ASSUME NEW k \in 1 .. n - 1, k + 1 \in S PROVE k \in S
  <2>1. /\ k \in 1 .. Len(t) /\ k + 1 \in 1 .. Len(ss) /\ t[k] = ss[k + 1]
        /\ k \in 1 .. n /\ k + 1 \in 1 .. n
    BY <1>1, <1>3
  <2>2. JoinedFrom(t)[k] = t[k] \o JoinedFrom(t)[k + 1]
    BY <1>3, <2>1, JoinedNext, Zenon
  <2>3. JoinedFrom(ss)[k + 1] = ss[k + 1] \o JoinedFrom(ss)[(k + 1) + 1]
    BY <2>1, JoinedNext, Zenon
  <2>4. JoinedFrom(t)[k + 1] = JoinedFrom(ss)[(k + 1) + 1]
    BY <1>4, <1>6
  <2> QED BY <1>4, <2>1, <2>2, <2>3, <2>4, Zenon
<1>7. \A k \in 1 .. (n - 1) + 1 : k \in S
  BY <1>1, <1>5, <1>6, n - 1 \in Nat, Downwards
<1>8. JoinedFrom(t)[1] = JoinedFrom(ss)[2]
  BY <1>1, <1>4, <1>7
<1>9. 1 \in 1 .. Len(ss) /\ 2 = 1 + 1 /\ ss[1] = Head(ss)
  BY <1>1
<1>10. JoinedFrom(ss)[1] = ss[1] \o JoinedFrom(ss)[2]
  BY <1>9, JoinedNext, Zenon
<1> QED BY <1>2, <1>3, <1>8, <1>9, <1>10, HeadTailProperties, Zenon DEF Joined

LEMMA JoinedAppend ==
  ASSUME NEW ss \in Seq(Chunks), NEW x \in Chunks
  PROVE  Append(ss, x) \in Seq(Chunks) /\ Joined(Append(ss, x)) = Joined(ss) \o x
<1>1. PICK n \in Nat : n = Len(ss)
  BY SeqIs
<1>2. PICK t : t = Append(ss, x)
  OBVIOUS
<1>3. t \in Seq(Chunks) /\ Len(t) = n + 1 /\ t[n + 1] = x /\ \A i \in 1 .. n : t[i] = ss[i]
  <2>1. /\ Append(ss, x) \in Seq(Chunks) /\ Len(Append(ss, x)) = Len(ss) + 1
        /\ \A i \in 1 .. Len(ss) : Append(ss, x)[i] = ss[i]
        /\ Append(ss, x)[Len(ss) + 1] = x
    BY AppendProperties
  <2> QED BY <1>1, <1>2, <2>1, Zenon
<1>4. PICK S : S = {k \in 1 .. n + 1 : JoinedFrom(t)[k] = JoinedFrom(ss)[k] \o x}
  OBVIOUS
<1>5. n + 1 \in S
  <2>1. n + 1 \in 1 .. Len(t) /\ n + 2 = (n + 1) + 1 /\ n + 2 = Len(t) + 1 /\ n + 1 \in 1 .. n + 1
    BY <1>3
  <2>2. JoinedFrom(t)[n + 1] = t[n + 1] \o JoinedFrom(t)[n + 2]
    BY <1>3, <2>1, JoinedNext, Zenon
  <2>3. JoinedFrom(t)[n + 2] = <<>>
    BY <1>3, <2>1, JoinedFromOf, Zenon
  <2>4. JoinedFrom(t)[n + 1] = x \o <<>>
    BY <1>3, <2>2, <2>3, Zenon
  <2>5. JoinedFrom(ss)[n + 1] = <<>>
    BY <1>1, JoinedFromOf, Zenon
  <2>6. x \o <<>> = x /\ <<>> \o x = x
    BY ChunksConcat, Zenon
  <2> QED BY <1>4, <2>1, <2>4, <2>5, <2>6, Zenon
<1>6. ASSUME NEW k \in 1 .. n, k + 1 \in S PROVE k \in S
  <2>1. /\ k \in 1 .. Len(t) /\ k \in 1 .. Len(ss) /\ t[k] = ss[k]
        /\ k \in 1 .. n + 1
    BY <1>1, <1>3
  <2>2. JoinedFrom(t)[k] = t[k] \o JoinedFrom(t)[k + 1]
    BY <1>3, <2>1, JoinedNext, Zenon
  <2>3. /\ JoinedFrom(ss)[k] = ss[k] \o JoinedFrom(ss)[k + 1]
        /\ ss[k] \in Chunks /\ JoinedFrom(ss)[k + 1] \in Chunks
    BY <2>1, JoinedNext, Zenon
  <2>4. (ss[k] \o JoinedFrom(ss)[k + 1]) \o x = ss[k] \o (JoinedFrom(ss)[k + 1] \o x)
    BY <2>3, ChunksConcat, Zenon
  <2>5. JoinedFrom(t)[k + 1] = JoinedFrom(ss)[k + 1] \o x
    BY <1>4, <1>6
  <2> QED BY <1>4, <2>1, <2>2, <2>3, <2>4, <2>5, Zenon
<1>7. \A k \in 1 .. n + 1 : k \in S
  BY <1>5, <1>6, Downwards
<1> QED BY <1>2, <1>3, <1>4, <1>7 DEF Joined
-----------------------------------------------------------------------------
(* Their sizes.                                                            *)

LEMMA LenIs ==
  ASSUME NEW n \in Nat, NEW f, f = [i \in 1 .. n |-> f[i]]
  PROVE  Len(f) = n /\ DOMAIN f = 1 .. n
OBVIOUS

LEMMA SeqOn ==
  ASSUME NEW n \in Nat, NEW S, NEW f, f = [i \in 1 .. n |-> f[i]],
         \A i \in 1 .. n : f[i] \in S
  PROVE  f \in Seq(S) /\ Len(f) = n
OBVIOUS

\* What from[k] is in TotalFrom.
LEMMA TotalNext ==
  ASSUME NEW n \in Nat, NEW ws, ws = [i \in 1 .. n |-> ws[i]]
  PROVE  /\ TotalFrom(ws)[n + 1] = 0
         /\ \A k \in 1 .. n : TotalFrom(ws)[k] = ws[k] + TotalFrom(ws)[k + 1]
<1>1. Len(ws) = n
  BY LenIs
<1>2. PICK from : from = TotalFrom(ws)
  OBVIOUS
<1>3. from = [k \in 1 .. n + 1 |-> IF k > n THEN 0 ELSE ws[k] + from[k + 1]]
  BY <1>1, <1>2, TotalFromIs
<1>4. from[n + 1] = 0
  BY <1>3
<1>5. ASSUME NEW k \in 1 .. n PROVE from[k] = ws[k] + from[k + 1]
  <2>1. k \in 1 .. n + 1 /\ ~(k > n)
    OBVIOUS
  <2> QED BY <1>3, <2>1, Zenon
<1> QED BY <1>2, <1>4, <1>5

LEMMA WidthsOf ==
  ASSUME NEW a \in Chunks, NEW ws, ws = [i \in DOMAIN a |-> a[i].width]
  PROVE  /\ Len(a) \in Nat /\ ws = [i \in 1 .. Len(a) |-> ws[i]]
         /\ \A i \in 1 .. Len(a) : ws[i] = a[i].width /\ ws[i] \in Nat \ {0}
<1>1. PICK n \in Nat : n = Len(a) /\ DOMAIN a = 1 .. n /\ \A i \in 1 .. n : a[i] \in Chunk
  BY SeqIs DEF Chunks
<1>2. \A i \in 1 .. n : ws[i] = a[i].width /\ a[i].width \in Nat \ {0}
  BY <1>1 DEF Chunk
<1>3. ws = [i \in 1 .. n |-> ws[i]]
  BY <1>1
<1> QED BY <1>1, <1>2, <1>3

LEMMA SizeIs ==
  ASSUME NEW a \in Chunks
  PROVE  Size(a) \in Nat /\ (a # <<>> => Size(a) > 0) /\ (a = <<>> => Size(a) = 0)
<1>1. PICK ws : ws = [i \in DOMAIN a |-> a[i].width]
  OBVIOUS
<1>2. PICK n \in Nat : n = Len(a)
  BY WidthsOf
<1>3. ws = [i \in 1 .. n |-> ws[i]] /\ \A i \in 1 .. n : ws[i] \in Nat \ {0}
  BY <1>1, <1>2, WidthsOf
<1>4. PICK from : from = TotalFrom(ws)
  OBVIOUS
<1>5. from[n + 1] = 0 /\ \A k \in 1 .. n : from[k] = ws[k] + from[k + 1]
  BY <1>3, <1>4, TotalNext
<1>6. PICK S : S = {k \in Nat : from[k] \in Nat /\ (k <= n => from[k] > 0)}
  OBVIOUS
<1>7. n + 1 \in S
  BY <1>5, <1>6
<1>8. ASSUME NEW k \in 1 .. n, k + 1 \in S PROVE k \in S
  BY <1>3, <1>5, <1>6, <1>8
<1>9. \A k \in 1 .. n + 1 : k \in S
  BY <1>7, <1>8, Downwards
<1>10. Size(a) = from[1]
  BY <1>1, <1>4 DEF Size, Total
<1>11. (a # <<>> => n > 0) /\ (a = <<>> => n = 0)
  BY <1>2, EmptySeq DEF Chunks
<1>12. 1 \in S
  BY <1>9
<1> QED BY <1>5, <1>6, <1>10, <1>11, <1>12

LEMMA SizeConcat ==
  ASSUME NEW a \in Chunks, NEW b \in Chunks
  PROVE  Size(a \o b) = Size(a) + Size(b)
<1>1. PICK ab \in Chunks : ab = a \o b
  BY ChunksConcat
<1>2. PICK u : u = [i \in DOMAIN a |-> a[i].width]
  OBVIOUS
<1>3. PICK v : v = [i \in DOMAIN b |-> b[i].width]
  OBVIOUS
<1>4. PICK uv : uv = [i \in DOMAIN ab |-> ab[i].width]
  OBVIOUS
<1>5. PICK n \in Nat : n = Len(a)
  BY WidthsOf
<1>6. PICK m \in Nat : m = Len(b)
  BY WidthsOf
<1>7. /\ Len(ab) = n + m /\ \A i \in 1 .. n : ab[i] = a[i]
      /\ \A i \in 1 .. m : ab[n + i] = b[i]
  <2>1. /\ Len(ab) = n + m
        /\ \A i \in 1 .. n + m : ab[i] = IF i <= n THEN a[i] ELSE b[i - n]
    BY <1>1, <1>5, <1>6, ConcatProperties DEF Chunks
  <2>2. \A i \in 1 .. m : n + i \in 1 .. n + m /\ ~(n + i <= n) /\ (n + i) - n = i
    OBVIOUS
  <2>3. \A i \in 1 .. m : ab[n + i] = b[i]
    BY <2>1, <2>2
  <2> QED BY <2>1, <2>3
<1>8. /\ u = [i \in 1 .. n |-> u[i]]
      /\ \A i \in 1 .. n : u[i] = a[i].width /\ u[i] \in Nat
  BY <1>2, <1>5, WidthsOf
<1>9. /\ v = [i \in 1 .. m |-> v[i]]
      /\ \A i \in 1 .. m : v[i] = b[i].width /\ v[i] \in Nat
  BY <1>3, <1>6, WidthsOf
<1>10. /\ uv = [i \in 1 .. n + m |-> uv[i]]
       /\ \A i \in 1 .. n + m : uv[i] = ab[i].width
  BY <1>4, <1>7, WidthsOf
<1>11. PICK fu : fu = TotalFrom(u)
  OBVIOUS
<1>12. PICK fv : fv = TotalFrom(v)
  OBVIOUS
<1>13. PICK fuv : fuv = TotalFrom(uv)
  OBVIOUS
<1>14. fu[n + 1] = 0 /\ \A k \in 1 .. n : fu[k] = u[k] + fu[k + 1]
  BY <1>8, <1>11, TotalNext
<1>15. fv[m + 1] = 0 /\ \A k \in 1 .. m : fv[k] = v[k] + fv[k + 1]
  BY <1>9, <1>12, TotalNext
<1>16. fuv[n + m + 1] = 0 /\ \A k \in 1 .. n + m : fuv[k] = uv[k] + fuv[k + 1]
  BY <1>10, <1>13, TotalNext
<1>17. PICK S : S = {k \in Nat : fuv[n + k] = fv[k] /\ fv[k] \in Nat}
  OBVIOUS
<1>18. \A k \in 1 .. m + 1 : k \in S
  <2>1. m + 1 \in S
    BY <1>15, <1>16, <1>17
  <2>2. ASSUME NEW k \in 1 .. m, k + 1 \in S PROVE k \in S
    <3>1. n + k \in 1 .. n + m /\ n + (k + 1) = (n + k) + 1
      OBVIOUS
    <3>2. fuv[n + k] = uv[n + k] + fuv[(n + k) + 1]
      BY <1>16, <3>1
    <3>3. uv[n + k] = v[k] /\ v[k] \in Nat
      BY <1>7, <1>9, <1>10, <3>1
    <3>4. fv[k] = v[k] + fv[k + 1]
      BY <1>15
    <3> QED BY <1>17, <2>2, <3>1, <3>2, <3>3, <3>4
  <2> QED BY <2>1, <2>2, Downwards
<1>19. PICK T : T = {k \in Nat : fuv[k] = fu[k] + fv[1] /\ fu[k] \in Nat}
  OBVIOUS
<1>20. \A k \in 1 .. n + 1 : k \in T
  <2>1. n + 1 \in T
    <3>1. fuv[n + 1] = fv[1] /\ fv[1] \in Nat
      BY <1>17, <1>18
    <3> QED BY <1>14, <1>19, <3>1
  <2>2. ASSUME NEW k \in 1 .. n, k + 1 \in T PROVE k \in T
    <3>1. k \in 1 .. n + m /\ fv[1] \in Nat
      BY <1>17, <1>18
    <3>2. uv[k] = u[k] /\ u[k] \in Nat
      BY <1>7, <1>8, <1>10, <3>1
    <3>3. fuv[k] = uv[k] + fuv[k + 1] /\ fu[k] = u[k] + fu[k + 1]
      BY <1>14, <1>16, <3>1
    <3> QED BY <1>19, <2>2, <3>1, <3>2, <3>3
  <2> QED BY <2>1, <2>2, Downwards
<1>21. fuv[1] = fu[1] + fv[1]
  BY <1>19, <1>20
<1>22. Size(a) = fu[1] /\ Size(b) = fv[1] /\ Size(ab) = fuv[1]
  BY <1>2, <1>3, <1>4, <1>11, <1>12, <1>13 DEF Size, Total
<1> QED BY <1>1, <1>21, <1>22, Zenon

LEMMA PairIs ==
  ASSUME NEW A, NEW B, NEW p \in A \X B
  PROVE  p = <<p[1], p[2]>> /\ p[1] \in A /\ p[2] \in B
OBVIOUS

(* Of a sequence that begins with a chunk. *)
LEMMA FirstOf ==
  ASSUME NEW c \in Chunk, NEW s \in Chunks
  PROVE  /\ <<c>> \in Chunks /\ <<c>> # <<>> /\ Len(<<c>>) = 1 /\ Size(<<c>>) > 0
         /\ <<c>> \o s # <<>> /\ Head(<<c>> \o s) = c /\ Tail(<<c>> \o s) = s
<1>1. <<c>> \in Chunks /\ <<c>> # <<>> /\ Len(<<c>>) = 1
  BY DEF Chunks
<1>2. <<c>> \o s # <<>> /\ Head(<<c>> \o s) = c /\ Tail(<<c>> \o s) = s
  BY DEF Chunks
<1> QED BY <1>1, <1>2, SizeIs

LEMMA NumberIs ==
  ASSUME NEW w \in Nat \ {0}, NEW n \in Int
  PROVE  \E c \in Chunk : Number(w, n) = <<c>> /\ c.width = w /\ c.of = "none" /\ c.n = n
<1>1. PICK c : c = [width |-> w, of |-> "none", n |-> n]
  OBVIOUS
<1>2. c \in Chunk /\ c.width = w /\ c.of = "none" /\ c.n = n
  BY <1>1 DEF Chunk
<1> QED BY <1>1, <1>2, Zenon DEF Number

LEMMA LetterIs ==
  ASSUME NEW l \in Tag
  PROVE  \E c \in Chunk : Letter(l) = <<c>> /\ c.of = l
<1>1. PICK c : c = [width |-> 1, of |-> l, n |-> 0]
  OBVIOUS
<1>2. PICK W : W = {"none"} \cup Tag \cup Content
  OBVIOUS
<1>3. l \in W /\ 1 \in Nat \ {0} /\ 0 \in Int
  BY <1>2
<1>4. c \in [width : Nat \ {0}, of : W, n : Int] /\ c.of = l
  BY <1>1, <1>3
<1>5. c \in Chunk
  BY <1>2, <1>4, Zenon DEF Chunk
<1> QED BY <1>1, <1>4, <1>5, Zenon DEF Letter

LEMMA OctetsIs ==
  ASSUME NEW str, str[1] \in Content, str[2] \in Nat, str[2] # 0
  PROVE  \E c \in Chunk : Octets(str) = <<c>> /\ c.width = str[2] /\ c.of = str[1]
<1>1. PICK c : c = [width |-> str[2], of |-> str[1], n |-> 0]
  OBVIOUS
<1>2. PICK W : W = {"none"} \cup Tag \cup Content
  OBVIOUS
<1>3. str[1] \in W /\ str[2] \in Nat \ {0} /\ 0 \in Int
  BY <1>2
<1>4. c \in [width : Nat \ {0}, of : W, n : Int] /\ c.width = str[2] /\ c.of = str[1]
  BY <1>1, <1>3
<1>5. c \in Chunk
  BY <1>2, <1>4, Zenon DEF Chunk
<1>6. Octets(str) = <<c>>
  BY <1>1, Zenon DEF Octets
<1> QED BY <1>4, <1>5, <1>6, Zenon

LEMMA PiecesIn ==
  /\ \A w \in Nat \ {0}, n \in Int : Number(w, n) \in Chunks
  /\ \A l \in Tag : Letter(l) \in Chunks
<1>1. \A c \in Chunk : <<c>> \in Chunks
  BY FirstOf, ChunksConcat, Zenon
<1>2. ASSUME NEW w \in Nat \ {0}, NEW n \in Int PROVE Number(w, n) \in Chunks
  BY <1>1, NumberIs, Zenon
<1>3. ASSUME NEW l \in Tag PROVE Letter(l) \in Chunks
  BY <1>1, LetterIs, Zenon
<1> QED BY <1>2, <1>3

LEMMA ReadNumberIs ==
  ASSUME NEW w \in Nat \ {0}, NEW n \in Int, NEW s \in Chunks
  PROVE  /\ Number(w, n) \in Chunks /\ Len(Number(w, n)) = 1
         /\ ReadNumber(w, Number(w, n) \o s) = Ok(n, s)
<1>1. PICK c \in Chunk : Number(w, n) = <<c>> /\ c.width = w /\ c.of = "none" /\ c.n = n
  BY NumberIs
<1>2. PICK in : in = <<c>> \o s
  OBVIOUS
<1>3. in # <<>> /\ Head(in) = c /\ Tail(in) = s
  BY <1>2, FirstOf
<1>4. ReadNumber(w, in) = Ok(n, s)
  BY <1>1, <1>3 DEF ReadNumber
<1> QED BY <1>1, <1>2, <1>4, FirstOf

(* The longest string that read.go keeps takes more octets than any field of a
   fixed size does. *)
LEMMA MaxLengthIs == MaxLength \in Nat /\ 256 < MaxLength
BY SMT DEF MaxLength

LEMMA ReadOctetsIs ==
  ASSUME NEW str \in String, NEW s \in Chunks
  PROVE  /\ Octets(str) \in Chunks
         /\ ReadOctets(str[2], Octets(str) \o s) = Ok(str, s)
<1>1. str \in ({"none"} \cup Content) \X (0 .. MaxLength)
  BY DEF String
<1>2. str = <<str[1], str[2]>> /\ str[2] \in Nat
  BY <1>1, PairIs
<1>3. CASE str[2] = 0
  <2>1. str = <<"none", 0>>
    BY <1>2, <1>3 DEF String
  <2>2. Octets(str) = <<>>
    BY <1>3 DEF Octets
  <2>3. <<>> \o s = s /\ <<>> \in Chunks
    BY ChunksConcat, Zenon
  <2> QED BY <1>3, <2>1, <2>2, <2>3 DEF ReadOctets
<1>4. CASE str[2] # 0
  <2>1. str[1] \in Content /\ str[1] # "none"
    BY <1>4 DEF String
  <2>2. PICK c \in Chunk : Octets(str) = <<c>> /\ c.width = str[2] /\ c.of = str[1]
    BY <1>2, <1>4, <2>1, OctetsIs
  <2>3. PICK in : in = <<c>> \o s
    OBVIOUS
  <2>4. in # <<>> /\ Head(in) = c /\ Tail(in) = s
    BY <2>3, FirstOf
  <2>5. ReadOctets(str[2], in) = Ok(<<str[1], str[2]>>, s)
    BY <1>4, <2>1, <2>2, <2>4 DEF ReadOctets
  <2> QED BY <1>2, <2>2, <2>3, <2>5, FirstOf
<1> QED BY <1>3, <1>4

LEMMA ReadChunksIs ==
  ASSUME NEW a \in Chunks, NEW s \in Chunks
  PROVE  ReadChunks(Size(a), a \o s) = Ok(a, s)
<1>1. PICK n \in Nat : n = Len(a)
  BY SeqIs DEF Chunks
<1>2. PICK m \in Nat : m = Len(s)
  BY SeqIs DEF Chunks
<1>3. PICK in \in Chunks : in = a \o s
  BY ChunksConcat
<1>4. /\ Len(in) = n + m
      /\ \A i \in 1 .. n + m : in[i] = IF i <= n THEN a[i] ELSE s[i - n]
  BY <1>1, <1>2, <1>3, ConcatProperties DEF Chunks
<1>5. SubSeq(in, 1, n) = a /\ SubSeq(in, n + 1, n + m) = s
  <2>1. SubSeq(in, 1, n) \in Chunks /\ Len(SubSeq(in, 1, n)) = n
        /\ \A i \in 1 .. n : SubSeq(in, 1, n)[i] = a[i]
    <3>1. \A i \in 1 .. n : in[i] \in Chunk
      BY <1>3, <1>4, SeqIs DEF Chunks
    <3> QED BY <1>4, <3>1, SubSeqProperties DEF Chunks
  <2>2. SubSeq(in, 1, n) = a
    BY <1>1, <2>1, SeqEqual DEF Chunks
  <2>3. SubSeq(in, n + 1, n + m) \in Chunks /\ Len(SubSeq(in, n + 1, n + m)) = m
        /\ \A i \in 1 .. m : SubSeq(in, n + 1, n + m)[i] = s[i]
    <3>1. \A i \in n + 1 .. n + m : in[i] \in Chunk
      BY <1>3, <1>4, SeqIs DEF Chunks
    <3>2. \A i \in 1 .. m : in[(n + 1) + i - 1] = s[i]
      <4>1. \A i \in 1 .. m : (n + 1) + i - 1 = n + i /\ n + i \in 1 .. n + m
                              /\ ~(n + i <= n) /\ (n + i) - n = i
        OBVIOUS
      <4> QED BY <1>4, <4>1
    <3> QED BY <3>1, <3>2, SubSeqProperties DEF Chunks
  <2>4. SubSeq(in, n + 1, n + m) = s
    BY <1>2, <2>3, SeqEqual DEF Chunks
  <2> QED BY <2>2, <2>4
<1>6. ASSUME NEW k \in 0 .. n + m, Size(SubSeq(in, 1, k)) = Size(a)
      PROVE  k = n
  <2>1. \A i \in 1 .. n + m : in[i] \in Chunk
    BY <1>3, <1>4, SeqIs DEF Chunks
  <2>2. \A i \in 0 .. n + m : SubSeq(in, 1, i) \in Chunks
    BY <2>1, SubSeqProperties DEF Chunks
  <2>3. \A i \in 0 .. n + m : \A j \in i .. n + m :
           /\ SubSeq(in, i + 1, j) \in Chunks
           /\ SubSeq(in, 1, i) \o SubSeq(in, i + 1, j) = SubSeq(in, 1, j)
           /\ i < j => SubSeq(in, i + 1, j) # <<>>
    <3> SUFFICES ASSUME NEW i \in 0 .. n + m, NEW j \in i .. n + m
                 PROVE  /\ SubSeq(in, i + 1, j) \in Chunks
                        /\ SubSeq(in, 1, i) \o SubSeq(in, i + 1, j) = SubSeq(in, 1, j)
                        /\ i < j => SubSeq(in, i + 1, j) # <<>>
      OBVIOUS
    <3>1. \A l \in i + 1 .. j : in[l] \in Chunk
      BY <2>1
    <3>2. /\ SubSeq(in, i + 1, j) \in Chunks
          /\ Len(SubSeq(in, i + 1, j)) = IF i + 1 <= j THEN j - (i + 1) + 1 ELSE 0
      BY <3>1, SubSeqProperties DEF Chunks
    <3>3. i < j => SubSeq(in, i + 1, j) # <<>>
      <4>1. ASSUME i < j PROVE Len(SubSeq(in, i + 1, j)) # 0
        BY <3>2, <4>1
      <4>2. Len(<<>>) = 0
        BY EmptySeq
      <4> QED BY <4>1, <4>2, Zenon
    <3>4. in \in Seq(Chunk) /\ 1 \in 1 .. Len(in) + 1 /\ i \in 1 - 1 .. Len(in) /\ j \in i .. Len(in)
      BY <1>4 DEF Chunks
    <3>5. SubSeq(in, 1, i) \o SubSeq(in, i + 1, j) = SubSeq(in, 1, j)
      BY <3>4, ConcatAdjacentSubSeq
    <3> QED BY <3>2, <3>3, <3>5
  <2>4. \A i \in 0 .. n + m : \A j \in i .. n + m : i < j =>
           Size(SubSeq(in, 1, i)) < Size(SubSeq(in, 1, j))
    <3> SUFFICES ASSUME NEW i \in 0 .. n + m, NEW j \in i .. n + m, i < j
                 PROVE  Size(SubSeq(in, 1, i)) < Size(SubSeq(in, 1, j))
      OBVIOUS
    <3>1. /\ SubSeq(in, i + 1, j) \in Chunks /\ SubSeq(in, i + 1, j) # <<>>
          /\ SubSeq(in, 1, i) \in Chunks
          /\ SubSeq(in, 1, i) \o SubSeq(in, i + 1, j) = SubSeq(in, 1, j)
      BY <2>2, <2>3
    <3>2. Size(SubSeq(in, 1, j)) = Size(SubSeq(in, 1, i)) + Size(SubSeq(in, i + 1, j))
      BY <3>1, SizeConcat
    <3>3. Size(SubSeq(in, 1, i)) \in Nat
      BY <3>1, SizeIs
    <3>4. Size(SubSeq(in, i + 1, j)) > 0 /\ Size(SubSeq(in, i + 1, j)) \in Nat
      BY <3>1, SizeIs, Zenon
    <3> QED BY <3>2, <3>3, <3>4
  <2>5. Size(SubSeq(in, 1, n)) = Size(a) /\ Size(a) \in Nat
    BY <1>5, SizeIs
  <2>6. n \in 0 .. n + m /\ (k < n => n \in k .. n + m) /\ (n < k => k \in n .. n + m)
    OBVIOUS
  <2> QED BY <1>6, <2>4, <2>5, <2>6
<1>7. PICK ends : ends = {k \in 0 .. Len(in) : Size(SubSeq(in, 1, k)) = Size(a)}
  OBVIOUS
<1>8. ends = {n}
  <2>1. n \in 0 .. Len(in) /\ Len(in) = n + m
    BY <1>4
  <2>2. n \in ends
    BY <1>5, <1>7, <2>1, Zenon
  <2>3. \A k \in ends : k = n
    BY <1>6, <1>7, <2>1, Zenon
  <2> QED BY <2>2, <2>3
<1>9. (CHOOSE k \in ends : TRUE) = n
  BY <1>8
<1>10. ReadChunks(Size(a), in) = Ok(SubSeq(in, 1, n), SubSeq(in, n + 1, Len(in)))
  BY <1>7, <1>8, <1>9 DEF ReadChunks
<1> QED BY <1>3, <1>4, <1>5, <1>10

(* Sequences of chunks that follow each other. *)
LEMMA Regroup ==
  ASSUME NEW a \in Chunks, NEW b \in Chunks, NEW s \in Chunks
  PROVE  /\ a \o b \in Chunks /\ b \o s \in Chunks /\ (a \o b) \o s = a \o (b \o s)
         /\ Len(a \o b) = Len(a) + Len(b) /\ Len(a) \in Nat /\ Len(b) \in Nat
BY ChunksConcat, Zenon

LEMMA CutIs ==
  ASSUME NEW str \in String
  PROVE  /\ str[2] \in Nat /\ str[2] <= MaxLength /\ str[2] % ShortLimit \in Nat
         /\ CarriedShort(str) \in String /\ CarriedShort(str)[2] = str[2] % ShortLimit
         /\ CarriedShort(str) = Cut(str, str[2] % ShortLimit)
<1>1. PICK W : W = {"none"} \cup Content
  OBVIOUS
<1>2. str \in W \X (0 .. MaxLength) /\ (str[1] = "none" <=> str[2] = 0) /\ "none" \in W
  BY <1>1 DEF String
<1>3. str[1] \in W /\ str[2] \in 0 .. MaxLength
  BY <1>2, PairIs
<1>4. /\ str[2] % ShortLimit \in 0 .. MaxLength
      /\ (str[2] % ShortLimit # 0 => str[2] # 0)
  BY <1>3, MaxLengthIs DEF ShortLimit
<1>5. PICK n \in 0 .. MaxLength : n = str[2] % ShortLimit
  BY <1>4
<1>6. Cut(str, n) \in String /\ Cut(str, n)[2] = n
  <2>1. CASE n = 0
    <3>1. PICK p : p = <<"none", 0>>
      OBVIOUS
    <3>2. p \in W \X (0 .. MaxLength) /\ p[1] = "none" /\ p[2] = 0
      BY <1>2, <3>1, MaxLengthIs
    <3>3. p \in String
      BY <1>1, <3>2 DEF String
    <3> QED BY <2>1, <3>1, <3>2, <3>3 DEF Cut
  <2>2. CASE n # 0
    <3>1. PICK p : p = <<str[1], n>>
      OBVIOUS
    <3>2. p \in W \X (0 .. MaxLength) /\ p[1] # "none" /\ p[2] = n
      BY <1>2, <1>3, <1>4, <1>5, <2>2, <3>1
    <3>3. p \in String
      BY <1>1, <2>2, <3>2 DEF String
    <3> QED BY <2>2, <3>1, <3>2, <3>3 DEF Cut
  <2> QED BY <2>1, <2>2
<1> QED BY <1>3, <1>5, <1>6 DEF CarriedShort

LEMMA ReadLongstrIs ==
  ASSUME NEW str \in String, NEW s \in Chunks
  PROVE  /\ writeLongstr(str) \in Chunks /\ Len(writeLongstr(str)) > 0
         /\ readLongstr(writeLongstr(str) \o s) = Ok(str, s)
         /\ readBytes(writeLongstr(str) \o s) = Ok(str, s)
<1>1. str[2] \in Nat /\ ~(str[2] > MaxLength)
  BY CutIs, MaxLengthIs
<1>2. PICK a : a = Number(4, str[2])
  OBVIOUS
<1>3. PICK b : b = Octets(str)
  OBVIOUS
<1>4. b \in Chunks /\ ReadOctets(str[2], b \o s) = Ok(str, s)
  BY <1>3, ReadOctetsIs
<1>5. b \o s \in Chunks
  BY <1>4, ChunksConcat
<1>6. a \in Chunks /\ Len(a) = 1 /\ ReadNumber(4, a \o (b \o s)) = Ok(str[2], b \o s)
  BY <1>1, <1>2, <1>5, ReadNumberIs
<1>7. writeLongstr(str) = a \o b
  BY <1>2, <1>3 DEF writeLongstr
<1>8. /\ a \o b \in Chunks /\ (a \o b) \o s = a \o (b \o s)
      /\ Len(a \o b) = Len(a) + Len(b) /\ Len(b) \in Nat
  BY <1>4, <1>6, Regroup, Zenon
<1>9. Len(a \o b) > 0
  BY <1>6, <1>8
<1>10. readLongstr(a \o (b \o s)) = Ok(str, s) /\ readBytes(a \o (b \o s)) = Ok(str, s)
  <2>1. PICK r : r = b \o s
    OBVIOUS
  <2>2. PICK in : in = a \o r
    OBVIOUS
  <2>3. ReadNumber(4, in) = Ok(str[2], r) /\ ReadOctets(str[2], r) = Ok(str, s)
    BY <1>4, <1>6, <2>1, <2>2
  <2>4. readBytes(in) = Ok(str, s)
    BY <2>3 DEF readBytes, Then, Ok
  <2>5. readLongstr(in) =
          IF str[2] > MaxLength THEN Ok(<<"none", 0>>, r) ELSE ReadOctets(str[2], r)
    BY <2>3 DEF readLongstr, Then, Ok
  <2> QED BY <1>1, <2>1, <2>2, <2>3, <2>4, <2>5
<1> QED BY <1>9, <1>7, <1>8, <1>10

LEMMA ReadShortstrIs ==
  ASSUME NEW str \in String, NEW s \in Chunks
  PROVE  /\ writeShortstr(str) \in Chunks /\ Len(writeShortstr(str)) > 0
         /\ readShortstr(writeShortstr(str) \o s) = Ok(CarriedShort(str), s)
<1>1. PICK n \in Nat : n = str[2] % ShortLimit
  BY CutIs
<1>2. PICK cut \in String : cut = CarriedShort(str) /\ cut = Cut(str, n) /\ cut[2] = n
  BY <1>1, CutIs
<1>3. PICK a : a = Number(1, n)
  OBVIOUS
<1>4. PICK b : b = Octets(cut)
  OBVIOUS
<1>5. b \in Chunks /\ ReadOctets(n, b \o s) = Ok(cut, s)
  BY <1>2, <1>4, ReadOctetsIs
<1>6. b \o s \in Chunks
  BY <1>5, ChunksConcat
<1>7. a \in Chunks /\ Len(a) = 1 /\ ReadNumber(1, a \o (b \o s)) = Ok(n, b \o s)
  BY <1>1, <1>3, <1>6, ReadNumberIs
<1>8. writeShortstr(str) = a \o b
  BY <1>2, <1>1, <1>3, <1>4 DEF writeShortstr
<1>9. /\ a \o b \in Chunks /\ (a \o b) \o s = a \o (b \o s)
      /\ Len(a \o b) = Len(a) + Len(b) /\ Len(b) \in Nat
  BY <1>5, <1>7, Regroup, Zenon
<1>10. Len(a \o b) > 0
  BY <1>7, <1>9
<1>11. readShortstr(a \o (b \o s)) = Ok(cut, s)
  <2>1. PICK r : r = b \o s
    OBVIOUS
  <2>2. PICK in : in = a \o r
    OBVIOUS
  <2>3. ReadNumber(1, in) = Ok(n, r) /\ ReadOctets(n, r) = Ok(cut, s)
    BY <1>5, <1>7, <2>1, <2>2
  <2>4. readShortstr(in) = Ok(cut, s)
    BY <2>3 DEF readShortstr, Then, Ok
  <2> QED BY <2>1, <2>2, <2>4
<1> QED BY <1>10, <1>2, <1>8, <1>9, <1>11

-----------------------------------------------------------------------------
(* Fields that hold no other field.                                        *)

LEMMA AfterLetter ==
  ASSUME NEW l \in Tag, NEW b \in Chunks, NEW s \in Chunks, NEW read
  PROVE  /\ Letter(l) \o b \in Chunks /\ Len(Letter(l) \o b) = Len(b) + 1
         /\ FieldRead((Letter(l) \o b) \o s, read) = TaggedRead(l, b \o s, read)
<1>1. PICK c \in Chunk : Letter(l) = <<c>> /\ c.of = l
  BY LetterIs
<1>2. <<c>> \in Chunks /\ Len(<<c>>) = 1
  BY FirstOf
<1>3. /\ <<c>> \o b \in Chunks /\ b \o s \in Chunks /\ (<<c>> \o b) \o s = <<c>> \o (b \o s)
      /\ Len(<<c>> \o b) = Len(<<c>>) + Len(b) /\ Len(b) \in Nat
  BY <1>2, Regroup, Zenon
<1>4. PICK in : in = <<c>> \o (b \o s)
  OBVIOUS
<1>5. in # <<>> /\ Head(in) = c /\ Tail(in) = b \o s
  BY <1>3, <1>4, FirstOf
<1>6. FieldRead(in, read) = TaggedRead(l, b \o s, read)
  BY <1>1, <1>5, Zenon DEF FieldRead
<1>7. Len(<<c>> \o b) = Len(b) + 1
  BY <1>2, <1>3
<1> QED BY <1>1, <1>3, <1>4, <1>6, <1>7, Zenon

LEMMA AsOk ==
  ASSUME NEW type, NEW v, NEW s
  PROVE  As(type, Ok(v, s)) = Ok(<<type, v>>, s)
BY DEF As, Then, Ok

LEMMA NumberOf ==
  ASSUME NEW type, NEW w \in Nat \ {0}, NEW n \in Int, NEW s \in Chunks
  PROVE  As(type, ReadNumber(w, Number(w, n) \o s)) = Ok(<<type, n>>, s)
<1>1. ReadNumber(w, Number(w, n) \o s) = Ok(n, s)
  BY ReadNumberIs
<1> QED BY <1>1 DEF As, Then, Ok

LEMMA LongstrOf ==
  ASSUME NEW type, NEW str \in String, NEW s \in Chunks
  PROVE  /\ As(type, readLongstr(writeLongstr(str) \o s)) = Ok(<<type, str>>, s)
         /\ As(type, readBytes(writeLongstr(str) \o s)) = Ok(<<type, str>>, s)
<1>1. /\ readLongstr(writeLongstr(str) \o s) = Ok(str, s)
      /\ readBytes(writeLongstr(str) \o s) = Ok(str, s)
  BY ReadLongstrIs
<1> QED BY <1>1 DEF As, Then, Ok

LEMMA BoolOf ==
  ASSUME NEW v \in BOOLEAN, NEW s \in Chunks
  PROVE  As("bool", ReadBool(Number(1, IF v THEN 1 ELSE 0) \o s)) = Ok(<<"bool", v>>, s)
<1>1. PICK n \in Int : n = IF v THEN 1 ELSE 0
  OBVIOUS
<1>2. ReadNumber(1, Number(1, n) \o s) = Ok(n, s)
  BY ReadNumberIs
<1>3. ReadBool(Number(1, n) \o s) = Ok(n # 0, s)
  BY <1>2 DEF ReadBool, Then, Ok
<1>4. (n # 0) = v
  BY <1>1
<1>5. ReadBool(Number(1, n) \o s) = Ok(v, s)
  BY <1>3, <1>4, Zenon
<1>6. As("bool", ReadBool(Number(1, n) \o s)) = Ok(<<"bool", v>>, s)
  BY <1>5, AsOk, Zenon
<1> QED BY <1>1, <1>6

LEMMA FloatOf ==
  ASSUME NEW type, NEW v \in Content, NEW w \in {4, 8}, NEW s \in Chunks
  PROVE  /\ Octets(<<v, w>>) \in Chunks
         /\ As(type, ReadFloat(w, Octets(<<v, w>>) \o s)) = Ok(<<type, v>>, s)
<1>1. PICK str : str = <<v, w>>
  OBVIOUS
<1>2. str \in String /\ str[1] = v /\ str[2] = w
  BY <1>1, MaxLengthIs, FieldCodecAssumption DEF String
<1>3. Octets(str) \in Chunks /\ ReadOctets(w, Octets(str) \o s) = Ok(str, s)
  BY <1>2, ReadOctetsIs
<1>4. As(type, ReadFloat(w, Octets(str) \o s)) = Ok(<<type, v>>, s)
  BY <1>2, <1>3 DEF As, ReadFloat, Then, Ok
<1> QED BY <1>1, <1>3, <1>4

LEMMA TimestampOf ==
  ASSUME NEW v \in Instant, NEW s \in Chunks
  PROVE  /\ v[1] \in Int
         /\ readTimestamp(Number(8, v[1]) \o s) = Ok(<<v[1], 0>>, s)
         /\ As("Time", readTimestamp(Number(8, v[1]) \o s)) = Ok(<<"Time", <<v[1], 0>>>>, s)
<1>1. v[1] \in Int
  BY PairIs DEF Instant
<1>2. ReadNumber(8, Number(8, v[1]) \o s) = Ok(v[1], s)
  BY <1>1, ReadNumberIs
<1>3. readTimestamp(Number(8, v[1]) \o s) = Ok(<<v[1], 0>>, s)
  BY <1>2 DEF readTimestamp, Then, Ok
<1> QED BY <1>1, <1>3 DEF As, Then, Ok

LEMMA DecimalOf ==
  ASSUME NEW v \in Int \X Int, NEW s \in Chunks
  PROVE  /\ v[1] \in Int /\ v[2] \in Int
         /\ As("Decimal", readDecimal(Number(1, v[1]) \o (Number(4, v[2]) \o s))) =
              Ok(<<"Decimal", v>>, s)
<1>1. v[1] \in Int /\ v[2] \in Int /\ v = <<v[1], v[2]>>
  BY PairIs
<1>2. Number(4, v[2]) \in Chunks /\ ReadNumber(4, Number(4, v[2]) \o s) = Ok(v[2], s)
  BY <1>1, ReadNumberIs
<1>3. PICK r \in Chunks : r = Number(4, v[2]) \o s
  BY <1>2, ChunksConcat
<1>4. ReadNumber(1, Number(1, v[1]) \o r) = Ok(v[1], r)
  BY <1>1, ReadNumberIs
<1>5. readDecimal(Number(1, v[1]) \o r) = Ok(<<v[1], v[2]>>, s)
  <2>1. PICK in : in = Number(1, v[1]) \o r
    OBVIOUS
  <2>2. ReadNumber(1, in) = Ok(v[1], r) /\ ReadNumber(4, r) = Ok(v[2], s)
    BY <1>2, <1>3, <1>4, <2>1, Zenon
  <2> QED BY <2>1, <2>2 DEF readDecimal, Then, Ok
<1>6. As("Decimal", readDecimal(Number(1, v[1]) \o r)) = Ok(<<"Decimal", v>>, s)
  BY <1>1, <1>5 DEF As, Then, Ok
<1> QED BY <1>1, <1>3, <1>6

(* The cases of writePlain and TaggedRead. *)
LEMMA PlainWrites ==
  ASSUME NEW v
  PROVE  /\ writePlain("bool", v) = Letter("t") \o Number(1, IF v THEN 1 ELSE 0)
         /\ writePlain("byte", v) = Letter("b") \o Number(1, v)
         /\ writePlain("int16", v) = Letter("s") \o Number(2, v)
         /\ writePlain("int", v) = Letter("I") \o Number(4, Int32(v))
         /\ writePlain("int32", v) = Letter("I") \o Number(4, v)
         /\ writePlain("int64", v) = Letter("l") \o Number(8, v)
         /\ writePlain("float32", v) = Letter("f") \o Octets(<<v, 4>>)
         /\ writePlain("float64", v) = Letter("d") \o Octets(<<v, 8>>)
         /\ writePlain("Decimal", v) = Letter("D") \o Number(1, v[1]) \o Number(4, v[2])
         /\ writePlain("string", v) = Letter("S") \o writeLongstr(v)
         /\ writePlain("bytes", v) = Letter("x") \o writeLongstr(v)
         /\ writePlain("Time", v) = Letter("T") \o Number(8, v[1])
         /\ writePlain("nil", v) = Letter("V")
BY Zenon DEF writePlain

LEMMA TaggedReads ==
  ASSUME NEW r, NEW read
  PROVE  /\ TaggedRead("t", r, read) = As("bool", ReadBool(r))
         /\ TaggedRead("b", r, read) = As("byte", ReadNumber(1, r))
         /\ TaggedRead("s", r, read) = As("int16", ReadNumber(2, r))
         /\ TaggedRead("I", r, read) = As("int32", ReadNumber(4, r))
         /\ TaggedRead("l", r, read) = As("int64", ReadNumber(8, r))
         /\ TaggedRead("f", r, read) = As("float32", ReadFloat(4, r))
         /\ TaggedRead("d", r, read) = As("float64", ReadFloat(8, r))
         /\ TaggedRead("D", r, read) = As("Decimal", readDecimal(r))
         /\ TaggedRead("S", r, read) = As("string", readLongstr(r))
         /\ TaggedRead("x", r, read) = As("bytes", readBytes(r))
         /\ TaggedRead("A", r, read) = As("array", readArray(r, read))
         /\ TaggedRead("T", r, read) = As("Time", readTimestamp(r))
         /\ TaggedRead("F", r, read) = As("Table", TableRead(r, read))
         /\ TaggedRead("V", r, read) = Ok(<<"nil", 0>>, r)
BY Zenon DEF TaggedRead

LEMMA PlainCarries ==
  ASSUME NEW type \in DOMAIN Plain, NEW x, NEW f, f = <<type, x>>, NEW carried
  PROVE  /\ type = "int" => FieldCarries(f, carried) = {<<"int32", Int32(x)>>}
         /\ type = "Time" => FieldCarries(f, carried) = {<<"Time", <<x[1], 0>>>>}
         /\ type \notin {"int", "Time"} => FieldCarries(f, carried) = {f}
BY DEF FieldCarries, Plain

ReadFrom(c, vs, read) == \E v \in vs : \A s \in Chunks : FieldRead(c \o s, read) = Ok(v, s)

(* A field of such a type is read as it was written, or as FieldCarries    *)
(* says of ints and times.                                                 *)
LEMMA PlainRead ==
  ASSUME NEW type \in DOMAIN Plain, NEW x \in Plain[type], NEW f, f = <<type, x>>,
         NEW read, NEW carried, NEW w, w = writePlain(type, x)
  PROVE  w \in Chunks /\ Len(w) > 0 /\ ReadFrom(w, FieldCarries(f, carried), read)
<1> SUFFICES /\ w \in Chunks /\ Len(w) > 0
             /\ \E v \in FieldCarries(f, carried) :
                  \A s \in Chunks : FieldRead(w \o s, read) = Ok(v, s)
  BY Zenon DEF ReadFrom
<1>1. ASSUME NEW l \in Tag, NEW b \in Chunks, NEW v \in FieldCarries(f, carried),
             w = Letter(l) \o b, \A s \in Chunks : TaggedRead(l, b \o s, read) = Ok(v, s)
      PROVE  /\ w \in Chunks /\ Len(w) > 0
             /\ \A s \in Chunks : FieldRead(w \o s, read) = Ok(v, s)
  <2>1. <<>> \in Chunks /\ Len(b) \in Nat
    BY ChunksConcat, Zenon
  <2>2. w \in Chunks /\ Len(w) = Len(b) + 1
    BY <1>1, <2>1, AfterLetter
  <2>3. ASSUME NEW s \in Chunks PROVE FieldRead(w \o s, read) = Ok(v, s)
    <3>1. FieldRead((Letter(l) \o b) \o s, read) = TaggedRead(l, b \o s, read)
      BY AfterLetter
    <3> QED BY <1>1, <3>1, Zenon
  <2> QED BY <2>1, <2>2, <2>3
<1>2. SUFFICES \E l \in Tag, b \in Chunks, v \in FieldCarries(f, carried) :
                 w = Letter(l) \o b /\ \A s \in Chunks : TaggedRead(l, b \o s, read) = Ok(v, s)
  BY <1>1, Zenon
<1>3. DOMAIN Plain = {"bool", "byte", "int16", "int", "int32", "int64", "float32",
                      "float64", "Decimal", "string", "bytes", "Time", "nil"}
  BY DEF Plain
<1>4. type \notin {"int", "Time"} => f \in FieldCarries(f, carried)
  BY PlainCarries
<1>5. 1 \in Nat \ {0} /\ 2 \in Nat \ {0} /\ 4 \in Nat \ {0} /\ 8 \in Nat \ {0}
  OBVIOUS
<1>6. <<>> \in Chunks
  BY ChunksConcat, Zenon
<1>7. CASE type = "byte"
  <2>1. x \in Int
    BY <1>7 DEF Plain
  <2>2. PICK b : b = Number(1, x)
    OBVIOUS
  <2>3. b \in Chunks
    BY <1>5, <1>6, <2>1, <2>2, PiecesIn, Zenon
  <2>4. w = Letter("b") \o b
    BY <1>7, <2>2, PlainWrites, Zenon
  <2>5. ASSUME NEW s \in Chunks PROVE TaggedRead("b", b \o s, read) = Ok(f, s)
    <3>1. TaggedRead("b", b \o s, read) = As("byte", ReadNumber(1, b \o s))
      BY TaggedReads, Zenon
    <3>2. As("byte", ReadNumber(1, b \o s)) = Ok(<<"byte", x>>, s)
      BY <1>5, <2>1, <2>2, NumberOf, Zenon
    <3> QED BY <1>7, <3>1, <3>2, Zenon
  <2>6. "b" \in Tag /\ f \in FieldCarries(f, carried)
    BY <1>4, <1>7, PlainCarries DEF Tag
  <2> QED BY <2>3, <2>4, <2>5, <2>6, Zenon
<1>8. CASE type = "int16"
  <2>1. x \in Int
    BY <1>8 DEF Plain
  <2>2. PICK b : b = Number(2, x)
    OBVIOUS
  <2>3. b \in Chunks
    BY <1>5, <1>6, <2>1, <2>2, PiecesIn, Zenon
  <2>4. w = Letter("s") \o b
    BY <1>8, <2>2, PlainWrites, Zenon
  <2>5. ASSUME NEW s \in Chunks PROVE TaggedRead("s", b \o s, read) = Ok(f, s)
    <3>1. TaggedRead("s", b \o s, read) = As("int16", ReadNumber(2, b \o s))
      BY TaggedReads, Zenon
    <3>2. As("int16", ReadNumber(2, b \o s)) = Ok(<<"int16", x>>, s)
      BY <1>5, <2>1, <2>2, NumberOf, Zenon
    <3> QED BY <1>8, <3>1, <3>2, Zenon
  <2>6. "s" \in Tag /\ f \in FieldCarries(f, carried)
    BY <1>4, <1>8, PlainCarries DEF Tag
  <2> QED BY <2>3, <2>4, <2>5, <2>6, Zenon
<1>9. CASE type = "int32"
  <2>1. x \in Int
    BY <1>9 DEF Plain
  <2>2. PICK b : b = Number(4, x)
    OBVIOUS
  <2>3. b \in Chunks
    BY <1>5, <1>6, <2>1, <2>2, PiecesIn, Zenon
  <2>4. w = Letter("I") \o b
    BY <1>9, <2>2, PlainWrites, Zenon
  <2>5. ASSUME NEW s \in Chunks PROVE TaggedRead("I", b \o s, read) = Ok(f, s)
    <3>1. TaggedRead("I", b \o s, read) = As("int32", ReadNumber(4, b \o s))
      BY TaggedReads, Zenon
    <3>2. As("int32", ReadNumber(4, b \o s)) = Ok(<<"int32", x>>, s)
      BY <1>5, <2>1, <2>2, NumberOf, Zenon
    <3> QED BY <1>9, <3>1, <3>2, Zenon
  <2>6. "I" \in Tag /\ f \in FieldCarries(f, carried)
    BY <1>4, <1>9, PlainCarries DEF Tag
  <2> QED BY <2>3, <2>4, <2>5, <2>6, Zenon
<1>10. CASE type = "int64"
  <2>1. x \in Int
    BY <1>10 DEF Plain
  <2>2. PICK b : b = Number(8, x)
    OBVIOUS
  <2>3. b \in Chunks
    BY <1>5, <1>6, <2>1, <2>2, PiecesIn, Zenon
  <2>4. w = Letter("l") \o b
    BY <1>10, <2>2, PlainWrites, Zenon
  <2>5. ASSUME NEW s \in Chunks PROVE TaggedRead("l", b \o s, read) = Ok(f, s)
    <3>1. TaggedRead("l", b \o s, read) = As("int64", ReadNumber(8, b \o s))
      BY TaggedReads, Zenon
    <3>2. As("int64", ReadNumber(8, b \o s)) = Ok(<<"int64", x>>, s)
      BY <1>5, <2>1, <2>2, NumberOf, Zenon
    <3> QED BY <1>10, <3>1, <3>2, Zenon
  <2>6. "l" \in Tag /\ f \in FieldCarries(f, carried)
    BY <1>4, <1>10, PlainCarries DEF Tag
  <2> QED BY <2>3, <2>4, <2>5, <2>6, Zenon
<1>11. CASE type = "float32"
  <2>1. x \in Content
    BY <1>11 DEF Plain
  <2>2. PICK b : b = Octets(<<x, 4>>)
    OBVIOUS
  <2>3. b \in Chunks
    BY <1>5, <1>6, <2>1, <2>2, FloatOf, Zenon
  <2>4. w = Letter("f") \o b
    BY <1>11, <2>2, PlainWrites, Zenon
  <2>5. ASSUME NEW s \in Chunks PROVE TaggedRead("f", b \o s, read) = Ok(f, s)
    <3>1. TaggedRead("f", b \o s, read) = As("float32", ReadFloat(4, b \o s))
      BY TaggedReads, Zenon
    <3>2. As("float32", ReadFloat(4, b \o s)) = Ok(<<"float32", x>>, s)
      BY <1>5, <2>1, <2>2, FloatOf, Zenon
    <3> QED BY <1>11, <3>1, <3>2, Zenon
  <2>6. "f" \in Tag /\ f \in FieldCarries(f, carried)
    BY <1>4, <1>11, PlainCarries DEF Tag
  <2> QED BY <2>3, <2>4, <2>5, <2>6, Zenon
<1>12. CASE type = "float64"
  <2>1. x \in Content
    BY <1>12 DEF Plain
  <2>2. PICK b : b = Octets(<<x, 8>>)
    OBVIOUS
  <2>3. b \in Chunks
    BY <1>5, <1>6, <2>1, <2>2, FloatOf, Zenon
  <2>4. w = Letter("d") \o b
    BY <1>12, <2>2, PlainWrites, Zenon
  <2>5. ASSUME NEW s \in Chunks PROVE TaggedRead("d", b \o s, read) = Ok(f, s)
    <3>1. TaggedRead("d", b \o s, read) = As("float64", ReadFloat(8, b \o s))
      BY TaggedReads, Zenon
    <3>2. As("float64", ReadFloat(8, b \o s)) = Ok(<<"float64", x>>, s)
      BY <1>5, <2>1, <2>2, FloatOf, Zenon
    <3> QED BY <1>12, <3>1, <3>2, Zenon
  <2>6. "d" \in Tag /\ f \in FieldCarries(f, carried)
    BY <1>4, <1>12, PlainCarries DEF Tag
  <2> QED BY <2>3, <2>4, <2>5, <2>6, Zenon
<1>13. CASE type = "string"
  <2>1. x \in String
    BY <1>13 DEF Plain
  <2>2. PICK b : b = writeLongstr(x)
    OBVIOUS
  <2>3. b \in Chunks
    BY <1>5, <1>6, <2>1, <2>2, ReadLongstrIs, Zenon
  <2>4. w = Letter("S") \o b
    BY <1>13, <2>2, PlainWrites, Zenon
  <2>5. ASSUME NEW s \in Chunks PROVE TaggedRead("S", b \o s, read) = Ok(f, s)
    <3>1. TaggedRead("S", b \o s, read) = As("string", readLongstr(b \o s))
      BY TaggedReads, Zenon
    <3>2. As("string", readLongstr(b \o s)) = Ok(<<"string", x>>, s)
      BY <1>5, <2>1, <2>2, LongstrOf, Zenon
    <3> QED BY <1>13, <3>1, <3>2, Zenon
  <2>6. "S" \in Tag /\ f \in FieldCarries(f, carried)
    BY <1>4, <1>13, PlainCarries DEF Tag
  <2> QED BY <2>3, <2>4, <2>5, <2>6, Zenon
<1>14. CASE type = "bytes"
  <2>1. x \in String
    BY <1>14 DEF Plain
  <2>2. PICK b : b = writeLongstr(x)
    OBVIOUS
  <2>3. b \in Chunks
    BY <1>5, <1>6, <2>1, <2>2, ReadLongstrIs, Zenon
  <2>4. w = Letter("x") \o b
    BY <1>14, <2>2, PlainWrites, Zenon
  <2>5. ASSUME NEW s \in Chunks PROVE TaggedRead("x", b \o s, read) = Ok(f, s)
    <3>1. TaggedRead("x", b \o s, read) = As("bytes", readBytes(b \o s))
      BY TaggedReads, Zenon
    <3>2. As("bytes", readBytes(b \o s)) = Ok(<<"bytes", x>>, s)
      BY <1>5, <2>1, <2>2, LongstrOf, Zenon
    <3> QED BY <1>14, <3>1, <3>2, Zenon
  <2>6. "x" \in Tag /\ f \in FieldCarries(f, carried)
    BY <1>4, <1>14, PlainCarries DEF Tag
  <2> QED BY <2>3, <2>4, <2>5, <2>6, Zenon
<1>15. CASE type = "bool"
  <2>1. x \in BOOLEAN /\ (IF x THEN 1 ELSE 0) \in Int
    BY <1>15 DEF Plain
  <2>2. PICK b : b = Number(1, IF x THEN 1 ELSE 0)
    OBVIOUS
  <2>3. b \in Chunks
    BY <1>5, <1>6, <2>1, <2>2, PiecesIn, Zenon
  <2>4. w = Letter("t") \o b
    BY <1>15, <2>2, PlainWrites, Zenon
  <2>5. ASSUME NEW s \in Chunks PROVE TaggedRead("t", b \o s, read) = Ok(f, s)
    <3>1. TaggedRead("t", b \o s, read) = As("bool", ReadBool(b \o s))
      BY TaggedReads, Zenon
    <3>2. As("bool", ReadBool(b \o s)) = Ok(<<"bool", x>>, s)
      BY <1>5, <2>1, <2>2, BoolOf, Zenon
    <3> QED BY <1>15, <3>1, <3>2, Zenon
  <2>6. "t" \in Tag /\ f \in FieldCarries(f, carried)
    BY <1>4, <1>15, PlainCarries DEF Tag
  <2> QED BY <2>3, <2>4, <2>5, <2>6, Zenon
<1>16. CASE type = "int"
  <2>1. Int32(x) \in Int
    BY <1>16, FieldCodecAssumption DEF Plain, Int32
  <2>2. PICK b : b = Number(4, Int32(x))
    OBVIOUS
  <2>3. b \in Chunks
    BY <1>5, <1>6, <2>1, <2>2, PiecesIn, Zenon
  <2>4. w = Letter("I") \o b
    BY <1>16, <2>2, PlainWrites, Zenon
  <2>5. ASSUME NEW s \in Chunks PROVE TaggedRead("I", b \o s, read) = Ok(<<"int32", Int32(x)>>, s)
    <3>1. TaggedRead("I", b \o s, read) = As("int32", ReadNumber(4, b \o s))
      BY TaggedReads, Zenon
    <3>2. As("int32", ReadNumber(4, b \o s)) = Ok(<<"int32", Int32(x)>>, s)
      BY <1>5, <2>1, <2>2, NumberOf, Zenon
    <3> QED BY <1>16, <3>1, <3>2, Zenon
  <2>6. "I" \in Tag /\ <<"int32", Int32(x)>> \in FieldCarries(f, carried)
    BY <1>4, <1>16, PlainCarries DEF Tag
  <2> QED BY <2>3, <2>4, <2>5, <2>6, Zenon
<1>17. CASE type = "Time"
  <2>1. x \in Instant
    BY <1>17 DEF Plain
  <2>2. PICK b : b = Number(8, x[1])
    OBVIOUS
  <2>3. b \in Chunks
    BY <1>5, <1>6, <2>1, <2>2, PiecesIn, TimestampOf, Zenon
  <2>4. w = Letter("T") \o b
    BY <1>17, <2>2, PlainWrites, Zenon
  <2>5. ASSUME NEW s \in Chunks PROVE TaggedRead("T", b \o s, read) = Ok(<<"Time", <<x[1], 0>>>>, s)
    <3>1. TaggedRead("T", b \o s, read) = As("Time", readTimestamp(b \o s))
      BY TaggedReads, Zenon
    <3>2. As("Time", readTimestamp(b \o s)) = Ok(<<"Time", <<x[1], 0>>>>, s)
      BY <1>5, <2>1, <2>2, TimestampOf, Zenon
    <3> QED BY <1>17, <3>1, <3>2, Zenon
  <2>6. "T" \in Tag /\ <<"Time", <<x[1], 0>>>> \in FieldCarries(f, carried)
    BY <1>4, <1>17, PlainCarries DEF Tag
  <2> QED BY <2>3, <2>4, <2>5, <2>6, Zenon
<1>18. CASE type = "Decimal"
  <2>1. x \in Int \X Int
    BY <1>18 DEF Plain
  <2>2. x[1] \in Int /\ x[2] \in Int
    BY <2>1, PairIs
  <2>3. PICK a \in Chunks : a = Number(1, x[1])
    BY <1>5, <2>2, PiecesIn, Zenon
  <2>4. PICK c \in Chunks : c = Number(4, x[2])
    BY <1>5, <2>2, PiecesIn, Zenon
  <2>5. PICK l \in Chunks : l = Letter("D")
    <3>1. "D" \in Tag
      BY DEF Tag
    <3> QED BY <3>1, PiecesIn, Zenon
  <2>6. PICK b \in Chunks : b = a \o c
    BY ChunksConcat
  <2>7. w = Letter("D") \o b
    <3>1. w = (l \o a) \o c
      BY <1>18, <2>3, <2>4, <2>5, PlainWrites, Zenon
    <3>2. (l \o a) \o c = l \o (a \o c)
      BY ChunksConcat, Zenon
    <3> QED BY <2>5, <2>6, <3>1, <3>2, Zenon
  <2>8. ASSUME NEW s \in Chunks PROVE TaggedRead("D", b \o s, read) = Ok(f, s)
    <3>1. (a \o c) \o s = a \o (c \o s)
      BY ChunksConcat, Zenon
    <3>2. TaggedRead("D", b \o s, read) = As("Decimal", readDecimal(a \o (c \o s)))
      BY <2>6, <3>1, TaggedReads, Zenon
    <3> QED BY <1>18, <2>1, <2>3, <2>4, <3>2, DecimalOf, Zenon
  <2>9. "D" \in Tag /\ f \in FieldCarries(f, carried)
    BY <1>4, <1>18 DEF Tag
  <2> QED BY <2>7, <2>8, <2>9, Zenon
<1>19. CASE type = "nil"
  <2>1. f = <<"nil", 0>>
    BY <1>19 DEF Plain
  <2>2. PICK l \in Chunks : l = Letter("V")
    <3>1. "V" \in Tag
      BY DEF Tag
    <3> QED BY <3>1, PiecesIn, Zenon
  <2>3. w = Letter("V") \o <<>>
    <3>1. w = l
      BY <1>19, <2>2, PlainWrites, Zenon
    <3>2. l \o <<>> = l
      BY ChunksConcat, Zenon
    <3> QED BY <2>2, <3>1, <3>2, Zenon
  <2>4. ASSUME NEW s \in Chunks PROVE TaggedRead("V", <<>> \o s, read) = Ok(f, s)
    <3>1. <<>> \o s = s
      BY ChunksConcat, Zenon
    <3> QED BY <2>1, <3>1, TaggedReads, Zenon
  <2>5. "V" \in Tag /\ f \in FieldCarries(f, carried)
    BY <1>4, <1>19 DEF Tag
  <2> QED BY <1>6, <2>3, <2>4, <2>5, Zenon
<1> QED BY <1>3, <1>7, <1>8, <1>9, <1>10, <1>11, <1>12, <1>13, <1>14, <1>15, <1>16, <1>17, <1>18, <1>19

-----------------------------------------------------------------------------
(* The functions that are a loop: they are what their definitions say.     *)

LEMMA ElementsReadIs ==
  ASSUME NEW lim, NEW read, Len(lim) \in Nat
  PROVE  ElementsRead(lim, read) =
           [i \in 0 .. Len(lim) + 1 |->
              IF i = 0 THEN Ok(<<>>, lim) ELSE NextElement(ElementsRead(lim, read)[i - 1], read)]
<1>1. PICK m \in Nat : m = Len(lim) + 1
  OBVIOUS
<1>2. PICK S : S = {j \in Nat : j <= m => \E g : \A i \in 0 .. j :
                      g[i] = IF i = 0 THEN Ok(<<>>, lim) ELSE NextElement(g[i - 1], read)}
  OBVIOUS
<1>3. 0 \in S
  <2>1. PICK g : g = [i \in {0} |-> Ok(<<>>, lim)]
    OBVIOUS
  <2>2. ASSUME NEW i \in 0 .. 0 PROVE g[i] = Ok(<<>>, lim) /\ i = 0
    BY <2>1
  <2> QED BY <1>2, <2>2
<1>4. ASSUME NEW j \in Nat, j \in S PROVE j + 1 \in S
  <2> SUFFICES ASSUME j + 1 <= m
               PROVE  \E g : \A i \in 0 .. j + 1 :
                        g[i] = IF i = 0 THEN Ok(<<>>, lim) ELSE NextElement(g[i - 1], read)
    BY <1>2
  <2>1. PICK g : \A i \in 0 .. j :
                   g[i] = IF i = 0 THEN Ok(<<>>, lim) ELSE NextElement(g[i - 1], read)
    BY <1>2, <1>4
  <2>2. PICK h : h = [i \in 0 .. j + 1 |-> IF i = j + 1 THEN NextElement(g[i - 1], read) ELSE g[i]]
    OBVIOUS
  <2>3. ASSUME NEW i \in 0 .. j + 1
        PROVE  h[i] = IF i = 0 THEN Ok(<<>>, lim) ELSE NextElement(h[i - 1], read)
    <3>1. i > 0 => h[i - 1] = g[i - 1]
      BY <2>2
    <3>2. CASE i = j + 1
      <4>1. h[i] = NextElement(g[i - 1], read) /\ i > 0
        BY <2>2, <3>2
      <4> QED BY <3>1, <4>1
    <3>3. CASE i # j + 1
      <4>1. i \in 0 .. j /\ h[i] = g[i]
        BY <2>2, <3>3
      <4> QED BY <2>1, <3>1, <4>1
    <3> QED BY <3>2, <3>3
  <2> QED BY <2>3
<1>5. PICK g : \A i \in 0 .. m : g[i] = IF i = 0 THEN Ok(<<>>, lim) ELSE NextElement(g[i - 1], read)
  <2>1. m \in S
    BY <1>3, <1>4, Upwards
  <2> QED BY <1>2, <2>1
<1>6. PICK h : h = [i \in 0 .. m |-> g[i]]
  OBVIOUS
<1>7. h = [i \in 0 .. m |-> IF i = 0 THEN Ok(<<>>, lim) ELSE NextElement(h[i - 1], read)]
  <2>1. \A i \in 0 .. m : i # 0 => h[i - 1] = g[i - 1]
    BY <1>6
  <2> QED BY <1>5, <1>6, <2>1
<1> QED BY <1>1, <1>7 DEF ElementsRead


LEMMA EntriesReadIs ==
  ASSUME NEW nested, NEW read, Len(nested) \in Nat
  PROVE  EntriesRead(nested, read) =
           [i \in 0 .. Len(nested) |->
              IF i = 0 THEN Ok(<<>>, nested) ELSE NextEntry(EntriesRead(nested, read)[i - 1], read)]
<1>1. PICK m \in Nat : m = Len(nested)
  OBVIOUS
<1>2. PICK S : S = {j \in Nat : j <= m => \E g : \A i \in 0 .. j :
                      g[i] = IF i = 0 THEN Ok(<<>>, nested) ELSE NextEntry(g[i - 1], read)}
  OBVIOUS
<1>3. 0 \in S
  <2>1. PICK g : g = [i \in {0} |-> Ok(<<>>, nested)]
    OBVIOUS
  <2>2. ASSUME NEW i \in 0 .. 0 PROVE g[i] = Ok(<<>>, nested) /\ i = 0
    BY <2>1
  <2> QED BY <1>2, <2>2
<1>4. ASSUME NEW j \in Nat, j \in S PROVE j + 1 \in S
  <2> SUFFICES ASSUME j + 1 <= m
               PROVE  \E g : \A i \in 0 .. j + 1 :
                        g[i] = IF i = 0 THEN Ok(<<>>, nested) ELSE NextEntry(g[i - 1], read)
    BY <1>2
  <2>1. PICK g : \A i \in 0 .. j :
                   g[i] = IF i = 0 THEN Ok(<<>>, nested) ELSE NextEntry(g[i - 1], read)
    BY <1>2, <1>4
  <2>2. PICK h : h = [i \in 0 .. j + 1 |-> IF i = j + 1 THEN NextEntry(g[i - 1], read) ELSE g[i]]
    OBVIOUS
  <2>3. ASSUME NEW i \in 0 .. j + 1
        PROVE  h[i] = IF i = 0 THEN Ok(<<>>, nested) ELSE NextEntry(h[i - 1], read)
    <3>1. i > 0 => h[i - 1] = g[i - 1]
      BY <2>2
    <3>2. CASE i = j + 1
      <4>1. h[i] = NextEntry(g[i - 1], read) /\ i > 0
        BY <2>2, <3>2
      <4> QED BY <3>1, <4>1
    <3>3. CASE i # j + 1
      <4>1. i \in 0 .. j /\ h[i] = g[i]
        BY <2>2, <3>3
      <4> QED BY <2>1, <3>1, <4>1
    <3> QED BY <3>2, <3>3
  <2> QED BY <2>3
<1>5. PICK g : \A i \in 0 .. m : g[i] = IF i = 0 THEN Ok(<<>>, nested) ELSE NextEntry(g[i - 1], read)
  <2>1. m \in S
    BY <1>3, <1>4, Upwards
  <2> QED BY <1>2, <2>1
<1>6. PICK h : h = [i \in 0 .. m |-> g[i]]
  OBVIOUS
<1>7. h = [i \in 0 .. m |-> IF i = 0 THEN Ok(<<>>, nested) ELSE NextEntry(h[i - 1], read)]
  <2>1. \A i \in 0 .. m : i # 0 => h[i - 1] = g[i - 1]
    BY <1>6
  <2> QED BY <1>5, <1>6, <2>1
<1> QED BY <1>1, <1>7 DEF EntriesRead


LEMMA ArgumentsReadIs ==
  ASSUME NEW kinds, NEW in, Len(kinds) \in Nat
  PROVE  ArgumentsRead(kinds, in) =
           [i \in 0 .. Len(kinds) |->
              IF i = 0 THEN Ok(<<>>, in) ELSE NextArgument(ArgumentsRead(kinds, in)[i - 1], kinds[i])]
<1>1. PICK m \in Nat : m = Len(kinds)
  OBVIOUS
<1>2. PICK S : S = {j \in Nat : j <= m => \E g : \A i \in 0 .. j :
                      g[i] = IF i = 0 THEN Ok(<<>>, in) ELSE NextArgument(g[i - 1], kinds[i])}
  OBVIOUS
<1>3. 0 \in S
  <2>1. PICK g : g = [i \in {0} |-> Ok(<<>>, in)]
    OBVIOUS
  <2>2. ASSUME NEW i \in 0 .. 0 PROVE g[i] = Ok(<<>>, in) /\ i = 0
    BY <2>1
  <2> QED BY <1>2, <2>2
<1>4. ASSUME NEW j \in Nat, j \in S PROVE j + 1 \in S
  <2> SUFFICES ASSUME j + 1 <= m
               PROVE  \E g : \A i \in 0 .. j + 1 :
                        g[i] = IF i = 0 THEN Ok(<<>>, in) ELSE NextArgument(g[i - 1], kinds[i])
    BY <1>2
  <2>1. PICK g : \A i \in 0 .. j :
                   g[i] = IF i = 0 THEN Ok(<<>>, in) ELSE NextArgument(g[i - 1], kinds[i])
    BY <1>2, <1>4
  <2>2. PICK h : h = [i \in 0 .. j + 1 |-> IF i = j + 1 THEN NextArgument(g[i - 1], kinds[i]) ELSE g[i]]
    OBVIOUS
  <2>3. ASSUME NEW i \in 0 .. j + 1
        PROVE  h[i] = IF i = 0 THEN Ok(<<>>, in) ELSE NextArgument(h[i - 1], kinds[i])
    <3>1. i > 0 => h[i - 1] = g[i - 1]
      BY <2>2
    <3>2. CASE i = j + 1
      <4>1. h[i] = NextArgument(g[i - 1], kinds[i]) /\ i > 0
        BY <2>2, <3>2
      <4> QED BY <3>1, <4>1
    <3>3. CASE i # j + 1
      <4>1. i \in 0 .. j /\ h[i] = g[i]
        BY <2>2, <3>3
      <4> QED BY <2>1, <3>1, <4>1
    <3> QED BY <3>2, <3>3
  <2> QED BY <2>3
<1>5. PICK g : \A i \in 0 .. m : g[i] = IF i = 0 THEN Ok(<<>>, in) ELSE NextArgument(g[i - 1], kinds[i])
  <2>1. m \in S
    BY <1>3, <1>4, Upwards
  <2> QED BY <1>2, <2>1
<1>6. PICK h : h = [i \in 0 .. m |-> g[i]]
  OBVIOUS
<1>7. h = [i \in 0 .. m |-> IF i = 0 THEN Ok(<<>>, in) ELSE NextArgument(h[i - 1], kinds[i])]
  <2>1. \A i \in 0 .. m : i # 0 => h[i - 1] = g[i - 1]
    BY <1>6
  <2> QED BY <1>5, <1>6, <2>1
<1> QED BY <1>1, <1>7 DEF ArgumentsRead


LEMMA PropertiesReadIs ==
  ASSUME NEW flags, NEW in
  PROVE  PropertiesRead(flags, in) =
           [i \in 0 .. 14 |->
              IF i = 0 THEN Ok(NoProperties, in) ELSE NextProperty(PropertiesRead(flags, in)[i - 1], Properties[i], flags)]
<1>1. PICK m \in Nat : m = 14
  OBVIOUS
<1>2. PICK S : S = {j \in Nat : j <= m => \E g : \A i \in 0 .. j :
                      g[i] = IF i = 0 THEN Ok(NoProperties, in) ELSE NextProperty(g[i - 1], Properties[i], flags)}
  OBVIOUS
<1>3. 0 \in S
  <2>1. PICK g : g = [i \in {0} |-> Ok(NoProperties, in)]
    OBVIOUS
  <2>2. ASSUME NEW i \in 0 .. 0 PROVE g[i] = Ok(NoProperties, in) /\ i = 0
    BY <2>1
  <2> QED BY <1>2, <2>2
<1>4. ASSUME NEW j \in Nat, j \in S PROVE j + 1 \in S
  <2> SUFFICES ASSUME j + 1 <= m
               PROVE  \E g : \A i \in 0 .. j + 1 :
                        g[i] = IF i = 0 THEN Ok(NoProperties, in) ELSE NextProperty(g[i - 1], Properties[i], flags)
    BY <1>2
  <2>1. PICK g : \A i \in 0 .. j :
                   g[i] = IF i = 0 THEN Ok(NoProperties, in) ELSE NextProperty(g[i - 1], Properties[i], flags)
    BY <1>2, <1>4
  <2>2. PICK h : h = [i \in 0 .. j + 1 |-> IF i = j + 1 THEN NextProperty(g[i - 1], Properties[i], flags) ELSE g[i]]
    OBVIOUS
  <2>3. ASSUME NEW i \in 0 .. j + 1
        PROVE  h[i] = IF i = 0 THEN Ok(NoProperties, in) ELSE NextProperty(h[i - 1], Properties[i], flags)
    <3>1. i > 0 => h[i - 1] = g[i - 1]
      BY <2>2
    <3>2. CASE i = j + 1
      <4>1. h[i] = NextProperty(g[i - 1], Properties[i], flags) /\ i > 0
        BY <2>2, <3>2
      <4> QED BY <3>1, <4>1
    <3>3. CASE i # j + 1
      <4>1. i \in 0 .. j /\ h[i] = g[i]
        BY <2>2, <3>3
      <4> QED BY <2>1, <3>1, <4>1
    <3> QED BY <3>2, <3>3
  <2> QED BY <2>3
<1>5. PICK g : \A i \in 0 .. m : g[i] = IF i = 0 THEN Ok(NoProperties, in) ELSE NextProperty(g[i - 1], Properties[i], flags)
  <2>1. m \in S
    BY <1>3, <1>4, Upwards
  <2> QED BY <1>2, <2>1
<1>6. PICK h : h = [i \in 0 .. m |-> g[i]]
  OBVIOUS
<1>7. h = [i \in 0 .. m |-> IF i = 0 THEN Ok(NoProperties, in) ELSE NextProperty(h[i - 1], Properties[i], flags)]
  <2>1. \A i \in 0 .. m : i # 0 => h[i - 1] = g[i - 1]
    BY <1>6
  <2> QED BY <1>5, <1>6, <2>1
<1> QED BY <1>1, <1>7 DEF PropertiesRead



LEMMA ReadFieldIs ==
  ASSUME NEW n \in Nat
  PROVE  readField(n) =
           [i \in 0 .. n |->
              IF i = 0 THEN NoField ELSE Deeper(readField(n)[i - 1])]
<1>1. PICK m \in Nat : m = n
  OBVIOUS
<1>2. PICK S : S = {j \in Nat : j <= m => \E g : \A i \in 0 .. j :
                      g[i] = IF i = 0 THEN NoField ELSE Deeper(g[i - 1])}
  OBVIOUS
<1>3. 0 \in S
  <2>1. PICK g : g = [i \in {0} |-> NoField]
    OBVIOUS
  <2>2. ASSUME NEW i \in 0 .. 0 PROVE g[i] = NoField /\ i = 0
    BY <2>1
  <2> QED BY <1>2, <2>2
<1>4. ASSUME NEW j \in Nat, j \in S PROVE j + 1 \in S
  <2> SUFFICES ASSUME j + 1 <= m
               PROVE  \E g : \A i \in 0 .. j + 1 :
                        g[i] = IF i = 0 THEN NoField ELSE Deeper(g[i - 1])
    BY <1>2
  <2>1. PICK g : \A i \in 0 .. j :
                   g[i] = IF i = 0 THEN NoField ELSE Deeper(g[i - 1])
    BY <1>2, <1>4
  <2>2. PICK h : h = [i \in 0 .. j + 1 |-> IF i = j + 1 THEN Deeper(g[i - 1]) ELSE g[i]]
    OBVIOUS
  <2>3. ASSUME NEW i \in 0 .. j + 1
        PROVE  h[i] = IF i = 0 THEN NoField ELSE Deeper(h[i - 1])
    <3>1. i > 0 => h[i - 1] = g[i - 1]
      BY <2>2
    <3>2. CASE i = j + 1
      <4>1. h[i] = Deeper(g[i - 1]) /\ i > 0
        BY <2>2, <3>2
      <4> QED BY <3>1, <4>1
    <3>3. CASE i # j + 1
      <4>1. i \in 0 .. j /\ h[i] = g[i]
        BY <2>2, <3>3
      <4> QED BY <2>1, <3>1, <4>1
    <3> QED BY <3>2, <3>3
  <2> QED BY <2>3
<1>5. PICK g : \A i \in 0 .. m : g[i] = IF i = 0 THEN NoField ELSE Deeper(g[i - 1])
  <2>1. m \in S
    BY <1>3, <1>4, Upwards
  <2> QED BY <1>2, <2>1
<1>6. PICK h : h = [i \in 0 .. m |-> g[i]]
  OBVIOUS
<1>7. h = [i \in 0 .. m |-> IF i = 0 THEN NoField ELSE Deeper(h[i - 1])]
  <2>1. \A i \in 0 .. m : i # 0 => h[i - 1] = g[i - 1]
    BY <1>6
  <2> QED BY <1>5, <1>6, <2>1
<1> QED BY <1>1, <1>7 DEF readField

-----------------------------------------------------------------------------
(* The functions on fields: they are what their definitions say, because   *)
(* what is inside a field comes before it.                                 *)

LEMMA FieldsIn ==
  /\ Len(Fields) \in Nat
  /\ \A i \in 1 .. Len(Fields) : Fields[i] \in Field
  /\ \A f \in Field : IsField(f) /\ Parts(f) \subseteq Field
                      /\ \E i \in 1 .. Len(Fields) : f = Fields[i]
  /\ \A i \in 1 .. Len(Fields) : \A p \in Parts(Fields[i]) :
       \E j \in 1 .. i - 1 : p = Fields[j]
<1>1. PICK n \in Nat : n = Len(Fields) /\ DOMAIN Fields = 1 .. n
  BY FieldCodecAssumption, SeqIs
<1>2. Field = {Fields[i] : i \in 1 .. n}
  BY <1>1 DEF Field, Range
<1>3. \A i \in 1 .. n : IsField(Fields[i]) /\ Parts(Fields[i]) \subseteq {Fields[j] : j \in 1 .. i - 1}
  BY <1>1, FieldCodecAssumption, Zenon
<1>4. \A i \in 1 .. n : \A p \in Parts(Fields[i]) : \E j \in 1 .. i - 1 : p = Fields[j]
  BY <1>3
<1>5. \A i \in 1 .. n : Parts(Fields[i]) \subseteq Field
  <2> SUFFICES ASSUME NEW i \in 1 .. n, NEW p \in Parts(Fields[i]) PROVE p \in Field
    OBVIOUS
  <2>1. PICK j \in 1 .. i - 1 : p = Fields[j]
    BY <1>4
  <2> QED BY <1>2, <2>1
<1> QED BY <1>1, <1>2, <1>3, <1>4, <1>5

LEMMA InsideSame ==
  ASSUME NEW f, NEW v, NEW w, \A p \in Parts(f) : v[p] = w[p],
         f[1] \in {"Table", "array"}
  PROVE  Inside(f[2], v) = Inside(f[2], w)
<1>1. \A k \in DOMAIN f[2] : f[2][k] \in Parts(f)
  BY DEF Parts, Range
<1> QED BY <1>1 DEF Inside

LEMMA WritesSame ==
  ASSUME NEW f, NEW v, NEW w, \A p \in Parts(f) : v[p] = w[p]
  PROVE  FieldWrites(f, v) = FieldWrites(f, w)
<1>1. f[1] \in {"Table", "array"} => Inside(f[2], v) = Inside(f[2], w)
  BY InsideSame
<1>2. CASE f[1] \in DOMAIN Plain
  BY <1>2 DEF FieldWrites
<1>3. CASE f[1] \notin DOMAIN Plain /\ f[1] = "Table"
  <2>1. PICK T : T = TableWrites(f[2], Inside(f[2], v)) /\ T = TableWrites(f[2], Inside(f[2], w))
    BY <1>1, <1>3
  <2>2. FieldWrites(f, v) = {After(Letter("F"), x) : x \in T}
    BY <1>3, <2>1 DEF FieldWrites
  <2>3. FieldWrites(f, w) = {After(Letter("F"), x) : x \in T}
    BY <1>3, <2>1 DEF FieldWrites
  <2> QED BY <2>2, <2>3
<1>4. CASE f[1] \notin DOMAIN Plain /\ f[1] = "array"
  <2>1. PICK T : T = ArrayWrites(Inside(f[2], v)) /\ T = ArrayWrites(Inside(f[2], w))
    BY <1>1, <1>4
  <2>2. FieldWrites(f, v) = {After(Letter("A"), x) : x \in T}
    BY <1>4, <2>1 DEF FieldWrites
  <2>3. FieldWrites(f, w) = {After(Letter("A"), x) : x \in T}
    BY <1>4, <2>1 DEF FieldWrites
  <2> QED BY <2>2, <2>3
<1>5. CASE f[1] \notin DOMAIN Plain \cup {"Table", "array"}
  BY <1>5 DEF FieldWrites
<1> QED BY <1>2, <1>3, <1>4, <1>5

LEMMA ValidSame ==
  ASSUME NEW f, NEW v, NEW w, \A p \in Parts(f) : v[p] = w[p]
  PROVE  FieldValid(f, v) = FieldValid(f, w)
<1>1. f[1] \in {"Table", "array"} => \A k \in DOMAIN f[2] : v[f[2][k]] = w[f[2][k]]
  BY DEF Parts, Range
<1> QED BY <1>1 DEF FieldValid

LEMMA CarriesSame ==
  ASSUME NEW f, NEW v, NEW w, \A p \in Parts(f) : v[p] = w[p]
  PROVE  FieldCarries(f, v) = FieldCarries(f, w)
<1>1. f[1] \in {"Table", "array"} => Inside(f[2], v) = Inside(f[2], w)
  BY InsideSame
<1>2. CASE f[1] = "array"
  <2>1. PICK T : T = OneOfEach(Inside(f[2], v)) /\ T = OneOfEach(Inside(f[2], w))
    BY <1>1, <1>2
  <2>2. FieldCarries(f, v) = {<<"array", x>> : x \in T}
    BY <1>2, <2>1 DEF FieldCarries
  <2>3. FieldCarries(f, w) = {<<"array", x>> : x \in T}
    BY <1>2, <2>1 DEF FieldCarries
  <2> QED BY <2>2, <2>3
<1>3. CASE f[1] = "Table"
  <2>1. PICK T : T = TableCarries(f[2], Inside(f[2], v)) /\ T = TableCarries(f[2], Inside(f[2], w))
    BY <1>1, <1>3
  <2>2. FieldCarries(f, v) = {<<"Table", x>> : x \in T}
    BY <1>3, <2>1 DEF FieldCarries
  <2>3. FieldCarries(f, w) = {<<"Table", x>> : x \in T}
    BY <1>3, <2>1 DEF FieldCarries
  <2> QED BY <2>2, <2>3
<1>4. CASE f[1] \notin {"array", "Table"}
  BY <1>4 DEF FieldCarries
<1> QED BY <1>2, <1>3, <1>4

LEMMA writeFieldIs == writeField = [f \in Field |-> FieldWrites(f, writeField)]
<1>1. PICK n \in Nat : n = Len(Fields)
  BY FieldsIn
<1>2. \A i \in 1 .. n : Fields[i] \in Field
  BY <1>1, FieldsIn
<1>3. \A f \in Field : \E i \in 1 .. n : f = Fields[i]
  BY <1>1, FieldsIn
<1>4. \A i \in 1 .. n : \A p \in Parts(Fields[i]) : \E j \in 1 .. i - 1 : p = Fields[j]
  BY <1>1, FieldsIn
<1>5. PICK S : S = {m \in Nat : m <= n => \E w : \A i \in 1 .. m :
                      w[Fields[i]] = FieldWrites(Fields[i], w)}
  OBVIOUS
<1>6. 0 \in S
  <2>1. \A i \in 1 .. 0 : FALSE
    OBVIOUS
  <2> QED BY <1>5, <2>1
<1>7. ASSUME NEW m \in Nat, m \in S PROVE m + 1 \in S
  <2> SUFFICES ASSUME m + 1 <= n
               PROVE  \E w : \A i \in 1 .. m + 1 : w[Fields[i]] = FieldWrites(Fields[i], w)
    BY <1>5
  <2>1. PICK w : \A i \in 1 .. m : w[Fields[i]] = FieldWrites(Fields[i], w)
    BY <1>5, <1>7
  <2>2. PICK new : new = FieldWrites(Fields[m + 1], w)
    OBVIOUS
  <2>3. PICK h : h = [f \in Field |-> IF \E j \in 1 .. m : f = Fields[j] THEN w[f] ELSE new]
    OBVIOUS
  <2>4. \A j \in 1 .. m : h[Fields[j]] = w[Fields[j]]
    BY <1>2, <2>3
  <2>5. ASSUME NEW i \in 1 .. m + 1
        PROVE  FieldWrites(Fields[i], w) = FieldWrites(Fields[i], h)
    <3>1. i \in 1 .. n
      OBVIOUS
    <3>2. \A p \in Parts(Fields[i]) : w[p] = h[p]
      <4> SUFFICES ASSUME NEW p \in Parts(Fields[i]) PROVE w[p] = h[p]
        OBVIOUS
      <4>1. PICK j \in 1 .. i - 1 : p = Fields[j]
        BY <1>4, <3>1
      <4>2. j \in 1 .. m
        OBVIOUS
      <4> QED BY <2>4, <4>1, <4>2
    <3> QED BY <1>2, <3>1, <3>2, WritesSame
  <2>6. ASSUME NEW i \in 1 .. m + 1 PROVE h[Fields[i]] = FieldWrites(Fields[i], h)
    <3>1. CASE \E j \in 1 .. m : Fields[i] = Fields[j]
      <4>1. PICK j \in 1 .. m : Fields[i] = Fields[j]
        BY <3>1
      <4>2. j \in 1 .. m + 1 /\ h[Fields[j]] = FieldWrites(Fields[j], w)
        BY <2>1, <2>4
      <4> QED BY <2>5, <4>1, <4>2
    <3>2. CASE ~\E j \in 1 .. m : Fields[i] = Fields[j]
      <4>1. i = m + 1 /\ Fields[i] \in Field
        BY <1>2, <3>2
      <4>2. h[Fields[i]] = new
        BY <2>3, <3>2, <4>1
      <4> QED BY <2>2, <2>5, <4>1, <4>2
    <3> QED BY <3>1, <3>2
  <2> QED BY <2>6
<1>8. PICK w : \A i \in 1 .. n : w[Fields[i]] = FieldWrites(Fields[i], w)
  <2>1. n \in S
    BY <1>6, <1>7, Upwards
  <2> QED BY <1>5, <2>1
<1>9. PICK g : g = [f \in Field |-> w[f]]
  OBVIOUS
<1>10. ASSUME NEW f \in Field PROVE g[f] = FieldWrites(f, g)
  <2>1. PICK i \in 1 .. n : f = Fields[i]
    BY <1>3
  <2>2. \A p \in Parts(f) : p \in Field /\ w[p] = g[p]
    BY <1>9, FieldsIn
  <2>3. FieldWrites(f, w) = FieldWrites(f, g)
    BY <2>2, WritesSame
  <2> QED BY <1>8, <1>9, <2>1, <2>3
<1>11. g = [f \in Field |-> FieldWrites(f, g)]
  BY <1>9, <1>10
<1> QED BY <1>11 DEF writeField


LEMMA validateFieldIs == validateField = [f \in Field |-> FieldValid(f, validateField)]
<1>1. PICK n \in Nat : n = Len(Fields)
  BY FieldsIn
<1>2. \A i \in 1 .. n : Fields[i] \in Field
  BY <1>1, FieldsIn
<1>3. \A f \in Field : \E i \in 1 .. n : f = Fields[i]
  BY <1>1, FieldsIn
<1>4. \A i \in 1 .. n : \A p \in Parts(Fields[i]) : \E j \in 1 .. i - 1 : p = Fields[j]
  BY <1>1, FieldsIn
<1>5. PICK S : S = {m \in Nat : m <= n => \E w : \A i \in 1 .. m :
                      w[Fields[i]] = FieldValid(Fields[i], w)}
  OBVIOUS
<1>6. 0 \in S
  <2>1. \A i \in 1 .. 0 : FALSE
    OBVIOUS
  <2> QED BY <1>5, <2>1
<1>7. ASSUME NEW m \in Nat, m \in S PROVE m + 1 \in S
  <2> SUFFICES ASSUME m + 1 <= n
               PROVE  \E w : \A i \in 1 .. m + 1 : w[Fields[i]] = FieldValid(Fields[i], w)
    BY <1>5
  <2>1. PICK w : \A i \in 1 .. m : w[Fields[i]] = FieldValid(Fields[i], w)
    BY <1>5, <1>7
  <2>2. PICK new : new = FieldValid(Fields[m + 1], w)
    OBVIOUS
  <2>3. PICK h : h = [f \in Field |-> IF \E j \in 1 .. m : f = Fields[j] THEN w[f] ELSE new]
    OBVIOUS
  <2>4. \A j \in 1 .. m : h[Fields[j]] = w[Fields[j]]
    BY <1>2, <2>3
  <2>5. ASSUME NEW i \in 1 .. m + 1
        PROVE  FieldValid(Fields[i], w) = FieldValid(Fields[i], h)
    <3>1. i \in 1 .. n
      OBVIOUS
    <3>2. \A p \in Parts(Fields[i]) : w[p] = h[p]
      <4> SUFFICES ASSUME NEW p \in Parts(Fields[i]) PROVE w[p] = h[p]
        OBVIOUS
      <4>1. PICK j \in 1 .. i - 1 : p = Fields[j]
        BY <1>4, <3>1
      <4>2. j \in 1 .. m
        OBVIOUS
      <4> QED BY <2>4, <4>1, <4>2
    <3> QED BY <1>2, <3>1, <3>2, ValidSame
  <2>6. ASSUME NEW i \in 1 .. m + 1 PROVE h[Fields[i]] = FieldValid(Fields[i], h)
    <3>1. CASE \E j \in 1 .. m : Fields[i] = Fields[j]
      <4>1. PICK j \in 1 .. m : Fields[i] = Fields[j]
        BY <3>1
      <4>2. j \in 1 .. m + 1 /\ h[Fields[j]] = FieldValid(Fields[j], w)
        BY <2>1, <2>4
      <4> QED BY <2>5, <4>1, <4>2
    <3>2. CASE ~\E j \in 1 .. m : Fields[i] = Fields[j]
      <4>1. i = m + 1 /\ Fields[i] \in Field
        BY <1>2, <3>2
      <4>2. h[Fields[i]] = new
        BY <2>3, <3>2, <4>1
      <4> QED BY <2>2, <2>5, <4>1, <4>2
    <3> QED BY <3>1, <3>2
  <2> QED BY <2>6
<1>8. PICK w : \A i \in 1 .. n : w[Fields[i]] = FieldValid(Fields[i], w)
  <2>1. n \in S
    BY <1>6, <1>7, Upwards
  <2> QED BY <1>5, <2>1
<1>9. PICK g : g = [f \in Field |-> w[f]]
  OBVIOUS
<1>10. ASSUME NEW f \in Field PROVE g[f] = FieldValid(f, g)
  <2>1. PICK i \in 1 .. n : f = Fields[i]
    BY <1>3
  <2>2. \A p \in Parts(f) : p \in Field /\ w[p] = g[p]
    BY <1>9, FieldsIn
  <2>3. FieldValid(f, w) = FieldValid(f, g)
    BY <2>2, ValidSame
  <2> QED BY <1>8, <1>9, <2>1, <2>3
<1>11. g = [f \in Field |-> FieldValid(f, g)]
  BY <1>9, <1>10
<1> QED BY <1>11 DEF validateField


LEMMA CarriedIs == Carried = [f \in Field |-> FieldCarries(f, Carried)]
<1>1. PICK n \in Nat : n = Len(Fields)
  BY FieldsIn
<1>2. \A i \in 1 .. n : Fields[i] \in Field
  BY <1>1, FieldsIn
<1>3. \A f \in Field : \E i \in 1 .. n : f = Fields[i]
  BY <1>1, FieldsIn
<1>4. \A i \in 1 .. n : \A p \in Parts(Fields[i]) : \E j \in 1 .. i - 1 : p = Fields[j]
  BY <1>1, FieldsIn
<1>5. PICK S : S = {m \in Nat : m <= n => \E w : \A i \in 1 .. m :
                      w[Fields[i]] = FieldCarries(Fields[i], w)}
  OBVIOUS
<1>6. 0 \in S
  <2>1. \A i \in 1 .. 0 : FALSE
    OBVIOUS
  <2> QED BY <1>5, <2>1
<1>7. ASSUME NEW m \in Nat, m \in S PROVE m + 1 \in S
  <2> SUFFICES ASSUME m + 1 <= n
               PROVE  \E w : \A i \in 1 .. m + 1 : w[Fields[i]] = FieldCarries(Fields[i], w)
    BY <1>5
  <2>1. PICK w : \A i \in 1 .. m : w[Fields[i]] = FieldCarries(Fields[i], w)
    BY <1>5, <1>7
  <2>2. PICK new : new = FieldCarries(Fields[m + 1], w)
    OBVIOUS
  <2>3. PICK h : h = [f \in Field |-> IF \E j \in 1 .. m : f = Fields[j] THEN w[f] ELSE new]
    OBVIOUS
  <2>4. \A j \in 1 .. m : h[Fields[j]] = w[Fields[j]]
    BY <1>2, <2>3
  <2>5. ASSUME NEW i \in 1 .. m + 1
        PROVE  FieldCarries(Fields[i], w) = FieldCarries(Fields[i], h)
    <3>1. i \in 1 .. n
      OBVIOUS
    <3>2. \A p \in Parts(Fields[i]) : w[p] = h[p]
      <4> SUFFICES ASSUME NEW p \in Parts(Fields[i]) PROVE w[p] = h[p]
        OBVIOUS
      <4>1. PICK j \in 1 .. i - 1 : p = Fields[j]
        BY <1>4, <3>1
      <4>2. j \in 1 .. m
        OBVIOUS
      <4> QED BY <2>4, <4>1, <4>2
    <3> QED BY <1>2, <3>1, <3>2, CarriesSame
  <2>6. ASSUME NEW i \in 1 .. m + 1 PROVE h[Fields[i]] = FieldCarries(Fields[i], h)
    <3>1. CASE \E j \in 1 .. m : Fields[i] = Fields[j]
      <4>1. PICK j \in 1 .. m : Fields[i] = Fields[j]
        BY <3>1
      <4>2. j \in 1 .. m + 1 /\ h[Fields[j]] = FieldCarries(Fields[j], w)
        BY <2>1, <2>4
      <4> QED BY <2>5, <4>1, <4>2
    <3>2. CASE ~\E j \in 1 .. m : Fields[i] = Fields[j]
      <4>1. i = m + 1 /\ Fields[i] \in Field
        BY <1>2, <3>2
      <4>2. h[Fields[i]] = new
        BY <2>3, <3>2, <4>1
      <4> QED BY <2>2, <2>5, <4>1, <4>2
    <3> QED BY <3>1, <3>2
  <2> QED BY <2>6
<1>8. PICK w : \A i \in 1 .. n : w[Fields[i]] = FieldCarries(Fields[i], w)
  <2>1. n \in S
    BY <1>6, <1>7, Upwards
  <2> QED BY <1>5, <2>1
<1>9. PICK g : g = [f \in Field |-> w[f]]
  OBVIOUS
<1>10. ASSUME NEW f \in Field PROVE g[f] = FieldCarries(f, g)
  <2>1. PICK i \in 1 .. n : f = Fields[i]
    BY <1>3
  <2>2. \A p \in Parts(f) : p \in Field /\ w[p] = g[p]
    BY <1>9, FieldsIn
  <2>3. FieldCarries(f, w) = FieldCarries(f, g)
    BY <2>2, CarriesSame
  <2> QED BY <1>8, <1>9, <2>1, <2>3
<1>11. g = [f \in Field |-> FieldCarries(f, g)]
  BY <1>9, <1>10
<1> QED BY <1>11 DEF Carried

-----------------------------------------------------------------------------
(* What is written: it is refused, or it is chunks.                        *)

IsWrite(w) == w = Refused \/ \E c \in Chunks : w = Written(c)

LEMMA WrittenIs ==
  /\ Refused.err = "refused" /\ Refused.err # "nil"
  /\ \A c : Written(c).err = "nil" /\ Written(c).out = c
  /\ \A w : IsWrite(w) /\ w.err = "nil" => w.out \in Chunks /\ w = Written(w.out)
  /\ \A w : IsWrite(w) /\ w.err # "nil" => w = Refused
<1>1. Refused.err = "refused" /\ Refused.err # "nil"
  BY DEF Refused, ErrFieldType
<1>2. \A c : Written(c).err = "nil" /\ Written(c).out = c
  BY DEF Written
<1>3. \A w : IsWrite(w) /\ w.err = "nil" => w.out \in Chunks /\ w = Written(w.out)
  BY <1>1, <1>2 DEF IsWrite
<1>4. \A w : IsWrite(w) /\ w.err # "nil" => w = Refused
  BY <1>1, <1>2 DEF IsWrite
<1> QED BY <1>1, <1>2, <1>3, <1>4

LEMMA AfterIs ==
  ASSUME NEW a \in Chunks
  PROVE  /\ After(a, Refused) = Refused
         /\ \A c \in Chunks : After(a, Written(c)) = Written(a \o c) /\ IsWrite(Written(a \o c))
         /\ \A w : IsWrite(w) => /\ IsWrite(After(a, w))
                                 /\ After(a, w).err = "nil" <=> w.err = "nil"
<1>1. After(a, Refused) = Refused
  BY WrittenIs DEF After
<1>2. ASSUME NEW c \in Chunks
      PROVE  After(a, Written(c)) = Written(a \o c) /\ IsWrite(Written(a \o c))
  <2>1. After(a, Written(c)) = Written(a \o c)
    BY WrittenIs, Zenon DEF After
  <2>2. a \o c \in Chunks
    BY ChunksConcat, Zenon
  <2> QED BY <2>1, <2>2 DEF IsWrite
<1>3. ASSUME NEW w, IsWrite(w)
      PROVE  IsWrite(After(a, w)) /\ (After(a, w).err = "nil" <=> w.err = "nil")
  <2>1. CASE w = Refused
    BY <1>1, <2>1, WrittenIs DEF IsWrite
  <2>2. CASE \E c \in Chunks : w = Written(c)
    BY <1>2, <2>2, WrittenIs, Zenon
  <2> QED BY <1>3, <2>1, <2>2 DEF IsWrite
<1> QED BY <1>1, <1>2, <1>3

LEMMA SizedIs ==
  /\ Sized(Refused) = Refused
  /\ \A c \in Chunks : /\ Number(4, Size(c)) \in Chunks
                       /\ Sized(Written(c)) = Written(Number(4, Size(c)) \o c)
  /\ \A w : IsWrite(w) => IsWrite(Sized(w)) /\ (Sized(w).err = "nil" <=> w.err = "nil")
<1>1. Sized(Refused) = Refused
  BY WrittenIs DEF Sized, After
<1>2. ASSUME NEW c \in Chunks
      PROVE  /\ Number(4, Size(c)) \in Chunks
             /\ Sized(Written(c)) = Written(Number(4, Size(c)) \o c)
             /\ IsWrite(Sized(Written(c))) /\ Sized(Written(c)).err = "nil"
  <2>1. 4 \in Nat \ {0} /\ Size(c) \in Int
    BY SizeIs
  <2>2. Number(4, Size(c)) \in Chunks
    BY <2>1, PiecesIn, Zenon
  <2>3. Sized(Written(c)) = After(Number(4, Size(c)), Written(c))
    BY WrittenIs, Zenon DEF Sized
  <2>4. /\ Sized(Written(c)) = Written(Number(4, Size(c)) \o c)
        /\ IsWrite(Written(Number(4, Size(c)) \o c))
    BY <2>2, <2>3, AfterIs, Zenon
  <2> QED BY <2>2, <2>4, WrittenIs, Zenon
<1>3. ASSUME NEW w, IsWrite(w)
      PROVE  IsWrite(Sized(w)) /\ (Sized(w).err = "nil" <=> w.err = "nil")
  <2>1. CASE w = Refused
    BY <1>1, <2>1, WrittenIs DEF IsWrite
  <2>2. CASE \E c \in Chunks : w = Written(c)
    BY <1>2, <2>2, WrittenIs, Zenon
  <2> QED BY <1>3, <2>1, <2>2 DEF IsWrite
<1> QED BY <1>1, <1>2, <1>3

LEMMA WriteAllIs ==
  ASSUME NEW n \in Nat, NEW writes, DOMAIN writes = 1 .. n,
         \A i \in 1 .. n : IsWrite(writes[i]),
         NEW outs, outs = [i \in 1 .. n |-> writes[i].out]
  PROVE  /\ IsWrite(WriteAll(writes))
         /\ WriteAll(writes).err = "nil" <=> \A i \in 1 .. n : writes[i].err = "nil"
         /\ (\A i \in 1 .. n : writes[i].err = "nil") =>
              /\ outs \in Seq(Chunks) /\ Len(outs) = n /\ Joined(outs) \in Chunks
              /\ \A i \in 1 .. n : outs[i] = writes[i].out /\ writes[i] = Written(outs[i])
              /\ WriteAll(writes) = Written(Joined(outs))
<1>1. CASE \E i \in 1 .. n : writes[i].err # "nil"
  <2>1. WriteAll(writes) = Refused
    BY <1>1 DEF WriteAll
  <2> QED BY <1>1, <2>1, WrittenIs DEF IsWrite
<1>2. CASE \A i \in 1 .. n : writes[i].err = "nil"
  <2>1. \A i \in 1 .. n : writes[i].out \in Chunks /\ writes[i] = Written(writes[i].out)
    BY <1>2, WrittenIs
  <2>2. \A i \in 1 .. n : outs[i] = writes[i].out /\ outs[i] \in Chunks
    BY <2>1
  <2>3. outs = [i \in 1 .. n |-> outs[i]]
    BY <2>2
  <2>4. outs \in Seq(Chunks) /\ Len(outs) = n
    BY <2>2, <2>3, SeqOn
  <2>5. Joined(outs) \in Chunks
    BY <2>4, JoinedIs
  <2>6. outs = [i \in DOMAIN writes |-> writes[i].out]
    OBVIOUS
  <2>7. WriteAll(writes) = Written(Joined(outs))
    BY <1>2, <2>6 DEF WriteAll
  <2>8. IsWrite(WriteAll(writes)) /\ WriteAll(writes).err = "nil"
    BY <2>5, <2>7, WrittenIs DEF IsWrite
  <2> QED BY <1>2, <2>1, <2>2, <2>4, <2>5, <2>7, <2>8, Zenon
<1> QED BY <1>1, <1>2

LEMMA OneOfEachIs ==
  ASSUME NEW sets, NEW c \in OneOfEach(sets)
  PROVE  DOMAIN c = DOMAIN sets /\ c = [x \in DOMAIN sets |-> c[x]]
         /\ \A x \in DOMAIN sets : c[x] \in sets[x]
BY DEF OneOfEach

(* range goes through every key of a map, once. *)
LEMMA SetToSeqsIs ==
  ASSUME NEW D, IsFiniteSet(D), NEW order \in SetToSeqs(D)
  PROVE  \E n \in Nat : /\ DOMAIN order = 1 .. n
                        /\ \A i \in 1 .. n : order[i] \in D
                        /\ \A k \in D : \E i \in 1 .. n : order[i] = k
<1>1. PICK n \in Nat : n = Cardinality(D)
  BY FS_CardinalityType
<1>2. order \in [1 .. n -> D] /\ \A i, j \in 1 .. n : i # j => order[i] # order[j]
  BY <1>1 DEF SetToSeqs
<1>3. PICK R : R = {order[i] : i \in 1 .. n}
  OBVIOUS
<1>4. R \subseteq D
  BY <1>2, <1>3
<1>5. order \in Surjection(1 .. n, R)
  BY <1>2, <1>3 DEF Surjection
<1>6. order \in Bijection(1 .. n, R)
  BY <1>2, <1>3, <1>5 DEF Bijection, Injection, IsInjective, Surjection
<1>7. Cardinality(R) = n
  BY <1>6, FS_CountingElements DEF ExistsBijection
<1>8. R = D
  BY <1>1, <1>4, <1>7, FS_Subset
<1> QED BY <1>2, <1>3, <1>8

(* w is the way to write an array whose elements were written as ws.       *)
IsArrayWrite(sets, w, n, ws) ==
  /\ \A i \in 1 .. n : ws[i] \in sets[i]
  /\ w.err = "nil" <=> \A i \in 1 .. n : ws[i].err = "nil"
  /\ w.err = "nil" => \E outs \in Seq(Chunks) :
       /\ Len(outs) = n
       /\ \A i \in 1 .. n : outs[i] = ws[i].out /\ ws[i] = Written(outs[i])
       /\ w = Written(Number(4, Size(Joined(outs))) \o Joined(outs))

LEMMA ArrayWritesIs ==
  ASSUME NEW n \in Nat, NEW sets, DOMAIN sets = 1 .. n,
         \A i \in 1 .. n : \A x \in sets[i] : IsWrite(x),
         NEW w \in ArrayWrites(sets)
  PROVE  /\ IsWrite(w)
         /\ \E ws : IsArrayWrite(sets, w, n, ws)
<1>1. PICK ws \in OneOfEach(sets) : w = Sized(WriteAll(ws))
  BY DEF ArrayWrites
<1>2. DOMAIN ws = 1 .. n /\ \A i \in 1 .. n : ws[i] \in sets[i] /\ IsWrite(ws[i])
  BY OneOfEachIs
<1>3. PICK outs : outs = [i \in 1 .. n |-> ws[i].out]
  OBVIOUS
<1>4. PICK all : all = WriteAll(ws)
  OBVIOUS
<1>5. /\ IsWrite(all)
      /\ all.err = "nil" <=> \A i \in 1 .. n : ws[i].err = "nil"
      /\ (\A i \in 1 .. n : ws[i].err = "nil") =>
           /\ outs \in Seq(Chunks) /\ Len(outs) = n /\ Joined(outs) \in Chunks
           /\ \A i \in 1 .. n : outs[i] = ws[i].out /\ ws[i] = Written(outs[i])
           /\ all = Written(Joined(outs))
  BY <1>2, <1>3, <1>4, WriteAllIs
<1>6. IsWrite(w) /\ (w.err = "nil" <=> all.err = "nil")
  BY <1>1, <1>4, <1>5, SizedIs
<1>7. ASSUME w.err = "nil"
      PROVE  /\ outs \in Seq(Chunks) /\ Len(outs) = n
             /\ \A i \in 1 .. n : outs[i] = ws[i].out /\ ws[i] = Written(outs[i])
             /\ w = Written(Number(4, Size(Joined(outs))) \o Joined(outs))
  BY <1>1, <1>4, <1>5, <1>6, <1>7, SizedIs
<1>8. IsArrayWrite(sets, w, n, ws)
  BY <1>2, <1>5, <1>6, <1>7 DEF IsArrayWrite
<1> QED BY <1>6, <1>8, Zenon

(* w is one way to write the entries of t, in an order, ws of the fields.  *)
IsTableWrite(t, sets, w, n, order, ws) ==
  /\ \A i \in 1 .. n : order[i] \in DOMAIN t /\ ws[i] \in sets[order[i]]
  /\ \A k \in DOMAIN t : \E i \in 1 .. n : order[i] = k
  /\ w.err = "nil" <=> \A i \in 1 .. n : ws[i].err = "nil"
  /\ w.err = "nil" => \E outs \in Seq(Chunks) :
       /\ Len(outs) = n
       /\ \A i \in 1 .. n :
            /\ ws[i].out \in Chunks /\ ws[i] = Written(ws[i].out)
            /\ outs[i] = writeShortstr(order[i]) \o ws[i].out
       /\ w = Written(Number(4, Size(Joined(outs))) \o Joined(outs))

LEMMA TableWritesIs ==
  ASSUME NEW t, IsTable(t), NEW sets, DOMAIN sets = DOMAIN t,
         \A k \in DOMAIN t : \A x \in sets[k] : IsWrite(x),
         NEW w \in TableWrites(t, sets)
  PROVE  /\ IsWrite(w)
         /\ \E n \in Nat : \E order, ws : IsTableWrite(t, sets, w, n, order, ws)
<1>1. PICK order \in SetToSeqs(DOMAIN t), writes \in OneOfEach(sets) :
             w = Sized(WriteAll(EntryWrites(order, writes)))
  BY DEF TableWrites
<1>2. IsFiniteSet(DOMAIN t) /\ DOMAIN t \subseteq String
  BY DEF IsTable
<1>3. PICK n \in Nat : /\ DOMAIN order = 1 .. n
                       /\ \A i \in 1 .. n : order[i] \in DOMAIN t
                       /\ \A k \in DOMAIN t : \E i \in 1 .. n : order[i] = k
  BY <1>2, SetToSeqsIs
<1>4. PICK ws : ws = [i \in 1 .. n |-> writes[order[i]]]
  OBVIOUS
<1>5. \A i \in 1 .. n : ws[i] = writes[order[i]] /\ ws[i] \in sets[order[i]] /\ IsWrite(ws[i])
  BY <1>3, <1>4, OneOfEachIs
<1>6. PICK es : es = EntryWrites(order, writes)
  OBVIOUS
<1>7. DOMAIN es = 1 .. n /\ \A i \in 1 .. n : es[i] = After(writeShortstr(order[i]), ws[i])
  BY <1>3, <1>5, <1>6 DEF EntryWrites
<1>8. \A i \in 1 .. n : writeShortstr(order[i]) \in Chunks
  BY <1>2, <1>3, ReadShortstrIs, ChunksConcat
<1>9. \A i \in 1 .. n : IsWrite(es[i]) /\ (es[i].err = "nil" <=> ws[i].err = "nil")
  BY <1>5, <1>7, <1>8, AfterIs
<1>10. PICK outs : outs = [i \in 1 .. n |-> es[i].out]
  OBVIOUS
<1>11. PICK all : all = WriteAll(es)
  OBVIOUS
<1>12. /\ IsWrite(all)
       /\ all.err = "nil" <=> \A i \in 1 .. n : es[i].err = "nil"
       /\ (\A i \in 1 .. n : es[i].err = "nil") =>
            /\ outs \in Seq(Chunks) /\ Len(outs) = n /\ Joined(outs) \in Chunks
            /\ \A i \in 1 .. n : outs[i] = es[i].out /\ es[i] = Written(outs[i])
            /\ all = Written(Joined(outs))
  BY <1>7, <1>9, <1>10, <1>11, WriteAllIs
<1>13. IsWrite(w) /\ (w.err = "nil" <=> all.err = "nil")
  BY <1>1, <1>6, <1>11, <1>12, SizedIs
<1>14. w.err = "nil" <=> \A i \in 1 .. n : ws[i].err = "nil"
  BY <1>9, <1>12, <1>13
<1>15. ASSUME w.err = "nil"
       PROVE  /\ outs \in Seq(Chunks) /\ Len(outs) = n
              /\ w = Written(Number(4, Size(Joined(outs))) \o Joined(outs))
  BY <1>1, <1>6, <1>11, <1>12, <1>13, <1>15, SizedIs
<1>16. ASSUME w.err = "nil", NEW i \in 1 .. n
       PROVE  /\ ws[i].out \in Chunks /\ ws[i] = Written(ws[i].out)
              /\ outs[i] = writeShortstr(order[i]) \o ws[i].out
  <2>1. ws[i].out \in Chunks /\ ws[i] = Written(ws[i].out)
    BY <1>5, <1>14, <1>16, WrittenIs
  <2>2. After(writeShortstr(order[i]), Written(ws[i].out)) =
          Written(writeShortstr(order[i]) \o ws[i].out)
    BY <1>8, <2>1, AfterIs, Zenon
  <2>3. es[i] = Written(writeShortstr(order[i]) \o ws[i].out)
    BY <1>7, <2>1, <2>2, Zenon
  <2>4. outs[i] = es[i].out
    BY <1>10
  <2> QED BY <2>1, <2>3, <2>4, WrittenIs, Zenon
<1>17. ASSUME w.err = "nil"
       PROVE  \E s \in Seq(Chunks) :
                /\ Len(s) = n
                /\ \A i \in 1 .. n :
                     /\ ws[i].out \in Chunks /\ ws[i] = Written(ws[i].out)
                     /\ s[i] = writeShortstr(order[i]) \o ws[i].out
                /\ w = Written(Number(4, Size(Joined(s))) \o Joined(s))
  BY <1>15, <1>16, <1>17
<1>18. /\ \A i \in 1 .. n : order[i] \in DOMAIN t /\ ws[i] \in sets[order[i]]
       /\ \A k \in DOMAIN t : \E i \in 1 .. n : order[i] = k
  BY <1>3, <1>5
<1>19. IsTableWrite(t, sets, w, n, order, ws)
  BY <1>14, <1>17, <1>18, Zenon DEF IsTableWrite
<1> QED BY <1>13, <1>19, Zenon

(* A field is written, as something, exactly if Validate has no fault to   *)
(* find in it.                                                             *)
IsFieldWrite(f, w) ==
  /\ IsWrite(w) /\ (w.err = "nil" <=> validateField[f])
  /\ w.err = "nil" => Len(w.out) > 0

LEMMA TableWritten ==
  ASSUME NEW t, IsTable(t), Range(t) \subseteq Field,
         \A k \in DOMAIN t : \A x \in writeField[t[k]] : IsFieldWrite(t[k], x),
         NEW w \in writeTable(t)
  PROVE  IsWrite(w) /\ (w.err = "nil" <=> Validate(t))
<1>1. PICK sets : sets = Inside(t, writeField)
  OBVIOUS
<1>2. DOMAIN sets = DOMAIN t /\ \A k \in DOMAIN t : sets[k] = writeField[t[k]]
  BY <1>1 DEF Inside
<1>3. w \in TableWrites(t, sets)
  BY <1>1 DEF writeTable
<1>4. \A k \in DOMAIN t : \A x \in sets[k] : IsWrite(x) /\ (x.err = "nil" <=> validateField[t[k]])
  BY <1>2 DEF IsFieldWrite
<1>5. IsWrite(w) /\ \E n \in Nat : \E order, ws : IsTableWrite(t, sets, w, n, order, ws)
  BY <1>2, <1>3, <1>4, TableWritesIs
<1>6. PICK n \in Nat : \E order, ws : IsTableWrite(t, sets, w, n, order, ws)
  BY <1>5
<1>7. PICK order, ws : IsTableWrite(t, sets, w, n, order, ws)
  BY <1>6
<1>8. /\ \A i \in 1 .. n : order[i] \in DOMAIN t /\ ws[i] \in sets[order[i]]
      /\ \A k \in DOMAIN t : \E i \in 1 .. n : order[i] = k
      /\ w.err = "nil" <=> \A i \in 1 .. n : ws[i].err = "nil"
  BY <1>7 DEF IsTableWrite
<1>9. \A i \in 1 .. n : ws[i].err = "nil" <=> validateField[t[order[i]]]
  BY <1>4, <1>8
<1> QED BY <1>5, <1>8, <1>9 DEF Validate

LEMMA FieldWritten ==
  ASSUME NEW f \in Field, \A p \in Parts(f) : \A x \in writeField[p] : IsFieldWrite(p, x),
         NEW w \in writeField[f]
  PROVE  IsFieldWrite(f, w)
<1>1. writeField[f] = FieldWrites(f, writeField) /\ (validateField[f] <=> FieldValid(f, validateField))
  BY writeFieldIs, validateFieldIs, Zenon
<1>2. IsField(f) /\ Parts(f) \subseteq Field
  BY FieldsIn
<1>3. CASE f[1] \in DOMAIN Plain
  <2>1. FieldWrites(f, writeField) = {Written(writePlain(f[1], f[2]))}
    <3>1. f[1] # "Table" /\ f[1] # "array"
      BY <1>3 DEF Plain
    <3> QED BY <1>3, <3>1 DEF FieldWrites
  <2>2. w = Written(writePlain(f[1], f[2])) /\ validateField[f]
    BY <1>1, <1>3, <2>1 DEF FieldValid
  <2>3. f[2] \in Plain[f[1]]
    BY <1>2, <1>3 DEF IsField
  <2>4. writePlain(f[1], f[2]) \in Chunks /\ Len(writePlain(f[1], f[2])) > 0
    BY <1>3, <2>3, PlainRead
  <2> QED BY <2>2, <2>4, WrittenIs DEF IsFieldWrite, IsWrite
<1>4. CASE f[1] \notin DOMAIN Plain /\ f[1] = "Table"
  <2>1. PICK t : t = f[2]
    OBVIOUS
  <2>2. IsTable(t) /\ Range(t) = Parts(f)
    BY <1>2, <1>4, <2>1 DEF IsField, Parts
  <2>3. \A k \in DOMAIN t : t[k] \in Parts(f)
    BY <2>2 DEF Range
  <2>4. PICK x \in writeTable(t) : w = After(Letter("F"), x)
    BY <1>1, <1>4, <2>1 DEF FieldWrites, writeTable
  <2>5. IsWrite(x) /\ (x.err = "nil" <=> Validate(t))
    BY <1>2, <2>2, <2>3, TableWritten
  <2>6. validateField[f] <=> Validate(t)
    BY <1>1, <1>4, <2>1 DEF FieldValid, Validate
  <2>7. Letter("F") \in Chunks /\ \A c \in Chunks : Len(Letter("F") \o c) > 0
    <3>1. "F" \in Tag
      BY DEF Tag
    <3>2. Letter("F") \in Chunks
      BY <3>1, PiecesIn
    <3>3. \A c \in Chunks : Len(Letter("F") \o c) = Len(c) + 1 /\ Len(c) \in Nat
      BY <3>1, AfterLetter, ChunksConcat
    <3> QED BY <3>2, <3>3
  <2>8. IsWrite(w) /\ (w.err = "nil" <=> x.err = "nil")
    BY <2>4, <2>5, <2>7, AfterIs
  <2>9. ASSUME w.err = "nil" PROVE Len(w.out) > 0
    <3>1. x.out \in Chunks /\ x = Written(x.out)
      BY <2>5, <2>8, <2>9, WrittenIs
    <3>2. w = Written(Letter("F") \o x.out)
      BY <2>4, <2>7, <3>1, AfterIs, Zenon
    <3> QED BY <2>7, <3>1, <3>2, WrittenIs, Zenon
  <2> QED BY <2>5, <2>6, <2>8, <2>9 DEF IsFieldWrite
<1>5. CASE f[1] \notin DOMAIN Plain /\ f[1] = "array"
  <2>1. PICK a : a = f[2]
    OBVIOUS
  <2>2. a \in Seq(Range(a)) /\ Range(a) = Parts(f)
    BY <1>2, <1>5, <2>1 DEF IsField, Parts
  <2>3. PICK n \in Nat : n = Len(a) /\ DOMAIN a = 1 .. n
    BY <2>2, SeqIs
  <2>4. \A k \in 1 .. n : a[k] \in Parts(f)
    BY <2>2, <2>3 DEF Range
  <2>5. PICK sets : sets = Inside(a, writeField)
    OBVIOUS
  <2>6. DOMAIN sets = 1 .. n /\ \A k \in 1 .. n : sets[k] = writeField[a[k]]
    BY <2>3, <2>5 DEF Inside
  <2>7. PICK x \in ArrayWrites(sets) : w = After(Letter("A"), x)
    BY <1>1, <1>5, <2>1, <2>5 DEF FieldWrites
  <2>8. \A k \in 1 .. n : \A y \in sets[k] : IsWrite(y) /\ (y.err = "nil" <=> validateField[a[k]])
    BY <2>4, <2>6 DEF IsFieldWrite
  <2>9. IsWrite(x) /\ \E ws : IsArrayWrite(sets, x, n, ws)
    BY <2>6, <2>8, ArrayWritesIs
  <2>10. x.err = "nil" <=> \A k \in 1 .. n : validateField[a[k]]
    BY <2>8, <2>9 DEF IsArrayWrite
  <2>11. validateField[f] <=> \A k \in 1 .. n : validateField[a[k]]
    BY <1>1, <1>5, <2>1, <2>3 DEF FieldValid
  <2>12. Letter("A") \in Chunks /\ \A c \in Chunks : Len(Letter("A") \o c) > 0
    <3>1. "A" \in Tag
      BY DEF Tag
    <3>2. Letter("A") \in Chunks
      BY <3>1, PiecesIn
    <3>3. \A c \in Chunks : Len(Letter("A") \o c) = Len(c) + 1 /\ Len(c) \in Nat
      BY <3>1, AfterLetter, ChunksConcat
    <3> QED BY <3>2, <3>3
  <2>13. IsWrite(w) /\ (w.err = "nil" <=> x.err = "nil")
    BY <2>7, <2>9, <2>12, AfterIs
  <2>14. ASSUME w.err = "nil" PROVE Len(w.out) > 0
    <3>1. x.out \in Chunks /\ x = Written(x.out)
      BY <2>9, <2>13, <2>14, WrittenIs
    <3>2. w = Written(Letter("A") \o x.out)
      BY <2>7, <2>12, <3>1, AfterIs, Zenon
    <3> QED BY <2>12, <3>1, <3>2, WrittenIs, Zenon
  <2> QED BY <2>10, <2>11, <2>13, <2>14 DEF IsFieldWrite
<1>6. CASE f[1] \notin DOMAIN Plain \cup {"Table", "array"}
  <2>1. w = Refused /\ ~validateField[f]
    BY <1>1, <1>6 DEF FieldWrites, FieldValid
  <2> QED BY <2>1, WrittenIs DEF IsFieldWrite, IsWrite
<1> QED BY <1>3, <1>4, <1>5, <1>6

LEMMA AllWritten ==
  \A f \in Field : \A w \in writeField[f] : IsFieldWrite(f, w)
<1>1. PICK n \in Nat : n = Len(Fields)
  BY FieldsIn
<1>2. PICK S : S = {m \in Nat : \A i \in 1 .. n : i <= m =>
                      \A w \in writeField[Fields[i]] : IsFieldWrite(Fields[i], w)}
  OBVIOUS
<1>3. 0 \in S
  BY <1>2
<1>4. ASSUME NEW m \in Nat, m \in S PROVE m + 1 \in S
  <2> SUFFICES ASSUME NEW i \in 1 .. n, i = m + 1, NEW w \in writeField[Fields[i]]
               PROVE  IsFieldWrite(Fields[i], w)
    BY <1>2, <1>4
  <2>1. ASSUME NEW p \in Parts(Fields[i]), NEW x \in writeField[p] PROVE IsFieldWrite(p, x)
    <3>1. PICK j \in 1 .. i - 1 : p = Fields[j]
      BY <1>1, FieldsIn
    <3>2. j \in 1 .. n /\ j <= m
      OBVIOUS
    <3> QED BY <1>2, <1>4, <2>1, <3>1, <3>2
  <2>2. Fields[i] \in Field
    BY <1>1, FieldsIn
  <2> QED BY <2>1, <2>2, FieldWritten
<1>5. \A m \in Nat : m \in S
  BY <1>3, <1>4, Upwards
<1>6. n \in S
  BY <1>5
<1>7. \A f \in Field : \E i \in 1 .. n : f = Fields[i]
  BY <1>1, FieldsIn
<1> QED BY <1>2, <1>6, <1>7

LEMMA TablesWritten ==
  ASSUME NEW t, IsTable(t), Range(t) \subseteq Field, NEW w \in writeTable(t)
  PROVE  IsWrite(w) /\ (w.err = "nil" <=> Validate(t))
<1>1. \A k \in DOMAIN t : t[k] \in Field
  BY DEF Range
<1> QED BY <1>1, AllWritten, TableWritten

-----------------------------------------------------------------------------
(* Reading an array, whose elements are read one by one.                   *)

(* There are as many chunks as there are sequences, or more.               *)
LEMMA JoinedLen ==
  ASSUME NEW ss \in Seq(Chunks), NEW n \in Nat, n = Len(ss),
         \A i \in 1 .. n : Len(ss[i]) > 0
  PROVE  /\ Len(Joined(ss)) \in Nat /\ Len(Joined(ss)) >= n
         /\ \A i \in 1 .. n : Len(ss[i]) \in Nat /\ Len(ss[i]) <= Len(Joined(ss))
<1>1. PICK from : from = JoinedFrom(ss)
  OBVIOUS
<1>2. \A k \in 1 .. n : ss[k] \in Chunks /\ Len(ss[k]) \in Nat
  BY SeqIs, ChunksConcat
<1>3. from[n + 1] = <<>> /\ \A k \in 1 .. n + 1 : from[k] \in Chunks /\ Len(from[k]) \in Nat
  BY <1>1, JoinedFromOf, ChunksConcat
<1>4. ASSUME NEW k \in 1 .. n PROVE Len(from[k]) = Len(ss[k]) + Len(from[k + 1])
  <2>1. from[k] = ss[k] \o from[k + 1]
    BY <1>1, JoinedFromOf
  <2>2. ss[k] \in Chunks /\ from[k + 1] \in Chunks
    BY <1>2, <1>3
  <2> QED BY <2>1, <2>2, ChunksConcat, Zenon
<1>5. PICK S : S = {k \in 1 .. n + 1 : /\ Len(from[k]) >= n + 1 - k
                                      /\ \A i \in k .. n : Len(ss[i]) <= Len(from[k])}
  OBVIOUS
<1>6. n + 1 \in S
  <2>1. Len(from[n + 1]) = 0
    BY <1>3, EmptySeq
  <2> QED BY <1>5, <2>1
<1>7. ASSUME NEW k \in 1 .. n, k + 1 \in S PROVE k \in S
  <2>1. PICK a \in Nat : a = Len(ss[k]) /\ a > 0
    BY <1>2
  <2>2. PICK b \in Nat : b = Len(from[k + 1])
    BY <1>3
  <2>3. Len(from[k]) = a + b
    BY <1>4, <2>1, <2>2
  <2>4. k \in 1 .. n + 1
    OBVIOUS
  <2>5. b >= n + 1 - (k + 1) /\ \A i \in k + 1 .. n : Len(ss[i]) <= b
    BY <1>5, <1>7, <2>2
  <2>6. Len(from[k]) >= n + 1 - k
    BY <2>3, <2>1, <2>5
  <2>7. ASSUME NEW i \in k .. n PROVE Len(ss[i]) <= Len(from[k])
    <3>1. CASE i = k
      BY <2>3, <2>1, <3>1
    <3>2. CASE i # k
      <4>1. PICK c \in Nat : c = Len(ss[i])
        BY <1>2
      <4>2. i \in k + 1 .. n
        BY <3>2
      <4>3. c <= b
        BY <2>5, <4>1, <4>2
      <4>4. c <= a + b
        BY <2>1, <4>3
      <4> QED BY <2>3, <4>1, <4>4
    <3> QED BY <3>1, <3>2
  <2> QED BY <1>5, <2>4, <2>6, <2>7
<1>8. \A k \in 1 .. n + 1 : k \in S
  BY <1>6, <1>7, Downwards
<1>9. 1 \in S
  BY <1>8
<1>10. Joined(ss) = from[1]
  BY <1>1 DEF Joined
<1> QED BY <1>2, <1>3, <1>5, <1>9, <1>10

(* A table or an array that fits into a frame has fields that fit as well. *)
Fits(c) == Size(c) <= MaxLength

LEMMA PartsFit ==
  ASSUME NEW a \in Chunks, NEW b \in Chunks, Fits(a \o b)
  PROVE  Fits(a) /\ Fits(b)
<1>1. PICK x \in Nat, y \in Nat : x = Size(a) /\ y = Size(b)
  BY SizeIs
<1>2. PICK m \in Nat : m = MaxLength
  BY MaxLengthIs
<1>3. x + y <= m
  BY <1>1, <1>2, SizeConcat DEF Fits
<1>4. x <= m /\ y <= m
  BY <1>3
<1> QED BY <1>1, <1>2, <1>4 DEF Fits

LEMMA JoinedFits ==
  ASSUME NEW ss \in Seq(Chunks), NEW n \in Nat, n = Len(ss), Fits(Joined(ss))
  PROVE  \A i \in 1 .. n : Fits(ss[i])
<1>1. PICK from : from = JoinedFrom(ss)
  OBVIOUS
<1>2. \A k \in 1 .. n : ss[k] \in Chunks
  BY SeqIs
<1>3. \A k \in 1 .. n + 1 : from[k] \in Chunks
  BY <1>1, JoinedFromOf
<1>4. ASSUME NEW k \in 1 .. n, Fits(from[k]) PROVE Fits(ss[k]) /\ Fits(from[k + 1])
  <2>1. from[k] = ss[k] \o from[k + 1]
    BY <1>1, JoinedFromOf
  <2>2. ss[k] \in Chunks /\ from[k + 1] \in Chunks
    BY <1>2, <1>3
  <2>3. Fits(ss[k] \o from[k + 1])
    BY <1>4, <2>1
  <2> QED BY <2>2, <2>3, PartsFit
<1>5. PICK S : S = {k \in Nat : k < n + 1 => Fits(from[k + 1])}
  OBVIOUS
<1>6. 0 \in S
  <2>1. Fits(from[1])
    BY <1>1 DEF Joined
  <2> QED BY <1>5, <2>1
<1>7. ASSUME NEW k \in Nat, k \in S PROVE k + 1 \in S
  <2> SUFFICES ASSUME k + 1 < n + 1 PROVE Fits(from[(k + 1) + 1])
    BY <1>5
  <2>1. k + 1 \in 1 .. n /\ k < n + 1
    OBVIOUS
  <2>2. Fits(from[k + 1])
    BY <1>5, <1>7, <2>1
  <2> QED BY <1>4, <2>1, <2>2
<1>8. \A k \in Nat : k \in S
  BY <1>6, <1>7, Upwards
<1>9. ASSUME NEW i \in 1 .. n PROVE Fits(ss[i])
  <2>1. i - 1 \in Nat /\ i - 1 < n + 1 /\ (i - 1) + 1 = i
    OBVIOUS
  <2>2. i - 1 \in S
    BY <1>8, <2>1
  <2>3. Fits(from[i])
    BY <1>5, <2>1, <2>2
  <2> QED BY <1>4, <2>3
<1> QED BY <1>9

LEMMA OkIs ==
  ASSUME NEW v, NEW s
  PROVE  Ok(v, s).err = "nil" /\ Ok(v, s).v = v /\ Ok(v, s).rest = s
BY DEF Ok

LEMMA NextElementIs ==
  ASSUME NEW a, NEW r, NEW read, NEW v, NEW s, read[r] = Ok(v, s)
  PROVE  NextElement(Ok(a, r), read) = Ok(Append(a, v), s)
<1>1. PICK arr : arr = Ok(a, r)
  OBVIOUS
<1>2. arr.err = "nil" /\ arr.rest = r /\ arr.v = a
  BY <1>1, OkIs
<1>3. read[arr.rest].err = "nil" /\ read[arr.rest].v = v /\ read[arr.rest].rest = s
  BY <1>2, OkIs
<1>4. NextElement(arr, read) = Ok(Append(a, v), s)
  BY <1>2, <1>3, Zenon DEF NextElement
<1> QED BY <1>1, <1>4

LEMMA PrefixAppend ==
  ASSUME NEW V, NEW n \in Nat, NEW vs, \A i \in 1 .. n + 1 : vs[i] \in V
  PROVE  Append([i \in 1 .. n |-> vs[i]], vs[n + 1]) = [i \in 1 .. n + 1 |-> vs[i]]
<1>1. PICK a : a = [i \in 1 .. n |-> vs[i]]
  OBVIOUS
<1>2. PICK b : b = [i \in 1 .. n + 1 |-> vs[i]]
  OBVIOUS
<1>3. a \in Seq(V) /\ Len(a) = n /\ \A i \in 1 .. n : a[i] = vs[i]
  <2>1. \A i \in 1 .. n : a[i] = vs[i] /\ vs[i] \in V
    BY <1>1
  <2>2. a = [i \in 1 .. n |-> a[i]]
    BY <1>1
  <2> QED BY <2>1, <2>2, SeqOn
<1>4. b \in Seq(V) /\ Len(b) = n + 1 /\ \A i \in 1 .. n + 1 : b[i] = vs[i]
  <2>1. \A i \in 1 .. n + 1 : b[i] = vs[i] /\ vs[i] \in V
    BY <1>2
  <2>2. b = [i \in 1 .. n + 1 |-> b[i]]
    BY <1>2
  <2> QED BY <2>1, <2>2, SeqOn
<1>5. PICK c : c = Append(a, vs[n + 1])
  OBVIOUS
<1>6. vs[n + 1] \in V
  OBVIOUS
<1>7. c \in Seq(V) /\ Len(c) = n + 1 /\ c[n + 1] = vs[n + 1] /\ \A i \in 1 .. n : c[i] = a[i]
  BY <1>3, <1>5, <1>6, AppendProperties
<1>8. ASSUME NEW i \in 1 .. n + 1 PROVE c[i] = b[i]
  <2>1. CASE i = n + 1
    BY <1>4, <1>7, <2>1
  <2>2. CASE i # n + 1
    BY <1>3, <1>4, <1>7, <2>2
  <2> QED BY <2>1, <2>2
<1>9. c = b
  BY <1>4, <1>7, <1>8, SeqEqual
<1> QED BY <1>1, <1>2, <1>5, <1>9

(* What is at the beginning is read as v, whatever follows it.             *)
ReadsTo(read, c, v) == \A s \in Chunks : read[c \o s] = Ok(v, s)
IsList(vs, n) == vs = [i \in 1 .. n |-> vs[i]]

LEMMA ReadElementsIs ==
  ASSUME NEW n \in Nat, NEW outs \in Seq(Chunks), Len(outs) = n,
         \A i \in 1 .. n : Len(outs[i]) > 0, NEW read,
         NEW vs, IsList(vs, n), \A i \in 1 .. n : ReadsTo(read, outs[i], vs[i]),
         read[<<>>] = Failed("EOF", <<>>)
  PROVE  ReadElements(Joined(outs), read) = Ok(vs, <<>>)
<1>1. PICK V : \A i \in 1 .. n : vs[i] \in V
  <2>1. \A i \in 1 .. n : vs[i] \in {vs[j] : j \in 1 .. n}
    OBVIOUS
  <2> QED BY <2>1
<1>2. PICK from : from = JoinedFrom(outs)
  OBVIOUS
<1>3. PICK lim : lim = Joined(outs) /\ lim = from[1]
  BY <1>2 DEF Joined
<1>4. PICK l \in Nat : l = Len(lim) /\ l >= n
  BY <1>3, JoinedLen
<1>5. PICK turn : turn = ElementsRead(lim, read)
  OBVIOUS
<1>6. turn = [i \in 0 .. l + 1 |-> IF i = 0 THEN Ok(<<>>, lim) ELSE NextElement(turn[i - 1], read)]
  BY <1>4, <1>5, ElementsReadIs
<1>7. turn[0] = Ok(<<>>, lim) /\ \A i \in 0 .. l : turn[i + 1] = NextElement(turn[i], read)
  <2>1. turn[0] = Ok(<<>>, lim)
    BY <1>6
  <2>2. ASSUME NEW i \in 0 .. l PROVE turn[i + 1] = NextElement(turn[i], read)
    <3>1. i + 1 \in 0 .. l + 1 /\ i + 1 # 0 /\ (i + 1) - 1 = i
      OBVIOUS
    <3> QED BY <1>6, <3>1
  <2> QED BY <2>1, <2>2
<1>8. PICK S : S = {i \in Nat : i <= n => turn[i] = Ok([j \in 1 .. i |-> vs[j]], from[i + 1])}
  OBVIOUS
<1>9. \A i \in Nat : i \in S
  <2>1. 0 \in S
    <3>1. <<>> = [j \in 1 .. 0 |-> vs[j]]
      OBVIOUS
    <3> QED BY <1>3, <1>7, <1>8, <3>1
  <2>2. ASSUME NEW i \in Nat, i \in S PROVE i + 1 \in S
    <3> SUFFICES ASSUME i + 1 <= n
                 PROVE  turn[i + 1] = Ok([j \in 1 .. i + 1 |-> vs[j]], from[(i + 1) + 1])
      BY <1>8
    <3>1. turn[i] = Ok([j \in 1 .. i |-> vs[j]], from[i + 1])
      BY <1>8, <2>2
    <3>2. i + 1 \in 1 .. n /\ i \in 0 .. l
      BY <1>4
    <3>3. from[i + 1] = outs[i + 1] \o from[(i + 1) + 1] /\ from[(i + 1) + 1] \in Chunks
      BY <1>2, <3>2, JoinedNext
    <3>4. read[from[i + 1]] = Ok(vs[i + 1], from[(i + 1) + 1])
      <4>1. ReadsTo(read, outs[i + 1], vs[i + 1])
        BY <3>2
      <4> QED BY <3>3, <4>1 DEF ReadsTo
    <3>5. PICK a : a = [j \in 1 .. i |-> vs[j]]
      OBVIOUS
    <3>6. NextElement(Ok(a, from[i + 1]), read) = Ok(Append(a, vs[i + 1]), from[(i + 1) + 1])
      BY <3>4, NextElementIs
    <3>7. Append(a, vs[i + 1]) = [j \in 1 .. i + 1 |-> vs[j]]
      <4>1. \A j \in 1 .. i + 1 : vs[j] \in V
        BY <1>1, <3>2
      <4> QED BY <3>5, <4>1, PrefixAppend
    <3>8. turn[i + 1] = NextElement(Ok(a, from[i + 1]), read)
      BY <1>7, <3>1, <3>2, <3>5
    <3> QED BY <3>6, <3>7, <3>8, Zenon
  <2> QED BY <2>1, <2>2, Upwards
<1>10. PICK all : all = [i \in 1 .. n |-> vs[i]] /\ all = vs
  BY DEF IsList
<1>11. turn[n] = Ok(all, <<>>)
  <2>1. from[n + 1] = <<>>
    BY <1>2, JoinedFromOf
  <2>2. n \in S
    BY <1>9
  <2> QED BY <1>8, <1>10, <2>1, <2>2
<1>12. PICK end : end = [err |-> "EOF", v |-> all, rest |-> <<>>]
  OBVIOUS
<1>13. NextElement(Ok(all, <<>>), read) = end /\ NextElement(end, read) = end
  <2>1. PICK arr : arr = Ok(all, <<>>)
    OBVIOUS
  <2>2. arr = [err |-> "nil", v |-> all, rest |-> <<>>]
    BY <2>1 DEF Ok
  <2>3. read[arr.rest] = [err |-> "EOF", v |-> "none", rest |-> <<>>]
    BY <2>2 DEF Failed
  <2>4. NextElement(arr, read) = [arr EXCEPT !.err = "EOF", !.rest = <<>>]
    BY <2>2, <2>3 DEF NextElement
  <2>5. NextElement(arr, read) = end
    BY <1>12, <2>2, <2>4
  <2>6. end.err # "nil"
    BY <1>12
  <2>7. NextElement(end, read) = end
    BY <2>6 DEF NextElement
  <2> QED BY <2>1, <2>5, <2>7
<1>14. PICK T : T = {i \in Nat : n + 1 + i <= l + 1 => turn[n + 1 + i] = end}
  OBVIOUS
<1>15. \A i \in Nat : i \in T
  <2>1. 0 \in T
    <3>1. turn[n + 1] = NextElement(turn[n], read)
      BY <1>4, <1>7
    <3> QED BY <1>11, <1>13, <1>14, <3>1
  <2>2. ASSUME NEW i \in Nat, i \in T PROVE i + 1 \in T
    <3> SUFFICES ASSUME n + 1 + (i + 1) <= l + 1 PROVE turn[n + 1 + (i + 1)] = end
      BY <1>14
    <3>1. turn[n + 1 + i] = end
      BY <1>14, <2>2
    <3>2. n + 1 + i \in 0 .. l /\ n + 1 + (i + 1) = (n + 1 + i) + 1
      OBVIOUS
    <3> QED BY <1>7, <1>13, <3>1, <3>2
  <2> QED BY <2>1, <2>2, Upwards
<1>16. turn[l + 1] = end
  <2>1. l - n \in Nat /\ n + 1 + (l - n) = l + 1
    BY <1>4
  <2>2. l - n \in T
    BY <1>15, <2>1
  <2> QED BY <1>14, <2>1, <2>2
<1>17. ReadElements(lim, read) = [end EXCEPT !.err = "nil"]
  BY <1>4, <1>5, <1>12, <1>16 DEF ReadElements
<1>18. [end EXCEPT !.err = "nil"] = Ok(all, <<>>)
  BY <1>12 DEF Ok
<1> QED BY <1>3, <1>10, <1>17, <1>18

-----------------------------------------------------------------------------
(* Reading a table, entry by entry.                                        *)

LEMMA ShortstrFirst ==
  ASSUME NEW key \in String, NEW c \in Chunks, NEW s \in Chunks
  PROVE  /\ (writeShortstr(key) \o c) \o s # <<>> /\ c \o s \in Chunks
         /\ readShortstr((writeShortstr(key) \o c) \o s) = Ok(CarriedShort(key), c \o s)
<1>1. PICK a \in Chunks : a = writeShortstr(key)
  BY ReadShortstrIs
<1>2. PICK b \in Chunks : b = c \o s
  BY ChunksConcat
<1>3. (a \o c) \o s = a \o b
  <2>1. (a \o c) \o s = a \o (c \o s)
    BY ChunksConcat, Zenon
  <2> QED BY <1>2, <2>1
<1>4. readShortstr(a \o b) = Ok(CarriedShort(key), b)
  BY <1>1, ReadShortstrIs
<1>5. a \o b # <<>>
  <2>1. PICK x \in Nat : x = Len(a) /\ x > 0
    BY <1>1, ReadShortstrIs, ChunksConcat
  <2>2. PICK y \in Nat : y = Len(b)
    BY ChunksConcat
  <2>3. Len(a \o b) = x + y
    BY <2>1, <2>2, ChunksConcat, Zenon
  <2>4. Len(a \o b) # 0
    BY <2>1, <2>3
  <2> QED BY <2>4, EmptySeq
<1> QED BY <1>1, <1>2, <1>3, <1>4, <1>5

LEMMA NextEntryIs ==
  ASSUME NEW tb, NEW r, r # <<>>, NEW key, NEW b, readShortstr(r) = Ok(key, b),
         NEW read, NEW v, NEW s, read[b] = Ok(v, s)
  PROVE  NextEntry(Ok(tb, r), read) = Ok(Put(tb, key, v), s)
<1>1. PICK table : table = Ok(tb, r)
  OBVIOUS
<1>2. table.err = "nil" /\ table.v = tb /\ table.rest = r
  BY <1>1 DEF Ok
<1>3. PICK k : k = readShortstr(r)
  OBVIOUS
<1>4. k.err = "nil" /\ k.v = key /\ k.rest = b
  BY <1>3 DEF Ok
<1>5. PICK f : f = read[b]
  OBVIOUS
<1>6. f.err = "nil" /\ f.v = v /\ f.rest = s
  BY <1>5 DEF Ok
<1>7. NextEntry(table, read) =
        Then(k, LAMBDA key1, r1 :
          Then(read[r1], LAMBDA value, rest : Ok(Put(table.v, key1, value), rest)))
  BY <1>2, <1>3 DEF NextEntry
<1>8. NextEntry(table, read) =
        Then(read[b], LAMBDA value, rest : Ok(Put(table.v, key, value), rest))
  BY <1>4, <1>7 DEF Then
<1>9. NextEntry(table, read) = Ok(Put(tb, key, v), s)
  BY <1>2, <1>5, <1>6, <1>8 DEF Then
<1> QED BY <1>1, <1>9

(* The table after i entries: each key read has the value of one of those  *)
(* entries whose key it is once cut.                                       *)
EntriesIn(tb, i, order, vals) ==
  /\ tb = [key \in DOMAIN tb |-> tb[key]]
  /\ DOMAIN tb = {CarriedShort(order[j]) : j \in 1 .. i}
  /\ \A key \in DOMAIN tb : \E j \in 1 .. i :
       CarriedShort(order[j]) = key /\ tb[key] = vals[j]

LEMMA EntriesPut ==
  ASSUME NEW i \in Nat, NEW order, NEW vals, NEW tb, EntriesIn(tb, i, order, vals),
         NEW new, new = Put(tb, CarriedShort(order[i + 1]), vals[i + 1])
  PROVE  EntriesIn(new, i + 1, order, vals)
<1>1. PICK key : key = CarriedShort(order[i + 1])
  OBVIOUS
<1>2. PICK x : x = vals[i + 1]
  OBVIOUS
<1>3. new = [k \in DOMAIN tb \cup {key} |-> IF k = key THEN x ELSE tb[k]]
  BY <1>1, <1>2 DEF Put
<1>4. DOMAIN new = DOMAIN tb \cup {key} /\ new[key] = x
      /\ \A k \in DOMAIN tb : k # key => new[k] = tb[k]
  BY <1>3
<1>5. new = [k \in DOMAIN new |-> new[k]]
  BY <1>3
<1>6. DOMAIN tb = {CarriedShort(order[j]) : j \in 1 .. i}
      /\ \A k \in DOMAIN tb : \E j \in 1 .. i : CarriedShort(order[j]) = k /\ tb[k] = vals[j]
  BY DEF EntriesIn
<1>7. 1 .. i + 1 = (1 .. i) \cup {i + 1}
  OBVIOUS
<1>8. DOMAIN new = {CarriedShort(order[j]) : j \in 1 .. i + 1}
  BY <1>1, <1>4, <1>6, <1>7
<1>9. ASSUME NEW k \in DOMAIN new
      PROVE  \E j \in 1 .. i + 1 : CarriedShort(order[j]) = k /\ new[k] = vals[j]
  <2>1. CASE k = key
    BY <1>1, <1>2, <1>4, <1>7, <2>1
  <2>2. CASE k # key
    BY <1>4, <1>6, <1>7, <1>9, <2>2
  <2> QED BY <2>1, <2>2
<1> QED BY <1>5, <1>8, <1>9 DEF EntriesIn

EntryIs(out, key, c, read, v) ==
  key \in String /\ c \in Chunks /\ out = writeShortstr(key) \o c /\ ReadsTo(read, c, v)

ReadAll(nested, read, n, order, vals) ==
  \E tb : EntriesIn(tb, n, order, vals) /\ EntriesRead(nested, read)[Len(nested)] = Ok(tb, <<>>)

LEMMA ReadEntriesIs ==
  ASSUME NEW n \in Nat, NEW outs \in Seq(Chunks), Len(outs) = n,
         NEW order, NEW cs, NEW read, NEW vals,
         \A i \in 1 .. n : EntryIs(outs[i], order[i], cs[i], read, vals[i]),
         NEW nested, nested = Joined(outs)
  PROVE  ReadAll(nested, read, n, order, vals)
<1>1. PICK l : l = Len(nested)
  OBVIOUS
<1>2. \A i \in 1 .. n :
        /\ order[i] \in String /\ cs[i] \in Chunks
        /\ outs[i] = writeShortstr(order[i]) \o cs[i] /\ ReadsTo(read, cs[i], vals[i])
  BY DEF EntryIs
<1>3. PICK from : from = JoinedFrom(outs)
  OBVIOUS
<1>4. nested = Joined(outs) /\ nested = from[1]
  BY <1>3 DEF Joined
<1>5. \A i \in 1 .. n : Len(outs[i]) > 0
  <2> SUFFICES ASSUME NEW i \in 1 .. n PROVE Len(outs[i]) > 0
    OBVIOUS
  <2>1. PICK a \in Chunks : a = writeShortstr(order[i]) /\ Len(a) > 0
    BY <1>2, ReadShortstrIs, EmptySeq
  <2>2. PICK b \in Chunks : b = cs[i] /\ outs[i] = a \o b
    BY <1>2, <2>1
  <2>3. PICK x \in Nat : x = Len(a) /\ x > 0
    BY <2>1, ChunksConcat
  <2>4. PICK y \in Nat : y = Len(b)
    BY ChunksConcat
  <2>5. Len(outs[i]) = x + y
    BY <2>2, <2>3, <2>4, ChunksConcat, Zenon
  <2>6. x + y > 0
    BY <2>3
  <2> QED BY <2>5, <2>6, Zenon
<1>6. l \in Nat /\ l = Len(nested) /\ l >= n
  BY <1>5, <1>4, <1>1, JoinedLen
<1>7. PICK turn : turn = EntriesRead(nested, read)
  OBVIOUS
<1>8. turn = [i \in 0 .. l |-> IF i = 0 THEN Ok(<<>>, nested) ELSE NextEntry(turn[i - 1], read)]
  BY <1>6, <1>7, EntriesReadIs
<1>9. turn[0] = Ok(<<>>, nested) /\ \A i \in 0 .. l - 1 : turn[i + 1] = NextEntry(turn[i], read)
  <2>1. turn[0] = Ok(<<>>, nested)
    BY <1>6, <1>8
  <2>2. ASSUME NEW i \in 0 .. l - 1 PROVE turn[i + 1] = NextEntry(turn[i], read)
    <3>1. i + 1 \in 0 .. l /\ i + 1 # 0 /\ (i + 1) - 1 = i
      BY <1>6
    <3> QED BY <1>8, <3>1
  <2> QED BY <2>1, <2>2
<1>10. PICK S : S = {i \in Nat : i <= n => \E tb : /\ EntriesIn(tb, i, order, vals)
                                                   /\ turn[i] = Ok(tb, from[i + 1])}
  OBVIOUS
<1>11. \A i \in Nat : i \in S
  <2>1. 0 \in S
    <3>1. PICK e : e = <<>>
      OBVIOUS
    <3>2. DOMAIN e = {} /\ e = [k \in DOMAIN e |-> e[k]]
      <4>1. e \in Seq({}) /\ Len(e) = 0
        BY <3>1, EmptySeq
      <4>2. DOMAIN e = 1 .. 0 /\ e = [k \in 1 .. 0 |-> e[k]]
        BY <4>1, LenProperties
      <4> QED BY <4>2
    <3>3. EntriesIn(e, 0, order, vals)
      BY <3>2 DEF EntriesIn
    <3>4. turn[0] = Ok(e, from[0 + 1])
      BY <1>4, <1>9, <3>1
    <3> QED BY <1>10, <3>3, <3>4
  <2>2. ASSUME NEW i \in Nat, i \in S PROVE i + 1 \in S
    <3> SUFFICES ASSUME i + 1 <= n
                 PROVE  \E tb : /\ EntriesIn(tb, i + 1, order, vals)
                                /\ turn[i + 1] = Ok(tb, from[(i + 1) + 1])
      BY <1>10
    <3>1. PICK tb : EntriesIn(tb, i, order, vals) /\ turn[i] = Ok(tb, from[i + 1])
      BY <1>10, <2>2
    <3>2. i + 1 \in 1 .. n /\ i \in 0 .. l - 1
      BY <1>6
    <3>3. from[i + 1] = outs[i + 1] \o from[(i + 1) + 1] /\ from[(i + 1) + 1] \in Chunks
      BY <1>3, <3>2, JoinedNext
    <3>4. PICK s \in Chunks : s = from[(i + 1) + 1]
      BY <3>3
    <3>5. PICK key \in String : key = order[i + 1]
      BY <1>2, <3>2
    <3>6. PICK c \in Chunks : c = cs[i + 1] /\ outs[i + 1] = writeShortstr(key) \o c
      BY <1>2, <3>2, <3>5
    <3>7. PICK v : v = vals[i + 1] /\ read[c \o s] = Ok(v, s)
      <4>1. ReadsTo(read, c, vals[i + 1])
        BY <1>2, <3>2, <3>6
      <4> QED BY <4>1 DEF ReadsTo
    <3>8. from[i + 1] = (writeShortstr(key) \o c) \o s
      BY <3>3, <3>4, <3>6
    <3>9. PICK new : new = Put(tb, CarriedShort(key), v)
      OBVIOUS
    <3>10. PICK r : r = from[i + 1]
      OBVIOUS
    <3>11. PICK b : b = c \o s /\ read[b] = Ok(v, s)
      BY <3>7
    <3>12. r # <<>> /\ readShortstr(r) = Ok(CarriedShort(key), b)
      BY <3>8, <3>10, <3>11, ShortstrFirst
    <3>13. NextEntry(Ok(tb, r), read) = Ok(Put(tb, CarriedShort(key), v), s)
      BY <3>11, <3>12, NextEntryIs
    <3>14. NextEntry(Ok(tb, from[i + 1]), read) = Ok(new, s)
      BY <3>10, <3>13, <3>9
    <3>15. EntriesIn(new, i + 1, order, vals)
      BY <3>1, <3>5, <3>7, <3>9, EntriesPut
    <3>16. turn[i + 1] = Ok(new, s)
      BY <1>9, <3>1, <3>2, <3>14
    <3> QED BY <3>4, <3>15, <3>16
  <2> QED BY <2>1, <2>2, Upwards
<1>12. PICK tb : EntriesIn(tb, n, order, vals) /\ turn[n] = Ok(tb, <<>>)
  <2>1. from[n + 1] = <<>>
    BY <1>3, JoinedFromOf
  <2>2. n \in S
    BY <1>11
  <2> QED BY <1>10, <2>1, <2>2
<1>13. PICK end : end = Ok(tb, <<>>)
  OBVIOUS
<1>14. NextEntry(end, read) = end
  <2>1. end.rest = <<>>
    BY <1>13, OkIs
  <2> QED BY <2>1 DEF NextEntry
<1>15. PICK T : T = {i \in Nat : n + i <= l => turn[n + i] = end}
  OBVIOUS
<1>16. \A i \in Nat : i \in T
  <2>1. 0 \in T
    BY <1>12, <1>13, <1>15
  <2>2. ASSUME NEW i \in Nat, i \in T PROVE i + 1 \in T
    <3> SUFFICES ASSUME n + (i + 1) <= l PROVE turn[n + (i + 1)] = end
      BY <1>15
    <3>1. turn[n + i] = end
      BY <1>6, <1>15, <2>2
    <3>2. n + i \in 0 .. l - 1 /\ n + (i + 1) = (n + i) + 1
      BY <1>6
    <3> QED BY <1>9, <1>14, <3>1, <3>2
  <2> QED BY <2>1, <2>2, Upwards
<1>17. turn[l] = end
  <2>1. l - n \in Nat /\ n + (l - n) = l
    BY <1>6
  <2>2. l - n \in T
    BY <1>16, <2>1
  <2> QED BY <1>6, <1>15, <2>1, <2>2
<1> QED BY <1>1, <1>7, <1>12, <1>13, <1>17 DEF ReadAll

-----------------------------------------------------------------------------
(* An array and a table are read as far as their size says.                *)

LEMMA ReadArrayIs ==
  ASSUME NEW c \in Chunks, NEW v, NEW read, ReadElements(c, read) = Ok(v, <<>>),
         NEW s \in Chunks
  PROVE  readArray(Number(4, Size(c)) \o (c \o s), read) = Ok(v, s)
<1>1. PICK m \in Nat : m = Size(c)
  BY SizeIs
<1>2. PICK b \in Chunks : b = c \o s
  BY ChunksConcat
<1>3. PICK in : in = Number(4, m) \o b
  OBVIOUS
<1>4. ReadNumber(4, in) = Ok(m, b)
  BY <1>3, ReadNumberIs
<1>5. ReadChunks(m, b) = Ok(c, s)
  BY <1>1, <1>2, ReadChunksIs
<1>6. <<>> \o s = s
  BY ChunksConcat
<1>7. PICK x : x = ReadNumber(4, in) /\ x.err = "nil" /\ x.v = m /\ x.rest = b
  BY <1>4, OkIs
<1>8. PICK y : y = ReadChunks(m, b) /\ y.err = "nil" /\ y.v = c /\ y.rest = s
  BY <1>5, OkIs
<1>9. PICK z : z = ReadElements(c, read) /\ z.err = "nil" /\ z.v = v /\ z.rest = <<>>
  BY OkIs
<1>10. readArray(in, read) =
         Then(x, LAMBDA n, r1 :
           Then(ReadChunks(n, r1), LAMBDA lim, rest :
             Then(ReadElements(lim, read), LAMBDA w, left : Ok(w, left \o rest))))
  BY <1>7 DEF readArray
<1>11. readArray(in, read) =
         Then(ReadChunks(m, b), LAMBDA lim, rest :
           Then(ReadElements(lim, read), LAMBDA w, left : Ok(w, left \o rest)))
  BY <1>7, <1>10 DEF Then
<1>12. readArray(in, read) =
         Then(ReadElements(c, read), LAMBDA w, left : Ok(w, left \o s))
  BY <1>8, <1>11 DEF Then
<1>13. readArray(in, read) = Ok(v, <<>> \o s)
  BY <1>9, <1>12 DEF Then
<1> QED BY <1>1, <1>2, <1>3, <1>6, <1>13

LEMMA TableReadIs ==
  ASSUME NEW c \in Chunks, Fits(c), NEW v, NEW read,
         EntriesRead(c, read)[Len(c)] = Ok(v, <<>>), NEW s \in Chunks
  PROVE  TableRead(Number(4, Size(c)) \o (c \o s), read) = Ok(v, s)
<1>1. PICK m \in Nat : m = Size(c) /\ ~(m > MaxLength)
  <2>1. Size(c) \in Nat /\ Size(c) <= MaxLength
    BY SizeIs DEF Fits
  <2> QED BY <2>1, MaxLengthIs
<1>2. PICK b \in Chunks : b = c \o s
  BY ChunksConcat
<1>3. PICK in : in = Number(4, m) \o b
  OBVIOUS
<1>4. ReadNumber(4, in) = Ok(m, b)
  BY <1>3, ReadNumberIs
<1>5. ReadChunks(m, b) = Ok(c, s)
  BY <1>1, <1>2, ReadChunksIs
<1>6. PICK x : x = ReadNumber(4, in) /\ x.err = "nil" /\ x.v = m /\ x.rest = b
  BY <1>4, OkIs
<1>7. PICK y : y = ReadChunks(m, b) /\ y.err = "nil" /\ y.v = c /\ y.rest = s
  BY <1>5, OkIs
<1>8. PICK z : z = EntriesRead(c, read)[Len(c)]
  OBVIOUS
<1>9. TableRead(in, read) =
        Then(x, LAMBDA n, r :
          IF n > MaxLength THEN Ok(<<>>, r)
          ELSE Then(ReadChunks(n, r), LAMBDA nested, rest :
                 LET t == EntriesRead(nested, read)[Len(nested)]
                 IN  [t EXCEPT !.rest = rest]))
  BY <1>6 DEF TableRead
<1>10. TableRead(in, read) =
         Then(ReadChunks(m, b), LAMBDA nested, rest :
             LET t == EntriesRead(nested, read)[Len(nested)]
             IN  [t EXCEPT !.rest = rest])
  BY <1>1, <1>6, <1>9 DEF Then
<1>11. TableRead(in, read) = [z EXCEPT !.rest = s]
  BY <1>7, <1>8, <1>10 DEF Then
<1>12. [z EXCEPT !.rest = s] = Ok(v, s)
  <2>1. z = [err |-> "nil", v |-> v, rest |-> <<>>]
    BY <1>8 DEF Ok
  <2> QED BY <2>1 DEF Ok
<1> QED BY <1>1, <1>2, <1>3, <1>11, <1>12

-----------------------------------------------------------------------------
(* What was written of a field is read as what is carried of it.           *)

Reads(read, f, c) == \E v \in Carried[f] : ReadsTo(read, c, v)
ReadsShorter(read, f, m) ==
  \A c \in Chunks :
    Written(c) \in writeField[f] /\ Len(c) < m /\ Fits(c) => Reads(read, f, c)

LEMMA OneOfEachHas ==
  ASSUME NEW sets, NEW c, c = [x \in DOMAIN sets |-> c[x]],
         \A x \in DOMAIN sets : c[x] \in sets[x]
  PROVE  c \in OneOfEach(sets)
<1>1. \A x \in DOMAIN sets : c[x] \in UNION Range(sets)
  BY DEF Range
<1>2. c \in [DOMAIN sets -> UNION Range(sets)]
  BY <1>1
<1> QED BY <1>2 DEF OneOfEach

LEMMA SizeFirst ==
  ASSUME NEW c \in Chunks
  PROVE  Number(4, Size(c)) \in Chunks /\ Len(Number(4, Size(c))) = 1
<1>1. PICK n \in Nat : n = Size(c)
  BY SizeIs
<1>2. 4 \in Nat \ {0} /\ n \in Int
  OBVIOUS
<1>3. Number(4, n) \in Chunks /\ Len(Number(4, n)) = 1
  BY <1>2, ReadNumberIs, ChunksConcat
<1> QED BY <1>1, <1>3

LEMMA ArrayReads ==
  ASSUME NEW n \in Nat, NEW a, DOMAIN a = 1 .. n, \A i \in 1 .. n : a[i] \in Field,
         NEW b, Written(b) \in ArrayWrites(Inside(a, writeField)), Fits(b),
         NEW read, read[<<>>] = Failed("EOF", <<>>),
         NEW m \in Nat, m = Len(b) + 1, \A i \in 1 .. n : ReadsShorter(read, a[i], m)
  PROVE  /\ b \in Chunks
         /\ \E v \in OneOfEach(Inside(a, Carried)) :
              \A s \in Chunks : readArray(b \o s, read) = Ok(v, s)
<1>1. PICK sets : sets = Inside(a, writeField)
  OBVIOUS
<1>2. DOMAIN sets = 1 .. n /\ \A i \in 1 .. n : sets[i] = writeField[a[i]]
  BY <1>1 DEF Inside
<1>3. PICK x \in ArrayWrites(sets) : x = Written(b)
  BY <1>1
<1>4. \A i \in 1 .. n : \A y \in sets[i] : IsFieldWrite(a[i], y)
  BY <1>2, AllWritten
<1>5. \A i \in 1 .. n : \A y \in sets[i] : IsWrite(y)
  BY <1>4 DEF IsFieldWrite
<1>6. IsWrite(x) /\ \E ws : IsArrayWrite(sets, x, n, ws)
  BY <1>2, <1>5, ArrayWritesIs
<1>7. PICK ws : IsArrayWrite(sets, x, n, ws)
  BY <1>6
<1>8. x.err = "nil" /\ x.out = b /\ b \in Chunks
  BY <1>3, <1>6, WrittenIs
<1>9. /\ \A i \in 1 .. n : ws[i] \in sets[i] /\ ws[i].err = "nil"
      /\ \E outs \in Seq(Chunks) :
           /\ Len(outs) = n
           /\ \A i \in 1 .. n : outs[i] = ws[i].out /\ ws[i] = Written(outs[i])
           /\ x = Written(Number(4, Size(Joined(outs))) \o Joined(outs))
  BY <1>7, <1>8 DEF IsArrayWrite
<1>10. PICK outs \in Seq(Chunks) :
         /\ Len(outs) = n
         /\ \A i \in 1 .. n : outs[i] = ws[i].out /\ ws[i] = Written(outs[i])
         /\ x = Written(Number(4, Size(Joined(outs))) \o Joined(outs))
  BY <1>9
<1>11. \A i \in 1 .. n : outs[i] \in Chunks /\ Written(outs[i]) \in writeField[a[i]]
                         /\ Len(outs[i]) > 0
  <2>1. \A i \in 1 .. n : outs[i] \in Chunks
    BY <1>10, SeqIs
  <2>2. \A i \in 1 .. n : Written(outs[i]) \in writeField[a[i]]
    BY <1>2, <1>9, <1>10
  <2>3. \A i \in 1 .. n : IsFieldWrite(a[i], ws[i])
    BY <1>4, <1>9
  <2>4. \A i \in 1 .. n : Len(ws[i].out) > 0
    BY <1>9, <2>3 DEF IsFieldWrite
  <2> QED BY <1>10, <2>1, <2>2, <2>4
<1>12. PICK j \in Chunks : j = Joined(outs)
  BY JoinedIs
<1>13. PICK size \in Nat : size = Size(j)
  BY SizeIs
<1>14. PICK p \in Chunks : p = Number(4, size) /\ Len(p) = 1 /\ b = p \o j
  <2>1. Number(4, size) \in Chunks /\ Len(Number(4, size)) = 1
    BY <1>12, <1>13, SizeFirst
  <2>2. x = Written(Number(4, size) \o j)
    BY <1>10, <1>12, <1>13
  <2>3. b = Number(4, size) \o j
    BY <1>8, <2>2, WrittenIs
  <2> QED BY <2>1, <2>3
<1>15. Len(b) = 1 + Len(j) /\ Len(j) \in Nat
  BY <1>12, <1>14, ChunksConcat
<1>16. \A i \in 1 .. n : Len(outs[i]) \in Nat /\ Len(outs[i]) <= Len(j)
  BY <1>10, <1>11, <1>12, JoinedLen
<1>17. \A i \in 1 .. n : Reads(read, a[i], outs[i])
  <2> SUFFICES ASSUME NEW i \in 1 .. n PROVE Reads(read, a[i], outs[i])
    OBVIOUS
  <2>1. Len(outs[i]) < m
    BY <1>15, <1>16
  <2>2. ReadsShorter(read, a[i], m)
    OBVIOUS
  <2>3. Fits(j)
    BY <1>12, <1>14, PartsFit
  <2>4. Fits(outs[i])
    BY <1>10, <1>12, <2>3, JoinedFits
  <2> QED BY <1>11, <2>1, <2>2, <2>4 DEF ReadsShorter
<1>18. PICK vs : vs = [i \in 1 .. n |->
                         CHOOSE v \in Carried[a[i]] : ReadsTo(read, outs[i], v)]
  OBVIOUS
<1>19. \A i \in 1 .. n : vs[i] \in Carried[a[i]] /\ ReadsTo(read, outs[i], vs[i])
  BY <1>17, <1>18 DEF Reads
<1>20. vs = [i \in 1 .. n |-> vs[i]]
  BY <1>18
<1>21. ReadElements(j, read) = Ok(vs, <<>>)
  <2>1. IsList(vs, n)
    BY <1>20 DEF IsList
  <2>2. \A i \in 1 .. n : Len(outs[i]) > 0
    BY <1>11
  <2>3. \A i \in 1 .. n : ReadsTo(read, outs[i], vs[i])
    BY <1>19
  <2>4. outs \in Seq(Chunks) /\ Len(outs) = n
    BY <1>10
  <2>5. read[<<>>] = Failed("EOF", <<>>)
    OBVIOUS
  <2>6. ReadElements(Joined(outs), read) = Ok(vs, <<>>)
    BY <2>1, <2>2, <2>3, <2>4, <2>5, ReadElementsIs
  <2> QED BY <1>12, <2>6
<1>22. vs \in OneOfEach(Inside(a, Carried))
  <2>1. PICK cs : cs = Inside(a, Carried)
    OBVIOUS
  <2>2. DOMAIN cs = 1 .. n /\ \A i \in 1 .. n : cs[i] = Carried[a[i]]
    BY <2>1 DEF Inside
  <2>3. vs = [i \in DOMAIN cs |-> vs[i]] /\ \A i \in DOMAIN cs : vs[i] \in cs[i]
    BY <1>19, <1>20, <2>2
  <2> QED BY <2>1, <2>3, OneOfEachHas
<1>23. ASSUME NEW s \in Chunks PROVE readArray(b \o s, read) = Ok(vs, s)
  <2>1. b \o s = p \o (j \o s)
    BY <1>12, <1>14, ChunksConcat, Zenon
  <2>2. readArray(Number(4, Size(j)) \o (j \o s), read) = Ok(vs, s)
    BY <1>21, ReadArrayIs
  <2> QED BY <1>13, <1>14, <2>1, <2>2
<1> QED BY <1>8, <1>22, <1>23

LEMMA TableReads ==
  ASSUME NEW t, IsTable(t), Range(t) \subseteq Field,
         NEW b, Written(b) \in writeTable(t), Fits(b),
         NEW read, NEW m \in Nat, m = Len(b) + 1,
         \A k \in DOMAIN t : ReadsShorter(read, t[k], m)
  PROVE  /\ b \in Chunks
         /\ \E v \in TableCarries(t, Inside(t, Carried)) :
              \A s \in Chunks : TableRead(b \o s, read) = Ok(v, s)
<1>1. PICK sets : sets = Inside(t, writeField)
  OBVIOUS
<1>2. DOMAIN sets = DOMAIN t /\ \A k \in DOMAIN t : sets[k] = writeField[t[k]] /\ t[k] \in Field
  BY <1>1 DEF Inside, Range
<1>3. PICK x \in TableWrites(t, sets) : x = Written(b)
  BY <1>1 DEF writeTable
<1>4. \A k \in DOMAIN t : \A y \in sets[k] : IsFieldWrite(t[k], y)
  BY <1>2, AllWritten
<1>5. \A k \in DOMAIN t : \A y \in sets[k] : IsWrite(y)
  BY <1>4 DEF IsFieldWrite
<1>6. IsWrite(x) /\ \E n \in Nat : \E order, ws : IsTableWrite(t, sets, x, n, order, ws)
  BY <1>2, <1>5, TableWritesIs
<1>7. PICK n \in Nat : \E order, ws : IsTableWrite(t, sets, x, n, order, ws)
  BY <1>6
<1>8. PICK order, ws : IsTableWrite(t, sets, x, n, order, ws)
  BY <1>7
<1>9. x.err = "nil" /\ x.out = b /\ b \in Chunks
  BY <1>3, <1>6, WrittenIs
<1>10. /\ \A i \in 1 .. n : order[i] \in DOMAIN t /\ ws[i] \in sets[order[i]] /\ ws[i].err = "nil"
       /\ \A k \in DOMAIN t : \E i \in 1 .. n : order[i] = k
       /\ \E outs \in Seq(Chunks) :
            /\ Len(outs) = n
            /\ \A i \in 1 .. n :
                 /\ ws[i].out \in Chunks /\ ws[i] = Written(ws[i].out)
                 /\ outs[i] = writeShortstr(order[i]) \o ws[i].out
            /\ x = Written(Number(4, Size(Joined(outs))) \o Joined(outs))
  BY <1>8, <1>9 DEF IsTableWrite
<1>11. PICK outs \in Seq(Chunks) :
         /\ Len(outs) = n
         /\ \A i \in 1 .. n :
              /\ ws[i].out \in Chunks /\ ws[i] = Written(ws[i].out)
              /\ outs[i] = writeShortstr(order[i]) \o ws[i].out
         /\ x = Written(Number(4, Size(Joined(outs))) \o Joined(outs))
  BY <1>10
<1>12. PICK cs : cs = [i \in 1 .. n |-> ws[i].out]
  OBVIOUS
<1>13. \A i \in 1 .. n : /\ order[i] \in String /\ cs[i] \in Chunks
                         /\ Written(cs[i]) \in writeField[t[order[i]]]
                         /\ outs[i] = writeShortstr(order[i]) \o cs[i]
  <2>1. \A i \in 1 .. n : cs[i] = ws[i].out
    BY <1>12
  <2>2. \A i \in 1 .. n : cs[i] \in Chunks /\ outs[i] = writeShortstr(order[i]) \o cs[i]
    BY <1>11, <2>1
  <2>3. \A i \in 1 .. n : order[i] \in String
    BY <1>10 DEF IsTable
  <2>4. ASSUME NEW i \in 1 .. n PROVE Written(cs[i]) \in writeField[t[order[i]]]
    <3>1. ws[i] \in sets[order[i]] /\ order[i] \in DOMAIN t
      BY <1>10
    <3>2. ws[i] = Written(cs[i])
      BY <1>11, <2>1
    <3> QED BY <1>2, <3>1, <3>2
  <2> QED BY <2>2, <2>3, <2>4
<1>14. PICK j \in Chunks : j = Joined(outs)
  BY JoinedIs
<1>15. PICK p \in Chunks : p = Number(4, Size(j)) /\ Len(p) = 1 /\ b = p \o j
  <2>1. Number(4, Size(j)) \in Chunks /\ Len(Number(4, Size(j))) = 1
    BY SizeFirst
  <2>2. x = Written(Number(4, Size(j)) \o j)
    BY <1>11, <1>14
  <2>3. b = Number(4, Size(j)) \o j
    BY <1>9, <2>2, WrittenIs
  <2> QED BY <2>1, <2>3
<1>16. Len(b) = 1 + Len(j) /\ Len(j) \in Nat
  <2>1. Len(b) = Len(p) + Len(j)
    BY <1>15, ChunksConcat, Zenon
  <2> QED BY <1>15, <2>1, ChunksConcat
<1>17. \A i \in 1 .. n : Len(outs[i]) \in Nat /\ Len(outs[i]) > 0 /\ Len(cs[i]) \in Nat
                         /\ Len(cs[i]) < Len(outs[i])
  <2> SUFFICES ASSUME NEW i \in 1 .. n
               PROVE  Len(outs[i]) \in Nat /\ Len(outs[i]) > 0 /\ Len(cs[i]) \in Nat
                      /\ Len(cs[i]) < Len(outs[i])
    OBVIOUS
  <2>1. PICK a \in Chunks : a = writeShortstr(order[i]) /\ Len(a) > 0
    BY <1>13, ReadShortstrIs, EmptySeq
  <2>2. PICK c \in Chunks : c = cs[i] /\ outs[i] = a \o c
    BY <1>13, <2>1
  <2>3. PICK y \in Nat : y = Len(a) /\ y > 0
    BY <2>1, ChunksConcat
  <2>4. PICK z \in Nat : z = Len(c)
    BY ChunksConcat
  <2>5. Len(outs[i]) = y + z
    BY <2>2, <2>3, <2>4, ChunksConcat, Zenon
  <2> QED BY <2>2, <2>3, <2>4, <2>5
<1>18. Fits(j) /\ \A i \in 1 .. n : Len(outs[i]) <= Len(j) /\ Fits(outs[i])
  <2>1. Fits(j)
    BY <1>14, <1>15, PartsFit
  <2> QED BY <1>11, <1>14, <1>17, <2>1, JoinedLen, JoinedFits
<1>19. \A i \in 1 .. n : Reads(read, t[order[i]], cs[i])
  <2> SUFFICES ASSUME NEW i \in 1 .. n PROVE Reads(read, t[order[i]], cs[i])
    OBVIOUS
  <2>1. Len(cs[i]) < m
    BY <1>16, <1>17, <1>18
  <2>2. ReadsShorter(read, t[order[i]], m)
    BY <1>10
  <2>3. writeShortstr(order[i]) \in Chunks /\ Fits(writeShortstr(order[i]) \o cs[i])
    BY <1>13, <1>18, ReadShortstrIs, EmptySeq
  <2>4. Fits(cs[i])
    BY <1>13, <2>3, PartsFit
  <2> QED BY <1>13, <2>1, <2>2, <2>4 DEF ReadsShorter
<1>20. PICK vs : vs = [i \in 1 .. n |->
                         CHOOSE v \in Carried[t[order[i]]] : ReadsTo(read, cs[i], v)]
  OBVIOUS
<1>21. \A i \in 1 .. n : vs[i] \in Carried[t[order[i]]] /\ ReadsTo(read, cs[i], vs[i])
  BY <1>19, <1>20 DEF Reads
<1>22. PICK tb : EntriesIn(tb, n, order, vs) /\ EntriesRead(j, read)[Len(j)] = Ok(tb, <<>>)
  <2>1. \A i \in 1 .. n : EntryIs(outs[i], order[i], cs[i], read, vs[i])
    BY <1>13, <1>21 DEF EntryIs
  <2>2. outs \in Seq(Chunks) /\ Len(outs) = n
    BY <1>11
  <2>3. ReadAll(j, read, n, order, vs)
    BY <1>14, <2>1, <2>2, ReadEntriesIs, Zenon
  <2> QED BY <2>3 DEF ReadAll
<1>23. tb \in TableCarries(t, Inside(t, Carried))
  <2>1. PICK carried : carried = Inside(t, Carried)
    OBVIOUS
  <2>2. DOMAIN carried = DOMAIN t /\ \A k \in DOMAIN t : carried[k] = Carried[t[k]]
    BY <2>1 DEF Inside
  <2>3. tb = [key \in DOMAIN tb |-> tb[key]]
        /\ DOMAIN tb = {CarriedShort(order[i]) : i \in 1 .. n}
        /\ \A key \in DOMAIN tb : \E i \in 1 .. n :
             CarriedShort(order[i]) = key /\ tb[key] = vs[i]
    BY <1>22 DEF EntriesIn
  <2>4. DOMAIN tb = {CarriedShort(k) : k \in DOMAIN t}
    BY <1>10, <2>3
  <2>5. \A key \in DOMAIN tb :
          \E k \in DOMAIN t : CarriedShort(k) = key /\ tb[key] \in carried[k]
    <3> SUFFICES ASSUME NEW key \in DOMAIN tb
                 PROVE  \E k \in DOMAIN t : CarriedShort(k) = key /\ tb[key] \in carried[k]
      OBVIOUS
    <3>1. PICK i \in 1 .. n : CarriedShort(order[i]) = key /\ tb[key] = vs[i]
      BY <2>3
    <3>2. order[i] \in DOMAIN t /\ vs[i] \in carried[order[i]]
      BY <1>10, <1>21, <2>2
    <3> QED BY <3>1, <3>2
  <2>6. \A key \in DOMAIN tb : tb[key] \in UNION Range(carried)
    BY <2>2, <2>5 DEF Range
  <2>7. tb \in [{CarriedShort(k) : k \in DOMAIN t} -> UNION Range(carried)]
    BY <2>3, <2>4, <2>6
  <2> QED BY <2>1, <2>5, <2>7 DEF TableCarries
<1>24. ASSUME NEW s \in Chunks PROVE TableRead(b \o s, read) = Ok(tb, s)
  <2>1. b \o s = p \o (j \o s)
    BY <1>14, <1>15, ChunksConcat, Zenon
  <2>2. TableRead(Number(4, Size(j)) \o (j \o s), read) = Ok(tb, s)
    BY <1>18, <1>22, TableReadIs
  <2> QED BY <1>15, <2>1, <2>2
<1> QED BY <1>9, <1>23, <1>24

LEMMA AfterWas ==
  ASSUME NEW a, NEW w, NEW c, a \in Chunks, IsWrite(w), Written(c) = After(a, w)
  PROVE  \E b \in Chunks : w = Written(b) /\ c = a \o b
<1>1. w.err = "nil"
  <2>1. After(a, w).err = "nil"
    BY WrittenIs
  <2> QED BY <2>1, AfterIs
<1>2. w = Written(w.out) /\ w.out \in Chunks
  BY <1>1, WrittenIs
<1>3. PICK b \in Chunks : b = w.out
  BY <1>2
<1>4. After(a, Written(b)) = Written(a \o b)
  BY AfterIs
<1>5. Written(c) = Written(a \o b)
  BY <1>2, <1>3, <1>4
<1>6. c = a \o b
  BY <1>5, WrittenIs
<1> QED BY <1>2, <1>3, <1>6, Zenon

LEMMA FieldReads ==
  ASSUME NEW f \in Field, NEW c, Written(c) \in writeField[f], Fits(c),
         NEW read, read[<<>>] = Failed("EOF", <<>>),
         NEW m \in Nat, m = Len(c), \A g \in Parts(f) : ReadsShorter(read, g, m)
  PROVE  \E v \in Carried[f] : \A s \in Chunks : FieldRead(c \o s, read) = Ok(v, s)
<1>1. writeField[f] = FieldWrites(f, writeField) /\ Carried[f] = FieldCarries(f, Carried)
  BY writeFieldIs, CarriedIs, Zenon
<1>2. IsField(f) /\ Parts(f) \subseteq Field
  BY FieldsIn
<1>3. CASE f[1] \in DOMAIN Plain
  <2>1. FieldWrites(f, writeField) = {Written(writePlain(f[1], f[2]))}
    <3>1. f[1] # "Table" /\ f[1] # "array"
      BY <1>3 DEF Plain
    <3> QED BY <1>3, <3>1 DEF FieldWrites
  <2>2. c = writePlain(f[1], f[2])
    <3>1. Written(c) = Written(writePlain(f[1], f[2]))
      BY <1>1, <2>1
    <3> QED BY <3>1, WrittenIs
  <2>3. PICK type \in DOMAIN Plain : type = f[1]
    BY <1>3
  <2>4. PICK x \in Plain[type] : x = f[2] /\ f = <<type, x>>
    BY <1>2, <1>3, <2>3 DEF IsField
  <2>5. c = writePlain(type, x)
    BY <2>2, <2>4, <2>3
  <2>6. ReadFrom(c, FieldCarries(f, Carried), read)
    BY <2>4, <2>5, PlainRead
  <2> QED BY <1>1, <2>6, Zenon DEF ReadFrom
<1>4. CASE f[1] \notin DOMAIN Plain /\ f[1] = "Table"
  <2>1. PICK t : t = f[2]
    OBVIOUS
  <2>2. IsTable(t) /\ Range(t) = Parts(f) /\ Range(t) \subseteq Field
    BY <1>2, <1>4, <2>1 DEF IsField, Parts
  <2>3. PICK x \in writeTable(t) : Written(c) = After(Letter("F"), x)
    BY <1>1, <1>4, <2>1 DEF FieldWrites, writeTable
  <2>4. "F" \in Tag /\ Letter("F") \in Chunks
    BY PiecesIn DEF Tag
  <2>5. IsWrite(x)
    BY <2>2, TablesWritten
  <2>6. PICK b \in Chunks : x = Written(b) /\ c = Letter("F") \o b
    <3>1. PICK l \in Chunks : l = Letter("F")
      BY <2>4
    <3>2. Written(c) = After(l, x)
      BY <2>3, <3>1
    <3>3. \E b \in Chunks : x = Written(b) /\ c = l \o b
      BY <2>5, <3>2, AfterWas
    <3> QED BY <3>1, <3>3
  <2>7. m = Len(b) + 1
    BY <2>4, <2>6, AfterLetter, ChunksConcat
  <2>8. \A k \in DOMAIN t : ReadsShorter(read, t[k], m)
    BY <2>2 DEF Range
  <2>9. Written(b) \in writeTable(t) /\ Fits(b)
    BY <2>3, <2>4, <2>6, PartsFit
  <2>10. PICK v \in TableCarries(t, Inside(t, Carried)) :
           \A s \in Chunks : TableRead(b \o s, read) = Ok(v, s)
    BY <2>2, <2>7, <2>8, <2>9, TableReads
  <2>11. PICK w : w = <<"Table", v>>
    OBVIOUS
  <2>12. w \in Carried[f]
    BY <1>1, <1>4, <2>1, <2>10, <2>11 DEF FieldCarries
  <2>13. ASSUME NEW s \in Chunks PROVE FieldRead(c \o s, read) = Ok(w, s)
    <3>1. FieldRead(c \o s, read) = TaggedRead("F", b \o s, read)
      BY <2>4, <2>6, AfterLetter
    <3>2. TaggedRead("F", b \o s, read) = As("Table", TableRead(b \o s, read))
      BY TaggedReads
    <3> QED BY <2>10, <2>11, <3>1, <3>2, AsOk
  <2> QED BY <2>12, <2>13
<1>5. CASE f[1] \notin DOMAIN Plain /\ f[1] = "array"
  <2>1. PICK a : a = f[2]
    OBVIOUS
  <2>2. a \in Seq(Range(a)) /\ Range(a) = Parts(f) /\ Range(a) \subseteq Field
    BY <1>2, <1>5, <2>1 DEF IsField, Parts
  <2>3. PICK n \in Nat : n = Len(a) /\ DOMAIN a = 1 .. n
    BY <2>2, SeqIs
  <2>4. \A k \in 1 .. n : a[k] \in Parts(f) /\ a[k] \in Field
    BY <2>2, <2>3 DEF Range
  <2>5. PICK x \in ArrayWrites(Inside(a, writeField)) : Written(c) = After(Letter("A"), x)
    BY <1>1, <1>5, <2>1 DEF FieldWrites
  <2>6. "A" \in Tag /\ Letter("A") \in Chunks
    BY PiecesIn DEF Tag
  <2>7. IsWrite(x)
    <3>1. PICK sets : sets = Inside(a, writeField)
      OBVIOUS
    <3>2. DOMAIN sets = 1 .. n /\ \A k \in 1 .. n : sets[k] = writeField[a[k]]
      BY <2>3, <3>1 DEF Inside
    <3>3. \A k \in 1 .. n : \A y \in sets[k] : IsWrite(y)
      BY <2>4, <3>2, AllWritten DEF IsFieldWrite
    <3> QED BY <2>5, <3>1, <3>2, <3>3, ArrayWritesIs
  <2>8. PICK b \in Chunks : x = Written(b) /\ c = Letter("A") \o b
    <3>1. PICK l \in Chunks : l = Letter("A")
      BY <2>6
    <3>2. Written(c) = After(l, x)
      BY <2>5, <3>1
    <3>3. \E b \in Chunks : x = Written(b) /\ c = l \o b
      BY <2>7, <3>2, AfterWas
    <3> QED BY <3>1, <3>3
  <2>9. m = Len(b) + 1
    BY <2>6, <2>8, AfterLetter, ChunksConcat
  <2>10. \A k \in 1 .. n : ReadsShorter(read, a[k], m)
    BY <2>4
  <2>11. Written(b) \in ArrayWrites(Inside(a, writeField)) /\ Fits(b)
    BY <2>5, <2>6, <2>8, PartsFit
  <2>12. PICK v \in OneOfEach(Inside(a, Carried)) :
           \A s \in Chunks : readArray(b \o s, read) = Ok(v, s)
    BY <2>3, <2>4, <2>9, <2>10, <2>11, ArrayReads
  <2>13. PICK w : w = <<"array", v>>
    OBVIOUS
  <2>14. w \in Carried[f]
    BY <1>1, <1>5, <2>1, <2>12, <2>13 DEF FieldCarries
  <2>15. ASSUME NEW s \in Chunks PROVE FieldRead(c \o s, read) = Ok(w, s)
    <3>1. FieldRead(c \o s, read) = TaggedRead("A", b \o s, read)
      BY <2>6, <2>8, AfterLetter
    <3>2. TaggedRead("A", b \o s, read) = As("array", readArray(b \o s, read))
      BY TaggedReads
    <3> QED BY <2>12, <2>13, <3>1, <3>2, AsOk
  <2> QED BY <2>14, <2>15
<1>6. CASE f[1] \notin DOMAIN Plain \cup {"Table", "array"}
  <2>1. Written(c) = Refused
    BY <1>1, <1>6 DEF FieldWrites
  <2> QED BY <2>1, WrittenIs
<1> QED BY <1>3, <1>4, <1>5, <1>6

LEMMA DeepReads ==
  ASSUME NEW n \in Nat
  PROVE  \A k \in 0 .. n : \A f \in Field : ReadsShorter(readField(n)[k], f, k + 1)
<1>1. PICK deep : deep = readField(n)
  OBVIOUS
<1>2. deep = [i \in 0 .. n |-> IF i = 0 THEN NoField ELSE Deeper(deep[i - 1])]
  BY <1>1, ReadFieldIs
<1>3. deep[0] = NoField /\ \A i \in 0 .. n - 1 : deep[i + 1] = Deeper(deep[i])
  <2>1. deep[0] = NoField
    BY <1>2
  <2>2. ASSUME NEW i \in 0 .. n - 1 PROVE deep[i + 1] = Deeper(deep[i])
    <3>1. i + 1 \in 0 .. n /\ i + 1 # 0 /\ (i + 1) - 1 = i
      OBVIOUS
    <3> QED BY <1>2, <3>1
  <2> QED BY <2>1, <2>2
<1>4. PICK S : S = {k \in Nat : k <= n =>
                      /\ deep[k][<<>>] = Failed("EOF", <<>>)
                      /\ \A f \in Field : ReadsShorter(deep[k], f, k + 1)}
  OBVIOUS
<1>5. \A f \in Field, c \in Chunks : Written(c) \in writeField[f] => Len(c) \in Nat /\ Len(c) > 0
  <2> SUFFICES ASSUME NEW f \in Field, NEW c \in Chunks, Written(c) \in writeField[f]
               PROVE  Len(c) \in Nat /\ Len(c) > 0
    OBVIOUS
  <2>1. IsFieldWrite(f, Written(c))
    BY AllWritten
  <2>2. Written(c).err = "nil" /\ Written(c).out = c
    BY WrittenIs
  <2> QED BY <2>1, <2>2, ChunksConcat DEF IsFieldWrite
<1>6. 0 \in S
  <2>1. deep[0][<<>>] = Failed("EOF", <<>>)
    BY <1>3, ChunksConcat DEF NoField
  <2>2. ASSUME NEW f \in Field PROVE ReadsShorter(deep[0], f, 0 + 1)
    BY <1>5 DEF ReadsShorter
  <2> QED BY <1>4, <2>1, <2>2
<1>7. ASSUME NEW k \in Nat, k \in S PROVE k + 1 \in S
  <2> SUFFICES ASSUME k + 1 <= n
               PROVE  /\ deep[k + 1][<<>>] = Failed("EOF", <<>>)
                      /\ \A f \in Field : ReadsShorter(deep[k + 1], f, (k + 1) + 1)
    BY <1>4
  <2>1. PICK read : read = deep[k]
    OBVIOUS
  <2>2. read[<<>>] = Failed("EOF", <<>>) /\ \A f \in Field : ReadsShorter(read, f, k + 1)
    BY <1>4, <1>7, <2>1
  <2>3. PICK next : next = deep[k + 1]
    OBVIOUS
  <2>4. \A in \in Chunks : next[in] = FieldRead(in, read)
    <3>1. next = Deeper(read)
      BY <1>3, <2>1, <2>3
    <3> QED BY <3>1 DEF Deeper
  <2>5. next[<<>>] = Failed("EOF", <<>>)
    <3>1. next[<<>>] = FieldRead(<<>>, read)
      BY <2>4, ChunksConcat
    <3> QED BY <3>1 DEF FieldRead
  <2>6. ASSUME NEW f \in Field, NEW c \in Chunks, Written(c) \in writeField[f],
               Len(c) < (k + 1) + 1, Fits(c)
        PROVE  Reads(next, f, c)
    <3>1. PICK m \in Nat : m = Len(c) /\ m <= k + 1
      BY <1>5, <2>6
    <3>2. \A g \in Parts(f) : ReadsShorter(read, g, m)
      <4> SUFFICES ASSUME NEW g \in Parts(f), NEW d \in Chunks,
                          Written(d) \in writeField[g], Len(d) < m, Fits(d)
                   PROVE  Reads(read, g, d)
        BY DEF ReadsShorter
      <4>1. g \in Field
        BY FieldsIn
      <4>2. Len(d) < k + 1
        BY <1>5, <3>1, <4>1
      <4> QED BY <2>2, <4>1, <4>2 DEF ReadsShorter
    <3>3. PICK v \in Carried[f] : \A s \in Chunks : FieldRead(c \o s, read) = Ok(v, s)
      BY <2>2, <2>6, <3>1, <3>2, FieldReads
    <3>4. ASSUME NEW s \in Chunks PROVE next[c \o s] = Ok(v, s)
      BY <2>4, <3>3, ChunksConcat
    <3>5. ReadsTo(next, c, v)
      BY <3>4 DEF ReadsTo
    <3> QED BY <3>5 DEF Reads
  <2>7. \A f \in Field : ReadsShorter(next, f, (k + 1) + 1)
    BY <2>6 DEF ReadsShorter
  <2> QED BY <2>3, <2>5, <2>7
<1>8. \A k \in Nat : k \in S
  BY <1>6, <1>7, Upwards
<1> QED BY <1>1, <1>4, <1>8

LEMMA TablesRead ==
  ASSUME NEW t, IsTable(t), Range(t) \subseteq Field,
         NEW b, Written(b) \in writeTable(t), Fits(b), NEW s \in Chunks
  PROVE  /\ b \in Chunks
         /\ \E v \in TableCarries(t, Inside(t, Carried)) : readTable(b \o s) = Ok(v, s)
<1>1. b \in Chunks
  <2>1. IsWrite(Written(b))
    BY TablesWritten
  <2> QED BY <2>1, WrittenIs
<1>2. PICK m \in Nat : m = Len(b)
  BY <1>1, ChunksConcat
<1>3. PICK n \in Nat : n = Len(b \o s) /\ n >= m
  <2>1. PICK l \in Nat : l = Len(s)
    BY ChunksConcat
  <2>2. Len(b \o s) = m + l
    BY <1>1, <1>2, <2>1, ChunksConcat, Zenon
  <2> QED BY <2>1, <2>2
<1>4. PICK read : read = readField(n)[n]
  OBVIOUS
<1>5. \A f \in Field : ReadsShorter(read, f, n + 1)
  BY <1>4, DeepReads
<1>6. \A k \in DOMAIN t : ReadsShorter(read, t[k], m + 1)
  <2> SUFFICES ASSUME NEW k \in DOMAIN t, NEW d \in Chunks,
                      Written(d) \in writeField[t[k]], Len(d) < m + 1, Fits(d)
               PROVE  Reads(read, t[k], d)
    BY DEF ReadsShorter
  <2>1. Len(d) < n + 1
    <3>1. Len(d) \in Nat
      BY ChunksConcat
    <3> QED BY <1>3, <3>1
  <2>2. t[k] \in Field
    BY DEF Range
  <2> QED BY <1>5, <2>1, <2>2 DEF ReadsShorter
<1>7. PICK v \in TableCarries(t, Inside(t, Carried)) :
        \A x \in Chunks : TableRead(b \o x, read) = Ok(v, x)
  <2>1. PICK h \in Nat : h = m + 1
    OBVIOUS
  <2>2. h = Len(b) + 1
    BY <1>2, <2>1
  <2>3. \A k \in DOMAIN t : ReadsShorter(read, t[k], h)
    BY <1>6, <2>1
  <2> QED BY ONLY IsTable(t), Range(t) \subseteq Field, Written(b) \in writeTable(t),
                  Fits(b), h \in Nat, <2>2, <2>3, TableReads
<1>8. readTable(b \o s) = TableRead(b \o s, read)
  BY <1>3, <1>4 DEF readTable
<1> QED BY <1>1, <1>7, <1>8

-----------------------------------------------------------------------------
(* Flags: the octet of bits in a method, the mask of the properties.       *)

LEMMA BitOf ==
  ASSUME NEW p \in Nat \ {0}, NEW h \in Nat, NEW b \in {0, 1}, NEW low \in Nat, low < p
  PROVE  (((2 * h + b) * p + low) \div p) % 2 = b
<1>1. ((2 * h + b) * p + low) \div p = 2 * h + b
  <2>1. PICK x : x = (2 * h + b) * p + low
    OBVIOUS
  <2>2. x \div p = 2 * h + b
    BY <2>1
  <2> QED BY <2>1, <2>2
<1>2. (2 * h + b) % 2 = b
  OBVIOUS
<1> QED BY <1>1, <1>2

BitStep(p, b, from, k) ==
  /\ p[k] \in Nat \ {0} /\ p[k] = 2 * p[k + 1]
  /\ b[k] \in {0, 1} /\ from[k] = b[k] * p[k] + from[k + 1]

LEMMA HighBits ==
  ASSUME NEW p, NEW b, NEW from, p[14] \in Nat \ {0}, from[14] = 0,
         \A k \in 1 .. 13 : BitStep(p, b, from, k)
  PROVE  /\ \A k \in 1 .. 13 : (from[1] \div p[k]) % 2 = b[k]
         /\ (from[1] \div p[14]) % 2 = 0 /\ from[1] \in Nat
<1>1. ASSUME NEW k \in 1 .. 13
      PROVE  \E y \in Nat \ {0}, c \in {0, 1} :
               /\ p[k + 1] = y /\ p[k] = 2 * y /\ b[k] = c
               /\ from[k] = c * (2 * y) + from[k + 1]
  <2>1. BitStep(p, b, from, k)
    OBVIOUS
  <2>2. p[k + 1] \in Nat \ {0}
    <3>1. CASE k = 13
      BY <3>1
    <3>2. CASE k # 13
      <4>1. k + 1 \in 1 .. 13
        BY <3>2
      <4>2. BitStep(p, b, from, k + 1)
        BY <4>1
      <4> QED BY <4>2 DEF BitStep
    <3> QED BY <3>1, <3>2
  <2>3. PICK y \in Nat \ {0} : y = p[k + 1]
    BY <2>2
  <2>4. PICK c \in {0, 1} : c = b[k]
    BY <2>1 DEF BitStep
  <2>5. p[k] = 2 * y
    BY <2>1, <2>3 DEF BitStep
  <2>6. from[k] = c * (2 * y) + from[k + 1]
    BY <2>1, <2>4, <2>5 DEF BitStep
  <2> QED BY <2>3, <2>4, <2>5, <2>6
<1>2. \A k \in 1 .. 14 : from[k] \in Nat /\ from[k] < 2 * p[k]
  <2>1. PICK S : S = {k \in 1 .. 14 : from[k] \in Nat /\ from[k] < 2 * p[k]}
    OBVIOUS
  <2>2. 14 \in S
    BY <2>1
  <2>3. ASSUME NEW k \in 1 .. 13, k + 1 \in S PROVE k \in S
    <3>1. PICK y \in Nat \ {0}, c \in {0, 1} :
            p[k + 1] = y /\ p[k] = 2 * y /\ from[k] = c * (2 * y) + from[k + 1]
      BY <1>1
    <3>2. PICK x \in Nat : x = from[k + 1] /\ x < 2 * y
      BY <2>1, <2>3, <3>1
    <3>3. from[k] = x \/ from[k] = 2 * y + x
      <4>1. from[k] = c * (2 * y) + x
        BY <3>1, <3>2
      <4>2. CASE c = 0
        BY <4>1, <4>2
      <4>3. CASE c = 1
        BY <4>1, <4>3
      <4> QED BY <4>2, <4>3
    <3> QED BY <2>1, <3>1, <3>2, <3>3
  <2>4. PICK n \in Nat : n = 13
    OBVIOUS
  <2>5. n + 1 = 14 /\ 1 .. n = 1 .. 13
    BY <2>4
  <2>6. n + 1 \in S /\ \A k \in 1 .. n : k + 1 \in S => k \in S
    BY <2>2, <2>3, <2>5, Zenon
  <2>7. \A k \in 1 .. n + 1 : k \in S
    BY <2>6, Downwards
  <2> QED BY <2>1, <2>4, <2>7
<1>3. PICK mask \in Nat : mask = from[1]
  BY <1>2
<1>4. PICK S : S = {n \in Nat : \A k \in 1 .. 14 : k = n + 1 =>
                      \E h \in Nat : mask = h * (2 * p[k]) + from[k]}
  OBVIOUS
<1>5. 0 \in S
  <2>1. PICK y \in Nat : y = p[1]
    BY DEF BitStep
  <2>2. mask = 0 * (2 * p[1]) + from[1]
    BY <1>3, <2>1
  <2> QED BY <1>4, <2>2
<1>6. ASSUME NEW n \in Nat, n \in S PROVE n + 1 \in S
  <2>1. ASSUME NEW j \in 1 .. 14, j = (n + 1) + 1
        PROVE  \E h \in Nat : mask = h * (2 * p[j]) + from[j]
    <3>1. PICK k \in 1 .. 13 : k = n + 1 /\ j = k + 1
      BY <2>1
    <3>2. PICK h \in Nat : mask = h * (2 * p[k]) + from[k]
      BY <1>4, <1>6, <3>1
    <3>3. PICK y \in Nat \ {0}, c \in {0, 1} :
            p[j] = y /\ p[k] = 2 * y /\ from[k] = c * (2 * y) + from[j]
      BY <1>1, <3>1
    <3>4. PICK x \in Nat : x = from[j]
      BY <1>2
    <3>5. mask = h * (2 * (2 * y)) + (c * (2 * y) + x)
      BY <3>2, <3>3, <3>4
    <3>6. mask = (2 * h + c) * (2 * y) + x
      BY <3>5
    <3>7. 2 * h + c \in Nat
      OBVIOUS
    <3> QED BY <3>3, <3>4, <3>6, <3>7
  <2> QED BY <1>4, <2>1
<1>7. \A n \in Nat : n \in S
  BY <1>5, <1>6, Upwards
<1>8. ASSUME NEW k \in 1 .. 14 PROVE \E h \in Nat : mask = h * (2 * p[k]) + from[k]
  <2>1. k - 1 \in Nat /\ k = (k - 1) + 1
    OBVIOUS
  <2>2. k - 1 \in S
    BY <1>7, <2>1
  <2> QED BY <1>4, <2>1, <2>2
<1>9. ASSUME NEW k \in 1 .. 13 PROVE (mask \div p[k]) % 2 = b[k]
  <2>1. PICK y \in Nat \ {0}, c \in {0, 1} :
          p[k + 1] = y /\ p[k] = 2 * y /\ b[k] = c /\ from[k] = c * (2 * y) + from[k + 1]
    BY <1>1
  <2>2. PICK h \in Nat : mask = h * (2 * p[k]) + from[k]
    BY <1>8
  <2>3. PICK x \in Nat : x = from[k + 1] /\ x < 2 * y
    BY <1>2, <2>1
  <2>4. PICK q \in Nat \ {0} : q = 2 * y
    OBVIOUS
  <2>5. mask = h * (2 * q) + (c * q + x)
    BY <2>1, <2>2, <2>3, <2>4
  <2>6. mask = (2 * h + c) * q + x /\ x < q
    BY <2>3, <2>4, <2>5
  <2>7. (mask \div q) % 2 = c
    BY <2>6, BitOf
  <2> QED BY <2>1, <2>4, <2>7
<1>10. (mask \div p[14]) % 2 = 0
  <2>1. PICK h \in Nat : mask = h * (2 * p[14]) + from[14]
    BY <1>8
  <2>2. PICK q \in Nat \ {0} : q = p[14]
    OBVIOUS
  <2>3. PICK z \in Nat : z = 0 /\ z \in {0, 1} /\ z < q
    OBVIOUS
  <2>4. mask = (2 * h + z) * q + z
    BY <2>1, <2>2, <2>3
  <2>5. (mask \div q) % 2 = 0
    BY <2>3, <2>4, BitOf
  <2> QED BY <2>2, <2>5
<1> QED BY <1>3, <1>9, <1>10

FlagsOf(set) == [i \in 1 .. 13 |-> IF set[i] THEN Properties[i].flag ELSE 0]
FlagsSay(flags, set) ==
  /\ \A i \in 1 .. 13 : hasProperty(flags, Properties[i].flag) <=> set[i]
  /\ ~hasProperty(flags, Properties[14].flag)

LEMMA MaskIs ==
  ASSUME NEW bits, \A i \in 1 .. 13 : bits[i] \in BOOLEAN
  PROVE  Total(FlagsOf(bits)) \in Nat /\ FlagsSay(Total(FlagsOf(bits)), bits)
<1>1. PICK ws : ws = FlagsOf(bits) /\ ws = [i \in 1 .. 13 |-> IF bits[i] THEN Properties[i].flag ELSE 0]
  BY DEF FlagsOf
<1>2. PICK p : p = [i \in 1 .. 14 |-> Properties[i].flag]
  OBVIOUS
<1>3. /\ \A i \in 1 .. 14 : p[i] = Properties[i].flag
      /\ p[1] = 32768 /\ p[2] = 16384 /\ p[3] = 8192 /\ p[4] = 4096 /\ p[5] = 2048
      /\ p[6] = 1024 /\ p[7] = 512 /\ p[8] = 256 /\ p[9] = 128 /\ p[10] = 64
      /\ p[11] = 32 /\ p[12] = 16 /\ p[13] = 8 /\ p[14] = 4
  BY <1>2 DEF Properties, Property
<1>4. p[14] \in Nat \ {0} /\ \A i \in 1 .. 13 : p[i] \in Nat \ {0} /\ p[i] = 2 * p[i + 1]
  <2>1. \A i \in 1 .. 13 : i \in {1, 2, 3, 4, 5, 6, 7, 8, 9, 10, 11, 12, 13}
    OBVIOUS
  <2> QED BY <1>3, <2>1
<1>5. PICK from : from = TotalFrom(ws)
  OBVIOUS
<1>6. from[14] = 0 /\ \A k \in 1 .. 13 : from[k] = ws[k] + from[k + 1]
  <2>1. PICK n \in Nat : n = 13
    OBVIOUS
  <2>2. ws = [i \in 1 .. n |-> ws[i]]
    BY <1>1, <2>1
  <2>3. from[n + 1] = 0 /\ \A k \in 1 .. n : from[k] = ws[k] + from[k + 1]
    BY <1>5, <2>2, TotalNext, Zenon
  <2> QED BY <2>1, <2>3
<1>7. PICK b : b = [i \in 1 .. 13 |-> IF bits[i] THEN 1 ELSE 0]
  OBVIOUS
<1>8. \A k \in 1 .. 13 : b[k] \in {0, 1} /\ (b[k] = 1 <=> bits[k]) /\ ws[k] = b[k] * p[k]
  <2> SUFFICES ASSUME NEW k \in 1 .. 13
               PROVE  b[k] \in {0, 1} /\ (b[k] = 1 <=> bits[k]) /\ ws[k] = b[k] * p[k]
    OBVIOUS
  <2>1. p[k] \in Nat /\ p[k] = Properties[k].flag
    BY <1>3, <1>4
  <2> QED BY <1>1, <1>7, <2>1
<1>9. \A k \in 1 .. 13 : from[k] = b[k] * p[k] + from[k + 1]
  BY <1>6, <1>8
<1>10. /\ \A k \in 1 .. 13 : (from[1] \div p[k]) % 2 = b[k]
       /\ (from[1] \div p[14]) % 2 = 0 /\ from[1] \in Nat
  <2>1. \A k \in 1 .. 13 : BitStep(p, b, from, k)
    BY <1>4, <1>8, <1>9 DEF BitStep
  <2> QED BY <1>4, <1>6, <2>1, HighBits
<1>11. Total(ws) = from[1]
  BY <1>5 DEF Total
<1>12. /\ Total(ws) \in Nat
       /\ \A i \in 1 .. 13 : hasProperty(Total(ws), Properties[i].flag) <=> bits[i]
       /\ ~hasProperty(Total(ws), Properties[14].flag)
  BY <1>3, <1>8, <1>10, <1>11 DEF hasProperty
<1> QED BY <1>1, <1>12 DEF FlagsSay

LEMMA OctetOf ==
  ASSUME NEW n \in 1 .. 5, NEW c, \A i \in 1 .. 5 : c[i] \in {0, 1} /\ (i > n => c[i] = 0),
         NEW from, from[n + 1] = 0,
         \A k \in 1 .. n : from[k] = c[k] * Bit[k] + from[k + 1]
  PROVE  from[1] = c[1] + 2 * c[2] + 4 * c[3] + 8 * c[4] + 16 * c[5]
<1>1. Bit[1] = 1 /\ Bit[2] = 2 /\ Bit[3] = 4 /\ Bit[4] = 8 /\ Bit[5] = 16
  BY DEF Bit
<1>2. c[1] \in {0, 1} /\ c[2] \in {0, 1} /\ c[3] \in {0, 1} /\ c[4] \in {0, 1} /\ c[5] \in {0, 1}
  OBVIOUS
<1>3. CASE n = 1
  <2>1. from[2] = 0 /\ from[1] = c[1] * Bit[1] + from[2]
    BY <1>3
  <2>2. c[2] = 0 /\ c[3] = 0 /\ c[4] = 0 /\ c[5] = 0
    BY <1>3
  <2> QED BY <1>1, <1>2, <2>1, <2>2
<1>4. CASE n = 2
  <2>1. from[3] = 0 /\ from[1] = c[1] * Bit[1] + from[2] /\ from[2] = c[2] * Bit[2] + from[3]
    BY <1>4
  <2>2. c[3] = 0 /\ c[4] = 0 /\ c[5] = 0
    BY <1>4
  <2> QED BY <1>1, <1>2, <2>1, <2>2
<1>5. CASE n = 3
  <2>1. from[4] = 0 /\ from[1] = c[1] * Bit[1] + from[2] /\ from[2] = c[2] * Bit[2] + from[3]
        /\ from[3] = c[3] * Bit[3] + from[4]
    BY <1>5
  <2>2. c[4] = 0 /\ c[5] = 0
    BY <1>5
  <2> QED BY <1>1, <1>2, <2>1, <2>2
<1>6. CASE n = 4
  <2>1. from[5] = 0 /\ from[1] = c[1] * Bit[1] + from[2] /\ from[2] = c[2] * Bit[2] + from[3]
        /\ from[3] = c[3] * Bit[3] + from[4] /\ from[4] = c[4] * Bit[4] + from[5]
    BY <1>6
  <2>2. c[5] = 0
    BY <1>6
  <2> QED BY <1>1, <1>2, <2>1, <2>2
<1>7. CASE n = 5
  <2>1. from[6] = 0 /\ from[1] = c[1] * Bit[1] + from[2] /\ from[2] = c[2] * Bit[2] + from[3]
        /\ from[3] = c[3] * Bit[3] + from[4] /\ from[4] = c[4] * Bit[4] + from[5]
        /\ from[5] = c[5] * Bit[5] + from[6]
    BY <1>7
  <2> QED BY <1>1, <1>2, <2>1
<1>8. n \in {1, 2, 3, 4, 5}
  OBVIOUS
<1> QED BY <1>3, <1>4, <1>5, <1>6, <1>7, <1>8

FlagOctet(v) == Total([i \in DOMAIN v |-> IF v[i] THEN Bit[i] ELSE 0])
OctetFlags(n, x) == [i \in 1 .. n |-> (x \div Bit[i]) % 2 = 1]

LEMMA OctetIs ==
  ASSUME NEW n \in 1 .. 5, NEW v \in [1 .. n -> BOOLEAN]
  PROVE  FlagOctet(v) \in Int /\ OctetFlags(n, FlagOctet(v)) = v
<1>1. PICK x : x = FlagOctet(v)
  OBVIOUS
<1>2. PICK ws : ws = [i \in 1 .. n |-> IF v[i] THEN Bit[i] ELSE 0]
  OBVIOUS
<1>3. PICK from : from = TotalFrom(ws)
  OBVIOUS
<1>4. x = from[1]
  <2>1. [i \in DOMAIN v |-> IF v[i] THEN Bit[i] ELSE 0] = ws
    BY <1>2
  <2> QED BY <1>1, <1>3, <2>1 DEF Total, FlagOctet
<1>5. from[n + 1] = 0 /\ \A k \in 1 .. n : from[k] = ws[k] + from[k + 1]
  <2>1. n \in Nat
    OBVIOUS
  <2>2. ws = [i \in 1 .. n |-> ws[i]]
    BY <1>2
  <2> QED BY <1>3, <2>1, <2>2, TotalNext
<1>6. PICK c : c = [i \in 1 .. 5 |-> IF i > n THEN 0 ELSE IF v[i] THEN 1 ELSE 0]
  OBVIOUS
<1>7. \A i \in 1 .. 5 : c[i] \in {0, 1} /\ (i > n => c[i] = 0)
  BY <1>6
<1>8. Bit[1] = 1 /\ Bit[2] = 2 /\ Bit[3] = 4 /\ Bit[4] = 8 /\ Bit[5] = 16
  BY DEF Bit
<1>9. \A k \in 1 .. n : k \in 1 .. 5 /\ Bit[k] \in Nat /\ (c[k] = 1 <=> v[k]) /\ ws[k] = c[k] * Bit[k]
  <2> SUFFICES ASSUME NEW k \in 1 .. n
               PROVE  k \in 1 .. 5 /\ Bit[k] \in Nat /\ (c[k] = 1 <=> v[k]) /\ ws[k] = c[k] * Bit[k]
    OBVIOUS
  <2>1. k \in 1 .. 5
    OBVIOUS
  <2>2. Bit[k] \in Nat
    <3>1. k \in {1, 2, 3, 4, 5}
      BY <2>1
    <3> QED BY <1>8, <3>1
  <2>3. c[k] = IF v[k] THEN 1 ELSE 0
    BY <1>6, <2>1
  <2>4. ws[k] = IF v[k] THEN Bit[k] ELSE 0
    BY <1>2
  <2> QED BY <2>1, <2>2, <2>3, <2>4
<1>10. x = c[1] + 2 * c[2] + 4 * c[3] + 8 * c[4] + 16 * c[5]
  <2>1. \A k \in 1 .. n : from[k] = c[k] * Bit[k] + from[k + 1]
    BY <1>5, <1>9
  <2> QED BY <1>4, <1>5, <1>7, <2>1, OctetOf
<1>11. c[1] \in {0, 1} /\ c[2] \in {0, 1} /\ c[3] \in {0, 1} /\ c[4] \in {0, 1} /\ c[5] \in {0, 1}
  BY <1>7
<1>12. /\ (x \div 1) % 2 = c[1] /\ (x \div 2) % 2 = c[2] /\ (x \div 4) % 2 = c[3]
       /\ (x \div 8) % 2 = c[4] /\ (x \div 16) % 2 = c[5]
  <2>1. PICK a \in {0, 1} : a = c[1]
    BY <1>11
  <2>2. PICK b \in {0, 1} : b = c[2]
    BY <1>11
  <2>3. PICK d \in {0, 1} : d = c[3]
    BY <1>11
  <2>4. PICK e \in {0, 1} : e = c[4]
    BY <1>11
  <2>5. PICK f \in {0, 1} : f = c[5]
    BY <1>11
  <2>6. x = a + 2 * b + 4 * d + 8 * e + 16 * f
    BY <1>10, <2>1, <2>2, <2>3, <2>4, <2>5
  <2>7. /\ (x \div 1) % 2 = a /\ (x \div 2) % 2 = b /\ (x \div 4) % 2 = d
        /\ (x \div 8) % 2 = e /\ (x \div 16) % 2 = f
    BY <2>6
  <2> QED BY <2>1, <2>2, <2>3, <2>4, <2>5, <2>7
<1>13. \A k \in 1 .. n : ((x \div Bit[k]) % 2 = 1) = v[k]
  <2> SUFFICES ASSUME NEW k \in 1 .. n PROVE ((x \div Bit[k]) % 2 = 1) = v[k]
    OBVIOUS
  <2>1. k \in {1, 2, 3, 4, 5}
    OBVIOUS
  <2>2. (x \div Bit[k]) % 2 = c[k]
    BY <1>8, <1>12, <2>1
  <2>3. v[k] \in BOOLEAN
    OBVIOUS
  <2> QED BY <1>9, <2>2, <2>3
<1>14. [i \in 1 .. n |-> (x \div Bit[i]) % 2 = 1] = v
  BY <1>13
<1>15. x \in Int
  BY <1>10, <1>11
<1> QED BY <1>1, <1>14, <1>15 DEF OctetFlags

-----------------------------------------------------------------------------
(* An argument, of any of the kinds, is read as what is carried of it.     *)

Kinds == DOMAIN Width \cup DOMAIN FlagsIn \cup {"shortstr", "longstr", "timestamp", "table"}

LEMMA KindsAre ==
  /\ DOMAIN Width = {"octet", "short", "long", "longlong"}
  /\ DOMAIN FlagsIn = {"bits1", "bits2", "bits3", "bits4", "bits5"}
  /\ \A kind \in DOMAIN Width : Width[kind] \in Nat \ {0}
  /\ \A kind \in DOMAIN FlagsIn : FlagsIn[kind] \in 1 .. 5
BY DEF Width, FlagsIn

LEMMA NumberKinds ==
  ASSUME NEW kind \in DOMAIN Width, NEW v, NEW table, NEW in, NEW r
  PROVE  /\ IsArgument(kind, v) <=> v \in Int
         /\ WriteArgument(kind, v, table) = Written(Number(Width[kind], v))
         /\ ReadArgument(kind, in) = ReadNumber(Width[kind], in)
         /\ ArgumentCarried(kind, v, r) <=> r = v
         /\ kind # "table"
<1>1. kind \notin {"shortstr", "longstr", "timestamp", "table"} /\ kind \notin DOMAIN FlagsIn
  BY KindsAre
<1> QED BY <1>1 DEF IsArgument, WriteArgument, ReadArgument, ArgumentCarried

LEMMA StringKinds ==
  ASSUME NEW v, NEW table, NEW in, NEW r
  PROVE  /\ IsArgument("shortstr", v) <=> v \in String
         /\ WriteArgument("shortstr", v, table) = Written(writeShortstr(v))
         /\ ReadArgument("shortstr", in) = readShortstr(in)
         /\ ArgumentCarried("shortstr", v, r) <=> r = CarriedShort(v)
         /\ IsArgument("longstr", v) <=> v \in String
         /\ WriteArgument("longstr", v, table) = Written(writeLongstr(v))
         /\ ReadArgument("longstr", in) = readLongstr(in)
         /\ ArgumentCarried("longstr", v, r) <=> r = v
         /\ IsArgument("timestamp", v) <=> v \in Instant
         /\ WriteArgument("timestamp", v, table) = Written(Number(8, v[1]))
         /\ ReadArgument("timestamp", in) = readTimestamp(in)
         /\ ArgumentCarried("timestamp", v, r) <=> r = <<v[1], 0>>
         /\ IsArgument("table", v) <=> IsTable(v) /\ Range(v) \subseteq Field
         /\ WriteArgument("table", v, table) = table
         /\ ReadArgument("table", in) = readTable(in)
         /\ ArgumentCarried("table", v, r) <=> r \in TableCarries(v, Inside(v, Carried))
<1>1. \A kind \in {"shortstr", "longstr", "timestamp", "table"} :
        kind \notin DOMAIN Width /\ kind \notin DOMAIN FlagsIn
  BY KindsAre
<1> QED BY <1>1 DEF IsArgument, WriteArgument, ReadArgument, ArgumentCarried

LEMMA FlagKinds ==
  ASSUME NEW kind \in DOMAIN FlagsIn, NEW v, NEW table, NEW in, NEW r
  PROVE  /\ IsArgument(kind, v) <=> v \in [1 .. FlagsIn[kind] -> BOOLEAN]
         /\ WriteArgument(kind, v, table) =
              Written(Number(1, FlagOctet(v)))
         /\ \A x, s : ReadNumber(1, in) = Ok(x, s) =>
              ReadArgument(kind, in) = Ok(OctetFlags(FlagsIn[kind], x), s)
         /\ ArgumentCarried(kind, v, r) <=> r = v
         /\ kind # "table"
<1>1. kind \notin {"shortstr", "longstr", "timestamp", "table"} /\ kind \notin DOMAIN Width
  BY KindsAre
<1>2. WriteArgument(kind, v, table) = Written(Number(1, FlagOctet(v)))
  BY <1>1 DEF WriteArgument, FlagOctet
<1>3. ASSUME NEW x, NEW s, ReadNumber(1, in) = Ok(x, s)
      PROVE  ReadArgument(kind, in) = Ok(OctetFlags(FlagsIn[kind], x), s)
  <2>1. PICK y : y = ReadNumber(1, in) /\ y.err = "nil" /\ y.v = x /\ y.rest = s
    BY <1>3, OkIs
  <2>2. ReadArgument(kind, in) =
          Then(y, LAMBDA bits, rest :
            Ok([i \in 1 .. FlagsIn[kind] |-> (bits \div Bit[i]) % 2 = 1], rest))
    BY <1>1, <2>1 DEF ReadArgument
  <2>3. ReadArgument(kind, in) = Ok([i \in 1 .. FlagsIn[kind] |-> (x \div Bit[i]) % 2 = 1], s)
    BY <2>1, <2>2 DEF Then
  <2> QED BY <2>3 DEF OctetFlags
<1>4. (IsArgument(kind, v) <=> v \in [1 .. FlagsIn[kind] -> BOOLEAN])
      /\ (ArgumentCarried(kind, v, r) <=> r = v)
  BY <1>1 DEF IsArgument, ArgumentCarried
<1> QED BY <1>1, <1>2, <1>3, <1>4

ArgumentReads(kind, v, w) ==
  /\ IsWrite(w)
  /\ w.err = "nil" <=> (kind = "table" => Validate(v))
  /\ w.err = "nil" /\ Fits(w.out) => \A s \in Chunks : \E r :
       ArgumentCarried(kind, v, r) /\ ReadArgument(kind, w.out \o s) = Ok(r, s)

LEMMA OneRead ==
  ASSUME NEW kind, kind # "table", NEW v, NEW c \in Chunks, NEW r,
         ArgumentCarried(kind, v, r),
         \A s \in Chunks : ReadArgument(kind, c \o s) = Ok(r, s)
  PROVE  ArgumentReads(kind, v, Written(c))
<1>1. Written(c).err = "nil" /\ Written(c).out = c /\ IsWrite(Written(c))
  BY WrittenIs DEF IsWrite
<1> QED BY <1>1 DEF ArgumentReads

LEMMA ArgumentIs ==
  ASSUME NEW kind \in Kinds, NEW v, IsArgument(kind, v),
         NEW table, kind = "table" => table \in writeTable(v)
  PROVE  ArgumentReads(kind, v, WriteArgument(kind, v, table))
<1>1. CASE kind \in DOMAIN Width
  <2>1. v \in Int /\ Width[kind] \in Nat \ {0}
    BY <1>1, NumberKinds, KindsAre
  <2>2. PICK c \in Chunks : c = Number(Width[kind], v)
    BY <2>1, PiecesIn
  <2>3. ASSUME NEW s \in Chunks PROVE ReadArgument(kind, c \o s) = Ok(v, s)
    <3>1. ReadNumber(Width[kind], c \o s) = Ok(v, s)
      BY <2>1, <2>2, ReadNumberIs, Zenon
    <3> QED BY <1>1, <3>1, NumberKinds
  <2>4. ArgumentCarried(kind, v, v) /\ kind # "table"
        /\ WriteArgument(kind, v, table) = Written(c)
    BY <1>1, <2>2, NumberKinds
  <2> QED BY <2>3, <2>4, OneRead
<1>2. CASE kind = "shortstr"
  <2>1. v \in String
    BY <1>2, StringKinds
  <2>2. PICK c \in Chunks : c = writeShortstr(v)
    BY <2>1, ReadShortstrIs, ChunksConcat
  <2>3. ASSUME NEW s \in Chunks PROVE ReadArgument(kind, c \o s) = Ok(CarriedShort(v), s)
    BY <1>2, <2>1, <2>2, ReadShortstrIs, StringKinds
  <2>4. ArgumentCarried(kind, v, CarriedShort(v)) /\ kind # "table"
        /\ WriteArgument(kind, v, table) = Written(c)
    BY <1>2, <2>2, StringKinds
  <2> QED BY <2>3, <2>4, OneRead
<1>3. CASE kind = "longstr"
  <2>1. v \in String
    BY <1>3, StringKinds
  <2>2. PICK c \in Chunks : c = writeLongstr(v)
    BY <2>1, ReadLongstrIs, ChunksConcat
  <2>3. ASSUME NEW s \in Chunks PROVE ReadArgument(kind, c \o s) = Ok(v, s)
    BY <1>3, <2>1, <2>2, ReadLongstrIs, StringKinds
  <2>4. ArgumentCarried(kind, v, v) /\ kind # "table"
        /\ WriteArgument(kind, v, table) = Written(c)
    BY <1>3, <2>2, StringKinds
  <2> QED BY <2>3, <2>4, OneRead
<1>4. CASE kind = "timestamp"
  <2>1. v \in Instant
    BY <1>4, StringKinds
  <2>2. v[1] \in Int
    BY <2>1, TimestampOf, ChunksConcat
  <2>3. PICK c \in Chunks : c = Number(8, v[1])
    BY <2>2, PiecesIn
  <2>4. ASSUME NEW s \in Chunks PROVE ReadArgument(kind, c \o s) = Ok(<<v[1], 0>>, s)
    <3>1. readTimestamp(c \o s) = Ok(<<v[1], 0>>, s)
      BY <2>1, <2>3, TimestampOf, Zenon
    <3> QED BY <1>4, <3>1, StringKinds
  <2>5. ArgumentCarried(kind, v, <<v[1], 0>>) /\ kind # "table"
        /\ WriteArgument(kind, v, table) = Written(c)
    BY <1>4, <2>3, StringKinds
  <2> QED BY <2>4, <2>5, OneRead
<1>5. CASE kind = "table"
  <2>1. IsTable(v) /\ Range(v) \subseteq Field /\ table \in writeTable(v)
    BY <1>5, StringKinds
  <2>2. IsWrite(table) /\ (table.err = "nil" <=> Validate(v))
    BY <2>1, TablesWritten
  <2>3. ASSUME table.err = "nil", Fits(table.out), NEW s \in Chunks
        PROVE  \E r : ArgumentCarried(kind, v, r) /\ ReadArgument(kind, table.out \o s) = Ok(r, s)
    <3>1. PICK b : b = table.out /\ table = Written(b)
      BY <2>2, <2>3, WrittenIs
    <3>2. Written(b) \in writeTable(v)
      BY <2>1, <3>1
    <3>3. PICK r \in TableCarries(v, Inside(v, Carried)) : readTable(b \o s) = Ok(r, s)
      BY <2>1, <2>3, <3>1, <3>2, TablesRead
    <3>4. ArgumentCarried(kind, v, r) /\ ReadArgument(kind, b \o s) = Ok(r, s)
      BY <1>5, <3>3, StringKinds
    <3> QED BY <3>1, <3>4
  <2>4. WriteArgument(kind, v, table) = table
    BY <1>5, StringKinds
  <2> QED BY <1>5, <2>2, <2>3, <2>4 DEF ArgumentReads
<1>6. CASE kind \in DOMAIN FlagsIn
  <2>1. PICK n \in 1 .. 5 : n = FlagsIn[kind]
    BY <1>6, KindsAre
  <2>2. v \in [1 .. n -> BOOLEAN]
    BY <1>6, <2>1, FlagKinds
  <2>3. PICK x \in Int : x = FlagOctet(v) /\ OctetFlags(n, x) = v
    BY <2>2, OctetIs
  <2>4. PICK c \in Chunks : c = Number(1, x)
    BY PiecesIn
  <2>5. ASSUME NEW s \in Chunks PROVE ReadArgument(kind, c \o s) = Ok(v, s)
    <3>1. ReadNumber(1, c \o s) = Ok(x, s)
      <4>1. 1 \in Nat \ {0}
        OBVIOUS
      <4> QED BY <2>4, <4>1, ReadNumberIs, Zenon
    <3>2. ReadArgument(kind, c \o s) = Ok(OctetFlags(n, x), s)
      BY <1>6, <2>1, <3>1, FlagKinds
    <3> QED BY <2>3, <3>2
  <2>6. ArgumentCarried(kind, v, v) /\ kind # "table"
        /\ WriteArgument(kind, v, table) = Written(c)
    <3>1. ArgumentCarried(kind, v, v) /\ kind # "table"
      BY <1>6, FlagKinds, Zenon
    <3>2. WriteArgument(kind, v, table) = Written(Number(1, FlagOctet(v)))
      BY <1>6, FlagKinds, Zenon
    <3> QED BY <2>3, <2>4, <3>1, <3>2
  <2> QED BY <2>5, <2>6, OneRead
<1> QED BY <1>1, <1>2, <1>3, <1>4, <1>5, <1>6 DEF Kinds

-----------------------------------------------------------------------------
(* The methods: each has its numbers, and arguments of the known kinds.    *)

LEMMA MethodNumbers ==
  /\ connectionStart.class = 10 /\ connectionStart.method = 10
  /\ connectionStartOk.class = 10 /\ connectionStartOk.method = 11
  /\ connectionSecure.class = 10 /\ connectionSecure.method = 20
  /\ connectionSecureOk.class = 10 /\ connectionSecureOk.method = 21
  /\ connectionTune.class = 10 /\ connectionTune.method = 30
  /\ connectionTuneOk.class = 10 /\ connectionTuneOk.method = 31
  /\ connectionOpen.class = 10 /\ connectionOpen.method = 40
  /\ connectionOpenOk.class = 10 /\ connectionOpenOk.method = 41
  /\ connectionClose.class = 10 /\ connectionClose.method = 50
  /\ connectionCloseOk.class = 10 /\ connectionCloseOk.method = 51
  /\ connectionBlocked.class = 10 /\ connectionBlocked.method = 60
  /\ connectionUnblocked.class = 10 /\ connectionUnblocked.method = 61
  /\ channelOpen.class = 20 /\ channelOpen.method = 10
  /\ channelOpenOk.class = 20 /\ channelOpenOk.method = 11
  /\ channelFlow.class = 20 /\ channelFlow.method = 20
  /\ channelFlowOk.class = 20 /\ channelFlowOk.method = 21
  /\ channelClose.class = 20 /\ channelClose.method = 40
  /\ channelCloseOk.class = 20 /\ channelCloseOk.method = 41
  /\ exchangeDeclare.class = 40 /\ exchangeDeclare.method = 10
  /\ exchangeDeclareOk.class = 40 /\ exchangeDeclareOk.method = 11
  /\ exchangeDelete.class = 40 /\ exchangeDelete.method = 20
  /\ exchangeDeleteOk.class = 40 /\ exchangeDeleteOk.method = 21
  /\ exchangeBind.class = 40 /\ exchangeBind.method = 30
  /\ exchangeBindOk.class = 40 /\ exchangeBindOk.method = 31
  /\ exchangeUnbind.class = 40 /\ exchangeUnbind.method = 40
  /\ exchangeUnbindOk.class = 40 /\ exchangeUnbindOk.method = 51
  /\ queueDeclare.class = 50 /\ queueDeclare.method = 10
  /\ queueDeclareOk.class = 50 /\ queueDeclareOk.method = 11
  /\ queueBind.class = 50 /\ queueBind.method = 20
  /\ queueBindOk.class = 50 /\ queueBindOk.method = 21
  /\ queueUnbind.class = 50 /\ queueUnbind.method = 50
  /\ queueUnbindOk.class = 50 /\ queueUnbindOk.method = 51
  /\ queuePurge.class = 50 /\ queuePurge.method = 30
  /\ queuePurgeOk.class = 50 /\ queuePurgeOk.method = 31
  /\ queueDelete.class = 50 /\ queueDelete.method = 40
  /\ queueDeleteOk.class = 50 /\ queueDeleteOk.method = 41
  /\ basicQos.class = 60 /\ basicQos.method = 10
  /\ basicQosOk.class = 60 /\ basicQosOk.method = 11
  /\ basicConsume.class = 60 /\ basicConsume.method = 20
  /\ basicConsumeOk.class = 60 /\ basicConsumeOk.method = 21
  /\ basicCancel.class = 60 /\ basicCancel.method = 30
  /\ basicCancelOk.class = 60 /\ basicCancelOk.method = 31
  /\ basicPublish.class = 60 /\ basicPublish.method = 40
  /\ basicReturn.class = 60 /\ basicReturn.method = 50
  /\ basicDeliver.class = 60 /\ basicDeliver.method = 60
  /\ basicGet.class = 60 /\ basicGet.method = 70
  /\ basicGetOk.class = 60 /\ basicGetOk.method = 71
  /\ basicGetEmpty.class = 60 /\ basicGetEmpty.method = 72
  /\ basicAck.class = 60 /\ basicAck.method = 80
  /\ basicReject.class = 60 /\ basicReject.method = 90
  /\ basicRecoverAsync.class = 60 /\ basicRecoverAsync.method = 100
  /\ basicRecover.class = 60 /\ basicRecover.method = 110
  /\ basicRecoverOk.class = 60 /\ basicRecoverOk.method = 111
  /\ basicNack.class = 60 /\ basicNack.method = 120
  /\ txSelect.class = 90 /\ txSelect.method = 10
  /\ txSelectOk.class = 90 /\ txSelectOk.method = 11
  /\ txCommit.class = 90 /\ txCommit.method = 20
  /\ txCommitOk.class = 90 /\ txCommitOk.method = 21
  /\ txRollback.class = 90 /\ txRollback.method = 30
  /\ txRollbackOk.class = 90 /\ txRollbackOk.method = 31
  /\ confirmSelect.class = 85 /\ confirmSelect.method = 10
  /\ confirmSelectOk.class = 85 /\ confirmSelectOk.method = 11
BY DEF Method,
       connectionStart, connectionStartOk, connectionSecure,
       connectionSecureOk, connectionTune, connectionTuneOk, connectionOpen,
       connectionOpenOk, connectionClose, connectionCloseOk,
       connectionBlocked, connectionUnblocked, channelOpen, channelOpenOk,
       channelFlow, channelFlowOk, channelClose, channelCloseOk,
       exchangeDeclare, exchangeDeclareOk, exchangeDelete, exchangeDeleteOk,
       exchangeBind, exchangeBindOk, exchangeUnbind, exchangeUnbindOk,
       queueDeclare, queueDeclareOk, queueBind, queueBindOk, queueUnbind,
       queueUnbindOk, queuePurge, queuePurgeOk, queueDelete, queueDeleteOk,
       basicQos, basicQosOk, basicConsume, basicConsumeOk, basicCancel,
       basicCancelOk, basicPublish, basicReturn, basicDeliver, basicGet,
       basicGetOk, basicGetEmpty, basicAck, basicReject, basicRecoverAsync,
       basicRecover, basicRecoverOk, basicNack, txSelect, txSelectOk,
       txCommit, txCommitOk, txRollback, txRollbackOk, confirmSelect,
       confirmSelectOk

LEMMA MethodArguments ==
  /\ connectionStart.args \in Seq(Kinds)
  /\ connectionStartOk.args \in Seq(Kinds)
  /\ connectionSecure.args \in Seq(Kinds)
  /\ connectionSecureOk.args \in Seq(Kinds)
  /\ connectionTune.args \in Seq(Kinds)
  /\ connectionTuneOk.args \in Seq(Kinds)
  /\ connectionOpen.args \in Seq(Kinds)
  /\ connectionOpenOk.args \in Seq(Kinds)
  /\ connectionClose.args \in Seq(Kinds)
  /\ connectionCloseOk.args \in Seq(Kinds)
  /\ connectionBlocked.args \in Seq(Kinds)
  /\ connectionUnblocked.args \in Seq(Kinds)
  /\ channelOpen.args \in Seq(Kinds)
  /\ channelOpenOk.args \in Seq(Kinds)
  /\ channelFlow.args \in Seq(Kinds)
  /\ channelFlowOk.args \in Seq(Kinds)
  /\ channelClose.args \in Seq(Kinds)
  /\ channelCloseOk.args \in Seq(Kinds)
  /\ exchangeDeclare.args \in Seq(Kinds)
  /\ exchangeDeclareOk.args \in Seq(Kinds)
  /\ exchangeDelete.args \in Seq(Kinds)
  /\ exchangeDeleteOk.args \in Seq(Kinds)
  /\ exchangeBind.args \in Seq(Kinds)
  /\ exchangeBindOk.args \in Seq(Kinds)
  /\ exchangeUnbind.args \in Seq(Kinds)
  /\ exchangeUnbindOk.args \in Seq(Kinds)
  /\ queueDeclare.args \in Seq(Kinds)
  /\ queueDeclareOk.args \in Seq(Kinds)
  /\ queueBind.args \in Seq(Kinds)
  /\ queueBindOk.args \in Seq(Kinds)
  /\ queueUnbind.args \in Seq(Kinds)
  /\ queueUnbindOk.args \in Seq(Kinds)
  /\ queuePurge.args \in Seq(Kinds)
  /\ queuePurgeOk.args \in Seq(Kinds)
  /\ queueDelete.args \in Seq(Kinds)
  /\ queueDeleteOk.args \in Seq(Kinds)
  /\ basicQos.args \in Seq(Kinds)
  /\ basicQosOk.args \in Seq(Kinds)
  /\ basicConsume.args \in Seq(Kinds)
  /\ basicConsumeOk.args \in Seq(Kinds)
  /\ basicCancel.args \in Seq(Kinds)
  /\ basicCancelOk.args \in Seq(Kinds)
  /\ basicPublish.args \in Seq(Kinds)
  /\ basicReturn.args \in Seq(Kinds)
  /\ basicDeliver.args \in Seq(Kinds)
  /\ basicGet.args \in Seq(Kinds)
  /\ basicGetOk.args \in Seq(Kinds)
  /\ basicGetEmpty.args \in Seq(Kinds)
  /\ basicAck.args \in Seq(Kinds)
  /\ basicReject.args \in Seq(Kinds)
  /\ basicRecoverAsync.args \in Seq(Kinds)
  /\ basicRecover.args \in Seq(Kinds)
  /\ basicRecoverOk.args \in Seq(Kinds)
  /\ basicNack.args \in Seq(Kinds)
  /\ txSelect.args \in Seq(Kinds)
  /\ txSelectOk.args \in Seq(Kinds)
  /\ txCommit.args \in Seq(Kinds)
  /\ txCommitOk.args \in Seq(Kinds)
  /\ txRollback.args \in Seq(Kinds)
  /\ txRollbackOk.args \in Seq(Kinds)
  /\ confirmSelect.args \in Seq(Kinds)
  /\ confirmSelectOk.args \in Seq(Kinds)
BY KindsAre DEF Kinds, Method,
       connectionStart, connectionStartOk, connectionSecure,
       connectionSecureOk, connectionTune, connectionTuneOk, connectionOpen,
       connectionOpenOk, connectionClose, connectionCloseOk,
       connectionBlocked, connectionUnblocked, channelOpen, channelOpenOk,
       channelFlow, channelFlowOk, channelClose, channelCloseOk,
       exchangeDeclare, exchangeDeclareOk, exchangeDelete, exchangeDeleteOk,
       exchangeBind, exchangeBindOk, exchangeUnbind, exchangeUnbindOk,
       queueDeclare, queueDeclareOk, queueBind, queueBindOk, queueUnbind,
       queueUnbindOk, queuePurge, queuePurgeOk, queueDelete, queueDeleteOk,
       basicQos, basicQosOk, basicConsume, basicConsumeOk, basicCancel,
       basicCancelOk, basicPublish, basicReturn, basicDeliver, basicGet,
       basicGetOk, basicGetEmpty, basicAck, basicReject, basicRecoverAsync,
       basicRecover, basicRecoverOk, basicNack, txSelect, txSelectOk,
       txCommit, txCommitOk, txRollback, txRollbackOk, confirmSelect,
       confirmSelectOk

LEMMA MethodsIs ==
  /\ \A m \in Methods : m.class \in Nat /\ m.method \in Nat /\ m.args \in Seq(Kinds)
  /\ \A m, k \in Methods : m.class = k.class /\ m.method = k.method => m = k
<1>1. \A m \in Methods : m.class \in Nat /\ m.method \in Nat /\ m.args \in Seq(Kinds)
  <2>1. \A m \in Methods : m.class \in Nat /\ m.method \in Nat
    BY MethodNumbers DEF Methods
  <2>2. \A m \in Methods : m.args \in Seq(Kinds)
    BY MethodArguments DEF Methods
  <2> QED BY <2>1, <2>2
<1>2. \A m, k \in Methods : m.class = 10 /\ k.class = 10 /\ m.method = k.method => m = k
  <2>1. \A m \in Methods : m.class = 10 => m \in {
          connectionStart, connectionStartOk, connectionSecure,
          connectionSecureOk, connectionTune, connectionTuneOk,
          connectionOpen, connectionOpenOk, connectionClose,
          connectionCloseOk, connectionBlocked, connectionUnblocked}
    BY MethodNumbers DEF Methods
  <2> QED BY <2>1, MethodNumbers
<1>3. \A m, k \in Methods : m.class = 20 /\ k.class = 20 /\ m.method = k.method => m = k
  <2>1. \A m \in Methods : m.class = 20 => m \in {
          channelOpen, channelOpenOk, channelFlow, channelFlowOk,
          channelClose, channelCloseOk}
    BY MethodNumbers DEF Methods
  <2> QED BY <2>1, MethodNumbers
<1>4. \A m, k \in Methods : m.class = 40 /\ k.class = 40 /\ m.method = k.method => m = k
  <2>1. \A m \in Methods : m.class = 40 => m \in {
          exchangeDeclare, exchangeDeclareOk, exchangeDelete,
          exchangeDeleteOk, exchangeBind, exchangeBindOk, exchangeUnbind,
          exchangeUnbindOk}
    BY MethodNumbers DEF Methods
  <2> QED BY <2>1, MethodNumbers
<1>5. \A m, k \in Methods : m.class = 50 /\ k.class = 50 /\ m.method = k.method => m = k
  <2>1. \A m \in Methods : m.class = 50 => m \in {
          queueDeclare, queueDeclareOk, queueBind, queueBindOk, queueUnbind,
          queueUnbindOk, queuePurge, queuePurgeOk, queueDelete,
          queueDeleteOk}
    BY MethodNumbers DEF Methods
  <2> QED BY <2>1, MethodNumbers
<1>6. \A m, k \in Methods : m.class = 60 /\ k.class = 60 /\ m.method = k.method => m = k
  <2>1. \A m \in Methods : m.class = 60 => m \in {
          basicQos, basicQosOk, basicConsume, basicConsumeOk, basicCancel,
          basicCancelOk, basicPublish, basicReturn, basicDeliver, basicGet,
          basicGetOk, basicGetEmpty, basicAck, basicReject,
          basicRecoverAsync, basicRecover, basicRecoverOk, basicNack}
    BY MethodNumbers DEF Methods
  <2> QED BY <2>1, MethodNumbers
<1>7. \A m, k \in Methods : m.class = 90 /\ k.class = 90 /\ m.method = k.method => m = k
  <2>1. \A m \in Methods : m.class = 90 => m \in {
          txSelect, txSelectOk, txCommit, txCommitOk, txRollback,
          txRollbackOk}
    BY MethodNumbers DEF Methods
  <2> QED BY <2>1, MethodNumbers
<1>8. \A m, k \in Methods : m.class = 85 /\ k.class = 85 /\ m.method = k.method => m = k
  <2>1. \A m \in Methods : m.class = 85 => m \in {
          confirmSelect, confirmSelectOk}
    BY MethodNumbers DEF Methods
  <2> QED BY <2>1, MethodNumbers
<1>9. \A m \in Methods : m.class \in {10, 20, 40, 50, 60, 90, 85}
  BY MethodNumbers DEF Methods
<1> QED BY <1>1, <1>2, <1>3, <1>4, <1>5, <1>6, <1>7, <1>8, <1>9

-----------------------------------------------------------------------------
(* The arguments of a method, one after the other.                         *)

LEMMA NextArgumentIs ==
  ASSUME NEW vs, NEW r, NEW kind, NEW v, NEW rest, ReadArgument(kind, r) = Ok(v, rest)
  PROVE  NextArgument(Ok(vs, r), kind) = Ok(Append(vs, v), rest)
<1>1. PICK x : x = ReadArgument(kind, r)
  OBVIOUS
<1>2. x.err = "nil" /\ x.v = v /\ x.rest = rest
  BY <1>1, OkIs
<1>3. PICK args : args = Ok(vs, r)
  OBVIOUS
<1>4. args.err = "nil" /\ args.v = vs /\ args.rest = r
  BY <1>3, OkIs
<1>5. NextArgument(args, kind) =
        Then(args, LAMBDA vs1, r1 :
          Then(ReadArgument(kind, r1), LAMBDA v1, rest1 : Ok(Append(vs1, v1), rest1)))
  BY DEF NextArgument
<1>6. NextArgument(args, kind) =
        Then(x, LAMBDA v1, rest1 : Ok(Append(vs, v1), rest1))
  BY <1>1, <1>4, <1>5 DEF Then
<1>7. NextArgument(args, kind) = Ok(Append(vs, v), rest)
  BY <1>2, <1>6 DEF Then
<1> QED BY <1>3, <1>7

ArgumentsCarried(n, kinds, args, vs) ==
  DOMAIN vs = 1 .. n /\ \A i \in 1 .. n : ArgumentCarried(kinds[i], args[i], vs[i])

LeftOf(left, outs, n, s) ==
  /\ left[1] = Joined(outs) \o s /\ left[n + 1] = s
  /\ \A i \in 1 .. n : left[i + 1] \in Chunks /\ left[i] = outs[i] \o left[i + 1]

(* What is left to read when the first of some sequences are read.         *)
LEMMA LeftIs ==
  ASSUME NEW n \in Nat, NEW outs \in Seq(Chunks), Len(outs) = n, NEW s \in Chunks
  PROVE  \E left : LeftOf(left, outs, n, s)
<1>1. PICK from : from = JoinedFrom(outs)
  OBVIOUS
<1>2. \A i \in 1 .. n + 1 : from[i] \in Chunks
  BY <1>1, JoinedFromOf
<1>3. PICK left : left = [i \in 1 .. n + 1 |-> from[i] \o s]
  OBVIOUS
<1>4. \A i \in 1 .. n + 1 : left[i] \in Chunks /\ left[i] = from[i] \o s
  BY <1>2, <1>3, ChunksConcat
<1>5. left[1] = Joined(outs) \o s /\ left[n + 1] = s
  <2>1. from[n + 1] = <<>>
    BY <1>1, JoinedFromOf
  <2>2. PICK k \in 1 .. n + 1 : k = n + 1
    OBVIOUS
  <2>3. from[k] = <<>> /\ left[k] = from[k] \o s
    BY <1>4, <2>1, <2>2
  <2>4. <<>> \o s = s
    BY ChunksConcat
  <2>5. left[n + 1] = s
    BY <2>2, <2>3, <2>4
  <2>6. PICK o \in 1 .. n + 1 : o = 1
    OBVIOUS
  <2>7. left[o] = from[o] \o s
    BY <1>4
  <2>8. Joined(outs) = from[o]
    BY <1>1, <2>6 DEF Joined
  <2> QED BY <2>5, <2>6, <2>7, <2>8
<1>6. \A i \in 1 .. n : left[i] = outs[i] \o left[i + 1]
  <2> SUFFICES ASSUME NEW i \in 1 .. n PROVE left[i] = outs[i] \o left[i + 1]
    OBVIOUS
  <2>1. PICK j \in 1 .. n + 1 : j = i + 1
    OBVIOUS
  <2>2. from[i] = outs[i] \o from[j] /\ outs[i] \in Chunks /\ from[j] \in Chunks
    BY <1>1, <2>1, JoinedNext
  <2>3. PICK a \in Chunks, b \in Chunks : a = outs[i] /\ b = from[j]
    BY <2>2
  <2>4. (a \o b) \o s = a \o (b \o s)
    BY ChunksConcat, Zenon
  <2>5. PICK k \in 1 .. n + 1 : k = i
    OBVIOUS
  <2>6. left[k] = from[k] \o s /\ left[j] = from[j] \o s
    BY <1>4
  <2>7. from[k] = a \o b
    BY <2>2, <2>3, <2>5
  <2>8. left[k] = a \o left[j]
    BY <2>3, <2>4, <2>6, <2>7
  <2> QED BY <2>1, <2>3, <2>5, <2>8
<1>7. \A i \in 1 .. n : left[i + 1] \in Chunks
  BY <1>4
<1> QED BY <1>5, <1>6, <1>7 DEF LeftOf

ArgumentsFound(n, kinds, args, in, s) ==
  \E vs : ArgumentsCarried(n, kinds, args, vs) /\ ReadArguments(kinds, in) = Ok(vs, s)

(* What one argument after the other leaves is read in the same order.     *)
LEMMA ReadArgumentsIs ==
  ASSUME NEW n \in Nat, NEW kinds \in Seq(Kinds), Len(kinds) = n, NEW args, NEW writes,
         \A i \in 1 .. n : ArgumentReads(kinds[i], args[i], writes[i]),
         \A i \in 1 .. n : writes[i].err = "nil",
         NEW outs \in Seq(Chunks), Len(outs) = n, \A i \in 1 .. n : outs[i] = writes[i].out,
         Fits(Joined(outs)), NEW s \in Chunks
  PROVE  ArgumentsFound(n, kinds, args, Joined(outs) \o s, s)
<1>1. PICK left : LeftOf(left, outs, n, s)
  BY LeftIs
<1>2. left[1] = Joined(outs) \o s /\ left[n + 1] = s
  BY <1>1 DEF LeftOf
<1>3. \A i \in 1 .. n : left[i + 1] \in Chunks /\ left[i] = outs[i] \o left[i + 1]
  BY <1>1 DEF LeftOf
<1>4. \A i \in 1 .. n : \E r : /\ ArgumentCarried(kinds[i], args[i], r)
                               /\ ReadArgument(kinds[i], left[i]) = Ok(r, left[i + 1])
  <2> SUFFICES ASSUME NEW i \in 1 .. n
               PROVE  \E r : /\ ArgumentCarried(kinds[i], args[i], r)
                             /\ ReadArgument(kinds[i], left[i]) = Ok(r, left[i + 1])
    OBVIOUS
  <2>1. ArgumentReads(kinds[i], args[i], writes[i]) /\ writes[i].err = "nil"
    OBVIOUS
  <2>2. PICK t \in Chunks : t = left[i + 1] /\ left[i] = outs[i] \o t
    BY <1>3
  <2>3. outs[i] = writes[i].out /\ Fits(outs[i])
    BY JoinedFits
  <2>4. t = left[i + 1] /\ left[i] = writes[i].out \o t
    BY <2>2, <2>3
  <2>5. \E r : ArgumentCarried(kinds[i], args[i], r) /\ ReadArgument(kinds[i], writes[i].out \o t) = Ok(r, t)
    BY <2>1, <2>3 DEF ArgumentReads
  <2> QED BY <2>4, <2>5
<1>5. PICK vs : vs = [i \in 1 .. n |-> CHOOSE r :
                        /\ ArgumentCarried(kinds[i], args[i], r)
                        /\ ReadArgument(kinds[i], left[i]) = Ok(r, left[i + 1])]
  OBVIOUS
<1>6. \A i \in 1 .. n : /\ ArgumentCarried(kinds[i], args[i], vs[i])
                        /\ ReadArgument(kinds[i], left[i]) = Ok(vs[i], left[i + 1])
  BY <1>4, <1>5
<1>7. DOMAIN vs = 1 .. n /\ vs = [i \in 1 .. n |-> vs[i]]
  BY <1>5
<1>8. PICK in : in = Joined(outs) \o s
  OBVIOUS
<1>9. PICK done : done = ArgumentsRead(kinds, in)
  OBVIOUS
<1>10. done = [i \in 0 .. n |-> IF i = 0 THEN Ok(<<>>, in) ELSE NextArgument(done[i - 1], kinds[i])]
  BY <1>9, ArgumentsReadIs
<1>11. done[0] = Ok(<<>>, in) /\ \A i \in 0 .. n - 1 : done[i + 1] = NextArgument(done[i], kinds[i + 1])
  <2>1. done[0] = Ok(<<>>, in)
    BY <1>10
  <2>2. ASSUME NEW i \in 0 .. n - 1 PROVE done[i + 1] = NextArgument(done[i], kinds[i + 1])
    <3>1. i + 1 \in 0 .. n /\ i + 1 # 0 /\ (i + 1) - 1 = i
      OBVIOUS
    <3> QED BY <1>10, <3>1
  <2> QED BY <2>1, <2>2
<1>12. PICK S : S = {i \in Nat : i <= n => done[i] = Ok([j \in 1 .. i |-> vs[j]], left[i + 1])}
  OBVIOUS
<1>13. 0 \in S
  <2>1. PICK k : k = 0
    OBVIOUS
  <2>2. <<>> = [j \in 1 .. k |-> vs[j]]
    BY <2>1
  <2>3. PICK o : o = k + 1
    OBVIOUS
  <2>4. left[o] = in
    BY <1>2, <1>8, <2>1, <2>3
  <2>5. done[k] = Ok(<<>>, in)
    BY <1>11, <2>1
  <2>6. done[k] = Ok([j \in 1 .. k |-> vs[j]], left[k + 1])
    BY <2>2, <2>3, <2>4, <2>5
  <2>7. k \in S
    BY <1>12, <2>1, <2>6
  <2> QED BY <2>1, <2>7
<1>14. ASSUME NEW i \in Nat, i \in S PROVE i + 1 \in S
  <2> SUFFICES ASSUME i + 1 <= n
               PROVE  done[i + 1] = Ok([j \in 1 .. i + 1 |-> vs[j]], left[(i + 1) + 1])
    BY <1>12
  <2>1. PICK k \in 1 .. n : k = i + 1 /\ i \in 0 .. n - 1
    OBVIOUS
  <2>2. PICK a : a = [j \in 1 .. i |-> vs[j]]
    OBVIOUS
  <2>3. done[i] = Ok(a, left[k])
    BY <1>12, <1>14, <2>1, <2>2
  <2>4. NextArgument(Ok(a, left[k]), kinds[k]) = Ok(Append(a, vs[k]), left[k + 1])
    BY <1>6, NextArgumentIs
  <2>5. Append(a, vs[k]) = [j \in 1 .. i + 1 |-> vs[j]]
    <3>1. PICK V : V = {vs[j] : j \in 1 .. n}
      OBVIOUS
    <3>2. \A j \in 1 .. i + 1 : vs[j] \in V
      BY <3>1
    <3> QED BY <2>1, <2>2, <3>2, PrefixAppend
  <2> QED BY <1>11, <2>1, <2>3, <2>4, <2>5
<1>15. n \in S
  BY <1>13, <1>14, Upwards
<1>16. done[n] = Ok(vs, s)
  <2>1. done[n] = Ok([j \in 1 .. n |-> vs[j]], left[n + 1])
    BY <1>12, <1>15
  <2> QED BY <1>2, <1>7, <2>1
<1>17. ReadArguments(kinds, in) = Ok(vs, s)
  BY <1>9, <1>16 DEF ReadArguments
<1>18. ArgumentsCarried(n, kinds, args, vs)
  BY <1>6, <1>7 DEF ArgumentsCarried
<1> QED BY <1>8, <1>17, <1>18 DEF ArgumentsFound
-----------------------------------------------------------------------------
(* Payloads: what is written of a frame is read as that frame, and all of  *)
(* it, whatever comes after it.                                            *)

FrameReads(f, w, s) ==
  \E g : /\ FrameCarried(f, g)
         /\ parseFrame(FrameType[f.kind], f.channel, Size(w.out), w.out \o s) = Ok(g, s)

PayloadReads(f, w) ==
  /\ IsWrite(w)
  /\ w.err = "nil" <=> \A t \in Tables(f) : Validate(t)
  /\ w.err = "nil" /\ Fits(w.out) => \A s \in Chunks : FrameReads(f, w, s)

(* The two numbers before a method's arguments say which method it is.     *)
LEMMA MethodNamed ==
  ASSUME NEW m \in Methods
  PROVE  Named(m.class, m.method) = {m}
BY MethodsIs DEF Named

MethodHead(m) == Number(2, m.class) \o Number(2, m.method)
MethodFrame(channel, m, vs) ==
  [kind |-> "method", channel |-> channel, method |-> m, args |-> vs]

LEMMA ParseMethodIs ==
  ASSUME NEW m \in Methods, NEW channel, NEW c \in Chunks, NEW vs, NEW s,
         ReadArguments(m.args, c) = Ok(vs, s)
  PROVE  parseMethodFrame(channel, MethodHead(m) \o c) = Ok(MethodFrame(channel, m, vs), s)
<1>1. PICK class \in Int, id \in Int : class = m.class /\ id = m.method
  BY MethodsIs
<1>2. PICK a \in Chunks, b \in Chunks : a = Number(2, class) /\ b = Number(2, id)
  BY PiecesIn
<1>3. (a \o b) \o c = a \o (b \o c) /\ b \o c \in Chunks
  BY ChunksConcat, Zenon
<1>4. PICK in : in = MethodHead(m) \o c
  OBVIOUS
<1>5. in = a \o (b \o c)
  BY <1>1, <1>2, <1>3, <1>4 DEF MethodHead
<1>6. PICK w \in Nat \ {0} : w = 2
  OBVIOUS
<1>7. ReadNumber(w, a \o (b \o c)) = Ok(class, b \o c) /\ ReadNumber(w, b \o c) = Ok(id, c)
  BY <1>2, <1>3, <1>6, ReadNumberIs, Zenon
<1>8. PICK bc : bc = b \o c
  OBVIOUS
<1>9. PICK x : x = ReadNumber(2, in) /\ x.err = "nil" /\ x.v = class /\ x.rest = bc
  <2>1. ReadNumber(2, in) = Ok(class, bc)
    BY <1>5, <1>6, <1>7, <1>8
  <2> QED BY <2>1, OkIs
<1>10. PICK y : y = ReadNumber(2, bc) /\ y.err = "nil" /\ y.v = id /\ y.rest = c
  <2>1. ReadNumber(2, bc) = Ok(id, c)
    BY <1>6, <1>7, <1>8
  <2> QED BY <2>1, OkIs
<1>11. PICK z : z = ReadArguments(m.args, c) /\ z.err = "nil" /\ z.v = vs /\ z.rest = s
  BY OkIs
<1>12. parseMethodFrame(channel, in) = ReadMethod(channel, Named(class, id), c)
  BY <1>9, <1>10 DEF parseMethodFrame, Then
<1>13. PICK named : named = Named(class, id) /\ named = {m}
  BY <1>1, MethodNamed
<1>14. (CHOOSE j \in named : TRUE) = m /\ named # {}
  BY <1>13
<1>15. PICK k : k = (CHOOSE j \in named : TRUE) /\ k = m
  BY <1>14
<1>16. ReadMethod(channel, named, c) =
         IF ReadArguments(k.args, c).err = "nil"
         THEN Ok([kind |-> "method", channel |-> channel, method |-> k,
                  args |-> ReadArguments(k.args, c).v], ReadArguments(k.args, c).rest)
         ELSE ReadArguments(k.args, c)
  BY <1>14, <1>15 DEF ReadMethod, Then
<1>17. ReadMethod(channel, named, c) =
         Ok([kind |-> "method", channel |-> channel, method |-> m, args |-> vs], s)
  BY <1>11, <1>15, <1>16
<1> QED BY <1>4, <1>12, <1>13, <1>17 DEF MethodFrame

TablesOf(f, tables) == tables \in OneOfEach([t \in Tables(f) |-> writeTable(t)])

LEMMA TablesOfIs ==
  ASSUME NEW f, NEW tables, TablesOf(f, tables), NEW t \in Tables(f)
  PROVE  tables[t] \in writeTable(t)
<1>1. PICK sets : sets = [x \in Tables(f) |-> writeTable(x)]
  OBVIOUS
<1>2. \A x \in DOMAIN sets : tables[x] \in sets[x]
  BY <1>1, OneOfEachIs DEF TablesOf
<1> QED BY <1>1, <1>2

LEMMA FrameTypes ==
  /\ FrameType["method"] = 1 /\ FrameType["header"] = 2
  /\ FrameType["body"] = 3 /\ FrameType["heartbeat"] = 8
  /\ DOMAIN FrameType = {"method", "header", "body", "heartbeat"}
BY DEF FrameType

LEMMA MethodReads ==
  ASSUME NEW f, IsFrame(f), f.kind = "method", NEW tables, TablesOf(f, tables)
  PROVE  PayloadReads(f, methodPayload(f, tables))
<1>1. PICK m \in Methods : m = f.method
  BY DEF IsFrame
<1>2. PICK kinds \in Seq(Kinds) : kinds = m.args
  BY MethodsIs
<1>3. PICK n \in Nat : n = Len(kinds) /\ DOMAIN kinds = 1 .. n /\ \A i \in 1 .. n : kinds[i] \in Kinds
  BY SeqIs
<1>4. PICK args : args = f.args
  OBVIOUS
<1>5. DOMAIN args = 1 .. n /\ \A i \in 1 .. n : IsArgument(kinds[i], args[i])
  BY <1>1, <1>2, <1>3, <1>4 DEF IsFrame
<1>6. Tables(f) = {args[i] : i \in {j \in 1 .. n : kinds[j] = "table"}}
  BY <1>1, <1>2, <1>4, <1>5 DEF Tables
<1>7. PICK writes : writes = [i \in 1 .. n |-> WriteArgument(kinds[i], args[i], tables[args[i]])]
  OBVIOUS
<1>8. \A i \in 1 .. n : ArgumentReads(kinds[i], args[i], writes[i])
  <2> SUFFICES ASSUME NEW i \in 1 .. n PROVE ArgumentReads(kinds[i], args[i], writes[i])
    OBVIOUS
  <2>1. PICK table : table = tables[args[i]]
    OBVIOUS
  <2>2. kinds[i] = "table" => table \in writeTable(args[i])
    BY <1>6, <2>1, TablesOfIs
  <2>3. ArgumentReads(kinds[i], args[i], WriteArgument(kinds[i], args[i], table))
    BY <1>3, <1>5, <2>2, ArgumentIs
  <2> QED BY <1>7, <2>1, <2>3
<1>9. \A i \in 1 .. n : IsWrite(writes[i]) /\ (writes[i].err = "nil" <=> (kinds[i] = "table" => Validate(args[i])))
  BY <1>8 DEF ArgumentReads
<1>10. PICK outs : outs = [i \in 1 .. n |-> writes[i].out]
  OBVIOUS
<1>11. DOMAIN writes = 1 .. n
  BY <1>7
<1>12. PICK all : all = WriteAll(writes)
  OBVIOUS
<1>13. IsWrite(all) /\ (all.err = "nil" <=> \A i \in 1 .. n : writes[i].err = "nil")
  BY <1>9, <1>10, <1>11, <1>12, WriteAllIs
<1>14. all.err = "nil" <=> \A t \in Tables(f) : Validate(t)
  BY <1>6, <1>9, <1>13
<1>15. m.class \in Int /\ m.method \in Int
  BY MethodsIs
<1>16. PICK head \in Chunks : head = MethodHead(m)
  <2>1. PICK a \in Chunks, b \in Chunks : a = Number(2, m.class) /\ b = Number(2, m.method)
    BY <1>15, PiecesIn
  <2>2. a \o b \in Chunks
    BY ChunksConcat
  <2> QED BY <2>1, <2>2 DEF MethodHead
<1>17. PICK w : w = After(head, all)
  OBVIOUS
<1>18. methodPayload(f, tables) = w
  BY <1>1, <1>2, <1>3, <1>4, <1>7, <1>12, <1>16, <1>17 DEF methodPayload, MethodHead
<1>19. IsWrite(w) /\ (w.err = "nil" <=> \A t \in Tables(f) : Validate(t))
  BY <1>13, <1>14, <1>17, AfterIs
<1>20. ASSUME w.err = "nil", Fits(w.out), NEW s \in Chunks PROVE FrameReads(f, w, s)
  <2>1. all.err = "nil" /\ \A i \in 1 .. n : writes[i].err = "nil"
    BY <1>13, <1>14, <1>19, <1>20
  <2>2. outs \in Seq(Chunks) /\ Len(outs) = n /\ \A i \in 1 .. n : outs[i] = writes[i].out
    BY <1>9, <1>10, <1>11, <2>1, WriteAllIs
  <2>3. all = Written(Joined(outs)) /\ Joined(outs) \in Chunks
    BY <1>9, <1>10, <1>11, <1>12, <2>1, WriteAllIs
  <2>4. PICK c \in Chunks : c = Joined(outs) /\ all = Written(c)
    BY <2>3
  <2>5. w.out = head \o c
    BY <1>17, <2>4, AfterIs, WrittenIs
  <2>6. Fits(Joined(outs))
    BY <1>20, <2>4, <2>5, PartsFit
  <2>7. ArgumentsFound(n, kinds, args, Joined(outs) \o s, s)
    BY <1>3, <1>8, <2>1, <2>2, <2>6, ReadArgumentsIs
  <2>8. PICK vs : ArgumentsCarried(n, kinds, args, vs) /\ ReadArguments(kinds, Joined(outs) \o s) = Ok(vs, s)
    BY <2>7 DEF ArgumentsFound
  <2>9. PICK cs \in Chunks : cs = c \o s
    BY ChunksConcat
  <2>10. (head \o c) \o s = head \o (c \o s)
    BY ChunksConcat, Zenon
  <2>11. w.out \o s = head \o cs
    BY <2>9, <2>5, <2>10
  <2>12. PICK g : g = MethodFrame(f.channel, m, vs)
    OBVIOUS
  <2>13. ReadArguments(m.args, cs) = Ok(vs, s)
    BY <1>2, <2>4, <2>8, <2>9
  <2>14. parseMethodFrame(f.channel, head \o cs) = Ok(g, s)
    <3>1. parseMethodFrame(f.channel, MethodHead(m) \o cs) = Ok(MethodFrame(f.channel, m, vs), s)
      BY <2>13, ParseMethodIs
    <3> QED BY <1>16, <2>12, <3>1
  <2>15. parseFrame(FrameType[f.kind], f.channel, Size(w.out), w.out \o s) = Ok(g, s)
    BY <2>11, <2>14, FrameTypes DEF parseFrame
  <2>16. FrameCarried(f, g)
    <3>1. g.kind = f.kind /\ g.channel = f.channel /\ g.method = f.method /\ g.args = vs
      BY <1>1, <2>12 DEF MethodFrame
    <3>2. DOMAIN g.args = DOMAIN f.args
      BY <1>4, <1>5, <2>8, <3>1 DEF ArgumentsCarried
    <3>3. \A i \in DOMAIN f.args : ArgumentCarried(f.method.args[i], f.args[i], g.args[i])
      BY <1>1, <1>2, <1>4, <1>5, <2>8, <3>1 DEF ArgumentsCarried
    <3> QED BY <3>1, <3>2, <3>3 DEF FrameCarried
  <2> QED BY <2>15, <2>16 DEF FrameReads
<1> QED BY <1>18, <1>19, <1>20 DEF PayloadReads

-----------------------------------------------------------------------------
(* The properties of a header.                                             *)

NameOf(i) == Properties[i].name
KindOf(i) == Properties[i].kind

LEMMA NamesAre ==
  /\ NameOf(1) = "ContentType" /\ NameOf(2) = "ContentEncoding"
  /\ NameOf(3) = "Headers" /\ NameOf(4) = "DeliveryMode" /\ NameOf(5) = "Priority"
  /\ NameOf(6) = "CorrelationId" /\ NameOf(7) = "ReplyTo" /\ NameOf(8) = "Expiration"
  /\ NameOf(9) = "MessageId" /\ NameOf(10) = "Timestamp" /\ NameOf(11) = "Type"
  /\ NameOf(12) = "UserId" /\ NameOf(13) = "AppId" /\ NameOf(14) = "reserved1"
BY DEF NameOf, Properties, Property

LEMMA KindsOf ==
  /\ KindOf(3) = "table" /\ KindOf(4) = "octet" /\ KindOf(5) = "octet"
  /\ KindOf(10) = "timestamp"
  /\ \A i \in 1 .. 14 : i \notin {3, 4, 5, 10} => KindOf(i) = "shortstr"
<1>1. \A i \in 1 .. 14 : i \in {1, 2, 3, 4, 5, 6, 7, 8, 9, 10, 11, 12, 13, 14}
  OBVIOUS
<1>2. /\ KindOf(1) = "shortstr" /\ KindOf(2) = "shortstr" /\ KindOf(3) = "table"
      /\ KindOf(4) = "octet" /\ KindOf(5) = "octet" /\ KindOf(6) = "shortstr"
      /\ KindOf(7) = "shortstr" /\ KindOf(8) = "shortstr" /\ KindOf(9) = "shortstr"
      /\ KindOf(10) = "timestamp" /\ KindOf(11) = "shortstr" /\ KindOf(12) = "shortstr"
      /\ KindOf(13) = "shortstr" /\ KindOf(14) = "shortstr"
  BY DEF KindOf, Properties, Property
<1> QED BY <1>1, <1>2

(* No two properties have the same name.                                   *)
LEMMA NamesDiffer ==
  ASSUME NEW i \in 1 .. 14, NEW j \in 1 .. 14, NameOf(i) = NameOf(j)
  PROVE  i = j
<1>1. PICK number :
        number = [ContentType |-> 1, ContentEncoding |-> 2, Headers |-> 3,
                  DeliveryMode |-> 4, Priority |-> 5, CorrelationId |-> 6,
                  ReplyTo |-> 7, Expiration |-> 8, MessageId |-> 9,
                  Timestamp |-> 10, Type |-> 11, UserId |-> 12, AppId |-> 13,
                  reserved1 |-> 14]
  OBVIOUS
<1>2. /\ number["ContentType"] = 1 /\ number["ContentEncoding"] = 2
      /\ number["Headers"] = 3 /\ number["DeliveryMode"] = 4
      /\ number["Priority"] = 5 /\ number["CorrelationId"] = 6
      /\ number["ReplyTo"] = 7 /\ number["Expiration"] = 8
      /\ number["MessageId"] = 9 /\ number["Timestamp"] = 10
      /\ number["Type"] = 11 /\ number["UserId"] = 12
      /\ number["AppId"] = 13 /\ number["reserved1"] = 14
  BY <1>1
<1>3. ASSUME NEW k \in 1 .. 14 PROVE number[NameOf(k)] = k
  <2>1. k \in {1, 2, 3, 4, 5, 6, 7, 8, 9, 10, 11, 12, 13, 14}
    OBVIOUS
  <2> QED BY <1>2, <2>1, NamesAre
<1> QED BY <1>3

(* All of a property's kind is in Zero, and is carried as it is.           *)
LEMMA ZeroIs ==
  ASSUME NEW i \in 1 .. 14
  PROVE  /\ KindOf(i) \in Kinds /\ (KindOf(i) = "table" <=> i = 3)
         /\ KindOf(i) = "table" => Validate(Zero[KindOf(i)])
         /\ ArgumentCarried(KindOf(i), Zero[KindOf(i)], Zero[KindOf(i)])
<1>1. KindOf(i) \in {"shortstr", "table", "octet", "timestamp"} /\ (KindOf(i) = "table" <=> i = 3)
  BY KindsOf
<1>2. /\ Zero["shortstr"] = <<"none", 0>> /\ Zero["table"] = <<>> /\ Zero["octet"] = 0
      /\ Zero["timestamp"] = <<-1, 0>>
  BY DEF Zero, ZeroTime
<1>3. CASE KindOf(i) = "shortstr"
  <2>1. 0 % ShortLimit = 0
    BY DEF ShortLimit
  <2>2. CarriedShort(<<"none", 0>>) = <<"none", 0>>
    BY <2>1 DEF CarriedShort, Cut
  <2>3. ArgumentCarried("shortstr", <<"none", 0>>, <<"none", 0>>)
    BY <2>2 DEF ArgumentCarried
  <2> QED BY <1>1, <1>2, <1>3, <2>3 DEF Kinds
<1>4. CASE KindOf(i) = "octet"
  <2>1. ArgumentCarried("octet", 0, 0)
    BY DEF ArgumentCarried
  <2>2. "octet" \in Kinds
    BY KindsAre DEF Kinds
  <2> QED BY <1>1, <1>2, <1>4, <2>1, <2>2
<1>5. CASE KindOf(i) = "timestamp"
  <2>1. ArgumentCarried("timestamp", <<-1, 0>>, <<-1, 0>>)
    BY DEF ArgumentCarried
  <2> QED BY <1>1, <1>2, <1>5, <2>1 DEF Kinds
<1>6. CASE KindOf(i) = "table"
  <2>1. Validate(<<>>)
    BY DEF Validate
  <2>2. PICK t : t = <<>>
    OBVIOUS
  <2>3. DOMAIN t = {}
    BY <2>2
  <2>4. t \in TableCarries(t, Inside(t, Carried))
    <3>1. PICK S : S = UNION Range(Inside(t, Carried))
      OBVIOUS
    <3>2. {CarriedShort(k) : k \in DOMAIN t} = {}
      BY <2>3
    <3>3. t \in [{} -> S]
      BY <2>2
    <3> QED BY <2>3, <3>1, <3>2, <3>3 DEF TableCarries
  <2>5. ArgumentCarried("table", t, t)
    BY <2>4, StringKinds
  <2>6. "table" \in Kinds
    BY DEF Kinds
  <2> QED BY <1>1, <1>2, <1>6, <2>1, <2>2, <2>5, <2>6
<1> QED BY <1>1, <1>3, <1>4, <1>5, <1>6

LEMMA NoPropertiesIs ==
  /\ NoProperties = [name \in PropertyName |-> NoProperties[name]]
  /\ \A i \in 1 .. 14 : NameOf(i) \in PropertyName /\ NoProperties[NameOf(i)] = Zero[KindOf(i)]
<1>1. NoProperties = [name \in PropertyName |-> NoProperties[name]]
  BY DEF NoProperties
<1>2. ASSUME NEW i \in 1 .. 14
      PROVE  NameOf(i) \in PropertyName /\ NoProperties[NameOf(i)] = Zero[KindOf(i)]
  <2>1. NameOf(i) \in PropertyName
    BY DEF PropertyName, NameOf
  <2>2. PICK k : k = (CHOOSE j \in 1 .. 14 : Properties[j].name = NameOf(i))
    OBVIOUS
  <2>3. k \in 1 .. 14 /\ NameOf(k) = NameOf(i)
    BY <2>2 DEF NameOf
  <2>4. k = i
    BY <2>3, NamesDiffer
  <2>5. NoProperties[NameOf(i)] = Zero[Properties[k].kind]
    BY <2>1, <2>2 DEF NoProperties
  <2> QED BY <2>1, <2>4, <2>5 DEF KindOf
<1> QED BY <1>1, <1>2

WithProperty(P, i, v) == [P EXCEPT ![NameOf(i)] = v]

PropertyAt(i) == Properties[i]
HasPropertyAt(i, flags) == hasProperty(flags, Properties[i].flag)

LEMMA NextPropertyIs ==
  ASSUME NEW vs, NEW r, NEW i, NEW flags, NEW v, NEW rest,
         i \in 1 .. 14, HasPropertyAt(i, flags), ReadArgument(KindOf(i), r) = Ok(v, rest)
  PROVE  NextProperty(Ok(vs, r), PropertyAt(i), flags) = Ok(WithProperty(vs, i, v), rest)
<1>1. PICK x : x = ReadArgument(KindOf(i), r)
  OBVIOUS
<1>2. x.err = "nil" /\ x.v = v /\ x.rest = rest
  BY <1>1, OkIs
<1>3. PICK props : props = Ok(vs, r)
  OBVIOUS
<1>4. props.err = "nil" /\ props.v = vs /\ props.rest = r
  BY <1>3, OkIs
<1>5. PICK p : p = PropertyAt(i)
  OBVIOUS
<1>6. p.name = NameOf(i) /\ p.kind = KindOf(i) /\ hasProperty(flags, p.flag)
  BY <1>5 DEF NameOf, KindOf, PropertyAt, HasPropertyAt
<1>7. NextProperty(props, p, flags) =
        IF ReadArgument(p.kind, props.rest).err = "nil"
        THEN Ok([props.v EXCEPT ![p.name] = ReadArgument(p.kind, props.rest).v],
                ReadArgument(p.kind, props.rest).rest)
        ELSE ReadArgument(p.kind, props.rest)
  BY <1>4, <1>6 DEF NextProperty, Then
<1>8. NextProperty(props, p, flags) = Ok([vs EXCEPT ![NameOf(i)] = v], rest)
  BY <1>1, <1>2, <1>4, <1>6, <1>7
<1> QED BY <1>3, <1>5, <1>8 DEF WithProperty

LEMMA NextPropertyIsNot ==
  ASSUME NEW props, NEW i \in 1 .. 14, NEW flags, ~hasProperty(flags, Properties[i].flag)
  PROVE  NextProperty(props, Properties[i], flags) = props
BY DEF NextProperty

(* What a property has become after the first i of them were read.         *)
PropertiesCarried(i, vs, P) ==
  /\ P = [name \in PropertyName |-> P[name]]
  /\ \A j \in 1 .. 13 :
       ArgumentCarried(KindOf(j), IF j <= i THEN vs[j] ELSE Zero[KindOf(j)], P[NameOf(j)])

LEMMA PropertiesPut ==
  ASSUME NEW i \in 0 .. 12, NEW vs, NEW P, PropertiesCarried(i, vs, P),
         NEW k, k = i + 1, NEW r, ArgumentCarried(KindOf(k), vs[k], r)
  PROVE  PropertiesCarried(k, vs, WithProperty(P, k, r))
<1>1. PICK Q : Q = [P EXCEPT ![NameOf(k)] = r]
  OBVIOUS
<1>2. P = [name \in PropertyName |-> P[name]]
  BY DEF PropertiesCarried
<1>3. k \in 1 .. 14 /\ NameOf(k) \in PropertyName
  BY NoPropertiesIs
<1>4. Q = [name \in PropertyName |-> IF name = NameOf(k) THEN r ELSE P[name]]
  BY <1>1, <1>2, <1>3
<1>5. Q = [name \in PropertyName |-> Q[name]]
  BY <1>4
<1>6. ASSUME NEW j \in 1 .. 13
      PROVE  ArgumentCarried(KindOf(j), IF j <= k THEN vs[j] ELSE Zero[KindOf(j)], Q[NameOf(j)])
  <2>1. NameOf(j) \in PropertyName /\ j \in 1 .. 14
    BY NoPropertiesIs
  <2>2. CASE j = k
    <3>1. Q[NameOf(j)] = r
      BY <1>3, <1>4, <2>2
    <3> QED BY <2>2, <3>1
  <2>3. CASE j # k
    <3>1. NameOf(j) # NameOf(k)
      BY <1>3, <2>1, <2>3, NamesDiffer
    <3>2. Q[NameOf(j)] = P[NameOf(j)]
      BY <1>4, <2>1, <3>1
    <3>3. j <= k <=> j <= i
      BY <2>3
    <3>4. ArgumentCarried(KindOf(j), IF j <= i THEN vs[j] ELSE Zero[KindOf(j)], P[NameOf(j)])
      BY DEF PropertiesCarried
    <3> QED BY <3>2, <3>3, <3>4
  <2> QED BY <2>2, <2>3
<1> QED BY <1>1, <1>5, <1>6 DEF PropertiesCarried, WithProperty

LEMMA PropertiesLeft ==
  ASSUME NEW i \in 0 .. 12, NEW vs, NEW P, PropertiesCarried(i, vs, P),
         NEW k, k = i + 1, vs[k] = Zero[KindOf(k)]
  PROVE  PropertiesCarried(k, vs, P)
<1>1. P = [name \in PropertyName |-> P[name]]
  BY DEF PropertiesCarried
<1>2. ASSUME NEW j \in 1 .. 13
      PROVE  ArgumentCarried(KindOf(j), IF j <= k THEN vs[j] ELSE Zero[KindOf(j)], P[NameOf(j)])
  <2>1. ArgumentCarried(KindOf(j), IF j <= i THEN vs[j] ELSE Zero[KindOf(j)], P[NameOf(j)])
    BY DEF PropertiesCarried
  <2>2. CASE j = k
    <3>1. ~(j <= i) /\ j <= k
      BY <2>2
    <3>2. vs[j] = Zero[KindOf(j)]
      BY <2>2
    <3> QED BY <2>1, <3>1, <3>2
  <2>3. CASE j # k
    <3>1. j <= k <=> j <= i
      BY <2>3
    <3> QED BY <2>1, <3>1
  <2> QED BY <2>2, <2>3
<1> QED BY <1>1, <1>2 DEF PropertiesCarried

LEMMA PropertiesNone ==
  ASSUME NEW vs
  PROVE  PropertiesCarried(0, vs, NoProperties)
<1>1. NoProperties = [name \in PropertyName |-> NoProperties[name]]
  BY NoPropertiesIs, Zenon
<1>2. ASSUME NEW j \in 1 .. 13
      PROVE  ArgumentCarried(KindOf(j), IF j <= 0 THEN vs[j] ELSE Zero[KindOf(j)], NoProperties[NameOf(j)])
  <2>1. j \in 1 .. 14 /\ ~(j <= 0)
    OBVIOUS
  <2>2. NoProperties[NameOf(j)] = Zero[KindOf(j)]
    BY <2>1, NoPropertiesIs
  <2>3. ArgumentCarried(KindOf(j), Zero[KindOf(j)], Zero[KindOf(j)])
    BY <2>1, ZeroIs
  <2> QED BY <2>1, <2>2, <2>3
<1> QED BY <1>1, <1>2 DEF PropertiesCarried

PropertyWritten(i, v, w, set) ==
  IF set THEN ArgumentReads(KindOf(i), v, w)
  ELSE w = Written(<<>>) /\ v = Zero[KindOf(i)]

PropertiesFound(vs, flags, in, s) ==
  \E P : PropertiesCarried(13, vs, P) /\ PropertiesRead(flags, in)[14] = Ok(P, s)

PropertiesWritten(n, vs, writes, set, outs) ==
  \A i \in 1 .. n : /\ PropertyWritten(i, vs[i], writes[i], set[i])
                    /\ writes[i].err = "nil" /\ outs[i] = writes[i].out

(* Of a property that is set its value is read, of another nothing is.     *)
LEMMA ReadPropertiesIs ==
  ASSUME NEW n, n = 13, NEW outs \in Seq(Chunks), Len(outs) = n,
         NEW vs, NEW writes, NEW set, PropertiesWritten(n, vs, writes, set, outs),
         Fits(Joined(outs)), NEW flags, FlagsSay(flags, set), NEW s \in Chunks
  PROVE  PropertiesFound(vs, flags, Joined(outs) \o s, s)
<1>1. PICK left : LeftOf(left, outs, n, s)
  BY LeftIs
<1>2. left[1] = Joined(outs) \o s /\ left[n + 1] = s
  BY <1>1 DEF LeftOf
<1>3. \A i \in 1 .. n : left[i + 1] \in Chunks /\ left[i] = outs[i] \o left[i + 1]
  BY <1>1 DEF LeftOf
<1>4. PICK in : in = Joined(outs) \o s
  OBVIOUS
<1>5. PICK done : done = PropertiesRead(flags, in)
  OBVIOUS
<1>6. done = [i \in 0 .. 14 |-> IF i = 0 THEN Ok(NoProperties, in)
                                ELSE NextProperty(done[i - 1], Properties[i], flags)]
  BY <1>5, PropertiesReadIs
<1>7. done[0] = Ok(NoProperties, in)
  BY <1>6
<1>8. ASSUME NEW i \in 0 .. 13, NEW k, k = i + 1
      PROVE  done[k] = NextProperty(done[i], Properties[k], flags)
  <2>1. k \in 0 .. 14 /\ k # 0 /\ k - 1 = i
    BY <1>8
  <2> QED BY <1>6, <2>1
<1>9. PICK S : S = {i \in Nat : i <= 13 =>
                      \E P : PropertiesCarried(i, vs, P) /\ done[i] = Ok(P, left[i + 1])}
  OBVIOUS
<1>10. 0 \in S
  <2>1. PICK k : k = 0
    OBVIOUS
  <2>2. PICK o : o = k + 1
    OBVIOUS
  <2>3. left[o] = in
    BY <1>2, <1>4, <2>1, <2>2
  <2>4. done[k] = Ok(NoProperties, left[k + 1])
    BY <1>7, <2>1, <2>2, <2>3
  <2>5. PropertiesCarried(k, vs, NoProperties)
    BY <2>1, PropertiesNone
  <2>6. k \in S
    BY <1>9, <2>1, <2>4, <2>5
  <2> QED BY <2>1, <2>6
<1>11. ASSUME NEW i \in Nat, i \in S PROVE i + 1 \in S
  <2> SUFFICES ASSUME i + 1 <= 13 PROVE i + 1 \in S
    BY <1>9
  <2>1. PICK k : k = i + 1
    OBVIOUS
  <2>2. k \in 1 .. 13 /\ k \in 1 .. 14 /\ i \in 0 .. 12 /\ i \in 0 .. 13 /\ k \in Nat
    BY <2>1
  <2>3. PICK P : PropertiesCarried(i, vs, P) /\ done[i] = Ok(P, left[i + 1])
    BY <1>9, <1>11, <2>2
  <2>4. done[k] = NextProperty(done[i], Properties[k], flags)
    BY <1>8, <2>1, <2>2
  <2>5. PICK b \in Chunks : b = left[k + 1] /\ left[k] = outs[k] \o b
    BY <1>3, <2>2
  <2>6. done[i] = Ok(P, left[k])
    BY <2>1, <2>3
  <2>7. outs[k] = writes[k].out /\ writes[k].err = "nil"
        /\ PropertyWritten(k, vs[k], writes[k], set[k])
        /\ (hasProperty(flags, Properties[k].flag) <=> set[k])
    BY <2>2 DEF FlagsSay, PropertiesWritten
  <2>8. CASE set[k]
    <3>1. ArgumentReads(KindOf(k), vs[k], writes[k])
      BY <2>7, <2>8 DEF PropertyWritten
    <3>2. Fits(outs[k])
      <4>1. n \in Nat /\ k \in 1 .. n
        BY <2>2
      <4> QED BY <4>1, JoinedFits
    <3>3. PICK r : ArgumentCarried(KindOf(k), vs[k], r)
                   /\ ReadArgument(KindOf(k), writes[k].out \o b) = Ok(r, b)
      BY <2>5, <2>7, <3>1, <3>2 DEF ArgumentReads
    <3>4. ReadArgument(KindOf(k), left[k]) = Ok(r, b)
      BY <2>5, <2>7, <3>3
    <3>5. PICK a : a = left[k]
      OBVIOUS
    <3>6. NextProperty(Ok(P, a), Properties[k], flags) = Ok(WithProperty(P, k, r), b)
      <4>1. k \in 1 .. 14 /\ HasPropertyAt(k, flags)
        BY <2>2, <2>7, <2>8 DEF HasPropertyAt
      <4>2. ReadArgument(KindOf(k), a) = Ok(r, b)
        BY <3>4, <3>5
      <4>3. NextProperty(Ok(P, a), PropertyAt(k), flags) = Ok(WithProperty(P, k, r), b)
        BY <4>1, <4>2, NextPropertyIs
      <4> QED BY <4>3 DEF PropertyAt
    <3>7. PropertiesCarried(k, vs, WithProperty(P, k, r))
      BY <2>1, <2>2, <2>3, <3>3, PropertiesPut
    <3>8. done[k] = Ok(WithProperty(P, k, r), left[k + 1])
      BY <2>4, <2>5, <2>6, <3>5, <3>6
    <3>9. k \in S
      BY <1>9, <2>2, <3>7, <3>8
    <3> QED BY <2>1, <3>9
  <2>9. CASE ~set[k]
    <3>1. writes[k] = Written(<<>>) /\ vs[k] = Zero[KindOf(k)]
      BY <2>7, <2>9 DEF PropertyWritten
    <3>2. outs[k] = <<>>
      BY <2>7, <3>1, WrittenIs
    <3>3. <<>> \o b = b
      BY ChunksConcat
    <3>4. left[k] = b
      BY <2>5, <3>2, <3>3
    <3>5. done[k] = done[i]
      BY <2>2, <2>4, <2>7, <2>9, NextPropertyIsNot
    <3>6. done[k] = Ok(P, left[k + 1])
      BY <2>5, <2>6, <3>4, <3>5
    <3>7. PropertiesCarried(k, vs, P)
      BY <2>1, <2>2, <2>3, <3>1, PropertiesLeft
    <3>8. k \in S
      BY <1>9, <2>2, <3>6, <3>7
    <3> QED BY <2>1, <3>8
  <2> QED BY <2>8, <2>9
<1>12. n \in S
  BY <1>10, <1>11, Upwards
<1>13. PICK P : PropertiesCarried(n, vs, P) /\ done[n] = Ok(P, left[n + 1])
  BY <1>9, <1>12
<1>14. done[14] = done[n]
  <2>1. PICK k : k = 14 /\ k = n + 1
    OBVIOUS
  <2>2. done[k] = NextProperty(done[n], Properties[k], flags)
    BY <1>8, <2>1
  <2>3. ~hasProperty(flags, Properties[k].flag) /\ k \in 1 .. 14
    BY <2>1 DEF FlagsSay
  <2> QED BY <2>1, <2>2, <2>3, NextPropertyIsNot
<1>15. done[14] = Ok(P, s)
  BY <1>2, <1>13, <1>14
<1> QED BY <1>4, <1>5, <1>13, <1>15 DEF PropertiesFound

HeaderHead(class, weight, size, flags) ==
  Number(2, class) \o Number(2, weight) \o Number(8, size) \o Number(2, flags)
HeaderFrame(channel, class, weight, size, P) ==
  [kind |-> "header", channel |-> channel, class |-> class, weight |-> weight,
   size |-> size, props |-> P]

NumberRead(in, w, n, c) ==
  ReadNumber(w, in).err = "nil" /\ ReadNumber(w, in).v = n /\ ReadNumber(w, in).rest = c
NumberPut(w, n, c) == \E in \in Chunks : in = Number(w, n) \o c /\ NumberRead(in, w, n, c)

(* A number that is read where it was written.                             *)
LEMMA NumberFirst ==
  ASSUME NEW w \in Nat \ {0}, NEW n \in Int, NEW c \in Chunks
  PROVE  NumberPut(w, n, c)
<1>1. PICK a \in Chunks : a = Number(w, n)
  BY PiecesIn
<1>2. PICK in \in Chunks : in = a \o c
  BY ChunksConcat
<1>3. ReadNumber(w, Number(w, n) \o c) = Ok(n, c)
  BY ReadNumberIs, Zenon
<1>4. ReadNumber(w, in) = Ok(n, c)
  BY <1>1, <1>2, <1>3
<1>5. NumberRead(in, w, n, c)
  BY <1>4, OkIs DEF NumberRead
<1> QED BY <1>1, <1>2, <1>5 DEF NumberPut

HeaderThen(class, weight, size, flags, c) ==
  Number(2, class) \o (Number(2, weight) \o (Number(8, size) \o (Number(2, flags) \o c)))

Regrouped4(a, b, c, d) == ((a \o b) \o c) \o d = a \o (b \o (c \o d))
Regrouped5(a, b, c, d, e) == (((a \o b) \o c) \o d) \o e = a \o (b \o (c \o (d \o e)))

LEMMA Regroup4 ==
  ASSUME NEW a \in Chunks, NEW b \in Chunks, NEW c \in Chunks, NEW d \in Chunks
  PROVE  Regrouped4(a, b, c, d)
<1>1. a \o b \in Chunks /\ c \o d \in Chunks
  BY ChunksConcat
<1>2. ((a \o b) \o c) \o d = (a \o b) \o (c \o d)
  BY <1>1, ChunksConcat, Zenon
<1>3. (a \o b) \o (c \o d) = a \o (b \o (c \o d))
  BY <1>1, ChunksConcat, Zenon
<1> QED BY <1>2, <1>3 DEF Regrouped4

LEMMA Regroup5 ==
  ASSUME NEW a \in Chunks, NEW b \in Chunks, NEW c \in Chunks, NEW d \in Chunks,
         NEW e \in Chunks
  PROVE  Regrouped5(a, b, c, d, e)
<1>1. (a \o b) \o c \in Chunks /\ d \o e \in Chunks
  BY ChunksConcat
<1>2. (((a \o b) \o c) \o d) \o e = ((a \o b) \o c) \o (d \o e)
  BY <1>1, ChunksConcat, Zenon
<1>3. Regrouped4(a, b, c, d \o e)
  BY <1>1, Regroup4
<1> QED BY <1>2, <1>3 DEF Regrouped4, Regrouped5

LEMMA HeaderHeadIs ==
  ASSUME NEW class \in Int, NEW weight \in Int, NEW size \in Int, NEW flags \in Int,
         NEW c \in Chunks
  PROVE  /\ HeaderHead(class, weight, size, flags) \in Chunks
         /\ HeaderHead(class, weight, size, flags) \o c = HeaderThen(class, weight, size, flags, c)
<1>1. PICK a1 \in Chunks, a2 \in Chunks, a3 \in Chunks, a4 \in Chunks :
        /\ a1 = Number(2, class) /\ a2 = Number(2, weight)
        /\ a3 = Number(8, size) /\ a4 = Number(2, flags)
  BY PiecesIn
<1>2. Regrouped5(a1, a2, a3, a4, c)
  BY Regroup5
<1>3. ((a1 \o a2) \o a3) \o a4 \in Chunks
  BY ChunksConcat
<1> QED BY <1>1, <1>2, <1>3 DEF HeaderHead, HeaderThen, Regrouped5

LEMMA ParseHeaderIs ==
  ASSUME NEW class \in Int, NEW weight \in Int, NEW size \in Int, NEW flags \in Int,
         NEW channel, NEW c \in Chunks, NEW P, NEW s, PropertiesRead(flags, c)[14] = Ok(P, s)
  PROVE  parseHeaderFrame(channel, HeaderHead(class, weight, size, flags) \o c) =
           Ok(HeaderFrame(channel, class, weight, size, P), s)
<1>1. PICK in : in = HeaderHead(class, weight, size, flags) \o c
  OBVIOUS
<1>2. PICK c4 \in Chunks : c4 = Number(2, flags) \o c /\ NumberRead(c4, 2, flags, c)
  <2>1. NumberPut(2, flags, c)
    BY NumberFirst
  <2> QED BY <2>1 DEF NumberPut
<1>3. PICK c3 \in Chunks : c3 = Number(8, size) \o c4 /\ NumberRead(c3, 8, size, c4)
  <2>1. NumberPut(8, size, c4)
    BY NumberFirst
  <2> QED BY <2>1 DEF NumberPut
<1>4. PICK c2 \in Chunks : c2 = Number(2, weight) \o c3 /\ NumberRead(c2, 2, weight, c3)
  <2>1. NumberPut(2, weight, c3)
    BY NumberFirst
  <2> QED BY <2>1 DEF NumberPut
<1>5. PICK c1 \in Chunks : c1 = Number(2, class) \o c2 /\ NumberRead(c1, 2, class, c2)
  <2>1. NumberPut(2, class, c2)
    BY NumberFirst
  <2> QED BY <2>1 DEF NumberPut
<1>6. in = c1
  <2>1. HeaderHead(class, weight, size, flags) \o c = HeaderThen(class, weight, size, flags, c)
    BY HeaderHeadIs
  <2> QED BY <1>1, <1>2, <1>3, <1>4, <1>5, <2>1 DEF HeaderThen
<1>7. PICK r1 : r1 = ReadNumber(2, in) /\ r1.err = "nil" /\ r1.v = class /\ r1.rest = c2
  BY <1>5, <1>6 DEF NumberRead
<1>8. PICK r2 : r2 = ReadNumber(2, c2) /\ r2.err = "nil" /\ r2.v = weight /\ r2.rest = c3
  BY <1>4 DEF NumberRead
<1>9. PICK r3 : r3 = ReadNumber(8, c3) /\ r3.err = "nil" /\ r3.v = size /\ r3.rest = c4
  BY <1>3 DEF NumberRead
<1>10. PICK r4 : r4 = ReadNumber(2, c4) /\ r4.err = "nil" /\ r4.v = flags /\ r4.rest = c
  BY <1>2 DEF NumberRead
<1>11. PICK r5 : r5 = PropertiesRead(flags, c)[14] /\ r5.err = "nil" /\ r5.v = P /\ r5.rest = s
  BY OkIs
<1>12. parseHeaderFrame(channel, in) =
         Ok([kind |-> "header", channel |-> channel, class |-> class, weight |-> weight,
             size |-> size, props |-> P], s)
  BY <1>7, <1>8, <1>9, <1>10, <1>11, SMTT(60) DEF parseHeaderFrame, Then
<1> QED BY <1>1, <1>12 DEF HeaderFrame

LEMMA PropertyIs ==
  ASSUME NEW i \in 1 .. 13, NEW v, IsArgument(KindOf(i), v),
         NEW table, KindOf(i) = "table" => table \in writeTable(v),
         NEW w, w = IF v # Zero[KindOf(i)] THEN WriteArgument(KindOf(i), v, table)
                    ELSE Written(<<>>)
  PROVE  /\ IsWrite(w) /\ (w.err = "nil" <=> (i = 3 => Validate(v)))
         /\ PropertyWritten(i, v, w, v # Zero[KindOf(i)])
<1>1. i \in 1 .. 14
  OBVIOUS
<1>2. KindOf(i) \in Kinds /\ (KindOf(i) = "table" <=> i = 3)
      /\ (KindOf(i) = "table" => Validate(Zero[KindOf(i)]))
  BY <1>1, ZeroIs
<1>3. CASE v = Zero[KindOf(i)]
  <2>1. w = Written(<<>>)
    BY <1>3
  <2>2. IsWrite(w) /\ w.err = "nil"
    BY <2>1, WrittenIs, ChunksConcat DEF IsWrite
  <2>3. i = 3 => Validate(v)
    BY <1>2, <1>3
  <2> QED BY <1>3, <2>1, <2>2, <2>3 DEF PropertyWritten
<1>4. CASE v # Zero[KindOf(i)]
  <2>1. w = WriteArgument(KindOf(i), v, table)
    BY <1>4
  <2>2. ArgumentReads(KindOf(i), v, w)
    BY <1>2, <2>1, ArgumentIs
  <2> QED BY <1>2, <1>4, <2>2 DEF PropertyWritten, ArgumentReads
<1> QED BY <1>3, <1>4

LEMMA HeaderReads ==
  ASSUME NEW f, IsFrame(f), f.kind = "header", NEW tables, TablesOf(f, tables)
  PROVE  PayloadReads(f, headerPayload(f, tables))
<1>1. PICK n \in Nat : n = 13
  OBVIOUS
<1>2. PICK vs : vs = [i \in 1 .. n |-> f.props[NameOf(i)]]
  OBVIOUS
<1>3. \A i \in 1 .. n : vs[i] = f.props[NameOf(i)] /\ IsArgument(KindOf(i), vs[i])
  BY <1>1, <1>2 DEF IsFrame, NameOf, KindOf
<1>4. Tables(f) = {vs[3]}
  <2>1. f.props["Headers"] = vs[3]
    BY <1>1, <1>2, NamesAre
  <2> QED BY <2>1 DEF Tables
<1>5. PICK set : set = [i \in 1 .. n |-> vs[i] # Zero[KindOf(i)]]
  OBVIOUS
<1>6. \A i \in 1 .. n : set[i] \in BOOLEAN /\ (set[i] <=> vs[i] # Zero[KindOf(i)])
                        /\ (set[i] <=> IsSet(f, i))
  BY <1>3, <1>5 DEF IsSet, NameOf, KindOf
<1>7. PICK writes : writes = [i \in 1 .. n |->
                      IF vs[i] # Zero[KindOf(i)] THEN WriteArgument(KindOf(i), vs[i], tables[vs[i]])
                      ELSE Written(<<>>)]
  OBVIOUS
<1>8. \A i \in 1 .. n : /\ IsWrite(writes[i]) /\ (writes[i].err = "nil" <=> (i = 3 => Validate(vs[i])))
                        /\ PropertyWritten(i, vs[i], writes[i], set[i])
  <2> SUFFICES ASSUME NEW i \in 1 .. n
               PROVE  /\ IsWrite(writes[i]) /\ (writes[i].err = "nil" <=> (i = 3 => Validate(vs[i])))
                      /\ PropertyWritten(i, vs[i], writes[i], set[i])
    OBVIOUS
  <2>1. PICK table, v, w : table = tables[vs[i]] /\ v = vs[i] /\ w = writes[i]
    OBVIOUS
  <2>2. i \in 1 .. 13 /\ i \in 1 .. 14
    BY <1>1
  <2>3. KindOf(i) = "table" => table \in writeTable(v)
    <3>1. KindOf(i) = "table" => i = 3
      BY <2>2, ZeroIs
    <3>2. i = 3 => v \in Tables(f)
      BY <1>4, <2>1
    <3> QED BY <2>1, <3>1, <3>2, TablesOfIs
  <2>4. w = IF v # Zero[KindOf(i)] THEN WriteArgument(KindOf(i), v, table) ELSE Written(<<>>)
    BY <1>7, <2>1
  <2>5. IsArgument(KindOf(i), v)
    BY <1>3, <2>1
  <2>6. /\ IsWrite(w) /\ (w.err = "nil" <=> (i = 3 => Validate(v)))
        /\ PropertyWritten(i, v, w, v # Zero[KindOf(i)])
    BY <2>2, <2>3, <2>4, <2>5, PropertyIs
  <2>7. set[i] = (v # Zero[KindOf(i)])
    BY <1>5, <2>1
  <2> QED BY <2>1, <2>6, <2>7
<1>9. PICK all : all = WriteAll(writes)
  OBVIOUS
<1>10. PICK outs : outs = [i \in 1 .. n |-> writes[i].out]
  OBVIOUS
<1>11. DOMAIN writes = 1 .. n
  BY <1>7
<1>12. IsWrite(all) /\ (all.err = "nil" <=> \A i \in 1 .. n : writes[i].err = "nil")
  BY <1>8, <1>9, <1>10, <1>11, WriteAllIs
<1>13. all.err = "nil" <=> \A t \in Tables(f) : Validate(t)
  BY <1>1, <1>4, <1>8, <1>12
<1>14. PICK ws : ws = FlagsOf(set)
  OBVIOUS
<1>15. PICK flags \in Int : flags = Total(ws) /\ FlagsSay(flags, set)
  <2>1. \A i \in 1 .. 13 : set[i] \in BOOLEAN
    BY <1>1, <1>6
  <2> QED BY <1>14, <2>1, MaskIs
<1>16. PICK class \in Int, weight \in Int, size \in Int :
         class = f.class /\ weight = f.weight /\ size = f.size
  BY DEF IsFrame
<1>17. PICK head \in Chunks : head = HeaderHead(class, weight, size, flags)
  BY HeaderHeadIs, ChunksConcat
<1>18. PICK w : w = After(head, all)
  OBVIOUS
<1>19. headerPayload(f, tables) = w
  <2>1. ws = [i \in 1 .. 13 |-> IF IsSet(f, i) THEN Properties[i].flag ELSE 0]
    BY <1>1, <1>6, <1>14 DEF FlagsOf
  <2>2. writes = [i \in 1 .. 13 |->
                    IF IsSet(f, i)
                    THEN WriteArgument(Properties[i].kind, f.props[Properties[i].name],
                                       tables[f.props[Properties[i].name]])
                    ELSE Written(<<>>)]
    BY <1>1, <1>3, <1>6, <1>7 DEF NameOf, KindOf
  <2>3. head = Number(2, f.class) \o Number(2, f.weight) \o Number(8, f.size) \o Number(2, Total(ws))
    BY <1>15, <1>16, <1>17 DEF HeaderHead
  <2> QED BY <1>9, <1>18, <2>1, <2>2, <2>3 DEF headerPayload
<1>20. IsWrite(w) /\ (w.err = "nil" <=> \A t \in Tables(f) : Validate(t))
  BY <1>12, <1>13, <1>18, AfterIs
<1>21. ASSUME w.err = "nil", Fits(w.out), NEW s \in Chunks PROVE FrameReads(f, w, s)
  <2>1. all.err = "nil" /\ \A i \in 1 .. n : writes[i].err = "nil"
    BY <1>12, <1>13, <1>20, <1>21
  <2>2. outs \in Seq(Chunks) /\ Len(outs) = n /\ \A i \in 1 .. n : outs[i] = writes[i].out
    BY <1>8, <1>10, <1>11, <2>1, WriteAllIs
  <2>3. all = Written(Joined(outs)) /\ Joined(outs) \in Chunks
    BY <1>8, <1>9, <1>10, <1>11, <2>1, WriteAllIs
  <2>4. PICK c \in Chunks : c = Joined(outs) /\ all = Written(c)
    BY <2>3
  <2>5. w.out = head \o c
    BY <1>18, <2>4, AfterIs, WrittenIs
  <2>6. PropertiesFound(vs, flags, Joined(outs) \o s, s)
    <3>1. PropertiesWritten(n, vs, writes, set, outs)
      BY <1>8, <2>1, <2>2 DEF PropertiesWritten
    <3>2. Fits(Joined(outs))
      BY <1>21, <2>4, <2>5, PartsFit
    <3> QED BY <1>1, <1>15, <2>2, <3>1, <3>2, ReadPropertiesIs
  <2>7. PICK P : PropertiesCarried(13, vs, P) /\ PropertiesRead(flags, Joined(outs) \o s)[14] = Ok(P, s)
    BY <2>6 DEF PropertiesFound
  <2>8. PICK cs \in Chunks : cs = c \o s
    BY ChunksConcat
  <2>9. (head \o c) \o s = head \o (c \o s)
    BY ChunksConcat, Zenon
  <2>10. w.out \o s = head \o cs
    BY <2>8, <2>5, <2>9
  <2>11. PICK g : g = HeaderFrame(f.channel, class, weight, size, P)
    OBVIOUS
  <2>12. PropertiesRead(flags, cs)[14] = Ok(P, s)
    BY <2>4, <2>7, <2>8
  <2>13. parseHeaderFrame(f.channel, head \o cs) = Ok(g, s)
    <3>1. parseHeaderFrame(f.channel, HeaderHead(class, weight, size, flags) \o cs) =
            Ok(HeaderFrame(f.channel, class, weight, size, P), s)
      BY <2>12, ParseHeaderIs
    <3> QED BY <1>17, <2>11, <3>1
  <2>14. parseFrame(FrameType[f.kind], f.channel, Size(w.out), w.out \o s) = Ok(g, s)
    BY <2>10, <2>13, FrameTypes DEF parseFrame
  <2>15. FrameCarried(f, g)
    <3>1. /\ g.kind = f.kind /\ g.channel = f.channel /\ g.class = f.class
          /\ g.weight = f.weight /\ g.size = f.size /\ g.props = P
      BY <1>16, <2>11 DEF HeaderFrame
    <3>2. \A field \in {"class", "weight", "size"} : g[field] = f[field]
      BY <3>1
    <3>3. ASSUME NEW i \in 1 .. 13
          PROVE  ArgumentCarried(Properties[i].kind, f.props[Properties[i].name],
                                 g.props[Properties[i].name])
      <4>1. ArgumentCarried(KindOf(i), vs[i], P[NameOf(i)])
        BY <2>7 DEF PropertiesCarried
      <4>2. vs[i] = f.props[NameOf(i)]
        BY <1>1, <1>3
      <4> QED BY <3>1, <4>1, <4>2 DEF NameOf, KindOf
    <3> QED BY <3>1, <3>2, <3>3 DEF FrameCarried
  <2> QED BY <2>14, <2>15 DEF FrameReads
<1> QED BY <1>19, <1>20, <1>21 DEF PayloadReads

-----------------------------------------------------------------------------
(* Bodies, and any frame.                                                  *)

LEMMA SizeOne ==
  ASSUME NEW c \in Chunk
  PROVE  Size(<<c>>) = c.width
<1>1. PICK a \in Chunks : a = <<c>>
  BY FirstOf, ChunksConcat
<1>2. Len(a) = 1 /\ a[1] = c
  BY <1>1
<1>3. PICK n \in Nat : n = 1
  OBVIOUS
<1>4. PICK ws : ws = [i \in DOMAIN a |-> a[i].width]
  OBVIOUS
<1>5. ws = [i \in 1 .. n |-> ws[i]] /\ ws[1] = c.width /\ c.width \in Nat
  BY <1>2, <1>3, <1>4, WidthsOf
<1>6. TotalFrom(ws)[n + 1] = 0 /\ \A k \in 1 .. n : TotalFrom(ws)[k] = ws[k] + TotalFrom(ws)[k + 1]
  BY <1>5, TotalNext, Zenon
<1>7. TotalFrom(ws)[1] = c.width
  BY <1>3, <1>5, <1>6
<1> QED BY <1>1, <1>4, <1>7 DEF Size, Total

LEMMA BodySize ==
  ASSUME NEW str \in String
  PROVE  Octets(str) \in Chunks /\ Size(Octets(str)) = str[2]
<1>1. str[2] \in Nat /\ str[1] \in {"none"} \cup Content /\ (str[1] = "none" <=> str[2] = 0)
  BY DEF String
<1>2. Octets(str) \in Chunks
  BY ReadOctetsIs, ChunksConcat
<1>3. CASE str[2] = 0
  <2>1. Octets(str) = <<>>
    BY <1>3 DEF Octets
  <2> QED BY <1>2, <1>3, <2>1, SizeIs
<1>4. CASE str[2] # 0
  <2>1. str[1] \in Content
    BY <1>1, <1>4
  <2>2. PICK c \in Chunk : Octets(str) = <<c>> /\ c.width = str[2]
    BY <1>1, <1>4, <2>1, OctetsIs
  <2> QED BY <1>2, <2>2, SizeOne
<1> QED BY <1>3, <1>4

BodyFrame(channel, body) == [kind |-> "body", channel |-> channel, body |-> body]

LEMMA BodyReads ==
  ASSUME NEW f, IsFrame(f), f.kind = "body"
  PROVE  PayloadReads(f, Written(Octets(f.body)))
<1>1. PICK str \in String : str = f.body
  BY DEF IsFrame
<1>2. PICK c \in Chunks : c = Octets(str) /\ Size(c) = str[2]
  BY BodySize
<1>3. PICK w : w = Written(c) /\ IsWrite(w) /\ w.err = "nil" /\ w.out = c
  BY WrittenIs DEF IsWrite
<1>4. Tables(f) = {}
  BY DEF Tables
<1>5. ASSUME NEW s \in Chunks PROVE FrameReads(f, w, s)
  <2>1. ReadOctets(str[2], Octets(str) \o s) = Ok(str, s)
    BY ReadOctetsIs
  <2>2. PICK in : in = c \o s
    OBVIOUS
  <2>3. PICK r : r = ReadOctets(str[2], in) /\ r.err = "nil" /\ r.v = str /\ r.rest = s
    BY <1>2, <2>1, <2>2, OkIs
  <2>4. PICK g : g = BodyFrame(f.channel, str)
    OBVIOUS
  <2>5. parseBodyFrame(f.channel, str[2], in) = Ok(g, s)
    BY <2>3, <2>4 DEF parseBodyFrame, Then, BodyFrame
  <2>6. parseFrame(FrameType[f.kind], f.channel, Size(w.out), w.out \o s) = Ok(g, s)
    BY <1>2, <1>3, <2>2, <2>5, FrameTypes DEF parseFrame
  <2>7. FrameCarried(f, g)
    BY <1>1, <2>4 DEF FrameCarried, BodyFrame
  <2> QED BY <2>6, <2>7 DEF FrameReads
<1> QED BY <1>1, <1>2, <1>3, <1>4, <1>5 DEF PayloadReads

LEMMA HeartbeatReads ==
  ASSUME NEW f, IsFrame(f), f.kind = "heartbeat"
  PROVE  PayloadReads(f, Written(<<>>))
<1>1. PICK c \in Chunks : c = <<>> /\ Size(c) = 0
  BY ChunksConcat, SizeIs
<1>2. PICK w : w = Written(c) /\ IsWrite(w) /\ w.err = "nil" /\ w.out = c
  BY WrittenIs DEF IsWrite
<1>3. Tables(f) = {}
  BY DEF Tables
<1>4. ASSUME NEW s \in Chunks PROVE FrameReads(f, w, s)
  <2>1. c \o s = s
    BY <1>1, ChunksConcat
  <2>2. PICK g : g = [kind |-> "heartbeat", channel |-> f.channel]
    OBVIOUS
  <2>3. parseHeartbeatFrame(f.channel, 0, s) = Ok(g, s)
    BY <2>2 DEF parseHeartbeatFrame
  <2>4. parseFrame(FrameType[f.kind], f.channel, Size(w.out), w.out \o s) = Ok(g, s)
    <3>1. PICK n, in, channel : n = Size(w.out) /\ in = w.out \o s /\ channel = f.channel
      OBVIOUS
    <3>2. n = 0 /\ in = s
      BY <1>1, <1>2, <2>1, <3>1
    <3>3. parseFrame(8, channel, n, in) = parseHeartbeatFrame(channel, n, in)
      BY DEF parseFrame
    <3>4. FrameType[f.kind] = 8
      BY FrameTypes
    <3> QED BY <2>3, <3>1, <3>2, <3>3, <3>4
  <2>5. FrameCarried(f, g)
    BY <2>2 DEF FrameCarried
  <2> QED BY <2>4, <2>5 DEF FrameReads
<1> QED BY <1>1, <1>2, <1>3, <1>4 DEF PayloadReads

LEMMA PayloadIs ==
  ASSUME NEW f, IsFrame(f), NEW tables, TablesOf(f, tables)
  PROVE  PayloadReads(f, Payload(f, tables))
<1>1. f.kind \in {"method", "header", "body", "heartbeat"}
  BY FrameTypes DEF IsFrame
<1>2. CASE f.kind = "method"
  <2>1. Payload(f, tables) = methodPayload(f, tables)
    BY <1>2 DEF Payload
  <2> QED BY <1>2, <2>1, MethodReads
<1>3. CASE f.kind = "header"
  <2>1. Payload(f, tables) = headerPayload(f, tables)
    BY <1>3 DEF Payload
  <2> QED BY <1>3, <2>1, HeaderReads
<1>4. CASE f.kind = "body"
  <2>1. Payload(f, tables) = Written(Octets(f.body))
    BY <1>4 DEF Payload
  <2> QED BY <1>4, <2>1, BodyReads
<1>5. CASE f.kind = "heartbeat"
  <2>1. Payload(f, tables) = Written(<<>>)
    BY <1>5 DEF Payload
  <2> QED BY <1>5, <2>1, HeartbeatReads
<1> QED BY <1>1, <1>2, <1>3, <1>4, <1>5

-----------------------------------------------------------------------------
(* A frame on the wire.                                                    *)

ParsedFrame(f, chunks, s) == \E g : FrameCarried(f, g) /\ Parsed(chunks \o s) = Ok(g, s)
IsOnWire(f, chunks) ==
  chunks \in Chunks /\ Len(chunks) > 0 /\ \A s \in Chunks : ParsedFrame(f, chunks, s)

LEMMA ParsedIs ==
  ASSUME NEW typ \in Int, NEW channel \in Int, NEW size \in Int, NEW in, NEW c1 \in Chunks,
         NEW c2, NEW c3, NEW c4, NEW s, NEW g,
         NumberRead(in, 1, typ, c1), NumberRead(c1, 2, channel, c2),
         NumberRead(c2, 4, size, c3), parseFrame(typ, channel, size, c3) = Ok(g, c4),
         NumberRead(c4, 1, frameEnd, s)
  PROVE  Parsed(in) = Ok(g, s)
<1>1. PICK r1 : r1 = ReadNumber(1, in) /\ r1.err = "nil" /\ r1.v = typ /\ r1.rest = c1
  BY DEF NumberRead
<1>2. PICK r2 : r2 = ReadNumber(2, c1) /\ r2.err = "nil" /\ r2.v = channel /\ r2.rest = c2
  BY DEF NumberRead
<1>3. PICK r3 : r3 = ReadNumber(4, c2) /\ r3.err = "nil" /\ r3.v = size /\ r3.rest = c3
  BY DEF NumberRead
<1>4. PICK r4 : r4 = parseFrame(typ, channel, size, c3) /\ r4.err = "nil" /\ r4.v = g /\ r4.rest = c4
  BY OkIs
<1>5. PICK r5 : r5 = ReadNumber(1, c4) /\ r5.err = "nil" /\ r5.v = frameEnd /\ r5.rest = s
  BY DEF NumberRead
<1> QED BY <1>1, <1>2, <1>3, <1>4, <1>5, SMTT(60) DEF Parsed, Then

LEMMA OnWire ==
  ASSUME NEW f, IsFrame(f), NEW w, PayloadReads(f, w), w.err = "nil", Fits(w.out)
  PROVE  IsOnWire(f, writeFrame(f, w.out))
<1>1. PICK p \in Chunks : p = w.out
  BY WrittenIs DEF PayloadReads
<1>2. PICK typ \in Int, channel \in Int, size \in Int :
        typ = FrameType[f.kind] /\ channel = f.channel /\ size = Size(p)
  <2>1. FrameType[f.kind] \in Int /\ f.channel \in Int
    BY FrameTypes DEF IsFrame
  <2>2. Size(p) \in Int
    BY SizeIs
  <2> QED BY <2>1, <2>2
<1>3. PICK a \in Chunks, b \in Chunks, c \in Chunks, e \in Chunks :
        /\ a = Number(1, typ) /\ b = Number(2, channel) /\ c = Number(4, size)
        /\ e = Number(1, frameEnd)
  BY PiecesIn DEF frameEnd
<1>4. PICK head \in Chunks : head = (a \o b) \o c
  BY ChunksConcat
<1>5. PICK chunks \in Chunks : chunks = (head \o p) \o e
  BY ChunksConcat
<1>6. chunks = writeFrame(f, w.out)
  BY <1>1, <1>2, <1>3, <1>4, <1>5 DEF writeFrame
<1>7. Len(chunks) > 0
  <2>1. Len(e) = 1
    <3>1. <<>> \in Chunks
      BY ChunksConcat
    <3> QED BY <1>3, <3>1, ReadNumberIs DEF frameEnd
  <2>2. PICK d \in Chunks : d = head \o p /\ Len(d) \in Nat
    BY ChunksConcat
  <2>3. Len(chunks) = Len(d) + Len(e)
    BY <1>5, <2>2, ChunksConcat
  <2> QED BY <2>1, <2>2, <2>3
<1>8. ASSUME NEW s \in Chunks PROVE ParsedFrame(f, chunks, s)
  <2>1. PICK c4 \in Chunks : c4 = Number(1, frameEnd) \o s /\ NumberRead(c4, 1, frameEnd, s)
    <3>1. NumberPut(1, frameEnd, s)
      BY NumberFirst DEF frameEnd
    <3> QED BY <3>1 DEF NumberPut
  <2>2. PICK c3 \in Chunks : c3 = p \o c4
    BY ChunksConcat
  <2>3. PICK c2 \in Chunks : c2 = Number(4, size) \o c3 /\ NumberRead(c2, 4, size, c3)
    <3>1. NumberPut(4, size, c3)
      BY NumberFirst
    <3> QED BY <3>1 DEF NumberPut
  <2>4. PICK c1 \in Chunks : c1 = Number(2, channel) \o c2 /\ NumberRead(c1, 2, channel, c2)
    <3>1. NumberPut(2, channel, c2)
      BY NumberFirst
    <3> QED BY <3>1 DEF NumberPut
  <2>5. PICK in \in Chunks : in = Number(1, typ) \o c1 /\ NumberRead(in, 1, typ, c1)
    <3>1. NumberPut(1, typ, c1)
      BY NumberFirst
    <3> QED BY <3>1 DEF NumberPut
  <2>6. chunks \o s = in
    <3>1. Regrouped4(head, p, e, s)
      BY Regroup4
    <3>2. ((head \o p) \o e) \o s = head \o (p \o (e \o s))
      BY <3>1 DEF Regrouped4
    <3>3. chunks \o s = head \o c3
      BY <1>3, <1>5, <2>1, <2>2, <3>2
    <3>4. Regrouped4(a, b, c, c3)
      BY Regroup4
    <3>5. ((a \o b) \o c) \o c3 = a \o (b \o (c \o c3))
      BY <3>4 DEF Regrouped4
    <3> QED BY <1>3, <1>4, <2>3, <2>4, <2>5, <3>3, <3>5
  <2>7. FrameReads(f, w, c4)
    BY DEF PayloadReads
  <2>8. PICK g : FrameCarried(f, g) /\ parseFrame(typ, channel, size, c3) = Ok(g, c4)
    BY <1>1, <1>2, <2>2, <2>7 DEF FrameReads
  <2>9. Parsed(in) = Ok(g, s)
    BY <2>1, <2>3, <2>4, <2>5, <2>8, ParsedIs
  <2> QED BY <2>6, <2>8, <2>9 DEF ParsedFrame
<1> QED BY <1>6, <1>7, <1>8 DEF IsOnWire

-----------------------------------------------------------------------------
(* The specification.                                                      *)

IsSeq(s) == s \in Seq(Range(s))

LEMMA IsSeqIs ==
  ASSUME NEW s, IsSeq(s)
  PROVE  Len(s) \in Nat /\ DOMAIN s = 1 .. Len(s)
BY SeqIs DEF IsSeq

Extends(t, s, x) ==
  /\ IsSeq(t) /\ Len(t) = Len(s) + 1 /\ t[Len(s) + 1] = x
  /\ \A i \in 1 .. Len(s) : t[i] = s[i]

LEMMA IsSeqAppend ==
  ASSUME NEW s, IsSeq(s), NEW x
  PROVE  Extends(Append(s, x), s, x)
<1>1. PICK t : t = Append(s, x)
  OBVIOUS
<1>2. PICK S : S = Range(s) \cup {x}
  OBVIOUS
<1>3. PICK n \in Nat : n = Len(s) /\ DOMAIN s = 1 .. n
  BY IsSeqIs
<1>4. \A i \in 1 .. n : s[i] \in S
  BY <1>2, <1>3 DEF Range
<1>5. s \in Seq(S)
  BY <1>3, <1>4 DEF IsSeq
<1>6. t \in Seq(S) /\ Len(t) = n + 1 /\ t[n + 1] = x /\ \A i \in 1 .. n : t[i] = s[i]
  BY <1>1, <1>2, <1>3, <1>5
<1>7. t \in Seq(Range(t))
  <2>1. PICK m \in Nat : m = n + 1
    BY <1>3
  <2>2. PICK R : R = Range(t)
    OBVIOUS
  <2>3. t = [i \in 1 .. m |-> t[i]] /\ DOMAIN t = 1 .. m
    BY <1>6, <2>1, LenProperties
  <2>4. \A i \in 1 .. m : t[i] \in R
    BY <2>3, <2>2 DEF Range
  <2> QED BY <2>3, <2>4, <2>2, SeqOn
<1> QED BY <1>1, <1>3, <1>6, <1>7 DEF IsSeq, Extends

TypeOK ==
  /\ script \in DOMAIN Scripts /\ step \in Nat
  /\ IsSeq(got) /\ IsSeq(accepted) /\ IsSeq(results) /\ unread \in Seq(Chunks)

(* The frames that were accepted are those that were read and, one for     *)
(* each element of unread, those that are still on the wire. Each of these *)
(* is read as itself, whatever comes after it.                             *)
InOrder ==
  /\ Len(accepted) = Len(got) + Len(unread)
  /\ \A i \in 1 .. Len(unread) : IsOnWire(accepted[Len(got) + i], unread[i])

IInv ==
  /\ TypeOK /\ InOrder /\ Len(results) = step
  /\ FramesAreCarried /\ ReaderInStep /\ ValidatedIsWritten

LEMMA ScriptIs ==
  ASSUME TypeOK, step < Len(Scripts[script])
  PROVE  /\ IsFrame(Scripts[script][step + 1])
         /\ \A tables : TablesOf(Scripts[script][step + 1], tables) =>
              Fits(Payload(Scripts[script][step + 1], tables).out)
<1>1. PICK s \in DOMAIN Scripts : s = script
  BY DEF TypeOK
<1>2. IsSeq(Scripts[s]) /\ \A i \in DOMAIN Scripts[s] : IsFrame(Scripts[s][i])
  BY FrameCodecAssumption DEF IsSeq
<1>3. Len(Scripts[s]) \in Nat /\ DOMAIN Scripts[s] = 1 .. Len(Scripts[s])
  BY <1>2, IsSeqIs
<1>4. PICK i \in DOMAIN Scripts[s] : i = step + 1
  BY <1>1, <1>3 DEF TypeOK
<1>5. PICK f : f = Scripts[s][i]
  OBVIOUS
<1>6. ASSUME NEW tables, TablesOf(f, tables) PROVE Fits(Payload(f, tables).out)
  <2>1. tables \in OneOfEach([t \in Tables(f) |-> writeTable(t)])
    BY <1>6 DEF TablesOf
  <2> QED BY <1>5, <2>1, FrameSizeAssumption DEF Fits
<1> QED BY <1>1, <1>2, <1>4, <1>5, <1>6

LEMMA FrameCodecInit == Init => IInv
<1> SUFFICES ASSUME Init PROVE IInv
  OBVIOUS
<1>1. /\ got = <<>> /\ accepted = <<>> /\ results = <<>> /\ unread = <<>>
      /\ wire = <<>> /\ failed = "nil" /\ step = 0 /\ script \in DOMAIN Scripts
  BY DEF Init
<1>2. IsSeq(<<>>) /\ <<>> \in Seq(Chunks) /\ Len(<<>>) = 0 /\ DOMAIN <<>> = {}
  BY DEF IsSeq
<1>3. TypeOK /\ InOrder /\ Len(results) = step
  BY <1>1, <1>2 DEF TypeOK, InOrder
<1>4. FramesAreCarried /\ ValidatedIsWritten
  BY <1>1, <1>2 DEF FramesAreCarried, ValidatedIsWritten
<1>5. ReaderInStep
  BY <1>1, <1>2, JoinedIs DEF ReaderInStep
<1> QED BY <1>3, <1>4, <1>5 DEF IInv

LEMMA WriteFrameKeeps == IInv /\ WriteFrame => IInv'
<1> SUFFICES ASSUME IInv, WriteFrame PROVE IInv'
  OBVIOUS
<1>1. TypeOK /\ InOrder /\ Len(results) = step /\ FramesAreCarried /\ ReaderInStep
      /\ ValidatedIsWritten
  BY DEF IInv
<1>2. PICK f : /\ f = Scripts[script][step + 1] /\ IsFrame(f)
               /\ \A tables : TablesOf(f, tables) => Fits(Payload(f, tables).out)
  BY <1>1, ScriptIs DEF WriteFrame
<1>3. PICK tables : /\ TablesOf(f, tables)
                    /\ results' = Append(results, Payload(f, tables).err)
                    /\ IF Payload(f, tables).err # "nil" THEN UNCHANGED <<wire, accepted, unread>>
                       ELSE /\ wire' = wire \o writeFrame(f, Payload(f, tables).out)
                            /\ accepted' = Append(accepted, f)
                            /\ unread' = Append(unread, writeFrame(f, Payload(f, tables).out))
  BY <1>2 DEF WriteFrame, TablesOf
<1>4. PICK w : w = Payload(f, tables) /\ PayloadReads(f, w) /\ Fits(w.out)
  BY <1>2, <1>3, PayloadIs
<1>5. step' = step + 1 /\ UNCHANGED <<script, failed, got>>
  BY DEF WriteFrame
<1>6. PICK n \in Nat, m \in Nat, k \in Nat, r \in Nat :
        /\ n = Len(accepted) /\ m = Len(got) /\ k = Len(unread) /\ r = Len(results)
        /\ DOMAIN accepted = 1 .. n /\ DOMAIN got = 1 .. m /\ DOMAIN results = 1 .. r
  BY <1>1, IsSeqIs, SeqIs DEF TypeOK
<1>7. /\ IsSeq(results') /\ Len(results') = r + 1 /\ results'[r + 1] = w.err
      /\ \A i \in 1 .. r : results'[i] = results[i]
  <2>1. Extends(Append(results, w.err), results, w.err)
    BY <1>1, IsSeqAppend DEF TypeOK
  <2>2. Extends(results', results, w.err)
    BY <1>3, <1>4, <2>1
  <2> QED BY <1>6, <2>2 DEF Extends
<1>8. Len(results') = step'
  BY <1>1, <1>5, <1>6, <1>7
<1>9. ValidatedIsWritten'
  <2> SUFFICES ASSUME NEW i \in DOMAIN results'
               PROVE  results'[i] = "nil" <=> \A t \in Tables(Scripts[script'][i]) : Validate(t)
    BY DEF ValidatedIsWritten
  <2>1. i \in 1 .. r + 1
    BY <1>7, IsSeqIs
  <2>2. CASE i = r + 1
    <3>1. Scripts[script'][i] = f
      BY <1>1, <1>2, <1>5, <1>6, <2>2
    <3>2. w.err = "nil" <=> \A t \in Tables(f) : Validate(t)
      BY <1>4 DEF PayloadReads
    <3> QED BY <1>7, <2>2, <3>1, <3>2
  <2>3. CASE i # r + 1
    <3>1. i \in DOMAIN results /\ results'[i] = results[i]
      BY <1>6, <1>7, <2>1, <2>3
    <3> QED BY <1>1, <1>5, <3>1 DEF ValidatedIsWritten
  <2> QED BY <2>2, <2>3
<1>10. CASE w.err # "nil"
  <2>1. UNCHANGED <<wire, accepted, unread, got, failed, script>>
    BY <1>3, <1>4, <1>5, <1>10
  <2>2. TypeOK'
    BY <1>1, <1>5, <1>7, <2>1 DEF TypeOK
  <2>3. InOrder' /\ FramesAreCarried' /\ ReaderInStep'
    BY <1>1, <2>1 DEF InOrder, FramesAreCarried, ReaderInStep
  <2> QED BY <1>8, <1>9, <2>2, <2>3 DEF IInv
<1>11. CASE w.err = "nil"
  <2>1. PICK chunks : chunks = writeFrame(f, w.out) /\ IsOnWire(f, chunks)
    BY <1>2, <1>4, <1>11, OnWire
  <2>2. wire' = wire \o chunks /\ accepted' = Append(accepted, f) /\ unread' = Append(unread, chunks)
    BY <1>3, <1>4, <1>11, <2>1
  <2>3. chunks \in Chunks
    BY <2>1 DEF IsOnWire
  <2>4. unread' \in Seq(Chunks) /\ Joined(unread') = Joined(unread) \o chunks
    BY <1>1, <2>2, <2>3, JoinedAppend DEF TypeOK
  <2>5. ReaderInStep'
    BY <1>1, <2>2, <2>4 DEF ReaderInStep
  <2>6. /\ IsSeq(accepted') /\ Len(accepted') = n + 1 /\ accepted'[n + 1] = f
        /\ \A i \in 1 .. n : accepted'[i] = accepted[i]
    <3>1. Extends(Append(accepted, f), accepted, f)
      BY <1>1, IsSeqAppend DEF TypeOK
    <3>2. Extends(accepted', accepted, f)
      BY <2>2, <3>1
    <3> QED BY <1>6, <3>2 DEF Extends
  <2>7. TypeOK'
    BY <1>1, <1>5, <1>7, <2>4, <2>6 DEF TypeOK
  <2>8. /\ Len(unread') = k + 1 /\ unread'[k + 1] = chunks
        /\ \A i \in 1 .. k : unread'[i] = unread[i]
    BY <1>1, <1>6, <2>2, <2>3 DEF TypeOK
  <2>9. n = m + k
    BY <1>1, <1>6 DEF InOrder
  <2>10. InOrder'
    <3>1. Len(accepted') = Len(got') + Len(unread')
      BY <1>5, <1>6, <2>6, <2>8, <2>9
    <3>2. ASSUME NEW i \in 1 .. k + 1 PROVE IsOnWire(accepted'[m + i], unread'[i])
      <4>1. CASE i = k + 1
        <5>1. m + i = n + 1
          BY <2>9, <4>1
        <5> QED BY <2>1, <2>6, <2>8, <4>1, <5>1
      <4>2. CASE i # k + 1
        <5>1. i \in 1 .. k /\ m + i \in 1 .. n
          BY <2>9, <4>2
        <5>2. IsOnWire(accepted[m + i], unread[i])
          BY <1>1, <1>6, <5>1 DEF InOrder
        <5> QED BY <2>6, <2>8, <5>1, <5>2
      <4> QED BY <4>1, <4>2
    <3> QED BY <1>5, <1>6, <2>8, <3>1, <3>2 DEF InOrder
  <2>11. FramesAreCarried'
    <3>1. failed' = "nil" /\ got' = got
      BY <1>1, <1>5 DEF FramesAreCarried
    <3>2. ASSUME NEW i \in DOMAIN got PROVE FrameCarried(accepted'[i], got[i])
      <4>1. i \in 1 .. n
        BY <1>6, <2>9
      <4> QED BY <1>1, <2>6, <4>1 DEF FramesAreCarried
    <3> QED BY <3>1, <3>2 DEF FramesAreCarried
  <2> QED BY <1>8, <1>9, <2>5, <2>7, <2>10, <2>11 DEF IInv
<1> QED BY <1>10, <1>11

LEMMA ReadFrameKeeps == IInv /\ ReadFrame => IInv'
<1> SUFFICES ASSUME IInv, ReadFrame PROVE IInv'
  OBVIOUS
<1>1. TypeOK /\ InOrder /\ Len(results) = step /\ FramesAreCarried /\ ReaderInStep
      /\ ValidatedIsWritten
  BY DEF IInv
<1>2. UNCHANGED <<script, step, accepted, results>> /\ unread' = Tail(unread) /\ wire # <<>>
      /\ wire' = Parsed(wire).rest /\ failed' = Parsed(wire).err
      /\ got' = IF Parsed(wire).err = "nil" THEN Append(got, Parsed(wire).v) ELSE got
  BY DEF ReadFrame
<1>3. unread # <<>>
  BY <1>1, <1>2, JoinedIs DEF TypeOK, ReaderInStep
<1>4. PICK n \in Nat, m \in Nat, k \in Nat :
        /\ n = Len(accepted) /\ m = Len(got) /\ k = Len(unread)
        /\ DOMAIN accepted = 1 .. n /\ DOMAIN got = 1 .. m
  BY <1>1, IsSeqIs, SeqIs DEF TypeOK
<1>5. k > 0 /\ n = m + k /\ unread[1] = Head(unread)
  BY <1>1, <1>3, <1>4, EmptySeq DEF TypeOK, InOrder
<1>6. PICK chunks, s : /\ chunks = Head(unread) /\ s = Joined(Tail(unread)) /\ s \in Chunks
                       /\ wire = chunks \o s /\ Tail(unread) \in Seq(Chunks)
  BY <1>1, <1>3, JoinedTail, JoinedIs DEF TypeOK, ReaderInStep
<1>7. PICK f : f = accepted[m + 1] /\ IsOnWire(f, chunks)
  <2>1. PICK i \in 1 .. k : i = 1
    BY <1>5
  <2>2. IsOnWire(accepted[m + i], unread[i])
    BY <1>1, <1>4 DEF InOrder
  <2> QED BY <1>5, <1>6, <2>1, <2>2
<1>8. PICK g : FrameCarried(f, g) /\ Parsed(chunks \o s) = Ok(g, s)
  BY <1>6, <1>7 DEF IsOnWire, ParsedFrame
<1>9. PICK r : r = Parsed(wire) /\ r.err = "nil" /\ r.v = g /\ r.rest = s
  BY <1>6, <1>8, OkIs
<1>10. wire' = s /\ failed' = "nil" /\ got' = Append(got, g)
  BY <1>2, <1>9
<1>11. /\ IsSeq(got') /\ Len(got') = m + 1 /\ got'[m + 1] = g
       /\ \A i \in 1 .. m : got'[i] = got[i]
  <2>1. Extends(Append(got, g), got, g)
    BY <1>1, IsSeqAppend DEF TypeOK
  <2>2. Extends(got', got, g)
    BY <1>10, <2>1
  <2> QED BY <1>4, <2>2 DEF Extends
<1>12. TypeOK'
  BY <1>1, <1>2, <1>6, <1>11 DEF TypeOK
<1>13. ReaderInStep'
  BY <1>2, <1>6, <1>10 DEF ReaderInStep
<1>14. Len(unread') = k - 1 /\ \A i \in 1 .. k - 1 : unread'[i] = unread[i + 1]
  BY <1>1, <1>2, <1>3, <1>4 DEF TypeOK
<1>15. InOrder'
  <2>1. Len(accepted') = Len(got') + Len(unread')
    <3>1. Len(accepted') = n
      BY <1>2, <1>4
    <3>2. Len(got') = m + 1 /\ Len(unread') = k - 1
      BY <1>11, <1>14
    <3> QED BY <1>5, <3>1, <3>2
  <2>2. ASSUME NEW i \in 1 .. k - 1 PROVE IsOnWire(accepted'[(m + 1) + i], unread'[i])
    <3>1. PICK j \in 1 .. k : j = i + 1
      OBVIOUS
    <3>2. IsOnWire(accepted[m + j], unread[j])
      BY <1>1, <1>4 DEF InOrder
    <3>3. (m + 1) + i = m + j
      BY <3>1
    <3> QED BY <1>2, <1>14, <3>1, <3>2, <3>3
  <2> QED BY <1>11, <1>14, <2>1, <2>2 DEF InOrder
<1>16. FramesAreCarried'
  <2> SUFFICES ASSUME NEW i \in DOMAIN got' PROVE FrameCarried(accepted'[i], got'[i])
    BY <1>10 DEF FramesAreCarried
  <2>1. i \in 1 .. m + 1
    BY <1>11, IsSeqIs
  <2>2. CASE i = m + 1
    BY <1>2, <1>7, <1>8, <1>11, <2>2
  <2>3. CASE i # m + 1
    <3>1. i \in DOMAIN got /\ got'[i] = got[i]
      BY <1>4, <1>11, <2>1, <2>3
    <3>2. FrameCarried(accepted[i], got[i])
      BY <1>1, <3>1 DEF FramesAreCarried
    <3> QED BY <1>2, <3>1, <3>2
  <2> QED BY <2>2, <2>3
<1>17. ValidatedIsWritten' /\ Len(results') = step'
  BY <1>1, <1>2 DEF ValidatedIsWritten
<1> QED BY <1>12, <1>13, <1>15, <1>16, <1>17 DEF IInv

LEMMA FrameCodecInv == Spec => []IInv
<1>1. Init => IInv
  BY FrameCodecInit
<1>2. IInv /\ [Next]_vars => IInv'
  <2> SUFFICES ASSUME IInv, [Next]_vars PROVE IInv'
    OBVIOUS
  <2>1. CASE WriteFrame
    BY <2>1, WriteFrameKeeps
  <2>2. CASE ReadFrame
    BY <2>2, ReadFrameKeeps
  <2>3. CASE UNCHANGED vars
    BY <2>3 DEF vars, IInv, TypeOK, InOrder, FramesAreCarried, ReaderInStep, ValidatedIsWritten
  <2> QED BY <2>1, <2>2, <2>3 DEF Next
<1> QED BY <1>1, <1>2, PTL DEF Spec

(* The script, the histories and the chunks on the wire have their types,  *)
(* and the frames accepted are, in order, those read and those on the wire.*)
THEOREM FramesInOrder == Spec => [](TypeOK /\ InOrder)
<1>1. IInv => TypeOK /\ InOrder
  BY DEF IInv
<1> QED BY <1>1, FrameCodecInv, PTL

(* ReadFrame finds in every frame what WriteFrame was given: for all       *)
(* methods, any arguments and properties, and tables nested however deep.  *)
THEOREM FramesCarried == Spec => []FramesAreCarried
<1>1. IInv => FramesAreCarried
  BY DEF IInv
<1> QED BY <1>1, FrameCodecInv, PTL

(* ReadFrame ends where the frame ends, whatever is written after it.      *)
THEOREM ReaderStaysInStep == Spec => []ReaderInStep
<1>1. IInv => ReaderInStep
  BY DEF IInv
<1> QED BY <1>1, FrameCodecInv, PTL

(* Table.Validate and writeField agree on every table.                     *)
THEOREM WrittenIfValid == Spec => []ValidatedIsWritten
<1>1. IInv => ValidatedIsWritten
  BY DEF IInv
<1> QED BY <1>1, FrameCodecInv, PTL
=============================================================================
