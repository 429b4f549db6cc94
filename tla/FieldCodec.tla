----------------------------- MODULE FieldCodec -----------------------------
(***************************************************************************)
(* How the values in a frame are written and read (amqp/write.go,          *)
(* amqp/read.go): integers, strings, flags, tables and their fields.       *)
(*                                                                         *)
(* What is written is a sequence of chunks. A chunk is octets that are     *)
(* written together: a number, or the octets of a string. A reader that is *)
(* where a chunk of another length begins has lost its place ("misread").  *)
(*                                                                         *)
(* A string is <<what it is about, its length>>, the empty one about       *)
(* "none": of its octets only how many there are is ever looked at. A field*)
(* is <<its Go type, its value>>, a table a function from strings to fields*)
(* (a nil map is an empty one: len and range do not tell them apart), an   *)
(* instant <<second, nanosecond>>.                                         *)
(*                                                                         *)
(* Tables and arrays nest. What the code does by recursion is a function   *)
(* here, and the operator that says one level of it has a parameter, the   *)
(* function, for the fields inside.                                        *)
(***************************************************************************)
EXTENDS Integers, Sequences, SequencesExt

CONSTANTS
  Half32,    (* 2^31: an int32 is in -Half32 .. Half32-1                    *)
  Content,   (* what strings are about, and the values of floats            *)
  Fields     (* a sequence of the fields in all tables that are written, the*)
             (* fields inside one before it                                 *)

Width == [octet |-> 1, short |-> 2, long |-> 4, longlong |-> 8]
FlagsIn == [bits1 |-> 1, bits2 |-> 2, bits3 |-> 3, bits4 |-> 4, bits5 |-> 5]
Bit == <<1, 2, 4, 8, 16>>

ShortLimit == 256          \* uint8(len(b))
MaxLength == 2147483647    \* ^uint32(0) >> 1

\* No string and no []byte is longer than what readLongstr would read.
String ==
  {s \in ({"none"} \cup Content) \X (0 .. MaxLength) : s[1] = "none" <=> s[2] = 0}
Instant == Int \X Nat

\* The types that hold no other field.
Plain == [bool |-> BOOLEAN, byte |-> Int, int16 |-> Int, int |-> Int,
          int32 |-> Int, int64 |-> Int, float32 |-> Content,
          float64 |-> Content, Decimal |-> Int \X Int,
          string |-> String, bytes |-> String, Time |-> Instant, nil |-> {0}]

Field == Range(Fields)

IsTable(t) ==
  t = [k \in DOMAIN t |-> t[k]] /\ DOMAIN t \subseteq String /\ IsFiniteSet(DOMAIN t)

\* The fields inside a field.
Parts(f) == IF f[1] \in {"Table", "array"} THEN Range(f[2]) ELSE {}

IsField(f) ==
  /\ f = <<f[1], f[2]>>
  /\ f[1] \in DOMAIN Plain => f[2] \in Plain[f[1]]
  /\ f[1] = "Table" => IsTable(f[2])
  /\ f[1] = "array" => f[2] \in Seq(Range(f[2]))

ASSUME FieldCodecAssumption ==
  /\ Half32 \in Nat \ {0}
  /\ "none" \notin Content
  /\ Fields \in Seq(Field)
  /\ \A i \in DOMAIN Fields :
       /\ IsField(Fields[i])
       /\ Parts(Fields[i]) \subseteq {Fields[j] : j \in 1 .. i - 1}

-----------------------------------------------------------------------------
(* Sequences of chunks.                                                    *)

Tag == {"t", "b", "s", "I", "l", "f", "d", "D", "S", "x", "A", "T", "F", "V"}
Chunk == [width : Nat \ {0}, of : {"none"} \cup Tag \cup Content, n : Int]
Chunks == Seq(Chunk)

Number(width, n) == <<[width |-> width, of |-> "none", n |-> n]>>
Letter(c) == <<[width |-> 1, of |-> c, n |-> 0]>>

Octets(str) ==
  IF str[2] = 0 THEN <<>> ELSE <<[width |-> str[2], of |-> str[1], n |-> 0]>>

\* What the k-th and all later elements of a sequence come to.
JoinedFrom(seqs) ==
  LET from[k \in 1 .. Len(seqs) + 1] ==
        IF k > Len(seqs) THEN <<>> ELSE seqs[k] \o from[k + 1]
  IN  from
Joined(seqs) == JoinedFrom(seqs)[1]

TotalFrom(numbers) ==
  LET from[k \in 1 .. Len(numbers) + 1] ==
        IF k > Len(numbers) THEN 0 ELSE numbers[k] + from[k + 1]
  IN  from
Total(numbers) == TotalFrom(numbers)[1]

Size(chunks) == Total([i \in DOMAIN chunks |-> chunks[i].width])

\* The first n octets of a string, b[:n].
Cut(str, n) == IF n = 0 THEN <<"none", 0>> ELSE <<str[1], n>>

\* What a function has for each of the fields inside a table or an array.
Inside(v, of) == [k \in DOMAIN v |-> of[v[k]]]

\* One value of each of some sets.
OneOfEach(sets) ==
  {c \in [DOMAIN sets -> UNION Range(sets)] : \A x \in DOMAIN sets : c[x] \in sets[x]}

-----------------------------------------------------------------------------
(* Writing: the chunks written, or Refused.                                *)

ErrFieldType == "refused"
Written(chunks) == [err |-> "nil", out |-> chunks]
Refused == [err |-> ErrFieldType, out |-> <<>>]

\* One write after the other, up to the first that is refused.
WriteAll(writes) ==
  IF \E i \in DOMAIN writes : writes[i].err # "nil" THEN Refused
  ELSE Written(Joined([i \in DOMAIN writes |-> writes[i].out]))

\* What goes before a write that was not refused.
After(chunks, w) == IF w.err # "nil" THEN w ELSE Written(chunks \o w.out)

\* Written to a buffer first, its length before it.
Sized(w) == After(Number(4, Size(w.out)), w)

(* Mutant of writeShortstr: all octets are written, not b[:length]. *)
writeShortstrUncut(str) == Number(1, str[2] % ShortLimit) \o Octets(str)

writeShortstr(str) ==
  LET length == str[2] % ShortLimit
  IN  Number(1, length) \o Octets(Cut(str, length))

writeLongstr(str) == Number(4, str[2]) \o Octets(str)

\* The conversion of a 64 bit int in uint32(v), read as an int32.
Int32(v) == ((v + Half32) % (2 * Half32)) - Half32

writePlain(type, v) ==
  CASE type = "bool"    -> Letter("t") \o Number(1, IF v THEN 1 ELSE 0)
    [] type = "byte"    -> Letter("b") \o Number(1, v)
    [] type = "int16"   -> Letter("s") \o Number(2, v)
    [] type = "int"     -> Letter("I") \o Number(4, Int32(v))
    [] type = "int32"   -> Letter("I") \o Number(4, v)
    [] type = "int64"   -> Letter("l") \o Number(8, v)
    [] type = "float32" -> Letter("f") \o Octets(<<v, 4>>)
    [] type = "float64" -> Letter("d") \o Octets(<<v, 8>>)
    [] type = "Decimal" -> Letter("D") \o Number(1, v[1]) \o Number(4, v[2])
    [] type = "string"  -> Letter("S") \o writeLongstr(v)
    [] type = "bytes"   -> Letter("x") \o writeLongstr(v)
    [] type = "Time"    -> Letter("T") \o Number(8, v[1])
    [] type = "nil"     -> Letter("V")

\* Written is one of a set: range goes through a map in any order. `sets`
\* has what may be written of each field inside.
EntryWrites(order, writes) ==
  [i \in DOMAIN order |-> After(writeShortstr(order[i]), writes[order[i]])]

TableWrites(t, sets) ==
  {Sized(WriteAll(EntryWrites(order, writes))) :
     order \in SetToSeqs(DOMAIN t), writes \in OneOfEach(sets)}
ArrayWrites(sets) == {Sized(WriteAll(writes)) : writes \in OneOfEach(sets)}

FieldWrites(f, write) ==
  CASE f[1] \in DOMAIN Plain -> {Written(writePlain(f[1], f[2]))}
    [] f[1] = "Table" ->
         {After(Letter("F"), w) : w \in TableWrites(f[2], Inside(f[2], write))}
    [] f[1] = "array" ->
         {After(Letter("A"), w) : w \in ArrayWrites(Inside(f[2], write))}
    [] OTHER -> {Refused}

writeField[f \in Field] == FieldWrites(f, writeField)
writeTable(t) == TableWrites(t, Inside(t, writeField))

\* The argument of a method, or a property, of a kind of module Methods;
\* `table` is what writeTable writes, if it is one.
WriteArgument(kind, v, table) ==
  CASE kind \in DOMAIN Width -> Written(Number(Width[kind], v))
    [] kind = "shortstr"     -> Written(writeShortstr(v))
    [] kind = "longstr"      -> Written(writeLongstr(v))
    [] kind = "timestamp"    -> Written(Number(8, v[1]))
    [] kind = "table"        -> table
    [] kind \in DOMAIN FlagsIn ->
         Written(Number(1, Total([i \in DOMAIN v |-> IF v[i] THEN Bit[i] ELSE 0])))

\* What such an argument may be.
IsArgument(kind, v) ==
  CASE kind \in DOMAIN Width -> v \in Int
    [] kind \in {"shortstr", "longstr"} -> v \in String
    [] kind = "timestamp" -> v \in Instant
    [] kind = "table" -> IsTable(v) /\ Range(v) \subseteq Field
    [] kind \in DOMAIN FlagsIn -> v \in [1 .. FlagsIn[kind] -> BOOLEAN]

(* Mutant of FieldValid: the elements of an array are not looked at. *)
FieldValidOutside(f, valid) ==
  \/ f[1] \in DOMAIN Plain \cup {"array"}
  \/ f[1] = "Table" /\ \A k \in DOMAIN f[2] : valid[f[2][k]]

\* types.go: what Validate says of a field; writeField must agree with it.
FieldValid(f, valid) ==
  \/ f[1] \in DOMAIN Plain
  \/ f[1] \in {"array", "Table"} /\ \A k \in DOMAIN f[2] : valid[f[2][k]]

validateField[f \in Field] == FieldValid(f, validateField)
Validate(t) == \A k \in DOMAIN t : validateField[t[k]]

-----------------------------------------------------------------------------
(* Reading. The operators return the value read and the chunks left.       *)

Ok(v, rest) == [err |-> "nil", v |-> v, rest |-> rest]
Failed(err, rest) == [err |-> err, v |-> "none", rest |-> rest]

\* "if ..., err = ...; err != nil { return }", then the rest of the function.
Then(read, Rest(_, _)) ==
  IF read.err = "nil" THEN Rest(read.v, read.rest) ELSE read

ReadNumber(width, in) ==
  IF in = <<>> THEN Failed("EOF", in)
  ELSE IF Head(in).width = width /\ Head(in).of = "none" THEN
         Ok(Head(in).n, Tail(in))
       ELSE Failed("misread", in)

\* io.ReadFull of n octets that are one string; of none, at the end too.
ReadOctets(n, in) ==
  IF n = 0 THEN Ok(<<"none", 0>>, in)
  ELSE IF in = <<>> THEN Failed("EOF", in)
  ELSE IF Head(in).width = n /\ Head(in).of # "none" THEN
         Ok(<<Head(in).of, n>>, Tail(in))
       ELSE Failed("misread", in)

\* n octets that are several chunks, for a table or an array.
ReadChunks(n, in) ==
  LET ends == {k \in 0 .. Len(in) : Size(SubSeq(in, 1, k)) = n}
  IN  IF ends = {} THEN Failed("misread", in)
      ELSE LET k == CHOOSE k \in ends : TRUE
           IN  Ok(SubSeq(in, 1, k), SubSeq(in, k + 1, Len(in)))

readShortstr(in) == Then(ReadNumber(1, in), ReadOctets)
readBytes(in) == Then(ReadNumber(4, in), ReadOctets)

\* Of what is too long nothing is read, and no error is returned.
readLongstr(in) ==
  Then(ReadNumber(4, in), LAMBDA length, rest :
    IF length > MaxLength THEN Ok(<<"none", 0>>, rest) ELSE ReadOctets(length, rest))

\* What was read, made a field of a type.
As(type, read) == Then(read, LAMBDA v, rest : Ok(<<type, v>>, rest))

ReadBool(in) == Then(ReadNumber(1, in), LAMBDA v, rest : Ok(v # 0, rest))
ReadFloat(width, in) == Then(ReadOctets(width, in), LAMBDA v, rest : Ok(v[1], rest))

readDecimal(in) ==
  Then(ReadNumber(1, in), LAMBDA scale, r :
    Then(ReadNumber(4, r), LAMBDA value, rest : Ok(<<scale, value>>, rest)))

readTimestamp(in) ==
  Then(ReadNumber(8, in), LAMBDA sec, rest : Ok(<<sec, 0>>, rest))

\* A turn of the loop of readArray, `read` for readField: io.EOF ends the
\* array, whatever met it. lim has no more elements than chunks.
NextElement(arr, read) ==
  LET f == read[arr.rest]
  IN  IF arr.err # "nil" THEN arr
      ELSE IF f.err = "nil" THEN Ok(Append(arr.v, f.v), f.rest)
      ELSE IF f.err = "EOF" THEN [arr EXCEPT !.err = "EOF", !.rest = f.rest]
      ELSE f

ElementsRead(lim, read) ==
  LET turn[i \in 0 .. Len(lim) + 1] ==
        IF i = 0 THEN Ok(<<>>, lim) ELSE NextElement(turn[i - 1], read)
  IN  turn
ReadElements(lim, read) ==
  LET end == ElementsRead(lim, read)[Len(lim) + 1]
  IN  IF end.err = "EOF" THEN [end EXCEPT !.err = "nil"] ELSE end

readArray(in, read) ==
  Then(ReadNumber(4, in), LAMBDA n, r1 :
    Then(ReadChunks(n, r1), LAMBDA lim, rest :
      Then(ReadElements(lim, read), LAMBDA v, left : Ok(v, left \o rest))))

\* A turn of the loop of readTable, as long as something is left in nested.
Put(table, key, value) ==
  [k \in DOMAIN table \cup {key} |-> IF k = key THEN value ELSE table[k]]

NextEntry(table, read) ==
  IF table.err # "nil" \/ table.rest = <<>> THEN table
  ELSE Then(readShortstr(table.rest), LAMBDA key, r :
         Then(read[r], LAMBDA value, rest : Ok(Put(table.v, key, value), rest)))

EntriesRead(nested, read) ==
  LET turn[i \in 0 .. Len(nested)] ==
        IF i = 0 THEN Ok(<<>>, nested) ELSE NextEntry(turn[i - 1], read)
  IN  turn

TableRead(in, read) ==
  Then(ReadNumber(4, in), LAMBDA n, r :
    IF n > MaxLength THEN Ok(<<>>, r)
    ELSE Then(ReadChunks(n, r), LAMBDA nested, rest :
           LET t == EntriesRead(nested, read)[Len(nested)]
           IN  [t EXCEPT !.rest = rest]))

\* What is after a field's first octet c.
TaggedRead(c, r, read) ==
  CASE c = "t" -> As("bool", ReadBool(r))
    [] c = "b" -> As("byte", ReadNumber(1, r))
    [] c = "s" -> As("int16", ReadNumber(2, r))
    [] c = "I" -> As("int32", ReadNumber(4, r))
    [] c = "l" -> As("int64", ReadNumber(8, r))
    [] c = "f" -> As("float32", ReadFloat(4, r))
    [] c = "d" -> As("float64", ReadFloat(8, r))
    [] c = "D" -> As("Decimal", readDecimal(r))
    [] c = "S" -> As("string", readLongstr(r))
    [] c = "x" -> As("bytes", readBytes(r))
    [] c = "A" -> As("array", readArray(r, read))
    [] c = "T" -> As("Time", readTimestamp(r))
    [] c = "F" -> As("Table", TableRead(r, read))
    [] c = "V" -> Ok(<<"nil", 0>>, r)
    [] OTHER   -> Failed("syntax", r)

FieldRead(in, read) ==
  IF in = <<>> THEN Failed("EOF", in) ELSE TaggedRead(Head(in).of, Tail(in), read)

\* readField of fields nested up to n deep; in n chunks they are no deeper.
NoField == [in \in Chunks |-> Failed("EOF", in)]
Deeper(read) == [in \in Chunks |-> FieldRead(in, read)]
readField(n) ==
  LET deep[i \in 0 .. n] == IF i = 0 THEN NoField ELSE Deeper(deep[i - 1])
  IN  deep

readTable(in) == TableRead(in, readField(Len(in))[Len(in)])

ReadArgument(kind, in) ==
  CASE kind \in DOMAIN Width -> ReadNumber(Width[kind], in)
    [] kind = "shortstr"     -> readShortstr(in)
    [] kind = "longstr"      -> readLongstr(in)
    [] kind = "timestamp"    -> readTimestamp(in)
    [] kind = "table"        -> readTable(in)
    [] kind \in DOMAIN FlagsIn ->
         Then(ReadNumber(1, in), LAMBDA bits, rest :
           Ok([i \in 1 .. FlagsIn[kind] |-> (bits \div Bit[i]) % 2 = 1], rest))

-----------------------------------------------------------------------------
(* What is left of a value when it was written and read, said without      *)
(* chunks: the reference for the two halves above. It is a set: keys that  *)
(* are equal once cut leave one entry, of any one of them.                 *)

CarriedShort(str) == Cut(str, str[2] % ShortLimit)

TableCarries(t, sets) ==
  {read \in [{CarriedShort(k) : k \in DOMAIN t} -> UNION Range(sets)] :
     \A key \in DOMAIN read :
       \E k \in DOMAIN t : CarriedShort(k) = key /\ read[key] \in sets[k]}

FieldCarries(f, carried) ==
  CASE f[1] = "int"   -> {<<"int32", Int32(f[2])>>}
    [] f[1] = "Time"  -> {<<"Time", <<f[2][1], 0>>>>}
    [] f[1] = "array" -> {<<"array", v>> : v \in OneOfEach(Inside(f[2], carried))}
    [] f[1] = "Table" ->
         {<<"Table", t>> : t \in TableCarries(f[2], Inside(f[2], carried))}
    [] OTHER -> {f}

Carried[f \in Field] == FieldCarries(f, Carried)

ArgumentCarried(kind, sent, read) ==
  CASE kind = "shortstr"  -> read = CarriedShort(sent)
    [] kind = "timestamp" -> read = <<sent[1], 0>>
    [] kind = "table"     -> read \in TableCarries(sent, Inside(sent, Carried))
    [] OTHER              -> read = sent
=============================================================================
