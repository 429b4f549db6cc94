----------------------------- MODULE FrameCodec -----------------------------
(***************************************************************************)
(* Frames as they are written (amqp/write.go, by peers that use the        *)
(* library the analyser's package is a copy of) and read (amqp/read.go,    *)
(* parseMethodFrame in amqp/spec091.go). What FrameReader and Channel take *)
(* for granted of a frame is shown here: ReadFrame finds in it what was    *)
(* put in, and ends exactly where the frame ends.                          *)
(***************************************************************************)
EXTENDS FieldCodec, Methods

CONSTANTS
  Scripts    (* a sequence of the sequences of frames a peer may write      *)

FrameType == [method |-> 1, header |-> 2, body |-> 3, heartbeat |-> 8]
frameEnd == 206
ZeroTime == <<-1, 0>>     \* the second of time.Time{} stands for itself

\* The fields of `properties` and their flags. The writer leaves out
\* reserved1.
Property(name, kind, flag) == [name |-> name, kind |-> kind, flag |-> flag]
Properties == <<
  Property("ContentType", "shortstr", 32768),
  Property("ContentEncoding", "shortstr", 16384),
  Property("Headers", "table", 8192),
  Property("DeliveryMode", "octet", 4096),
  Property("Priority", "octet", 2048),
  Property("CorrelationId", "shortstr", 1024),
  Property("ReplyTo", "shortstr", 512),
  Property("Expiration", "shortstr", 256),
  Property("MessageId", "shortstr", 128),
  Property("Timestamp", "timestamp", 64),
  Property("Type", "shortstr", 32),
  Property("UserId", "shortstr", 16),
  Property("AppId", "shortstr", 8),
  Property("reserved1", "shortstr", 4) >>
Zero == [shortstr |-> <<"none", 0>>, table |-> <<>>, octet |-> 0,
         timestamp |-> ZeroTime]
PropertyName == {Properties[i].name : i \in 1 .. 14}
NoProperties ==
  [name \in PropertyName |->
     LET i == CHOOSE i \in 1 .. 14 : Properties[i].name = name
     IN  Zero[Properties[i].kind]]
hasProperty(mask, flag) == (mask \div flag) % 2 = 1

IsFrame(f) ==
  /\ f.kind \in DOMAIN FrameType /\ f.channel \in Nat
  /\ f.kind = "method" =>
       /\ f.method \in Methods /\ DOMAIN f.args = DOMAIN f.method.args
       /\ \A i \in DOMAIN f.args : IsArgument(f.method.args[i], f.args[i])
  /\ f.kind = "header" =>
       /\ f.class \in Nat /\ f.weight \in Nat /\ f.size \in Nat
       /\ \A i \in 1 .. 13 : IsArgument(Properties[i].kind, f.props[Properties[i].name])
  /\ f.kind = "body" => f.body \in String

ASSUME FrameCodecAssumption ==
  \A s \in DOMAIN Scripts :
    /\ Scripts[s] \in Seq(Range(Scripts[s]))
    /\ \A i \in DOMAIN Scripts[s] : IsFrame(Scripts[s][i])

VARIABLES
  script,   (* external: the number of the script the peer follows          *)
  step,     (* external: frames of it handed to WriteFrame                  *)
  wire,     (* written and not read                                         *)
  failed,   (* the error ReadFrame returned, or "nil"                       *)
  got,      (* history: the frames ReadFrame returned                       *)
  accepted, (* history: the frames WriteFrame wrote, and                    *)
  results,  (* history: what WriteFrame returned for each of the script     *)
  unread    (* history: the chunks of each frame not read yet               *)

vars == <<script, step, wire, failed, got, accepted, results, unread>>

Init ==
  /\ script \in DOMAIN Scripts
  /\ step = 0 /\ wire = <<>> /\ failed = "nil"
  /\ got = <<>> /\ accepted = <<>> /\ results = <<>> /\ unread = <<>>

-----------------------------------------------------------------------------
(* Mutant of IsSet: off by one in the comparison of an integer with 0. *)
IsSetAboveOne(f, i) ==
  LET v == f.props[Properties[i].name]
  IN  IF Properties[i].kind = "octet" THEN v > 1 ELSE v # Zero[Properties[i].kind]

IsSet(f, i) == f.props[Properties[i].name] # Zero[Properties[i].kind]

\* `tables` has what writeTable writes of each table in the frame.
methodPayload(f, tables) ==
  After(Number(2, f.method.class) \o Number(2, f.method.method),
        WriteAll([i \in DOMAIN f.method.args |->
                    WriteArgument(f.method.args[i], f.args[i], tables[f.args[i]])]))

headerPayload(f, tables) ==
  LET mask == Total([i \in 1 .. 13 |-> IF IsSet(f, i) THEN Properties[i].flag ELSE 0])
      write(i) == LET v == f.props[Properties[i].name]
                  IN  WriteArgument(Properties[i].kind, v, tables[v])
  IN  After(Number(2, f.class) \o Number(2, f.weight) \o Number(8, f.size) \o
              Number(2, mask),
            WriteAll([i \in 1 .. 13 |-> IF IsSet(f, i) THEN write(i) ELSE Written(<<>>)]))

Payload(f, tables) ==
  CASE f.kind = "method"    -> methodPayload(f, tables)
    [] f.kind = "header"    -> headerPayload(f, tables)
    [] f.kind = "body"      -> Written(Octets(f.body))
    [] f.kind = "heartbeat" -> Written(<<>>)

writeFrame(f, payload) ==
  Number(1, FrameType[f.kind]) \o Number(2, f.channel) \o
  Number(4, Size(payload)) \o payload \o Number(1, frameEnd)

\* The values in a frame that are tables.
Tables(f) ==
  CASE f.kind = "method" ->
         {f.args[i] : i \in {j \in DOMAIN f.args : f.method.args[j] = "table"}}
    [] f.kind = "header" -> {f.props["Headers"]}
    [] OTHER -> {}

\* The frames a peer may write have payloads that readLongstr and uint32(size)
\* can count: what is in a table as well.
ASSUME FrameSizeAssumption ==
  \A s \in DOMAIN Scripts : \A i \in DOMAIN Scripts[s] :
    LET f == Scripts[s][i]
    IN  \A tables \in OneOfEach([t \in Tables(f) |-> writeTable(t)]) :
          Size(Payload(f, tables).out) <= MaxLength

\* writer.WriteFrame: what is refused leaves nothing on the wire, because
\* the payload is complete before the first octet of the frame is written.
WriteFrame ==
  /\ step < Len(Scripts[script])
  /\ step' = step + 1
  /\ LET f == Scripts[script][step + 1]
     IN  \E tables \in OneOfEach([t \in Tables(f) |-> writeTable(t)]) :
           LET w == Payload(f, tables)
           IN  /\ results' = Append(results, w.err)
               /\ IF w.err # "nil" THEN UNCHANGED <<wire, accepted, unread>>
                  ELSE /\ wire' = wire \o writeFrame(f, w.out)
                       /\ accepted' = Append(accepted, f)
                       /\ unread' = Append(unread, writeFrame(f, w.out))
  /\ UNCHANGED <<script, failed, got>>

-----------------------------------------------------------------------------
\* The statements of a method's read, one after the other.
NextArgument(args, kind) ==
  Then(args, LAMBDA vs, r :
    Then(ReadArgument(kind, r), LAMBDA v, rest : Ok(Append(vs, v), rest)))

ArgumentsRead(kinds, in) ==
  LET done[i \in 0 .. Len(kinds)] ==
        IF i = 0 THEN Ok(<<>>, in) ELSE NextArgument(done[i - 1], kinds[i])
  IN  done
ReadArguments(kinds, in) == ArgumentsRead(kinds, in)[Len(kinds)]

Named(class, id) == {m \in Methods : m.class = class /\ m.method = id}
ReadMethod(channel, named, in) ==
  IF named = {} THEN Failed("unknown method", in)
  ELSE LET m == CHOOSE m \in named : TRUE
       IN  Then(ReadArguments(m.args, in), LAMBDA args, rest :
             Ok([kind |-> "method", channel |-> channel, method |-> m,
                 args |-> args], rest))

parseMethodFrame(channel, in) ==
  Then(ReadNumber(2, in), LAMBDA class, r1 :
    Then(ReadNumber(2, r1), LAMBDA id, r2 :
      ReadMethod(channel, Named(class, id), r2)))

\* The properties, one after the other, as far as the flags say.
NextProperty(props, p, flags) ==
  IF ~hasProperty(flags, p.flag) THEN props
  ELSE Then(props, LAMBDA vs, r :
         Then(ReadArgument(p.kind, r), LAMBDA v, rest :
           Ok([vs EXCEPT ![p.name] = v], rest)))

PropertiesRead(flags, in) ==
  LET done[i \in 0 .. 14] ==
        IF i = 0 THEN Ok(NoProperties, in)
        ELSE NextProperty(done[i - 1], Properties[i], flags)
  IN  done

parseHeaderFrame(channel, in) ==
  Then(ReadNumber(2, in), LAMBDA class, r1 :
    Then(ReadNumber(2, r1), LAMBDA weight, r2 :
      Then(ReadNumber(8, r2), LAMBDA size, r3 :
        Then(ReadNumber(2, r3), LAMBDA flags, r4 :
          Then(PropertiesRead(flags, r4)[14], LAMBDA props, rest :
            Ok([kind |-> "header", channel |-> channel, class |-> class,
                weight |-> weight, size |-> size, props |-> props], rest))))))

parseBodyFrame(channel, size, in) ==
  Then(ReadOctets(size, in), LAMBDA body, rest :
    Ok([kind |-> "body", channel |-> channel, body |-> body], rest))

parseHeartbeatFrame(channel, size, in) ==
  IF size > 0 THEN Failed("heartbeat with payload", in)
  ELSE Ok([kind |-> "heartbeat", channel |-> channel], in)

parseFrame(typ, channel, size, in) ==
  CASE typ = 1 -> parseMethodFrame(channel, in)
    [] typ = 2 -> parseHeaderFrame(channel, in)
    [] typ = 3 -> parseBodyFrame(channel, size, in)
    [] typ = 8 -> parseHeartbeatFrame(channel, size, in)
    [] OTHER   -> Failed("frame", in)

Parsed(in) ==
  Then(ReadNumber(1, in), LAMBDA typ, r1 :
    Then(ReadNumber(2, r1), LAMBDA channel, r2 :
      Then(ReadNumber(4, r2), LAMBDA size, r3 :
        Then(parseFrame(typ, channel, size, r3), LAMBDA f, r4 :
          Then(ReadNumber(1, r4), LAMBDA end, rest :
            IF end = frameEnd THEN Ok(f, rest) ELSE Failed("frame", rest))))))

\* reader.ReadFrame, as long as it fails on none.
ReadFrame ==
  /\ wire # <<>> /\ failed = "nil"
  /\ LET r == Parsed(wire)
     IN  /\ wire' = r.rest
         /\ failed' = r.err
         /\ got' = IF r.err = "nil" THEN Append(got, r.v) ELSE got
         /\ unread' = Tail(unread)
  /\ UNCHANGED <<script, step, accepted, results>>

Next == WriteFrame \/ ReadFrame

Spec == Init /\ [][Next]_vars

-----------------------------------------------------------------------------
FrameCarried(sent, read) ==
  /\ read.kind = sent.kind /\ read.channel = sent.channel
  /\ CASE sent.kind = "method" ->
            /\ read.method = sent.method /\ DOMAIN read.args = DOMAIN sent.args
            /\ \A i \in DOMAIN sent.args :
                 ArgumentCarried(sent.method.args[i], sent.args[i], read.args[i])
       [] sent.kind = "header" ->
            /\ \A field \in {"class", "weight", "size"} : read[field] = sent[field]
            /\ \A i \in 1 .. 13 :
                 LET p == Properties[i]
                 IN  ArgumentCarried(p.kind, sent.props[p.name], read.props[p.name])
       [] sent.kind = "body" -> read.body = sent.body
       [] OTHER -> TRUE

(* A frame is read as what was written: the same method with the same      *)
(* flags, numbers, strings (the short ones cut by writeShortstr), tables,  *)
(* whatever order range took through a map, and properties, those left out *)
(* because they are zero included. ReadFrame fails on none of them.        *)
FramesAreCarried ==
  /\ failed = "nil"
  /\ \A i \in DOMAIN got : FrameCarried(accepted[i], got[i])

(* ReadFrame ends where the frame ends: what it has not read are exactly   *)
(* the frames after it. Nothing but the lengths and types in the frame     *)
(* holds it there: parseMethodFrame and parseHeaderFrame are given the     *)
(* size of the payload and ignore it.                                      *)
ReaderInStep == wire = Joined(unread)

(* Table.Validate (types.go) and writeField have a list of Go types each:  *)
(* a frame is refused exactly if Validate finds fault with a table in it,  *)
(* however deep.                                                           *)
ValidatedIsWritten ==
  \A i \in DOMAIN results :
    results[i] = "nil" <=> \A t \in Tables(Scripts[script][i]) : Validate(t)
=============================================================================
