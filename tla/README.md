# Verification of the AMQP analyser and its companions

TLA+ models, TLC runs and TLAPS proofs for the programs of this repository.
The repository is a collection of Go learning projects and notes. The program
with a core of its own is `mq/amqpparser`: it reads captured packets (pcap),
reassembles the AMQP frames in them channel by channel, and prints the messages
delivered to consumers. Its package `amqp` is adapted from a client library:
what a client does by sending is done here by watching.

## 1. Inventory

### Components, their state and how they interact

| Component | Source | State | Operations | Interacts by |
|---|---|---|---|---|
| Parser | `amqp/parser.go` | `connections` by client port | `Parse` per packet, `getConnection` | calls `ReadFrame`, `demux` |
| Frame reader | `amqp/read.go` | position in the packet | `ReadFrame`, field readers | returns a frame or an error |
| Connection | `amqp/connection.go` | `channels` by id | `demux`, `dispatch0`, `dispatchN`, `dispatchClosed` | calls `Channel.recv` |
| Channel state machine | `amqp/channel.go` | `recv`, `message`, `header`, `body` | `recvMethod`, `recvHeader`, `recvContent` | calls `dispatch` |
| Channel.dispatch | `amqp/channel.go` | listener slices (never filled) | one case per method | calls consumers, confirms; starts a forwarding goroutine |
| Consumers | `amqp/consumers.go` | `chans`, mutex, `closed`, wait group; per registration a goroutine with `queue` | `add`, `cancel`, `send`, `close`, `buffer` | Go channels `in` and `out` |
| Confirms | `amqp/confirms.go` | `sequencer`, `published`, `expecting`, `listeners`, mutex | `Publish`, `One`, `Multiple`, `Listen`, `Close` | Go channels of listeners |
| Frame writer, codec | `amqp/write.go` | none | `WriteFrame`, `writeField`, ... | called by nothing in the analyser |
| Methods | `amqp/spec091.go` (generated) | none | `read`, `write` per method | called by `ReadFrame` |
| Analyser program | `amqpparser/main.go` | `currentPcap`, `currentPacketTimestamp`, message channel of capacity 1 | `parsePcap`, `printPacketInfo`, `handleMsg`, `main` | Go channels, shared variables |
| RabbitMQ example | `rabbitmq/main.go` | wait group, context | `publish`, `consume`, `consumer` | a broker |
| Connection pool | `rabbitmq/rbmq` | `hostPorts`, `conns` | `NewRbmq`, `channel`, `Close`, `Client.Publish` | a broker (unfinished code) |
| Employee store | `database/gorm` | a table | `insertEmployee` | a database |
| Exercises, notes | `dt-al`, `idiom`, `basic`, `*.md` | - | - | - |

A packet goes `printPacketInfo` -> `Parser.Parse` -> `ReadFrame` ->
`Connection.demux` -> `Channel.recv` -> `dispatch`; a delivery goes on
`consumers.send` -> `buffer` goroutine -> forwarding goroutine -> message
channel -> `handleMsg`. Everything up to `send` runs in the goroutine of
`main`; from there on there is one pair of goroutines per consumer tag.

### What is hard in this code

- *Protocol sequences.* The state machine must survive any sequence of frames:
  content interrupted by a method, a header or body out of place, bodies that
  are empty, too long or never complete.
- *Both directions on one state machine.* A client library sees the frames of
  its peer only. Here client and server share a `Channel` (`parser.go:50`).
- *Missing frames.* A capture has gaps, and a frame cut by a packet border is
  lost to `ReadFrame`, which starts anew with every packet.
- *Mutexes held while waiting.* `send` and `close` of consumers, `One` and
  `Multiple` of confirms wait on Go channels with their mutex held.
- *Closing Go channels.* `add`, `cancel` and `close` all close the channel
  `in` of a registration; a second close, or a send after it, is a panic.
- *Ordering.* Deliveries of one tag, answers to publishings.
- *Connections that come and go.* The analyser keeps a `Connection` for ever by
  the client's port; the example programs lose theirs with deliveries on them.
- *Shutdown.* In `rabbitmq/main.go` any goroutine may end the process, and the
  wait group does not count the consumer.
- *Read, then insert.* Two runs of the employee program read the same number.

### What makes each component correct

- Channel: `dispatch` gets exactly the messages the frames of the channel
  spell, each with its own header and octets, in order; no nil pointer is used.
- Capture: nothing is mixed, a missing frame costs at most one message, and the
  endpoints told are the right ones.
- Consumers: no misuse of Go channels; each registration is a lossless queue,
  also after it is cancelled; `send` and `close` return; goroutines end.
- Confirms: listeners hear every tag once, in order, with the broker's answer
  (which they do not always, see the findings);
  nothing that could be told is held back; the bookkeeping does not grow.
- Reader: `demux` gets whole frames of one packet and nothing that was not sent,
  all of them up to the first unreadable one, and `Parse` returns.
- Codec: a frame is read as what was written, and nothing beyond its end; what
  cannot be written is refused, and `Validate` says so beforehand.
- Dispatch: it never waits for the handling of messages; every delivery is
  handled, in order within its registration; goroutines of cancelled tags end.
- Program: a file given is opened (it is not, see the findings).
- RabbitMQ example: a message leaves the queue only after it was handled, is
  handled again only for a connection that ended; a clean exit loses no
  publishing; an interrupt ends the process.
- Employee store: numbers without a gap or a repetition; of runs that compete
  for a number one gets it.

`PROJECT.json` lists the hazards line by line, with the properties aimed at them.

## 2. Modules

| Module | What it is |
|---|---|
| `FrameReader` | the loop of `Parser.Parse` and what `ReadFrame` consumes of a packet |
| `FrameReaderProofs` | theorems about it |
| `Methods` | the 62 method types of `spec091.go`, with ids and arguments |
| `FieldCodec` | `write.go` and `read.go`: strings, numbers, flags, tables and their fields |
| `FrameCodec` | a peer that writes frames and a reader that reads them |
| `FrameCodecProofs` | any frame, however its tables nest, is read as what was written |
| `Channel` | the state machine of `channel.go`, `demux` of `connection.go` |
| `ChannelProofs` | its inductive invariants: soundness and completeness of reassembly |
| `Capture` | `Channel` composed with `getConnection`, the peers of several connections and a capture with gaps |
| `CaptureProofs` | its invariants, for any captures: endpoints, contents and what a gap costs |
| `DeliveryQueues` | what a consumers object promises (abstract) |
| `Consumers` | `consumers.go`: mutex, calls, buffer goroutines; implements `DeliveryQueues` |
| `Pipeline` | `Consumers` composed with `dispatch`, the forwarding goroutines, the message channel and `handleMsg`; implements `DeliveryQueues` |
| `PipelineProofs` | the inductive invariant and theorems of `Consumers`, the refinement among them, and on top of these those of `Pipeline` |
| `Confirms` | `confirms.go`: mutex, calls, listeners' Go channels |
| `ConfirmsProofs` | its inductive invariant and theorems |
| `AnalyserMain` | the control of `main` and `parsePcap` |
| `WorkQueue` | what a queue with acknowledgements promises (abstract) |
| `RabbitmqApp` | `rabbitmq/main.go`: its goroutines and connections, and a broker; implements `WorkQueue` |
| `RabbitmqAppProofs` | its inductive invariant, the refinement, a clean exit and how often it handles a message again, for any number of processes |
| `EmployeeStore` | `database/gorm`: several runs of the program on one file |
| `EmployeeStoreProofs` | its inductive invariant and theorems |
| `MCFrameReader`, `MCFrameCodec`, `MCChannel`, `MCCapture`, `MCConsumers`, `MCPipeline`, `MCConfirms`, `MCRabbitmqApp`, `MCEmployeeStore` | values for TLC |

Operators commented "Mutant of ..." are deliberate bugs. No specification uses
them; each one, put in the place of the definition it names, must make a
property fail.

### FrameReader

The octets one side of a connection sends are a sequence of frames, each with
its first and last position. A packet is any run of octets: packets may be
missing, overlap or be captured twice, since nothing reassembles the TCP
stream. `NewPacket` is `printPacketInfo` making a reader for the payload;
`ReadFrame` is one turn of the loop of `Parse`, with one disjunct per way in
which it may return. A frame is "plain" (read as what it is), "strange"
(`ReadFrame` fails midway: for instance on the eight octets that open every
connection) or "short" (a field table that ends amid a field makes `ReadFrame`
return `io.EOF`, which ends the packet). After a failure the loop goes on
behind the octets consumed; inside a frame `Misread` allows everything octets
taken for a frame header can lead to: another failure, the end of the packet, a
panic in `make`, or a frame made up by chance. What a plain frame contains is the
subject of `FrameCodec`.

### Methods, FieldCodec and FrameCodec

A peer (`WriteFrame`) writes the frames of a script, and `ReadFrame` reads them;
`wire` is what lies between. The wire is a sequence of chunks, each the octets
of one number or of one string, with its width: a reader that takes a chunk for
something of another width has lost its place. Of a string the models keep what
it is about and its length, which `writeShortstr` cuts modulo 256 and beyond
which, from 2^31 octets on, `readLongstr` reads nothing and returns no error.
Go's order of iteration over a map is any permutation of the keys, so that what
may be written of a table is a set.

`Methods` has one line per type of `spec091.go`; `write` and `read` of each type
go through the same fields in the same order and give each flag the same bit,
and `parseMethodFrame` has a case for each `id()`: that was compared for all 62,
and one table of arguments stands for both. `FieldCodec` has the functions of
`write.go` and of `read.go`, by their names, and a third part that says what is
left of a value after the trip without speaking of octets: an `int` becomes an
`int32`, an instant loses what is below a second, short strings are cut, keys
that are equal once cut leave one entry. `FramesAreCarried` compares the first
two parts with the third.

Tables and arrays nest. Where the code recurs there are two definitions: an
operator for one level, with a parameter for the level inside (`FieldWrites`,
`FieldRead`, `FieldValid`, `FieldCarries`), and a function that is its own
parameter (`writeField`, `readField`, `validateField`, `Carried`). The functions
have the set of all fields in the tables of the scripts as domain, the constant
`Fields`, in which a field comes after those inside it (`FieldCodecAssumption`):
a Go value of type `Table` is finite, and one that holds itself would never be
written. `readField` is limited by the chunks it is given, as it uses up one for
each level. `Half32` is 2^31, scaled down by TLC; `Content` is what strings can be
about. `FrameSizeAssumption` keeps payloads within the 2^31-1 octets that
`readLongstr` accepts; `writeFrame`, which has 32 bits for the size, and a frame
size agreed with the broker keep far below. `FrameCodecAssumption` gives the
arguments of a frame the types of their Go fields.

### Channel

Variables `recv`, `message`, `header`, `body` are the fields of the same name,
per channel id; `channels` is `Connection.channels`. One action, `Demux(c, f)`,
is the whole handling of a frame: the handler in `recv` runs to its end, and
the definitions `RecvMethod`, `RecvHeader`, `RecvContent` have one disjunct per
case of the `switch` in the code. A method frame amid content is delegated to
`recvMethod` by the code, and to `HandleMethod` here. `panicked` is TRUE after
`panic("unexpected frame type")` (a heartbeat on a channel other than 0) or
after `make` with a capacity it refuses (the header size comes from the wire,
`channel.go:233`). `dispatched` records the calls of `dispatch`; what they do is
the subject of other modules. Octets, properties and methods are opaque.

`wire` is the history of frames. The properties compare `dispatched` with
`wire` through a definition of what frames spell that knows nothing of the
handlers (`Spells`, `EndsMessage`).

### Capture

A capture has one or more TCP connections, each from a client's endpoint to the
server. `printPacketInfo` is `setHost` and `setIP`: which end of a packet is the
client. `connections` is `Parser.connections`, with the endpoints kept for each
port; `getConnection` keeps those of the first packet. A channel of the analyser
is a pair of a port and a channel number, and its state outlives a TCP
connection: `Break` ends one amid whatever its peers were sending, and the next
on its port, from the same host or another, opens the channel anew
(`SendOpen`) and goes on with the state the first one left.

Each peer sends the frames of a content in order and without frames of its own
in between; nothing orders the peers. A frame is either demultiplexed
(`Channel!Demux`) or lost, at most `capture.loss` times. The client acknowledges
deliveries on their channel and the broker keeps to the prefetch asked for, as
`rabbitmq/main.go` has it. A packet has one frame here (what several do is the
subject of `FrameReader`), and none is captured twice. Two hosts that use one
port at the same time are left out: their contents mix, since
`Parser.connections` knows ports only.

### Consumers

Registration `b` is the `b`-th call of `add`: its Go channels `in` and `out`
and its goroutine. A caller that waits with the mutex held has its wait in
`call`: `SendDone` is the rendezvous on `in`, `CloseDone` the return of
`Wait()`. Calls that do not wait are one step. `stage` is where the goroutine
is: `range in` ("range"), its `select` ("select"), after `subs.Done()`
("leaving"), after `close(out)` ("gone"). `inflight` becomes FALSE where the
code sets the variable to nil. A send to a closed channel and a second close
set `panicked`. `add` after `close` is excluded: it would register a goroutine
that gives up with its first delivery, and the next send to it would hang with
the mutex held; but no code of the analyser calls `close`.

The refinement `ImplementsQueues` maps a registration to a queue whose contents
are `queue`, handed out in `read`; closing the object may discard.

The comment at `consumers.go:129` says that `send` could block until the
consumer receives. With the buffer goroutine it does not: this is `CallsReturn`.
The type invariant of the module is part of the one the `pipeline` run checks.

### Pipeline

One goroutine calls `dispatch`; `adding` is the tag it has added and not sent to
yet. `DeliverFirst`, `SendFirst`, `DeliverNext` and `Accepted` are the case of
`basicDeliver`, `CancelTag` that of `basicCancel`; the calls and the buffer
goroutines are those of `Consumers`. A forwarder is "ranging" over `out` or
"holding" a delivery until there is room in `chMsg`. `handled` records what
`handleMsg` takes. The refinement `ImplementsPipelineQueues` maps the pending
elements of a registration to what is in its `queue`, held by its forwarder or
in `chMsg`, in this order. No code of the analyser calls `close`, so it is not
an action here.

### AnalyserMain

`main` goes from "next" (the next file of the command line) through "announce"
(the send on `currentPcap`), "open" and "packets" back to "next", then to
"signal". `currentPcap` is a variable that no action assigns, as in the code:
the steps behind the send are there and cannot be taken.

### Confirms

The reader of the connection calls `One` and `Multiple`; `work` says where it is
between taking and releasing the mutex: which loop it is in, and the listeners
the current confirmation is still to be sent to. `receives[l]` counts receive
operations begun by listener `l`, so that `Emit` is possible exactly when the
Go channel has room or a receiver waits; `Capacity = 0` is an unbuffered
channel. The broker answers each publishing once, alone or with all
unanswered ones before it. `Ahead` lets it answer before `Publish` has counted.
Such an answer is kept in the sequencer (`SequencerIsTidy`), but `Publish` does
not look there: it is told by the next `One` or `Multiple`, or never if none
follows. No property forbids this wait; `NothingHeldBack` is about what has been
counted when a call returns.

No code of the analyser sets `Channel.confirming` or calls `Publish`, `Listen`
or `Close`: the module says what the object does once they are used.

### WorkQueue and RabbitmqApp

`proc[p]` is a process: where its goroutines are (`main`, `pub` for `publish`,
`con` for `consume`, `worker` for `consumer`), `wg`, the publishings accepted by
the library (`count`), and the message the consumer has handled and not yet
acknowledged (`holding`). `link[p]` is its two connections as the broker sees
them, with what is on the way. One action stands for each place in which a
goroutine waits or calls the library: `PubDial`, `PubSelect`, `Publish`,
`PubClose`, `ConDial`, `ConDone`, `ConClose`, `Subscribe`, `Handle`,
`AckDelivery`, `Leave`, `LeaveChannel`, `MsgsClosed`. An error anywhere is
`log.Fatalf`, which ends the process with all its goroutines (`End`), as `Crash`
and the panic of `Unmarshal` on a message shorter than its number do.
`ConDone` counts `consume` done before `ConClose`, as the code does, and the
consumer is not in `wg`.

The broker is external, as is the library: it takes publishings and
acknowledgements in order, delivers within the prefetch, takes deliveries back
when a connection or a channel ends, and answers the request to close a
connection when it has processed what came before. A connection may be lost at
any time; then a prefix of the publishings and any part of the acknowledgements
on the way have arrived. The queue may exist or not, and hold a message of
earlier runs, readable or not.

`WorkQueue` promises that a message leaves the queue only after it was handled.
The refinement maps its `enqueued` to what is on the queue, delivered or
removed.

### EmployeeStore

A process is one run of the program: `Open`, `Migrate`, `Last` (the read),
`Create` (the insert). Each statement is atomic in SQLite and may fail;
`AutoMigrate`'s and `Last`'s errors are ignored by the code, so that a run which
could not read goes on with the number 0 (`misread`). An insert is refused when
the number or the email is taken: both columns are unique. The email is written
from the number before; its format string (`main.go:45`) has no verb for it, but
the number ends up in the text all the same, so that emails differ when the
numbers do.

## 3. Runs

| Run | Shows | Bounds |
|---|---|---|
| `frame_reader` | only sent frames are obtained, and all up to the first unreadable one; `Parse` returns | 4 streams of 3 frames, 2 packets between any 2 of 11 cuts |
| `frame_codec` | every frame is read as what was written, the reader stays in step, refused means invalid | each method with every setting of its flags and 3 ways to fill in the rest; headers with 0, 1, 2 and all properties; 30 tables with fields of every Go type, 2 levels deep; each followed by another frame; an int32 of 4 bits |
| `channel` | soundness, completeness and order of reassembly, and the inductive invariant | one channel, every sequence of 6 frames out of 11; sizes 0, 1, 2 and one too large; bodies of 0 to 2 octets |
| `capture` | contents are not mixed, losses are contained, endpoints are true, when content goes in one direction | 3 deliveries of 0 to 2 octets, prefetch 1, 2 losses; 3 publishings, 1 loss; 2 of each on two connections at a time, 1 loss; 3 on two connections of one port, from one host or two, 1 loss |
| `capture_two_way` | *violation*: method of a delivery with the header of a publishing | nothing lost |
| `consumers` | no misuse, lossless queues, refinement; calls return and cancelled registrations end | 2 callers, 2 tags, 3 registrations, 3 deliveries |
| `pipeline` | lossless queues up to `handleMsg`, order per tag, `dispatch` returns, everything is handled, forwarders end | 2 tags, 3 registrations, 4 deliveries, 1 cancellation |
| `confirms` | order, agreement, tidiness, nothing held back, the mutex is released | 2 listeners of capacity 1 that keep receiving, 3 publishings, 1 may be answered early |
| `confirms_verdict` | *violation*: a negative answer is told as positive | 3 publishings |
| `analyser_main` | *violation*: no file is opened | 2 files |
| `rabbitmq_app` | the queue is a work queue, bounded repetitions, nothing published is left behind by a clean exit; interrupts end, what is queued is handled | 2 processes, one after the other, 1 publishing each, at most 1 message of earlier runs |
| `employee_store` | consecutive numbers, only losers of a race are refused | 4 runs, 0 to 2 employees before |

Why the bounds are enough. The reader starts anew with every packet, so one
packet shows what it does and two show that nothing carries over; the cuts lie
in every part of a frame that `ReadFrame` distinguishes, and three frames have
one before and one after each unreadable one. A frame is written and read
without regard to the frames around it, so one frame and one behind it show
whether the reader ends in the right place; nothing is compared with a limit but
the lengths of short strings (0, 255, 256, 257) and the range of an int, which
the run scales down. The longest story of one content is method, header and two
bodies, and an interruption takes one more frame and a new content two: six
frames hold an interrupted content followed by a complete one. Channels do not
share state, so one channel is enough for TLC (the proofs have any set).
Two losses with three contents are the smallest case in which the head of one
content and the tail of another could be joined; with one more loss, or with
two on a publisher's channel (which has no acknowledgements in between),
contents are joined, so the bounds are exact. Three registrations over two tags
give a replaced, a cancelled and a live one at the same time; in a pipeline, a
tag cancelled and used again beside another one. Three publishings are needed
for a stored answer between an expected one and a multiple one.

Two captures have two connections because the analyser has a state per port: one
pair shares nothing but the endpoints' table, the other shares everything. A
broken connection leaves the state machine in any of its states to the next one.
Two processes of the RabbitMQ example are a crash and a restart; with one
publishing each and an earlier message there are up to three messages, more than
the prefetch lets out at a time. Two processes at the same time are more states
than a run with liveness can take; the proofs have any number of them. Four runs
of the employee program are two that race for a number and two that race for
the next one, or three that lose to one.

`CHECK_DEADLOCK FALSE` is in every configuration because each model stops at
its bounds, when all is sent and received. That nothing waits for ever before
that is what the liveness properties say.

Fairness. `FrameReader!Spec` has weak fairness of `Parse`, which runs in the
goroutine of `main` and waits for nothing. `Consumers!Spec` has weak fairness of
the steps of goroutines that can run (the Go scheduler is fair to runnable
goroutines, and a case of a `select` that stays ready is taken in the end) and
of none of the application: nobody has to read, cancel or close; `CancelledEnds`
has the reader that keeps reading as its premise. `PipelineSpec` has the same
for the goroutines of the package, strong fairness of a forwarder's send (a Go
channel serves blocked senders in turn), and none of `handleMsg`; its receiving
is the premise of the two properties that need it. `Confirms!LiveSpec` has the
reader's own steps and listeners that keep receiving, which `One` and `Multiple`
need by design. `AnalyserMain!Spec` has weak fairness of `main`, and nobody has
to interrupt the program. `RabbitmqApp!Spec` has weak fairness of each process
(a step of some goroutine that can run) and of the broker, and none of
interrupts, crashes, losses or starts; `QueuedIsHandled` has a consumer that
serves as its premise, since nothing makes one stay. The runs of
`EmployeeStore` are about safety.

### Findings

1. `capture_two_way`. `recvHeader` takes any header for the header of the
   pending method, and both directions share the `Channel`. With deliveries and
   publishings on one channel the analyser reports contents nobody sent: in the
   run the method of a publishing comes first, the method of a delivery replaces
   it in `ch.message`, and the header of the publishing (size 0) completes the
   delivery, whose method is dispatched with it.
   `amqp/types.go:381` is true of each peer, not of the channel. The example
   programs use one connection to publish and another to consume, so the
   traffic they produce is not affected (`capture`).
   An acknowledgement of another delivery amid a delivery does the same harm as
   soon as the prefetch exceeds one.
2. `confirms_verdict`. `Multiple` does not look at answers waiting in the
   sequencer, so a `basic.nack` is overruled by a later `basic.ack` that covers
   its tag.
3. `analyser_main`. `currentPcap` (`main.go:31`) is never made. `parsePcap` sends
   the name of the file on it before opening the file, and waits there for ever:
   the options `-c` and `-s` do nothing but stop the program. The runs about the
   other parts hold for the package `amqp` whatever program feeds it.

## 4. Proofs

`FrameReaderProofs` proves, for any set of streams, any cuts and any number of
packets that satisfy `FrameReaderAssumption`:

- `ReaderTypeCorrect`: `Spec => []TypeOK`: it never reads beyond a packet;
- `OnlyFramesAreObtained`: `Spec => []OnlySentFrames`;
- `AlignedPacketsAreRead`: `Spec => []AlignedPacketIsRead`;
- `EachTurnAdvances`: every turn of the loop of `Parse` ends it or moves the
  reader on. With the bound in `TypeOK` this is `ParseReturns` but for fairness.

`OnlySentFrames` alone does not say why the reader makes nothing up. `KeepsPlace`
does: in a packet that begins with a frame and holds no strange one, the reader
is at the border of a frame or at the end of the packet. `TurnOfLoop` reduces the
many returns of `ReadFrame` to four kinds of step, and there is one lemma for
each.

The converse, that what can be read is read, needs its own strengthening,
`CompleteInv`. `RestIsAhead` says that as long as a readable frame of a packet
that begins with a frame has not been obtained, the reader is at a border and the
frame lies ahead of it. A turn that understands a frame moves to the next border
and passes no other (`PlainTurnReads`; `LaterFrames`, that frames do not overlap,
is an induction over a set of numbers). A turn that understands none has met the
end of the packet, a frame that is cut off or one that cannot be read, and then
nothing readable is left (`NothingLeft`). `ObtainedIsBehind` says that what has
been obtained from this packet ends at or before the reader's place: it gives the
order, and from the order that no frame is obtained twice.

`ChannelProofs` proves, for any sets of channels, methods, properties, octets
and frames and any bounds that satisfy `ChannelAssumption`:

- `TypeCorrect`: `Spec => []TypeOK`;
- `HandlersKnowTheirPlace`: `Spec => []HandlerKnowsPlace`;
- `ReassemblyIsSound`: `Spec => []DispatchedIsSpelled`;
- `ReassemblyIsComplete`: `Spec => []SpelledIsDispatched`.

`TypeOK` is not inductive alone: `recvHeader` dispatches `message`, which is nil
in a new channel. `DispatchedIsSpelled` is not either: `recvContent` dispatches
octets collected earlier. The strengthening `HandlerKnowsPlace` says what each
handler knows of the frames received: `recvHeader` runs only right after a
method frame with content, with an empty body; `recvContent` runs only at the
end of an uninterrupted run of frames that carry exactly `body` and are still
short of the announced size. `IInv` is the conjunction. The argument has three
layers: lemmas on sequences of frames (`SpellsAppend`, `HeaderFollows`,
`BodyFollows`: how a run grows by one frame); lemmas on one step of one channel
(`TypeStep`, `PlaceStep`, `SpelledStep`); and `DemuxIInv`, which holds for any
frame, so that it can be used for `Capture` as well.

Completeness needs the converse: frames that spell a message were not passed
over. `NothingLeftOpen` says that a handler which awaits a method has no content
open behind it, and `FullInv` adds it and `SpelledIsDispatched` to `IInv`. The
messages a frame completes are counted as a set of positions, since the prover
has no induction over sequences: a step adds at most the last position, and does
so exactly when `dispatched` grows (`DemuxFullInv`).

`CaptureProofs` proves, for any ports, channels, contents, hosts and captures
that satisfy `CaptureAssumption`:

- `CaptureTypeCorrect`: `CaptureSpec => []CaptureTypeOK`;
- `EndpointsTold`: `CaptureSpec => []EndpointsAreTrue`;
- `ContentArrivesIntact`: `CaptureSpec => []ContentIsIntact`;
- `LossCostsLittle`: `CaptureSpec => []LossIsContained`.

The first two hold whatever the captures. The third is about captures in which
on every connection one peer at most sends contents (`OneWay`; the run
`capture_two_way` shows what happens otherwise) and no more is missing than is
`Tolerable`: one frame, or two when there are deliveries only, one at a time, on
ports that are not used again. With more, the head of one content and the tail
of another of the same size are joined, as the bounds of the run `capture` say.
The fourth needs `OneWay`, the prefetch of one that `rabbitmq/main.go` asks for,
and contents no larger than `make` can allocate: a larger one makes `recvHeader`
panic, after which nothing arrives. It has no bound on the losses.

`Typed` carries `FullInv` of `Channel` over to the frames the peers send.
`Known` says of a port that its `Connection` was made for one of its TCP
connections before any content that has been read from it was sent; the
endpoints follow. `Orderly` is what the peers keep to: a connection sends when
those before it on its port have ended, a delivery when those before it on its
channel are acknowledged. `Pending` is the heart: the content a channel has in
`message` is the last its sender began, and either the channel has all that was
sent of it (`Aligned`), or a frame of it is missing and with it any chance of
completion (`Astray`), or its connection broke off and the method frame that
opens the next one discards it (`Broken`). There is one lemma for each handler
and each frame a peer may send. `Contained` counts: contents that have not
arrived and cannot any more (`Missed`) are no more than the frames lost; a step
that makes one more content miss is the loss of a frame of it.

`RabbitmqAppProofs` proves, for any number of processes, any number of them at a
time, any number of publishings and any messages of earlier runs:

- `TypeCorrect`: `Spec => []TypeOK`;
- `ProgramImplementsWorkQueue`: `Spec => ImplementsWorkQueue`;
- `ExitWaitsForTheBroker`: `Spec => PublishedIsReceived`;
- `RepetitionsHaveACause`: `Spec => []RepeatsAreBounded`.

A step of the refinement may remove messages only if they were handled, and
nothing in the types says that an acknowledgement is of a handled message, or
that nothing but an acknowledged message leaves the broker's books. `IInv` says
it process by process (`Good`): acknowledgements and the message held are of
handled ones (`Justified`), the consumer's one delivery is unhandled, held or in
an acknowledgement, never in two of these places (`InOnePlace`, which needs the
prefetch of one), and `wg` counts exactly `publish` and `consume` (`Counted`)
with what each has done by where it stands (`Published`, `Started`). A step
disturbs one process; `LocalIInv` carries `Good` over for the others, since the
sets it speaks of only grow.

The bound on repetitions is not inductive: what has been handled and is on the
queue again will be repeated without any further loss.
`Budget` counts it: repetitions and messages that are going to be repeated
(`Pending`) are together no more than the connections that have ended and have
nothing left to handle (`Spent`). A connection that ends pays either at once, for
the message it gives back, or when its consumer has handled the delivery it still
has (`Ends`, `Repeats`); nothing else makes a message pending (`NothingPends`). The
rest of `BookInv` is why: a message is in one place of the broker's books (`Apart`),
an open connection has nothing unacknowledged but what is still to be handled,
held or acknowledged (`AllThere`), and publishings that arrive are new
(`FirstOnes`).

`EmployeeStoreProofs` proves, for any number of runs and any table to begin with:

- `EmployeesAreNumbered`: `Spec => []NumbersAreConsecutive`;
- `OnlyLosersAreRefused`: `Spec => []RefusedByAnother`.

A run that reads and inserts in two statements relies on the unique column. Its
invariant says of each run that its number is not ahead of the table
(`NothingAhead`), how many rows have come since it read (`RowsSinceReading`), and
that a refused one is behind (`RefusedIsBehind`): an untaken number is then the
next one (`UntakenIsNext`), and a taken one was taken since (`TakenIsBehind`).

`PipelineProofs` proves of the consumers object alone, for any callers and tags
and any number of registrations and deliveries:

- `NoMisuse`: `Spec => []NoChannelMisuse`;
- `Served`: `Spec => []RegisteredIsServed`;
- `Lossless`: `Spec => []NothingLostOrReordered`;
- `CallsCanReturn`: `Spec => []WaitsForTheLiving`: whoever waits with the mutex held
  is alone, and waits for goroutines that can go on: one that receives, or those
  that find both `closed` and their `in` closed. This is `CallsReturn` but for
  fairness;
- `Refinement`: `Spec => ImplementsQueues`.

A close of a closed channel, or a send on one, is three calls away from its
cause: `add` replaces a registration, `cancel` removes it, `close` drops them
all. `Mapped` says why none happens: the map names exactly the registrations
whose `in` is open, each once. `Locked` keeps that true while a call waits:
whoever is blocked has the mutex, so what `send` waits for stays in the map.
`Placed` says of each buffer goroutine what its queue holds by where it stands;
with it each step of the goroutine is a step of its queue or a stutter.

and of the whole way to `handleMsg`, for any tags, any number of deliveries,
cancellations and registrations and any capacity of `chMsg`:

- `PipelineTypeCorrect`: `PipelineSpec => []PipelineTypeOK`;
- `HandledInOrder`: `PipelineSpec => []TagOrder`;
- `DeliveriesAreKept`: `PipelineSpec => []NothingIsLost`: whatever is dispatched is
  handled or in the hands of a goroutine that can pass it on, the part of
  `DeliveredIsHandled` that needs no fairness;
- `PipelineRefinement`: `PipelineSpec => ImplementsPipelineQueues`.

A step of the pipeline is a step of the consumers object or leaves it alone
(`OfConsumers`), so the invariant of the object holds here as well.
`TagOrder` needs four more facts. `dispatch` alone calls the object, one call
after the other, so the n-th delivery dispatched has the number n (`Numbered`);
each goes to one registration, and to each in order (`Sorted`). Two registrations
have deliveries of one tag only if the tag was cancelled in between (`Parted`);
the difficulty is the delivery `dispatch` is busy with, which is in `tagOf` but
with no registration yet. And what the forwarders have passed on of one
registration is in order and comes before the delivery its forwarder still holds
(`Flowing`).

`NothingIsLost` needs three more (`KeptInv`): no delivery before the last one
accepted was left out (`AllAccepted`); what was read from a buffer is held by its
forwarder or was passed on (`ReadIsPassedOn`); and a registration has a forwarder
until its buffer goroutine is gone (`HasForwarder`), so that nothing stays in a
queue which nobody reads.

The refinement follows from `PInv` too: what is in `chMsg` was read from
exactly one registration, so the step of `handleMsg` hands out of exactly one
queue and leaves the others as they are. `Among`, which picks the deliveries of a
registration, is a recursive function instead of `SelectSeq`, into which the
prover does not look; facts about it are proved by induction over the set of
lengths they hold for (`Induction`, from well-foundedness).

`ConfirmsProofs` proves, for any listeners, any capacity of their channels and
any number of publishings:

- `TypeCorrect`: `Spec => []TypeOK`;
- `InOrder`: `Spec => []ToldInOrder`;
- `Tidy`: `Spec => []SequencerIsTidy`;
- `HoldsNothingBack`: `Spec => NothingHeldBack`;
- `CallsAdvance`: while a call holds the mutex, each of its steps tells one of the
  listeners still to be told, confirms the next tag, or returns. Tags are bounded,
  so this is `MutexIsReleased` but for fairness.

An answer to one tag may release many, each told to every listener in a step of
its own, so that no two listeners need agree in between. `Telling` says that
those the current confirmation is still to be sent to are behind the others by
it alone; `Holding` that all before `expecting` is answered and the sequencer
holds exactly the answers to what follows, but for what the loop of `Multiple`
is about to confirm.

`FrameCodecProofs` proves, for any scripts of frames of any methods, with any
arguments, properties, strings and tables nested to any depth, that satisfy
`FieldCodecAssumption`, `FrameCodecAssumption` and `FrameSizeAssumption`:

- `FramesCarried`: `Spec => []FramesAreCarried`;
- `ReaderStaysInStep`: `Spec => []ReaderInStep`;
- `WrittenIfValid`: `Spec => []ValidatedIsWritten`;
- `FramesInOrder`: `Spec => [](TypeOK /\ InOrder)`.

None of the properties is inductive: they speak of frames that were read, and
nothing in them says that those on the wire will be. `InOrder` does: the frames
accepted are those read and, one for each element of `unread`, those on the wire,
and each of these is `IsOnWire`: whatever chunks come after it, `Parsed` returns
what is carried of it and leaves just those. `IsOnWire` quantifies over all
sequences of chunks, so that TLC cannot evaluate it; what it checks is the
consequence, on each frame of the run.

That a frame written is `IsOnWire` is shown from the inside out. A number and a
string are read back from their chunks, and what follows is left
(`ReadNumberIs`, `ReadShortstrIs`, `ReadLongstrIs`); so is each field that holds
no other (`PlainRead`). An array and a table are, if the fields inside are
(`ArrayReads`, `TableReads`): the octets of their length cut off exactly their
elements (`ReadChunks`), each turn of the loop reads one of them, and the end comes
with the last. `DeepReads` is the induction, on the number of chunks: what is
inside a field takes fewer. `ArgumentIs` puts the kinds of arguments together,
`ReadArgumentsIs` and `PropertiesReadIs` read one after the other, `PayloadIs` is a
payload and `OnWire` a frame. A short string cut to its length modulo 256 is read
back as cut, and two keys that become equal leave the entry of one of them. The
flags of a header and of a method are sums of powers of two, from which each is
read by division. `AllWritten`, that a field is refused exactly if `Validate` finds
fault with it, is an induction over `Fields`.

The theorems of the library about induction have an operator as a parameter,
which the provers cannot instantiate. `Upwards` and `Downwards` are induction over
a set of numbers instead, from the least element of its complement (`WFMin`); with
them it is shown of each recursive function that it is what its definition says
(`writeFieldIs`, `CarriedIs`, ...), which is no matter of course: the
definition is a choice among the functions that satisfy it.

What is only model-checked, and why: all liveness properties, since fairness and
ENABLED are out of the prover's reach. What they rest on besides fairness is
proved where the modules say so (`EachTurnAdvances`, `CallsAdvance`,
`CallsCanReturn`, `DeliveriesAreKept`).

## 5. Plan

Built: the way of a packet from `Parse` to `handleMsg` with several connections,
what frames contain, confirms, and the two other programs. Every safety property
and every refinement that the runs check is proved for all values of the
constants.

What could follow is what the liveness properties of `RabbitmqApp` rest on besides
fairness, said as it is for the other modules.

## 6. Not modelled

Octets that no writer of the package wrote have no contents here: `FrameReader`
lets anything come of them. A write to a connection that fails half-way, and
payloads of 2^31 octets and methods that are nil, are left out of the codec. `Ack`, `Nack` and `Reject`
of `Channel` end in a `send` that does nothing. Formatting and printing are left
out. The listener slices of `dispatch` (`flows`, `returns`, `cancels`) are never
filled by any code here. `currentPacketTimestamp` is written by `main` and read by
`handleMsg` without synchronisation, and nothing says what should be printed; a
message shorter than its number, on which `Unmarshal` panics, is modelled in
`RabbitmqApp` but not in `Pipeline`. The connection pool (`rabbitmq/rbmq`) is
unfinished: `NewRbmq` copies its hosts into a nil slice, so that no connection is
ever made and `conns` stays empty. `configConn` sets pool sizes that a program of
one goroutine does not reach. Vendored packages, notes and exercises have no
behaviour of this repository's own. The rest of what is missing is in the plan.
