---------------------------- MODULE AnalyserMain ----------------------------
(***************************************************************************)
(* The analyser program (amqpparser/main.go): main starts handleMsg, then  *)
(* parses the file given with -c and the file given with -s, one after the *)
(* other, and waits for an interrupt. parsePcap announces each file to     *)
(* handleMsg on the Go channel currentPcap before it opens the file.       *)
(*                                                                         *)
(* Opening a file and parsing its packets are one step each; what comes of *)
(* the packets is the subject of Pipeline. A send or a receive on a nil Go *)
(* channel waits for ever; so does main, while nobody interrupts it.       *)
(***************************************************************************)
EXTENDS Integers, Sequences

CONSTANT File     (* the files that may be named on the command line        *)

VARIABLES
  files,       (* the files given and not finished yet, -c before -s        *)
  main,        (* where main is                                             *)
  handler,     (* where handleMsg is                                        *)
  currentPcap, (* the Go channel of this name: "nil" or "made"              *)
  pcap,        (* the file handleMsg prints as the source of messages       *)
  opened       (* history: files opened so far                              *)

vars == <<files, main, handler, currentPcap, pcap, opened>>

(* currentPcap is declared without a value. *)
Init ==
  /\ files \in {<<>>} \cup {<<f>> : f \in File} \cup {<<f, g>> : f, g \in File}
  /\ main = "next"
  /\ handler = "select"
  /\ currentPcap = "nil"
  /\ pcap = {}
  /\ opened = {}

ParsePcap ==
  /\ main = "next" /\ files # <<>>
  /\ main' = "announce"
  /\ UNCHANGED <<files, handler, currentPcap, pcap, opened>>

(* currentPcap <- file meets the case of the select in handleMsg. *)
Announce ==
  /\ main = "announce" /\ handler = "select" /\ currentPcap = "made"
  /\ main' = "open"
  /\ pcap' = {Head(files)}
  /\ UNCHANGED <<files, handler, currentPcap, opened>>

(* pcap.OpenOffline, which ends the program when it fails. *)
Open ==
  /\ main = "open"
  /\ \/ main' = "packets" /\ opened' = opened \cup {Head(files)}
     \/ main' = "exited" /\ UNCHANGED opened
  /\ UNCHANGED <<files, handler, currentPcap, pcap>>

ParsePackets ==
  /\ main = "packets"
  /\ main' = "next"
  /\ files' = Tail(files)
  /\ UNCHANGED <<handler, currentPcap, pcap, opened>>

AwaitSignal ==
  /\ main = "next" /\ files = <<>>
  /\ main' = "signal"
  /\ UNCHANGED <<files, handler, currentPcap, pcap, opened>>

(* An interrupt ends the program, by default or through cancel(). *)
Interrupt ==
  /\ main # "exited"
  /\ main' = "exited"
  /\ handler' = "stopped"
  /\ UNCHANGED <<files, currentPcap, pcap, opened>>

Step == ParsePcap \/ Announce \/ Open \/ ParsePackets \/ AwaitSignal

Next == Step \/ Interrupt

(* main goes on as long as it can. *)
Spec == Init /\ [][Next]_vars /\ WF_vars(Step)

(***************************************************************************)
(* A file given on the command line is opened, unless the program exits    *)
(* first: the usage of -c and -s says "client pcap file" and "server pcap  *)
(* file" (main.go, init).                                                  *)
(***************************************************************************)
GivenFilesAreOpened ==
  \A f \in File :
    (\E n \in DOMAIN files : files[n] = f) ~> (f \in opened \/ main = "exited")
=============================================================================
