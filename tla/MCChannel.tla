----------------------------- MODULE MCChannel -----------------------------
(***************************************************************************)
(* One channel receiving every sequence of frames up to MaxWire: two       *)
(* methods with content, one without, headers announcing no octet, one,    *)
(* two or more than can be allocated, body frames of no octet to two.      *)
(***************************************************************************)
EXTENDS Channel

CONSTANTS deliver, return, cancel, p1, o1, o2, hugeSize

MCFrameIn ==
  [kind : {"method"}, method : {deliver, return, cancel}]
    \cup [kind : {"header"}, size : {0, 1, 2, hugeSize}, properties : {p1}]
    \cup [kind : {"body"}, body : {<<>>, <<o1>>, <<o2, o1>>}]
    \cup [kind : {"heartbeat"}]

MCChan == {1}
MCContentMethod == {deliver, return}
MCPlainMethod == {cancel}
MCProperties == {p1}
MCOctet == {o1, o2}
=============================================================================
