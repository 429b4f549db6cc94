--------------------------- MODULE MCFrameReader ---------------------------
(***************************************************************************)
(* Four streams of three frames: frames that are all understood, and a     *)
(* protocol header, a strange and a short frame with frames that are.      *)
(* Packets are cut at the borders of frames, inside the seven octets of a  *)
(* frame header, on either side of the place where reading fails, and      *)
(* before an end octet.                                                    *)
(***************************************************************************)
EXTENDS FrameReader

F(kind, from, to, stop) == [kind |-> kind, from |-> from, to |-> to, stop |-> stop]

MCCuts == {0, 3, 7, 8, 12, 15, 16, 17, 21, 24, 25}

MCStreams ==
  { << F("plain", 0, 8, 7), F("plain", 8, 17, 15), F("plain", 17, 25, 24) >>,
    << F("strange", 0, 8, 7), F("plain", 8, 17, 15), F("plain", 17, 25, 24) >>,
    << F("plain", 0, 8, 7), F("strange", 8, 17, 15), F("plain", 17, 25, 24) >>,
    << F("plain", 0, 8, 7), F("short", 8, 17, 16), F("plain", 17, 25, 24) >> }
=============================================================================
