--------------------------- MODULE MCRabbitmqApp ---------------------------
(* Messages of earlier runs: one that can be read, and one that cannot. *)
EXTENDS RabbitmqApp
CONSTANTS early, foreign
MCEarlier == {early, foreign}
MCUnreadable == {foreign}
=============================================================================
