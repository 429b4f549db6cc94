---------------------------- MODULE MCConsumers ----------------------------
(* Two goroutines that use one object, two consumer tags. *)
EXTENDS Consumers
CONSTANTS parser, other, t1, t2
MCCaller == {parser, other}
MCTag == {t1, t2}
=============================================================================
