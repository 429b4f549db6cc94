----------------------------- MODULE MCPipeline -----------------------------
(* Two consumers of one channel. *)
EXTENDS Pipeline
CONSTANTS t1, t2
MCTag == {t1, t2}
=============================================================================
