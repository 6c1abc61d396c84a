--------------------------- MODULE MCRendererProcess ---------------------------
(* Small instances of RendererProcess for TLC. *)
EXTENDS RendererProcess

TwoProcs == 1..2
=============================================================================
