--------------------------- MODULE MCBatchRender ---------------------------
(* A small instance of BatchRender for TLC: the values are in the cfg. *)
EXTENDS BatchRender
=============================================================================
