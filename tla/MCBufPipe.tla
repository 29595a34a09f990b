----------------------------- MODULE MCBufPipe -----------------------------
(* Bounds for model-checking BufPipe. *)
EXTENDS BufPipe

MCSizes == {1, 2, 3}
=============================================================================
