--------------------------- MODULE MCFrameLimiter ---------------------------
(* FrameLimiter on a small bucket: frames of nothing, less than, as much   *)
(* as and more than it holds.                                              *)
EXTENDS FrameLimiter
=============================================================================
