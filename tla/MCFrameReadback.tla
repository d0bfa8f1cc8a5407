-------------------------- MODULE MCFrameReadback --------------------------
(* Model checking instance of FrameReadback.                                *)
EXTENDS FrameReadback
=============================================================================
