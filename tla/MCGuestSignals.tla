--------------------------- MODULE MCGuestSignals ---------------------------
(* Two threads; one signal that kills and one that is ignored by default.  *)
EXTENDS GuestSignals

MCHandlers ==
  {[kind |-> "handler", mask |-> {10, 17}, nodefer |-> FALSE, once |-> TRUE],
   [kind |-> "handler", mask |-> {}, nodefer |-> TRUE, once |-> FALSE]}
=============================================================================
