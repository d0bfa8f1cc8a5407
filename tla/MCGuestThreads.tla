--------------------------- MODULE MCGuestThreads ---------------------------
(* A root thread and two clone children.                                   *)
EXTENDS GuestThreads
=============================================================================
