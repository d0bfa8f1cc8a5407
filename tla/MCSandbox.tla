------------------------------ MODULE MCSandbox ------------------------------
(* A directory d with a file f in it, and a name g beside it.              *)
EXTENDS Sandbox

CONSTANTS d, f, g

MCParent == (d :> Top) @@ (f :> d) @@ (g :> Top)
=============================================================================
