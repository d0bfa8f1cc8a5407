---------------------------- MODULE MCVmThreads ----------------------------
(* Model checking instance of VmThreads.                                    *)
EXTENDS VmThreads
=============================================================================
