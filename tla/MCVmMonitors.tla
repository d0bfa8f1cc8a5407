---------------------------- MODULE MCVmMonitors ----------------------------
(* Java threads that contend for one object.                               *)
EXTENDS VmMonitors
=============================================================================
