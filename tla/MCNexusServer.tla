---------------------------- MODULE MCNexusServer ----------------------------
(* Instances of NexusServer for TLC.  The instance has more workers than      *)
(* threads in the pool and one connection more than the channel holds.        *)
EXTENDS NexusServer
==============================================================================
