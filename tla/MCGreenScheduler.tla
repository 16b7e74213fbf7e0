--------------------------- MODULE MCGreenScheduler ---------------------------
(* Instances of GreenScheduler for TLC.  Workers and tasks are model values.  *)
EXTENDS GreenScheduler
==============================================================================
