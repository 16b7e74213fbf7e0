----------------------------- MODULE MCBuxChannel -----------------------------
(* Instance of BuxChannel for TLC: three threads, two values, two slots.     *)
EXTENDS BuxChannel
==============================================================================
