-------------------------- MODULE MCAsyncCoroutines --------------------------
(* Instances of AsyncCoroutines for TLC: three coroutines, of which the first *)
(* may await the second and the second the third.                            *)
EXTENDS AsyncCoroutines

CONSTANTS t1, t2, t3

Chain == {<<t1, t2>>, <<t2, t3>>}
==============================================================================
