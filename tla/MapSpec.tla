-------------------------------- MODULE MapSpec --------------------------------
(***************************************************************************)
(* What a map promises: for each key the value it was set to last, or that  *)
(* it has none, and how many keys have one.                                *)
(***************************************************************************)
EXTENDS Naturals, FiniteSets

CONSTANTS MapKeys, MapValues, Absent

VARIABLES content, size

Init == content = [k \in MapKeys |-> Absent] /\ size = 0

Counted == size' = Cardinality({k \in MapKeys : content'[k] # Absent})

Put(k, v) == content' = [content EXCEPT ![k] = v] /\ Counted
Delete(k) == content' = [content EXCEPT ![k] = Absent] /\ Counted
Clear == content' = [k \in MapKeys |-> Absent] /\ Counted

Next ==
    \/ \E k \in MapKeys : Delete(k) \/ \E v \in MapValues : Put(k, v)
    \/ Clear

Spec == Init /\ [][Next]_<<content, size>>
==============================================================================
