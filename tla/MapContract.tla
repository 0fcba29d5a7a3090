---------------------------- MODULE MapContract ----------------------------
(***************************************************************************)
(* What NexusHashMap promises: a finite map.  A put stores or, when memory *)
(* runs out, changes nothing; a delete forgets; nothing else changes what  *)
(* any key maps to.                                                        *)
(***************************************************************************)
CONSTANTS Keys, Values, Nothing

VARIABLE content

Init == content = [k \in Keys |-> Nothing]

Put(k, v) == content' = [content EXCEPT ![k] = v]

Delete(k) == content' = [content EXCEPT ![k] = Nothing]

Next == \E k \in Keys : Delete(k) \/ \E v \in Values : Put(k, v)

Spec == Init /\ [][Next]_content
=============================================================================
