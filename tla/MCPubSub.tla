------------------------------- MODULE MCPubSub -------------------------------
(* Model-checking instance of PubSub.                                       *)
EXTENDS PubSub

CONSTANTS s1, p1

(* s1 has no filter; the other accepts only the first message of p1.        *)
SomeFilters == [s \in Subs |-> IF s = s1 THEN Messages ELSE {<<p1, 1>>}]
=============================================================================
