------------------------------ MODULE MC_Schema ------------------------------
(* Two keys, the node's network, another one and the empty one; one field *)
(* left empty or none; bulks of up to two nodes.                          *)
EXTENDS Schema

CONSTANTS k1, k2

MC_Keys == {k1, k2}
MC_Nets == {"skynet", "other", ""}
MC_EmptyChoices == {{}, {"method"}}
====
