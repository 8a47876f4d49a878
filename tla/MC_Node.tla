------------------------------ MODULE MC_Node ------------------------------
(* Model of Node for TLC: three hashes, a fleet chain of two blocks with  *)
(* one transaction each, and one hash no block names.                     *)
EXTENDS Node, TLC

CONSTANTS t1, t2, t3

MC_Tx == {t1, t2, t3}
MC_BlockTxs == (1 :> {t1}) @@ (2 :> {t2})
=============================================================================
