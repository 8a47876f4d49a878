--------------------------- MODULE MC_AlignerNode ---------------------------
(* Model of AlignerNode for TLC: a fleet chain of two blocks with one     *)
(* transaction each, and the aligner's own MAX_ATTEMPTS.                  *)
EXTENDS AlignerNode, TLC

CONSTANTS t1

MC_Tx == {t1}
MC_BlockTxs == (1 :> {t1}) @@ (2 :> {})
=============================================================================
