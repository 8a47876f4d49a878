---------------------------- MODULE MC_ExecutorTx ----------------------------
EXTENDS ExecutorTx

CONSTANTS s1, s2, s3, s4, empty

MC_SubTx == {s1, s2, s3, s4}

\* A bulk of a root and two nodes followed by a unit transaction, and a
\* bulk with an empty root and one node followed by a unit transaction.
MC_Blocks ==
    { << [kind |-> "bulk", root |-> s1, nodes |-> <<s2, s3>>],
         [kind |-> "unit", id |-> s4] >>,
      << [kind |-> "bulk", root |-> empty, nodes |-> <<s2>>],
         [kind |-> "unit", id |-> s4] >> }
=============================================================================
