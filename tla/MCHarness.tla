----------------------------- MODULE MCHarness -----------------------------
(* Model-checking instance of Harness: a chain.rlp of one block after      *)
(* genesis, as in the wrong-price challenge.                               *)
EXTENDS Harness

\* Nothing else listens on localhost:8545.
MCNoStranger == {}

\* A foreign node already serving on localhost:8545 reports head 1.
MCStrangerAtOne == {1}

=============================================================================
