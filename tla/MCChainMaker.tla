--------------------------- MODULE MCChainMaker ---------------------------
(* Model-checking instance of ChainMaker.                                 *)
EXTENDS ChainMaker

MCGenesisZero == {0}

=============================================================================
