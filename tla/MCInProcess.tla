---------------------------- MODULE MCInProcess ----------------------------
EXTENDS InProcess

\* genesis.json as chainmaker writes it: a genesis block numbered 0.
MCGenesisZero == {0}

=============================================================================
