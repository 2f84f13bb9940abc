--------------------------- MODULE MCChainLoader ---------------------------
(* Model-checking instance of ChainLoader: every stream of at most three   *)
(* items numbered 0..3 or malformed.                                       *)
EXTENDS LoaderRun

\* A genesis.json without a "number" field, as chainmaker writes it.
MCGenesisZero == {0}

\* A genesis.json may also say "number": "0x1".
MCGenesisAny == {0, 1}

=============================================================================
