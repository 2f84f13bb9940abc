----------------------------- MODULE ChainMaker -----------------------------
(***************************************************************************)
(* The fixture generator src/cmd/chainmaker/main.go:19-119, composed with  *)
(* the loader that reads its output. main builds the genesis, generates    *)
(* one block on top of it, and writes genesis.json and chain.rlp; the      *)
(* chain it writes is the genesis block followed by the generated blocks.  *)
(* writeChain ignores the errors of b.EncodeRLP(w), so a failing write     *)
(* leaves a prefix of the items, the last possibly cut short.              *)
(***************************************************************************)
EXTENDS ChainLoader

\* core.GenerateChain(..., 1, ...) (chainmaker/main.go:60).
Generated == 1

\* blocks = append([]*types.Block{genesis}, blocks...): numbers 0, 1, ...
MadeChain == [j \in 1..(Generated + 1) |-> j - 1]

VARIABLES mpc, chainFile, genesisFile

mvars == <<mpc, chainFile, genesisFile>>

MTypeOK ==
    /\ mpc \in {"genesis", "chain", "done", "failed"}
    /\ chainFile \in Seq(Items) \cup {<<>>}
    /\ genesisFile \in BOOLEAN

MInit ==
    /\ mpc = "genesis"
    /\ chainFile = <<>>
    /\ genesisFile = FALSE

\* writeGenesis: OpenFile, MarshalJSON and Write; any error makes main
\* exit with "unable to write genesis file".
WriteGenesis ==
    /\ mpc = "genesis"
    /\ \/ genesisFile' = TRUE /\ mpc' = "chain"
       \/ UNCHANGED genesisFile /\ mpc' = "failed"
    /\ UNCHANGED chainFile

\* writeChain: OpenFile (the only error it returns), then EncodeRLP of each
\* block with its error dropped. The file holds all items, or the first k
\* of them and maybe a truncated one.
WriteChain ==
    /\ mpc = "chain"
    /\ \/ /\ mpc' = "done"
          /\ \E k \in 0..Len(MadeChain), cut \in BOOLEAN :
               chainFile' =
                 [j \in 1..k |-> Block(MadeChain[j])]
                   \o (IF cut /\ k < Len(MadeChain) THEN <<Garbage>> ELSE <<>>)
       \/ mpc' = "failed" /\ UNCHANGED chainFile
    /\ UNCHANGED genesisFile

MNext == WriteGenesis \/ WriteChain \/ (mpc \in {"done", "failed"} /\ UNCHANGED mvars)

MSpec == MInit /\ [][MNext]_mvars

\* Round trip (spec 8): when chainmaker reports "wrote N blocks to disk",
\* loadChain of its genesis.json and chain.rlp yields the same blocks.
RoundTrip ==
    mpc = "done" =>
        LoadChain(genesisFile, TRUE, chainFile, 0) = Ok(MadeChain)

=============================================================================
