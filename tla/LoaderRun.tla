----------------------------- MODULE LoaderRun -----------------------------
(***************************************************************************)
(* The inputs of loadChain as the variables of a specification: every      *)
(* bounded stream and genesis is an initial state, and the properties are  *)
(* statements about LoadChain on it.                                       *)
(***************************************************************************)
EXTENDS ChainLoader

VARIABLES stream, gnum, genesisOk, fileOk

vars == <<stream, gnum, genesisOk, fileOk>>

TypeOK ==
    /\ stream \in Streams
    /\ gnum \in GenesisNumbers
    /\ genesisOk \in BOOLEAN
    /\ fileOk \in BOOLEAN

\* The files on disk, the one input the loader reads.
Init ==
    /\ stream \in Streams
    /\ gnum \in GenesisNumbers
    /\ genesisOk \in BOOLEAN
    /\ fileOk \in BOOLEAN

\* Loading does not change the files.
Next == UNCHANGED vars

Spec == Init /\ [][Next]_vars

Result == LoadChain(genesisOk, fileOk, stream, gnum)

-----------------------------------------------------------------------------
\* blocksFromFile accepts exactly the streams numbered 1, 2, ..., N, returns
\* them in stream order after the genesis block, and otherwise reports the
\* kind and the index of the first offending item (spec 8, "Sequence
\* invariant").
LoaderMatchesReference ==
    genesisOk /\ fileOk => Result = ReferenceLoad(stream, gnum)

\* A loaded chain is indexed contiguously from 0: the block at position j
\* (genesis at 0) has number j (spec 3, "Chain").
ChainContiguous ==
    Result.status = "ok" =>
        \A j \in 1..Len(Result.blocks) : Result.blocks[j] = j - 1

=============================================================================
