-------------------------- MODULE LoaderRunProofs --------------------------
(***************************************************************************)
(* Which loaded chains are indexed contiguously, for every bound on the   *)
(* stream and every genesis number, given the loader's contract            *)
(* (ChainLoaderProofs). Run loader_genesis_number finds ChainContiguous    *)
(* violated by a genesis whose "number" field is not 0; the theorem here   *)
(* says that this is the only way to violate it.                           *)
(***************************************************************************)
EXTENDS LoaderRun, ChainLoaderProofs

LEMMA TypeOKInvariant == Spec => []TypeOK
<1>1. Init => TypeOK
    BY DEF Init, TypeOK
<1>2. TypeOK /\ [Next]_vars => TypeOK'
    BY DEF TypeOK, Next, vars
<1> QED
    BY <1>1, <1>2, PTL DEF Spec

\* A chain blocksFromFile returns (part_000:494-521) has its blocks at the
\* positions of their numbers exactly when the genesis block gen.ToBlock()
\* built (part_000:470) is numbered 0: the number check (part_000:516)
\* covers the file's blocks and never blocks[0].
THEOREM ContiguousIffGenesisZeroThm ==
    ASSUME LoaderMeetsReference
    PROVE  Spec => [](Result.status = "ok" => (ChainContiguous <=> gnum = 0))
<1>1. TypeOK => (Result.status = "ok" => (ChainContiguous <=> gnum = 0))
    <2> SUFFICES ASSUME TypeOK, Result.status = "ok"
                 PROVE  ChainContiguous <=> gnum = 0
        OBVIOUS
    <2> DEFINE bs == Result.blocks
    <2>1. /\ Len(bs) = Len(stream) + 1
          /\ bs[1] = gnum
          /\ \A j \in 2..Len(bs) : bs[j] = j - 1
        BY AcceptedBlocks DEF TypeOK, Result
    <2>2. Len(bs) \in Nat \ {0}
        BY <2>1
    <2>3. ChainContiguous <=> \A j \in 1..Len(bs) : bs[j] = j - 1
        BY DEF ChainContiguous
    <2> QED
        BY <2>1, <2>2, <2>3
<1> QED
    BY TypeOKInvariant, <1>1, PTL

\* With the genesis chainmaker writes (number 0), every chain the loader
\* accepts is indexed contiguously from 0 (spec 3, "Chain").
THEOREM ChainContiguousThm ==
    ASSUME LoaderMeetsReference, GenesisNumbers = {0}
    PROVE  Spec => []ChainContiguous
<1>1. TypeOK /\ (Result.status = "ok" => (ChainContiguous <=> gnum = 0)) => ChainContiguous
    BY DEF TypeOK, ChainContiguous
<1> QED
    BY TypeOKInvariant, ContiguousIffGenesisZeroThm, <1>1, PTL

=============================================================================
