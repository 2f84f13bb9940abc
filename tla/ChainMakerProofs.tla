------------------------- MODULE ChainMakerProofs -------------------------
(***************************************************************************)
(* What the loader makes of the fixture chainmaker writes, for every bound *)
(* on the streams the loader's contract covers, given that contract        *)
(* (ChainLoaderProofs).                                                    *)
(*                                                                         *)
(* writeChain writes the genesis block first (chainmaker/main.go:64), and  *)
(* blocksFromFile wants the block numbered 1 there (part_000:516): a       *)
(* chain.rlp with an item in it is rejected at index 0, and an empty one   *)
(* loads as the genesis block alone. Run chainmaker_round_trip finds one   *)
(* such run; the theorem says that no run of chainmaker round-trips.       *)
(***************************************************************************)
EXTENDS ChainMaker, ChainLoaderProofs

\* A chain.rlp writeChain may leave: at most the two blocks it encodes,
\* the first of them the genesis block or a truncated item.
FileOfMadeChain(f) ==
    /\ f \in Seq(Items)
    /\ Len(f) <= Len(MadeChain)
    /\ Len(f) >= 1 => f[1] \in {Block(0), Garbage}

\* genesis.json is written before chain.rlp, and a finished run left a
\* chain.rlp of that shape.
MInv ==
    /\ mpc \in {"genesis", "chain", "done", "failed"}
    /\ mpc \in {"chain", "done"} => genesisFile
    /\ mpc = "done" => FileOfMadeChain(chainFile)

\* The verdicts the loader can give on chainmaker's output.
MadeChainVerdicts == {Ok(<<0>>), DecodeError(0), NumberError(0, 0)}

\* The stream bounds of the contract cover chainmaker's output.
OutputBounds == Len(MadeChain) <= MaxItems /\ Generated <= MaxNumber

-----------------------------------------------------------------------------
LEMMA MadeChainShape ==
    /\ Len(MadeChain) = 2
    /\ MadeChain[1] = 0
    /\ MadeChain[2] = 1
BY DEF MadeChain, Generated

LEMMA MInvInit == MInit => MInv
BY DEF MInit, MInv

\* The file writeChain leaves when it encoded k blocks, cut or not.
LEMMA WrittenFile ==
    ASSUME NEW k \in 0..Len(MadeChain), NEW cut \in BOOLEAN, Generated <= MaxNumber
    PROVE  FileOfMadeChain([j \in 1..k |-> Block(MadeChain[j])]
                             \o (IF cut /\ k < Len(MadeChain) THEN <<Garbage>> ELSE <<>>))
<1> DEFINE A == [j \in 1..k |-> Block(MadeChain[j])]
           X == IF cut /\ k < Len(MadeChain) THEN <<Garbage>> ELSE <<>>
<1>1. k \in 0..2
    BY MadeChainShape
<1>2. A \in Seq(Items) /\ Len(A) = k
    <2>1. \A j \in 1..k : MadeChain[j] \in 0..MaxNumber
        BY <1>1, MadeChainShape, BoundsAssumption DEF Generated
    <2>2. \A j \in 1..k : Block(MadeChain[j]) \in Items
        <3> SUFFICES ASSUME NEW j \in 1..k PROVE Block(MadeChain[j]) \in Items
            OBVIOUS
        <3>1. \E n \in 0..MaxNumber : Block(MadeChain[j]) = Block(n)
            BY <2>1
        <3> QED
            BY <3>1 DEF Items
    <2>3. A \in [1..k -> Items]
        BY <2>2
    <2> QED
        BY <1>1, <2>3
<1>3. X \in Seq(Items) /\ Len(X) = (IF cut /\ k < 2 THEN 1 ELSE 0)
    <2>1. Garbage \in Items
        BY DEF Items
    <2>2. CASE cut /\ k < 2
        <3>1. X = <<Garbage>>
            BY <2>2, MadeChainShape
        <3> QED
            BY <2>1, <2>2, <3>1
    <2>3. CASE ~(cut /\ k < 2)
        <3>1. X = <<>>
            BY <2>3, MadeChainShape
        <3> QED
            BY <2>3, <3>1
    <2> QED
        BY <2>2, <2>3
<1>4. /\ A \o X \in Seq(Items)
      /\ Len(A \o X) = Len(A) + Len(X)
      /\ \A i \in 1..Len(A) : (A \o X)[i] = A[i]
      /\ \A i \in 1..Len(X) : (A \o X)[Len(A) + i] = X[i]
    BY <1>2, <1>3, ConcatProperties
<1>5. Len(A \o X) <= 2
    BY <1>1, <1>2, <1>3, <1>4
<1>6. Len(A \o X) >= 1 => (A \o X)[1] \in {Block(0), Garbage}
    <2>1. CASE k >= 1
        BY <1>2, <1>4, <2>1, MadeChainShape
    <2>2. CASE k = 0
        BY <1>2, <1>3, <1>4, <2>2
    <2> QED
        BY <1>1, <2>1, <2>2
<1> QED
    BY <1>4, <1>5, <1>6, MadeChainShape DEF FileOfMadeChain

LEMMA MInvStep ==
    ASSUME OutputBounds
    PROVE  MInv /\ [MNext]_mvars => MInv'
<1> SUFFICES ASSUME MInv, [MNext]_mvars PROVE MInv'
    OBVIOUS
<1>1. CASE WriteGenesis
    BY <1>1 DEF WriteGenesis, MInv
<1>2. CASE WriteChain
    <2>1. CASE mpc' = "done"
        <3>1. PICK k \in 0..Len(MadeChain), cut \in BOOLEAN :
                 chainFile' = [j \in 1..k |-> Block(MadeChain[j])]
                                \o (IF cut /\ k < Len(MadeChain) THEN <<Garbage>> ELSE <<>>)
            BY <1>2, <2>1 DEF WriteChain
        <3>2. FileOfMadeChain(chainFile')
            BY <3>1, WrittenFile DEF OutputBounds
        <3> QED
            BY <1>2, <3>2 DEF WriteChain, MInv
    <2>2. CASE mpc' # "done"
        BY <1>2, <2>2 DEF WriteChain, MInv
    <2> QED
        BY <2>1, <2>2
<1>3. CASE mpc \in {"done", "failed"} /\ UNCHANGED mvars
    BY <1>3 DEF MInv, mvars
<1>4. CASE UNCHANGED mvars
    BY <1>4 DEF MInv, mvars
<1> QED
    BY <1>1, <1>2, <1>3, <1>4 DEF MNext

-----------------------------------------------------------------------------
(***************************************************************************)
(* The loader's verdict on a chain.rlp writeChain may leave: its first     *)
(* item is the offending one (the genesis, numbered 0 where 1 is wanted,   *)
(* or a truncated item), and with no item only the genesis is loaded.      *)
(***************************************************************************)
LEMMA MadeFileVerdict ==
    ASSUME LoaderMeetsReference, 0 \in GenesisNumbers, OutputBounds,
           NEW f, FileOfMadeChain(f)
    PROVE  LoadChain(TRUE, TRUE, f, 0) \in MadeChainVerdicts
<1>1. f \in Seq(Items) /\ Len(f) <= 2 /\ (Len(f) >= 1 => f[1] \in {Block(0), Garbage})
    BY MadeChainShape DEF FileOfMadeChain
<1>2. f \in Streams
    <2>1. Len(f) \in 0..MaxItems
        BY <1>1, MadeChainShape, BoundsAssumption DEF OutputBounds
    <2>2. f \in [1..Len(f) -> Items]
        BY <1>1
    <2> QED
        BY <2>1, <2>2 DEF Streams
<1>3. LoadChain(TRUE, TRUE, f, 0) = ReferenceLoad(f, 0)
    BY <1>2 DEF LoaderMeetsReference
<1>4. CASE Len(f) = 0
    \* an empty chain.rlp: the genesis block alone
    <2>1. Offending(f) = {}
        BY <1>4 DEF Offending
    <2>2. Numbers(f) = <<>>
        BY <1>1, <1>4 DEF Numbers
    <2>3. <<0>> \o <<>> = <<0>>
        OBVIOUS
    <2> QED
        BY <1>3, <2>1, <2>2, <2>3 DEF ReferenceLoad, MadeChainVerdicts
<1>5. CASE Len(f) >= 1
    \* the first item is offending, and it is the least one
    <2>1. 1 \in Offending(f)
        BY <1>1, <1>5 DEF Offending, Block, Garbage
    <2>5. ReferenceLoad(f, 0) =
            IF f[1].kind = "garbage" THEN DecodeError(0) ELSE NumberError(0, f[1].num)
        BY <1>1, <2>1, FirstItemOffends
    <2>6. CASE f[1] = Garbage
        <3>1. f[1].kind = "garbage"
            BY <2>6 DEF Garbage
        <3>2. LoadChain(TRUE, TRUE, f, 0) = DecodeError(0)
            BY <1>3, <2>5, <3>1
        <3> QED
            BY <3>2 DEF MadeChainVerdicts
    <2>7. CASE f[1] = Block(0)
        <3>1. f[1].kind = "block" /\ f[1].num = 0
            BY <2>7 DEF Block
        <3>2. LoadChain(TRUE, TRUE, f, 0) = NumberError(0, 0)
            BY <1>3, <2>5, <3>1
        <3> QED
            BY <3>2 DEF MadeChainVerdicts
    <2> QED
        BY <1>1, <1>5, <2>6, <2>7
<1>6. Len(f) \in Nat
    BY <1>1
<1>7. Len(f) = 0 \/ Len(f) >= 1
    BY <1>6
<1> QED
    BY <1>4, <1>5, <1>7, Zenon

\* The loader's verdict on every fixture a finished chainmaker run left
\* (chainmaker/main.go:55-88 with writeChain's dropped EncodeRLP errors, read
\* by loadChain, part_000:465-521): "block at index 0 has wrong number 0",
\* "at block index 0" on a truncated first item, or the genesis block alone.
THEOREM MadeChainVerdictThm ==
    ASSUME LoaderMeetsReference, 0 \in GenesisNumbers, OutputBounds
    PROVE  MSpec => [](mpc = "done" =>
                         LoadChain(genesisFile, TRUE, chainFile, 0) \in MadeChainVerdicts)
<1>1. MInv => (mpc = "done" =>
                 LoadChain(genesisFile, TRUE, chainFile, 0) \in MadeChainVerdicts)
    <2> SUFFICES ASSUME MInv, mpc = "done"
                 PROVE  LoadChain(genesisFile, TRUE, chainFile, 0) \in MadeChainVerdicts
        OBVIOUS
    <2>1. genesisFile = TRUE /\ FileOfMadeChain(chainFile)
        BY DEF MInv
    <2> QED
        BY <2>1, MadeFileVerdict
<1> QED
    BY MInvInit, MInvStep, <1>1, PTL DEF MSpec

\* No run of chainmaker writes a fixture that loads back as the chain it
\* generated: the round trip of spec.md 8 (RoundTrip) fails in every
\* finished run, whatever writeChain managed to write.
THEOREM RoundTripFailsThm ==
    ASSUME LoaderMeetsReference, 0 \in GenesisNumbers, OutputBounds
    PROVE  MSpec => [](mpc = "done" => ~RoundTrip)
<1>1. \A v \in MadeChainVerdicts : v # Ok(MadeChain)
    <2>1. Ok(<<0>>) # Ok(MadeChain)
        <3>1. Len(<<0>>) # Len(MadeChain)
            BY MadeChainShape
        <3> QED
            BY <3>1 DEF Ok
    <2> QED
        BY <2>1 DEF MadeChainVerdicts, Ok, DecodeError, NumberError
<1>2. (mpc = "done" => LoadChain(genesisFile, TRUE, chainFile, 0) \in MadeChainVerdicts)
        => (mpc = "done" => ~RoundTrip)
    BY <1>1 DEF RoundTrip
<1> QED
    BY MadeChainVerdictThm, <1>2, PTL

=============================================================================
