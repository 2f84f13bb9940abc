------------------------- MODULE ChainLoaderProofs -------------------------
(***************************************************************************)
(* What a chain loadChain accepts looks like, for every bound on the      *)
(* stream and every genesis number, given the loader's contract.          *)
(*                                                                         *)
(* The contract, LoaderMeetsReference, says that blocksFromFile returns    *)
(* what the non-recursive reference ReferenceLoad does. It is what run     *)
(* loader_reference checks on every bounded stream (LoaderMatchesReference)*)
(* and it stays a hypothesis here: blocksFromFile's loop is a recursive    *)
(* function, and unfolding it needs the recursion theorem of              *)
(* NaturalsInduction, whose operator parameter the provers cannot          *)
(* instantiate.                                                            *)
(***************************************************************************)
EXTENDS ChainLoader, TLAPS, SequenceTheorems

\* blocksFromFile meets the loader's contract on every input it is given.
LoaderMeetsReference ==
    \A gok, fok \in BOOLEAN, s \in Streams, g \in GenesisNumbers :
        gok /\ fok => LoadChain(gok, fok, s, g) = ReferenceLoad(s, g)

\* Streams are sequences of items.
LEMMA StreamsAreSeqs == Streams \subseteq Seq(Items)
<1> SUFFICES ASSUME NEW s \in Streams PROVE s \in Seq(Items)
    OBVIOUS
<1>1. PICK n \in 0..MaxItems : s \in [1..n -> Items]
    BY DEF Streams
<1>2. n \in Nat
    BY <1>1, BoundsAssumption
<1> QED
    BY <1>1, <1>2

\* A chain loadChain accepts is the genesis block followed by the numbers
\* of the stream's items, the j-th of them a block numbered j.
LEMMA AcceptedChain ==
    ASSUME LoaderMeetsReference,
           NEW gok \in BOOLEAN, NEW fok \in BOOLEAN, NEW s \in Streams,
           NEW g \in GenesisNumbers,
           LoadChain(gok, fok, s, g).status = "ok"
    PROVE  /\ LoadChain(gok, fok, s, g).blocks = <<g>> \o Numbers(s)
           /\ \A j \in 1..Len(s) : s[j].kind = "block" /\ s[j].num = j
<1>1. gok /\ fok
    BY DEF LoadChain, Failed
<1>2. LoadChain(gok, fok, s, g) = ReferenceLoad(s, g)
    BY <1>1 DEF LoaderMeetsReference
<1>3. Offending(s) = {}
    BY <1>2 DEF ReferenceLoad, DecodeError, NumberError
<1>4. LoadChain(gok, fok, s, g).blocks = <<g>> \o Numbers(s)
    BY <1>2, <1>3 DEF ReferenceLoad, Ok
<1>5. s \in Seq(Items)
    BY StreamsAreSeqs
<1>6. \A j \in 1..Len(s) : s[j].kind = "block" /\ s[j].num = j
    <2> SUFFICES ASSUME NEW j \in 1..Len(s) PROVE s[j].kind = "block" /\ s[j].num = j
        OBVIOUS
    <2>1. s[j].kind # "garbage" /\ s[j].num = j
        BY <1>3, <1>5 DEF Offending
    <2>2. s[j] \in Items
        BY <1>5
    <2> QED
        BY <2>1, <2>2 DEF Items, Block, Garbage
<1> QED
    BY <1>4, <1>6

\* The blocks of an accepted chain, one position after another.
LEMMA AcceptedBlocks ==
    ASSUME LoaderMeetsReference,
           NEW gok \in BOOLEAN, NEW fok \in BOOLEAN, NEW s \in Streams,
           NEW g \in GenesisNumbers,
           LoadChain(gok, fok, s, g).status = "ok"
    PROVE  LET bs == LoadChain(gok, fok, s, g).blocks IN
           /\ Len(bs) = Len(s) + 1
           /\ bs[1] = g
           /\ \A j \in 2..Len(bs) : bs[j] = j - 1
<1> DEFINE bs == LoadChain(gok, fok, s, g).blocks
<1>1. /\ bs = <<g>> \o Numbers(s)
      /\ \A j \in 1..Len(s) : s[j].kind = "block" /\ s[j].num = j
    BY AcceptedChain
<1>2. s \in Seq(Items)
    BY StreamsAreSeqs
<1>3. Numbers(s) \in Seq(Nat) /\ Len(Numbers(s)) = Len(s)
    BY <1>1, <1>2 DEF Numbers
<1>4. /\ Len(bs) = Len(s) + 1
      /\ bs[1] = g
      /\ \A j \in 2..Len(bs) : bs[j] = Numbers(s)[j - 1]
    BY <1>1, <1>3, BoundsAssumption
<1>5. \A j \in 2..Len(bs) : Numbers(s)[j - 1] = j - 1
    BY <1>1, <1>2, <1>4 DEF Numbers
<1> QED
    BY <1>4, <1>5

\* When the first item of a stream offends, the loader's contract names it:
\* a decode error or a wrong number at index 0.
LEMMA FirstItemOffends ==
    ASSUME NEW s \in Seq(Items), NEW g, 1 \in Offending(s)
    PROVE  ReferenceLoad(s, g) =
             IF s[1].kind = "garbage" THEN DecodeError(0) ELSE NumberError(0, s[1].num)
<1> DEFINE Least(j) == \A m \in Offending(s) : j <= m
           first == CHOOSE j \in Offending(s) : Least(j)
<1>1. Offending(s) \subseteq 1..Len(s)
    BY DEF Offending
<1>2. Least(1)
    BY <1>1
<1>3. first \in Offending(s) /\ Least(first)
    BY <1>2, Zenon
<1>4. ReferenceLoad(s, g) =
        IF s[first].kind = "garbage" THEN DecodeError(first - 1)
                                     ELSE NumberError(first - 1, s[first].num)
    BY DEF ReferenceLoad
<1> HIDE DEF first
<1>5. first = 1
    BY <1>1, <1>3
<1> QED
    BY <1>4, <1>5

=============================================================================
