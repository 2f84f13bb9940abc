---------------------------- MODULE ChainLoader ----------------------------
(***************************************************************************)
(* The chain-fixture loader of the in-process verifiers: loadGenesis,      *)
(* loadChain and blocksFromFile (src/unnamed/part_000:465-521; the first   *)
(* variant, part_000:130-186, is the same code).                           *)
(*                                                                         *)
(* chain.rlp is a stream of RLP items read until io.EOF. An item is a      *)
(* block, abstracted to the number it carries, or bytes that do not decode *)
(* as a block (a malformed or truncated item). The loader is a pure        *)
(* function of the stream and the genesis; LoaderRun makes its inputs the *)
(* variables of a specification so that TLC evaluates it on each of them.  *)
(***************************************************************************)
EXTENDS Naturals, Sequences

CONSTANTS
    MaxItems,   \* longest stream the runs enumerate
    MaxNumber,  \* largest block number an item may carry
    GenesisNumbers  \* values of the "number" field of genesis.json

ASSUME BoundsAssumption ==
    MaxItems \in Nat /\ MaxNumber \in Nat /\ GenesisNumbers \subseteq Nat

Block(n) == [kind |-> "block", num |-> n]
Garbage == [kind |-> "garbage", num |-> 0]
Items == {Block(n) : n \in 0..MaxNumber} \cup {Garbage}

Streams == UNION {[1..n -> Items] : n \in 0..MaxItems}

(***************************************************************************)
(* What loadChain returns: the chain (block numbers, genesis first) or one *)
(* of its errors, with the index and the number its message reports.      *)
(***************************************************************************)
Ok(bs)          == [status |-> "ok", index |-> 0, got |-> 0, blocks |-> bs]
Failed(status)  == [status |-> status, index |-> 0, got |-> 0, blocks |-> <<>>]
DecodeError(i)  == [status |-> "decode", index |-> i, got |-> 0, blocks |-> <<>>]
NumberError(i, n) == [status |-> "number", index |-> i, got |-> n, blocks |-> <<>>]

Numbers(s) == [j \in 1..Len(s) |-> s[j].num]

\* Mutant: the number check is off by one (b.NumberU64() != uint64(i)).
BlocksFromFileOffByOne(stream, gnum) ==
    LET n == Len(stream)
        loop[k \in 0..n] ==
            LET i == n - k IN
            IF k = 0 THEN Ok(<<gnum>> \o Numbers(stream))
            ELSE IF stream[i + 1].kind = "garbage" THEN DecodeError(i)
            ELSE IF stream[i + 1].num # i THEN NumberError(i, stream[i + 1].num)
            ELSE loop[k - 1]
    IN loop[n]

(***************************************************************************)
(* blocksFromFile: blocks[0] is the genesis block; iteration i decodes the *)
(* next item, breaks on io.EOF, fails with "at block index i" on a decode  *)
(* error and with "block at index i has wrong number" unless the block is  *)
(* numbered i+1, and appends it otherwise. loop[k] is the loop's result    *)
(* when k items are left (i = Len(stream) - k); every earlier iteration    *)
(* appended its item, so the blocks at io.EOF are the genesis and all of   *)
(* the stream.                                                             *)
(***************************************************************************)
BlocksFromFile(stream, gnum) ==
    LET n == Len(stream)
        loop[k \in 0..n] ==
            LET i == n - k IN
            IF k = 0 THEN Ok(<<gnum>> \o Numbers(stream))
            ELSE IF stream[i + 1].kind = "garbage" THEN DecodeError(i)
            ELSE IF stream[i + 1].num # i + 1 THEN NumberError(i, stream[i + 1].num)
            ELSE loop[k - 1]
    IN loop[n]

(***************************************************************************)
(* loadChain: loadGenesis (os.ReadFile and json.Unmarshal, either may      *)
(* fail), gen.ToBlock() whose number is the genesis file's "number" field, *)
(* then blocksFromFile (os.Open may fail; chain.rlp has no .gz suffix).    *)
(***************************************************************************)
LoadChain(genesisOk, fileOk, stream, gnum) ==
    IF ~genesisOk THEN Failed("genesis")
    ELSE IF ~fileOk THEN Failed("open")
    ELSE BlocksFromFile(stream, gnum)

(***************************************************************************)
(* The loader's contract (spec 4.1 and 8): a stream loads iff every item   *)
(* decodes and the j-th carries number j; otherwise the error names the    *)
(* first offending item, by its zero-based index.                          *)
(***************************************************************************)
Offending(s) == {j \in 1..Len(s) : s[j].kind = "garbage" \/ s[j].num # j}

ReferenceLoad(s, gnum) ==
    IF Offending(s) = {} THEN Ok(<<gnum>> \o Numbers(s))
    ELSE LET j == CHOOSE j \in Offending(s) : \A m \in Offending(s) : j <= m
         IN IF s[j].kind = "garbage" THEN DecodeError(j - 1)
                                     ELSE NumberError(j - 1, s[j].num)

=============================================================================
