-------------------------- MODULE InProcessProofs --------------------------
(***************************************************************************)
(* Proofs about the in-process verifier (InProcess) for every bound on    *)
(* the fixture and every genesis number.                                   *)
(*                                                                         *)
(* NodeClosedOnError rests on InvNode, which ties the place runGeth is at  *)
(* to the state of the node. PassHoldsBlockOne rests on InvChain and on    *)
(* the loader's contract: blocksFromFile agrees with the non-recursive     *)
(* reference ReferenceLoad. That contract is the property run             *)
(* loader_reference checks (LoaderMatchesReference); it is a hypothesis    *)
(* here (ChainLoaderProofs) because it needs induction over the stream.   *)
(***************************************************************************)
EXTENDS InProcess, ChainLoaderProofs

\* The places of main, checkFlag and runGeth.
IPCs == {"level", "new", "load", "backend", "insert", "start",
         "console", "query", "exited"}

\* The node exists from node.New on and is started from stack.Start on.
InvNode ==
    /\ ipc \in IPCs
    /\ ipc \in {"level", "new"} => node = "none"
    /\ ipc \in {"load", "backend", "insert", "start"} => node = "created"
    /\ ipc \in {"console", "query"} => node = "started"
    /\ ipc = "exited" => node # "created"

\* A verdict is given only at the end; from eth.New on the chain loaded,
\* and a pass remembers a block after genesis that InsertChain accepted.
InvChain ==
    /\ chain \in Chains
    /\ ipc # "exited" => result = "none"
    /\ ipc \in {"backend", "insert", "start", "console", "query"} => chain.status = "ok"
    /\ ipc \in {"start", "console", "query"} => inserted \in 0..(Len(chain.blocks) - 1)
    /\ result = "pass" => chain.status = "ok" /\ inserted \in 1..(Len(chain.blocks) - 1)

-----------------------------------------------------------------------------
LEMMA InvNodeInit == IInit => InvNode
BY DEF IInit, InvNode, IPCs

LEMMA InvNodeStep == InvNode /\ [INext]_ivars => InvNode'
<1> SUFFICES ASSUME InvNode, [INext]_ivars PROVE InvNode'
    OBVIOUS
<1> USE DEF InvNode, IPCs
<1>1. CASE ParseLevel
    BY <1>1 DEF ParseLevel, Finish
<1>2. CASE NodeNew
    BY <1>2 DEF NodeNew, Finish
<1>3. CASE LoadStep
    BY <1>3 DEF LoadStep, CloseAndFail, Finish
<1>4. CASE BackendNew
    BY <1>4 DEF BackendNew, CloseAndFail, Finish
<1>5. CASE InsertChain
    BY <1>5 DEF InsertChain
<1>6. CASE NodeStart
    BY <1>6 DEF NodeStart, CloseAndFail, Finish
<1>7. CASE Console \/ QueryBlock
    BY <1>7 DEF Console, QueryBlock, Finish
<1>8. CASE IDone \/ UNCHANGED ivars
    BY <1>8 DEF IDone, ivars
<1> QED
    BY <1>1, <1>2, <1>3, <1>4, <1>5, <1>6, <1>7, <1>8 DEF INext

\* runGeth closes the node it created on each of its error paths
\* (stack.Close at part_000:431, 442, 453), and a failure of the console
\* or of the check of block 1 leaves the started node to the process exit.
THEOREM NodeClosedOnErrorThm == ISpec => []NodeClosedOnError
<1>1. InvNode => NodeClosedOnError
    BY DEF InvNode, NodeClosedOnError
<1> QED
    BY InvNodeInit, InvNodeStep, <1>1, PTL DEF ISpec

-----------------------------------------------------------------------------
LEMMA InvChainInit == IInit => InvChain
BY DEF IInit, InvChain, Chains

LEMMA InvChainStep == InvChain /\ [INext]_ivars => InvChain'
<1> SUFFICES ASSUME InvChain, [INext]_ivars PROVE InvChain'
    OBVIOUS
<1> USE DEF InvChain
<1>1. CASE ParseLevel
    BY <1>1 DEF ParseLevel, Finish
<1>2. CASE NodeNew
    BY <1>2 DEF NodeNew, Finish
<1>3. CASE LoadStep
    \* loadChain's result is kept; runGeth goes on only with a loaded chain
    BY <1>3 DEF LoadStep, CloseAndFail, Finish
<1>4. CASE BackendNew
    BY <1>4 DEF BackendNew, CloseAndFail, Finish
<1>5. CASE InsertChain
    BY <1>5 DEF InsertChain
<1>6. CASE NodeStart
    BY <1>6 DEF NodeStart, CloseAndFail, Finish
<1>7. CASE Console
    BY <1>7 DEF Console, Finish
<1>8. CASE QueryBlock
    \* "Flag captured." only when block 1 was inserted
    <2>1. ipc = "query" /\ result = "none" /\ chain.status = "ok"
        BY <1>8 DEF QueryBlock
    <2>2. result' = "pass" => inserted \in 1..(Len(chain.blocks) - 1)
        BY <1>8 DEF QueryBlock, Finish
    <2>3. UNCHANGED <<chain, inserted>> /\ ipc' = "exited"
        BY <1>8 DEF QueryBlock, Finish
    <2> QED
        BY <2>1, <2>2, <2>3
<1>9. CASE IDone \/ UNCHANGED ivars
    BY <1>9 DEF IDone, ivars
<1> QED
    BY <1>1, <1>2, <1>3, <1>4, <1>5, <1>6, <1>7, <1>8, <1>9 DEF INext

-----------------------------------------------------------------------------
(***************************************************************************)
(* A chain loadChain accepts has, after its genesis block, the stream's   *)
(* items in order, the first of them numbered 1: the one property of the   *)
(* fixture the check of block 1 relies on.                                 *)
(***************************************************************************)
LEMMA OkChainBlockOne ==
    ASSUME LoaderMeetsReference,
           NEW c \in Chains, c.status = "ok", 2 <= Len(c.blocks)
    PROVE  c.blocks[2] = 1
<1>1. PICK gok \in BOOLEAN, fok \in BOOLEAN, s \in Streams, g \in GenesisNumbers :
             c = LoadChain(gok, fok, s, g)
    BY DEF Chains, NoChain, Failed
<1> QED
    BY <1>1, AcceptedBlocks

\* "Flag captured." only when loadChain accepted the fixture and the node
\* holds its block numbered 1 (part_000:403-413), whatever prefix
\* InsertChain stored and whatever its logged error, for every verifier
\* whose loader meets the contract checked by run loader_reference.
THEOREM PassHoldsBlockOneThm ==
    ASSUME LoaderMeetsReference
    PROVE  ISpec => []PassHoldsBlockOne
<1>1. InvChain => PassHoldsBlockOne
    <2> SUFFICES ASSUME InvChain, result = "pass"
                 PROVE  chain.status = "ok" /\ inserted >= 1 /\ chain.blocks[2] = 1
        BY DEF PassHoldsBlockOne
    <2>1. chain \in Chains /\ chain.status = "ok" /\ inserted \in 1..(Len(chain.blocks) - 1)
        BY DEF InvChain
    <2>2. 2 <= Len(chain.blocks)
        BY <2>1
    <2>3. chain.blocks[2] = 1
        BY <2>1, <2>2, OkChainBlockOne
    <2> QED
        BY <2>1, <2>3
<1> QED
    BY InvChainInit, InvChainStep, <1>1, PTL DEF ISpec

=============================================================================
