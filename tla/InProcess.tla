----------------------------- MODULE InProcess -----------------------------
(***************************************************************************)
(* The in-process verifier (src/unnamed/part_000:351-457): main parses the *)
(* log level, checkFlag runs runGeth, which builds a node, loads the       *)
(* fixture with loadChain (module ChainLoader), registers the eth backend, *)
(* inserts blocks[1:] and starts the node; then an optional console, an    *)
(* in-process RPC client and the check of block 1.                         *)
(*                                                                         *)
(* The node's blockchain is the go-ethereum of the challenge, the program  *)
(* under test: InsertChain may stop at any block, and its error is only    *)
(* logged. A block is its number; the hash comparison of block 1 with the  *)
(* constant succeeds iff the node holds block 1 of the shipped fixture.    *)
(* node.Attach of go-ethereum 1.11 returns rpc.DialInProc(...), nil and    *)
(* cannot fail, so its error branch (part_000:398-400) is not a step.      *)
(***************************************************************************)
EXTENDS ChainLoader

VARIABLES
    ipc,          \* where main / checkFlag / runGeth is
    consoleMode,  \* the --console flag
    chain,        \* what loadChain returned
    node,         \* the node.Node: "none", "created", "started", "closed"
    inserted,     \* blocks after genesis the blockchain accepted
    result        \* "none", "pass" or "fail"

ivars == <<ipc, consoleMode, chain, node, inserted, result>>

NoChain == Failed("none")

Chains == {LoadChain(gok, fok, s, g) :
              gok \in BOOLEAN, fok \in BOOLEAN, s \in Streams, g \in GenesisNumbers}
    \cup {NoChain}

ITypeOK ==
    /\ ipc \in {"level", "new", "load", "backend", "insert", "start",
                "console", "query", "exited"}
    /\ consoleMode \in BOOLEAN
    /\ chain \in Chains
    /\ node \in {"none", "created", "started", "closed"}
    /\ inserted \in 0..MaxItems
    /\ result \in {"none", "pass", "fail"}

IInit ==
    /\ ipc = "level"
    /\ consoleMode \in BOOLEAN
    /\ chain = NoChain
    /\ node = "none"
    /\ inserted = 0
    /\ result = "none"

\* checkFlag (or runGeth through it) returns r; main prints and exits.
Finish(r) == result' = r /\ ipc' = "exited"

\* runGeth's error paths after node.New: stack.Close(), then return err.
CloseAndFail == node' = "closed" /\ Finish("fail")

\* log.LvlFromString(*logLevelStr); on error main exits.
ParseLevel ==
    /\ ipc = "level"
    /\ \/ ipc' = "new" /\ UNCHANGED result
       \/ Finish("fail")
    /\ UNCHANGED <<consoleMode, chain, node, inserted>>

\* node.New(&node.Config{...}).
NodeNew ==
    /\ ipc = "new"
    /\ \/ node' = "created" /\ ipc' = "load" /\ UNCHANGED result
       \/ UNCHANGED node /\ Finish("fail")
    /\ UNCHANGED <<consoleMode, chain, inserted>>

\* loadChain("chain.rlp", "genesis.json") on whatever files are on disk.
LoadStep ==
    /\ ipc = "load"
    /\ \E c \in Chains \ {NoChain} :
          /\ chain' = c
          /\ IF c.status = "ok" THEN ipc' = "backend" /\ UNCHANGED <<node, result>>
                                ELSE CloseAndFail
    /\ UNCHANGED <<consoleMode, inserted>>

\* Mutant: stack.Close() is forgotten when eth.New fails.
BackendNewNoClose ==
    /\ ipc = "backend"
    /\ \/ ipc' = "insert" /\ UNCHANGED <<node, result>>
       \/ UNCHANGED node /\ Finish("fail")
    /\ UNCHANGED <<consoleMode, chain, inserted>>

\* eth.New(stack, ...) and RegisterAPIs.
BackendNew ==
    /\ ipc = "backend"
    /\ \/ ipc' = "insert" /\ UNCHANGED <<node, result>>
       \/ CloseAndFail
    /\ UNCHANGED <<consoleMode, chain, inserted>>

\* InsertChain(chain.blocks[1:]) accepts a prefix; its error is logged
\* and runGeth goes on.
InsertChain ==
    /\ ipc = "insert"
    /\ \E k \in 0..(Len(chain.blocks) - 1) : inserted' = k
    /\ ipc' = "start"
    /\ UNCHANGED <<consoleMode, chain, node, result>>

\* stack.Start(); then checkFlag opens the console if requested.
NodeStart ==
    /\ ipc = "start"
    /\ \/ /\ node' = "started"
          /\ ipc' = IF consoleMode THEN "console" ELSE "query"
          /\ UNCHANGED result
       \/ CloseAndFail
    /\ UNCHANGED <<consoleMode, chain, inserted>>

\* startConsole: Attach, console.New (may fail), the interactive session.
Console ==
    /\ ipc = "console"
    /\ \/ ipc' = "query" /\ UNCHANGED result
       \/ Finish("fail")
    /\ UNCHANGED <<consoleMode, chain, node, inserted>>

\* Mutant: the hash of block 1 is not compared.
QueryBlockNoCheck ==
    /\ ipc = "query"
    /\ Finish("pass")
    /\ UNCHANGED <<consoleMode, chain, node, inserted>>

\* node.Attach, BlockByNumber(ctx, 1) (an error if the node has no block
\* 1), and the comparison of its hash with the expected one.
QueryBlock ==
    /\ ipc = "query"
    /\ Finish(IF inserted >= 1 THEN "pass" ELSE "fail")
    /\ UNCHANGED <<consoleMode, chain, node, inserted>>

IDone ==
    /\ ipc = "exited"
    /\ UNCHANGED ivars

INext ==
    \/ ParseLevel \/ NodeNew \/ LoadStep \/ BackendNew \/ InsertChain
    \/ NodeStart \/ Console \/ QueryBlock \/ IDone

ISpec == IInit /\ [][INext]_ivars

-----------------------------------------------------------------------------
\* "Flag captured." only when loadChain accepted the fixture and the node
\* holds its block numbered 1: a rejected or partly inserted chain, whose
\* InsertChain error checkFlag only logs, never passes.
PassHoldsBlockOne ==
    result = "pass" =>
        /\ chain.status = "ok"
        /\ inserted >= 1
        /\ chain.blocks[2] = 1

\* runGeth never returns an error with a node it created still open: each
\* error path after node.New calls stack.Close (part_000:431, 442, 453).
NodeClosedOnError ==
    ipc = "exited" => node # "created"

=============================================================================
