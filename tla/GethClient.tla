----------------------------- MODULE GethClient -----------------------------
(***************************************************************************)
(* The harness package's gethClient (src/cmd/chainmaker/main.go:222-457)   *)
(* as an object: NewClient, then Compile, Init, Start, Running and Close   *)
(* called by a caller that follows the lifecycle of spec.md section 4.2    *)
(* and may retry a stage that failed.  CloseAfter says after which calls   *)
(* the caller may call Close: the verification driver closes only a client *)
(* whose Start succeeded (part_000:282); spec.md section 8 allows Close    *)
(* from every state.                                                       *)
(*                                                                         *)
(* The file system is abstracted to what the calls touch: whether          *)
(* go-ethereum/build/bin/geth exists and whether it was built from         *)
(* g.path, and what the data directory holds.  The geth subprocess is an   *)
(* actor of its own that may exit at any time.                             *)
(***************************************************************************)
EXTENDS Naturals, Sequences

CONSTANTS
    CloseAfter,  \* the last successful calls after which the caller calls Close
    StrayTree    \* the caller's working directory holds a buildable go-ethereum

Calls == {"none", "new", "compile", "init", "start", "closing", "close"}

ASSUME CloseAfterAssumption == CloseAfter \subseteq Calls
ASSUME StrayTreeAssumption == StrayTree \in BOOLEAN

\* ClientType: Geth is the first value of an iota (main.go:239-243).
Geth == 0

\* maybePrepend: the flags in maybe go before options when shouldAdd.
MaybePrepend(shouldAdd, options, maybe) ==
    IF shouldAdd THEN maybe \o options ELSE options

\* The argument lists of geth init and geth import built by Init.
InitArgs(fakePow, sub, file) ==
    MaybePrepend(fakePow, <<"--datadir", "--verbosity", sub, file>>, <<"--fakepow">>)

\* chain.rlp is sealed by ethash.NewFaker (main.go:60): geth import accepts
\* it only when run with --fakepow.
Accepts(argv) == \E i \in DOMAIN argv : argv[i] = "--fakepow"

VARIABLES
    alive,    \* the caller's process has not been interrupted
    args,     \* the ClientArgs given to NewClient, as far as the calls use them
    called,   \* the caller: its last call that succeeded
    ret,      \* what the last call returned: "none", "ok", "err" or "panic"
    binary,   \* go-ethereum/build/bin/geth: "none", "stale" or "fresh"
    db,       \* the data directory: "absent", "empty", "genesis" or "chain"
    cmd,      \* g.cmd: "nil", "unstarted" (Process nil), "started", "waited"
    proc      \* geth: "none", "starting", "serving", "exited", "reaped"

cvars == <<alive, args, called, ret, binary, db, cmd, proc>>

CTypeOK ==
    /\ alive \in BOOLEAN
    /\ args \in [FakePow : BOOLEAN]
    /\ called \in Calls
    /\ ret \in {"none", "ok", "err", "panic"}
    /\ binary \in {"none", "stale", "fresh"}
    /\ db \in {"absent", "empty", "genesis", "chain"}
    /\ cmd \in {"nil", "unstarted", "started", "waited"}
    /\ proc \in {"none", "starting", "serving", "exited", "reaped"}

\* The verifiers make an empty "datadir" before NewClient (part_000:244-247)
\* and pass FakePow true; another caller may pass false or a directory
\* that does not exist yet. An earlier build may have left a binary, of
\* the current sources or of older ones.
CInit ==
    /\ alive = TRUE
    /\ args \in [FakePow : BOOLEAN]
    /\ called = "none"
    /\ ret = "none"
    /\ binary \in {"none", "stale", "fresh"}
    /\ db \in {"absent", "empty"}
    /\ cmd = "nil"
    /\ proc = "none"

\* A call of the caller returns r; on success it is the caller's last call.
Returns(c, r) ==
    /\ ret' = r
    /\ called' = IF r = "ok" THEN c ELSE called

\* runCmd of gethBin(g.path): exec fails when there is no binary, otherwise
\* the subprocess runs to completion and succeeds or not.
RunCmdOutcomes == IF binary = "none" THEN {"err"} ELSE {"ok", "err"}

\* NewClient(t, "go-ethereum", args): newGethClient for Geth, an error for
\* any other client type, on which the caller gives up.
NewClient ==
    /\ called = "none" /\ ret = "none"
    /\ \E t \in {Geth, Geth + 1} :
          IF t = Geth THEN called' = "new" /\ UNCHANGED ret
                      ELSE ret' = "err" /\ UNCHANGED called
    /\ UNCHANGED <<alive, args, binary, db, cmd, proc>>

\* Compile: os.Getwd (may fail: return), defer os.Chdir(dir),
\* os.Chdir(g.path) whose error is ignored, then runCmd("go run build/ci.go
\* install ./cmd/geth") in whatever directory that left. When the Chdir
\* failed the build runs in the caller's directory: it fails, or, when that
\* holds a go-ethereum tree, succeeds without touching g.path's binary.
Compile ==
    /\ called \in {"new", "compile"}
    /\ \/ Returns("compile", "err") /\ UNCHANGED binary
       \/ binary' = "fresh" /\ Returns("compile", "ok")
       \/ StrayTree /\ Returns("compile", "ok") /\ UNCHANGED binary
    /\ UNCHANGED <<alive, args, db, cmd, proc>>

\* Init: geth init genesis.json, then geth import chain.rlp, each through
\* runCmd with the argument list maybePrepend built; the first error is
\* returned. geth init creates a missing data directory before it can fail.
Init ==
    /\ called \in {"new", "compile"}
    /\ \E i \in RunCmdOutcomes, m \in RunCmdOutcomes :
          LET initOk   == i = "ok"
              importOk == initOk /\ m = "ok" /\ Accepts(InitArgs(args.FakePow, "import", "chain.rlp"))
          IN  /\ db' = IF importOk THEN "chain"
                       ELSE IF initOk /\ db # "chain" THEN "genesis"
                       ELSE IF db = "absent" /\ binary # "none" THEN "empty"
                       ELSE db
              /\ Returns("init", IF importOk THEN "ok" ELSE "err")
    /\ UNCHANGED <<alive, args, binary, cmd, proc>>

\* Mutant: the error of g.cmd.Start() is not checked.
StartNoCheck ==
    /\ called = "init"
    /\ \/ cmd' = "started" /\ proc' = "starting"
       \/ cmd' = "unstarted" /\ UNCHANGED proc
    /\ Returns("start", "ok")
    /\ UNCHANGED <<alive, args, binary, db>>

\* Start: g.cmd = exec.CommandContext(...) replaces g.cmd, then
\* g.cmd.Start() spawns geth or fails and leaves cmd.Process nil.
Start ==
    /\ called = "init"
    /\ \/ cmd' = "started" /\ proc' = "starting" /\ binary # "none"
          /\ Returns("start", "ok")
       \/ cmd' = "unstarted" /\ UNCHANGED proc /\ Returns("start", "err")
    /\ UNCHANGED <<alive, args, binary, db>>

\* Running: dial HttpAddr and ask for the block number until one answers or
\* ctx is done; no state of the client changes.
Running ==
    /\ called = "start"
    /\ \/ proc = "serving" /\ ret' = "ok"
       \/ ret' = "err"
    /\ UNCHANGED <<alive, args, called, binary, db, cmd, proc>>

\* Close: g.cmd.Process.Kill(), whose error is ignored. g.cmd nil, or a
\* Process left nil by a failed Start, is a nil dereference: the caller
\* panics.
CloseKill ==
    /\ called \in CloseAfter
    /\ IF cmd \in {"nil", "unstarted"}
         THEN ret' = "panic" /\ UNCHANGED called
         ELSE called' = "closing" /\ UNCHANGED ret
    /\ UNCHANGED <<alive, args, binary, db, cmd, proc>>

\* Mutant: g.cmd.Wait() is left out; os.RemoveAll follows the Kill.
CloseWaitNoBlock ==
    /\ called = "closing"
    /\ db' = "absent"
    /\ Returns("close", "ok")
    /\ UNCHANGED <<alive, args, binary, cmd, proc>>

\* Close, continued: g.cmd.Wait() blocks until the killed subprocess has
\* exited and reaps it (a second Wait returns an error at once), then
\* os.RemoveAll(DataDir); Close returns nil.
CloseWait ==
    /\ called = "closing"
    /\ proc \notin {"starting", "serving"}
    /\ proc' = IF proc = "none" THEN "none" ELSE "reaped"
    /\ cmd' = "waited"
    /\ db' = "absent"
    /\ Returns("close", "ok")
    /\ UNCHANGED <<alive, args, binary>>

\* The geth subprocess opens its database and serves JSON-RPC on
\* localhost:8545.
GethServe ==
    /\ proc = "starting"
    /\ proc' = "serving"
    /\ UNCHANGED <<alive, args, called, ret, binary, db, cmd>>

\* The geth subprocess exits: on its own (it is the program under test) or
\* killed by Close.
GethExit ==
    /\ proc \in {"starting", "serving"}
    /\ proc' = "exited"
    /\ UNCHANGED <<alive, args, called, ret, binary, db, cmd>>

\* SIGINT or SIGKILL ends the caller's process between two calls, or in
\* Close between Kill and Wait: deferred calls do not run, and the geth
\* subprocess, which is not in the caller's process group's teardown, lives
\* on.
Interrupt ==
    /\ alive
    /\ alive' = FALSE
    /\ UNCHANGED <<args, called, ret, binary, db, cmd, proc>>

\* The caller has stopped: it was interrupted, it panicked, or it got no
\* client.
Done ==
    /\ ~alive \/ ret = "panic" \/ (called = "none" /\ ret = "err")
    /\ UNCHANGED cvars

CNext ==
    \/ /\ alive /\ ret # "panic"
       /\ \/ NewClient \/ Compile \/ Init \/ Start \/ Running
          \/ CloseKill \/ CloseWait
    \/ Interrupt \/ GethServe \/ GethExit
    \/ Done

CSpec == CInit /\ [][CNext]_cvars

-----------------------------------------------------------------------------
(***************************************************************************)
(* The refinement mapping: the stage of the lifecycle is read off the      *)
(* client's real state, not off the caller's bookkeeping.                  *)
(***************************************************************************)
Stage ==
    IF cmd = "waited" THEN "Closed"
    ELSE IF cmd = "started" THEN "Running"
    ELSE IF db = "chain" THEN "Initialized"
    ELSE IF binary # "none" THEN "Built"
    ELSE "Uninitialized"

Outcome == ret

Residue == db # "absent" \/ proc \in {"starting", "serving", "exited"}

Life == INSTANCE ClientLifecycle
            WITH life <- Stage, outcome <- Outcome, residue <- Residue

\* The client implements the lifecycle of spec.md 4.2: every call moves it
\* along Uninitialized -> Built -> Initialized -> Running -> Closed, a call
\* that reports success has taken its stage, and Close leaves no data
\* directory and no subprocess.
LifecycleRefined == Life!LSpec

\* A geth subprocess of the client only runs on a data directory into
\* which geth import stored the whole chain: Start is called only after
\* Init succeeded, and Close removes the directory only after cmd.Wait
\* saw the subprocess exit, whatever the subprocess does meanwhile.
GethOnImportedChain ==
    proc \in {"starting", "serving"} => db = "chain"

\* Close may be called from every state, and more than once, without a
\* crash (spec.md section 8, "Idempotent teardown"); gethClient.Close
\* dereferences g.cmd.Process.
IdempotentTeardown == ret # "panic"

=============================================================================
