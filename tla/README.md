# TLA+ models of protocol-ctf

This directory holds formal models of the protocol-ctf verifier and its
fixtures. The source is Go, in three files:

- `src/unnamed/part_000` holds the challenge verifiers. Lines 1-211 are the
  in-process variant, with `devMode`. Lines 212-321 are the **harness
  variant**: `main`, `checkFlag` and `makeDataDir`. Lines 322-547 are a
  second in-process variant, which includes the **chain fixture loader**:
  `loadChain`, `loadGenesis` and `blocksFromFile`.
- `src/cmd/chainmaker/main.go` holds three things:
  - lines 1-119: the **fixture generator** `chainmaker`;
  - lines 120-221: the project README;
  - lines 222-457: the **harness package**, which holds `ParseLogLevel`
    and `gethClient` with `Compile`, `Init`, `Start`, `Running`,
    `HttpAddr` and `Close`.
- `src/flags/wrong-price/go-ethereum/params/version.go` holds go-ethereum's
  version strings and `RuntimeInfo`, which reads the build information Go
  embeds in a binary.

## 1. Inventory

### Components and how they interact

| Component | Source | State | Operations |
|---|---|---|---|
| Verification driver (harness variant) | part_000:212-321 | where checkFlag is; the stack of deferred calls; the verdict | ParseLogLevel, makeDataDir + defer RemoveAll, NewClient, Compile (unless --skip-compile), Init, Start + defer Close, WithTimeout + defer cancel, Running, DialContext, BlockNumber, compare with 1, return, deferred calls, os.Exit |
| Client process controller (gethClient) | main.go:222-457 | `g.cmd`: nil, or a Cmd whose Process is nil or live; the data directory; the geth binary | Compile, Init (geth init, then geth import), Start (cmd.Start), Running (poll loop), HttpAddr, Close (Kill, Wait, RemoveAll) |
| geth subprocess (the program under test, untrusted) | started at main.go:388-399 | alive or exited; whether it holds port 8545; the head of the database it opened | opens datadir and binds the RPC port, or fails to bind it; exits at any time; dies of SIGKILL |
| Timer of `context.WithTimeout(ctx, 3s)` | part_000:285 | live or done | expires |
| A foreign process on localhost:8545 | environment | the head it reports | answers RPC calls |
| Chain fixture loader | part_000:465-521 (and 130-186) | none: a pure function of genesis.json and chain.rlp | loadGenesis, gen.ToBlock, blocksFromFile |
| Fixture generator | main.go:19-119 | genesis.json, chain.rlp | GenerateChain, writeGenesis, writeChain |
| In-process verifiers | part_000:28-122, 351-457 | an in-process node | node.New, loadChain, eth.New, InsertChain, Start, Attach, BlockByNumber, hash compare |
| Console | part_000:188-211, 523-547 | terminal | interactive REPL |
| params/version.go | version.go:26-145 | none: functions of the commit, the date, the VCS settings and debug.BuildInfo | Version, VersionWithMeta, ArchiveVersion, VersionWithCommit, RuntimeInfo, findModule, vcsInfo |

The components interact as follows:

1. The fixture generator writes genesis.json and chain.rlp.
2. The harness driver has geth import them, through `gethClient.Init`.
   The in-process verifiers load them through `loadChain`.
3. The driver starts geth as a subprocess with `Start`.
4. It polls the fixed address `http://localhost:8545` with `Running`. It
   then asks `BlockNumber` on a fresh connection to the same address.
5. Its deferred calls run in LIFO order: cancel, then `client.Close`,
   then `os.RemoveAll("datadir")`.
6. `Close` kills the subprocess, waits for it, and removes the data
   directory.
7. `main` prints the verdict and calls `os.Exit`.

### What is hard here, and where

- **Several actors.** checkFlag runs alongside a subprocess it does not
  trust, the timer, and possibly another process on the same port. The
  driver's poll and query can be answered by a process other than the
  geth it started.
- **Cleanup on every path.** Each cleanup is registered with `defer`
  only after its step has succeeded. Every early return must still leave
  no process and no directory.
- **The order of teardown.** Close kills, waits, and only then removes
  the directory. `Process.Kill` panics on a nil Process.
- **Termination.** The readiness loop is a busy loop bounded only by the
  timer. `cmd.Wait` has no bound.
- **The timeout races the answer.** BlockNumber uses the same context as
  Running, so the deadline can pass between them.
- **Loader boundaries.** The loop index is zero-based and block numbers
  are one-based. The genesis number is never checked.
- **Generator and loader disagree.** The generator's output is not what
  the loader accepts.

The hazards, each at its line, are listed in `PROJECT.json` under
"hazards".

### Properties per component

- **Driver with the controller:**
  - a pass verdict comes from our geth, which has the expected head;
  - at exit, no process is alive and our directory is gone;
  - teardown never panics;
  - the directory is never removed under a live process;
  - every run ends.
  - once the poll succeeds, the head comparison decides the verdict
    (violated: see `harness_deadline`).
- **Loader:** it agrees with a reference definition of the spec's
  sequence invariant, and loaded chains are contiguous from 0.
- **Generator:** round trip. What it writes loads back as the chain it
  generated.

## 2. Modules

| Module | Models | Notes |
|---|---|---|
| `Harness` | the driver, gethClient's methods as the driver calls them, the geth subprocess, the timer, the foreign server | one action per step of checkFlag; Close is split at its blocking Wait into `CloseKill` and `CloseWait` |
| `MCHarness` | constants for TLC | `MCHarness.cfg`, `MCHarnessStranger.cfg` |
| `HarnessProofs` | TLAPS proofs about `Harness` | inductive invariants `IInv`, `InvDir` and `InvClient`, six theorems, the refinement of the driver's client steps to `ClientLifecycle` |
| `ChainLoader` | loadChain, loadGenesis, blocksFromFile as operators; the spec's reference `ReferenceLoad` | pure, no variables |
| `LoaderRun` | the loader's inputs as variables, so TLC enumerates every bounded input | properties about `Result` |
| `ChainLoaderProofs` | lemmas about the chains loadChain accepts | the loader contract `LoaderMeetsReference` as a hypothesis |
| `LoaderRunProofs` | TLAPS proofs about `LoaderRun` | which accepted chains are contiguous |
| `MCChainLoader` | constants for TLC | `MCChainLoader.cfg`, `MCChainLoaderGenesis.cfg` |
| `ChainMaker` | chainmaker's main, writeGenesis, writeChain, composed with `ChainLoader` | `MCChainMaker.cfg` |
| `ChainMakerProofs` | TLAPS proofs about `ChainMaker` | what the loader says of every fixture chainmaker writes |
| `ClientLifecycle` | the abstract lifecycle of spec.md 4.2 and the idempotent teardown of spec.md 8 | three variables: the stage, what the last call reported, and whether a directory or process remains |
| `GethClient` | gethClient as an object (main.go:222-457): NewClient, Compile, Init, Start, Running, Close, the geth subprocess, and an interrupt of the caller | refines `ClientLifecycle` through `Life == INSTANCE ClientLifecycle WITH ...` |
| `MCGethClient` | constants for TLC | `MCGethClient.cfg`, `MCGethClientAnyClose.cfg`, `MCGethClientStray.cfg` |
| `GethClientProofs` | TLAPS proofs about `GethClient` | inductive invariants `CInv` and `GInv`, the refinement, and two invariants |
| `VersionInfo` | version.go as operators over one input (a VCS settings list, or a binary's build information) | a per-key reference for vcsInfo |
| `MCVersionInfo` | constants for TLC | `MCVersionInfo.cfg`, `MCVersionInfoRuntime.cfg` |
| `InProcess` | the second in-process verifier (part_000:351-457): LvlFromString, node.New, loadChain (through `ChainLoader`), eth.New, InsertChain, Start, console, BlockByNumber(1) | `MCInProcess.cfg`; the first variant (part_000:28-122) has the same control flow without the log-level parse |
| `InProcessProofs` | TLAPS proofs about `InProcess` | inductive invariants `InvNode` and `InvChain` |

### How Harness corresponds to the code

| Variable | Code |
|---|---|
| `pc` | the position in checkFlag. `unwind` means checkFlag has returned and the defers run; `closeWait` means blocked in `g.cmd.Wait()`; `exited` means after `os.Exit`; `panicked` means the nil dereference in Close. |
| `defers` | the deferred calls registered so far, oldest first: `rmdir` (part_000:248), `close` (282), `cancel` (286) |
| `result`, `answer` | checkFlag's return value; the BlockNumber answer and who gave it |
| `binary`, `dirExists`, `dirOurs`, `dirHead` | `go-ethereum/build/bin/geth`; `datadir`; whether this run created it; the head block of the database in it |
| `cmd`, `proc`, `killed` | `g.cmd` (nil, created but not started, or started); the OS process; whether Kill was sent |
| `gethHead`, `port`, `strangerHead` | the head our geth opened; the holder of port 8545; the head the foreign server reports |
| `ctx` | the timeout context |

Operations map to actions as follows. Each action is the whole step: a
step's early return is the `Return` of the same action.

- `ParseLogLevel` is the harness's ParseLogLevel together with its error
  return.
- `MakeDataDir` is makeDataDir followed by `defer os.RemoveAll`.
- `CompileStep` runs `Compile` unless --skip-compile is set.
- `InitStep` is `GethInit`.
- `StartStep` is `GethStart`, then `defer Close`, WithTimeout and
  `defer cancel`.
- `PollReady` and `PollTimeout` are the two exits of `Running`. A refused
  dial is a stutter.
- `QueryHead` covers DialContext, BlockNumber and the comparison with 1.
- `RunDeferred` pops and runs the top deferred call.
- `CloseWait` is Wait returning, then RemoveAll.
- `Exit` is `main`'s os.Exit.

The environment has three actions:

- `GethServe`: geth opens its database and binds the port.
- `GethExit`: geth crashes, cannot bind, or dies of the kill.
- `Expire`: the timer fires.

The outcomes of the external commands are nondeterministic. A build may
fail. `geth import` may store any prefix of the chain, since the client
under test is untrusted. Start may fail to spawn the process.

### How GethClient corresponds to the code

GethClient models the client as an object that any caller can drive. Harness,
by contrast, models it only as checkFlag drives it.

- **Variables.**
  - `called` and `ret` are the caller's view: its last successful call,
    and what the last call returned.
  - `binary` is `go-ethereum/build/bin/geth`: absent, stale or fresh.
  - `db` is the data directory: absent, empty, with the genesis block, or
    with the whole chain.
  - `cmd` is `g.cmd`: nil, unstarted (Process nil), started, or waited.
  - `proc` is the geth subprocess.
  - `args.FakePow` is the only field of ClientArgs that changes what a call
    does.
- **Actions.**
  - `NewClient` covers main.go:305-330.
  - `Compile` covers 332-345. The error of `os.Chdir(g.path)` is ignored,
    so with `StrayTree` a build of the caller's directory reports success.
  - `Init` covers 347-372. It is `runCmd` of `geth init`, then of
    `geth import`, with the flags `maybePrepend` builds. chain.rlp is
    sealed by `ethash.NewFaker`, so the import succeeds only with
    `--fakepow`.
  - `Start` covers 374-401. A failed `cmd.Start` leaves `cmd` unstarted.
  - `Running` covers 416-432.
  - Close is split at its blocking `cmd.Wait` into `CloseKill` (408-410),
    which dereferences `g.cmd.Process`, and `CloseWait` (411-414).
- **Environment.** `GethServe` and `GethExit` are the subprocess.
  `Interrupt` is a signal that ends the caller between any two steps,
  Close's two halves included. The deferred calls then do not run.
- **The caller.** It follows spec.md 4.2 and may retry a failed stage. The
  constant `CloseAfter` says after which successful calls it may call Close.
  checkFlag closes only a started client (`{"start", "close"}`). Spec.md 8
  allows Close from every state.

**The refinement mapping** reads the abstract stage off the real state,
not off the caller's bookkeeping:

- `Stage` is Closed once `cmd` was waited, Running while `cmd` is started,
  Initialized once `db` holds the chain, Built once a binary exists, and
  Uninitialized otherwise.
- `Outcome` is `ret`.
- `Residue` says a directory or an unreaped process exists.

### How VersionInfo corresponds to the code

- A version string is its sequence of `-`-separated fields. A module path
  is its sequence of `/`-separated elements, so `strings.HasPrefix` becomes
  `IsPrefix`.
- `vcsInfo`'s loop is a `FoldLeft` of `VcsStep` over the settings.
- `RuntimeInfo` returns which branch it took, and the version it built.
  A nil dereference of findModule's result is the kind `panic`.
- The Go version, GOARCH and GOOS that RuntimeInfo appends are left out.

### Abstractions

- A block is its number.
- An RLP item is a block or bytes that do not decode (`Garbage`).
- An RPC answer is the number it reports and who reported it.
- Strings, log output and error wording are left out. The loader's
  errors keep their kind and index, which is what the spec constrains.

## 3. Runs

| Run | Config | Expect | What it shows |
|---|---|---|---|
| `client_lifecycle` | `MCGethClient.cfg` (Close after start or close; no stray tree) | pass | `LifecycleRefined`: the client implements `ClientLifecycle` with every retry, every geth exit and every interrupt. `GethOnImportedChain`: geth only ever runs on a directory that holds the imported chain. 192 states. |
| `client_close_any_state` | `MCGethClientAnyClose.cfg` (Close after any call) | violation of `IdempotentTeardown` | Close right after NewClient, or after a failed Start, panics on the nil `g.cmd.Process` (main.go:410). Spec.md 8 allows it from every state. |
| `client_stray_build` | `MCGethClientStray.cfg` (the caller's cwd holds a go-ethereum tree) | violation of `LifecycleRefined` | Because the Chdir error is ignored (main.go:339), Compile reports success while no binary exists under g.path. |
| `version_reference` | `MCVersionInfo.cfg` (every ordered list of distinct VCS settings) | pass | `VcsInfoMatchesReference`: vcsInfo reports, for each key, the value of its setting, and dirty exactly when vcs.modified is "true". |
| `version_runtime_info` | `MCVersionInfoRuntime.cfg` | violation of `RuntimeInfoNoPanic` | A program of the go-ethereum module run with `go run file.go` has the main package path `command-line-arguments`. findModule returns nil, and RuntimeInfo dereferences it (version.go:100-101). |
| `harness_lifecycle` | `MCHarness.cfg` (ChainLen = 1, no foreign server) | pass | `VerdictSound`, `CleanExit`, `NoPanic`, `DirRemovedAfterReap` and `Termination` hold in every interleaving of checkFlag, geth and the timer, including every early-return path and a geth that never serves. `ClientRefined`: the driver's calls on gethClient follow `ClientLifecycle`. |
| `harness_foreign_server` | `MCHarnessStranger.cfg` (a server on 8545 reporting head 1) | violation of `VerdictSound` | A process already on the port makes the run pass without our geth ever serving. |
| `harness_deadline` | `MCHarnessDeadline.cfg` (ChainLen = 1, no foreign server) | violation of `ReadyVerdictByHead` | BlockNumber runs under the 3 s ctx of the readiness poll (part_000:285,297). When the deadline passes between a successful `Running` and the query, a geth at head 1 is reported as failed. Spec.md 4.3 lets the assertion, not the poll timeout, decide once the client is ready. |
| `loader_reference` | `MCChainLoader.cfg` (streams of ≤ 3 items, numbers ≤ 3, genesis number 0) | pass | blocksFromFile agrees with the spec's definition on every such stream: it accepts exactly 1..N, and otherwise reports the first offending item's kind and index. |
| `inprocess_verdict` | `MCInProcess.cfg` (streams of ≤ 3 items, any prefix inserted) | pass | `PassHoldsBlockOne`: the in-process verifier passes only if loadChain accepted the file and the node holds the file's block numbered 1, although an InsertChain error is only logged. `NodeClosedOnError`: every error path of runGeth after node.New closes the node. |
| `loader_genesis_number` | `MCChainLoaderGenesis.cfg` (genesis number 0 or 1) | violation of `ChainContiguous` | A genesis.json with number 1 loads as a chain that does not start at 0. |
| `chainmaker_round_trip` | `MCChainMaker.cfg` | violation of `RoundTrip` | chainmaker writes the genesis block into chain.rlp. The loader rejects the file with "block at index 0 has wrong number 0", and a truncated write loads as a shorter chain. |

Each property of a passing run has a mutant in `PROJECT.json`: a plausible
bug in the mapped code that makes TLC report the property violated.

- A comparison with the expected head that is lost.
- A forgotten `defer os.RemoveAll`.
- `defer client.Close()` placed before Start's error check.
- The directory removed before the Wait.
- A Close that waits without killing.
- A hash check that is dropped.
- A `stack.Close()` forgotten on the eth.New error path.
- The number check made off by one.
- `cmd.Start`'s error left unchecked.
- Close without `cmd.Wait`.
- Close that returns after Wait without removing the directory (breaks `ClientRefined`).
- A `vcs.modified` setting that marks the build dirty whatever its value.

### Bounds, and why they suffice

- **ChainLen = 1** is the real fixture: chainmaker generates one block,
  and checkFlag compares with 1. Import may store head 0 or 1, so both a
  correct and a broken client are explored.
- **Streams of up to 3 items with numbers up to 3** contain every kind of
  first offence. That means garbage at index 0, 1 or 2, a gap, a
  duplicate, a number that is too small, and a correct prefix followed by
  a bad item. They also contain the accepted chains of length 0 to 3.
- **GethClient** has one binary, one directory and one process, as the
  code has. Both values of FakePow, both initial directories and all three
  binaries are explored, so every outcome of every call is reached: 192
  states.
- **Settings lists** hold each of vcsInfo's three keys at most once,
  with both values of vcs.modified and a key it ignores, in every order.
- **The harness model has no counters.** Its state space is finite as it
  stands: 229 states with ChainLen = 1. Every action and every branch is
  reached.

### Fairness

`Spec` assumes three fairness conditions:

- `WF_vars(Verifier)`: checkFlag is one goroutine that the Go scheduler
  keeps running.
- `WF_vars(Expire)`: the runtime fires the timer.
- `WF_vars(killed /\ GethExit)`: a process that was sent SIGKILL exits,
  because SIGKILL cannot be caught.

GethClient's runs check only safety and the refinement, which is a safety
property, so `CSpec` has no fairness.

The geth subprocess gets no other fairness. It may never serve, and it
may never exit until it is killed. This is the program under test, and
the harness must not rely on it.

## 4. Proofs

`HarnessProofs` proves six theorems for every `ChainLen \in Nat \ {0}`
and every `StrangerHeads \subseteq Nat`:

- `TypeCorrect`: `Spec => []TypeOK`.
- `NoPanicThm`: `Spec => []NoPanic`. The teardown never runs Close
  without a started process.
- `DirRemovedAfterReapThm`: `Spec => DirRemovedAfterReap`. No step
  removes the data directory under a live or unreaped geth.
- `VerdictSoundThm`: under `StrangerHeads = {}` and
  `ChainLen = ExpectedNumber`, `Spec => []VerdictSound`. The two
  hypotheses are exactly what the two violations above show to be
  needed.
- `CleanExitThm`: `Spec => []CleanExit`. When checkFlag returns, every
  deferred call has run and geth is never started or reaped. It rests on
  `IInv` and a second invariant, `InvDir`: the directory is not ours
  before makeDataDir, and while our directory exists, a deferred call
  (the `rmdir`) is still pending. With InvDefers this forces the stack to
  be empty at exit, and InvProc then leaves only `none` or `reaped`.
- `ClientRefinedThm`: `Spec => ClientRefined`. The driver's use of
  gethClient implements `ClientLifecycle`. See below.

### The Harness refinement

Harness has no lifecycle variable of its own; the mapping reads the stage
off the driver's state. `ClientStage` is `Closed` once geth is reaped,
`Running` once `cmd.Start` succeeded, `Initialized` when Init returned
(pc = `start`, or a failed Start left `cmd` unstarted), `Built` once the
binary exists, else `Uninitialized`. `ClientOutcome` is what the last
call reported, read from `pc`, `cmd` and `skipCompile`; `ClientResidue`
is whether geth or its directory is left after a Start.

- `Running` (the RPC query) is not mapped to the abstract `Running`
  step: checkFlag keeps only the head it reads, not the call's error, so
  the outcome stays Start's while the client runs and the query is a
  stutter.
- `RefineStep` has one case per action: CompileStep, InitStep and
  StartStep are Build/Initialize/Start on success and Reject on failure;
  CloseWait is Close; every other step, the deferred pops included,
  stutters.
- It needs `InvClient` besides `IInv` and `InvDir`: from compile to start
  the directory is ours (so a failure's outcome is `err`), a started
  `cmd` has a process, and a reaped geth has no directory left. The last
  conjunct is what makes Close's residue `FALSE`.
- The mapping does not see the order of Wait and RemoveAll inside Close:
  removing the directory before the Wait is a stutter of the abstract
  spec. That order is what `DirRemovedAfterReap` checks and
  `DirRemovedAfterReapThm` proves; `ClientRefined` catches a Close that
  leaves the directory behind.

### The inductive invariant

`TypeOK` alone is not inductive. `QueryHead` records the head of whoever
holds the port, and `GethServe` copies `dirHead`, which is well typed
only if geth starts after `init` and the directory is not removed while
geth runs. `IInv` therefore strengthens it with three conjuncts:

- **InvDefers.** The stack of deferred calls is a prefix of
  `<<rmdir, close, cancel>>` fixed by `pc`, following the order in which
  checkFlag registers them.
- **InvProc.** Three facts tie the process to the stack:
  - a process exists only after a successful Start;
  - while it is alive, either `close` is pending or Close is waiting for
    it;
  - `close` pending implies `cmd` is started.

  The last one is what makes `NoPanic` hold.
- **InvPort.** The port is ours only while our geth serves. A recorded
  answer carries the head of whoever gave it. A pass implies the answer
  was 1.

### How the proof is laid out

- `IInvInit` proves that Init implies IInv.
- `IInvStep` has one case per action and one step per conjunct.
- `NoPanicStep` and `DirStep` handle the two properties that IInv does
  not already contain.
- The facts about the literal stacks come from SequenceTheorems
  (`SeqEqual`, `ConcatProperties`): `StackPush` and `StackPop1`..`3`.
- Each theorem ends with `PTL DEF Spec`.

TLC checked `IInv` as an invariant with ChainLen = 2 and several stranger
sets before the proof was written.

### GethClientProofs

`GethOnImportedChainThm` (`CSpec => []GethOnImportedChain`) holds with no
hypothesis: for every caller, including one that closes in any state, and
for every tree Compile may build. It rests on `GInv`. GInv says that no
process exists before Start is called, and that after `init`, and while a
process starts, serves or has exited, the directory holds the chain.

Two theorems hold under `DriverDiscipline`. DriverDiscipline means two
things: the caller closes only after `start` or `close`, as checkFlag
does, and `StrayTree = FALSE`. Without it, the violation runs
client_close_any_state and client_stray_build fail.

- `RefinementThm`: `CSpec => LifecycleRefined`.
- `IdempotentTeardownThm`: `CSpec => []IdempotentTeardown`.

They rest on `CInv`. CInv ties the caller's last successful call to the
state of `g.cmd`, the subprocess and the directory:

- before Init there is no Cmd and no chain;
- after Init there is a chain but no process;
- after Start, `Started` holds;
- after Close, `Closed` holds;
- between Close's halves, one of the two holds.

CInv is needed because neither property speaks of `called`, yet only
`called` decides which action may come next. `CInvStep` has one case per
action. `RefineStep` shows that each step maps to `Build`, `Initialize`,
`Start`, `Reject`, `Poll` or `Close`, or to a stutter. The stages that can
fail are split into their success and failure branches.

The mapped `Stage` is an IF/ELSE chain, not a CASE. A CASE with overlapping
arms is nondeterministic in TLA+, so its value could not be proved.

### InProcessProofs

Both invariants of run inprocess_verdict are proved for every bound and
every set of genesis numbers.

- `NodeClosedOnErrorThm` rests on `InvNode`. InvNode maps each place of
  runGeth to the node's state: none, created or started. At exit, the
  node is never left created.
- `PassHoldsBlockOneThm` rests on `InvChain`. From eth.New on, the chain
  loaded. A pass implies that InsertChain stored at least one block after
  genesis. The lemma `OkChainBlockOne` adds that the second block of an
  accepted chain is numbered 1.

That lemma needs the loader contract `LoaderMeetsReference`, from
`ChainLoaderProofs`: blocksFromFile returns what `ReferenceLoad` returns.
The theorem takes the contract as a hypothesis, and run loader_reference
checks it (`LoaderMatchesReference`) on every stream up to its bound. It
cannot be proved here, for the reason given under "What stays with TLC".
So the result is an assume-guarantee composition: the verifier is sound
for every loader that meets the contract.

### Loader and chainmaker proofs

- `ChainLoaderProofs` proves that an accepted chain is
  `<<genesis>> \o Numbers(stream)`, every item of the stream is a block
  numbered by its position (`AcceptedChain`), and so block j+1 has
  number j for every j >= 1 (`AcceptedBlocks`).
- `LoaderRunProofs.ContiguousIffGenesisZeroThm` proves, under the
  contract, that an accepted chain is contiguous exactly when the genesis
  is numbered 0. The divergence found by loader_genesis_number therefore
  has no other cause. `ChainContiguousThm` follows for a genesis numbered
  0, as chainmaker writes it.
- `ChainLoaderProofs.FirstItemOffends`: when the first item of a stream
  offends, the contract's verdict is a decode or number error at index 0.
- `ChainMakerProofs.MadeChainVerdictThm`: under the contract, every file
  a finished chainmaker run leaves loads as the genesis alone (empty
  chain.rlp), or is rejected at index 0, as "wrong number 0" or as a
  decode error of a cut-short first item. `RoundTripFailsThm` follows: no
  run's fixture loads back as the chain it made, so the violation of
  `RoundTrip` is not an artefact of the small instance. Both assume
  `0 \in GenesisNumbers` (chainmaker's genesis is numbered 0, and the
  loader must be allowed to read it) and `OutputBounds`: the chain
  chainmaker makes fits within `MaxItems` and `MaxNumber`, the bounds the
  loader's contract is stated over.

### What stays with TLC

- `Termination` is liveness under fairness and is out of TLAPS's reach.
- `LoaderMatchesReference` is the loader contract. Proving it needs
  induction over the stream: the loop is a recursive function, and the
  library's induction theorems take an operator parameter that the
  provers cannot instantiate. The same holds for
  `VcsInfoMatchesReference`, whose fold (`FoldLeft`) runs over the
  settings list.

## 5. Not modelled, and the plan for later sittings

- **The in-process verifiers** are modelled by `InProcess` (the second
  variant).
  - The check against a hard-coded hash is abstracted to "block 1 of the
    shipped fixture was inserted".
  - `node.Attach` cannot fail in go-ethereum 1.11. Its `return nil`
    branch (part_000:399) is dead code, so it is not a step.
  - The first variant is not mapped separately.
- **A second Start** on the same client would overwrite `g.cmd`
  (main.go:385). No caller in this repository calls Start twice, and the
  model's caller follows the lifecycle, so this is not modelled.
- **ArchiveVersion and VersionWithCommit** are modelled, but no property
  is stated about them: their only specification is their own body.
- **Proofs still to write:**
  - the loader's error index bounds (the index a rejected stream reports
    lies in `0..Len(stream)-1`).
- **Left out on purpose:**
  - the console, which is terminal I/O;
  - the Go version and platform that RuntimeInfo appends;
  - the .gz branch of blocksFromFile, since the verifiers pass
    `chain.rlp`;
  - log levels beyond whether parsing fails;
  - the content of blocks, transactions and hashes.
