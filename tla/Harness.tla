------------------------------ MODULE Harness ------------------------------
(***************************************************************************)
(* The flag verifier of a challenge (checkFlag in the harness variant,     *)
(* src/unnamed/part_000:212-321) driving the go-ethereum client through    *)
(* the harness package (gethClient, src/cmd/chainmaker/main.go:222-457).   *)
(*                                                                         *)
(* Three actors share the state:                                           *)
(*   - the verifier: one goroutine running checkFlag and, when it returns, *)
(*     its deferred calls in LIFO order (variables pc, defers, result);    *)
(*   - the geth subprocess started by gethClient.Start, an untrusted       *)
(*     program (it is the thing under test): it may bind the RPC port,     *)
(*     fail to bind it, or exit at any moment;                             *)
(*   - the 3 s timer of context.WithTimeout.                               *)
(* A foreign process may already hold localhost:8545 when the run starts   *)
(* (a node of the user, or a geth left behind by an earlier run).          *)
(*                                                                         *)
(* Data is abstracted to what the verdict depends on: the chain database   *)
(* in "datadir" is the number of its head block, an answer of the RPC      *)
(* endpoint is the number it reports and who reported it.                  *)
(***************************************************************************)
EXTENDS Naturals, Sequences

CONSTANTS
    ChainLen,       \* blocks after genesis in chain.rlp
    StrangerHeads   \* head numbers a foreign server on the RPC port may report

ASSUME ChainLenAssumption == ChainLen \in Nat \ {0}
ASSUME StrangerAssumption == StrangerHeads \subseteq Nat

\* The number checkFlag compares the reported head with (part_000:301).
ExpectedNumber == 1

\* dirHead of a data directory into which geth init has not yet written.
NoGenesis == 0 - 1
\* strangerHead when no foreign process holds the port.
NoStranger == 0 - 1

Heads == 0..ChainLen

VARIABLES
    pc,           \* where the verifier is in checkFlag / its deferred calls
    defers,       \* the deferred calls registered so far, oldest first
    result,       \* what checkFlag returned: "none", "pass" or "fail"
    answer,       \* the BlockNumber answer the verdict was taken from
    skipCompile,  \* the --skip-compile flag
    binary,       \* go-ethereum/build/bin/geth exists
    dirExists,    \* the directory "datadir" exists
    dirOurs,      \* this run created "datadir" (os.Mkdir succeeded)
    dirHead,      \* head block number of the chain database in "datadir"
    cmd,          \* gethClient.cmd: "nil", "unstarted" (Process nil), "started"
    proc,         \* the geth subprocess: "none","starting","serving","exited","reaped"
    killed,       \* Process.Kill has been sent to it
    gethHead,     \* the head the subprocess opened its database at
    port,         \* holder of localhost:8545: "free", "ours" or "stranger"
    strangerHead, \* head reported by the foreign server, if any
    ctx           \* the timeout context: "none", "live" or "done"

vars == <<pc, defers, result, answer, skipCompile, binary, dirExists, dirOurs,
          dirHead, cmd, proc, killed, gethHead, port, strangerHead, ctx>>

PCs == {"parse", "mkdir", "compile", "init", "start", "poll", "query",
        "unwind", "closeWait", "panicked", "exited"}
Deferred == {"rmdir", "close", "cancel"}
Answers == [from : {"none", "ours", "stranger"}, num : Heads \cup StrangerHeads]
NoAnswer == [from |-> "none", num |-> 0]

Alive == proc \in {"starting", "serving"}

\* The head reported by whoever holds the RPC port.
ServedHead == IF port = "ours" THEN gethHead ELSE strangerHead

(***************************************************************************)
(* The verifier returns from checkFlag with result r: its deferred calls   *)
(* run next.                                                               *)
(***************************************************************************)
Return(r) == /\ result' = r
             /\ pc' = "unwind"

TypeOK ==
    /\ pc \in PCs
    /\ defers \in Seq(Deferred)
    /\ result \in {"none", "pass", "fail"}
    /\ answer \in Answers
    /\ skipCompile \in BOOLEAN
    /\ binary \in BOOLEAN
    /\ dirExists \in BOOLEAN
    /\ dirOurs \in BOOLEAN
    /\ dirHead \in Heads \cup {NoGenesis}
    /\ cmd \in {"nil", "unstarted", "started"}
    /\ proc \in {"none", "starting", "serving", "exited", "reaped"}
    /\ killed \in BOOLEAN
    /\ gethHead \in Heads \cup {NoGenesis}
    /\ port \in {"free", "ours", "stranger"}
    /\ strangerHead \in StrangerHeads \cup {NoStranger}
    /\ ctx \in {"none", "live", "done"}

Init ==
    /\ pc = "parse"
    /\ defers = <<>>
    /\ result = "none"
    /\ answer = NoAnswer
    /\ skipCompile \in BOOLEAN
    /\ binary \in BOOLEAN          \* an artifact of an earlier build may exist
    /\ dirExists \in BOOLEAN       \* so may a data directory of an earlier run
    /\ dirOurs = FALSE
    /\ dirHead = NoGenesis
    /\ cmd = "nil"
    /\ proc = "none"
    /\ killed = FALSE
    /\ gethHead = NoGenesis
    /\ \/ port = "free" /\ strangerHead = NoStranger
       \/ \E h \in StrangerHeads : port = "stranger" /\ strangerHead = h
    /\ ctx = "none"

-----------------------------------------------------------------------------
(***************************************************************************)
(* gethClient methods (src/cmd/chainmaker/main.go), as relations between   *)
(* their success flag ok and the state they change.                        *)
(***************************************************************************)

\* Compile: "go run build/ci.go install ./cmd/geth" in g.path. A failed
\* build leaves whatever binary was there; Chdir's error is ignored, and a
\* build run from the wrong directory fails like any other.
Compile(ok) == binary' = (binary \/ ok)

\* Init: "geth init genesis.json", then "geth import chain.rlp". Both are
\* runCmd of gethBin(g.path), which fails when the binary is missing. The
\* client is untrusted: import may store any prefix of the chain and exit
\* with either status.
GethInit(ok) ==
    \/ /\ ~ok
       /\ UNCHANGED dirHead                          \* exec or geth init failed
    \/ /\ binary
       /\ \E k \in Heads : dirHead' = k   \* geth init, then import; ok is its status

\* Start: exec.CommandContext is stored in g.cmd before cmd.Start(), which
\* does not wait for the subprocess.
GethStart(ok) ==
    /\ cmd' = IF ok THEN "started" ELSE "unstarted"
    /\ proc' = IF ok THEN "starting" ELSE proc

-----------------------------------------------------------------------------
(***************************************************************************)
(* The verifier's steps, in checkFlag's order.                             *)
(***************************************************************************)

\* harness.ParseLogLevel on the --loglevel flag.
ParseLogLevel ==
    /\ pc = "parse"
    /\ \/ pc' = "mkdir" /\ UNCHANGED result
       \/ Return("fail")
    /\ UNCHANGED <<defers, answer, skipCompile, binary, dirExists, dirOurs,
                   dirHead, cmd, proc, killed, gethHead, port, strangerHead, ctx>>

\* makeDataDir: os.RemoveAll(path), then os.Mkdir(path); either may fail.
makeDataDir(ok) ==
    \/ /\ ok
       /\ dirExists' = TRUE
       /\ dirOurs' = TRUE
    \/ /\ ~ok
       /\ \/ UNCHANGED dirExists                     \* RemoveAll failed
          \/ dirExists' = FALSE                      \* Mkdir failed
       /\ UNCHANGED dirOurs

\* Mutant: "defer os.RemoveAll("datadir")" is forgotten.
MakeDataDirNoDefer ==
    /\ pc = "mkdir"
    /\ \E ok \in BOOLEAN :
          /\ makeDataDir(ok)
          /\ IF ok THEN /\ UNCHANGED defers
                        /\ pc' = "compile"
                        /\ UNCHANGED result
                   ELSE /\ UNCHANGED defers
                        /\ Return("fail")
    /\ UNCHANGED <<answer, skipCompile, binary, dirHead, cmd, proc, killed,
                   gethHead, port, strangerHead, ctx>>

\* checkFlag: makeDataDir("datadir"), defer os.RemoveAll("datadir"), and
\* NewClient, which cannot fail for harness.Geth.
MakeDataDir ==
    /\ pc = "mkdir"
    /\ \E ok \in BOOLEAN :
          /\ makeDataDir(ok)
          /\ IF ok THEN /\ defers' = Append(defers, "rmdir")
                        /\ pc' = "compile"
                        /\ UNCHANGED result
                   ELSE /\ UNCHANGED defers
                        /\ Return("fail")
    /\ UNCHANGED <<answer, skipCompile, binary, dirHead, cmd, proc, killed,
                   gethHead, port, strangerHead, ctx>>

\* Compile unless --skip-compile.
CompileStep ==
    /\ pc = "compile"
    /\ \/ /\ skipCompile
          /\ pc' = "init"
          /\ UNCHANGED <<binary, result>>
       \/ /\ ~skipCompile
          /\ \E ok \in BOOLEAN :
                /\ Compile(ok)
                /\ IF ok THEN pc' = "init" /\ UNCHANGED result
                         ELSE Return("fail")
    /\ UNCHANGED <<defers, answer, skipCompile, dirExists, dirOurs, dirHead,
                   cmd, proc, killed, gethHead, port, strangerHead, ctx>>

\* client.Init.
InitStep ==
    /\ pc = "init"
    /\ \E ok \in BOOLEAN :
          /\ GethInit(ok)
          /\ IF ok THEN pc' = "start" /\ UNCHANGED result
                   ELSE Return("fail")
    /\ UNCHANGED <<defers, answer, skipCompile, binary, dirExists, dirOurs,
                   cmd, proc, killed, gethHead, port, strangerHead, ctx>>

\* Mutant: "defer client.Close()" is placed before Start's error check.
StartStepEarlyDefer ==
    /\ pc = "start"
    /\ \E ok \in BOOLEAN :
          /\ GethStart(ok)
          /\ IF ok
               THEN /\ defers' = defers \o <<"close", "cancel">>
                    /\ ctx' = "live"
                    /\ pc' = "poll"
                    /\ UNCHANGED result
               ELSE /\ defers' = Append(defers, "close")
                    /\ UNCHANGED ctx
                    /\ Return("fail")
    /\ UNCHANGED <<answer, skipCompile, binary, dirExists, dirOurs, dirHead,
                   killed, gethHead, port, strangerHead>>

\* client.Start; on success defer client.Close() and arm the 3 s timeout
\* with its deferred cancel.
StartStep ==
    /\ pc = "start"
    /\ \E ok \in BOOLEAN :
          /\ GethStart(ok)
          /\ IF ok
               THEN /\ defers' = defers \o <<"close", "cancel">>
                    /\ ctx' = "live"
                    /\ pc' = "poll"
                    /\ UNCHANGED result
               ELSE /\ UNCHANGED <<defers, ctx>>
                    /\ Return("fail")
    /\ UNCHANGED <<answer, skipCompile, binary, dirExists, dirOurs, dirHead,
                   killed, gethHead, port, strangerHead>>

\* client.Running(ctx): a loop that returns false once ctx is done and
\* otherwise dials HttpAddr() and asks for the block number, true on the
\* first answer. It asks whoever holds localhost:8545. A refused attempt
\* changes nothing and is a stuttering step.
PollReady ==
    /\ pc = "poll"
    /\ ctx = "live"
    /\ port # "free"
    /\ pc' = "query"
    /\ UNCHANGED <<defers, result, answer, skipCompile, binary, dirExists,
                   dirOurs, dirHead, cmd, proc, killed, gethHead, port,
                   strangerHead, ctx>>

\* Running returned false: checkFlag returns "unable to connect to client".
PollTimeout ==
    /\ pc = "poll"
    /\ ctx = "done"
    /\ Return("fail")
    /\ UNCHANGED <<defers, answer, skipCompile, binary, dirExists, dirOurs,
                   dirHead, cmd, proc, killed, gethHead, port, strangerHead, ctx>>

\* Mutant: the comparison with the expected head is lost.
QueryHeadAnyNumber ==
    /\ pc = "query"
    /\ IF ctx = "live" /\ port # "free"
         THEN /\ answer' = [from |-> port, num |-> ServedHead]
              /\ Return("pass")
         ELSE /\ UNCHANGED answer
              /\ Return("fail")
    /\ UNCHANGED <<defers, skipCompile, binary, dirExists, dirOurs, dirHead,
                   cmd, proc, killed, gethHead, port, strangerHead, ctx>>

\* ethclient.DialContext (lazy for an http URL, it does not fail) and
\* eth.BlockNumber(ctx) under the same, possibly expired, ctx; then the
\* check num != 1.
QueryHead ==
    /\ pc = "query"
    /\ IF ctx = "live" /\ port # "free"
         THEN /\ answer' = [from |-> port, num |-> ServedHead]
              /\ Return(IF ServedHead = ExpectedNumber THEN "pass" ELSE "fail")
         ELSE /\ UNCHANGED answer
              /\ Return("fail")
    /\ UNCHANGED <<defers, skipCompile, binary, dirExists, dirOurs, dirHead,
                   cmd, proc, killed, gethHead, port, strangerHead, ctx>>

\* Mutant: Close removes the data directory before waiting for the process.
CloseKillRemoveFirst ==
    /\ IF cmd = "started"
         THEN /\ killed' = TRUE
              /\ pc' = "closeWait"
         ELSE /\ UNCHANGED killed
              /\ pc' = "panicked"
    /\ dirExists' = FALSE
    /\ dirHead' = NoGenesis

\* Mutant: Close waits for the process without killing it.
CloseKillNoSignal ==
    /\ IF cmd = "started"
         THEN /\ UNCHANGED killed
              /\ pc' = "closeWait"
         ELSE /\ UNCHANGED killed
              /\ pc' = "panicked"
    /\ UNCHANGED <<dirExists, dirHead>>

\* gethClient.Close, up to its blocking g.cmd.Wait(): g.cmd.Process.Kill()
\* dereferences g.cmd.Process and panics when there is no process.
CloseKill ==
    /\ IF cmd = "started"
         THEN /\ killed' = TRUE
              /\ pc' = "closeWait"
         ELSE /\ UNCHANGED killed
              /\ pc' = "panicked"
    /\ UNCHANGED <<dirExists, dirHead>>

\* The deferred call on top of the stack runs; when none is left, main
\* prints the verdict and exits.
RunDeferred ==
    /\ pc = "unwind"
    /\ defers # <<>>
    /\ LET top == defers[Len(defers)] IN
         /\ defers' = SubSeq(defers, 1, Len(defers) - 1)
         /\ CASE top = "cancel" -> ctx' = "done" /\ UNCHANGED <<pc, killed, dirExists, dirHead>>
              [] top = "rmdir"  -> /\ dirExists' = FALSE
                                   /\ dirHead' = NoGenesis
                                   /\ UNCHANGED <<pc, killed, ctx>>
              [] top = "close"  -> CloseKill /\ UNCHANGED ctx
    /\ UNCHANGED <<result, answer, skipCompile, binary, dirOurs, cmd, proc,
                   gethHead, port, strangerHead>>

\* Mutant: Close returns after Wait without os.RemoveAll(g.args.DataDir).
CloseWaitKeepDir ==
    /\ pc = "closeWait"
    /\ proc = "exited"
    /\ proc' = "reaped"
    /\ pc' = "unwind"
    /\ UNCHANGED <<defers, result, answer, skipCompile, binary, dirOurs, cmd,
                   killed, gethHead, port, strangerHead, ctx, dirExists, dirHead>>

\* g.cmd.Wait() returns once the subprocess has exited; Close then removes
\* g.args.DataDir.
CloseWait ==
    /\ pc = "closeWait"
    /\ proc = "exited"
    /\ proc' = "reaped"
    /\ dirExists' = FALSE
    /\ dirHead' = NoGenesis
    /\ pc' = "unwind"
    /\ UNCHANGED <<defers, result, answer, skipCompile, binary, dirOurs, cmd,
                   killed, gethHead, port, strangerHead, ctx>>

\* main: "Flag captured." or the error, and os.Exit.
Exit ==
    /\ pc = "unwind"
    /\ defers = <<>>
    /\ pc' = "exited"
    /\ UNCHANGED <<defers, result, answer, skipCompile, binary, dirExists,
                   dirOurs, dirHead, cmd, proc, killed, gethHead, port,
                   strangerHead, ctx>>

-----------------------------------------------------------------------------
(***************************************************************************)
(* The geth subprocess and the timer.                                      *)
(***************************************************************************)

\* geth opens its database in datadir and binds the HTTP RPC port.
GethServe ==
    /\ proc = "starting"
    /\ port = "free"
    /\ proc' = "serving"
    /\ port' = "ours"
    /\ gethHead' = dirHead
    /\ UNCHANGED <<pc, defers, result, answer, skipCompile, binary, dirExists,
                   dirOurs, dirHead, cmd, killed, strangerHead, ctx>>

\* geth exits: it cannot bind a port held by another process, it crashes,
\* or it dies of the SIGKILL sent by Close. It releases the port.
GethExit ==
    /\ Alive
    /\ proc' = "exited"
    /\ port' = IF port = "ours" THEN "free" ELSE port
    /\ UNCHANGED <<pc, defers, result, answer, skipCompile, binary, dirExists,
                   dirOurs, dirHead, cmd, killed, gethHead, strangerHead, ctx>>

\* The deadline of context.WithTimeout passes.
Expire ==
    /\ ctx = "live"
    /\ ctx' = "done"
    /\ UNCHANGED <<pc, defers, result, answer, skipCompile, binary, dirExists,
                   dirOurs, dirHead, cmd, proc, killed, gethHead, port,
                   strangerHead>>

\* After os.Exit nothing of this run moves any more.
Terminated ==
    /\ pc \in {"exited", "panicked"}
    /\ UNCHANGED vars

Verifier ==
    \/ ParseLogLevel \/ MakeDataDir \/ CompileStep \/ InitStep \/ StartStep
    \/ PollReady \/ PollTimeout \/ QueryHead \/ RunDeferred \/ CloseWait
    \/ Exit

Next == Verifier \/ GethServe \/ GethExit \/ Expire \/ Terminated

(***************************************************************************)
(* The verifier is one goroutine that is always scheduled; the Go runtime  *)
(* fires the timer; SIGKILL cannot be caught, so a killed geth exits. geth *)
(* itself is given no fairness: it may hang before serving.                *)
(***************************************************************************)
Spec ==
    /\ Init
    /\ [][Next]_vars
    /\ WF_vars(Verifier)
    /\ WF_vars(Expire)
    /\ WF_vars(killed /\ GethExit)

-----------------------------------------------------------------------------
(***************************************************************************)
(* Properties.                                                             *)
(***************************************************************************)

\* A "Flag captured." verdict means that the geth process this run built,
\* initialised and started reported the head, and that it had imported the
\* whole of chain.rlp (checkFlag's BlockNumber check, part_000:297-303).
VerdictSound ==
    result = "pass" => answer.from = "ours" /\ gethHead = ChainLen

\* When the verifier exits, the geth process it started has been killed
\* and reaped, and the data directory it created is gone (the deferred
\* client.Close and os.RemoveAll, part_000:248,282).
CleanExit ==
    pc = "exited" =>
        /\ proc \in {"none", "reaped"}
        /\ dirOurs => ~dirExists

\* The teardown never dereferences a missing process (gethClient.Close).
NoPanic == pc # "panicked"

\* The data directory is never removed while the geth process that uses it
\* has not been reaped: Close kills, waits, and only then removes it.
DirRemovedAfterReap ==
    [][dirExists /\ ~dirExists' => proc' \in {"none", "reaped"}]_vars

\* Every run ends: the readiness poll is bounded by the deadline and the
\* killed process is reaped.
Termination == <>(pc = "exited")

\* Spec.md 4.3: once the readiness poll succeeds, the verdict is decided by
\* the one RPC assertion, match or mismatch against the expected head; the
\* poll's timeout is the only built-in bound. checkFlag issues BlockNumber
\* under the poll's own 3 s ctx (part_000:285,297), so an answer that is
\* there is compared only if the deadline has not passed in between.
ReadyVerdictByHead ==
    [][pc = "query" /\ pc' = "unwind" /\ port # "free" =>
         result' = IF ServedHead = ExpectedNumber THEN "pass" ELSE "fail"]_vars

-----------------------------------------------------------------------------
(***************************************************************************)
(* The client as checkFlag drives it, seen as the abstract controller of   *)
(* ClientLifecycle. The stage follows the gethClient calls that succeeded: *)
(* an artifact is Built, a successful Init leaves checkFlag at Start, a    *)
(* Start stores a started Cmd, and Close is over once Wait reaped geth.    *)
(* The outcome is what the last gethClient call reported: checkFlag's      *)
(* place before Start, and g.cmd after it. Running's answer is not kept    *)
(* by checkFlag (a false leads to a return like a failed query), so the    *)
(* outcome stays that of Start while the client runs. The residue is what  *)
(* Close has to clean up: from a successful Start on, the subprocess until *)
(* it is reaped and the data directory until Close removes it.             *)
(***************************************************************************)
ClientStage ==
    IF proc = "reaped" THEN "Closed"
    ELSE IF cmd = "started" THEN "Running"
    ELSE IF cmd = "unstarted" \/ pc = "start" THEN "Initialized"
    ELSE IF binary THEN "Built"
    ELSE "Uninitialized"

ClientOutcome ==
    IF cmd = "started" THEN "ok"
    ELSE IF cmd = "unstarted" THEN "err"
    ELSE IF pc \in {"parse", "mkdir", "compile"} THEN "none"
    ELSE IF pc = "init" THEN (IF skipCompile THEN "none" ELSE "ok")
    ELSE IF pc = "start" THEN "ok"
    ELSE IF dirOurs THEN "err"
    ELSE "none"

ClientResidue ==
    cmd = "started" /\ (proc \in {"starting", "serving", "exited"} \/ dirExists)

Life == INSTANCE ClientLifecycle
            WITH life <- ClientStage, outcome <- ClientOutcome,
                 residue <- ClientResidue

\* checkFlag uses gethClient only in the order of spec.md 4.2: Compile (or
\* an earlier artifact), Init, Start, Running, and the deferred Close, each
\* call that fails leaving the stage as it was, and Close leaving neither
\* geth nor its data directory behind (main.go:222-457, part_000:258-287).
ClientRefined == Life!LSpec

=============================================================================
