-------------------------- MODULE GethClientProofs --------------------------
(***************************************************************************)
(* Proofs about GethClient:                                                *)
(*   - the invariant GethOnImportedChain, for every caller (GInv);         *)
(* and, for a caller that closes only a client whose Start succeeded (the *)
(* verification driver's discipline) and a Compile that never reports    *)
(* success for a build of another tree:                                    *)
(*   - Close never panics;                                                 *)
(*   - the client implements the lifecycle of ClientLifecycle.             *)
(* These rest on CInv, which ties the caller's last successful call to    *)
(* the state of g.cmd, the subprocess and the data directory.              *)
(***************************************************************************)
EXTENDS GethClient, TLAPS

\* The client after a successful Start, and after a Close that returned.
Started == cmd = "started" /\ db = "chain" /\ proc \in {"starting", "serving", "exited"}
Closed  == cmd = "waited" /\ db = "absent" /\ proc = "reaped"

\* What the caller's last successful call says about the client.
CInv ==
    /\ CTypeOK
    /\ ret # "panic"
    /\ called \in {"none", "new", "compile"} =>
          cmd = "nil" /\ proc = "none" /\ db \in {"absent", "empty", "genesis"}
    /\ called = "init" =>
          cmd \in {"nil", "unstarted"} /\ proc = "none" /\ db = "chain"
    /\ called = "start" => Started
    /\ called = "closing" => Started \/ Closed
    /\ called = "close" => Closed

\* The driver's discipline.
DriverDiscipline == CloseAfter \subseteq {"start", "close"} /\ StrayTree = FALSE

-----------------------------------------------------------------------------
LEMMA CInvInit == CInit => CInv
BY DEF CInit, CInv, CTypeOK, Calls, Started, Closed

\* Every step preserves CInv when the caller follows the driver's discipline.
LEMMA CInvStep ==
    ASSUME DriverDiscipline
    PROVE  CInv /\ [CNext]_cvars => CInv'
<1> SUFFICES ASSUME CInv, [CNext]_cvars PROVE CInv'
    OBVIOUS
<1> USE DEF CInv, CTypeOK, Started, Closed, DriverDiscipline, Calls
<1>1. CASE NewClient
    BY <1>1 DEF NewClient, Geth
<1>2. CASE Compile
    BY <1>2 DEF Compile, Returns
<1>3. CASE Init
    BY <1>3 DEF Init, Returns, RunCmdOutcomes
<1>4. CASE Start
    BY <1>4 DEF Start, Returns
<1>5. CASE Running
    BY <1>5 DEF Running
<1>6. CASE CloseKill
    BY <1>6 DEF CloseKill, Calls
<1>7. CASE CloseWait
    BY <1>7 DEF CloseWait, Returns
<1>8. CASE Interrupt \/ GethServe \/ GethExit \/ Done
    BY <1>8 DEF Interrupt, GethServe, GethExit, Done, cvars
<1>9. CASE UNCHANGED cvars
    BY <1>9 DEF cvars
<1>10. QED
    BY <1>1, <1>2, <1>3, <1>4, <1>5, <1>6, <1>7, <1>8, <1>9 DEF CNext

THEOREM CInvAlways ==
    ASSUME DriverDiscipline
    PROVE  CSpec => []CInv
BY CInvInit, CInvStep, PTL DEF CSpec

(***************************************************************************)
(* GethOnImportedChain needs none of the driver's discipline: whatever     *)
(* the caller closes and whatever tree Compile builds, no process exists   *)
(* before a successful Start, Start needs a successful Init, and the only  *)
(* step that empties the directory, CloseWait, waits for the process.      *)
(***************************************************************************)
GInv ==
    /\ CTypeOK
    /\ called \in {"none", "new", "compile", "init"} => proc = "none"
    /\ called = "init" => db = "chain"
    /\ proc \in {"starting", "serving", "exited"} => db = "chain"

LEMMA GInvInit == CInit => GInv
BY DEF CInit, GInv, CTypeOK, Calls

LEMMA GInvStep == GInv /\ [CNext]_cvars => GInv'
<1> SUFFICES ASSUME GInv, [CNext]_cvars PROVE GInv'
    OBVIOUS
<1> USE CloseAfterAssumption, StrayTreeAssumption DEF GInv, CTypeOK, Calls
<1>1. CASE NewClient
    BY <1>1 DEF NewClient, Geth
<1>2. CASE Compile
    BY <1>2 DEF Compile, Returns
<1>3. CASE Init
    \* Init runs before any Start, so no process watches the directory
    BY <1>3 DEF Init, Returns, RunCmdOutcomes
<1>4. CASE Start
    BY <1>4 DEF Start, Returns
<1>5. CASE Running
    BY <1>5 DEF Running
<1>6. CASE CloseKill
    BY <1>6 DEF CloseKill
<1>7. CASE CloseWait
    BY <1>7 DEF CloseWait, Returns
<1>8. CASE Interrupt
    <2>1. alive' \in BOOLEAN
        BY <1>8, Zenon DEF Interrupt
    <2> QED
        BY <1>8, <2>1 DEF Interrupt
<1>9. CASE GethServe
    BY <1>9 DEF GethServe
<1>10. CASE GethExit
    \* geth exits on the directory it was started on
    BY <1>10 DEF GethExit
<1>11. CASE Done \/ UNCHANGED cvars
    BY <1>11 DEF Done, cvars
<1>12. QED
    BY <1>1, <1>2, <1>3, <1>4, <1>5, <1>6, <1>7, <1>8, <1>9, <1>10, <1>11 DEF CNext

\* For every caller, Close after any call included, and every tree Compile
\* may build, a geth subprocess of the client only runs on a data
\* directory holding the whole imported chain (Start after a successful
\* Init, RemoveAll after cmd.Wait).
THEOREM GethOnImportedChainThm == CSpec => []GethOnImportedChain
<1>1. GInv => GethOnImportedChain
    BY DEF GInv, GethOnImportedChain
<1>2. QED
    BY <1>1, GInvInit, GInvStep, PTL DEF CSpec

\* A caller that defers Close only after a successful Start, as checkFlag
\* does, never makes Close panic; the panic needs a Close before Start or
\* after a failed one.
THEOREM IdempotentTeardownThm ==
    ASSUME DriverDiscipline
    PROVE  CSpec => []IdempotentTeardown
<1>1. CInv => IdempotentTeardown
    BY DEF CInv, IdempotentTeardown
<1>2. QED
    BY <1>1, CInvAlways, PTL

-----------------------------------------------------------------------------
(***************************************************************************)
(* Refinement: under the mapping Stage, Outcome, Residue every initial     *)
(* state of the client is an initial state of the lifecycle and every     *)
(* step is a step of the lifecycle or leaves the mapped state unchanged.   *)
(***************************************************************************)
LEMMA RefineInit == CInit => Life!LInit
BY DEF CInit, Life!LInit, Stage, Outcome, Residue

LEMMA RefineStep ==
    ASSUME DriverDiscipline
    PROVE  CInv /\ CInv' /\ [CNext]_cvars
              => [Life!LNext]_<<Stage, Outcome, Residue>>
<1> SUFFICES ASSUME CInv, CInv', [CNext]_cvars
             PROVE  [Life!LNext]_<<Stage, Outcome, Residue>>
    OBVIOUS
<1> USE DEF CInv, CTypeOK, Started, Closed, DriverDiscipline, Calls,
            Stage, Outcome, Residue
<1>1. CASE NewClient
    BY <1>1 DEF NewClient, Geth, Life!LNext, Life!Reject
<1>2. CASE Compile
    <2>1. Stage \in {"Uninitialized", "Built"} /\ Stage # "Closed"
        BY <1>2 DEF Compile
    <2>2. CASE Returns("compile", "err") /\ UNCHANGED binary /\ UNCHANGED <<db, cmd, proc>>
        <3>1. Stage' = Stage /\ Outcome' = "err"
            BY <2>2 DEF Returns
        <3>2. Residue' \in BOOLEAN
            OBVIOUS
        <3>3. QED
            BY <2>1, <3>1, <3>2 DEF Life!LNext, Life!Reject
    <2>3. CASE binary' = "fresh" /\ Returns("compile", "ok") /\ UNCHANGED <<db, cmd, proc>>
        <3>1. Stage' = "Built" /\ Outcome' = "ok"
            BY <1>2, <2>3 DEF Compile, Returns
        <3>2. Residue' \in BOOLEAN
            OBVIOUS
        <3>3. QED
            BY <2>1, <3>1, <3>2 DEF Life!LNext, Life!Build, Life!Stage
    <2>4. QED
        BY <1>2, <2>2, <2>3 DEF Compile
<1>3. CASE Init
    <2>1. Stage \in {"Uninitialized", "Built"} /\ Stage # "Closed"
        BY <1>3 DEF Init
    <2>2. Residue' \in BOOLEAN
        OBVIOUS
    <2>3. CASE ret' = "ok"
        <3>1. binary # "none" /\ db' = "chain" /\ UNCHANGED <<binary, cmd>>
            BY <1>3, <2>3 DEF Init, Returns, RunCmdOutcomes
        <3>2. Stage = "Built" /\ Stage' = "Initialized" /\ Outcome' = "ok"
            BY <2>1, <2>3, <3>1
        <3>3. QED
            BY <2>2, <3>2 DEF Life!LNext, Life!Initialize, Life!Stage
    <2>4. CASE ret' # "ok"
        <3>1. ret' = "err" /\ db' # "chain" /\ UNCHANGED <<binary, cmd>>
            BY <1>3, <2>4 DEF Init, Returns, RunCmdOutcomes
        <3>2. Stage' = Stage /\ Outcome' = "err"
            BY <2>1, <3>1
        <3>3. QED
            BY <2>1, <2>2, <3>2 DEF Life!LNext, Life!Reject
    <2>5. QED
        BY <2>3, <2>4
<1>4. CASE Start
    <2>1. Stage = "Initialized"
        BY <1>4 DEF Start
    <2>2. Residue' \in BOOLEAN
        OBVIOUS
    <2>3. CASE cmd' = "started" /\ proc' = "starting" /\ binary # "none"
                  /\ Returns("start", "ok")
        <3>1. Stage' = "Running" /\ Outcome' = "ok"
            BY <1>4, <2>3 DEF Start, Returns
        <3>2. QED
            BY <2>1, <2>2, <3>1 DEF Life!LNext, Life!Start, Life!Stage
    <2>4. CASE cmd' = "unstarted" /\ UNCHANGED proc /\ Returns("start", "err")
        <3>1. Stage' = Stage /\ Outcome' = "err"
            BY <1>4, <2>1, <2>4 DEF Start, Returns
        <3>2. QED
            BY <2>1, <2>2, <3>1 DEF Life!LNext, Life!Reject
    <2>5. QED
        BY <1>4, <2>3, <2>4 DEF Start
<1>5. CASE Running
    BY <1>5 DEF Running, Life!LNext, Life!Poll
<1>6. CASE CloseKill
    BY <1>6 DEF CloseKill
<1>7. CASE CloseWait
    <2>1. Stage' = "Closed" /\ Outcome' = "ok" /\ Residue' = FALSE
        BY <1>7 DEF CloseWait, Returns
    <2>2. QED
        BY <2>1 DEF Life!LNext, Life!Close
<1>8. CASE Interrupt \/ GethServe \/ GethExit \/ Done
    BY <1>8 DEF Interrupt, GethServe, GethExit, Done, cvars
<1>9. CASE UNCHANGED cvars
    BY <1>9 DEF cvars
<1>10. QED
    BY <1>1, <1>2, <1>3, <1>4, <1>5, <1>6, <1>7, <1>8, <1>9 DEF CNext

\* The client, driven as checkFlag drives it, implements the lifecycle of
\* spec.md 4.2 (the property LifecycleRefined).
THEOREM RefinementThm ==
    ASSUME DriverDiscipline
    PROVE  CSpec => LifecycleRefined
<1>1. CInv /\ CInv' /\ [CNext]_cvars => [Life!LNext]_<<Stage, Outcome, Residue>>
    BY RefineStep
<1>2. CSpec => []CInv
    BY CInvAlways
<1>3. QED
    BY <1>1, <1>2, RefineInit, PTL DEF CSpec, LifecycleRefined, Life!LSpec

=============================================================================
