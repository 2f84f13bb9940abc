-------------------------- MODULE ClientLifecycle --------------------------
(***************************************************************************)
(* What the client process controller promises (spec.md section 4.2 and   *)
(* the "Idempotent teardown" property of section 8), independent of how    *)
(* gethClient does it:                                                     *)
(*                                                                         *)
(*   Uninitialized -> Built -> Initialized -> Running -> Closed            *)
(*                                                                         *)
(* Each stage either succeeds and advances, or fails and leaves the state *)
(* where it was; Close is allowed from every state, Closed included, and  *)
(* leaves neither a data directory nor a subprocess behind.  An artifact   *)
(* built earlier counts as Built (the --skip-compile case), so Build is    *)
(* also a step from Built.                                                 *)
(***************************************************************************)

VARIABLES
    life,     \* the stage of the controller
    outcome,  \* what the last call reported: "none", "ok" or "err"
    residue   \* a data directory or a subprocess of the controller exists

States == {"Uninitialized", "Built", "Initialized", "Running", "Closed"}

LTypeOK ==
    /\ life \in States
    /\ outcome \in {"none", "ok", "err"}
    /\ residue \in BOOLEAN

\* A controller starts Uninitialized, or Built when an artifact of an
\* earlier build is where the controller looks for it.
LInit ==
    /\ life \in {"Uninitialized", "Built"}
    /\ outcome = "none"
    /\ residue \in BOOLEAN

\* A stage run from one of the states in from succeeds: the controller is
\* in state to. It may have created the data directory or a process.
Stage(from, to) ==
    /\ life \in from
    /\ life' = to
    /\ outcome' = "ok"
    /\ residue' \in BOOLEAN

Build      == Stage({"Uninitialized", "Built"}, "Built")
Initialize == Stage({"Built"}, "Initialized")
Start      == Stage({"Initialized"}, "Running")

\* A stage that fails, or a call made out of order, reports an error and
\* leaves the stage as it was.
Reject ==
    /\ life # "Closed"
    /\ outcome' = "err"
    /\ UNCHANGED life
    /\ residue' \in BOOLEAN

\* The readiness poll, only while Running.
Poll ==
    /\ life = "Running"
    /\ outcome' \in {"ok", "err"}
    /\ UNCHANGED <<life, residue>>

Close ==
    /\ life' = "Closed"
    /\ outcome' = "ok"
    /\ residue' = FALSE

LNext == Build \/ Initialize \/ Start \/ Reject \/ Poll \/ Close

LSpec == LInit /\ [][LNext]_<<life, outcome, residue>>

=============================================================================
