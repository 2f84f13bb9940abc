--------------------------- MODULE HarnessProofs ---------------------------
(***************************************************************************)
(* Proofs about Harness for every ChainLen and StrangerHeads.              *)
(*                                                                         *)
(* TypeOK is not inductive: QueryHead records the head of whoever holds    *)
(* the port, and GethServe copies the head of the data directory, so the   *)
(* type of answer depends on the data directory having been initialised    *)
(* before geth starts and on its not being removed while geth runs. IInv   *)
(* adds what the verifier's control flow guarantees: the deferred calls    *)
(* are always a prefix of <<rmdir, close, cancel>>, a started subprocess   *)
(* exists exactly while "close" is pending or being waited for, and an     *)
(* answer is remembered together with the head it reported.                *)
(***************************************************************************)
EXTENDS Harness, TLAPS, SequenceTheorems

\* The stacks of deferred calls checkFlag can have registered.
Stacks == {<<>>, <<"rmdir">>, <<"rmdir", "close">>, <<"rmdir", "close", "cancel">>}

\* The stacks on which client.Close is still to run.
Pending == {<<"rmdir", "close">>, <<"rmdir", "close", "cancel">>}

Before == {"parse", "mkdir", "compile", "init", "start"}

\* The deferred calls follow checkFlag's registration order.
InvDefers ==
    /\ defers \in Stacks
    /\ pc \in Before \cup {"poll", "query"} =>
           defers \in {<<>>, <<"rmdir">>, <<"rmdir", "close", "cancel">>}
    /\ pc \in {"poll", "query"} => defers = <<"rmdir", "close", "cancel">>
    /\ pc \in {"compile", "init", "start"} => defers = <<"rmdir">>
    /\ pc \in {"parse", "mkdir"} => defers = <<>>
    /\ pc = "closeWait" => defers = <<"rmdir">>
    /\ pc = "exited" => defers = <<>>

\* A subprocess exists once Start succeeded, and is not yet reaped exactly
\* while Close is still to run or waiting.
InvProc ==
    /\ pc \in Before => proc = "none" /\ cmd = "nil"
    /\ defers \in Pending => cmd = "started" /\ proc # "none" /\ proc # "reaped"
    /\ proc \in {"starting", "serving", "exited"} =>
           defers \in Pending \/ pc = "closeWait"
    /\ proc # "none" => cmd = "started"
    /\ pc = "start" => dirHead \in Heads
    /\ proc \in {"starting", "serving", "exited"} => dirHead \in Heads
    /\ pc \in {"poll", "query"} => ctx # "none"

\* Who holds the RPC port, and what the answer remembers.
InvPort ==
    /\ port = "ours" => proc = "serving" /\ gethHead \in Heads
    /\ port = "stranger" => strangerHead \in StrangerHeads
    /\ answer.from = "ours" => answer.num = gethHead /\ proc \notin {"none", "starting"}
    /\ answer.from = "stranger" => answer.num \in StrangerHeads
    /\ result = "pass" => answer.from # "none" /\ answer.num = ExpectedNumber

IInv == TypeOK /\ InvDefers /\ InvProc /\ InvPort

USE ChainLenAssumption, StrangerAssumption

-----------------------------------------------------------------------------
LEMMA IInvInit == Init => IInv
<1> SUFFICES ASSUME Init PROVE IInv
    OBVIOUS
<1> USE DEF Init, Heads, NoGenesis, NoStranger
<1>1. TypeOK
    <2>1. defers \in Seq(Deferred)
        OBVIOUS
    <2>2. answer \in Answers
        BY DEF Answers, NoAnswer
    <2>3. strangerHead \in StrangerHeads \cup {NoStranger}
        OBVIOUS
    <2> QED
        BY <2>1, <2>2, <2>3 DEF TypeOK, PCs
<1>2. InvDefers
    BY DEF InvDefers, Stacks, Before
<1>3. InvProc
    BY DEF InvProc, Before, Pending
<1>4. InvPort
    BY DEF InvPort, NoAnswer
<1> QED
    BY <1>1, <1>2, <1>3, <1>4 DEF IInv

\* The facts about the four stacks that the steps of the verifier use.
LEMMA StackType == Stacks \subseteq Seq(Deferred)
BY DEF Stacks, Deferred

\* Registering os.RemoveAll, then client.Close and cancel.
LEMMA StackPush ==
    /\ Append(<<>>, "rmdir") = <<"rmdir">>
    /\ <<"rmdir">> \o <<"close", "cancel">> = <<"rmdir", "close", "cancel">>
<1>1. Append(<<>>, "rmdir") = <<"rmdir">>
    BY SMT
<1>2. /\ <<"rmdir">> \in Seq(Deferred)
      /\ <<"close", "cancel">> \in Seq(Deferred)
      /\ <<"rmdir", "close", "cancel">> \in Seq(Deferred)
    BY DEF Deferred
<1>3. /\ <<"rmdir">> \o <<"close", "cancel">> \in Seq(Deferred)
      /\ Len(<<"rmdir">> \o <<"close", "cancel">>) = 3
      /\ \A i \in 1..3 : (<<"rmdir">> \o <<"close", "cancel">>)[i]
                          = <<"rmdir", "close", "cancel">>[i]
    BY <1>2, ConcatProperties
<1> QED
    BY <1>1, <1>2, <1>3, SeqEqual

\* Popping the top of each non-empty stack.
LEMMA StackPop1 ==
    /\ Len(<<"rmdir">>) = 1
    /\ <<"rmdir">>[1] = "rmdir"
    /\ SubSeq(<<"rmdir">>, 1, 0) = <<>>
OBVIOUS

LEMMA StackPop2 ==
    /\ Len(<<"rmdir", "close">>) = 2
    /\ <<"rmdir", "close">>[2] = "close"
    /\ SubSeq(<<"rmdir", "close">>, 1, 1) = <<"rmdir">>
<1>1. /\ <<"rmdir">> \in Seq(Deferred)
      /\ SubSeq(<<"rmdir", "close">>, 1, 1) \in Seq(Deferred)
    BY DEF Deferred
<1>2. /\ Len(SubSeq(<<"rmdir", "close">>, 1, 1)) = Len(<<"rmdir">>)
      /\ \A i \in 1..1 : SubSeq(<<"rmdir", "close">>, 1, 1)[i] = <<"rmdir">>[i]
    OBVIOUS
<1>3. SubSeq(<<"rmdir", "close">>, 1, 1) = <<"rmdir">>
    BY <1>1, <1>2, SeqEqual
<1> QED
    BY <1>3

LEMMA StackPop3 ==
    /\ Len(<<"rmdir", "close", "cancel">>) = 3
    /\ <<"rmdir", "close", "cancel">>[3] = "cancel"
    /\ SubSeq(<<"rmdir", "close", "cancel">>, 1, 2) = <<"rmdir", "close">>
<1>1. /\ <<"rmdir", "close">> \in Seq(Deferred)
      /\ SubSeq(<<"rmdir", "close", "cancel">>, 1, 2) \in Seq(Deferred)
    BY DEF Deferred
<1>2. /\ Len(SubSeq(<<"rmdir", "close", "cancel">>, 1, 2)) = 2
      /\ \A i \in 1..2 : SubSeq(<<"rmdir", "close", "cancel">>, 1, 2)[i]
                          = <<"rmdir", "close">>[i]
    OBVIOUS
<1> QED
    BY <1>1, <1>2, SeqEqual

LEMMA StackDistinct ==
    /\ <<>> # <<"rmdir">>
    /\ <<>> \notin Pending
    /\ <<"rmdir">> \notin Pending
    /\ <<"rmdir", "close">> # <<"rmdir", "close", "cancel">>
BY DEF Pending

LEMMA IInvStep == IInv /\ [Next]_vars => IInv'
<1> SUFFICES ASSUME IInv, [Next]_vars PROVE IInv'
    OBVIOUS
<1> USE DEF Pending, IInv, Before, Heads, NoGenesis, NoStranger, Return,
                      ExpectedNumber
<1>1. CASE ParseLogLevel
    <2>1. InvDefers'
        BY <1>1 DEF ParseLogLevel, InvDefers
    <2>2. InvProc'
        BY <1>1, <2>1 DEF ParseLogLevel, InvDefers, InvProc, TypeOK
    <2>3. InvPort'
        BY <1>1 DEF ParseLogLevel, InvProc, InvPort, TypeOK, ServedHead
    <2>4. TypeOK'
        BY <1>1, <2>1 DEF ParseLogLevel, InvDefers, InvProc, InvPort, TypeOK, PCs,
                            Answers, ServedHead, Alive
    <2> QED
        BY <2>1, <2>2, <2>3, <2>4
<1>2. CASE MakeDataDir
    <2>0. defers = <<>>
        BY <1>2 DEF MakeDataDir, InvDefers
    <2>1. \/ pc' = "compile" /\ defers' = <<"rmdir">>
          \/ pc' = "unwind" /\ defers' = <<>>
        BY <1>2, <2>0, StackPush DEF MakeDataDir
    <2>2. InvDefers'
        BY <2>1 DEF InvDefers, Stacks, Before
    <2>3. InvProc'
        BY <1>2, <2>1 DEF MakeDataDir, InvProc, TypeOK
    <2>4. InvPort'
        BY <1>2 DEF MakeDataDir, InvProc, InvPort, TypeOK, ServedHead
    <2>5. TypeOK'
        <3>1. defers' \in Seq(Deferred)
            BY <2>1, StackType DEF Stacks
        <3>2. dirExists' \in BOOLEAN /\ dirOurs' \in BOOLEAN
            BY <1>2 DEF MakeDataDir, makeDataDir, TypeOK
        <3> QED
            BY <1>2, <2>1, <3>1, <3>2 DEF MakeDataDir, TypeOK, PCs
    <2> QED
        BY <2>2, <2>3, <2>4, <2>5
<1>3. CASE CompileStep
    <2>1. InvDefers'
        BY <1>3 DEF CompileStep, Compile, InvDefers
    <2>2. InvProc'
        BY <1>3, <2>1 DEF CompileStep, Compile, InvDefers, InvProc, TypeOK
    <2>3. InvPort'
        BY <1>3 DEF CompileStep, Compile, InvProc, InvPort, TypeOK, ServedHead
    <2>4. TypeOK'
        BY <1>3, <2>1 DEF CompileStep, Compile, InvDefers, InvProc, InvPort, TypeOK, PCs,
                            Answers, ServedHead, Alive
    <2> QED
        BY <2>1, <2>2, <2>3, <2>4
<1>4. CASE InitStep
    <2>1. InvDefers'
        BY <1>4 DEF InitStep, GethInit, InvDefers
    <2>2. InvProc'
        BY <1>4, <2>1 DEF InitStep, GethInit, InvDefers, InvProc, TypeOK
    <2>3. InvPort'
        BY <1>4 DEF InitStep, GethInit, InvProc, InvPort, TypeOK, ServedHead
    <2>4. TypeOK'
        BY <1>4, <2>1 DEF InitStep, GethInit, InvDefers, InvProc, InvPort, TypeOK, PCs,
                            Answers, ServedHead, Alive
    <2> QED
        BY <2>1, <2>2, <2>3, <2>4
<1>5. CASE StartStep
    <2>0. defers = <<"rmdir">>
        BY <1>5 DEF StartStep, InvDefers
    <2>1. \/ /\ pc' = "poll" /\ defers' = <<"rmdir", "close", "cancel">> /\ ctx' = "live"
             /\ cmd' = "started" /\ proc' = "starting"
          \/ /\ pc' = "unwind" /\ defers' = <<"rmdir">> /\ ctx' = ctx
             /\ cmd' = "unstarted" /\ proc' = proc
        BY <1>5, <2>0, StackPush DEF StartStep, GethStart
    <2>2. InvDefers'
        BY <2>1 DEF InvDefers, Stacks, Before
    <2>3. InvProc'
        BY <1>5, <2>0, <2>1 DEF StartStep, InvProc, TypeOK
    <2>4. InvPort'
        BY <1>5 DEF StartStep, InvProc, InvPort, TypeOK, ServedHead
    <2>5. TypeOK'
        BY <1>5, <2>1 DEF StartStep, TypeOK, PCs, Deferred
    <2> QED
        BY <2>2, <2>3, <2>4, <2>5
<1>6. CASE PollReady
    <2>1. InvDefers'
        BY <1>6 DEF PollReady, InvDefers
    <2>2. InvProc'
        BY <1>6, <2>1 DEF PollReady, InvDefers, InvProc, TypeOK
    <2>3. InvPort'
        BY <1>6 DEF PollReady, InvProc, InvPort, TypeOK, ServedHead
    <2>4. TypeOK'
        BY <1>6, <2>1 DEF PollReady, InvDefers, InvProc, InvPort, TypeOK, PCs,
                            Answers, ServedHead, Alive
    <2> QED
        BY <2>1, <2>2, <2>3, <2>4
<1>7. CASE PollTimeout
    <2>1. InvDefers'
        BY <1>7 DEF PollTimeout, InvDefers
    <2>2. InvProc'
        BY <1>7, <2>1 DEF PollTimeout, InvDefers, InvProc, TypeOK
    <2>3. InvPort'
        BY <1>7 DEF PollTimeout, InvProc, InvPort, TypeOK, ServedHead
    <2>4. TypeOK'
        BY <1>7, <2>1 DEF PollTimeout, InvDefers, InvProc, InvPort, TypeOK, PCs,
                            Answers, ServedHead, Alive
    <2> QED
        BY <2>1, <2>2, <2>3, <2>4
<1>8. CASE QueryHead
    <2>1. InvDefers'
        BY <1>8 DEF QueryHead, InvDefers
    <2>2. InvProc'
        BY <1>8, <2>1 DEF QueryHead, InvDefers, InvProc, TypeOK
    <2>3. InvPort'
        BY <1>8 DEF QueryHead, InvProc, InvPort, TypeOK, ServedHead
    <2>4. TypeOK'
        BY <1>8, <2>1 DEF QueryHead, InvDefers, InvProc, InvPort, TypeOK, PCs,
                            Answers, ServedHead, Alive
    <2> QED
        BY <2>1, <2>2, <2>3, <2>4
<1>9. CASE RunDeferred
    <2>0. defers \in {<<"rmdir">>, <<"rmdir", "close">>, <<"rmdir", "close", "cancel">>}
        BY <1>9 DEF RunDeferred, InvDefers, Stacks
    <2>1. CASE defers = <<"rmdir">>
        \* os.RemoveAll("datadir"), the last deferred call
        <3>1. /\ defers' = <<>> /\ dirExists' = FALSE /\ dirHead' = NoGenesis
              /\ UNCHANGED <<pc, killed, ctx, result, answer, skipCompile, binary, dirOurs, cmd, proc, gethHead, port, strangerHead>>
            BY <1>9, <2>1, StackPop1 DEF RunDeferred
        <3>2. proc \in {"none", "reaped"}
            BY <1>9, <2>1 DEF RunDeferred, InvProc, TypeOK
        <3>3. InvDefers'
            BY <1>9, <3>1 DEF RunDeferred, InvDefers, Stacks
        <3>4. InvProc'
            BY <1>9, <3>1, <3>2, StackDistinct DEF RunDeferred, InvProc
        <3>5. InvPort'
            BY <3>1 DEF InvPort, InvProc
        <3>6. TypeOK'
            <4>1. defers' \in Seq(Deferred)
                BY <3>1, StackType DEF Stacks
            <4>2. dirExists' \in BOOLEAN
                BY <3>1, Zenon
            <4> QED
                BY <3>1, <4>1, <4>2 DEF TypeOK, PCs
        <3> QED
            BY <3>3, <3>4, <3>5, <3>6
    <2>2. CASE defers = <<"rmdir", "close">>
        \* client.Close: the process exists, it is killed and waited for
        <3>1. cmd = "started"
            BY <2>2 DEF InvProc
        <3>2. /\ defers' = <<"rmdir">> /\ killed' = TRUE /\ pc' = "closeWait"
              /\ UNCHANGED <<dirExists, dirHead, ctx, result, answer, skipCompile, binary, dirOurs, cmd, proc, gethHead, port, strangerHead>>
            BY <1>9, <2>2, <3>1, StackPop2 DEF RunDeferred, CloseKill
        <3>3. InvDefers'
            BY <3>2 DEF InvDefers, Stacks, Before
        <3>4. InvProc'
            BY <3>1, <3>2 DEF InvProc, Before
        <3>5. InvPort'
            BY <3>2 DEF InvPort, InvProc
        <3>6. TypeOK'
            <4>1. defers' \in Seq(Deferred)
                BY <3>2, StackType DEF Stacks
            <4> QED
                BY <3>2, <4>1 DEF TypeOK, PCs
        <3> QED
            BY <3>3, <3>4, <3>5, <3>6
    <2>3. CASE defers = <<"rmdir", "close", "cancel">>
        \* cancel of the timeout context
        <3>1. /\ defers' = <<"rmdir", "close">> /\ ctx' = "done"
              /\ UNCHANGED <<pc, killed, dirExists, dirHead, result, answer, skipCompile, binary, dirOurs, cmd, proc, gethHead, port, strangerHead>>
            BY <1>9, <2>3, StackPop3 DEF RunDeferred
        <3>2. pc = "unwind"
            BY <1>9 DEF RunDeferred
        <3>3. InvDefers'
            BY <3>1, <3>2 DEF InvDefers, Stacks
        <3>4. InvProc'
            BY <2>3, <3>1, <3>2 DEF InvProc
        <3>5. InvPort'
            BY <3>1 DEF InvPort, InvProc
        <3>6. TypeOK'
            <4>1. defers' \in Seq(Deferred)
                BY <3>1, StackType DEF Stacks
            <4> QED
                BY <3>1, <4>1 DEF TypeOK, PCs
        <3> QED
            BY <3>3, <3>4, <3>5, <3>6
    <2> QED
        BY <2>0, <2>1, <2>2, <2>3
<1>10. CASE CloseWait
    <2>1. InvDefers'
        BY <1>10 DEF CloseWait, InvDefers
    <2>2. InvProc'
        BY <1>10, <2>1 DEF CloseWait, InvDefers, InvProc, TypeOK
    <2>3. InvPort'
        BY <1>10 DEF CloseWait, InvProc, InvPort, TypeOK, ServedHead
    <2>4. TypeOK'
        <3>1. dirHead' \in Heads \cup {NoGenesis}
            BY <1>10 DEF CloseWait
        <3>2. proc' \in {"none", "starting", "serving", "exited", "reaped"} /\ pc' \in PCs
            BY <1>10 DEF CloseWait, PCs
        <3>3. UNCHANGED <<defers, result, answer, skipCompile, binary, dirOurs,
                          cmd, killed, gethHead, port, strangerHead, ctx>>
            BY <1>10 DEF CloseWait
        <3>4. dirExists' \in BOOLEAN
            BY <1>10 DEF CloseWait
        <3> QED
            BY <3>1, <3>2, <3>3, <3>4 DEF TypeOK
    <2> QED
        BY <2>1, <2>2, <2>3, <2>4
<1>11. CASE Exit
    <2>1. InvDefers'
        BY <1>11 DEF Exit, InvDefers
    <2>2. InvProc'
        BY <1>11, <2>1 DEF Exit, InvDefers, InvProc, TypeOK
    <2>3. InvPort'
        BY <1>11 DEF Exit, InvProc, InvPort, TypeOK, ServedHead
    <2>4. TypeOK'
        BY <1>11, <2>1 DEF Exit, InvDefers, InvProc, InvPort, TypeOK, PCs,
                            Answers, ServedHead, Alive
    <2> QED
        BY <2>1, <2>2, <2>3, <2>4
<1>12. CASE GethServe
    <2>1. InvDefers'
        BY <1>12 DEF GethServe, InvDefers
    <2>2. InvProc'
        BY <1>12, <2>1 DEF GethServe, InvDefers, InvProc, TypeOK
    <2>3. InvPort'
        BY <1>12 DEF GethServe, InvProc, InvPort, TypeOK, ServedHead
    <2>4. TypeOK'
        BY <1>12, <2>1 DEF GethServe, InvDefers, InvProc, InvPort, TypeOK, PCs,
                            Answers, ServedHead, Alive
    <2> QED
        BY <2>1, <2>2, <2>3, <2>4
<1>13. CASE GethExit
    <2>1. InvDefers'
        BY <1>13 DEF GethExit, InvDefers
    <2>2. InvProc'
        BY <1>13 DEF GethExit, InvProc, Alive
    <2>3. InvPort'
        BY <1>13 DEF GethExit, InvProc, InvPort, TypeOK, ServedHead
    <2>4. TypeOK'
        BY <1>13, <2>1 DEF GethExit, InvDefers, InvProc, InvPort, TypeOK, PCs,
                            Answers, ServedHead, Alive
    <2> QED
        BY <2>1, <2>2, <2>3, <2>4
<1>14. CASE Expire
    <2>1. InvDefers'
        BY <1>14 DEF Expire, InvDefers
    <2>2. InvProc'
        BY <1>14, <2>1 DEF Expire, InvDefers, InvProc, TypeOK
    <2>3. InvPort'
        BY <1>14 DEF Expire, InvProc, InvPort, TypeOK, ServedHead
    <2>4. TypeOK'
        BY <1>14, <2>1 DEF Expire, InvDefers, InvProc, InvPort, TypeOK, PCs,
                            Answers, ServedHead, Alive
    <2> QED
        BY <2>1, <2>2, <2>3, <2>4
<1>15. CASE Terminated
    <2>1. InvDefers'
        BY <1>15 DEF Terminated, vars, InvDefers
    <2>2. InvProc'
        BY <1>15, <2>1 DEF Terminated, vars, InvDefers, InvProc, TypeOK
    <2>3. InvPort'
        BY <1>15 DEF Terminated, vars, InvProc, InvPort, TypeOK, ServedHead
    <2>4. TypeOK'
        BY <1>15, <2>1 DEF Terminated, vars, InvDefers, InvProc, InvPort, TypeOK, PCs,
                            Answers, ServedHead, Alive
    <2> QED
        BY <2>1, <2>2, <2>3, <2>4
<1>16. CASE UNCHANGED vars
    BY <1>16 DEF vars, TypeOK, InvDefers, InvProc, InvPort
<1> QED
    BY <1>1, <1>2, <1>3, <1>4, <1>5, <1>6, <1>7, <1>8, <1>9, <1>10, <1>11, <1>12, <1>13, <1>14, <1>15, <1>16 DEF Next, Verifier

-----------------------------------------------------------------------------
(***************************************************************************)
(* Close is reached only with a started process: the stack holds "close"  *)
(* only after cmd.Start succeeded, so g.cmd.Process.Kill never meets a nil *)
(* Process in checkFlag's teardown.                                        *)
(***************************************************************************)
LEMMA NoPanicStep == IInv /\ NoPanic /\ [Next]_vars => NoPanic'
<1> SUFFICES ASSUME IInv, NoPanic, [Next]_vars PROVE NoPanic'
    OBVIOUS
<1> USE DEF IInv, NoPanic
<1>1. CASE RunDeferred
    <2>1. defers \in {<<"rmdir">>, <<"rmdir", "close">>, <<"rmdir", "close", "cancel">>}
        BY <1>1 DEF RunDeferred, InvDefers, Stacks
    <2>2. CASE defers = <<"rmdir", "close">>
        <3>1. cmd = "started"
            BY <2>2 DEF InvProc, Pending
        <3> QED
            BY <1>1, <2>2, <3>1, StackPop2 DEF RunDeferred, CloseKill
    <2>3. CASE defers # <<"rmdir", "close">>
        <3>1. defers \in {<<"rmdir">>, <<"rmdir", "close", "cancel">>}
            BY <2>1, <2>3
        <3>2. defers[Len(defers)] \in {"rmdir", "cancel"}
            BY <3>1, StackPop1, StackPop3
        <3> QED
            BY <1>1, <3>2 DEF RunDeferred
    <2> QED
        BY <2>2, <2>3
<1>2. CASE ParseLogLevel \/ MakeDataDir \/ CompileStep \/ InitStep \/ StartStep
    BY <1>2 DEF ParseLogLevel, MakeDataDir, CompileStep, InitStep, StartStep, Return
<1>3. CASE PollReady \/ PollTimeout \/ QueryHead \/ CloseWait \/ Exit
    BY <1>3 DEF PollReady, PollTimeout, QueryHead, CloseWait, Exit, Return
<1>4. CASE GethServe \/ GethExit \/ Expire \/ Terminated \/ UNCHANGED vars
    BY <1>4 DEF GethServe, GethExit, Expire, Terminated, vars
<1> QED
    BY <1>1, <1>2, <1>3, <1>4 DEF Next, Verifier

\* IInv holds in every reachable state.
LEMMA IInvAlways == Spec => [](IInv /\ NoPanic)
<1>1. Init => IInv /\ NoPanic
    BY IInvInit DEF Init, NoPanic
<1>2. (IInv /\ NoPanic) /\ [Next]_vars => (IInv /\ NoPanic)'
    BY IInvStep, NoPanicStep
<1> QED
    BY <1>1, <1>2, PTL DEF Spec

\* Type correctness of the harness model for every ChainLen and every set
\* of heads a foreign server may report.
THEOREM TypeCorrect == Spec => []TypeOK
BY IInvAlways, PTL DEF IInv

\* checkFlag's teardown never panics: the deferred client.Close runs only
\* after a successful client.Start (part_000:279-282, main.go:409-410).
THEOREM NoPanicThm == Spec => []NoPanic
BY IInvAlways, PTL

(***************************************************************************)
(* Every step that removes the data directory leaves no live geth on it:  *)
(* a failed makeDataDir runs before Start, the deferred os.RemoveAll runs *)
(* after client.Close returned, and Close removes it only after Wait.      *)
(***************************************************************************)
LEMMA DirStep ==
    IInv /\ [Next]_vars =>
        [dirExists /\ ~dirExists' => proc' \in {"none", "reaped"}]_vars
<1> SUFFICES ASSUME IInv, [Next]_vars, dirExists, ~dirExists'
             PROVE proc' \in {"none", "reaped"}
    OBVIOUS
<1> USE DEF IInv
<1>1. CASE MakeDataDir
    BY <1>1 DEF MakeDataDir, InvProc, Before
<1>2. CASE RunDeferred
    <2>1. defers \in {<<"rmdir">>, <<"rmdir", "close">>, <<"rmdir", "close", "cancel">>}
        BY <1>2 DEF RunDeferred, InvDefers, Stacks
    <2>2. CASE defers = <<"rmdir">>
        <3>1. proc \in {"none", "reaped"}
            BY <1>2, <2>2 DEF RunDeferred, InvProc, Pending, TypeOK
        <3> QED
            BY <1>2, <3>1 DEF RunDeferred
    <2>3. CASE defers # <<"rmdir">>
        <3>1. defers[Len(defers)] \in {"close", "cancel"}
            BY <2>1, <2>3, StackPop2, StackPop3
        <3> QED
            BY <1>2, <3>1 DEF RunDeferred, CloseKill
    <2> QED
        BY <2>2, <2>3
<1>3. CASE CloseWait
    BY <1>3 DEF CloseWait
<1>4. CASE ~MakeDataDir /\ ~RunDeferred /\ ~CloseWait
    <2>1. CASE ParseLogLevel \/ CompileStep \/ InitStep \/ StartStep
        BY <2>1 DEF ParseLogLevel, CompileStep, InitStep, StartStep
    <2>2. CASE PollReady \/ PollTimeout \/ QueryHead \/ Exit
        BY <2>2 DEF PollReady, PollTimeout, QueryHead, Exit
    <2>3. CASE GethServe \/ GethExit \/ Expire \/ Terminated \/ UNCHANGED vars
        BY <2>3 DEF GethServe, GethExit, Expire, Terminated, vars
    <2> QED
        BY <1>4, <2>1, <2>2, <2>3 DEF Next, Verifier
<1> QED
    BY <1>1, <1>2, <1>3, <1>4

\* The data directory is never removed under a live geth (client.Close
\* kills and waits before os.RemoveAll, main.go:409-414).
THEOREM DirRemovedAfterReapThm == Spec => DirRemovedAfterReap
BY IInvAlways, DirStep, PTL DEF DirRemovedAfterReap, Spec

(***************************************************************************)
(* The verdict is sound when nobody else serves on localhost:8545 and the *)
(* fixture chain has the one block checkFlag's constant expects: a pass   *)
(* was then reported by our geth, which had imported the whole chain.     *)
(***************************************************************************)
THEOREM VerdictSoundThm ==
    ASSUME StrangerHeads = {}, ChainLen = ExpectedNumber
    PROVE  Spec => []VerdictSound
<1>1. IInv => VerdictSound
    BY DEF IInv, InvPort, VerdictSound, TypeOK, Answers
<1> QED
    BY <1>1, IInvAlways, PTL


-----------------------------------------------------------------------------
(***************************************************************************)
(* The data directory this run created exists only while its deferred     *)
(* os.RemoveAll is still on the stack: makeDataDir is followed at once by  *)
(* the defer, and nothing after makeDataDir creates the directory again.   *)
(***************************************************************************)
InvDir ==
    /\ pc \in {"parse", "mkdir"} => ~dirOurs
    /\ dirOurs /\ dirExists => defers # <<>>

LEMMA InvDirInit == Init => InvDir
BY DEF Init, InvDir

LEMMA InvDirStep == IInv /\ InvDir /\ [Next]_vars => InvDir'
<1> SUFFICES ASSUME IInv, InvDir, [Next]_vars PROVE InvDir'
    OBVIOUS
<1> USE DEF IInv, InvDir
<1>1. CASE MakeDataDir
    <2>1. defers = <<>> /\ ~dirOurs
        BY <1>1 DEF MakeDataDir, InvDefers
    <2>2. PICK ok \in BOOLEAN :
                /\ makeDataDir(ok)
                /\ IF ok THEN /\ defers' = Append(defers, "rmdir")
                              /\ pc' = "compile"
                              /\ UNCHANGED result
                         ELSE /\ UNCHANGED defers
                              /\ Return("fail")
        BY <1>1 DEF MakeDataDir
    <2>3. CASE ok
        \* the directory is ours and its os.RemoveAll is deferred
        <3>1. defers' = <<"rmdir">>
            BY <2>1, <2>2, <2>3, StackPush
        <3>2. pc' = "compile"
            BY <2>2, <2>3
        <3> QED
            BY <3>1, <3>2
    <2>4. CASE ~ok
        \* checkFlag returns; the directory was not made by this run
        <3>1. dirOurs' = dirOurs /\ pc' = "unwind"
            BY <2>2, <2>4 DEF makeDataDir, Return
        <3> QED
            BY <2>1, <3>1
    <2> QED
        BY <2>3, <2>4
<1>2. CASE RunDeferred
    <2>1. defers \in {<<"rmdir">>, <<"rmdir", "close">>, <<"rmdir", "close", "cancel">>}
        BY <1>2 DEF RunDeferred, InvDefers, Stacks
    <2>2. CASE defers = <<"rmdir">>
        \* os.RemoveAll("datadir") empties the stack and removes the directory
        BY <1>2, <2>2, StackPop1 DEF RunDeferred
    <2>3. CASE defers = <<"rmdir", "close">>
        BY <1>2, <2>3, StackPop2 DEF RunDeferred, CloseKill
    <2>4. CASE defers = <<"rmdir", "close", "cancel">>
        BY <1>2, <2>4, StackPop3 DEF RunDeferred
    <2> QED
        BY <2>1, <2>2, <2>3, <2>4
<1>3. CASE CloseWait
    BY <1>3 DEF CloseWait
<1>4. CASE ParseLogLevel
    BY <1>4 DEF ParseLogLevel, Return
<1>5. CASE CompileStep
    BY <1>5 DEF CompileStep, Compile, Return
<1>6. CASE InitStep
    BY <1>6 DEF InitStep, GethInit, Return
<1>7. CASE StartStep
    \* Start pushes onto the stack or leaves it as it was
    <2>1. defers = <<"rmdir">>
        BY <1>7 DEF StartStep, InvDefers
    <2>2. defers' \in {<<"rmdir">>, <<"rmdir">> \o <<"close", "cancel">>}
        BY <1>7, <2>1 DEF StartStep
    <2>3. defers' # <<>>
        BY <2>2, StackPush
    <2> QED
        BY <1>7, <2>3 DEF StartStep, GethStart, Return
<1>8. CASE PollReady \/ PollTimeout \/ QueryHead \/ Exit
    BY <1>8 DEF PollReady, PollTimeout, QueryHead, Exit, Return
<1>9. CASE GethServe \/ GethExit \/ Expire \/ Terminated \/ UNCHANGED vars
    BY <1>9 DEF GethServe, GethExit, Expire, Terminated, vars
<1> QED
    BY <1>1, <1>2, <1>3, <1>4, <1>5, <1>6, <1>7, <1>8, <1>9 DEF Next, Verifier

\* When the verifier exits (pc = "exited") its geth has been reaped and the
\* data directory it created is gone: the deferred client.Close and
\* os.RemoveAll ran on every path out of checkFlag (part_000:248,282).
THEOREM CleanExitThm == Spec => []CleanExit
<1>1. Init => IInv /\ InvDir
    BY IInvInit, InvDirInit
<1>2. (IInv /\ InvDir) /\ [Next]_vars => (IInv /\ InvDir)'
    BY IInvStep, InvDirStep
<1>3. IInv /\ InvDir => CleanExit
    <2> SUFFICES ASSUME IInv, InvDir, pc = "exited"
                 PROVE  proc \in {"none", "reaped"} /\ (dirOurs => ~dirExists)
        BY DEF CleanExit
    <2>1. defers = <<>>
        BY DEF IInv, InvDefers
    <2>2. proc \in {"none", "reaped"}
        BY <2>1, StackDistinct DEF IInv, InvProc, TypeOK, Pending
    <2>3. dirOurs => ~dirExists
        BY <2>1 DEF InvDir
    <2> QED
        BY <2>2, <2>3
<1> QED
    BY <1>1, <1>2, <1>3, PTL DEF Spec


-----------------------------------------------------------------------------
(***************************************************************************)
(* Refinement of ClientLifecycle. What the mapping needs beyond IInv and  *)
(* InvDir: from Compile to Start checkFlag works in a directory it made   *)
(* (so a failed Compile or Init is told from a failed makeDataDir), a     *)
(* started Cmd has a process, and once Wait reaped it Close has removed  *)
(* the directory, which nothing creates again.                            *)
(***************************************************************************)
InvClient ==
    /\ pc \in {"compile", "init", "start"} => dirOurs
    /\ cmd = "started" => proc # "none"
    /\ proc = "reaped" => ~dirExists

LEMMA InvClientInit == Init => InvClient
BY DEF Init, InvClient

LEMMA InvClientStep == IInv /\ InvDir /\ InvClient /\ [Next]_vars => InvClient'
<1> SUFFICES ASSUME IInv, InvDir, InvClient, [Next]_vars PROVE InvClient'
    OBVIOUS
<1> USE DEF IInv, InvClient
<1>1. CASE MakeDataDir
    BY <1>1 DEF MakeDataDir, makeDataDir, Return, InvProc, Before
<1>2. CASE RunDeferred
    <2>1. defers \in {<<"rmdir">>, <<"rmdir", "close">>, <<"rmdir", "close", "cancel">>}
        BY <1>2 DEF RunDeferred, InvDefers, Stacks
    <2>2. CASE defers = <<"rmdir">>
        BY <1>2, <2>2, StackPop1 DEF RunDeferred
    <2>3. CASE defers = <<"rmdir", "close">>
        BY <1>2, <2>3, StackPop2 DEF RunDeferred, CloseKill
    <2>4. CASE defers = <<"rmdir", "close", "cancel">>
        BY <1>2, <2>4, StackPop3 DEF RunDeferred
    <2> QED
        BY <2>1, <2>2, <2>3, <2>4
<1>3. CASE CloseWait
    BY <1>3 DEF CloseWait
<1>4. CASE ParseLogLevel \/ CompileStep \/ InitStep
    BY <1>4 DEF ParseLogLevel, CompileStep, Compile, InitStep, GethInit, Return
<1>5. CASE StartStep
    BY <1>5 DEF StartStep, GethStart, Return
<1>6. CASE PollReady \/ PollTimeout \/ QueryHead \/ Exit
    BY <1>6 DEF PollReady, PollTimeout, QueryHead, Exit, Return
<1>7. CASE GethServe \/ GethExit \/ Expire \/ Terminated \/ UNCHANGED vars
    BY <1>7 DEF GethServe, GethExit, Expire, Terminated, vars
<1> QED
    BY <1>1, <1>2, <1>3, <1>4, <1>5, <1>6, <1>7 DEF Next, Verifier

\* The mapped state of the client: its stage, its outcome and its residue.
CVars == <<ClientStage, ClientOutcome, ClientResidue>>

LEMMA RefineInit == Init => Life!LInit
BY DEF Init, Life!LInit, ClientStage, ClientOutcome, ClientResidue

(***************************************************************************)
(* Each step of the harness is a step of the lifecycle or leaves the       *)
(* mapped state alone: Compile is Build or Reject, Init is Initialize or   *)
(* Reject, Start is Start or Reject, the second half of Close is Close,    *)
(* and every other step of checkFlag, of geth and of the timer stutters.   *)
(***************************************************************************)
LEMMA RefineStep ==
    IInv /\ InvDir /\ InvClient /\ [Next]_vars => [Life!LNext]_CVars
<1> SUFFICES ASSUME IInv, InvDir, InvClient, [Next]_vars
             PROVE  [Life!LNext]_CVars
    OBVIOUS
<1> USE DEF IInv, InvClient, CVars, ClientStage, ClientOutcome, ClientResidue
<1>1. CASE ParseLogLevel
    <2>1. cmd = "nil" /\ proc = "none" /\ ~dirOurs
        BY <1>1 DEF ParseLogLevel, InvProc, Before, InvDir
    <2> QED
        BY <1>1, <2>1 DEF ParseLogLevel, Return
<1>2. CASE MakeDataDir
    <2>1. cmd = "nil" /\ proc = "none" /\ ~dirOurs
        BY <1>2 DEF MakeDataDir, InvProc, Before, InvDir
    <2>2. PICK ok \in BOOLEAN :
                /\ makeDataDir(ok)
                /\ IF ok THEN /\ defers' = Append(defers, "rmdir")
                              /\ pc' = "compile"
                              /\ UNCHANGED result
                         ELSE /\ UNCHANGED defers
                              /\ Return("fail")
        BY <1>2 DEF MakeDataDir
    <2>3. CASE ok
        BY <1>2, <2>1, <2>2, <2>3 DEF MakeDataDir
    <2>4. CASE ~ok
        BY <1>2, <2>1, <2>2, <2>4 DEF MakeDataDir, makeDataDir, Return
    <2> QED
        BY <2>3, <2>4
<1>3. CASE CompileStep
    <2>1. cmd = "nil" /\ proc = "none" /\ dirOurs /\ pc = "compile"
        BY <1>3 DEF CompileStep, InvProc, Before
    <2>2. ClientStage \in {"Uninitialized", "Built"} /\ ClientOutcome = "none"
        BY <2>1
    <2>3. CASE skipCompile
        BY <1>3, <2>1, <2>3 DEF CompileStep
    <2>4. CASE ~skipCompile
        <3>1. PICK ok \in BOOLEAN :
                    /\ Compile(ok)
                    /\ IF ok THEN pc' = "init" /\ UNCHANGED result
                             ELSE Return("fail")
            BY <1>3, <2>4 DEF CompileStep
        <3>2. UNCHANGED <<cmd, proc, dirOurs, skipCompile>>
            BY <1>3 DEF CompileStep
        <3>3. ClientResidue' \in BOOLEAN
            OBVIOUS
        <3>4. CASE ok
            \* the build succeeded: the artifact is there
            <4>1. binary' = TRUE /\ pc' = "init"
                BY <3>1, <3>4 DEF Compile
            <4>2. ClientStage' = "Built" /\ ClientOutcome' = "ok"
                BY <2>1, <2>4, <3>2, <4>1
            <4> QED
                BY <2>2, <3>3, <4>2 DEF Life!LNext, Life!Build, Life!Stage
        <3>5. CASE ~ok
            \* the build failed: whatever binary was there is left
            <4>1. binary' = binary /\ pc' = "unwind"
                BY <3>1, <3>5 DEF Compile, Return, TypeOK
            <4>2. ClientStage' = ClientStage /\ ClientOutcome' = "err"
                BY <2>1, <3>2, <4>1
            <4> QED
                BY <2>2, <3>3, <4>2 DEF Life!LNext, Life!Reject
        <3> QED
            BY <3>4, <3>5
    <2> QED
        BY <2>3, <2>4
<1>4. CASE InitStep
    <2>1. cmd = "nil" /\ proc = "none" /\ dirOurs /\ pc = "init"
        BY <1>4 DEF InitStep, InvProc, Before
    <2>2. ClientStage \in {"Uninitialized", "Built"}
        BY <2>1
    <2>3. ClientResidue' \in BOOLEAN
        OBVIOUS
    <2>4. CASE pc' = "start"
        <3>1. binary /\ UNCHANGED <<binary, cmd, proc, dirOurs>>
            BY <1>4, <2>4 DEF InitStep, GethInit, Return
        <3>2. ClientStage = "Built" /\ ClientStage' = "Initialized" /\ ClientOutcome' = "ok"
            BY <2>1, <2>4, <3>1
        <3> QED
            BY <2>3, <3>2 DEF Life!LNext, Life!Initialize, Life!Stage
    <2>5. CASE pc' # "start"
        <3>1. pc' = "unwind" /\ UNCHANGED <<binary, cmd, proc, dirOurs>>
            BY <1>4, <2>5 DEF InitStep, Return
        <3>2. ClientStage' = ClientStage /\ ClientOutcome' = "err"
            BY <2>1, <3>1
        <3> QED
            BY <2>2, <2>3, <3>2 DEF Life!LNext, Life!Reject
    <2> QED
        BY <2>4, <2>5
<1>5. CASE StartStep
    <2>1. cmd = "nil" /\ proc = "none" /\ pc = "start"
        BY <1>5 DEF StartStep, InvProc, Before
    <2>2. ClientStage = "Initialized"
        BY <2>1
    <2>3. ClientResidue' \in BOOLEAN
        OBVIOUS
    <2>4. CASE cmd' = "started"
        <3>1. proc' = "starting"
            BY <1>5, <2>4 DEF StartStep, GethStart
        <3>2. ClientStage' = "Running" /\ ClientOutcome' = "ok"
            BY <2>4, <3>1
        <3> QED
            BY <2>2, <2>3, <3>2 DEF Life!LNext, Life!Start, Life!Stage
    <2>5. CASE cmd' # "started"
        <3>1. cmd' = "unstarted" /\ proc' = "none"
            BY <1>5, <2>1, <2>5 DEF StartStep, GethStart
        <3>2. ClientStage' = ClientStage /\ ClientOutcome' = "err"
            BY <2>2, <3>1
        <3> QED
            BY <2>2, <2>3, <3>2 DEF Life!LNext, Life!Reject
    <2> QED
        BY <2>4, <2>5
<1>6. CASE PollReady \/ PollTimeout \/ QueryHead
    \* the readiness poll and the query leave the client Running
    <2>1. cmd = "started" /\ proc \notin {"none", "reaped"}
        BY <1>6 DEF PollReady, PollTimeout, QueryHead, InvDefers, InvProc, Pending
    <2> QED
        BY <1>6, <2>1 DEF PollReady, PollTimeout, QueryHead, Return
<1>7. CASE RunDeferred
    <2>1. pc = "unwind" /\ defers \in {<<"rmdir">>, <<"rmdir", "close">>, <<"rmdir", "close", "cancel">>}
        BY <1>7 DEF RunDeferred, InvDefers, Stacks
    <2>2. CASE defers = <<"rmdir">>
        \* os.RemoveAll after Close: the directory is already gone
        <3>1. proc \in {"none", "reaped"}
            BY <2>1, <2>2, StackDistinct DEF InvProc, TypeOK, Pending
        <3>2. cmd = "started" => ~dirExists /\ proc = "reaped"
            BY <3>1
        <3> QED
            BY <1>7, <2>2, <3>2, StackPop1 DEF RunDeferred
    <2>3. CASE defers = <<"rmdir", "close">>
        \* Close kills geth and blocks in Wait
        <3>1. cmd = "started" /\ proc \notin {"none", "reaped"}
            BY <2>3 DEF InvProc, Pending
        <3> QED
            BY <1>7, <2>3, <3>1, StackPop2 DEF RunDeferred, CloseKill
    <2>4. CASE defers = <<"rmdir", "close", "cancel">>
        BY <1>7, <2>4, StackPop3 DEF RunDeferred
    <2> QED
        BY <2>1, <2>2, <2>3, <2>4
<1>8. CASE CloseWait
    <2>1. cmd = "started"
        BY <1>8 DEF CloseWait, InvProc
    <2>2. ClientStage' = "Closed" /\ ClientOutcome' = "ok" /\ ClientResidue' = FALSE
        BY <1>8, <2>1 DEF CloseWait
    <2> QED
        BY <2>2 DEF Life!LNext, Life!Close
<1>9. CASE Exit
    BY <1>9 DEF Exit
<1>10. CASE GethServe \/ GethExit
    <2>1. cmd = "started"
        BY <1>10 DEF GethServe, GethExit, Alive, InvProc
    <2> QED
        BY <1>10, <2>1 DEF GethServe, GethExit, Alive
<1>11. CASE Expire \/ Terminated \/ UNCHANGED vars
    BY <1>11 DEF Expire, Terminated, vars
<1> QED
    BY <1>1, <1>2, <1>3, <1>4, <1>5, <1>6, <1>7, <1>8, <1>9, <1>10, <1>11
       DEF Next, Verifier

\* checkFlag drives gethClient along the lifecycle of spec.md 4.2, and its
\* deferred Close leaves neither geth nor the data directory behind
\* (part_000:258-287, main.go:409-414): the property ClientRefined.
THEOREM ClientRefinedThm == Spec => ClientRefined
<1>1. Init => IInv /\ InvDir /\ InvClient
    BY IInvInit, InvDirInit, InvClientInit
<1>2. (IInv /\ InvDir /\ InvClient) /\ [Next]_vars => (IInv /\ InvDir /\ InvClient)'
    BY IInvStep, InvDirStep, InvClientStep
<1>3. (IInv /\ InvDir /\ InvClient) /\ [Next]_vars => [Life!LNext]_CVars
    BY RefineStep
<1> QED
    BY <1>1, <1>2, <1>3, RefineInit, PTL DEF Spec, ClientRefined, Life!LSpec, CVars

=====
