----------------------------- MODULE TestHandler -----------------------------
(***************************************************************************)
(* pkg/testrunner/interface/types.go: one run of a GPU test.  runTest runs *)
(* the test command once per iteration under a timeout; a waiter goroutine *)
(* per iteration reports the exit of the process; the owner (testGPU in    *)
(* testrunner.go) either receives Done or calls StopTest on its own        *)
(* timeout or on a termination signal.                                     *)
(*                                                                         *)
(* The owner is actor 0 and the waiter of iteration i is actor i: they are *)
(* the actors that run cancelCtx, which reads, calls and clears the shared *)
(* field cancelFunc in three unsynchronised steps.  A nil dereference      *)
(* (cancelFunc or process.Process) panics and ends the test runner.        *)
(***************************************************************************)
EXTENDS Integers, Sequences

CONSTANT
    Iterations      \* th.iterations; StartTest refuses 0

ASSUME HandlerAssumption == Iterations \in Nat \ {0}

Iters  == 1..Iterations
Owner  == 0
Actors == Iters \cup {Owner}
Nil    == 0

VARIABLES
    rpc,         \* control state of runTest
    iter,        \* its loop variable i
    pc,          \* control state of the owner and of every waiter
    ctx,         \* context of an iteration: "none", "live" or "done"
    proc,        \* process of an iteration: "none", "running" or "exited"
    pidSet,      \* th.process.Process can be dereferenced
    cancelFunc,  \* iteration whose cancel function is stored, or Nil
    stopTest,    \* th.stopTest
    results,     \* th.IterResults, as <<iteration, status>> pairs
    expired,     \* history: iterations whose own timeout ran out
    panicked,    \* a nil dereference ended the process
    stopOnFailure, \* th.stopOnFailure, an option of the test
    wg           \* th.wg, a counter

vars == <<rpc, iter, pc, ctx, proc, pidSet, cancelFunc, stopTest, results,
          expired, panicked, stopOnFailure, wg>>

RunnerPC == {"top", "start", "select", "timedout", "logCompleted",
             "logTimedOut", "close", "sent", "done"}
Closed   == {"close", "sent", "done"}
WaiterPC == {"none", "wait", "send", "check", "call", "clear", "done"}
OwnerPC  == {"select", "check", "call", "clear", "recv", "wg", "returned"}
Statuses == {"completed", "timed_out"}

TypeOK ==
    /\ rpc \in RunnerPC /\ iter \in Iters
    /\ pc \in [Actors -> WaiterPC \cup OwnerPC]
    /\ ctx \in [Iters -> {"none", "live", "done"}]
    /\ proc \in [Iters -> {"none", "running", "exited"}]
    /\ pidSet \in BOOLEAN /\ cancelFunc \in Actors
    /\ stopTest \in BOOLEAN /\ panicked \in BOOLEAN
    /\ results \in Seq(Iters \X Statuses)
    /\ expired \subseteq Iters /\ stopOnFailure \in BOOLEAN /\ wg \in Int

(* StartTest has counted runTest and spawned it, the owner is in its       *)
(* select.                                                                 *)
Init ==
    /\ rpc = "top" /\ iter = 1
    /\ pc = [a \in Actors |-> IF a = Owner THEN "select" ELSE "none"]
    /\ ctx = [i \in Iters |-> "none"] /\ proc = [i \in Iters |-> "none"]
    /\ pidSet = FALSE /\ cancelFunc = Nil /\ stopTest = FALSE
    /\ results = <<>> /\ expired = {} /\ panicked = FALSE
    /\ stopOnFailure \in BOOLEAN /\ wg = 1

-----------------------------------------------------------------------------
(* runTest *)

(* Under rwLock: a context with a timeout, a command, the cancel function. *)
NewIteration ==
    /\ ~panicked /\ rpc = "top"
    /\ ctx' = [ctx EXCEPT ![iter] = "live"]
    /\ cancelFunc' = iter /\ pidSet' = FALSE
    /\ rpc' = "start"
    /\ UNCHANGED <<iter, pc, proc, stopTest, results, expired, panicked,
                   stopOnFailure, wg>>

(* The end of the loop body: the next iteration, or closeFunc.             *)
LoopNext ==
    IF iter < Iterations
       THEN rpc' = "top" /\ iter' = iter + 1
       ELSE rpc' = "close" /\ UNCHANGED iter

(* Mutant: the waiter is not counted.                                      *)
StartProcess_NoAdd ==
    /\ ~panicked /\ rpc = "start" /\ ctx[iter] = "live"
    /\ proc' = [proc EXCEPT ![iter] = "running"]
    /\ pc' = [pc EXCEPT ![iter] = "wait"]
    /\ pidSet' = TRUE
    /\ rpc' = "select"
    /\ UNCHANGED <<iter, ctx, cancelFunc, stopTest, results, expired,
                   panicked, stopOnFailure, wg>>

(* process.Start refuses a context that is already done.  The waiter is    *)
(* counted and spawned.                                                    *)
StartProcess ==
    /\ ~panicked /\ rpc = "start" /\ ctx[iter] = "live"
    /\ proc' = [proc EXCEPT ![iter] = "running"]
    /\ pc' = [pc EXCEPT ![iter] = "wait"]
    /\ pidSet' = TRUE
    /\ rpc' = "select" /\ wg' = wg + 1
    /\ UNCHANGED <<iter, ctx, cancelFunc, stopTest, results, expired,
                   panicked, stopOnFailure>>

(* Mutant: a process that does not start is tried again.                   *)
StartFails_Retry ==
    /\ ~panicked /\ rpc = "start"
    /\ rpc' = "top"
    /\ UNCHANGED <<iter, pc, ctx, proc, pidSet, cancelFunc, stopTest,
                   results, expired, panicked, stopOnFailure, wg>>

(* process.Start fails, for that or any other reason: `continue', without  *)
(* a result and without cancel.                                            *)
StartFails ==
    /\ ~panicked /\ rpc = "start"
    /\ LoopNext
    /\ UNCHANGED <<pc, ctx, proc, pidSet, cancelFunc, stopTest, results,
                   expired, panicked, stopOnFailure, wg>>

(* The rendezvous on iterationDoneChan, in the select or after ctx.Done.   *)
IterationDone ==
    /\ ~panicked
    /\ rpc \in {"select", "timedout"} /\ pc[iter] = "send"
    /\ pc' = [pc EXCEPT ![iter] = "check"]
    /\ rpc' = IF rpc = "select" THEN "logCompleted" ELSE "logTimedOut"
    /\ UNCHANGED <<iter, ctx, proc, pidSet, cancelFunc, stopTest, results,
                   expired, panicked, stopOnFailure, wg>>

(* Mutant: the result is written without waiting for the process.          *)
ContextDone_NoWait ==
    /\ ~panicked /\ rpc = "select" /\ ctx[iter] = "done"
    /\ rpc' = "logTimedOut"
    /\ UNCHANGED <<iter, pc, ctx, proc, pidSet, cancelFunc, stopTest,
                   results, expired, panicked, stopOnFailure, wg>>

(* `case <-ctx.Done()': taken at random when the process has also exited.  *)
ContextDone ==
    /\ ~panicked /\ rpc = "select" /\ ctx[iter] = "done"
    /\ rpc' = "timedout"
    /\ UNCHANGED <<iter, pc, ctx, proc, pidSet, cancelFunc, stopTest,
                   results, expired, panicked, stopOnFailure, wg>>

(* Mutant: a timed-out iteration is not reported.                          *)
LogResults_OnlyCompleted(failed) ==
    /\ ~panicked /\ rpc \in {"logCompleted", "logTimedOut"}
    /\ results' = IF rpc = "logCompleted"
                     THEN Append(results, <<iter, "completed">>) ELSE results
    /\ LoopNext
    /\ UNCHANGED <<pc, ctx, proc, pidSet, cancelFunc, stopTest, expired,
                   panicked, stopOnFailure, wg>>

(* logResults, and what follows it: stop on failure, stop when StopTest    *)
(* was called (looked at after a timeout only), or go on.  `failed' is     *)
(* checkFailure's verdict on the parsed output.                            *)
LogResults(failed) ==
    /\ ~panicked /\ rpc \in {"logCompleted", "logTimedOut"}
    /\ results' = Append(results,
                     <<iter, IF rpc = "logCompleted" THEN "completed" ELSE "timed_out">>)
    /\ IF \/ stopOnFailure /\ (failed \/ rpc = "logTimedOut")
          \/ rpc = "logTimedOut" /\ stopTest
          THEN rpc' = "close" /\ UNCHANGED iter
          ELSE LoopNext
    /\ UNCHANGED <<pc, ctx, proc, pidSet, cancelFunc, stopTest, expired,
                   panicked, stopOnFailure, wg>>

-----------------------------------------------------------------------------
(* The process, its timeout and its waiter *)

(* The timeout of an iteration's context runs out.                         *)
Expire(i) ==
    /\ ~panicked /\ ctx[i] = "live"
    /\ ctx' = [ctx EXCEPT ![i] = "done"]
    /\ expired' = expired \cup {i}
    /\ UNCHANGED <<rpc, iter, pc, proc, pidSet, cancelFunc, stopTest,
                   results, panicked, stopOnFailure, wg>>

(* exec kills the process once its context is done; it may also end alone. *)
ProcessExits(i) ==
    /\ ~panicked /\ proc[i] = "running"
    /\ proc' = [proc EXCEPT ![i] = "exited"]
    /\ UNCHANGED <<rpc, iter, pc, ctx, pidSet, cancelFunc, stopTest, results,
                   expired, panicked, stopOnFailure, wg>>

Killed(i) == ctx[i] = "done" /\ ProcessExits(i)

(* Mutant: the waiter reports before the process has exited.               *)
WaitReturns_Early(i) ==
    /\ ~panicked /\ pc[i] = "wait"
    /\ pc' = [pc EXCEPT ![i] = "send"]
    /\ UNCHANGED <<rpc, iter, ctx, proc, pidSet, cancelFunc, stopTest,
                   results, expired, panicked, stopOnFailure, wg>>

(* process.Wait returns; the waiter now offers on iterationDoneChan.       *)
WaitReturns(i) ==
    /\ ~panicked /\ pc[i] = "wait" /\ proc[i] = "exited"
    /\ pc' = [pc EXCEPT ![i] = "send"]
    /\ UNCHANGED <<rpc, iter, ctx, proc, pidSet, cancelFunc, stopTest,
                   results, expired, panicked, stopOnFailure, wg>>

-----------------------------------------------------------------------------
(* cancelCtx, run by a waiter after its rendezvous and by StopTest *)

(* Its end: StopTest goes on, a waiter returns with its deferred wg.Done.  *)
CancelEnds(a) ==
    IF a = Owner THEN pc' = [pc EXCEPT ![a] = "recv"] /\ UNCHANGED wg
                 ELSE pc' = [pc EXCEPT ![a] = "done"] /\ wg' = wg - 1

CancelCheck(a) ==
    /\ ~panicked /\ pc[a] = "check"
    /\ IF cancelFunc = Nil
          THEN CancelEnds(a)
          ELSE pc' = [pc EXCEPT ![a] = "call"] /\ UNCHANGED wg
    /\ UNCHANGED <<rpc, iter, ctx, proc, pidSet, cancelFunc, stopTest,
                   results, expired, panicked, stopOnFailure>>

CancelCall(a) ==
    /\ ~panicked /\ pc[a] = "call"
    /\ IF cancelFunc = Nil
          THEN panicked' = TRUE /\ UNCHANGED <<ctx, pc>>
          ELSE /\ ctx' = [ctx EXCEPT ![cancelFunc] = "done"]
               /\ pc' = [pc EXCEPT ![a] = "clear"]
               /\ UNCHANGED panicked
    /\ UNCHANGED <<rpc, iter, proc, pidSet, cancelFunc, stopTest, results,
                   expired, stopOnFailure, wg>>

CancelClear(a) ==
    /\ ~panicked /\ pc[a] = "clear"
    /\ cancelFunc' = Nil
    /\ CancelEnds(a)
    /\ UNCHANGED <<rpc, iter, ctx, proc, pidSet, stopTest, results, expired,
                   panicked, stopOnFailure>>

-----------------------------------------------------------------------------
(* The owner *)

(* testGPU's timeout or termination signal: StopTest logs the pid, sets    *)
(* stopTest and cancels.                                                   *)
StopTest ==
    /\ ~panicked /\ pc[Owner] = "select"
    /\ IF pidSet
          THEN /\ stopTest' = TRUE
               /\ pc' = [pc EXCEPT ![Owner] = "check"]
               /\ UNCHANGED panicked
          ELSE panicked' = TRUE /\ UNCHANGED <<stopTest, pc>>
    /\ UNCHANGED <<rpc, iter, ctx, proc, pidSet, cancelFunc, results,
                   expired, stopOnFailure, wg>>

(* The rendezvous on doneChan: testGPU's select, or StopTest.              *)
DoneReceived ==
    /\ ~panicked /\ rpc = "close" /\ pc[Owner] \in {"select", "recv"}
    /\ pc' = [pc EXCEPT ![Owner] = IF @ = "select" THEN "returned" ELSE "wg"]
    /\ rpc' = "sent"
    /\ UNCHANGED <<iter, ctx, proc, pidSet, cancelFunc, stopTest, results,
                   expired, panicked, stopOnFailure, wg>>

(* runTest returns from closeFunc, and so from its deferred wg.Done.       *)
RunTestReturns ==
    /\ ~panicked /\ rpc = "sent"
    /\ rpc' = "done" /\ wg' = wg - 1
    /\ UNCHANGED <<iter, pc, ctx, proc, pidSet, cancelFunc, stopTest, results,
                   expired, panicked, stopOnFailure>>

(* th.wg.Wait                                                              *)
WaitGroup ==
    /\ ~panicked /\ pc[Owner] = "wg" /\ wg = 0
    /\ pc' = [pc EXCEPT ![Owner] = "returned"]
    /\ UNCHANGED <<rpc, iter, ctx, proc, pidSet, cancelFunc, stopTest,
                   results, expired, panicked, stopOnFailure, wg>>

(* The run is over, or the process is.                                     *)
Finished ==
    /\ panicked \/ pc[Owner] = "returned"
    /\ UNCHANGED vars

RunTest == \/ NewIteration \/ StartProcess \/ StartFails
           \/ IterationDone \/ ContextDone
           \/ \E failed \in BOOLEAN : LogResults(failed)
           \/ RunTestReturns
CancelCtx(a) == CancelCheck(a) \/ CancelCall(a) \/ CancelClear(a)

Next ==
    \/ RunTest
    \/ \E i \in Iters : Expire(i) \/ ProcessExits(i) \/ WaitReturns(i)
    \/ \E a \in Actors : CancelCtx(a)
    \/ StopTest \/ DoneReceived \/ WaitGroup
    \/ Finished

Spec == Init /\ [][Next]_vars

(* Goroutines are scheduled, a context with a timeout expires, and exec    *)
(* kills the process of a finished context.  Neither an early exit of the  *)
(* process nor StopTest is assumed.                                        *)
Fairness ==
    /\ WF_vars(RunTest) /\ WF_vars(DoneReceived) /\ WF_vars(WaitGroup)
    /\ \A i \in Iters : WF_vars(Expire(i)) /\ WF_vars(Killed(i)) /\ WF_vars(WaitReturns(i))
    /\ \A a \in Actors : WF_vars(CancelCtx(a))

LiveSpec == Spec /\ Fairness

-----------------------------------------------------------------------------
(* runTest waits for the process in both cases of its select: a test       *)
(* process never outlives its iteration, so two iterations never test the  *)
(* GPU at once and none is left when the owner is told that the run ended. *)
ProcessWithinIteration ==
    \A i \in Iters : proc[i] = "running" => i = iter /\ rpc \in {"select", "timedout"}

(* closeFunc closes iterationDoneChan: no waiter is left to send on it,    *)
(* which would panic.                                                      *)
NoSendOnClosed ==
    rpc \in Closed => \A i \in Iters : pc[i] \notin {"wait", "send"}

(* logResults: when the run ends, the started iterations have exactly one  *)
(* result each, in order; one that failed to start has none.               *)
ResultsMatchRuns ==
    rpc \in Closed =>
       /\ \A k, m \in 1..Len(results) : k < m => results[k][1] < results[m][1]
       /\ {results[k][1] : k \in 1..Len(results)} = {i \in Iters : proc[i] # "none"}

(* The run as its owner sees it.                                           *)
Launched == {i \in Iters : proc[i] # "none"}
Processes == {i \in Iters : proc[i] = "running"}
Returned == pc[Owner] = "returned"
Job == INSTANCE TestJob WITH launched <- Launched, alive <- Processes,
                             report <- results, answered <- Returned

(* runTest, StopTest: the run keeps the promise of module TestJob: one     *)
(* process at a time, in order, each reported once before the next starts, *)
(* and none left, unreported or started later when the owner is answered.  *)
KeepsPromise == Job!JobSpec

(* StopTest waits on wg, which StartTest and runTest raise for every       *)
(* goroutine and each lowers when it returns: when StopTest returns,       *)
(* neither runTest nor any waiter touches the handler again.               *)
StopTestQuiesces ==
    pc[Owner] = "returned" /\ stopTest =>
       rpc = "done" /\ \A i \in Iters : pc[i] \in {"none", "done"}

(* runTest, StopTest: the owner always gets its answer, whatever times out *)
(* or is stopped, unless a nil dereference ends the process.               *)
RunEnds == <>(pc[Owner] = "returned" \/ panicked)

(* runTest, `case <-ctx.Done()': "Timeout occurred".  An iteration is      *)
(* reported as timed out only if its own timeout ran out or the owner      *)
(* stopped the test.                                                       *)
TimeoutIsReal ==
    \A k \in 1..Len(results) :
       results[k][2] = "timed_out" => results[k][1] \in expired \/ stopTest

(* Nobody but the owner can cancel the context of the first iteration      *)
(* while its process runs: its timeout is always a real one.               *)
FirstTimeoutIsReal ==
    \A k \in 1..Len(results) :
       results[k] = <<1, "timed_out">> => 1 \in expired \/ stopTest

(* cancelCtx returns at once when cancelFunc is nil ("cancelCtx calls the  *)
(* cancel function"): a nil cancelFunc is never called.                    *)
NilNeverCalled == ~(\E a \in Actors : pc[a] = "call" /\ cancelFunc = Nil)

(* "StopTest stops the current test execution": once it has cancelled, no  *)
(* further process is started.                                             *)
StopTestStops ==
    [][pc[Owner] = "recv" =>
         \A i \in Iters : proc[i] = "none" => proc'[i] # "running"]_vars
=============================================================================
