----------------------------- MODULE TestProofs -----------------------------
(***************************************************************************)
(* The test runner.  First part: the safety properties of TestHandler hold *)
(* for any number of iterations, with and without stopOnFailure.  Second   *)
(* part: those of TestRunner, for any GPUs, goroutines and crashes.        *)
(***************************************************************************)
EXTENDS TestHandler, TestRunner, FiniteSets, FiniteSetTheorems, TLAPS

-----------------------------------------------------------------------------
(* First part: TestHandler *)

InIteration == {"select", "timedout", "logCompleted", "logTimedOut"}

(* Why a process stays within its iteration: a waiter that has not yet met *)
(* runTest belongs to the iteration runTest is blocked in, and a process   *)
(* runs only while its waiter waits for it.  Later iterations are blank.   *)
WaiterInv ==
    /\ \A i \in Iters : pc[i] \in {"wait", "send"}
                           => i = iter /\ rpc \in {"select", "timedout"}
    /\ \A i \in Iters : proc[i] = "running" => pc[i] = "wait"
    /\ \A i \in Iters : i > iter \/ (i = iter /\ rpc \in {"top", "start"})
                           => pc[i] = "none" /\ proc[i] = "none"

(* Why the results match the runs: they are strictly increasing, below the *)
(* iteration in progress, and a started iteration is either reported or    *)
(* the one in progress.                                                    *)
Reported(i) == \E k \in 1..Len(results) : results[k][1] = i

ResultInv ==
    /\ \A k \in 1..Len(results) :
          \/ results[k][1] < iter
          \/ results[k][1] = iter /\ rpc \in Closed
    /\ \A k, m \in 1..Len(results) : k < m => results[k][1] < results[m][1]
    /\ \A i \in Iters : Reported(i) => proc[i] # "none"
    /\ \A i \in Iters : proc[i] # "none"
                           => Reported(i) \/ (i = iter /\ rpc \in InIteration)
    /\ rpc \in InIteration => proc[iter] # "none"

(* What the wait group counts: runTest until it returns, and every waiter  *)
(* from before it is spawned until it returns.                             *)
Waiters == {i \in Iters : pc[i] \notin {"none", "done"}}

CountInv == wg = (IF rpc = "done" THEN 0 ELSE 1) + Cardinality(Waiters)

(* StopTest reaches the end only through wg.Wait.                          *)
StopInv ==
    /\ pc[Owner] \in OwnerPC
    /\ pc[Owner] = "select" => ~stopTest
    /\ StopTestQuiesces

-----------------------------------------------------------------------------
(* The pieces of state of a step that the arguments below look at.         *)
LEMMA TypeStep == TypeOK /\ [Next]_vars => TypeOK'
<1> SUFFICES ASSUME TypeOK, [Next]_vars PROVE TypeOK'
  OBVIOUS
<1> USE HandlerAssumption DEF TypeOK, Iters, Actors, Owner, Nil, RunnerPC, WaiterPC,
                              OwnerPC, Statuses, CancelEnds
<1>1. CASE NewIteration
  BY <1>1 DEF NewIteration
<1>2. CASE StartProcess
  BY <1>2 DEF StartProcess
<1>3. CASE StartFails
  BY <1>3 DEF StartFails, LoopNext
<1>4. CASE IterationDone
  BY <1>4 DEF IterationDone
<1>5. CASE ContextDone
  BY <1>5 DEF ContextDone
<1>6. ASSUME NEW failed \in BOOLEAN, LogResults(failed) PROVE TypeOK'
  <2>1. results' \in Seq(Iters \X Statuses)
    BY <1>6 DEF LogResults
  <2>2. rpc' \in RunnerPC /\ iter' \in Iters
    BY <1>6 DEF LogResults, LoopNext
  <2> QED
    BY <1>6, <2>1, <2>2 DEF LogResults
<1>7. ASSUME NEW i \in Iters, Expire(i) \/ ProcessExits(i) \/ WaitReturns(i)
      PROVE  TypeOK'
  BY <1>7 DEF Expire, ProcessExits, WaitReturns
<1>8. ASSUME NEW a \in Actors, CancelCheck(a) \/ CancelClear(a) PROVE TypeOK'
  <2>1. CASE CancelCheck(a)
    BY <2>1 DEF CancelCheck
  <2>2. CASE CancelClear(a)
    BY <2>2 DEF CancelClear
  <2> QED
    BY <1>8, <2>1, <2>2
<1>9. ASSUME NEW a \in Actors, CancelCall(a) PROVE TypeOK'
  BY <1>9 DEF CancelCall
<1>10. CASE StopTest
  <2>1. CASE pidSet
    BY <1>10, <2>1 DEF StopTest
  <2>2. CASE ~pidSet
    BY <1>10, <2>2 DEF StopTest
  <2> QED
    BY <2>1, <2>2
<1>11. CASE DoneReceived \/ RunTestReturns \/ WaitGroup
  <2>1. CASE DoneReceived
    BY <2>1 DEF DoneReceived
  <2>2. CASE RunTestReturns
    BY <2>2 DEF RunTestReturns
  <2>3. CASE WaitGroup
    BY <2>3 DEF WaitGroup
  <2> QED
    BY <1>11, <2>1, <2>2, <2>3
<1>12. CASE Finished \/ UNCHANGED vars
  BY <1>12 DEF Finished, vars
<1> QED
  BY <1>1, <1>2, <1>3, <1>4, <1>5, <1>6, <1>7, <1>8, <1>9, <1>10, <1>11, <1>12
     DEF Next, RunTest, CancelCtx

(* TestHandler is type-correct: the loop stays within its iterations.      *)
THEOREM TypeCorrect == Spec => []TypeOK
<1>1. Init => TypeOK
  <2> SUFFICES ASSUME Init PROVE TypeOK
    OBVIOUS
  <2>1. iter \in Iters /\ cancelFunc \in Actors /\ results \in Seq(Iters \X Statuses)
    BY HandlerAssumption DEF Init, Iters, Actors, Owner, Nil
  <2>2. pc \in [Actors -> WaiterPC \cup OwnerPC]
    BY DEF Init, WaiterPC, OwnerPC
  <2>3. /\ ctx \in [Iters -> {"none", "live", "done"}]
        /\ proc \in [Iters -> {"none", "running", "exited"}]
    BY DEF Init
  <2>4. /\ rpc \in RunnerPC /\ pidSet \in BOOLEAN /\ stopTest \in BOOLEAN
        /\ panicked \in BOOLEAN /\ expired \subseteq Iters /\ stopOnFailure \in BOOLEAN
    BY Zenon DEF Init, RunnerPC
  <2>5. wg \in Int
    BY DEF Init
  <2> QED
    BY <2>1, <2>2, <2>3, <2>4, <2>5 DEF TypeOK
<1> QED
  BY <1>1, TypeStep, PTL DEF Spec

-----------------------------------------------------------------------------
(* Every step keeps the hand-shake between runTest and its waiters.        *)
LEMMA WaiterStep == TypeOK /\ WaiterInv /\ [Next]_vars => WaiterInv'
<1> SUFFICES ASSUME TypeOK, WaiterInv, [Next]_vars PROVE WaiterInv'
  OBVIOUS
<1>0. /\ pc \in [Actors -> WaiterPC \cup OwnerPC] /\ iter \in Iters
      /\ proc \in [Iters -> {"none", "running", "exited"}]
  BY DEF TypeOK
<1> USE HandlerAssumption DEF WaiterInv, Iters, Actors, Owner
<1>1. CASE NewIteration
  BY <1>0, <1>1 DEF NewIteration
<1>2. CASE StartProcess
  BY <1>0, <1>2 DEF StartProcess
<1>3. CASE StartFails
  BY <1>0, <1>3 DEF StartFails, LoopNext
<1>4. CASE IterationDone
  BY <1>0, <1>4 DEF IterationDone
<1>5. CASE ContextDone
  BY <1>0, <1>5 DEF ContextDone
<1>6. ASSUME NEW failed \in BOOLEAN, LogResults(failed) PROVE WaiterInv'
  BY <1>0, <1>6 DEF LogResults, LoopNext
<1>7. ASSUME NEW i \in Iters, Expire(i) PROVE WaiterInv'
  BY <1>7 DEF Expire
<1>8. ASSUME NEW i \in Iters, ProcessExits(i) PROVE WaiterInv'
  BY <1>0, <1>8 DEF ProcessExits
<1>9. ASSUME NEW i \in Iters, WaitReturns(i) PROVE WaiterInv'
  BY <1>0, <1>9 DEF WaitReturns
<1>10. ASSUME NEW a \in Actors, CancelCtx(a) PROVE WaiterInv'
  BY <1>0, <1>10 DEF CancelCtx, CancelCheck, CancelCall, CancelClear, CancelEnds
<1>11. CASE StopTest \/ DoneReceived \/ RunTestReturns \/ WaitGroup
  BY <1>0, <1>11 DEF StopTest, DoneReceived, RunTestReturns, WaitGroup
<1>12. CASE Finished \/ UNCHANGED vars
  BY <1>12 DEF Finished, vars
<1> QED
  BY <1>1, <1>2, <1>3, <1>4, <1>5, <1>6, <1>7, <1>8, <1>9, <1>10, <1>11, <1>12
     DEF Next, RunTest

(* The hand-shake holds throughout.                                        *)
LEMMA WaiterInvariant == Spec => []WaiterInv
<1>1. Init => WaiterInv
  <2> SUFFICES ASSUME Init PROVE WaiterInv
    OBVIOUS
  <2>1. \A i \in Iters : pc[i] = "none" /\ proc[i] = "none"
    BY HandlerAssumption DEF Init, Iters, Actors, Owner
  <2> QED
    BY <2>1 DEF WaiterInv
<1> QED
  BY <1>1, WaiterStep, TypeCorrect, PTL DEF Spec

(* runTest: for any number of iterations, a test process never outlives    *)
(* its iteration.                                                          *)
THEOREM ProcessesContained == Spec => []ProcessWithinIteration
<1>1. WaiterInv => ProcessWithinIteration
  BY DEF WaiterInv, ProcessWithinIteration
<1> QED
  BY <1>1, WaiterInvariant, PTL

(* closeFunc: for any number of iterations, closing iterationDoneChan      *)
(* never meets a sender.                                                   *)
THEOREM ClosedAfterSends == Spec => []NoSendOnClosed
<1>1. WaiterInv => NoSendOnClosed
  BY DEF WaiterInv, NoSendOnClosed, Closed
<1> QED
  BY <1>1, WaiterInvariant, PTL

-----------------------------------------------------------------------------
(* Every step keeps the results in line with the started iterations.       *)
LEMMA ResultStep ==
    TypeOK /\ WaiterInv /\ ResultInv /\ [Next]_vars => ResultInv'
<1> SUFFICES ASSUME TypeOK, WaiterInv, ResultInv, [Next]_vars PROVE ResultInv'
  OBVIOUS
<1>0. /\ results \in Seq(Iters \X Statuses) /\ iter \in Iters /\ Len(results) \in Nat
      /\ proc \in [Iters -> {"none", "running", "exited"}] /\ rpc \in RunnerPC
      /\ \A k \in 1..Len(results) : results[k][1] \in Iters
  BY DEF TypeOK
<1> USE HandlerAssumption DEF ResultInv, Reported, InIteration, Iters, Closed
<1>1. CASE NewIteration
  BY <1>1 DEF NewIteration
<1>2. CASE StartProcess
  BY <1>0, <1>2 DEF StartProcess
<1>3. CASE StartFails
  BY <1>0, <1>3 DEF StartFails, LoopNext
<1>4. CASE IterationDone \/ ContextDone
  BY <1>4 DEF IterationDone, ContextDone
<1>5. ASSUME NEW failed \in BOOLEAN, LogResults(failed) PROVE ResultInv'
  <2>1. PICK st \in Statuses : results' = Append(results, <<iter, st>>)
    BY <1>5 DEF LogResults, Statuses
  <2>2. /\ Len(results') = Len(results) + 1
        /\ \A k \in 1..Len(results) : results'[k] = results[k]
        /\ results'[Len(results) + 1][1] = iter
    BY <1>0, <2>1
  <2>3. \A k \in 1..Len(results') : k \in 1..Len(results) \/ k = Len(results) + 1
    BY <1>0, <2>2
  <2>4. \A k \in 1..Len(results) : results[k][1] < iter
    BY <1>0, <1>5 DEF LogResults
  <2>5. \/ iter' = iter /\ rpc' = "close"
        \/ iter' = iter + 1 /\ rpc' = "top"
    BY <1>5, Zenon DEF LogResults, LoopNext
  <2>6. proc' = proc /\ rpc \in InIteration
    BY <1>5, Zenon DEF LogResults
  <2>7. ASSUME NEW k \in 1..Len(results')
        PROVE  \/ results'[k][1] < iter'
               \/ results'[k][1] = iter' /\ rpc' \in Closed
    <3>1. CASE k \in 1..Len(results)
      <4>1. results'[k][1] \in Iters /\ results'[k][1] < iter
        BY <1>0, <2>2, <2>4, <3>1
      <4> QED
        BY <1>0, <2>5, <4>1
    <3>2. CASE k = Len(results) + 1
      <4>1. results'[k][1] = iter
        BY <2>2, <3>2
      <4> QED
        BY <1>0, <2>5, <4>1
    <3> QED
      BY <2>3, <3>1, <3>2
  <2>8. ASSUME NEW k \in 1..Len(results'), NEW m \in 1..Len(results'), k < m
        PROVE  results'[k][1] < results'[m][1]
    <3>1. k \in 1..Len(results)
      BY <1>0, <2>2, <2>8
    <3>2. CASE m \in 1..Len(results)
      BY <2>2, <2>8, <3>1, <3>2
    <3>3. CASE m = Len(results) + 1
      BY <2>2, <2>4, <3>1, <3>3
    <3> QED
      BY <2>3, <3>2, <3>3
  <2>9. \A i \in Iters : Reported(i)' <=> Reported(i) \/ i = iter
    <3>1. Len(results) + 1 \in 1..Len(results')
      BY <1>0, <2>2
    <3>2. \A k \in 1..Len(results) : k \in 1..Len(results')
      BY <1>0, <2>2
    <3> QED
      BY <2>2, <2>3, <3>1, <3>2
  <2> QED
    BY <1>0, <2>5, <2>6, <2>7, <2>8, <2>9
<1>6. ASSUME NEW i \in Iters, Expire(i) \/ WaitReturns(i) PROVE ResultInv'
  BY <1>6 DEF Expire, WaitReturns
<1>7. ASSUME NEW i \in Iters, ProcessExits(i) PROVE ResultInv'
  BY <1>0, <1>7 DEF ProcessExits
<1>8. ASSUME NEW a \in Actors, CancelCtx(a) PROVE ResultInv'
  BY <1>8 DEF CancelCtx, CancelCheck, CancelCall, CancelClear, CancelEnds
<1>9. CASE StopTest \/ WaitGroup
  BY <1>9 DEF StopTest, WaitGroup
<1>10. CASE DoneReceived \/ RunTestReturns
  BY <1>10 DEF DoneReceived, RunTestReturns
<1>11. CASE Finished \/ UNCHANGED vars
  BY <1>11 DEF Finished, vars
<1> QED
  BY <1>1, <1>2, <1>3, <1>4, <1>5, <1>6, <1>7, <1>8, <1>9, <1>10, <1>11
     DEF Next, RunTest

(* The results match the runs throughout.                                  *)
LEMMA ResultInvariant == Spec => []ResultInv
<1>1. Init => ResultInv
  BY HandlerAssumption DEF Init, ResultInv, Reported, InIteration, Closed
<1> QED
  BY <1>1, ResultStep, WaiterInvariant, TypeCorrect, PTL DEF Spec

(* For any number of iterations: when the run ends, every iteration that   *)
(* started has exactly one result and the results are in order.            *)
THEOREM EveryRunReported == Spec => []ResultsMatchRuns
<1>1. TypeOK /\ ResultInv => ResultsMatchRuns
  <2> SUFFICES ASSUME TypeOK, ResultInv, rpc \in Closed
               PROVE  {results[k][1] : k \in 1..Len(results)}
                         = {i \in Iters : proc[i] # "none"}
    BY DEF ResultsMatchRuns, ResultInv
  <2>1. \A k \in 1..Len(results) : results[k][1] \in Iters
    BY DEF TypeOK
  <2>2. \A i \in Iters : proc[i] # "none" <=> Reported(i)
    BY DEF ResultInv, InIteration, Closed
  <2> QED
    BY <2>1, <2>2 DEF Reported
<1> QED
  BY <1>1, ResultInvariant, TypeCorrect, PTL

-----------------------------------------------------------------------------
(* The waiters are finitely many, and one more or one less after a waiter  *)
(* begins or ends.                                                         *)
LEMMA WaitersCount ==
    ASSUME TypeOK
    PROVE  /\ IsFiniteSet(Waiters) /\ Cardinality(Waiters) \in Nat
           /\ \A i \in Iters \ Waiters : Cardinality(Waiters \cup {i}) = Cardinality(Waiters) + 1
           /\ \A i \in Waiters : Cardinality(Waiters \ {i}) = Cardinality(Waiters) - 1
<1>1. IsFiniteSet(Iters)
  BY HandlerAssumption, FS_Interval DEF Iters
<1>2. IsFiniteSet(Waiters)
  BY <1>1, FS_Subset DEF Waiters
<1> QED
  BY <1>2, FS_CardinalityType, FS_AddElement, FS_RemoveElement

(* Every step keeps the count.                                             *)
LEMMA CountStep == TypeOK /\ WaiterInv /\ CountInv /\ [Next]_vars => CountInv'
<1> SUFFICES ASSUME TypeOK, WaiterInv, CountInv, [Next]_vars PROVE CountInv'
  OBVIOUS
<1>0. /\ pc \in [Actors -> WaiterPC \cup OwnerPC] /\ iter \in Iters /\ Owner \notin Iters
      /\ wg \in Int /\ Cardinality(Waiters) \in Nat /\ Owner \in Actors
      /\ \A i \in Iters : i \in Actors
  BY HandlerAssumption, WaitersCount DEF TypeOK, Iters, Owner, Actors
<1>1. ASSUME Waiters' = Waiters, UNCHANGED wg, rpc' = "done" <=> rpc = "done"
      PROVE  CountInv'
  BY <1>1 DEF CountInv
<1>2. ASSUME NEW a \in Actors, NEW to, pc' = [pc EXCEPT ![a] = to],
             a = Owner \/ (pc[a] \notin {"none", "done"} /\ to \notin {"none", "done"})
      PROVE  Waiters' = Waiters
  BY <1>0, <1>2 DEF Waiters
<1>3. CASE StartProcess
  <2>1. /\ pc' = [pc EXCEPT ![iter] = "wait"] /\ wg' = wg + 1
        /\ rpc = "start" /\ rpc' = "select"
    BY <1>3 DEF StartProcess
  <2>2. pc[iter] = "none"
    BY <1>0, <2>1 DEF WaiterInv
  <2>3. iter \in Iters \ Waiters /\ Waiters' = Waiters \cup {iter}
    BY <1>0, <2>1, <2>2 DEF Waiters
  <2>4. Cardinality(Waiters') = Cardinality(Waiters) + 1
    BY <2>3, WaitersCount
  <2> QED
    BY <1>0, <2>1, <2>4 DEF CountInv
<1>4. CASE NewIteration \/ StartFails \/ ContextDone
  <2>1. UNCHANGED <<pc, wg>> /\ rpc # "done" /\ rpc' # "done"
    BY <1>4 DEF NewIteration, StartFails, ContextDone, LoopNext
  <2> QED
    BY <1>1, <2>1 DEF Waiters
<1>5. ASSUME NEW failed \in BOOLEAN, LogResults(failed) PROVE CountInv'
  <2>1. UNCHANGED <<pc, wg>> /\ rpc # "done" /\ rpc' # "done"
    BY <1>5 DEF LogResults, LoopNext
  <2> QED
    BY <1>1, <2>1 DEF Waiters
<1>6. CASE IterationDone
  <2>1. /\ pc' = [pc EXCEPT ![iter] = "check"] /\ pc[iter] = "send" /\ wg' = wg
        /\ rpc # "done" /\ rpc' # "done"
    BY <1>6 DEF IterationDone
  <2> QED
    BY <1>0, <1>1, <1>2, <2>1
<1>7. ASSUME NEW i \in Iters, Expire(i) \/ ProcessExits(i) PROVE CountInv'
  <2>1. UNCHANGED <<pc, wg, rpc>>
    BY <1>7 DEF Expire, ProcessExits
  <2> QED
    BY <1>1, <2>1 DEF Waiters
<1>8. ASSUME NEW i \in Iters, WaitReturns(i) PROVE CountInv'
  <2>1. UNCHANGED <<wg, rpc>> /\ pc' = [pc EXCEPT ![i] = "send"] /\ pc[i] = "wait"
    BY <1>8 DEF WaitReturns
  <2> QED
    BY <1>0, <1>1, <1>2, <2>1
<1>9. ASSUME NEW a \in Actors, CancelEnds(a), pc[a] \in {"check", "clear"}, rpc' = rpc
      PROVE  CountInv'
  <2>1. CASE a = Owner
    BY <1>1, <1>2, <1>9, <2>1 DEF CancelEnds
  <2>2. CASE a # Owner
    <3>1. a \in Iters /\ pc' = [pc EXCEPT ![a] = "done"] /\ wg' = wg - 1
      BY <1>9, <2>2 DEF CancelEnds, Actors
    <3>2. a \in Waiters /\ Waiters' = Waiters \ {a}
      BY <1>0, <1>9, <3>1 DEF Waiters
    <3>3. Cardinality(Waiters') = Cardinality(Waiters) - 1
      BY <3>2, WaitersCount
    <3> QED
      BY <1>0, <1>9, <3>1, <3>3 DEF CountInv
  <2> QED
    BY <2>1, <2>2
<1>10. ASSUME NEW a \in Actors, CancelCtx(a) PROVE CountInv'
  <2>1. CASE CancelEnds(a) /\ (CancelCheck(a) \/ CancelClear(a))
    BY <1>9, <2>1 DEF CancelCheck, CancelClear
  <2>2. CASE CancelCheck(a) /\ pc' = [pc EXCEPT ![a] = "call"] /\ UNCHANGED wg
    BY <1>1, <1>2, <2>2 DEF CancelCheck
  <2>3. CASE CancelCall(a)
    <3>1. UNCHANGED <<wg, rpc>> /\ pc[a] = "call"
      BY <2>3 DEF CancelCall
    <3>2. pc' = pc \/ pc' = [pc EXCEPT ![a] = "clear"]
      BY <2>3 DEF CancelCall
    <3>3. Waiters' = Waiters
      BY <1>2, <3>1, <3>2 DEF Waiters
    <3> QED
      BY <1>1, <3>1, <3>3
  <2> QED
    BY <1>10, <2>1, <2>2, <2>3 DEF CancelCtx, CancelCheck, CancelClear
<1>11. CASE StopTest
  <2>1. UNCHANGED <<wg, rpc>> /\ (pc' = pc \/ pc' = [pc EXCEPT ![Owner] = "check"])
    BY <1>11 DEF StopTest
  <2>2. Waiters' = Waiters
    BY <1>0, <1>2, <2>1 DEF Waiters
  <2> QED
    BY <1>1, <2>1, <2>2
<1>12. CASE DoneReceived \/ WaitGroup
  <2>1. /\ UNCHANGED wg /\ (rpc' = rpc \/ (rpc = "close" /\ rpc' = "sent"))
        /\ \E to : pc' = [pc EXCEPT ![Owner] = to]
    BY <1>12 DEF DoneReceived, WaitGroup
  <2>2. Waiters' = Waiters
    BY <1>0, <1>2, <2>1
  <2> QED
    BY <1>1, <2>1, <2>2
<1>13. CASE RunTestReturns
  <2>1. UNCHANGED pc /\ rpc = "sent" /\ rpc' = "done" /\ wg' = wg - 1
    BY <1>13 DEF RunTestReturns
  <2>2. Waiters' = Waiters
    BY <2>1 DEF Waiters
  <2> QED
    BY <1>0, <2>1, <2>2 DEF CountInv
<1>14. CASE Finished \/ UNCHANGED vars
  BY <1>1, <1>14 DEF Finished, vars, Waiters
<1> QED
  BY <1>3, <1>4, <1>5, <1>6, <1>7, <1>8, <1>10, <1>11, <1>12, <1>13, <1>14
     DEF Next, RunTest

(* When the counter is zero, no goroutine is left.                         *)
LEMMA ZeroIsNobody ==
    ASSUME TypeOK, CountInv, wg = 0
    PROVE  rpc = "done" /\ \A i \in Iters : pc[i] \in {"none", "done"}
<1>1. rpc = "done" /\ Cardinality(Waiters) = 0
  BY WaitersCount DEF CountInv
<1>2. Waiters = {}
  BY <1>1, WaitersCount, FS_EmptySet
<1> QED
  BY <1>1, <1>2 DEF Waiters

(* StopTest, wg: for any number of iterations, the counter is raised for   *)
(* every goroutine of the run, so that none is left when StopTest returns. *)
THEOREM StopTestLeavesNothing == Spec => []StopTestQuiesces
<1>1. Init => StopInv /\ CountInv
  <2> SUFFICES ASSUME Init PROVE StopInv /\ CountInv
    OBVIOUS
  <2>1. Waiters = {}
    <3>1. \A i \in Iters : i \in Actors /\ i # Owner
      BY HandlerAssumption DEF Actors, Owner, Iters
    <3>2. \A i \in Iters : pc[i] = "none"
      BY <3>1 DEF Init
    <3> QED
      BY <3>2 DEF Waiters
  <2>2. CountInv
    BY <2>1, FS_EmptySet DEF Init, CountInv
  <2> QED
    BY <2>2, HandlerAssumption DEF Init, StopInv, StopTestQuiesces, Actors, Owner, OwnerPC
<1>2. TypeOK /\ CountInv /\ StopInv /\ [Next]_vars => StopInv'
  <2> SUFFICES ASSUME TypeOK, CountInv, StopInv, [Next]_vars PROVE StopInv'
    OBVIOUS
  <2>0. pc \in [Actors -> WaiterPC \cup OwnerPC] /\ iter \in Iters /\ Owner \notin Iters
    BY HandlerAssumption DEF TypeOK, Iters, Owner
  <2> USE DEF StopInv, StopTestQuiesces, Actors, OwnerPC
  <2>1. CASE RunTest
    BY <2>0, <2>1 DEF RunTest, NewIteration, StartProcess, StartFails, IterationDone,
                      ContextDone, LogResults, RunTestReturns
  <2>2. ASSUME NEW i \in Iters, Expire(i) \/ ProcessExits(i) \/ WaitReturns(i)
        PROVE  StopInv'
    BY <2>0, <2>2 DEF Expire, ProcessExits, WaitReturns
  <2>3. ASSUME NEW a \in Actors, CancelCtx(a) PROVE StopInv'
    BY <2>0, <2>3 DEF CancelCtx, CancelCheck, CancelCall, CancelClear, CancelEnds
  <2>4. CASE StopTest
    BY <2>0, <2>4 DEF StopTest
  <2>5. CASE DoneReceived
    BY <2>0, <2>5 DEF DoneReceived
  <2>6. CASE WaitGroup
    BY <2>0, <2>6, ZeroIsNobody DEF WaitGroup
  <2>7. CASE Finished \/ UNCHANGED vars
    BY <2>7 DEF Finished, vars
  <2> QED
    BY <2>1, <2>2, <2>3, <2>4, <2>5, <2>6, <2>7 DEF Next
<1> QED
  BY <1>1, <1>2, CountStep, WaiterInvariant, TypeCorrect, PTL DEF Spec, StopInv

-----------------------------------------------------------------------------
(* The owner goes on only after runTest has sent on doneChan.              *)
AnswerInv == pc[Owner] \in {"wg", "returned"} => rpc \in {"sent", "done"}

(* Every step keeps that.                                                  *)
LEMMA AnswerStep == TypeOK /\ AnswerInv /\ [Next]_vars => AnswerInv'
<1> SUFFICES ASSUME TypeOK, AnswerInv, [Next]_vars PROVE AnswerInv'
  OBVIOUS
<1>0. pc \in [Actors -> WaiterPC \cup OwnerPC] /\ iter \in Iters /\ Owner \notin Iters
  BY HandlerAssumption DEF TypeOK, Iters, Owner
<1> USE DEF AnswerInv, Actors
<1>1. CASE RunTest
  BY <1>0, <1>1 DEF RunTest, NewIteration, StartProcess, StartFails, IterationDone,
                    ContextDone, LogResults, RunTestReturns
<1>2. ASSUME NEW i \in Iters, Expire(i) \/ ProcessExits(i) \/ WaitReturns(i)
      PROVE  AnswerInv'
  BY <1>0, <1>2 DEF Expire, ProcessExits, WaitReturns
<1>3. ASSUME NEW a \in Actors, CancelCtx(a) PROVE AnswerInv'
  BY <1>0, <1>3 DEF CancelCtx, CancelCheck, CancelCall, CancelClear, CancelEnds
<1>4. CASE StopTest \/ DoneReceived \/ WaitGroup \/ Finished \/ UNCHANGED vars
  BY <1>0, <1>4 DEF StopTest, DoneReceived, WaitGroup, Finished, vars
<1> QED
  BY <1>1, <1>2, <1>3, <1>4 DEF Next

(* What is due, in terms of the run: between two iterations and at the end *)
(* nothing, within one the result of the process that was started.         *)
LEMMA DueIs ==
    ASSUME TypeOK, WaiterInv, ResultInv
    PROVE  /\ rpc \notin InIteration => Job!Due = {}
           /\ rpc \in InIteration => Job!Due = {iter}
<1>1. \A i : i \in Job!Due <=> i \in Iters /\ proc[i] # "none" /\ ~Reported(i)
  BY DEF Job!Due, Launched, Reported
<1>2. ASSUME rpc \in InIteration PROVE ~Reported(iter) /\ proc[iter] # "none" /\ iter \in Iters
  <2>1. \A k \in 1..Len(results) : results[k][1] # iter
    BY <1>2, HandlerAssumption DEF ResultInv, InIteration, Closed, TypeOK, Iters
  <2> QED
    BY <1>2, <2>1 DEF ResultInv, Reported, TypeOK
<1> QED
  BY <1>1, <1>2 DEF ResultInv

(* A step of the run is a step its promise allows, or invisible.           *)
LEMMA PromiseStep ==
    TypeOK /\ WaiterInv /\ ResultInv /\ AnswerInv /\ [Next]_vars
        => [Job!JobNext]_(Job!jobVars)
<1> SUFFICES ASSUME TypeOK, WaiterInv, ResultInv, AnswerInv, [Next]_vars
             PROVE  Job!JobNext \/ UNCHANGED <<Launched, Processes, results, Returned>>
  BY DEF Job!jobVars
<1>0. /\ pc \in [Actors -> WaiterPC \cup OwnerPC] /\ iter \in Iters /\ Owner \notin Iters
      /\ proc \in [Iters -> {"none", "running", "exited"}] /\ Owner \in Actors
      /\ Returned \in BOOLEAN
  BY HandlerAssumption DEF TypeOK, Iters, Owner, Actors, Returned
<1>1. Returned => rpc \in {"sent", "done"}
  BY DEF AnswerInv, Returned
<1>2. rpc \notin {"select", "timedout"} => Processes = {}
  BY DEF WaiterInv, Processes
<1>3. ASSUME UNCHANGED <<proc, results>>, pc'[Owner] = "returned" <=> pc[Owner] = "returned"
      PROVE  UNCHANGED <<Launched, Processes, results, Returned>>
  BY <1>3 DEF Launched, Processes, Returned
<1>4. CASE StartProcess
  <2>1. /\ proc' = [proc EXCEPT ![iter] = "running"] /\ rpc = "start"
        /\ pc' = [pc EXCEPT ![iter] = "wait"] /\ results' = results
    BY <1>4 DEF StartProcess
  <2>2. /\ ~Returned /\ Processes = {} /\ Job!Due = {}
    BY <1>1, <1>2, <2>1, DueIs DEF InIteration
  <2>3. proc[iter] = "none" /\ \A j \in Launched : j < iter
    BY <1>0, <2>1 DEF WaiterInv, Launched, Iters
  <2>4. Launched' = Launched \cup {iter}
    BY <1>0, <2>1 DEF Launched
  <2>5. Processes' = {iter}
    BY <1>0, <2>1, <2>2 DEF Processes
  <2>6. Returned' = Returned
    BY <1>0, <2>1 DEF Returned
  <2>7. Job!Launch(iter)
    BY <2>1, <2>2, <2>3, <2>4, <2>5, <2>6 DEF Job!Launch
  <2> QED
    BY <1>0, <2>7 DEF Job!JobNext
<1>5. ASSUME NEW i \in Iters, ProcessExits(i)
      PROVE  Job!JobNext
  <2>1. /\ proc[i] = "running" /\ proc' = [proc EXCEPT ![i] = "exited"]
        /\ UNCHANGED <<pc, results>>
    BY <1>5 DEF ProcessExits
  <2>2. i \in Processes /\ Processes' = Processes \ {i} /\ Launched' = Launched
    BY <1>0, <2>1 DEF Processes, Launched
  <2>3. Job!End(i)
    BY <2>1, <2>2 DEF Job!End, Returned
  <2> QED
    BY <2>3 DEF Job!JobNext
<1>6. ASSUME NEW failed \in BOOLEAN, LogResults(failed)
      PROVE  Job!JobNext
  <2>1. /\ rpc \in {"logCompleted", "logTimedOut"} /\ UNCHANGED <<proc, pc>>
        /\ \E st \in {"completed", "timed_out"} : results' = Append(results, <<iter, st>>)
    BY <1>6 DEF LogResults
  <2>2. /\ ~Returned /\ Processes = {} /\ Job!Due = {iter}
    BY <1>1, <1>2, <2>1, DueIs DEF InIteration
  <2>3. Job!Report(iter)
    BY <2>1, <2>2 DEF Job!Report, Launched, Processes, Returned
  <2> QED
    BY <1>0, <2>3 DEF Job!JobNext
<1>7. CASE DoneReceived \/ WaitGroup
  <2>1. UNCHANGED <<proc, results>> /\ rpc \in Closed /\ pc[Owner] # "returned"
    BY <1>7 DEF DoneReceived, WaitGroup, AnswerInv, Closed
  <2>2. Processes = {} /\ Job!Due = {}
    BY <1>2, <2>1, DueIs DEF InIteration, Closed
  <2>3. CASE pc'[Owner] = "returned"
    <3>1. Job!Answer
      BY <2>1, <2>2, <2>3 DEF Job!Answer, Launched, Processes, Returned
    <3> QED
      BY <3>1 DEF Job!JobNext
  <2>4. CASE pc'[Owner] # "returned"
    BY <1>3, <2>1, <2>4
  <2> QED
    BY <2>3, <2>4
<1>8. CASE NewIteration \/ StartFails \/ IterationDone \/ ContextDone \/ RunTestReturns
  BY <1>0, <1>3, <1>8 DEF NewIteration, StartFails, IterationDone, ContextDone,
                          RunTestReturns, Actors
<1>9. ASSUME NEW i \in Iters, Expire(i) \/ WaitReturns(i)
      PROVE  UNCHANGED <<Launched, Processes, results, Returned>>
  BY <1>0, <1>3, <1>9 DEF Expire, WaitReturns, Actors
<1>10. ASSUME NEW a \in Actors, CancelCtx(a)
       PROVE  UNCHANGED <<Launched, Processes, results, Returned>>
  BY <1>0, <1>3, <1>10 DEF CancelCtx, CancelCheck, CancelCall, CancelClear, CancelEnds
<1>11. CASE StopTest
  BY <1>0, <1>3, <1>11 DEF StopTest
<1>12. CASE Finished \/ UNCHANGED vars
  BY <1>3, <1>12 DEF Finished, vars
<1> QED
  BY <1>4, <1>5, <1>6, <1>7, <1>8, <1>9, <1>10, <1>11, <1>12 DEF Next, RunTest

(* TestHandler implements TestJob, for any number of iterations: whatever  *)
(* times out, fails to start or is stopped, the owner sees one process at  *)
(* a time, each reported once, and is answered when nothing is left.       *)
THEOREM RunKeepsPromise == Spec => KeepsPromise
<1>1. Init => Job!JobInit /\ AnswerInv
  BY HandlerAssumption DEF Init, Job!JobInit, AnswerInv, Launched, Processes, Returned,
                           Actors, Owner, Iters
<1> QED
  BY <1>1, PromiseStep, AnswerStep, ResultInvariant, WaiterInvariant, TypeCorrect, PTL
     DEF Spec, KeepsPromise, Job!JobSpec

-----------------------------------------------------------------------------
(* Why the first timeout is real: before the first waiter has met runTest, *)
(* only the owner can be inside cancelCtx, and it has set stopTest.        *)
FirstOpen == iter = 1 /\ rpc \in {"top", "start", "select", "timedout"}
Cancelling == {"check", "call", "clear"}
FirstReal == 1 \in expired \/ stopTest

FirstInv ==
    /\ pc[Owner] \in Cancelling => stopTest
    /\ FirstOpen => pc[1] \notin Cancelling
    /\ FirstOpen /\ ctx[1] = "done" => FirstReal
    /\ iter = 1 /\ rpc \in {"timedout", "logTimedOut"} => FirstReal
    /\ FirstTimeoutIsReal

(* Every step keeps it.                                                    *)
LEMMA FirstStep == TypeOK /\ WaiterInv /\ FirstInv /\ [Next]_vars => FirstInv'
<1> SUFFICES ASSUME TypeOK, WaiterInv, FirstInv, [Next]_vars PROVE FirstInv'
  OBVIOUS
<1>0. /\ pc \in [Actors -> WaiterPC \cup OwnerPC] /\ iter \in Iters
      /\ ctx \in [Iters -> {"none", "live", "done"}] /\ cancelFunc \in Actors
      /\ Len(results) \in Nat /\ 1 \in Iters /\ Owner \notin Iters
      /\ \A i \in Iters : i \in Actors /\ i \in Nat /\ i >= 1
      /\ Owner \in Actors /\ 1 \in Actors /\ Owner # 1
  BY HandlerAssumption DEF TypeOK, Iters, Actors, Owner
<1> USE DEF FirstInv, FirstOpen, FirstReal, Cancelling, FirstTimeoutIsReal
<1>1. CASE NewIteration
  BY <1>0, <1>1 DEF NewIteration
<1>2. CASE StartProcess
  BY <1>0, <1>2 DEF StartProcess
<1>3. CASE StartFails
  BY <1>0, <1>3 DEF StartFails, LoopNext
<1>4. CASE IterationDone
  BY <1>0, <1>4 DEF IterationDone
<1>5. CASE ContextDone
  BY <1>0, <1>5 DEF ContextDone
<1>6. ASSUME NEW failed \in BOOLEAN, LogResults(failed) PROVE FirstInv'
  <2>1. /\ UNCHANGED <<pc, ctx, stopTest, expired>>
        /\ rpc' = "close" \/ (rpc' = "top" /\ iter' = iter + 1)
    BY <1>6 DEF LogResults, LoopNext
  <2>2. results' = Append(results,
                     <<iter, IF rpc = "logCompleted" THEN "completed" ELSE "timed_out">>)
        /\ rpc \in {"logCompleted", "logTimedOut"}
    BY <1>6 DEF LogResults
  <2>3. FirstTimeoutIsReal'
    <3> SUFFICES ASSUME NEW k \in 1..Len(results'), results'[k] = <<1, "timed_out">>
                 PROVE  FirstReal
      BY <2>1
    <3>1. /\ results \in Seq(Iters \X Statuses)
          /\ k \in 1..Len(results) \/ k = Len(results) + 1
      BY <1>0, <2>2 DEF TypeOK
    <3>2. CASE k \in 1..Len(results)
      <4>1. results'[k] = results[k]
        BY <2>2, <3>1, <3>2
      <4> QED
        BY <3>2, <4>1
    <3>3. CASE k = Len(results) + 1
      <4>1. results'[k] = <<iter, IF rpc = "logCompleted" THEN "completed" ELSE "timed_out">>
        BY <2>2, <3>1, <3>3
      <4>2. iter = 1 /\ rpc = "logTimedOut"
        BY <2>2, <4>1
      <4> QED
        BY <4>2
    <3> QED
      BY <3>1, <3>2, <3>3
  <2>4. ~FirstOpen' /\ rpc' \notin {"timedout", "logTimedOut"}
    BY <1>0, <2>1
  <2> QED
    BY <2>1, <2>3, <2>4
<1>7. ASSUME NEW i \in Iters, Expire(i) PROVE FirstInv'
  BY <1>0, <1>7 DEF Expire
<1>8. ASSUME NEW i \in Iters, ProcessExits(i) \/ WaitReturns(i) PROVE FirstInv'
  BY <1>0, <1>8 DEF ProcessExits, WaitReturns
<1>9. ASSUME NEW a \in Actors, CancelCheck(a) \/ CancelClear(a) PROVE FirstInv'
  <2>1. /\ UNCHANGED <<rpc, iter, ctx, stopTest, results, expired>>
        /\ pc[a] \in Cancelling
        /\ \E to : pc' = [pc EXCEPT ![a] = to]
    BY <1>9 DEF CancelCheck, CancelClear, CancelEnds
  <2> QED
    BY <1>0, <2>1
<1>10. ASSUME NEW a \in Actors, CancelCall(a) PROVE FirstInv'
  <2>1. UNCHANGED <<rpc, iter, stopTest, results, expired>> /\ pc[a] = "call"
    BY <1>10 DEF CancelCall
  <2>2. pc' = pc \/ pc' = [pc EXCEPT ![a] = "clear"]
    BY <1>10 DEF CancelCall
  <2>3. FirstOpen => FirstReal
    <3>1. CASE a = Owner
      BY <2>1, <3>1
    <3>2. CASE a # Owner /\ FirstOpen
      <4>1. a \in Iters
        BY <3>2 DEF Actors
      <4>2. a # 1 /\ a > iter
        BY <1>0, <2>1, <3>2, <4>1
      <4> QED
        BY <2>1, <4>1, <4>2 DEF WaiterInv
    <3> QED
      BY <3>1, <3>2
  <2> QED
    BY <1>0, <2>1, <2>2, <2>3
<1>11. CASE StopTest
  BY <1>0, <1>11 DEF StopTest
<1>12. CASE DoneReceived \/ RunTestReturns \/ WaitGroup
  BY <1>0, <1>12 DEF DoneReceived, RunTestReturns, WaitGroup
<1>13. CASE Finished \/ UNCHANGED vars
  BY <1>13 DEF Finished, vars
<1> QED
  BY <1>1, <1>2, <1>3, <1>4, <1>5, <1>6, <1>7, <1>8, <1>9, <1>10, <1>11, <1>12, <1>13
     DEF Next, RunTest, CancelCtx

(* runTest, `case <-ctx.Done()': for any number of iterations, the first   *)
(* one is reported as timed out only if it was or if StopTest was called.  *)
THEOREM FirstTimeoutReal == Spec => []FirstTimeoutIsReal
<1>1. Init => FirstInv
  BY HandlerAssumption DEF Init, FirstInv, FirstOpen, FirstReal, Cancelling,
                           FirstTimeoutIsReal, Actors, Owner, Iters
<1> QED
  BY <1>1, FirstStep, WaiterInvariant, TypeCorrect, PTL DEF Spec, FirstInv

(* So a test of a single iteration never reports a timeout of its own      *)
(* making.                                                                 *)
THEOREM SingleTimeoutReal ==
    ASSUME Iterations = 1
    PROVE  Spec => []TimeoutIsReal
<1>1. TypeOK /\ FirstTimeoutIsReal => TimeoutIsReal
  <2> SUFFICES ASSUME TypeOK, FirstTimeoutIsReal, NEW k \in 1..Len(results),
                      results[k][2] = "timed_out"
               PROVE  results[k][1] \in expired \/ stopTest
    BY DEF TimeoutIsReal
  <2>1. results[k] \in Iters \X Statuses
    BY DEF TypeOK
  <2>2. results[k] = <<1, "timed_out">> /\ results[k][1] = 1
    BY <2>1 DEF Iters
  <2> QED
    BY <2>2 DEF FirstTimeoutIsReal
<1> QED
  BY <1>1, FirstTimeoutReal, TypeCorrect, PTL

-----------------------------------------------------------------------------
(* Second part: TestRunner *)

(* The empty map, and a map with some entries set, are maps.               *)
LEMMA MapType ==
    /\ NoTests \in Maps
    /\ \A m \in Maps, S \in SUBSET GPUs, st \in Marks : Mark(m, S, st) \in Maps
BY DEF NoTests, Maps, Marks, Mark

(* The pieces of state that Die resets are type-correct afterwards.        *)
LEMMA DieType ==
    ASSUME Die
    PROVE  /\ phase' = "down" /\ wpc' = "idle" /\ healthy' = {} /\ wobj' \in Maps
           /\ tpc' \in [Slots -> TestPC] /\ ids' \in [Slots -> SUBSET GPUs]
           /\ rerun' \in [Slots -> BOOLEAN] /\ obj' \in [Slots -> Maps]
           /\ signalled' \in BOOLEAN
BY MapType DEF Die, TestPC

(* A goroutine's step changes its own entries only, within their types.    *)
LEMMA RunnerTypeStep == RunnerTypeOK /\ [RunnerNext]_runnerVars => RunnerTypeOK'
<1> SUFFICES ASSUME RunnerTypeOK, [RunnerNext]_runnerVars PROVE RunnerTypeOK'
  OBVIOUS
<1> USE RunnerAssumption DEF RunnerTypeOK, store, watcher, tests, world
<1>0. ASSUME NEW m \in Maps, SaveRunnerStatus(m) \/ SaveFails \/ Tear \/ UNCHANGED store
      PROVE  file' \in {"absent", "torn", "ok"} /\ db' \in Maps
  BY <1>0, MapType DEF SaveRunnerStatus, SaveFails, Tear
<1>1. CASE BootCreate
  <2>1. file' \in {"absent", "torn", "ok"} /\ db' \in Maps /\ UNCHANGED world
    BY <1>1, MapType DEF BootCreate, Tear
  <2>2. CASE Die
    BY <2>1, <2>2, DieType
  <2>3. CASE ~Die
    BY <1>1, <2>1, <2>3 DEF BootCreate
  <2> QED
    BY <2>2, <2>3
<1>2. CASE BootSave
  <2>1. file' \in {"absent", "torn", "ok"} /\ db' \in Maps /\ UNCHANGED world
    BY <1>0, <1>2, MapType DEF BootSave
  <2>2. CASE Die
    BY <2>1, <2>2, DieType
  <2>3. CASE ~Die
    BY <1>2, <2>1, <2>3 DEF BootSave
  <2> QED
    BY <2>2, <2>3
<1>3. CASE Transform
  <2>1. file' \in {"absent", "torn", "ok"} /\ db' \in Maps /\ UNCHANGED world
    <3>1. \A n \in Converted(db) : n \in Maps
      BY DEF Converted
    <3> QED
      BY <1>0, <1>3, <3>1, MapType DEF Transform
  <2>2. CASE Die
    BY <2>1, <2>2, DieType
  <2>3. CASE ~Die
    BY <1>3, <2>1, <2>3 DEF Transform
  <2> QED
    BY <2>2, <2>3
<1>4. ASSUME NEW t \in Slots, NEW S \in SUBSET GPUs, NEW r \in BOOLEAN, Spawn(t, S, r)
      PROVE  /\ tpc' \in [Slots -> TestPC] /\ ids' \in [Slots -> SUBSET GPUs]
             /\ rerun' \in [Slots -> BOOLEAN] /\ obj' \in [Slots -> Maps]
  BY <1>4 DEF Spawn, TestPC
<1>5. CASE Recover
  <2>1. Interrupted \in SUBSET GPUs
    BY DEF Interrupted
  <2>2. /\ tpc' \in [Slots -> TestPC] /\ ids' \in [Slots -> SUBSET GPUs]
        /\ rerun' \in [Slots -> BOOLEAN] /\ obj' \in [Slots -> Maps]
    BY <1>4, <1>5, <2>1 DEF Recover
  <2> QED
    BY <1>5, <2>2 DEF Recover
<1>6. CASE Tick
  <2>1. /\ tpc' \in [Slots -> TestPC] /\ ids' \in [Slots -> SUBSET GPUs]
        /\ rerun' \in [Slots -> BOOLEAN] /\ obj' \in [Slots -> Maps]
    <3> DEFINE bad == {g \in GPUs : health[g] = "unhealthy"}
    <3>1. bad \in SUBSET GPUs
      OBVIOUS
    <3>2. CASE bad # {}
      <4>1. PICK t \in Slots : Spawn(t, bad, FALSE)
        BY <1>6, <3>2 DEF Tick
      <4> QED
        BY <1>4, <3>1, <4>1
    <3>3. CASE bad = {}
      BY <1>6, <3>3 DEF Tick
    <3> QED
      BY <3>2, <3>3
  <2>2. /\ healthy' \subseteq GPUs /\ wpc' = "cleanup"
        /\ UNCHANGED <<store, phase, wobj, signalled, world>>
    BY <1>6 DEF Tick
  <2> QED
    BY <2>1, <2>2
<1>7. CASE CleanupLoad
  <2> DEFINE done == {g \in healthy : db[g] = "completed"}
  <2>1. wobj' \in Maps /\ wpc' \in {"idle", "cleanup", "cleanupSave"}
    <3>1. Mark(db, done, "none") \in Maps
      BY MapType DEF Marks
    <3> QED
      BY <1>7, <3>1 DEF CleanupLoad, LoadRunnerStatus
  <2> QED
    BY <1>7, <2>1 DEF CleanupLoad
<1>8. CASE CleanupSave
  <2>1. file' \in {"absent", "torn", "ok"} /\ db' \in Maps
    BY <1>0, <1>8 DEF CleanupSave
  <2> QED
    BY <1>8, <2>1, MapType DEF CleanupSave
<1>9. ASSUME NEW t \in Slots, testGPU(t) PROVE RunnerTypeOK'
  <2>1. ASSUME Free(t)
        PROVE  /\ tpc' \in [Slots -> TestPC] /\ ids' \in [Slots -> SUBSET GPUs]
               /\ rerun' \in [Slots -> BOOLEAN] /\ obj' \in [Slots -> Maps]
    BY <2>1, MapType DEF Free, TestPC
  <2>2. CASE TestLoad(t)
    <3>1. ValidIDs(t) \in SUBSET GPUs
      BY DEF ValidIDs
    <3>2. /\ tpc' \in [Slots -> TestPC] /\ ids' \in [Slots -> SUBSET GPUs]
          /\ rerun' \in [Slots -> BOOLEAN] /\ obj' \in [Slots -> Maps]
      BY <2>1, <2>2, <3>1 DEF TestLoad, TestPC, LoadRunnerStatus
    <3> QED
      BY <2>2, <3>2 DEF TestLoad
  <2>3. CASE TestStart(t)
    <3>1. Mark(obj[t], ids[t], "running") \in Maps
      BY MapType DEF Marks
    <3> QED
      BY <2>3, <3>1 DEF TestStart, Step, TestPC, SavePC
  <2>4. CASE TestSave(t) \/ SignalSave(t)
    <3>1. file' \in {"absent", "torn", "ok"} /\ db' \in Maps
      BY <1>0, <2>4 DEF TestSave, SignalSave
    <3>2. tpc' \in [Slots -> TestPC] /\ obj' \in [Slots -> Maps]
      BY <2>4, MapType DEF TestSave, SignalSave, Step, TestPC
    <3> QED
      BY <2>4, <3>1, <3>2 DEF TestSave, SignalSave
  <2>5. CASE TestDone(t) \/ TestSignal(t) \/ TestStartFails(t)
    <3>1. tpc' \in [Slots -> TestPC] /\ tested' \subseteq GPUs
      BY <2>5 DEF TestDone, TestSignal, TestStartFails, Step, TestPC
    <3> QED
      BY <2>5, <3>1 DEF TestDone, TestSignal, TestStartFails
  <2>6. ASSUME NEW from, NEW to \in TestPC, NEW st \in Marks, UpdateLoad(t, from, to, st)
        PROVE  RunnerTypeOK'
    <3>1. Mark(db, ids[t], st) \in Maps
      BY MapType
    <3>2. tpc' \in [Slots -> TestPC] /\ obj' \in [Slots -> Maps]
      BY <2>6, <3>1 DEF UpdateLoad, LoadRunnerStatus, TestPC
    <3> QED
      BY <2>6, <3>2 DEF UpdateLoad
  <2>7. CASE TestUpdate(t) \/ SignalUpdate(t)
    BY <2>6, <2>7 DEF TestUpdate, SignalUpdate, TestPC, SavePC, Marks
  <2>8. CASE TestFinish(t)
    <3>1. file' \in {"absent", "torn", "ok"} /\ db' \in Maps
      BY <1>0, <2>8 DEF TestFinish
    <3>2. /\ tpc' \in [Slots -> TestPC] /\ ids' \in [Slots -> SUBSET GPUs]
          /\ rerun' \in [Slots -> BOOLEAN] /\ obj' \in [Slots -> Maps]
      BY <2>1, <2>8 DEF TestFinish, Step, TestPC
    <3> QED
      BY <2>8, <3>1, <3>2 DEF TestFinish
  <2>9. CASE Exit(t)
    <3>1. file' \in {"absent", "torn", "ok"} /\ db' \in Maps
      BY <1>0, <2>9 DEF Exit
    <3> QED
      BY <2>9, <3>1, DieType DEF Exit
  <2> QED
    BY <1>9, <2>2, <2>3, <2>4, <2>5, <2>7, <2>8, <2>9 DEF testGPU
<1>10. ASSUME NEW g \in GPUs, NEW h \in Healths, SetHealth(g, h) PROVE RunnerTypeOK'
  BY <1>10 DEF SetHealth
<1>11. CASE Sigterm \/ Restart \/ DiskChanges
  BY <1>11 DEF Sigterm, Restart, DiskChanges
<1>12. CASE Crash
  <2>1. file' \in {"absent", "torn", "ok"} /\ db' \in Maps /\ crashes' \in 0..MaxCrashes
    BY <1>0, <1>12 DEF Crash
  <2> QED
    BY <1>12, <2>1, DieType DEF Crash
<1>13. CASE UNCHANGED runnerVars
  BY <1>13 DEF runnerVars
<1> QED
  BY <1>1, <1>2, <1>3, <1>5, <1>6, <1>7, <1>8, <1>9, <1>10, <1>11, <1>12, <1>13
     DEF RunnerNext, Boot, Watch

(* TestRunner is type-correct, for any GPUs, goroutines and crashes.       *)
THEOREM RunnerTypeCorrect == RunnerSpec => []RunnerTypeOK
<1>1. RunnerInit => RunnerTypeOK
  <2> SUFFICES ASSUME RunnerInit PROVE RunnerTypeOK
    OBVIOUS
  <2>1. health \in [GPUs -> Healths] /\ healthy \subseteq GPUs
    BY DEF RunnerInit, Healths
  <2>2. /\ tpc \in [Slots -> TestPC] /\ ids \in [Slots -> SUBSET GPUs]
        /\ rerun \in [Slots -> BOOLEAN] /\ obj \in [Slots -> Maps]
    BY MapType DEF RunnerInit, TestPC
  <2>3. crashes \in 0..MaxCrashes
    BY RunnerAssumption DEF RunnerInit
  <2>4. db \in Maps /\ wobj \in Maps /\ tested \subseteq GPUs /\ disk \in Disks
    BY MapType, RunnerAssumption DEF RunnerInit
  <2> QED
    BY <2>1, <2>2, <2>3, <2>4 DEF RunnerInit, RunnerTypeOK
<1> QED
  BY <1>1, RunnerTypeStep, PTL DEF RunnerSpec

-----------------------------------------------------------------------------
(* What a step may do to the DB file, by the phase it starts in.  Before   *)
(* `recover' only the boot sequence writes it; later every save does.  A   *)
(* file is torn by a save that fails, or that the end of the process cuts  *)
(* short.                                                                  *)
FileStep ==
    \/ phase = "boot" /\ file = "absent" /\ phase' = "bootSave" /\ file' = "torn"
    \/ phase = "boot" /\ file # "absent" /\ phase' = "transform" /\ file' = file
    \/ phase = "bootSave" /\ phase' = "transform" /\ file' = "ok"
    \/ phase = "transform" /\ file = "ok" /\ phase' = "recover" /\ file' = "ok"
    \/ phase = "recover" /\ phase' = "watch" /\ file' = file
    \/ phase = "watch" /\ phase' = "watch" /\ (file' \in {file, "ok"} \/ disk = "bad")
    \/ phase = "down" /\ phase' = "boot" /\ file' = file
    \/ phase # "down" /\ phase' = "down" /\ (file' = file \/ (file' = "torn" /\ Saving))
    \/ phase' = phase /\ file' = file

(* Every step is one of these.                                             *)
LEMMA FileSteps == ASSUME [RunnerNext]_runnerVars PROVE FileStep
<1> USE DEF FileStep, Up, store, SaveRunnerStatus, SaveFails, Tear
<1>1. CASE BootCreate
  BY <1>1, Zenon DEF BootCreate, Die
<1>2. CASE BootSave
  BY <1>2, Zenon DEF BootSave, Die, Saving
<1>3. CASE Transform
  <2>1. CASE Die
    BY <1>3, <2>1, Zenon DEF Transform, Die, Saving
  <2>2. CASE ~Die
    BY <1>3, <2>2, Zenon DEF Transform
  <2> QED
    BY <2>1, <2>2
<1>4. CASE Recover
  BY <1>4, Zenon DEF Recover
<1>5. CASE Restart
  BY <1>5, Zenon DEF Restart
<1>6. CASE Watch
  BY <1>6 DEF Watch, Tick, CleanupLoad, CleanupSave
<1>7. ASSUME NEW t \in Slots, testGPU(t) PROVE FileStep
  <2>1. CASE TestLoad(t) \/ TestStart(t) \/ TestStartFails(t) \/ TestDone(t) \/ TestSignal(t)
    BY <2>1, Zenon DEF TestLoad, TestStart, TestStartFails, TestDone, TestSignal
  <2>2. CASE TestSave(t) \/ TestFinish(t) \/ SignalSave(t)
    BY <2>2 DEF TestSave, TestFinish, SignalSave
  <2>3. CASE TestUpdate(t) \/ SignalUpdate(t)
    BY <2>3 DEF TestUpdate, SignalUpdate, UpdateLoad
  <2>4. CASE Exit(t)
    <3>1. SavingBut(t) => Saving
      BY Zenon DEF SavingBut, Saving
    <3> QED
      BY <2>4, <3>1 DEF Exit, Die
  <2> QED
    BY <1>7, <2>1, <2>2, <2>3, <2>4 DEF testGPU
<1>8. CASE \E g \in GPUs, h \in Healths : SetHealth(g, h)
  BY <1>8, Zenon DEF SetHealth
<1>9. CASE Sigterm \/ DiskChanges
  BY <1>9, Zenon DEF Sigterm, DiskChanges
<1>10. CASE Crash
  BY <1>10 DEF Crash, Die
<1>11. CASE UNCHANGED runnerVars
  BY <1>11, Zenon DEF runnerVars
<1> QED
  BY <1>1, <1>2, <1>3, <1>4, <1>5, <1>6, <1>7, <1>8, <1>9, <1>10, <1>11
     DEF RunnerNext, Boot

(* transformRunnerStatus, TriggerTest: for any number of GPUs, goroutines  *)
(* and crashes, nobody past boot meets an unreadable DB, if saves do not   *)
(* fail.                                                                   *)
THEOREM ReadableOnceUp == RunnerSpec => ReadableWhileDiskGood
<1>1. RunnerInit => DBReadableWhileUp
  BY DEF RunnerInit, DBReadableWhileUp
<1>2. DBReadableWhileUp /\ disk = "good" /\ [RunnerNext]_runnerVars => DBReadableWhileUp'
  BY FileSteps DEF FileStep, DBReadableWhileUp
<1> QED
  BY <1>1, <1>2, PTL DEF RunnerSpec, ReadableWhileDiskGood

(* If no save fails or is cut short, the DB is unreadable only between its *)
(* creation and the first save, and missing only before the first.         *)
BootInv ==
    \/ file = "ok"
    \/ phase = "bootSave"
    \/ phase \in {"boot", "down"} /\ file = "absent"

(* initCfg: a runner whose saves neither fail nor are cut short reads its  *)
(* DB at every boot, after any number of crashes, signals and panics.      *)
THEOREM ReadableWithoutCut == RunnerSpec => ReadableUnlessCut
<1>1. RunnerInit => BootInv
  BY DEF RunnerInit, BootInv
<1>2. /\ BootInv /\ disk = "good" /\ [RunnerNext]_runnerVars
      /\ [phase' = "down" /\ phase # "down" => ~Saving]_runnerVars
      => BootInv'
  <2> SUFFICES ASSUME BootInv, disk = "good", [RunnerNext]_runnerVars,
                      [phase' = "down" /\ phase # "down" => ~Saving]_runnerVars
               PROVE  BootInv'
    OBVIOUS
  <2>1. CASE phase' = "down" /\ phase # "down" => ~Saving
    BY <2>1, FileSteps DEF FileStep, BootInv, Saving
  <2>2. CASE UNCHANGED runnerVars
    BY <2>2, Zenon DEF runnerVars, store, BootInv
  <2> QED
    BY <2>1, <2>2
<1>3. BootInv => DBReadableAtBoot
  BY DEF BootInv, DBReadableAtBoot
<1> QED
  BY <1>1, <1>2, <1>3, PTL DEF RunnerSpec, ReadableUnlessCut, NoSaveCut

(* initCfg, TriggerTest: a DB that is torn when its process ends is never  *)
(* repaired, and no later start of the runner gets past boot.              *)
THEOREM TornStaysTorn == RunnerSpec => TornForGood
<1>1. Torn /\ [RunnerNext]_runnerVars => Torn'
  BY FileSteps DEF FileStep, Torn
<1> QED
  BY <1>1, PTL DEF RunnerSpec, TornForGood

-----------------------------------------------------------------------------
(* The copy that a goroutine is about to save marks its own GPUs, of which *)
(* there is at least one.                                                  *)
CopyMarks(t, st) == \A g \in ids[t] : obj[t][g] = st

MarkInv ==
    \A t \in Slots :
       /\ tpc[t] \notin {"free", "load"} => ids[t] # {}
       /\ tpc[t] \in {"save", "sigSave"} => CopyMarks(t, "running")
       /\ tpc[t] = "updateSave" => CopyMarks(t, "completed")

(* Setting some entries of a map sets these entries.                       *)
LEMMA MarkSets ==
    ASSUME NEW m, NEW S \in SUBSET GPUs, NEW st PROVE \A g \in S : Mark(m, S, st)[g] = st
BY RunnerAssumption DEF Mark

(* A process that has gone down has no goroutine left.                     *)
LEMMA DieMarks == Die => MarkInv'
BY DEF Die, MarkInv

(* Every step keeps the copies marked.                                     *)
LEMMA MarkStep == RunnerTypeOK /\ MarkInv /\ [RunnerNext]_runnerVars => MarkInv'
<1> SUFFICES ASSUME RunnerTypeOK, MarkInv, [RunnerNext]_runnerVars PROVE MarkInv'
  OBVIOUS
<1>0. /\ tpc \in [Slots -> TestPC] /\ ids \in [Slots -> SUBSET GPUs]
      /\ obj \in [Slots -> Maps]
  BY DEF RunnerTypeOK
<1>1. ASSUME UNCHANGED tests PROVE MarkInv'
  BY <1>1 DEF tests, MarkInv, CopyMarks
<1>2. CASE \/ Restart \/ CleanupLoad \/ CleanupSave \/ Sigterm \/ DiskChanges
           \/ \E g \in GPUs, h \in Healths : SetHealth(g, h)
  BY <1>1, <1>2 DEF Restart, CleanupLoad, CleanupSave, Sigterm, DiskChanges, SetHealth
<1>3. CASE BootCreate \/ BootSave \/ Transform
  BY <1>1, <1>3, DieMarks DEF BootCreate, BootSave, Transform
<1>4. ASSUME NEW t \in Slots, NEW S, NEW r, Spawn(t, S, r) PROVE MarkInv'
  BY <1>0, <1>4 DEF Spawn, MarkInv, CopyMarks
<1>5. CASE Recover \/ Tick
  BY <1>1, <1>4, <1>5 DEF Recover, Tick
<1>6. ASSUME NEW t \in Slots, testGPU(t) PROVE MarkInv'
  <2>1. ASSUME Free(t) PROVE MarkInv'
    BY <1>0, <2>1 DEF Free, MarkInv, CopyMarks
  <2>2. CASE TestLoad(t)
    BY <1>0, <2>1, <2>2 DEF TestLoad, MarkInv, CopyMarks
  <2>3. CASE TestStart(t)
    <3>1. \A g \in ids[t] : Mark(obj[t], ids[t], "running")[g] = "running"
      BY <1>0, MarkSets
    <3> QED
      BY <1>0, <2>3, <3>1 DEF TestStart, Step, MarkInv, CopyMarks
  <2>4. CASE TestSave(t)
    BY <1>0, <2>4 DEF TestSave, Step, MarkInv, CopyMarks
  <2>5. CASE TestDone(t) \/ TestSignal(t) \/ TestStartFails(t) \/ SignalSave(t)
    BY <1>0, <2>5 DEF TestDone, TestSignal, TestStartFails, SignalSave, Step, MarkInv, CopyMarks
  <2>6. ASSUME NEW st, \A g \in ids[t] : Mark(db, ids[t], st)[g] = st,
               \/ st = "completed" /\ UpdateLoad(t, "update", "updateSave", st)
               \/ st = "running" /\ UpdateLoad(t, "sigUpdate", "sigSave", st)
        PROVE  MarkInv'
    <3>1. CASE LoadRunnerStatus = NoTests
      BY <1>0, <2>6, <3>1 DEF UpdateLoad, MarkInv, CopyMarks
    <3>2. CASE LoadRunnerStatus # NoTests
      BY <1>0, <2>6, <3>2 DEF UpdateLoad, LoadRunnerStatus, MarkInv, CopyMarks
    <3> QED
      BY <3>1, <3>2
  <2>7. CASE TestUpdate(t) \/ SignalUpdate(t)
    BY <1>0, <2>6, <2>7, MarkSets DEF TestUpdate, SignalUpdate
  <2>8. CASE TestFinish(t)
    BY <1>0, <2>1, <2>8 DEF TestFinish, Step, MarkInv, CopyMarks
  <2>9. CASE Exit(t)
    BY <2>9, DieMarks DEF Exit
  <2> QED
    BY <1>6, <2>2, <2>3, <2>4, <2>5, <2>7, <2>8, <2>9 DEF testGPU
<1>7. CASE Crash
  BY <1>7, DieMarks DEF Crash
<1>8. CASE UNCHANGED runnerVars
  BY <1>1, <1>8 DEF runnerVars
<1> QED
  BY <1>2, <1>3, <1>5, <1>6, <1>7, <1>8 DEF RunnerNext, Boot, Watch

(* testGPU: for any number of goroutines that save over each other, each   *)
(* save that does not fail leaves the saver's own marks in the DB.         *)
THEOREM OwnMarksKept == RunnerSpec => OwnMarksSaved
<1>1. RunnerInit => MarkInv
  BY DEF RunnerInit, MarkInv
<1>2. RunnerTypeOK /\ MarkInv =>
         [\A t \in Slots :
            disk = "good" =>
              /\ TestSave(t) => ids[t] # {} /\ \A g \in ids[t] : db'[g] = "running"
              /\ TestFinish(t) => ids[t] # {} /\ \A g \in ids[t] : db'[g] = "completed"
              /\ SignalSave(t) => ids[t] # {} /\ ids[t] \subseteq Interrupted']_runnerVars
  <2> SUFFICES ASSUME RunnerTypeOK, MarkInv, NEW t \in Slots, disk = "good"
               PROVE  /\ TestSave(t) => ids[t] # {} /\ \A g \in ids[t] : db'[g] = "running"
                      /\ TestFinish(t) => ids[t] # {} /\ \A g \in ids[t] : db'[g] = "completed"
                      /\ SignalSave(t) => ids[t] # {} /\ ids[t] \subseteq Interrupted'
    OBVIOUS
  <2> USE DEF MarkInv, CopyMarks, SaveRunnerStatus, SaveFails
  <2>1. TestSave(t) => ids[t] # {} /\ \A g \in ids[t] : db'[g] = "running"
    BY DEF TestSave, Step
  <2>2. TestFinish(t) => ids[t] # {} /\ \A g \in ids[t] : db'[g] = "completed"
    BY DEF TestFinish
  <2>3. SignalSave(t) => ids[t] # {} /\ ids[t] \subseteq Interrupted'
    BY DEF SignalSave, Step, Interrupted, LoadRunnerStatus, RunnerTypeOK
  <2> QED
    BY <2>1, <2>2, <2>3
<1> QED
  BY <1>1, <1>2, MarkStep, RunnerTypeCorrect, PTL DEF RunnerSpec, OwnMarksSaved

-----------------------------------------------------------------------------
(* Every map in the system, on disk or in a goroutine's copy, says         *)
(* completed only of GPUs with a test that has ended, and a goroutine that *)
(* is about to say so has had one.                                         *)
Sound(m, T) == \A g \in GPUs : \A k \in IdsOf(g) : m[k] = "completed" => g \in T

TestedInv ==
    /\ Sound(db, tested) /\ Sound(wobj, tested)
    /\ \A t \in Slots : Sound(obj[t], tested)
    /\ \A t \in Slots : tpc[t] = "update" => ids[t] \subseteq tested

(* The empty map is sound, and a sound map stays so when entries are set,  *)
(* if those set to completed are of tested GPUs, and when the ids are      *)
(* converted.                                                              *)
LEMMA SoundMaps ==
    ASSUME NEW T \in SUBSET GPUs
    PROVE  /\ Sound(NoTests, T)
           /\ \A m \in Maps, S \in SUBSET GPUs, st \in {"none", "running"} :
                 Sound(m, T) => Sound(Mark(m, S, st), T)
           /\ \A m \in Maps, S \in SUBSET T : Sound(m, T) => Sound(Mark(m, S, "completed"), T)
           /\ \A m : Sound(m, T) => \A n \in Converted(m) : Sound(n, T)
<1>0. \A g \in GPUs : \A k \in IdsOf(g) : k \in IDs /\ (k \in GPUs => k = g)
  BY RunnerAssumption DEF IdsOf
<1>1. Sound(NoTests, T)
  BY <1>0 DEF Sound, NoTests
<1>2. ASSUME NEW m \in Maps, NEW S \in SUBSET GPUs, NEW st \in {"none", "running"}, Sound(m, T)
      PROVE  Sound(Mark(m, S, st), T)
  BY <1>0, <1>2 DEF Sound, Mark
<1>3. ASSUME NEW m \in Maps, NEW S \in SUBSET T, Sound(m, T) PROVE Sound(Mark(m, S, "completed"), T)
  BY <1>0, <1>3 DEF Sound, Mark
<1>4. ASSUME NEW m, Sound(m, T), NEW n \in Converted(m) PROVE Sound(n, T)
  <2> SUFFICES ASSUME NEW g \in GPUs, NEW k \in IdsOf(g), n[k] = "completed" PROVE g \in T
    BY DEF Sound
  <2>1. k \in GPUs /\ n[k] \in Found(m, k)
    BY <1>0 DEF Converted
  <2>2. k = g
    BY <1>0, <2>1
  <2>3. PICK k2 \in IdsOf(g) : m[k2] = "completed"
    BY <2>1, <2>2 DEF Found
  <2> QED
    BY <1>4, <2>3 DEF Sound
<1> QED
  BY <1>1, <1>2, <1>3, <1>4

(* Every step keeps all maps sound.                                        *)
LEMMA TestedStep == RunnerTypeOK /\ TestedInv /\ [RunnerNext]_runnerVars => TestedInv'
<1> SUFFICES ASSUME RunnerTypeOK, TestedInv, [RunnerNext]_runnerVars PROVE TestedInv'
  OBVIOUS
<1>0. /\ tpc \in [Slots -> TestPC] /\ ids \in [Slots -> SUBSET GPUs]
      /\ obj \in [Slots -> Maps] /\ tested \in SUBSET GPUs
      /\ healthy \in SUBSET GPUs /\ db \in Maps
  BY DEF RunnerTypeOK
<1>1. ASSUME NEW m, Sound(m, tested), SaveRunnerStatus(m) \/ SaveFails \/ Tear \/ UNCHANGED store
      PROVE  Sound(db', tested)
  BY <1>0, <1>1, SoundMaps DEF SaveRunnerStatus, SaveFails, Tear, store, TestedInv
<1>2. ASSUME Sound(db', tested), tested' = tested, Die PROVE TestedInv'
  BY <1>0, <1>2, SoundMaps DEF Die, TestedInv
<1>3. ASSUME Sound(db', tested), tested' = tested, UNCHANGED <<watcher, tests>> PROVE TestedInv'
  BY <1>3 DEF TestedInv, watcher, tests
<1>4. CASE BootCreate \/ BootSave \/ Transform
  <2>1. Sound(db', tested)
    BY <1>0, <1>1, <1>4, SoundMaps DEF BootCreate, BootSave, Transform, TestedInv
  <2>2. tested' = tested /\ (Die \/ UNCHANGED <<watcher, tests>>)
    BY <1>4, Zenon DEF BootCreate, BootSave, Transform, world
  <2> QED
    BY <1>2, <1>3, <2>1, <2>2
<1>5. CASE \/ Restart \/ Sigterm \/ DiskChanges
           \/ \E g \in GPUs, h \in Healths : SetHealth(g, h)
  <2>1. UNCHANGED <<store, tested, watcher, tests>>
    BY <1>5, Zenon DEF Restart, Sigterm, DiskChanges, SetHealth, world
  <2> QED
    BY <1>3, <2>1 DEF store, TestedInv
<1>6. ASSUME NEW t \in Slots, NEW S, NEW q, Spawn(t, S, q), UNCHANGED <<store, wobj, tested>>
      PROVE  TestedInv'
  BY <1>0, <1>6 DEF Spawn, store, TestedInv
<1>7. CASE Recover \/ Tick
  <2>1. UNCHANGED <<store, wobj, tested>>
    BY <1>7, Zenon DEF Recover, Tick, watcher, world
  <2>2. CASE UNCHANGED tests
    BY <2>1, <2>2 DEF tests, store, TestedInv
  <2>3. CASE ~UNCHANGED tests
    BY <1>6, <1>7, <2>1, <2>3 DEF Recover, Tick
  <2> QED
    BY <2>2, <2>3
<1>8. CASE CleanupLoad
  <2>1. UNCHANGED <<store, tests, tested>>
    BY <1>8, Zenon DEF CleanupLoad, world
  <2>2. PICK S \in SUBSET GPUs : wobj' = wobj \/ wobj' = Mark(db, S, "none")
    BY <1>0, <1>8 DEF CleanupLoad, LoadRunnerStatus
  <2>3. Sound(wobj', tested)
    BY <1>0, <2>2, SoundMaps DEF TestedInv
  <2> QED
    BY <2>1, <2>3 DEF TestedInv, store, tests
<1>9. CASE CleanupSave
  <2>1. Sound(db', tested)
    BY <1>1, <1>9 DEF CleanupSave, TestedInv
  <2>2. UNCHANGED <<tests, tested>> /\ wobj' = NoTests
    BY <1>9, Zenon DEF CleanupSave, world
  <2> QED
    BY <1>0, <2>1, <2>2, SoundMaps DEF TestedInv, tests
<1>10. ASSUME NEW t \in Slots, testGPU(t) PROVE TestedInv'
  <2>1. ASSUME Sound(db', tested), UNCHANGED <<wobj, tested>>, NEW to \in TestPC \ {"update"},
               tpc' = [tpc EXCEPT ![t] = to], \E S : ids' = [ids EXCEPT ![t] = S],
               NEW m, Sound(m, tested), obj' = [obj EXCEPT ![t] = m]
        PROVE  TestedInv'
    BY <1>0, <2>1 DEF TestedInv
  <2>2. obj' = obj => obj' = [obj EXCEPT ![t] = obj[t]]
    BY <1>0
  <2>3. ids' = ids => \E S : ids' = [ids EXCEPT ![t] = S]
    <3>1. ids = [ids EXCEPT ![t] = ids[t]]
      BY <1>0
    <3> QED
      BY <3>1, Zenon
  <2>4. Sound(NoTests, tested) /\ Sound(obj[t], tested) /\ Sound(db, tested)
    BY <1>0, SoundMaps DEF TestedInv
  <2>5. ASSUME Free(t), Sound(db', tested), UNCHANGED <<wobj, tested>> PROVE TestedInv'
    BY <2>1, <2>4, <2>5 DEF Free, TestPC
  <2>6. CASE TestLoad(t)
    <3>1. UNCHANGED <<wobj, tested>> /\ Sound(db', tested)
      BY <2>4, <2>6 DEF TestLoad, store, watcher, world
    <3>2. CASE Free(t)
      BY <2>5, <3>1, <3>2
    <3>3. CASE ~Free(t)
      BY <2>1, <2>4, <2>6, <3>1, <3>3 DEF TestLoad, LoadRunnerStatus, TestPC
    <3> QED
      BY <3>2, <3>3
  <2>7. CASE TestStart(t)
    <3>1. UNCHANGED <<wobj, tested, ids>> /\ Sound(db', tested)
      BY <2>4, <2>7 DEF TestStart, store, watcher, world
    <3>2. Sound(Mark(obj[t], ids[t], "running"), tested)
      BY <1>0, <2>4, SoundMaps
    <3> QED
      BY <2>1, <2>3, <2>7, <3>1, <3>2 DEF TestStart, Step, TestPC, SavePC
  <2>8. CASE TestStartFails(t) \/ TestSignal(t)
    <3>1. UNCHANGED <<wobj, tested, ids, obj>> /\ Sound(db', tested)
      BY <2>4, <2>8 DEF TestStartFails, TestSignal, store, watcher, world
    <3> QED
      BY <2>1, <2>2, <2>3, <2>4, <2>8, <3>1 DEF TestStartFails, TestSignal, Step, TestPC
  <2>9. CASE TestSave(t) \/ SignalSave(t)
    <3>1. UNCHANGED <<wobj, tested, ids>> /\ Sound(db', tested)
      BY <1>1, <2>4, <2>9 DEF TestSave, SignalSave, watcher, world
    <3> QED
      BY <2>1, <2>2, <2>3, <2>4, <2>9, <3>1 DEF TestSave, SignalSave, Step, TestPC
  <2>10. CASE TestDone(t)
    <3>1. /\ tpc' = [tpc EXCEPT ![t] = "update"] /\ tested' = tested \cup ids[t]
          /\ UNCHANGED <<db, wobj, obj, ids>>
      BY <2>10 DEF TestDone, Step, store, watcher
    <3>2. \A m : Sound(m, tested) => Sound(m, tested')
      BY <3>1 DEF Sound
    <3> QED
      BY <1>0, <3>1, <3>2 DEF TestedInv
  <2>11. ASSUME NEW from, NEW to \in SavePC, NEW st, UpdateLoad(t, from, to, st),
                Sound(Mark(db, ids[t], st), tested)
         PROVE  TestedInv'
    <3>1. UNCHANGED <<wobj, tested, ids>> /\ Sound(db', tested)
      BY <2>4, <2>11 DEF UpdateLoad, store, watcher, world
    <3> QED
      BY <2>1, <2>2, <2>3, <2>4, <2>11, <3>1
         DEF UpdateLoad, LoadRunnerStatus, TestPC, SavePC
  <2>12. CASE TestUpdate(t)
    <3>1. ids[t] \in SUBSET tested
      BY <2>12 DEF TestUpdate, UpdateLoad, TestedInv
    <3>2. Sound(Mark(db, ids[t], "completed"), tested)
      BY <1>0, <2>4, <3>1, SoundMaps
    <3> QED
      BY <2>11, <2>12, <3>2 DEF TestUpdate, SavePC
  <2>13. CASE SignalUpdate(t)
    <3>1. Sound(Mark(db, ids[t], "running"), tested)
      BY <1>0, <2>4, SoundMaps
    <3> QED
      BY <2>11, <2>13, <3>1 DEF SignalUpdate, SavePC
  <2>14. CASE TestFinish(t)
    <3>1. UNCHANGED <<wobj, tested>> /\ Sound(db', tested)
      BY <1>1, <2>4, <2>14 DEF TestFinish, watcher, world
    <3>2. CASE Free(t)
      BY <2>5, <3>1, <3>2
    <3>3. CASE ~Free(t)
      BY <2>1, <2>2, <2>3, <2>4, <2>14, <3>1, <3>3 DEF TestFinish, Step, TestPC
    <3> QED
      BY <3>2, <3>3
  <2>15. CASE Exit(t)
    BY <1>1, <1>2, <2>4, <2>15 DEF Exit, world
  <2> QED
    BY <1>10, <2>6, <2>7, <2>8, <2>9, <2>10, <2>12, <2>13, <2>14, <2>15 DEF testGPU
<1>11. CASE Crash
  BY <1>1, <1>2, <1>11 DEF Crash, TestedInv
<1>12. CASE UNCHANGED runnerVars
  BY <1>3, <1>12 DEF runnerVars, store, world, TestedInv
<1> QED
  BY <1>4, <1>5, <1>7, <1>8, <1>9, <1>10, <1>11, <1>12 DEF RunnerNext, Boot, Watch

(* updateStatusDBAfterTestRun: for any GPUs, ids, goroutines and crashes,  *)
(* no order of loads and saves makes the DB say completed of a GPU whose   *)
(* test has not ended.                                                     *)
THEOREM CompletedOnlyIfTested == RunnerSpec => []CompletedWasTested
<1>1. RunnerInit => TestedInv
  <2> SUFFICES ASSUME RunnerInit PROVE TestedInv
    OBVIOUS
  <2>1. Sound(db, tested)
    BY DEF RunnerInit, Sound
  <2>2. Sound(NoTests, tested)
    BY SoundMaps DEF RunnerInit
  <2> QED
    BY <2>1, <2>2 DEF RunnerInit, TestedInv
<1>2. TestedInv => CompletedWasTested
  BY DEF TestedInv, Sound, CompletedWasTested
<1> QED
  BY <1>1, <1>2, TestedStep, RunnerTypeCorrect, PTL DEF RunnerSpec
=============================================================================
