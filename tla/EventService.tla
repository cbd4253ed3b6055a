---------------------------- MODULE EventService ----------------------------
(***************************************************************************)
(* pkg/events: the exporter's warning-event service.  A bounded queue with *)
(* one dispatcher goroutine, asynchronous and synchronous emitters, the    *)
(* Fatal path (emit, clean up, exit 1) and Stop, which is reached from     *)
(* three places: the SIGTERM goroutine, StartMain's deferred Close, and    *)
(* the cleanup that Fatal runs.                                            *)
(*                                                                         *)
(* An event is <<e, n>>, the n-th call of emitter e.  Its reason, message  *)
(* and context are abstracted away.  `exitCode' is the fate of the whole   *)
(* process: once it is set no goroutine takes another step.                *)
(***************************************************************************)
EXTENDS Naturals, Sequences

CONSTANTS
    Emitters,    \* goroutines that call EmitWarning, EmitWarningSync or Fatal
    QueueSize,   \* capacity of the queue channel (64 in the code)
    MaxEmits,    \* bound: calls made by one emitter
    OnCluster    \* k8sClient # nil

Closers == {"sigterm", "main"}
Threads == Emitters \cup Closers
Ids     == Emitters \X (1..MaxEmits)
NoEvent == <<>>
NoOne   == "nobody"

ASSUME EventAssumption ==
    /\ QueueSize \in Nat \ {0}
    /\ MaxEmits \in Nat
    /\ OnCluster \in BOOLEAN
    /\ Emitters \cap (Closers \cup {NoOne}) = {}

VARIABLES
    singleton,     \* is the package variable `singleton' non-nil?
    mu,            \* the thread holding mu for writing (Stop), or NoOne
    stopClosed,    \* stopCh has been closed
    queue,         \* the channel of envelopes
    dpc,           \* dispatcher: "select", "drain" or "exited"
    denv,          \* the envelope the dispatcher is delivering, or NoEvent
    rbacDisabled,  \* latched by the first Forbidden answer
    pc,            \* control state of every thread
    kind,          \* the operation emitter e is in: "async", "sync", "fatal"
    count,         \* calls made so far by emitter e
    errCh,         \* the envelope's errCh: "empty", "nil" or "err"
    fatalOnce,     \* the emitter inside fatalOnce.Do, or NoOne
    exitCode,      \* "none" while the process runs, else "0" or "1"
    deliveries,    \* history: how often the event was delivered
    accepted       \* history: events queued while the dispatcher still ran

svc      == <<singleton, mu, stopClosed, fatalOnce>>
disp     == <<dpc, denv>>
delivery == <<rbacDisabled, errCh, deliveries>>
calls    == <<kind, count>>
vars == <<svc, queue, disp, delivery, pc, calls, exitCode, accepted>>

Running == exitCode = "none"
Current(e) == <<e, count[e]>>
InQueue(id) == \E i \in 1..Len(queue) : queue[i] = id

EmitterPC == {"idle", "once", "emit", "direct", "waiting"}
ClosePC   == {"stop", "stopWait", "exit"}

(* One well-typed state.  Only a stopped thread set and a queue within its *)
(* capacity are legal (newEventService makes the channel).                 *)
TypeOK ==
    /\ singleton \in BOOLEAN /\ mu \in Threads \cup {NoOne}
    /\ stopClosed \in BOOLEAN /\ rbacDisabled \in BOOLEAN
    /\ queue \in Seq(Ids) /\ Len(queue) <= QueueSize
    /\ dpc \in {"select", "drain", "exited"} /\ denv \in Ids \cup {NoEvent}
    /\ pc \in [Threads -> EmitterPC \cup ClosePC]
    /\ kind \in [Emitters -> {"async", "sync", "fatal"}]
    /\ count \in [Emitters -> 0..MaxEmits]
    /\ errCh \in [Ids -> {"empty", "nil", "err"}]
    /\ fatalOnce \in Emitters \cup {NoOne}
    /\ exitCode \in {"none", "0", "1"}
    /\ deliveries \in [Ids -> Nat] /\ accepted \subseteq Ids

Init ==
    /\ singleton = TRUE /\ mu = NoOne /\ stopClosed = FALSE
    /\ queue = <<>> /\ dpc = "select" /\ denv = NoEvent
    /\ rbacDisabled = FALSE
    /\ pc = [t \in Threads |-> "idle"]
    /\ kind = [e \in Emitters |-> "async"] /\ count = [e \in Emitters |-> 0]
    /\ errCh = [id \in Ids |-> "empty"]
    /\ fatalOnce = NoOne /\ exitCode = "none"
    /\ deliveries = [id \in Ids |-> 0] /\ accepted = {}

-----------------------------------------------------------------------------
(* deliver / emitToK8s: log, then create the event unless off-cluster or   *)
(* RBAC-disabled.  A Forbidden answer latches rbacDisabled and counts as   *)
(* success; any other failure, the 5s bound included, is returned.         *)
emitToK8s(result) ==
    /\ \/ /\ result = "nil"
          /\ \/ UNCHANGED rbacDisabled
             \/ OnCluster /\ ~rbacDisabled /\ rbacDisabled' = TRUE
       \/ /\ result = "err"
          /\ OnCluster /\ ~rbacDisabled
          /\ UNCHANGED rbacDisabled

deliver(id) ==
    /\ \E result \in {"nil", "err"} :
          /\ emitToK8s(result)
          /\ errCh' = [errCh EXCEPT ![id] = result]
    /\ deliveries' = [deliveries EXCEPT ![id] = @ + 1]

(* dispatch: `case env := <-s.queue' of either select.                     *)
DispatchTake ==
    /\ Running
    /\ dpc \in {"select", "drain"} /\ denv = NoEvent /\ queue # <<>>
    /\ denv' = Head(queue) /\ queue' = Tail(queue)
    /\ UNCHANGED <<svc, dpc, delivery, pc, calls, exitCode, accepted>>

DispatchDeliver ==
    /\ Running
    /\ denv # NoEvent
    /\ deliver(denv)
    /\ denv' = NoEvent
    /\ UNCHANGED <<svc, queue, dpc, pc, calls, exitCode, accepted>>

(* `case <-s.stopCh': select is free to take it while the queue is not     *)
(* empty.                                                                  *)
DispatchStop ==
    /\ Running
    /\ dpc = "select" /\ denv = NoEvent /\ stopClosed
    /\ dpc' = "drain"
    /\ UNCHANGED <<svc, queue, denv, delivery, pc, calls, exitCode, accepted>>

(* Mutant: the dispatcher returns on stop without draining.                *)
DispatchExit_NoDrain ==
    /\ Running
    /\ dpc = "drain" /\ denv = NoEvent
    /\ dpc' = "exited"
    /\ UNCHANGED <<svc, queue, denv, delivery, pc, calls, exitCode, accepted>>

(* `default: return' of the drain loop.                                    *)
DispatchExit ==
    /\ Running
    /\ dpc = "drain" /\ denv = NoEvent /\ queue = <<>>
    /\ dpc' = "exited"
    /\ UNCHANGED <<svc, queue, denv, delivery, pc, calls, exitCode, accepted>>

-----------------------------------------------------------------------------
(* EmitWarning, EmitWarningSync, Fatal: capture the singleton under RLock. *)
(* Without a service the first two only log, and Fatal exits at once.      *)
Call(e, k) ==
    /\ Running
    /\ pc[e] = "idle" /\ count[e] < MaxEmits /\ mu = NoOne
    /\ count' = [count EXCEPT ![e] = @ + 1]
    /\ kind' = [kind EXCEPT ![e] = k]
    /\ pc' = [pc EXCEPT ![e] = IF ~singleton THEN "idle"
                               ELSE IF k = "fatal" THEN "once" ELSE "emit"]
    /\ exitCode' = IF ~singleton /\ k = "fatal" THEN "1" ELSE exitCode
    /\ UNCHANGED <<svc, queue, disp, delivery, accepted>>

(* fatalOnce.Do: a second caller blocks until the first returns, and the   *)
(* first ends the process.                                                 *)
EnterOnce(e) ==
    /\ Running
    /\ pc[e] = "once" /\ fatalOnce = NoOne
    /\ fatalOnce' = e
    /\ pc' = [pc EXCEPT ![e] = "emit"]
    /\ UNCHANGED <<singleton, mu, stopClosed, queue, disp, delivery, calls,
                   exitCode, accepted>>

(* The non-blocking send of emitWarning and emitWarningSync.               *)
Enqueue(e) ==
    /\ Running
    /\ pc[e] = "emit" /\ Len(queue) < QueueSize
    /\ queue' = Append(queue, Current(e))
    /\ accepted' = IF dpc = "exited" THEN accepted
                                     ELSE accepted \cup {Current(e)}
    /\ pc' = [pc EXCEPT ![e] = IF kind[e] = "async" THEN "idle" ELSE "waiting"]
    /\ UNCHANGED <<svc, disp, delivery, calls, exitCode>>

(* Queue full: an asynchronous event is dropped, a synchronous one is      *)
(* delivered by the emitter itself.                                        *)
QueueFull(e) ==
    /\ Running
    /\ pc[e] = "emit" /\ Len(queue) >= QueueSize
    /\ pc' = [pc EXCEPT ![e] = IF kind[e] = "async" THEN "idle" ELSE "direct"]
    /\ UNCHANGED <<svc, queue, disp, delivery, calls, exitCode, accepted>>

DirectDeliver(e) ==
    /\ Running
    /\ pc[e] = "direct"
    /\ deliver(Current(e))
    /\ pc' = [pc EXCEPT ![e] = "waiting"]
    /\ UNCHANGED <<svc, queue, disp, calls, exitCode, accepted>>

(* Mutant: fatal emits its event and returns.                              *)
AfterSync_NoExit(e) == "idle"

AfterSync(e) == IF kind[e] = "fatal" THEN "stop" ELSE "idle"

(* The final select of emitWarningSync: the answer, or time.After(5s),     *)
(* which may win even when the answer is there.  Fatal goes on to cleanup. *)
Answered(e) ==
    /\ Running
    /\ pc[e] = "waiting" /\ errCh[Current(e)] # "empty"
    /\ pc' = [pc EXCEPT ![e] = AfterSync(e)]
    /\ UNCHANGED <<svc, queue, disp, delivery, calls, exitCode, accepted>>

(* Mutant: an emit that timed out is retried by direct delivery.           *)
SyncTimeout_Retry(e) ==
    /\ Running
    /\ pc[e] = "waiting"
    /\ pc' = [pc EXCEPT ![e] = "direct"]
    /\ UNCHANGED <<svc, queue, disp, delivery, calls, exitCode, accepted>>

SyncTimeout(e) ==
    /\ Running
    /\ pc[e] = "waiting"
    /\ pc' = [pc EXCEPT ![e] = AfterSync(e)]
    /\ UNCHANGED <<svc, queue, disp, delivery, calls, exitCode, accepted>>

-----------------------------------------------------------------------------
(* exporter.Close, of which only the last call, events.Stop, concerns this *)
(* module.  SIGTERM may arrive at any time; StartMain returns (and runs    *)
(* its deferred Close) only once another Close has cancelled the context.  *)
CloseCall(c) ==
    /\ Running
    /\ pc[c] = "idle"
    /\ c = "sigterm" \/ \E t \in Threads : pc[t] \in ClosePC
    /\ pc' = [pc EXCEPT ![c] = "stop"]
    /\ UNCHANGED <<svc, queue, disp, delivery, calls, exitCode, accepted>>

(* Mutants: Stop does not take mu; stop forgets to close stopCh.           *)
StopBegin_NoLock(t) ==
    /\ Running
    /\ pc[t] = "stop"
    /\ \/ /\ ~singleton
          /\ pc' = [pc EXCEPT ![t] = "exit"]
          /\ UNCHANGED svc
       \/ /\ singleton
          /\ stopClosed' = TRUE
          /\ pc' = [pc EXCEPT ![t] = "stopWait"]
          /\ UNCHANGED <<singleton, mu, fatalOnce>>
    /\ UNCHANGED <<queue, disp, delivery, calls, exitCode, accepted>>

(* Stop: mu.Lock; return if there is no service, else close(stopCh) and    *)
(* keep the lock while waiting for the dispatcher.                         *)
StopBegin(t) ==
    /\ Running
    /\ pc[t] = "stop" /\ mu = NoOne
    /\ \/ /\ ~singleton
          /\ pc' = [pc EXCEPT ![t] = "exit"]
          /\ UNCHANGED svc
       \/ /\ singleton
          /\ mu' = t /\ stopClosed' = TRUE
          /\ pc' = [pc EXCEPT ![t] = "stopWait"]
          /\ UNCHANGED <<singleton, fatalOnce>>
    /\ UNCHANGED <<queue, disp, delivery, calls, exitCode, accepted>>

(* Mutant: Stop does not wait for the dispatcher.                          *)
StopEnd_NoWait(t) ==
    /\ Running
    /\ pc[t] = "stopWait"
    /\ singleton' = FALSE /\ mu' = NoOne
    /\ pc' = [pc EXCEPT ![t] = "exit"]
    /\ UNCHANGED <<stopClosed, fatalOnce, queue, disp, delivery, calls,
                   exitCode, accepted>>

(* wg.Wait returns; singleton = nil; mu.Unlock.                            *)
StopEnd(t) ==
    /\ Running
    /\ pc[t] = "stopWait" /\ dpc = "exited"
    /\ singleton' = FALSE /\ mu' = NoOne
    /\ pc' = [pc EXCEPT ![t] = "exit"]
    /\ UNCHANGED <<stopClosed, fatalOnce, queue, disp, delivery, calls,
                   exitCode, accepted>>

(* Mutant: the caller of Close returns instead of exiting.                 *)
Exit_Returns(t) ==
    /\ Running
    /\ pc[t] = "exit"
    /\ pc' = [pc EXCEPT ![t] = "idle"]
    /\ UNCHANGED <<svc, queue, disp, delivery, calls, exitCode, accepted>>

(* exitFn(1) of fatal, os.Exit(0) of the signal goroutine, main returning. *)
Exit(t) ==
    /\ Running
    /\ pc[t] = "exit"
    /\ exitCode' = IF t \in Emitters THEN "1" ELSE "0"
    /\ UNCHANGED <<svc, queue, disp, delivery, pc, calls, accepted>>

(* The process is gone.                                                    *)
Exited == ~Running /\ UNCHANGED vars

Dispatch == DispatchTake \/ DispatchDeliver \/ DispatchStop \/ DispatchExit
Emit(e) == \/ EnterOnce(e) \/ Enqueue(e) \/ QueueFull(e)
           \/ DirectDeliver(e) \/ Answered(e) \/ SyncTimeout(e)
Finish(t) == StopBegin(t) \/ StopEnd(t) \/ Exit(t)

Next ==
    \/ Dispatch
    \/ \E e \in Emitters, k \in {"async", "sync", "fatal"} : Call(e, k)
    \/ \E e \in Emitters : Emit(e)
    \/ \E c \in Closers : CloseCall(c)
    \/ \E t \in Threads : Finish(t)
    \/ Exited

Spec == Init /\ [][Next]_vars

(* The Go scheduler runs every runnable goroutine; emitToK8s and the final *)
(* select of a synchronous emit are bounded by 5s.  No fairness is assumed *)
(* of callers or signals.                                                  *)
Fairness ==
    /\ WF_vars(Dispatch)
    /\ \A e \in Emitters : WF_vars(Emit(e))
    /\ \A t \in Threads : WF_vars(Finish(t))

LiveSpec == Spec /\ Fairness

-----------------------------------------------------------------------------
(* No event is delivered twice, whichever of dispatcher, drain loop and    *)
(* direct delivery by the emitter handles it.                              *)
DeliverOnce == \A id \in Ids : deliveries[id] <= 1

(* dispatch: what was queued while the dispatcher was alive, even after    *)
(* stopCh was closed, is delivered before the dispatcher returns.          *)
DrainComplete ==
    dpc = "exited" => \A id \in accepted : deliveries[id] = 1

(* Stop, fatal and main: whichever of the competing shutdown paths ends    *)
(* the process, the dispatcher has returned and no accepted event is lost  *)
(* with it.                                                                *)
ExitAfterDrain ==
    exitCode # "none" => /\ dpc = "exited"
                         /\ \A id \in accepted : deliveries[id] = 1

(* stop closes stopCh, and closing it twice would panic: three concurrent  *)
(* callers of Stop close it once.                                          *)
StopClosesOnce ==
    [][\A t \in Threads : (pc[t] = "stop" /\ pc'[t] = "stopWait")
                             => ~stopClosed]_vars

(* fatal and Close: a thread that has begun to shut down is never stuck    *)
(* behind the queue, the dispatcher or mu; the process exits.              *)
ShutdownTerminates ==
    (\E t \in Threads : pc[t] \in ClosePC) ~> (exitCode # "none")

(* A Fatal that entered fatalOnce.Do ends the process.                     *)
FatalExits == (fatalOnce # NoOne) ~> (exitCode # "none")

(* events.go, Stop: "Stop drains the queue and shuts down the dispatcher." *)
(* Once Stop has returned nothing is left in the queue.                    *)
StopDrainsQueue == ~singleton => queue = <<>>

(* events.go, Stop: what is left in the queue all the same is of calls     *)
(* that had the service in hand when it stopped: at most one per caller,   *)
(* and none that the dispatcher could still have seen.                     *)
LeftoversAreLate ==
    dpc = "exited" =>
       /\ \A i \in 1..Len(queue) : queue[i] \notin accepted
       /\ \A i, j \in 1..Len(queue) : queue[i][1] = queue[j][1] => i = j
=============================================================================
