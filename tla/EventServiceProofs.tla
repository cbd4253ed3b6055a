------------------------- MODULE EventServiceProofs -------------------------
(* Proofs that the safety properties of EventService hold for any set of   *)
(* emitters, any queue capacity and any number of calls.                   *)
EXTENDS EventService, TLAPS

(* A thread inside a call has counted that call: its event is one of Ids.  *)
CallInv ==
    \A e \in Emitters : pc[e] \in {"once", "emit", "direct", "waiting"}
                              => count[e] >= 1

TypeInv == TypeOK /\ CallInv

(* The shutdown argument.  Every accepted event is delivered, in delivery  *)
(* or queued, and nothing the dispatcher left behind was accepted.  A      *)
(* thread past Stop, and a nil singleton, both witness that the dispatcher *)
(* has returned.                                                           *)
Located(id) == deliveries[id] >= 1 \/ denv = id \/ InQueue(id)

DrainInv ==
    /\ \A id \in accepted : Located(id)
    /\ dpc = "exited" => /\ denv = NoEvent
                         /\ \A id \in accepted : deliveries[id] >= 1
    /\ ~singleton => dpc = "exited"
    /\ \A t \in Threads : pc[t] = "exit" => dpc = "exited"
    /\ exitCode # "none" => dpc = "exited"

(* The once argument.  An event not yet handed over is nowhere: not in the *)
(* queue, not with the dispatcher, not delivered.  The queue holds each    *)
(* event once, and only undelivered ones.                                  *)
Unsent(e, n) ==
    \/ n > count[e]
    \/ n = count[e] /\ pc[e] \in {"once", "emit", "direct"}

OnceInv ==
    /\ \A e \in Emitters, n \in 1..MaxEmits : Unsent(e, n) =>
          deliveries[<<e, n>>] = 0 /\ denv # <<e, n>> /\ ~InQueue(<<e, n>>)
    /\ \A i \in 1..Len(queue) : deliveries[queue[i]] = 0 /\ denv # queue[i]
    /\ \A i, j \in 1..Len(queue) : queue[i] = queue[j] => i = j
    /\ denv # NoEvent => deliveries[denv] = 0
    /\ \A id \in Ids : deliveries[id] <= 1

(* Only the holder of mu is inside stop, and stopCh is closed exactly when *)
(* a Stop has got that far.                                                *)
LockInv ==
    /\ \A t \in Threads : pc[t] = "stopWait" => mu = t
    /\ stopClosed => mu # NoOne \/ ~singleton

-----------------------------------------------------------------------------
(* Every queue operation of the code keeps the channel typed and bounded:  *)
(* what a receive returns and what it leaves, what a send adds.            *)
LEMMA QueueOps ==
    ASSUME NEW S, NEW q \in Seq(S)
    PROVE  /\ q # <<>> => /\ Head(q) \in S /\ Head(q) = q[1]
                          /\ Tail(q) \in Seq(S) /\ Len(q) \in Nat \ {0}
                          /\ Len(Tail(q)) = Len(q) - 1
                          /\ \A i \in 1..Len(Tail(q)) : Tail(q)[i] = q[i + 1]
           /\ \A x \in S : /\ Append(q, x) \in Seq(S)
                            /\ Len(Append(q, x)) = Len(q) + 1
                            /\ \A i \in 1..Len(q) : Append(q, x)[i] = q[i]
                            /\ Append(q, x)[Len(q) + 1] = x
OBVIOUS

(* The events are pairs, so the absence of one is none of them.            *)
LEMMA NoEventIsNone == NoEvent \notin Ids
BY DEF NoEvent, Ids

(* The event of a call in progress is an event.                            *)
LEMMA CurrentIsEvent ==
    ASSUME TypeOK, NEW e \in Emitters, count[e] >= 1
    PROVE  Current(e) \in Ids
BY EventAssumption DEF TypeOK, Current, Ids

(* A delivery, by the dispatcher or by an emitter, keeps the types.         *)
LEMMA DeliverTypes ==
    ASSUME TypeOK, NEW id \in Ids, deliver(id)
    PROVE  /\ rbacDisabled' \in BOOLEAN
           /\ errCh' \in [Ids -> {"empty", "nil", "err"}]
           /\ deliveries' \in [Ids -> Nat]
<1>1. rbacDisabled' \in BOOLEAN
  <2>1. rbacDisabled' = rbacDisabled \/ rbacDisabled' = TRUE
    BY Zenon DEF deliver, emitToK8s
  <2> QED
    BY <2>1 DEF TypeOK
<1>2. errCh' \in [Ids -> {"empty", "nil", "err"}]
  <2>1. PICK result \in {"nil", "err"} : errCh' = [errCh EXCEPT ![id] = result]
    BY Zenon DEF deliver
  <2> QED
    BY <2>1 DEF TypeOK
<1>3. deliveries' \in [Ids -> Nat]
  <2>1. deliveries' = [deliveries EXCEPT ![id] = @ + 1]
    BY Zenon DEF deliver
  <2> QED
    BY <2>1 DEF TypeOK
<1> QED
  BY <1>1, <1>2, <1>3

(* One step keeps the types and the call counts.                           *)
LEMMA TypeStep == TypeInv /\ [Next]_vars => TypeOK'
<1> SUFFICES ASSUME TypeOK, CallInv, [Next]_vars PROVE TypeOK'
  BY DEF TypeInv
<1> USE EventAssumption DEF TypeOK, svc, disp, delivery, calls,
                            EmitterPC, ClosePC
<1>1. CASE DispatchTake
  BY <1>1, QueueOps DEF DispatchTake
<1>2. CASE DispatchDeliver
  <2>1. denv \in Ids
    BY <1>2 DEF DispatchDeliver
  <2> QED
    BY <1>2, <2>1, DeliverTypes DEF DispatchDeliver
<1>3. CASE DispatchStop
  BY <1>3 DEF DispatchStop
<1>4. CASE DispatchExit
  BY <1>4 DEF DispatchExit
<1>5. ASSUME NEW e \in Emitters, NEW k \in {"async", "sync", "fatal"}, Call(e, k)
      PROVE  TypeOK'
  BY <1>5 DEF Call, Threads
<1>6. ASSUME NEW e \in Emitters, EnterOnce(e) PROVE TypeOK'
  BY <1>6 DEF EnterOnce, Threads
<1>7. ASSUME NEW e \in Emitters, Enqueue(e) PROVE TypeOK'
  <2>1. Current(e) \in Ids
    BY <1>7, CurrentIsEvent DEF Enqueue, CallInv
  <2>2. queue' \in Seq(Ids) /\ Len(queue') <= QueueSize
    BY <1>7, <2>1, QueueOps DEF Enqueue
  <2> QED
    BY <1>7, <2>1, <2>2 DEF Enqueue, Threads
<1>8. ASSUME NEW e \in Emitters, QueueFull(e) PROVE TypeOK'
  BY <1>8 DEF QueueFull, Threads
<1>9. ASSUME NEW e \in Emitters, DirectDeliver(e) PROVE TypeOK'
  <2>1. Current(e) \in Ids
    BY <1>9, CurrentIsEvent DEF DirectDeliver, CallInv
  <2> QED
    BY <1>9, <2>1, DeliverTypes DEF DirectDeliver, Threads
<1>10. ASSUME NEW e \in Emitters, Answered(e) \/ SyncTimeout(e) PROVE TypeOK'
  BY <1>10 DEF Answered, SyncTimeout, AfterSync, Threads
<1>11. ASSUME NEW c \in Closers, CloseCall(c) PROVE TypeOK'
  BY <1>11 DEF CloseCall, Threads
<1>12. ASSUME NEW t \in Threads, StopBegin(t) PROVE TypeOK'
  BY <1>12 DEF StopBegin
<1>13. ASSUME NEW t \in Threads, StopEnd(t) PROVE TypeOK'
  BY <1>13 DEF StopEnd
<1>14. ASSUME NEW t \in Threads, Exit(t) PROVE TypeOK'
  BY <1>14 DEF Exit
<1>15. CASE UNCHANGED vars
  BY <1>15 DEF vars
<1>16. CASE Exited
  BY <1>16 DEF Exited, vars
<1> QED
  BY <1>1, <1>2, <1>3, <1>4, <1>5, <1>6, <1>7, <1>8, <1>9, <1>10, <1>11,
     <1>12, <1>13, <1>14, <1>15, <1>16 DEF Next, Dispatch, Emit, Finish

(* Every step keeps what the calls in progress say about the queue.        *)
LEMMA CallStep == TypeInv /\ [Next]_vars => CallInv'
<1> SUFFICES ASSUME TypeOK, CallInv, [Next]_vars PROVE CallInv'
  BY DEF TypeInv
<1>2. pc \in [Threads -> EmitterPC \cup ClosePC] /\ count \in [Emitters -> 0..MaxEmits]
  BY DEF TypeOK
<1> USE EventAssumption DEF CallInv, Threads, calls
<1>3. CASE Dispatch \/ Exited \/ UNCHANGED vars
  BY <1>3 DEF Dispatch, DispatchTake, DispatchDeliver, DispatchStop, DispatchExit,
              Exited, vars
<1>4. ASSUME NEW e \in Emitters, NEW k \in {"async", "sync", "fatal"}, Call(e, k)
      PROVE  CallInv'
  BY <1>2, <1>4 DEF Call
<1>5. ASSUME NEW e \in Emitters, Emit(e) PROVE CallInv'
  BY <1>2, <1>5 DEF Emit, EnterOnce, Enqueue, QueueFull, DirectDeliver, Answered,
                    SyncTimeout, AfterSync
<1>6. ASSUME NEW c \in Closers, CloseCall(c) PROVE CallInv'
  BY <1>2, <1>6 DEF CloseCall
<1>7. ASSUME NEW t \in Threads, Finish(t) PROVE CallInv'
  BY <1>2, <1>7 DEF Finish, StopBegin, StopEnd, Exit
<1> QED
  BY <1>3, <1>4, <1>5, <1>6, <1>7 DEF Next

(* The typing facts the other proofs start from.                           *)
LEMMA TypeInvariant == Spec => []TypeInv
<1>1. Init => TypeOK
  <2> SUFFICES ASSUME Init PROVE TypeOK
    OBVIOUS
  <2>1. queue \in Seq(Ids) /\ Len(queue) <= QueueSize
    BY EventAssumption DEF Init
  <2>2. /\ deliveries \in [Ids -> Nat] /\ accepted \subseteq Ids
        /\ errCh \in [Ids -> {"empty", "nil", "err"}]
    BY DEF Init
  <2>3. /\ kind \in [Emitters -> {"async", "sync", "fatal"}]
        /\ count \in [Emitters -> 0..MaxEmits]
        /\ pc \in [Threads -> EmitterPC \cup ClosePC]
    BY EventAssumption DEF Init, EmitterPC
  <2> QED
    BY <2>1, <2>2, <2>3 DEF Init, TypeOK
<1>2. Init => CallInv
  BY DEF Init, CallInv, Threads
<1> QED
  BY <1>1, <1>2, TypeStep, CallStep, PTL DEF Spec, TypeInv

(* EventService is type-correct: in particular no interleaving of emitters *)
(* makes the queue longer than the channel's capacity.                     *)
THEOREM TypeCorrect == Spec => []TypeOK
BY TypeInvariant, PTL DEF TypeInv

-----------------------------------------------------------------------------
(* The drain argument, one action at a time.                               *)
LEMMA DrainStep == TypeInv /\ DrainInv /\ [Next]_vars => DrainInv'
<1> SUFFICES ASSUME TypeOK, CallInv, DrainInv, [Next]_vars PROVE DrainInv'
  BY DEF TypeInv
<1> USE EventAssumption DEF DrainInv, Located, InQueue, svc, disp, delivery, calls
<1>0. /\ queue \in Seq(Ids) /\ deliveries \in [Ids -> Nat] /\ accepted \subseteq Ids
      /\ pc \in [Threads -> EmitterPC \cup ClosePC] /\ NoEvent \notin Ids
  BY NoEventIsNone DEF TypeOK
<1>1. CASE DispatchTake
  <2>1. \A id \in accepted : Located(id)'
    <3> SUFFICES ASSUME NEW id \in accepted, InQueue(id)
                 PROVE  denv' = id \/ InQueue(id)'
      BY <1>0, <1>1 DEF DispatchTake
    <3>1. PICK i \in 1..Len(queue) : queue[i] = id
      OBVIOUS
    <3>2. CASE i = 1
      BY <1>0, <1>1, <3>1, <3>2, QueueOps DEF DispatchTake
    <3>3. CASE i > 1
      <4>1. /\ queue # <<>> /\ Len(queue') = Len(queue) - 1
            /\ \A j \in 1..Len(queue') : queue'[j] = queue[j + 1]
        BY <1>0, <1>1, QueueOps DEF DispatchTake
      <4>2. i - 1 \in 1..Len(queue') /\ queue'[i - 1] = queue[i]
        BY <1>0, <3>1, <3>3, <4>1
      <4> QED
        BY <3>1, <4>2
    <3> QED
      BY <3>2, <3>3
  <2> QED
    BY <1>1, <2>1 DEF DispatchTake
<1>2. ASSUME NEW id \in Ids, deliver(id)
      PROVE  \A x \in Ids : deliveries'[x] >= deliveries[x] /\ deliveries'[id] >= 1
  BY <1>0, <1>2 DEF deliver
<1>3. CASE DispatchDeliver
  <2>1. denv \in Ids
    BY <1>3 DEF DispatchDeliver, TypeOK
  <2>2. \A x \in Ids : deliveries'[x] >= deliveries[x] /\ deliveries'[denv] >= 1
    BY <1>2, <1>3, <2>1 DEF DispatchDeliver
  <2>3. deliveries' \in [Ids -> Nat]
    BY <1>3, <2>1, DeliverTypes DEF DispatchDeliver
  <2> QED
    <3>1. dpc' # "exited" /\ dpc' = dpc
      BY <1>3 DEF DispatchDeliver
    <3>2. \A id \in accepted : Located(id)'
      <4> SUFFICES ASSUME NEW id \in accepted PROVE Located(id)'
        OBVIOUS
      <4>1. CASE deliveries[id] >= 1
        BY <1>0, <2>2, <2>3, <4>1
      <4>2. CASE denv = id
        BY <2>1, <2>2, <4>2
      <4>3. CASE InQueue(id)
        BY <1>3, <4>3 DEF DispatchDeliver
      <4> QED
        BY <4>1, <4>2, <4>3
    <3> QED
      BY <1>3, <3>1, <3>2 DEF DispatchDeliver
<1>4. CASE DispatchStop
  BY <1>4 DEF DispatchStop
<1>5. CASE DispatchExit
  BY <1>0, <1>5 DEF DispatchExit
<1>6. ASSUME NEW e \in Emitters, NEW k \in {"async", "sync", "fatal"}, Call(e, k)
      PROVE  DrainInv'
  BY <1>0, <1>6 DEF Call, Threads
<1>7. ASSUME NEW e \in Emitters, EnterOnce(e) PROVE DrainInv'
  BY <1>0, <1>7 DEF EnterOnce, Threads
<1>8. ASSUME NEW e \in Emitters, Enqueue(e) PROVE DrainInv'
  <2>1. Current(e) \in Ids
    BY <1>8, CurrentIsEvent DEF Enqueue, CallInv
  <2>2. \A id \in accepted : Located(id)'
    BY <1>0, <1>8, <2>1, QueueOps DEF Enqueue
  <2>3. InQueue(Current(e))'
    <3>1. Len(queue') = Len(queue) + 1 /\ queue'[Len(queue) + 1] = Current(e)
      BY <1>0, <1>8, <2>1, QueueOps DEF Enqueue
    <3>2. Len(queue) + 1 \in 1..Len(queue') /\ Current(e)' = Current(e)
      BY <1>0, <1>8, <3>1 DEF Enqueue, Current
    <3> QED
      BY <3>1, <3>2
  <2> QED
    BY <1>0, <1>8, <2>2, <2>3 DEF Enqueue, Threads, Current
<1>9. ASSUME NEW e \in Emitters, QueueFull(e) \/ Answered(e) \/ SyncTimeout(e)
      PROVE  DrainInv'
  BY <1>0, <1>9 DEF QueueFull, Answered, SyncTimeout, AfterSync, Threads
<1>10. ASSUME NEW e \in Emitters, DirectDeliver(e) PROVE DrainInv'
  <2>1. Current(e) \in Ids
    BY <1>10, CurrentIsEvent DEF DirectDeliver, CallInv
  <2>2. \A x \in Ids : deliveries'[x] >= deliveries[x]
    BY <1>2, <1>10, <2>1 DEF DirectDeliver
  <2>3. deliveries' \in [Ids -> Nat]
    BY <1>10, <2>1, DeliverTypes DEF DirectDeliver
  <2> QED
    BY <1>0, <1>10, <2>2, <2>3 DEF DirectDeliver, Threads
<1>11. ASSUME NEW c \in Closers, CloseCall(c) PROVE DrainInv'
  BY <1>0, <1>11 DEF CloseCall, Threads
<1>12. ASSUME NEW t \in Threads, Finish(t) PROVE DrainInv'
  BY <1>0, <1>12 DEF Finish, StopBegin, StopEnd, Exit
<1>13. CASE Exited \/ UNCHANGED vars
  BY <1>13 DEF Exited, vars
<1> QED
  BY <1>1, <1>3, <1>4, <1>5, <1>6, <1>7, <1>8, <1>9, <1>10, <1>11, <1>12, <1>13
     DEF Next, Dispatch, Emit

(* Every step keeps what mu protects: one Stop at a time.                  *)
LEMMA LockStep == TypeInv /\ LockInv /\ [Next]_vars => LockInv'
<1> SUFFICES ASSUME TypeOK, LockInv, [Next]_vars PROVE LockInv'
  BY DEF TypeInv
<1>0. pc \in [Threads -> EmitterPC \cup ClosePC] /\ NoOne \notin Threads
  BY EventAssumption DEF TypeOK, Threads, Closers, NoOne
<1> USE DEF LockInv, svc
<1>1. CASE Dispatch \/ Exited \/ UNCHANGED vars
  BY <1>1 DEF Dispatch, DispatchTake, DispatchDeliver, DispatchStop, DispatchExit,
              Exited, vars
<1>2. ASSUME NEW e \in Emitters, NEW k \in {"async", "sync", "fatal"}, Call(e, k)
      PROVE  LockInv'
  BY <1>0, <1>2 DEF Call, Threads
<1>3. ASSUME NEW e \in Emitters, Emit(e) PROVE LockInv'
  BY <1>0, <1>3 DEF Emit, EnterOnce, Enqueue, QueueFull, DirectDeliver, Answered,
                    SyncTimeout, AfterSync, Threads
<1>4. ASSUME NEW c \in Closers, CloseCall(c) PROVE LockInv'
  BY <1>0, <1>4 DEF CloseCall, Threads
<1>5. ASSUME NEW t \in Threads, Finish(t) PROVE LockInv'
  BY <1>0, <1>5 DEF Finish, StopBegin, StopEnd, Exit
<1> QED
  BY <1>1, <1>2, <1>3, <1>4, <1>5 DEF Next

(* The invariant of the shutdown path holds in every reachable state.      *)
LEMMA ShutdownInvariant == Spec => [](DrainInv /\ LockInv)
<1>1. Init => DrainInv
  BY NoEventIsNone DEF Init, DrainInv
<1>2. Init => LockInv
  BY DEF Init, LockInv
<1> QED
  BY <1>1, <1>2, TypeInvariant, DrainStep, LockStep, PTL DEF Spec

(* No interleaving of the three callers of Stop closes stopCh twice.       *)
THEOREM StopChClosedOnce == Spec => StopClosesOnce
<1>1. TypeInv /\ LockInv /\ [Next]_vars =>
         [\A t \in Threads : (pc[t] = "stop" /\ pc'[t] = "stopWait")
                                 => ~stopClosed]_vars
  <2> SUFFICES ASSUME TypeOK, LockInv, [Next]_vars, NEW t \in Threads,
                      pc[t] = "stop", pc'[t] = "stopWait"
               PROVE  ~stopClosed
    BY DEF TypeInv
  <2>0. pc \in [Threads -> EmitterPC \cup ClosePC]
    BY DEF TypeOK
  <2>1. CASE Dispatch \/ Exited \/ UNCHANGED vars
    BY <2>1 DEF Dispatch, DispatchTake, DispatchDeliver, DispatchStop, DispatchExit,
                Exited, vars
  <2>2. ASSUME NEW e \in Emitters, NEW k \in {"async", "sync", "fatal"}, Call(e, k)
        PROVE  FALSE
    BY <2>0, <2>2 DEF Call, Threads
  <2>3. ASSUME NEW e \in Emitters, Emit(e) PROVE FALSE
    BY <2>0, <2>3 DEF Emit, EnterOnce, Enqueue, QueueFull, DirectDeliver, Answered,
                      SyncTimeout, AfterSync, Threads
  <2>4. ASSUME NEW c \in Closers, CloseCall(c) PROVE FALSE
    BY <2>0, <2>4 DEF CloseCall, Threads
  <2>5. ASSUME NEW u \in Threads, Finish(u) PROVE ~stopClosed
    BY <2>0, <2>5 DEF Finish, StopBegin, StopEnd, Exit, LockInv
  <2> QED
    BY <2>1, <2>2, <2>3, <2>4, <2>5 DEF Next
<1> QED
  BY <1>1, TypeInvariant, ShutdownInvariant, PTL DEF Spec, StopClosesOnce

-----------------------------------------------------------------------------
(* An emitter that is sending has a numbered event in hand.                *)
LEMMA CurrentCount ==
    ASSUME TypeOK, CallInv, NEW e \in Emitters, pc[e] \in {"emit", "direct"}
    PROVE  Current(e) \in Ids /\ count[e] \in 1..MaxEmits
<1>1. count[e] \in 0..MaxEmits /\ count[e] >= 1 /\ MaxEmits \in Nat
  BY EventAssumption DEF TypeOK, CallInv
<1> QED
  BY <1>1, CurrentIsEvent

(* What a receive of the dispatcher does to the queue.                     *)
LEMMA TakeEffect ==
    ASSUME TypeOK, DispatchTake
    PROVE  /\ Len(queue) >= 1 /\ Len(queue') = Len(queue) - 1 /\ denv' = queue[1]
           /\ \A i \in 1..Len(queue') : i + 1 \in 1..Len(queue) /\ queue'[i] = queue[i + 1]
           /\ deliveries' = deliveries /\ pc' = pc /\ count' = count
           /\ 1 \in 1..Len(queue) /\ Len(queue') \in Nat
<1>1. queue \in Seq(Ids) /\ queue # <<>> /\ queue' = Tail(queue) /\ denv' = Head(queue)
  BY DEF TypeOK, DispatchTake
<1>2. /\ Head(queue) = queue[1] /\ Len(queue) \in Nat \ {0}
      /\ Len(queue') = Len(queue) - 1
      /\ \A i \in 1..Len(queue') : queue'[i] = queue[i + 1]
  BY <1>1, QueueOps
<1>3. deliveries' = deliveries /\ pc' = pc /\ count' = count
  BY DEF DispatchTake, delivery, calls
<1> QED
  BY <1>1, <1>2, <1>3

(* What a send of an emitter does to the queue.                            *)
LEMMA PutEffect ==
    ASSUME TypeOK, CallInv, NEW e \in Emitters, Enqueue(e)
    PROVE  /\ Len(queue') = Len(queue) + 1 /\ queue'[Len(queue) + 1] = <<e, count[e]>>
           /\ \A i \in 1..Len(queue) : queue'[i] = queue[i]
           /\ deliveries' = deliveries /\ denv' = denv /\ count' = count
           /\ pc' = [pc EXCEPT ![e] = IF kind[e] = "async" THEN "idle" ELSE "waiting"]
<1>1. queue \in Seq(Ids) /\ Current(e) \in Ids /\ queue' = Append(queue, Current(e))
  BY CurrentCount DEF TypeOK, Enqueue
<1>2. /\ Len(queue') = Len(queue) + 1 /\ queue'[Len(queue) + 1] = Current(e)
      /\ \A i \in 1..Len(queue) : queue'[i] = queue[i]
  BY <1>1, QueueOps
<1> QED
  BY <1>2 DEF Enqueue, Current, delivery, disp, calls

(* A step that touches no event keeps the one-delivery invariant.          *)
LEMMA OnceKept ==
    ASSUME OnceInv, UNCHANGED <<queue, denv, deliveries, count>>,
           \A e \in Emitters : pc'[e] \in {"once", "emit", "direct"}
                                  => pc[e] \in {"once", "emit", "direct"}
    PROVE  OnceInv'
BY DEF OnceInv, Unsent, InQueue

(* The once argument: an event is handed over once, and moves from its     *)
(* emitter to the queue to the dispatcher without being left behind.       *)
LEMMA OnceStep == TypeInv /\ OnceInv /\ [Next]_vars => OnceInv'
<1> SUFFICES ASSUME TypeOK, CallInv, OnceInv, [Next]_vars PROVE OnceInv'
  BY DEF TypeInv
<1>0. /\ queue \in Seq(Ids) /\ deliveries \in [Ids -> Nat]
      /\ pc \in [Threads -> EmitterPC \cup ClosePC]
      /\ count \in [Emitters -> 0..MaxEmits] /\ denv \in Ids \cup {NoEvent}
      /\ NoEvent \notin Ids /\ MaxEmits \in Nat /\ Len(queue) \in Nat
      /\ \A e \in Emitters, n \in 1..MaxEmits : <<e, n>> \in Ids
      /\ \A i \in 1..Len(queue) : queue[i] \in Ids
  BY NoEventIsNone, EventAssumption DEF TypeOK, Ids
<1> USE DEF OnceInv, InQueue, svc, disp, delivery, calls
<1>1. CASE DispatchTake
  <2>1. /\ Len(queue) >= 1 /\ Len(queue') = Len(queue) - 1 /\ denv' = queue[1]
        /\ \A i \in 1..Len(queue') : i + 1 \in 1..Len(queue) /\ queue'[i] = queue[i + 1]
        /\ deliveries' = deliveries /\ pc' = pc /\ count' = count
    BY <1>1, TakeEffect
  <2>2. 1 \in 1..Len(queue) /\ Len(queue') \in Nat
    BY <1>1, TakeEffect
  <2>3. ASSUME NEW e \in Emitters, NEW n \in 1..MaxEmits, Unsent(e, n)'
        PROVE  deliveries'[<<e, n>>] = 0 /\ denv' # <<e, n>> /\ ~InQueue(<<e, n>>)'
    <3>1. Unsent(e, n)
      BY <2>1, <2>3 DEF Unsent
    <3>2. deliveries[<<e, n>>] = 0 /\ \A i \in 1..Len(queue) : queue[i] # <<e, n>>
      BY <3>1
    <3> QED
      BY <2>1, <2>2, <3>2
  <2>4. ASSUME NEW i \in 1..Len(queue')
        PROVE  deliveries'[queue'[i]] = 0 /\ denv' # queue'[i]
    <3>1. i + 1 \in 1..Len(queue) /\ queue'[i] = queue[i + 1] /\ i + 1 # 1
      BY <2>1, <2>2
    <3> QED
      BY <2>1, <2>2, <3>1
  <2>5. ASSUME NEW i \in 1..Len(queue'), NEW j \in 1..Len(queue'), queue'[i] = queue'[j]
        PROVE  i = j
    <3>1. i + 1 = j + 1
      BY <2>1, <2>5
    <3> QED
      BY <2>2, <3>1
  <2> QED
    BY <2>1, <2>2, <2>3, <2>4, <2>5
<1>2. CASE DispatchDeliver
  <2>1. /\ denv \in Ids /\ denv' = NoEvent /\ queue' = queue /\ pc' = pc
        /\ count' = count /\ deliveries' = [deliveries EXCEPT ![denv] = @ + 1]
    BY <1>0, <1>2 DEF DispatchDeliver, deliver
  <2> QED
    BY <1>0, <2>1 DEF Unsent
<1>3. CASE DispatchStop \/ DispatchExit
  BY <1>3 DEF DispatchStop, DispatchExit, Unsent
<1>4. ASSUME NEW e \in Emitters, NEW k \in {"async", "sync", "fatal"}, Call(e, k)
      PROVE  OnceInv'
  BY <1>0, <1>4 DEF Call, Threads, Unsent
<1>5. ASSUME NEW e \in Emitters, EnterOnce(e) \/ QueueFull(e) \/ Answered(e) \/ SyncTimeout(e)
      PROVE  OnceInv'
  BY <1>0, <1>5, OnceKept DEF EnterOnce, QueueFull, Answered, SyncTimeout, AfterSync, Threads
<1>6. ASSUME NEW e \in Emitters, Enqueue(e) PROVE OnceInv'
  <2>1. count[e] \in 1..MaxEmits
    BY <1>6, CurrentCount DEF Enqueue
  <2>2. /\ Len(queue') = Len(queue) + 1 /\ queue'[Len(queue) + 1] = <<e, count[e]>>
        /\ \A i \in 1..Len(queue) : queue'[i] = queue[i]
        /\ deliveries' = deliveries /\ denv' = denv /\ count' = count
        /\ pc' = [pc EXCEPT ![e] = IF kind[e] = "async" THEN "idle" ELSE "waiting"]
    BY <1>6, PutEffect
  <2>3. Unsent(e, count[e])
    BY <1>6 DEF Enqueue, Unsent
  <2>4. /\ deliveries[<<e, count[e]>>] = 0 /\ denv # <<e, count[e]>>
        /\ \A i \in 1..Len(queue) : queue[i] # <<e, count[e]>>
    BY <2>1, <2>3
  <2>5. \A i \in 1..Len(queue') : i \in 1..Len(queue) \/ i = Len(queue) + 1
    BY <1>0, <2>2
  <2>6. \A f \in Emitters, n \in 1..MaxEmits : Unsent(f, n)' =>
           Unsent(f, n) /\ <<f, n>> # <<e, count[e]>>
    BY <1>0, <2>1, <2>2 DEF Unsent, Threads
  <2>7. \A f \in Emitters, n \in 1..MaxEmits : Unsent(f, n)' =>
           deliveries'[<<f, n>>] = 0 /\ denv' # <<f, n>> /\ ~InQueue(<<f, n>>)'
    BY <2>2, <2>5, <2>6
  <2>8. \A i \in 1..Len(queue') : deliveries'[queue'[i]] = 0 /\ denv' # queue'[i]
    BY <2>2, <2>4, <2>5
  <2>9. \A i, j \in 1..Len(queue') : queue'[i] = queue'[j] => i = j
    BY <2>2, <2>4, <2>5
  <2> QED
    BY <2>2, <2>7, <2>8, <2>9
<1>7. ASSUME NEW e \in Emitters, DirectDeliver(e) PROVE OnceInv'
  <2>1. /\ Current(e) \in Ids /\ count[e] \in 1..MaxEmits
    BY <1>7, CurrentCount DEF DirectDeliver
  <2>2. /\ deliveries' = [deliveries EXCEPT ![<<e, count[e]>>] = @ + 1]
        /\ denv' = denv /\ queue' = queue /\ count' = count
        /\ pc' = [pc EXCEPT ![e] = "waiting"]
    BY <1>7 DEF DirectDeliver, deliver, Current
  <2>3. Unsent(e, count[e])
    BY <1>7 DEF DirectDeliver, Unsent
  <2>4. /\ deliveries[<<e, count[e]>>] = 0 /\ denv # <<e, count[e]>>
        /\ \A i \in 1..Len(queue) : queue[i] # <<e, count[e]>>
    BY <2>1, <2>3
  <2>5. \A f \in Emitters, n \in 1..MaxEmits : Unsent(f, n)' =>
           Unsent(f, n) /\ <<f, n>> # <<e, count[e]>>
    BY <1>0, <2>1, <2>2 DEF Unsent, Threads
  <2> QED
    BY <1>0, <2>1, <2>2, <2>4, <2>5 DEF Current
<1>8. ASSUME NEW c \in Closers, CloseCall(c) PROVE OnceInv'
  BY <1>0, <1>8, OnceKept DEF CloseCall, Threads
<1>9. ASSUME NEW t \in Threads, Finish(t) PROVE OnceInv'
  BY <1>0, <1>9, OnceKept DEF Finish, StopBegin, StopEnd, Exit, Threads
<1>10. CASE Exited \/ UNCHANGED vars
  <2>1. UNCHANGED <<queue, denv, deliveries, count, pc>>
    BY <1>10 DEF Exited, vars
  <2> QED
    BY <2>1, OnceKept
<1> QED
  BY <1>1, <1>2, <1>3, <1>4, <1>5, <1>6, <1>7, <1>8, <1>9, <1>10
     DEF Next, Dispatch, Emit

(* An event is in one place at a time: queue, dispatcher, emitter or gone. *)
LEMMA OnceInvariant == Spec => []OnceInv
<1>1. Init => OnceInv
  BY NoEventIsNone, EventAssumption DEF Init, OnceInv, Unsent, InQueue, Ids
<1> QED
  BY <1>1, TypeInvariant, OnceStep, PTL DEF Spec

(* No event is delivered twice: dispatcher, drain loop and direct delivery *)
(* never handle the same envelope.                                         *)
THEOREM NeverTwice == Spec => []DeliverOnce
BY OnceInvariant, PTL DEF OnceInv, DeliverOnce

(* service.go, run: for any emitters and any capacity of the queue, every  *)
(* event accepted while the dispatcher ran was delivered exactly once when *)
(* it has returned.                                                        *)
THEOREM ShutdownLosesNothing == Spec => []DrainComplete
<1>1. TypeInv /\ DrainInv /\ OnceInv => DrainComplete
  BY DEF TypeInv, TypeOK, DrainInv, OnceInv, DrainComplete
<1> QED
  BY <1>1, TypeInvariant, ShutdownInvariant, OnceInvariant, PTL

(* main.go, events.Fatal: whichever goroutine ends the process, the        *)
(* dispatcher has returned and every accepted event was delivered.         *)
THEOREM NoExitBeforeDrain == Spec => []ExitAfterDrain
<1>1. TypeInv /\ DrainInv /\ OnceInv => ExitAfterDrain
  BY DEF TypeInv, TypeOK, DrainInv, OnceInv, ExitAfterDrain
<1> QED
  BY <1>1, TypeInvariant, ShutdownInvariant, OnceInvariant, PTL

-----------------------------------------------------------------------------
(* Why so little is left behind: the dispatcher returns only when stopCh   *)
(* is closed, from then on no call gets hold of the service, and a call    *)
(* that has it sends once.                                                 *)
LateInv ==
    /\ dpc # "select" => stopClosed
    /\ dpc = "exited" =>
          /\ \A i \in 1..Len(queue) : pc[queue[i][1]] \notin {"once", "emit"}
          /\ \A i, j \in 1..Len(queue) : queue[i][1] = queue[j][1] => i = j

(* Every step keeps it.                                                    *)
LEMMA LateStep == TypeInv /\ LockInv /\ LateInv /\ [Next]_vars => LateInv'
<1> SUFFICES ASSUME TypeOK, CallInv, LockInv, LateInv, [Next]_vars PROVE LateInv'
  BY DEF TypeInv
<1>0. /\ pc \in [Threads -> EmitterPC \cup ClosePC] /\ Emitters \subseteq Threads
      /\ Len(queue) \in Nat /\ \A i \in 1..Len(queue) : queue[i][1] \in Emitters
  BY DEF TypeOK, Ids, Threads
<1> USE DEF LateInv, svc, disp, delivery, calls
<1>1. CASE DispatchTake
  <2>1. dpc' = dpc /\ dpc # "exited" /\ stopClosed' = stopClosed
    BY <1>1 DEF DispatchTake
  <2> QED
    BY <2>1
<1>2. CASE DispatchExit
  <2>1. queue' = <<>> /\ Len(queue') = 0 /\ stopClosed' = stopClosed /\ stopClosed
    BY <1>2 DEF DispatchExit
  <2> QED
    BY <2>1
<1>3. CASE DispatchDeliver \/ DispatchStop \/ Exited \/ UNCHANGED vars
  BY <1>3 DEF DispatchDeliver, DispatchStop, Exited, vars
<1>4. ASSUME NEW e \in Emitters, NEW k \in {"async", "sync", "fatal"}, Call(e, k)
      PROVE  LateInv'
  <2>1. UNCHANGED <<queue, dpc, stopClosed, singleton>> /\ mu = NoOne
    BY <1>4 DEF Call
  <2>2. dpc = "exited" => ~singleton
    BY <2>1 DEF LockInv
  <2>3. dpc = "exited" => pc' = [pc EXCEPT ![e] = "idle"]
    BY <1>4, <2>2 DEF Call
  <2> QED
    BY <1>0, <2>1, <2>3
<1>5. ASSUME NEW e \in Emitters, EnterOnce(e) PROVE LateInv'
  BY <1>0, <1>5 DEF EnterOnce
<1>6. ASSUME NEW e \in Emitters, Enqueue(e) PROVE LateInv'
  <2>1. /\ Len(queue') = Len(queue) + 1 /\ queue'[Len(queue) + 1] = <<e, count[e]>>
        /\ \A i \in 1..Len(queue) : queue'[i] = queue[i]
        /\ pc' = [pc EXCEPT ![e] = IF kind[e] = "async" THEN "idle" ELSE "waiting"]
    BY <1>6, PutEffect
  <2>2. UNCHANGED <<dpc, stopClosed>> /\ pc[e] = "emit"
    BY <1>6 DEF Enqueue
  <2>3. \A i \in 1..Len(queue') : i \in 1..Len(queue) \/ i = Len(queue) + 1
    BY <1>0, <2>1
  <2>4. queue'[Len(queue) + 1][1] = e /\ pc'[e] \notin {"once", "emit"}
    BY <1>0, <2>1
  <2>5. dpc = "exited" => \A i \in 1..Len(queue) : queue[i][1] # e
    BY <2>2
  <2>6. ASSUME dpc = "exited", NEW k \in 1..Len(queue')
        PROVE  pc'[queue'[k][1]] \notin {"once", "emit"}
    <3>1. CASE k \in 1..Len(queue)
      <4>1. queue'[k] = queue[k] /\ queue[k][1] # e /\ queue[k][1] \in Threads
        BY <1>0, <2>1, <2>5, <2>6, <3>1
      <4>2. pc'[queue[k][1]] = pc[queue[k][1]]
        BY <1>0, <2>1, <4>1
      <4> QED
        BY <2>6, <3>1, <4>1, <4>2
    <3> QED
      BY <2>3, <2>4, <3>1
  <2>7. ASSUME dpc = "exited", NEW k \in 1..Len(queue'), NEW m \in 1..Len(queue'),
               queue'[k][1] = queue'[m][1]
        PROVE  k = m
    BY <2>1, <2>3, <2>4, <2>5, <2>7
  <2> QED
    BY <2>2, <2>6, <2>7
<1>7. ASSUME NEW e \in Emitters,
             QueueFull(e) \/ DirectDeliver(e) \/ Answered(e) \/ SyncTimeout(e)
      PROVE  LateInv'
  <2>1. /\ UNCHANGED <<queue, dpc, stopClosed>>
        /\ \E to \in {"idle", "direct", "waiting", "stop"} : pc' = [pc EXCEPT ![e] = to]
    BY <1>7 DEF QueueFull, DirectDeliver, Answered, SyncTimeout, AfterSync
  <2> QED
    BY <1>0, <2>1
<1>8. ASSUME NEW c \in Closers, CloseCall(c) PROVE LateInv'
  BY <1>0, <1>8 DEF CloseCall, Threads
<1>9. ASSUME NEW t \in Threads, Finish(t) PROVE LateInv'
  BY <1>0, <1>9 DEF Finish, StopBegin, StopEnd, Exit
<1> QED
  BY <1>1, <1>2, <1>3, <1>4, <1>5, <1>6, <1>7, <1>8, <1>9 DEF Next, Dispatch, Emit

(* events.go, Stop: an event left in the queue was never accepted, and no  *)
(* emitter leaves more than one, for any emitters and any capacity.        *)
THEOREM StopLeavesFew == Spec => []LeftoversAreLate
<1>1. Init => LateInv
  BY DEF Init, LateInv
<1>2. TypeInv /\ DrainInv /\ OnceInv /\ LateInv => LeftoversAreLate
  <2> SUFFICES ASSUME DrainInv, OnceInv, LateInv, dpc = "exited",
                      NEW i \in 1..Len(queue)
               PROVE  queue[i] \notin accepted
    BY DEF LeftoversAreLate, LateInv
  <2>1. deliveries[queue[i]] = 0
    BY DEF OnceInv
  <2> QED
    BY <2>1 DEF DrainInv
<1> QED
  BY <1>1, <1>2, LateStep, TypeInvariant, ShutdownInvariant, OnceInvariant, PTL DEF Spec
=============================================================================
