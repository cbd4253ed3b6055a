-------------------------- MODULE SvcHandlerProofs --------------------------
(* Every gRPC server of the health service has one owner and is stopped at *)
(* most once, for any number of starts, sockets and failures.              *)
EXTENDS SvcHandler, FiniteSetTheorems, TLAPS

(* The servers in use have been made, and a server is down exactly if      *)
(* GracefulStop was called on it, once.                                    *)
Made ==
    /\ created \in Nat /\ created >= 1 /\ grpc \in 0..created
    /\ down \subseteq 1..created
    /\ held \in [Threads -> 0..created]
    /\ stops \in [Servers -> Nat]
    /\ \A g \in Servers : stops[g] = IF g \in down THEN 1 ELSE 0

(* A thread holds a server only between the two steps of Stop.             *)
HeldInStop ==
    /\ pc \in [Threads -> PCs]
    /\ \A t \in Threads : pc[t] # "graceful" => held[t] = 0
    /\ started \in Nat /\ \A r \in Starts : r > started => pc[r] = "none"

IInv == Made /\ NoServerForgotten
Inv  == IInv /\ HeldInStop

(* The initial server is the current one.                                  *)
LEMMA InitMade == Init => IInv
<1> SUFFICES ASSUME Init PROVE IInv
  OBVIOUS
<1>1. Made
  BY ServiceAssumption DEF Init, Made, Servers
<1>2. NoServerForgotten
  BY DEF Init, NoServerForgotten
<1> QED BY <1>1, <1>2 DEF IInv

(* What does not touch the servers keeps the invariant.                    *)
LEMMA SvcUnchanged ==
    ASSUME IInv, UNCHANGED <<grpc, created, stops, down, held>>
    PROVE  IInv'
BY DEF IInv, Made, NoServerForgotten

(* Stop takes the current server from the field, under the mutex.          *)
LEMMA CaptureKeeps ==
    ASSUME NEW t \in Threads, IInv, StopCapture(t), held[t] = 0
    PROVE  IInv'
<1>1. /\ held' = [held EXCEPT ![t] = grpc] /\ grpc' = 0
      /\ UNCHANGED <<created, stops, down>>
  BY DEF StopCapture
<1>2. Made'
  BY <1>1 DEF IInv, Made
<1>3. NoServerForgotten'
  <2> SUFFICES ASSUME NEW g \in 1..created
      PROVE  /\ g = grpc' \/ g \in down' \/ \E u \in Threads : held'[u] = g
             /\ g = grpc' => g \notin down'
             /\ \A u \in Threads :
                  held'[u] = g => /\ g # grpc' /\ g \notin down'
                                  /\ \A w \in Threads : held'[w] = g => w = u
    BY <1>1 DEF NoServerForgotten
  <2>1. /\ held'[t] = grpc
        /\ \A u \in Threads : u # t => held'[u] = held[u]
    BY <1>1 DEF IInv, Made
  <2>2. g # 0 /\ held[t] # g
    BY DEF IInv, Made
  <2> QED BY <1>1, <2>1, <2>2 DEF IInv, Made, NoServerForgotten
<1> QED BY <1>2, <1>3 DEF IInv

(* GracefulStop makes the captured server one that is down.                *)
LEMMA GracefulKeeps ==
    ASSUME NEW t \in Threads, IInv, GracefulStop(t)
    PROVE  IInv'
<1>1. /\ held' = [held EXCEPT ![t] = 0] /\ UNCHANGED <<grpc, created>>
      /\ held[t] = 0 => UNCHANGED <<stops, down>>
      /\ held[t] # 0 => /\ stops' = [stops EXCEPT ![held[t]] = @ + 1]
                        /\ down' = down \cup {held[t]}
  BY DEF GracefulStop
<1>2. /\ held'[t] = 0
      /\ \A u \in Threads : u # t => held'[u] = held[u]
  BY <1>1 DEF IInv, Made
<1>3. CASE held[t] = 0
  <2>1. held' = held
    BY <1>1, <1>3 DEF IInv, Made
  <2> QED BY <1>1, <1>3, <2>1, SvcUnchanged
<1>4. CASE held[t] # 0
  <2>1. held[t] \in 1..created /\ held[t] \notin down /\ held[t] # grpc
    BY <1>4 DEF IInv, Made, NoServerForgotten
  <2>2. Made'
    <3>1. down' = down \cup {held[t]} /\ down' \subseteq 1..created'
      BY <1>1, <1>4, <2>1 DEF IInv, Made
    <3>2. held' \in [Threads -> 0..created']
      BY <1>1 DEF IInv, Made
    <3>3. stops' \in [Servers -> Nat]
      BY <1>1, <1>4 DEF IInv, Made
    <3>4. ASSUME NEW g \in Servers PROVE stops'[g] = IF g \in down' THEN 1 ELSE 0
      BY <1>1, <1>4, <2>1 DEF IInv, Made
    <3> QED BY <1>1, <3>1, <3>2, <3>3, <3>4 DEF IInv, Made
  <2>3. NoServerForgotten'
    <3> SUFFICES ASSUME NEW g \in 1..created
        PROVE  /\ g = grpc' \/ g \in down' \/ \E u \in Threads : held'[u] = g
               /\ g = grpc' => g \notin down'
               /\ \A u \in Threads :
                    held'[u] = g => /\ g # grpc' /\ g \notin down'
                                    /\ \A w \in Threads : held'[w] = g => w = u
      BY <1>1 DEF NoServerForgotten
    <3>1. g # 0
      OBVIOUS
    <3> QED BY <1>1, <1>2, <1>4, <2>1, <3>1 DEF IInv, NoServerForgotten
  <2> QED BY <2>2, <2>3 DEF IInv
<1> QED BY <1>3, <1>4

(* Run makes a server only when there is none.                             *)
LEMMA BeginKeeps ==
    ASSUME NEW r \in Starts, IInv, RunBegin(r)
    PROVE  IInv'
<1>1. UNCHANGED <<stops, down, held>>
  BY DEF RunBegin
<1>2. CASE UNCHANGED <<grpc, created>>
  BY <1>1, <1>2, SvcUnchanged
<1>3. CASE grpc = 0 /\ created' = created + 1 /\ grpc' = created + 1
  <2>1. Made'
    BY <1>1, <1>3 DEF IInv, Made
  <2>2. NoServerForgotten'
    <3>1. \A t \in Threads : held[t] # created + 1
      BY DEF IInv, Made
    <3>2. created + 1 \notin down
      BY DEF IInv, Made
    <3>3. \A g \in 1..created' : g \in 1..created \/ g = created + 1
      BY <1>3 DEF IInv, Made
    <3>4. \A g \in 1..created : g # created + 1 /\ g # 0
      BY DEF IInv, Made
    <3> QED BY <1>1, <1>3, <3>1, <3>2, <3>3, <3>4 DEF IInv, NoServerForgotten
  <2> QED BY <2>1, <2>2 DEF IInv
<1> QED BY <1>2, <1>3 DEF RunBegin

(* Goto leaves the labels well typed and the other threads alone.          *)
LEMMA GotoKeeps ==
    ASSUME HeldInStop, NEW t \in Threads, NEW to \in PCs, Goto(t, to),
           pc[t] \notin {"none", "graceful"}, to # "graceful", UNCHANGED <<held, started>>
    PROVE  HeldInStop'
BY DEF HeldInStop, Goto

(* Every step keeps the servers in order.                                  *)
LEMMA StepKeeps == Inv /\ [Next]_vars => Inv'
<1> SUFFICES ASSUME Inv, [Next]_vars PROVE Inv'
  OBVIOUS
<1>0. Starts \subseteq Threads /\ Starter \in Threads /\ Closer \in Threads
  BY DEF Threads
<1>1. CASE StartRun
  <2>1. IInv'
    BY <1>1, SvcUnchanged DEF Inv, StartRun, svc
  <2>2. /\ started + 1 \in Starts /\ started + 1 > started /\ started + 1 # Starter
        /\ pc[Starter] = "start" /\ started' = started + 1 /\ held' = held
        /\ pc' = [pc EXCEPT ![Starter] = "up", ![started + 1] = "begin"]
    BY <1>1, ServiceAssumption DEF StartRun, Inv, HeldInStop, Starts, Starter, At
  <2>3. HeldInStop'
    BY <1>0, <2>2, ServiceAssumption DEF Inv, HeldInStop, PCs, Starts, Starter
  <2> QED BY <2>1, <2>3 DEF Inv
<1>2. CASE Restart
  BY <1>0, <1>2, SvcUnchanged, GotoKeeps DEF Inv, Restart, At, svc, PCs
<1>3. CASE Signal
  <2>1. IInv'
    BY <1>3, SvcUnchanged DEF Inv, Signal, svc
  <2>2. HeldInStop'
    BY <1>0, <1>3 DEF Inv, Signal, At, Goto, HeldInStop, PCs, Closer, Starts
  <2> QED BY <2>1, <2>2 DEF Inv
<1>4. CASE Exit
  BY <1>4, SvcUnchanged DEF Inv, Exit, svc, HeldInStop
<1>5. ASSUME NEW t \in Threads, Stop(t) PROVE Inv'
  <2>1. CASE StopCapture(t)
    <3>1. IInv'
      BY <2>1, CaptureKeeps DEF Inv, HeldInStop, StopCapture, At
    <3>2. HeldInStop'
      BY <2>1 DEF Inv, HeldInStop, StopCapture, At, Goto, PCs
    <3> QED BY <3>1, <3>2 DEF Inv
  <2>2. CASE GracefulStop(t)
    <3>1. IInv'
      BY <2>2, GracefulKeeps DEF Inv
    <3>2. AfterStop(t) \in PCs
      BY DEF AfterStop, PCs
    <3>3. /\ pc[t] = "graceful" /\ pc' = [pc EXCEPT ![t] = AfterStop(t)]
          /\ held' = [held EXCEPT ![t] = 0] /\ started' = started
      BY <2>2 DEF GracefulStop, At, Goto
    <3>4. HeldInStop'
      BY <3>2, <3>3 DEF Inv, IInv, Made, HeldInStop
    <3> QED BY <3>1, <3>4 DEF Inv
  <2> QED BY <1>5, <2>1, <2>2 DEF Stop
<1>6. ASSUME NEW r \in Starts, Run(r) \/ ListenFails(r) PROVE Inv'
  <2>1. CASE RunBegin(r)
    BY <1>0, <2>1, BeginKeeps, GotoKeeps DEF Inv, RunBegin, At, PCs
  <2>2. CASE Register(r)
    <3>1. IInv'
      BY <2>2, SvcUnchanged DEF Inv, Register
    <3>2. CASE UNCHANGED pc
      BY <2>2, <3>1, <3>2 DEF Inv, HeldInStop, Register
    <3>3. CASE Goto(r, "listen")
      BY <1>0, <2>2, <3>1, <3>3, GotoKeeps DEF Inv, Register, At, PCs
    <3> QED BY <2>2, <3>2, <3>3 DEF Register
  <2>3. CASE ListenDone(r) \/ ListenFails(r)
    BY <1>0, <2>3, SvcUnchanged, GotoKeeps DEF Inv, ListenDone, ListenFails, At, svc, PCs
  <2>4. CASE Receive(r) \/ Signalled(r)
    BY <1>0, <2>4, SvcUnchanged, GotoKeeps DEF Inv, Receive, Signalled, At, svc, PCs
  <2>5. CASE Join(r)
    BY <1>0, <2>5, SvcUnchanged, GotoKeeps DEF Inv, Join, At, svc, PCs
  <2>6. CASE \E l \in Listeners : Listen(r, l)
    BY <2>6, SvcUnchanged DEF Inv, HeldInStop, Listen, svc
  <2> QED BY <1>6, <2>1, <2>2, <2>3, <2>4, <2>5, <2>6 DEF Run
<1>7. ASSUME NEW r \in Starts, NEW l \in Listeners, Serve(r, l) \/ ServeFails(r, l) PROVE Inv'
  BY <1>7, SvcUnchanged DEF Inv, HeldInStop, Serve, ServeFails, svc
<1>8. CASE UNCHANGED vars
  BY <1>8, SvcUnchanged DEF Inv, HeldInStop, vars, svc
<1> QED BY <1>1, <1>2, <1>3, <1>4, <1>5, <1>6, <1>7, <1>8 DEF Next

(* The labels start outside Stop.                                          *)
LEMMA InitHolds == Init => Inv
BY InitMade, ServiceAssumption DEF Inv, HeldInStop, Init, PCs, Threads, Starts, Starter, Closer

(* The servers stay in order in every behaviour.                           *)
THEOREM Invariance == Spec => []Inv
<1> QED BY InitHolds, StepKeeps, PTL DEF Spec

(* Whoever calls Stop, how often and how concurrently: no gRPC server is   *)
(* stopped twice.                                                          *)
THEOREM NeverStoppedTwice == Spec => []StoppedOnce
<1>1. Inv => StoppedOnce
  BY DEF Inv, IInv, Made, StoppedOnce
<1> QED BY <1>1, Invariance, PTL

(* A server that was made is current, being stopped by one caller, or      *)
(* stopped: Run and Stop never lose one or own one twice.                  *)
THEOREM EveryServerOwned == Spec => []NoServerForgotten
<1>1. Inv => NoServerForgotten
  BY DEF Inv, IInv
<1> QED BY <1>1, Invariance, PTL

-----------------------------------------------------------------------------
(* The Runs that have taken a server or found the service disabled.        *)
Begun == {r \in Starts : pc[r] \notin {"none", "begin"}}

CountInv == created <= 1 + Cardinality(Begun)

(* The Runs are finitely many.                                             *)
LEMMA BegunFinite ==
    /\ IsFiniteSet(Begun) /\ Cardinality(Begun) \in Nat
    /\ Cardinality(Begun) <= MaxStarts
<1>1. IsFiniteSet(Starts) /\ Cardinality(Starts) = MaxStarts
  BY ServiceAssumption, FS_Interval DEF Starts
<1>2. Begun \subseteq Starts
  BY DEF Begun
<1> QED BY <1>1, <1>2, FS_Subset, FS_CardinalityType

(* A Run does not begin twice.                                             *)
LEMMA Onward ==
    ASSUME Inv, [Next]_vars
    PROVE  Begun \subseteq Begun'
<1> SUFFICES ASSUME NEW r \in Starts, pc[r] \notin {"none", "begin"}
             PROVE  pc'[r] \notin {"none", "begin"}
  BY DEF Begun
<1>0. /\ pc \in [Threads -> PCs] /\ r \in Threads /\ r # Starter /\ r # Closer
      /\ Starter \in Threads /\ Closer \in Threads /\ Starts \subseteq Threads
  BY DEF Inv, HeldInStop, Threads, Starts, Starter, Closer
<1>1. CASE StartRun
  <2>1. /\ started + 1 \in Starts /\ started + 1 > started
        /\ pc' = [pc EXCEPT ![Starter] = "up", ![started + 1] = "begin"]
    BY <1>1, ServiceAssumption DEF StartRun, Inv, HeldInStop, Starts
  <2>2. r # started + 1
    BY <2>1 DEF Inv, HeldInStop
  <2> QED BY <1>0, <2>1, <2>2
<1>2. CASE Restart \/ Signal \/ Exit
  BY <1>0, <1>2 DEF Restart, Signal, Exit, Goto
<1>3. ASSUME NEW t \in Threads, Stop(t) PROVE pc'[r] \notin {"none", "begin"}
  BY <1>0, <1>3 DEF Stop, StopCapture, GracefulStop, AfterStop, Goto
<1>4. ASSUME NEW q \in Starts, Run(q) \/ ListenFails(q)
      PROVE  pc'[r] \notin {"none", "begin"}
  BY <1>0, <1>4 DEF Run, RunBegin, Register, Listen, ListenFails, ListenDone, Receive,
     Signalled, Join, Goto
<1>5. ASSUME NEW q \in Starts, NEW l \in Listeners, Serve(q, l) \/ ServeFails(q, l)
      PROVE  pc'[r] \notin {"none", "begin"}
  BY <1>5 DEF Serve, ServeFails
<1>6. CASE UNCHANGED vars
  BY <1>6 DEF vars
<1> QED BY <1>1, <1>2, <1>3, <1>4, <1>5, <1>6 DEF Next

(* A Run makes at most one server.                                         *)
LEMMA CountKeeps == Inv /\ CountInv /\ [Next]_vars => CountInv'
<1> SUFFICES ASSUME Inv, CountInv, [Next]_vars PROVE CountInv'
  OBVIOUS
<1>0. created \in Nat
  BY DEF Inv, IInv, Made
<1>1. Begun' \subseteq Starts /\ IsFiniteSet(Starts)
  BY ServiceAssumption, FS_Interval DEF Begun, Starts
<1>2. IsFiniteSet(Begun') /\ Cardinality(Begun') \in Nat
  BY <1>1, FS_Subset, FS_CardinalityType
<1>3. Cardinality(Begun) <= Cardinality(Begun')
  BY <1>2, Onward, FS_Subset
<1>4. CASE UNCHANGED created
  BY <1>0, <1>2, <1>3, <1>4, BegunFinite DEF CountInv
<1>5. ASSUME NEW r \in Starts, RunBegin(r), created' = created + 1 PROVE CountInv'
  <2>1. pc[r] = "begin" /\ pc'[r] = "register" /\ r \in Threads
    BY <1>0, <1>5 DEF RunBegin, At, Goto, Inv, HeldInStop, Threads
  <2>2. r \notin Begun /\ Begun \cup {r} \subseteq Begun'
    BY <2>1, Onward DEF Begun
  <2>3. Cardinality(Begun \cup {r}) = Cardinality(Begun) + 1
    BY <2>2, BegunFinite, FS_AddElement
  <2>4. Cardinality(Begun \cup {r}) <= Cardinality(Begun')
    BY <1>2, <2>2, FS_Subset
  <2> QED BY <1>0, <1>2, <1>5, <2>3, <2>4, BegunFinite DEF CountInv
<1>6. UNCHANGED created \/ \E r \in Starts : RunBegin(r) /\ created' = created + 1
  BY DEF Next, StartRun, Restart, Signal, Exit, Stop, StopCapture, GracefulStop, Run,
     RunBegin, Register, Listen, ListenFails, ListenDone, Receive, Signalled, Join, Serve,
     ServeFails, svc, vars
<1> QED BY <1>4, <1>5, <1>6

(* The other variables; a Run that serves a socket has a server.           *)
RunType ==
    /\ enabled \in BOOLEAN /\ registered \subseteq Servers
    /\ started \in 0..MaxStarts /\ rg \in [Starts -> {0} \cup Servers]
    /\ sv \in [Starts \X Listeners -> {"none", "calling", "serving", "ended"}]
    /\ errChan \in Seq(Servers) /\ Len(errChan) <= 2 /\ errors \in 0..MaxErrors
    /\ signalled \subseteq Threads /\ exited \in {"no", "exit", "fatal"}
    /\ \A r \in Starts : rg[r] = 0 => /\ pc[r] \in {"none", "begin", "done"}
                                      /\ \A l \in Listeners : sv[<<r, l>>] = "none"

(* The servers made are among those the Runs may make.                     *)
LEMMA ServersBounded ==
    ASSUME Inv, CountInv
    PROVE  created \in Servers
<1>1. created \in Nat /\ created >= 1
  BY DEF Inv, IInv, Made
<1>2. created <= MaxStarts + 1
  BY <1>1, BegunFinite, ServiceAssumption DEF CountInv
<1> QED BY <1>1, <1>2, ServiceAssumption DEF Servers

(* So they are after a step.                                               *)
LEMMA StillBounded ==
    ASSUME Inv, CountInv, [Next]_vars
    PROVE  grpc' \in {0} \cup Servers
<1>1. created' \in Nat /\ grpc' \in 0..created'
  BY StepKeeps DEF Inv, IInv, Made
<1>2. Begun' \subseteq Starts /\ IsFiniteSet(Starts) /\ Cardinality(Starts) = MaxStarts
  BY ServiceAssumption, FS_Interval DEF Begun, Starts
<1>3. Cardinality(Begun') \in Nat /\ Cardinality(Begun') <= MaxStarts
  BY <1>2, FS_Subset, FS_CardinalityType
<1>4. created' <= 1 + Cardinality(Begun')
  BY CountKeeps DEF CountInv
<1> QED BY <1>1, <1>3, <1>4, ServiceAssumption DEF Servers

(* A reported error is one of the servers made.                            *)
LEMMA ReportKeeps ==
    ASSUME RunType, NEW r \in Starts, NEW l \in Listeners, sv[<<r, l>>] # "none",
           Report(<<r, l>>), UNCHANGED <<rg, pc>>
    PROVE  /\ sv' \in [Starts \X Listeners -> {"none", "calling", "serving", "ended"}]
           /\ errChan' \in Seq(Servers) /\ Len(errChan') <= 2
           /\ \A q \in Starts : rg'[q] = 0 => \A k \in Listeners : sv'[<<q, k>>] = "none"
<1>1. rg[r] \in Servers
  BY DEF RunType
<1>2. sv' = [sv EXCEPT ![<<r, l>>] = "ended"]
  BY DEF Report
<1>3. errChan' \in Seq(Servers) /\ Len(errChan') <= 2
  <2>1. errChan \in Seq(Servers) /\ Len(errChan) <= 2
    BY DEF RunType
  <2>2. errChan' = errChan \/ (Len(errChan) < 2 /\ errChan' = Append(errChan, rg[r]))
    BY DEF Report
  <2> QED BY <1>1, <2>1, <2>2
<1>4. ASSUME NEW q \in Starts, rg'[q] = 0, NEW k \in Listeners
      PROVE  sv'[<<q, k>>] = "none"
  <2>1. q # r /\ sv[<<q, k>>] = "none"
    BY <1>1, <1>4, ServiceAssumption DEF RunType, Servers
  <2> QED BY <1>2, <2>1 DEF RunType
<1> QED BY <1>2, <1>3, <1>4 DEF RunType

(* Every step keeps them.                                                  *)
LEMMA RunTypeKeeps == Inv /\ CountInv /\ RunType /\ [Next]_vars => RunType'
<1> SUFFICES ASSUME Inv, CountInv, RunType, [Next]_vars PROVE RunType'
  OBVIOUS
<1>0. /\ pc \in [Threads -> PCs] /\ Starts \subseteq Threads
      /\ Starter \in Threads /\ Closer \in Threads
      /\ Starter \notin Starts /\ Closer \notin Starts /\ 0 \notin Servers
  BY DEF Inv, HeldInStop, Threads, Starts, Starter, Closer, Servers
<1>1. CASE StartRun
  <2>1. started' \in 0..MaxStarts /\ enabled' \in BOOLEAN
    BY <1>1, ServiceAssumption DEF StartRun, RunType
  <2>2. /\ UNCHANGED <<svc, rg, serve, signalled, held, exited>>
        /\ pc' = [pc EXCEPT ![Starter] = "up", ![started + 1] = "begin"]
    BY <1>1 DEF StartRun
  <2>3. \A r \in Starts : pc'[r] = pc[r] \/ pc'[r] = "begin"
    BY <1>0, <2>2
  <2> QED BY <2>1, <2>2, <2>3 DEF RunType, svc, serve
<1>2. CASE Restart \/ Exit
  BY <1>0, <1>2 DEF Restart, Exit, Goto, At, RunType, svc, serve
<1>3. CASE Signal
  BY <1>0, <1>3 DEF Signal, Goto, At, RunType, svc, serve
<1>4. ASSUME NEW t \in Threads, StopCapture(t) PROVE RunType'
  BY <1>0, <1>4 DEF StopCapture, Goto, At, RunType, serve
<1>5. ASSUME NEW t \in Threads, GracefulStop(t) PROVE RunType'
  <2>1. /\ UNCHANGED <<enabled, registered, started, rg, errChan, errors, signalled, exited>>
        /\ pc[t] = "graceful" /\ pc' = [pc EXCEPT ![t] = AfterStop(t)]
    BY <1>5 DEF GracefulStop, At, Goto
  <2>2. /\ sv' \in [Starts \X Listeners -> {"none", "calling", "serving", "ended"}]
        /\ \A x \in Starts \X Listeners : sv[x] = "none" => sv'[x] = "none"
    <3>1. CASE sv' = sv
      BY <3>1 DEF RunType
    <3>2. CASE sv' = [x \in Starts \X Listeners |->
                        IF rg[x[1]] = held[t] /\ sv[x] = "serving" THEN "ended" ELSE sv[x]]
      BY <3>2 DEF RunType
    <3> QED BY <1>5, <3>1, <3>2 DEF GracefulStop
  <2>3. \A r \in Starts : pc[r] \in {"none", "begin", "done"} => pc'[r] = pc[r]
    BY <1>0, <2>1
  <2> QED BY <2>1, <2>2, <2>3 DEF RunType
<1>6. ASSUME NEW r \in Starts, RunBegin(r) PROVE RunType'
  <2>1. UNCHANGED <<enabled, registered, started, serve, signalled, exited>>
    BY <1>6 DEF RunBegin
  <2>2. grpc' \in {0} \cup Servers
    BY StillBounded
  <2>3. CASE enabled
    <3>1. grpc' # 0 /\ rg' = [rg EXCEPT ![r] = grpc'] /\ pc' = [pc EXCEPT ![r] = "register"]
      BY <1>6, <2>3 DEF RunBegin, Goto, Inv, IInv, Made
    <3> QED BY <1>0, <2>1, <2>2, <3>1 DEF RunType, serve
  <2>4. CASE ~enabled
    <3>1. UNCHANGED rg /\ pc' = [pc EXCEPT ![r] = "done"]
      BY <1>6, <2>4 DEF RunBegin, Goto
    <3> QED BY <1>0, <2>1, <3>1 DEF RunType, serve
  <2> QED BY <2>3, <2>4
<1>7. ASSUME NEW r \in Starts, Register(r) PROVE RunType'
  <2>1. rg[r] \in Servers
    BY <1>7 DEF Register, At, RunType
  <2> QED BY <1>0, <1>7, <2>1 DEF Register, Goto, At, RunType, serve
<1>8. ASSUME NEW r \in Starts, NEW l \in Listeners, Listen(r, l) PROVE RunType'
  <2>1. /\ UNCHANGED <<enabled, svc, started, rg, errChan, errors, signalled, pc, exited>>
        /\ pc[r] = "listen" /\ sv' = [sv EXCEPT ![<<r, l>>] = "calling"]
    BY <1>8 DEF Listen, At
  <2>2. rg[r] # 0
    BY <2>1 DEF RunType
  <2>3. sv' \in [Starts \X Listeners -> {"none", "calling", "serving", "ended"}]
    BY <2>1 DEF RunType
  <2>4. ASSUME NEW q \in Starts, rg[q] = 0, NEW k \in Listeners PROVE sv'[<<q, k>>] = "none"
    BY <2>1, <2>2, <2>4 DEF RunType
  <2> QED BY <2>1, <2>3, <2>4 DEF RunType, svc
<1>9. ASSUME NEW r \in Starts,
             ListenFails(r) \/ ListenDone(r) \/ Signalled(r) \/ Join(r)
      PROVE  RunType'
  <2>1. /\ UNCHANGED <<enabled, svc, started, rg, serve, signalled, exited>>
        /\ pc[r] \in {"listen", "recv", "join"}
        /\ \E to \in {"done", "recv", "stop"} : pc' = [pc EXCEPT ![r] = to]
    BY <1>9 DEF ListenFails, ListenDone, Signalled, Join, At, Goto
  <2>2. rg[r] # 0
    BY <2>1 DEF RunType
  <2>3. \A q \in Starts : q # r => pc'[q] = pc[q]
    BY <1>0, <2>1
  <2> QED BY <2>1, <2>2, <2>3 DEF RunType, svc, serve
<1>10. ASSUME NEW r \in Starts, Receive(r) PROVE RunType'
  <2>1. /\ UNCHANGED <<enabled, svc, started, rg, sv, errors, signalled, exited>>
        /\ pc[r] = "recv" /\ pc' = [pc EXCEPT ![r] = "stop"]
        /\ errChan # <<>> /\ errChan' = Tail(errChan)
    BY <1>10 DEF Receive, At, Goto
  <2>2. errChan' \in Seq(Servers) /\ Len(errChan') <= 2
    BY <2>1 DEF RunType
  <2>3. rg[r] # 0
    BY <2>1 DEF RunType
  <2>4. \A q \in Starts : q # r => pc'[q] = pc[q]
    BY <1>0, <2>1
  <2> QED BY <2>1, <2>2, <2>3, <2>4 DEF RunType, svc
<1>11. ASSUME NEW r \in Starts, NEW l \in Listeners, Serve(r, l) \/ ServeFails(r, l)
       PROVE  RunType'
  <2>1. /\ UNCHANGED <<enabled, svc, started, rg, signalled, pc, exited>>
        /\ sv[<<r, l>>] \in {"calling", "serving"}
    BY <1>11 DEF Serve, ServeFails
  <2>2. errors' \in 0..MaxErrors
    BY <1>11, ServiceAssumption DEF Serve, ServeFails, RunType
  <2>3. CASE Report(<<r, l>>)
    BY <2>1, <2>2, <2>3, ReportKeeps DEF RunType, svc
  <2>4. CASE sv' = [sv EXCEPT ![<<r, l>>] = "serving"] /\ UNCHANGED errChan
    <3>1. rg[r] # 0
      BY <2>1 DEF RunType
    <3>2. sv' \in [Starts \X Listeners -> {"none", "calling", "serving", "ended"}]
      BY <2>4 DEF RunType
    <3>3. ASSUME NEW q \in Starts, rg[q] = 0, NEW k \in Listeners PROVE sv'[<<q, k>>] = "none"
      BY <2>4, <3>1, <3>3 DEF RunType
    <3> QED BY <2>1, <2>2, <2>4, <3>2, <3>3 DEF RunType, svc
  <2> QED BY <1>11, <2>3, <2>4 DEF Serve, ServeFails
<1>12. CASE UNCHANGED vars
  BY <1>12 DEF vars, svc, serve, RunType
<1> QED BY <1>1, <1>2, <1>3, <1>4, <1>5, <1>6, <1>7, <1>8, <1>9, <1>10, <1>11, <1>12
        DEF Next, Stop, Run

(* The types and the number of servers hold throughout.                    *)
LEMMA RunInvariant == Spec => [](CountInv /\ RunType)
<1>1. Init => CountInv /\ RunType
  <2> SUFFICES ASSUME Init PROVE CountInv /\ RunType
    OBVIOUS
  <2>1. CountInv
    BY BegunFinite DEF Init, CountInv
  <2>2. /\ started \in 0..MaxStarts /\ rg \in [Starts -> {0} \cup Servers]
        /\ sv \in [Starts \X Listeners -> {"none", "calling", "serving", "ended"}]
        /\ errChan \in Seq(Servers) /\ Len(errChan) <= 2 /\ errors \in 0..MaxErrors
    BY ServiceAssumption DEF Init
  <2>3. \A r \in Starts : pc[r] = "none" /\ \A l \in Listeners : sv[<<r, l>>] = "none"
    BY DEF Init, Threads, Starts, Starter
  <2> QED BY <2>1, <2>2, <2>3 DEF Init, RunType
<1> QED BY <1>1, Invariance, CountKeeps, RunTypeKeeps, PTL DEF Spec

(* Every variable of the service has its type; the servers are as many as  *)
(* the Runs and one.                                                       *)
THEOREM TypeCorrect == Spec => []TypeOK
<1>1. Inv /\ CountInv /\ RunType => TypeOK
  <2> SUFFICES ASSUME Inv, CountInv, RunType PROVE TypeOK
    OBVIOUS
  <2>1. /\ created \in Nat /\ created \in Servers /\ grpc \in 0..created
        /\ down \subseteq 1..created /\ held \in [Threads -> 0..created]
        /\ stops \in [Servers -> Nat] /\ pc \in [Threads -> PCs]
    BY ServersBounded DEF Inv, IInv, Made, HeldInStop
  <2>2. 0..created \subseteq {0} \cup Servers /\ 1..created \subseteq Servers
    BY <2>1, ServiceAssumption DEF Servers
  <2>3. held \in [Threads -> {0} \cup Servers]
    BY <2>1, <2>2
  <2> QED BY <2>1, <2>2, <2>3 DEF RunType, TypeOK
<1> QED BY <1>1, Invariance, RunInvariant, PTL

-----------------------------------------------------------------------------
(* A Run takes one server, before it registers, and keeps it: whoever is   *)
(* registered is the server of a Run that is past the registration.        *)
Past == {r \in Starts : pc[r] \notin {"none", "begin", "register"}}

OwnInv ==
    /\ \A r \in Starts \ Begun : rg[r] = 0 /\ \A l \in Listeners : sv[<<r, l>>] = "none"
    /\ \A g \in registered : \E q \in Past : rg[q] = g
UseInv == OwnInv /\ DownServesNothing /\ CollisionOfTwo

(* A Run does not register twice.                                          *)
LEMMA PastOnward ==
    ASSUME Inv, [Next]_vars
    PROVE  Past \subseteq Past'
<1> SUFFICES ASSUME NEW r \in Past
             PROVE  pc'[r] \notin {"none", "begin", "register"}
  BY DEF Past
<1>0. /\ pc \in [Threads -> PCs] /\ r \in Threads /\ r # Starter /\ r # Closer
      /\ Starter \in Threads /\ Closer \in Threads /\ Starts \subseteq Threads
      /\ pc[r] \notin {"none", "begin", "register"} /\ r \in Starts
  BY DEF Inv, HeldInStop, Threads, Starts, Starter, Closer, Past
<1>1. r \in Begun'
  BY <1>0, Onward DEF Begun
<1>2. CASE StartRun
  <2>1. pc' = [pc EXCEPT ![Starter] = "up", ![started + 1] = "begin"]
    BY <1>2 DEF StartRun
  <2> QED BY <1>0, <1>1, <2>1 DEF Begun
<1>3. CASE Restart \/ Signal \/ Exit
  BY <1>0, <1>3 DEF Restart, Signal, Exit, Goto
<1>4. ASSUME NEW t \in Threads, Stop(t) PROVE pc'[r] # "register"
  BY <1>0, <1>4 DEF Stop, StopCapture, GracefulStop, AfterStop, Goto
<1>5. ASSUME NEW q \in Starts, Run(q) \/ ListenFails(q)
      PROVE  pc'[r] # "register"
  BY <1>0, <1>5 DEF Run, RunBegin, Register, Listen, ListenFails, ListenDone, Receive,
     Signalled, Join, Goto, At
<1>6. ASSUME NEW q \in Starts, NEW l \in Listeners, Serve(q, l) \/ ServeFails(q, l)
      PROVE  pc'[r] # "register"
  BY <1>0, <1>6 DEF Serve, ServeFails
<1>7. CASE UNCHANGED vars
  BY <1>0, <1>7 DEF vars
<1> QED BY <1>1, <1>2, <1>3, <1>4, <1>5, <1>6, <1>7 DEF Next, Begun

(* A step that gives no Run a server and starts no socket keeps all three. *)
LEMMA UseKept ==
    ASSUME Inv, UseInv, [Next]_vars, UNCHANGED <<rg, registered, down, exited, sv>>
    PROVE  UseInv'
<1>1. Begun \subseteq Begun' /\ Past \subseteq Past'
  BY Onward, PastOnward
<1>2. OwnInv'
  BY <1>1 DEF UseInv, OwnInv
<1> QED BY <1>2 DEF UseInv, DownServesNothing, CollisionOfTwo

(* Every step keeps them.                                                  *)
LEMMA UseStep == Inv /\ CountInv /\ RunType /\ UseInv /\ [Next]_vars => UseInv'
<1> SUFFICES ASSUME Inv, RunType, UseInv, [Next]_vars PROVE UseInv'
  OBVIOUS
<1>0. /\ rg \in [Starts -> {0} \cup Servers]
      /\ sv \in [Starts \X Listeners -> {"none", "calling", "serving", "ended"}]
      /\ pc \in [Threads -> PCs] /\ Starts \subseteq Threads
      /\ Begun \subseteq Begun' /\ Past \subseteq Past' /\ Past \subseteq Begun
  BY Onward, PastOnward DEF RunType, Inv, HeldInStop, Threads, Past, Begun
<1>1. ASSUME NEW r \in Starts, RunBegin(r) PROVE UseInv'
  <2>1. CASE ~enabled
    BY <1>1, <2>1, UseKept DEF RunBegin, serve
  <2>2. CASE enabled
    <3>1. /\ rg' = [rg EXCEPT ![r] = grpc'] /\ pc[r] = "begin"
          /\ pc' = [pc EXCEPT ![r] = "register"]
          /\ UNCHANGED <<registered, down, sv>> /\ exited = "no" /\ exited' = "no"
      BY <1>1, <2>2 DEF RunBegin, At, Goto, serve
    <3>2. r \notin Begun /\ r \notin Past /\ r \in Begun'
      BY <1>0, <3>1 DEF Begun, Past
    <3>3. \A l \in Listeners : sv[<<r, l>>] = "none"
      BY <3>2 DEF UseInv, OwnInv
    <3>4. OwnInv'
      BY <1>0, <3>1, <3>2 DEF UseInv, OwnInv
    <3>5. DownServesNothing'
      <4> SUFFICES ASSUME NEW x \in Starts \X Listeners, rg'[x[1]] \in down'
                   PROVE  sv'[x] # "serving"
        BY DEF DownServesNothing
      <4>1. x = <<x[1], x[2]>> /\ x[1] \in Starts /\ x[2] \in Listeners
        OBVIOUS
      <4>2. CASE x[1] = r
        BY <3>1, <3>3, <4>1, <4>2
      <4>3. CASE x[1] # r
        BY <1>0, <3>1, <4>1, <4>3 DEF UseInv, DownServesNothing
      <4> QED BY <4>2, <4>3
    <3>6. CollisionOfTwo'
      BY <3>1 DEF CollisionOfTwo
    <3> QED BY <3>4, <3>5, <3>6 DEF UseInv
  <2> QED BY <2>1, <2>2, <1>0 DEF RunType
<1>2. ASSUME NEW r \in Starts, Register(r) PROVE UseInv'
  <2>1. UNCHANGED <<rg, down, sv>> /\ pc[r] = "register" /\ exited = "no"
    BY <1>2 DEF Register, At, serve
  <2>2. DownServesNothing'
    BY <2>1 DEF UseInv, DownServesNothing
  <2>3. CASE rg[r] \in registered
    <3>1. UNCHANGED <<registered, pc>>
      BY <1>2, <2>3 DEF Register
    <3>2. PICK q \in Past : rg[q] = rg[r]
      BY <2>3 DEF UseInv, OwnInv
    <3>3. q \in Starts /\ q # r
      BY <2>1, <3>2 DEF Past
    <3>4. rg[r] # 0
      BY <2>1 DEF RunType
    <3>5. CollisionOfTwo'
      BY <2>1, <3>2, <3>3, <3>4 DEF CollisionOfTwo
    <3>6. OwnInv'
      BY <1>0, <2>1, <3>1 DEF UseInv, OwnInv
    <3> QED BY <2>2, <3>5, <3>6 DEF UseInv
  <2>4. CASE rg[r] \notin registered
    <3>1. /\ registered' = registered \cup {rg[r]} /\ exited' = "no"
          /\ pc' = [pc EXCEPT ![r] = "listen"]
      BY <1>2, <2>1, <2>4 DEF Register, Goto
    <3>2. r \in Past'
      BY <1>0, <3>1 DEF Past
    <3>3. OwnInv'
      BY <1>0, <2>1, <3>1, <3>2 DEF UseInv, OwnInv
    <3>4. CollisionOfTwo'
      BY <3>1 DEF CollisionOfTwo
    <3> QED BY <2>2, <3>3, <3>4 DEF UseInv
  <2> QED BY <2>3, <2>4
<1>3. ASSUME UNCHANGED <<rg, registered, exited>>,
             \A x \in Starts \X Listeners : sv'[x] = sv[x] \/ x[1] \in Begun
      PROVE  OwnInv' /\ CollisionOfTwo'
  <2>1. OwnInv'
    <3>1. ASSUME NEW r \in Starts \ Begun'
          PROVE  rg'[r] = 0 /\ \A l \in Listeners : sv'[<<r, l>>] = "none"
      <4>1. r \in Starts \ Begun
        BY <1>0
      <4>2. \A l \in Listeners : <<r, l>> \in Starts \X Listeners /\ <<r, l>>[1] = r
        OBVIOUS
      <4> QED BY <1>3, <4>1, <4>2 DEF UseInv, OwnInv
    <3> QED BY <1>0, <1>3, <3>1 DEF UseInv, OwnInv
  <2> QED BY <1>3, <2>1 DEF UseInv, CollisionOfTwo
<1>4. ASSUME NEW t \in Threads, GracefulStop(t) PROVE UseInv'
  <2>1. UNCHANGED <<rg, registered, exited>>
    BY <1>4 DEF GracefulStop
  <2>2. CASE held[t] = 0
    BY <1>4, <2>2, UseKept DEF GracefulStop
  <2>3. CASE held[t] # 0
    <3>1. /\ down' = down \cup {held[t]}
          /\ sv' = [x \in Starts \X Listeners |->
                      IF rg[x[1]] = held[t] /\ sv[x] = "serving" THEN "ended" ELSE sv[x]]
      BY <1>4, <2>3 DEF GracefulStop
    <3>2. DownServesNothing'
      BY <2>1, <3>1 DEF UseInv, DownServesNothing
    <3>3. \A x \in Starts \X Listeners : sv'[x] = sv[x] \/ x[1] \in Begun
      <4> SUFFICES ASSUME NEW x \in Starts \X Listeners, x[1] \notin Begun
                   PROVE  sv'[x] = sv[x]
        OBVIOUS
      <4>1. x = <<x[1], x[2]>> /\ x[1] \in Starts /\ x[2] \in Listeners
        OBVIOUS
      <4>2. sv[x] = "none"
        BY <4>1 DEF UseInv, OwnInv
      <4> QED BY <3>1, <4>2
    <3> QED BY <1>3, <2>1, <3>2, <3>3 DEF UseInv
  <2> QED BY <2>2, <2>3
<1>5. ASSUME NEW r \in Starts, NEW l \in Listeners,
             Listen(r, l) \/ Serve(r, l) \/ ServeFails(r, l)
      PROVE  UseInv'
  <2>1. /\ UNCHANGED <<rg, registered, exited, down>>
        /\ \E to \in {"calling", "serving", "ended"} : sv' = [sv EXCEPT ![<<r, l>>] = to]
        /\ sv'[<<r, l>>] = "serving" => rg[r] \notin down
    <3>1. CASE Listen(r, l)
      BY <1>0, <3>1 DEF Listen, svc
    <3>2. CASE Serve(r, l)
      BY <1>0, <3>2 DEF Serve, Report, svc
    <3>3. CASE ServeFails(r, l)
      BY <1>0, <3>3 DEF ServeFails, Report, svc
    <3> QED BY <1>5, <3>1, <3>2, <3>3
  <2>2. r \in Begun
    <3>1. CASE Listen(r, l)
      BY <3>1 DEF Listen, At, Begun
    <3>2. CASE Serve(r, l) \/ ServeFails(r, l)
      <4>1. sv[<<r, l>>] # "none"
        BY <3>2 DEF Serve, ServeFails
      <4> QED BY <4>1 DEF UseInv, OwnInv
    <3> QED BY <1>5, <3>1, <3>2
  <2>3. DownServesNothing'
    BY <1>0, <2>1 DEF UseInv, DownServesNothing
  <2>4. \A x \in Starts \X Listeners : sv'[x] = sv[x] \/ x[1] \in Begun
    BY <1>0, <2>1, <2>2
  <2> QED BY <1>3, <2>1, <2>3, <2>4 DEF UseInv
<1>6. CASE Exit
  <2>1. UNCHANGED <<rg, registered, down, sv>> /\ exited' = "exit"
    BY <1>6 DEF Exit, svc, serve
  <2> QED BY <1>0, <2>1 DEF UseInv, OwnInv, DownServesNothing, CollisionOfTwo
<1>7. CASE StartRun \/ Restart \/ Signal
  BY <1>7, UseKept DEF StartRun, Restart, Signal, svc, serve
<1>8. ASSUME NEW t \in Threads, StopCapture(t) PROVE UseInv'
  BY <1>8, UseKept DEF StopCapture, serve
<1>9. ASSUME NEW r \in Starts, ListenDone(r) \/ ListenFails(r) \/ Receive(r) \/ Signalled(r) \/ Join(r)
      PROVE  UseInv'
  BY <1>9, UseKept DEF ListenDone, ListenFails, Receive, Signalled, Join, svc, serve
<1>10. CASE UNCHANGED vars
  BY <1>10, UseKept DEF vars, svc, serve
<1> QED BY <1>1, <1>2, <1>4, <1>5, <1>6, <1>7, <1>8, <1>9, <1>10 DEF Next, Stop, Run

(* A Run uses the one server it took.                                      *)
LEMMA UseInvariant == Spec => []UseInv
<1>1. Init => UseInv
  <2> SUFFICES ASSUME Init PROVE UseInv
    OBVIOUS
  <2>1. /\ registered = {} /\ down = {} /\ exited = "no"
        /\ \A r \in Starts : rg[r] = 0 /\ \A l \in Listeners : sv[<<r, l>>] = "none"
    BY DEF Init
  <2> QED BY <2>1 DEF UseInv, OwnInv, DownServesNothing, CollisionOfTwo
<1> QED BY <1>1, UseStep, Invariance, RunInvariant, PTL DEF Spec

(* Stop, startAndServeGRPC: for any starts and sockets, however Stop races *)
(* with a Serve that is just being called, a stopped server serves none.   *)
THEOREM StoppedServesNothing == Spec => []DownServesNothing
<1>1. UseInv => DownServesNothing
  BY DEF UseInv
<1> QED BY <1>1, UseInvariant, PTL

(* Run: gRPC ends the process only when two Runs share a server.           *)
THEOREM FatalNeedsTwoRuns == Spec => []CollisionOfTwo
<1>1. UseInv => CollisionOfTwo
  BY DEF UseInv
<1> QED BY <1>1, UseInvariant, PTL

(* Run: without a restart, no service is registered twice, whatever fails  *)
(* and whoever stops the server.                                           *)
THEOREM OneStartRegistersOnce ==
    ASSUME MaxStarts = 1
    PROVE  Spec => []RegisteredOnce
<1>1. CollisionOfTwo => RegisteredOnce
  BY DEF CollisionOfTwo, RegisteredOnce, Starts
<1> QED BY <1>1, FatalNeedsTwoRuns, PTL
=============================================================================
