------------------------------ MODULE SvcHandler ------------------------------
(* The health service of pkg/exporter/svc/svc_handler.go: one gRPC server  *)
(* on a socket per device kind.  foreverWatcher (pkg/exporter/exporter.go) *)
(* starts a goroutine with Run for every HTTP server it starts and calls   *)
(* Stop before the next one; Close, on a signal, calls Stop as well.       *)
(*                                                                         *)
(* gRPC calls are left out, so that a graceful stop takes no time.         *)
EXTENDS Integers, Sequences, FiniteSets

CONSTANTS
    MaxStarts,   \* bound: how often the service is started
    MaxErrors,   \* bound: sockets that fail while serving
    Sockets      \* the number of sockets: GPU, or GPU and NIC

ASSUME ServiceAssumption ==
    MaxStarts \in Nat \ {0} /\ MaxErrors \in Nat /\ Sockets \in Nat \ {0}

Starts    == 1..MaxStarts
Listeners == 1..Sockets
Servers   == 1..(MaxStarts + 1)   \* 0 stands for nil
Starter   == 0                    \* startServer and stopServer of foreverWatcher
Closer    == -1                   \* Exporter.Close
Threads   == {Starter, Closer} \cup Starts    \* a Run is named by its start

VARIABLES
    enabled,            \* GetHealthServiceState
    grpc, created,      \* SvcHandler.grpc, number of servers made
    stops, down,        \* GracefulStop calls per server, stopped servers
    registered,         \* servers the services are registered with
    started,            \* Runs started so far
    rg, sv,             \* per Run: its server; per Run and socket: Serve
    errChan, errors,
    signalled,          \* the Runs a signal was delivered to
    pc, held, exited    \* held: the server a thread's Stop captured

svc   == <<grpc, created, stops, down, registered>>
serve == <<sv, errChan, errors>>
vars  == <<enabled, svc, started, rg, serve, signalled, pc, held, exited>>

PCs == {"none", "start", "up", "begin", "register", "listen", "recv", "stop",
        "graceful", "join", "exit", "done"}

(* Every variable has its type; the error channel holds at most two.       *)
TypeOK ==
    /\ enabled \in BOOLEAN
    /\ grpc \in {0} \cup Servers /\ created \in Servers
    /\ stops \in [Servers -> Nat] /\ down \subseteq Servers /\ registered \subseteq Servers
    /\ started \in 0..MaxStarts /\ rg \in [Starts -> {0} \cup Servers]
    /\ sv \in [Starts \X Listeners -> {"none", "calling", "serving", "ended"}]
    /\ errChan \in Seq(Servers) /\ Len(errChan) <= 2 /\ errors \in 0..MaxErrors
    /\ signalled \subseteq Threads /\ exited \in {"no", "exit", "fatal"}
    /\ pc \in [Threads -> PCs] /\ held \in [Threads -> {0} \cup Servers]

(* InitSvcs makes the first server.                                        *)
Init ==
    /\ enabled \in BOOLEAN
    /\ grpc = 1 /\ created = 1
    /\ stops = [g \in Servers |-> 0] /\ down = {} /\ registered = {}
    /\ started = 0 /\ rg = [r \in Starts |-> 0]
    /\ sv = [x \in Starts \X Listeners |-> "none"] /\ errChan = <<>> /\ errors = 0
    /\ signalled = {} /\ exited = "no"
    /\ pc = [t \in Threads |-> IF t = Starter THEN "start" ELSE "none"]
    /\ held = [t \in Threads |-> 0]

At(t, from) == exited = "no" /\ pc[t] = from
Goto(t, to) == pc' = [pc EXCEPT ![t] = to]

-----------------------------------------------------------------------------
(* Stop: capture the server and clear the field under grpcMu, then stop    *)
(* the captured server outside the lock.                                   *)
AfterStop(t) == CASE t = Starter -> "start" [] t = Closer -> "exit" [] OTHER -> "join"

(* Mutant: the field is not cleared.                                       *)
StopCapture_NoClear(t) ==
    /\ At(t, "stop")
    /\ held' = [held EXCEPT ![t] = grpc]
    /\ Goto(t, "graceful")
    /\ UNCHANGED <<enabled, svc, started, rg, serve, signalled, exited>>

StopCapture(t) ==
    /\ At(t, "stop")
    /\ held' = [held EXCEPT ![t] = grpc] /\ grpc' = 0
    /\ Goto(t, "graceful")
    /\ UNCHANGED <<enabled, created, stops, down, registered, started, rg, serve,
                   signalled, exited>>

(* GracefulStop, if there is a server: its Serve calls return no error.    *)
GracefulStop(t) ==
    LET g == held[t] IN
    /\ At(t, "graceful")
    /\ Goto(t, AfterStop(t))
    /\ held' = [held EXCEPT ![t] = 0]
    /\ IF g = 0
       THEN UNCHANGED <<stops, down, sv>>
       ELSE /\ stops' = [stops EXCEPT ![g] = @ + 1] /\ down' = down \cup {g}
            /\ sv' = [x \in Starts \X Listeners |->
                        IF rg[x[1]] = g /\ sv[x] = "serving" THEN "ended" ELSE sv[x]]
    /\ UNCHANGED <<enabled, grpc, created, registered, started, rg, errChan, errors,
                   signalled, exited>>

Stop(t) == StopCapture(t) \/ GracefulStop(t)

-----------------------------------------------------------------------------
(* startServer: the configuration may be a new one; Run gets a goroutine.  *)
StartRun ==
    LET r == started + 1 IN
    /\ At(Starter, "start") /\ started < MaxStarts
    /\ started' = r
    /\ enabled' \in BOOLEAN
    /\ pc' = [pc EXCEPT ![Starter] = "up", ![r] = "begin"]
    /\ UNCHANGED <<svc, rg, serve, signalled, held, exited>>

(* stopServer, on the next change of the configuration.                    *)
Restart ==
    /\ At(Starter, "up")
    /\ Goto(Starter, "stop")
    /\ UNCHANGED <<enabled, svc, started, rg, serve, signalled, held, exited>>

(* SIGTERM: Close stops the service; a Run that waits has a channel of its *)
(* own.                                                                    *)
Signal ==
    /\ At(Closer, "none")
    /\ signalled' = {r \in Starts : pc[r] = "recv"}
    /\ Goto(Closer, "stop")
    /\ UNCHANGED <<enabled, svc, started, rg, serve, held, exited>>

Exit ==
    /\ At(Closer, "exit")
    /\ exited' = "exit"
    /\ UNCHANGED <<enabled, svc, started, rg, serve, signalled, pc, held>>

-----------------------------------------------------------------------------
(* Mutant: a new server is made whether or not there is one.               *)
RunBegin_AlwaysNew(r) ==
    /\ At(r, "begin") /\ enabled
    /\ created' = created + 1 /\ grpc' = created + 1
    /\ rg' = [rg EXCEPT ![r] = grpc']
    /\ Goto(r, "register")
    /\ UNCHANGED <<enabled, stops, down, registered, started, serve, signalled, held,
                   exited>>

(* Run returns when the service is disabled, else takes the server, making *)
(* one if there is none, under grpcMu.                                     *)
RunBegin(r) ==
    /\ At(r, "begin")
    /\ \/ /\ ~enabled
          /\ Goto(r, "done")
          /\ UNCHANGED <<grpc, created, rg>>
       \/ /\ enabled
          /\ created' = IF grpc = 0 THEN created + 1 ELSE created
          /\ grpc' = IF grpc = 0 THEN created + 1 ELSE grpc
          /\ rg' = [rg EXCEPT ![r] = grpc']
          /\ Goto(r, "register")
    /\ UNCHANGED <<enabled, stops, down, registered, started, serve, signalled, held,
                   exited>>

(* gRPC ends the process when the server has the service already.          *)
Register(r) ==
    /\ At(r, "register")
    /\ \/ /\ rg[r] \in registered
          /\ exited' = "fatal"
          /\ UNCHANGED <<registered, pc>>
       \/ /\ rg[r] \notin registered
          /\ registered' = registered \cup {rg[r]}
          /\ Goto(r, "listen")
          /\ UNCHANGED exited
    /\ UNCHANGED <<enabled, grpc, created, stops, down, started, rg, serve, signalled,
                   held>>

(* The sockets are opened in order, each with its serving goroutine.       *)
Listen(r, l) ==
    /\ At(r, "listen") /\ sv[<<r, l>>] = "none"
    /\ \A k \in 1..(l - 1) : sv[<<r, k>>] # "none"
    /\ sv' = [sv EXCEPT ![<<r, l>>] = "calling"]
    /\ UNCHANGED <<enabled, svc, started, rg, errChan, errors, signalled, pc, held, exited>>

(* Run returns; the sockets that are open already go on being served.      *)
ListenFails(r) ==
    /\ At(r, "listen") /\ \E l \in Listeners : sv[<<r, l>>] = "none"
    /\ Goto(r, "done")
    /\ UNCHANGED <<enabled, svc, started, rg, serve, signalled, held, exited>>

ListenDone(r) ==
    /\ At(r, "listen") /\ \A l \in Listeners : sv[<<r, l>>] # "none"
    /\ Goto(r, "recv")
    /\ UNCHANGED <<enabled, svc, started, rg, serve, signalled, held, exited>>

(* startAndServeGRPC: an error is reported unless two wait already.        *)
Report(x) ==
    /\ sv' = [sv EXCEPT ![x] = "ended"]
    /\ errChan' = IF Len(errChan) < 2 THEN Append(errChan, rg[x[1]]) ELSE errChan

(* Serve fails at once (ErrServerStopped) on a server stopped before.      *)
Serve(r, l) ==
    /\ exited = "no" /\ sv[<<r, l>>] = "calling"
    /\ \/ /\ rg[r] \in down
          /\ Report(<<r, l>>)
       \/ /\ rg[r] \notin down
          /\ sv' = [sv EXCEPT ![<<r, l>>] = "serving"]
          /\ UNCHANGED errChan
    /\ UNCHANGED <<enabled, svc, started, rg, errors, signalled, pc, held, exited>>

ServeFails(r, l) ==
    /\ exited = "no" /\ sv[<<r, l>>] = "serving" /\ errors < MaxErrors
    /\ errors' = errors + 1
    /\ Report(<<r, l>>)
    /\ UNCHANGED <<enabled, svc, started, rg, signalled, pc, held, exited>>

(* Mutant: the error is logged and the other sockets go on.                *)
Receive_NoStop(r) ==
    /\ At(r, "recv") /\ errChan # <<>>
    /\ errChan' = Tail(errChan)
    /\ Goto(r, "join")
    /\ UNCHANGED <<enabled, svc, started, rg, sv, errors, signalled, held, exited>>

Receive(r) ==
    /\ At(r, "recv") /\ errChan # <<>>
    /\ errChan' = Tail(errChan)
    /\ Goto(r, "stop")
    /\ UNCHANGED <<enabled, svc, started, rg, sv, errors, signalled, held, exited>>

Signalled(r) ==
    /\ At(r, "recv") /\ r \in signalled
    /\ Goto(r, "stop")
    /\ UNCHANGED <<enabled, svc, started, rg, serve, signalled, held, exited>>

(* serverWg.Wait, for the sockets of every Run.                            *)
Join(r) ==
    /\ At(r, "join")
    /\ \A x \in Starts \X Listeners : sv[x] \notin {"calling", "serving"}
    /\ Goto(r, "done")
    /\ UNCHANGED <<enabled, svc, started, rg, serve, signalled, held, exited>>

Run(r) ==
    \/ RunBegin(r) \/ Register(r) \/ ListenDone(r) \/ Receive(r) \/ Signalled(r) \/ Join(r)
    \/ \E l \in Listeners : Listen(r, l)

Next ==
    \/ StartRun \/ Restart \/ Signal \/ Exit
    \/ \E t \in Threads : Stop(t)
    \/ \E r \in Starts : Run(r) \/ ListenFails(r)
    \/ \E r \in Starts, l \in Listeners : Serve(r, l) \/ ServeFails(r, l)

Spec == Init /\ [][Next]_vars

(* A goroutine that can run is scheduled, Go's select takes one of the     *)
(* channels that are ready, and Close goes on to exit.  No socket has to   *)
(* fail, and nobody has to restart or signal.                              *)
Fairness ==
    /\ WF_vars(Exit)
    /\ \A t \in Threads : WF_vars(Stop(t))
    /\ \A r \in Starts : WF_vars(Run(r)) /\ \A l \in Listeners : WF_vars(Serve(r, l))

LiveSpec == Spec /\ Fairness

-----------------------------------------------------------------------------
(* Stop "is safe to call concurrently and more than once": however the     *)
(* watcher, Close and failing Runs interleave, a server is stopped once.   *)
StoppedOnce == \A g \in Servers : stops[g] <= 1

(* No server is forgotten and none has two owners: one that was made is    *)
(* the current one, is being stopped by exactly one caller of Stop, or has *)
(* been stopped.                                                           *)
NoServerForgotten ==
    \A g \in 1..created :
        /\ g = grpc \/ g \in down \/ \E t \in Threads : held[t] = g
        /\ g = grpc => g \notin down
        /\ \A t \in Threads :
             held[t] = g => g # grpc /\ g \notin down /\ \A u \in Threads : held[u] = g => u = t

Waiting == \E r \in Starts : pc[r] = "recv"

(* A socket that fails takes its server down while some Run waits for      *)
(* errors, be it the Run of an earlier start.                              *)
ErrorStopsServer ==
    \A g \in Servers :
        ((\E i \in 1..Len(errChan) : errChan[i] = g) /\ Waiting)
            ~> (g \in down \/ exited # "no")

(* Stop: a server that was stopped serves no socket, and no Run gets it to *)
(* serve one again.                                                        *)
DownServesNothing ==
    \A x \in Starts \X Listeners : rg[x[1]] \in down => sv[x] # "serving"

(* The services are registered once with each server, before it serves.    *)
RegisteredOnce == exited # "fatal"

(* Run: they are registered twice only if two Runs were given one server,  *)
(* which takes a start that finds the server of an earlier one unstopped.  *)
CollisionOfTwo ==
    exited = "fatal" => \E r, q \in Starts : r # q /\ rg[r] # 0 /\ rg[r] = rg[q]

(* A Run whose server was stopped returns.                                 *)
StoppedRunReturns ==
    \A r \in Starts : (rg[r] \in down /\ pc[r] = "recv") ~> (pc[r] # "recv" \/ exited # "no")

(* A Run receives only errors of the server it serves.                     *)
OwnErrors ==
    [][\A r \in Starts : pc[r] = "recv" /\ pc'[r] = "stop" /\ errChan' # errChan
            => grpc \in {0, Head(errChan)}]_vars
=============================================================================
