---------------------------- MODULE ConfigWatcher ----------------------------
(* foreverWatcher (pkg/exporter/exporter.go): the HTTP metrics server, the *)
(* goroutine that restarts it when the configuration file changes, and the *)
(* end of the process through Exporter.Close, a signal or a fatal event.   *)
(*                                                                         *)
(* A configuration is its version.  Requests are left out, and so is what  *)
(* the health service does when it is started and stopped (SvcHandler).    *)
EXTENDS Integers

CONSTANT MaxChanges  \* bound: changes of the configuration file

ASSUME WatcherAssumption == MaxChanges \in Nat

MaxStarts == MaxChanges + 2    \* StartMain, the first debounce, one per change
Starts    == 1..MaxStarts      \* HTTP servers; 0 stands for nil
Closers   == {"main", "closer", "fatal"}   \* closer: the shutdown goroutine of main.go,
Threads   == Closers \cup {"watcher"}      \* fatal: the one that is in events.Fatal

VARIABLES
    file, loaded,           \* the configuration on disk and in runConf
    pending, added, armed,  \* fsnotify event, watcher.Add done, debounce timer
    srv, http, starts,      \* srvHandler, the state of each server, their number
    called,                 \* servers whose goroutine has called Run
    closeFailed,            \* a force-close failed and the old server stays
    handler,                \* Exporter.svcHandler is not nil
    ctxDone, exited,
    signal,                 \* who took SIGTERM from main's channel
    pc

conf  == <<file, loaded>>
watch == <<pending, added, armed>>
httpd == <<srv, http, starts, called, closeFailed>>
life  == <<handler, ctxDone, exited, signal>>
vars  == <<conf, watch, httpd, life, pc>>

PCs == {"none", "startCheck", "serve", "watch", "add", "wait", "loop", "select", "gone",
        "stop", "shutdown", "forceClose", "clear", "svcStop",
        "close", "closeCheck", "closeStop", "closeClear", "exit"}

(* Every variable has its type.                                            *)
TypeOK ==
    /\ file \in 0..MaxChanges /\ loaded \in 0..MaxChanges
    /\ pending \in BOOLEAN /\ added \in BOOLEAN /\ armed \in BOOLEAN
    /\ srv \in {0} \cup Starts /\ starts \in {0} \cup Starts
    /\ called \subseteq Starts /\ closeFailed \in BOOLEAN
    /\ http \in [Starts -> {"none", "starting", "listening", "closed"}]
    /\ handler \in BOOLEAN /\ ctxDone \in BOOLEAN /\ exited \in {"no", "exit", "panic"}
    /\ signal \in {"none", "closer", "collector"}
    /\ pc \in [Threads -> PCs]

(* StartMain has loaded the configuration and made the service handler.    *)
Init ==
    /\ file = 0 /\ loaded = 0
    /\ pending = FALSE /\ added = FALSE /\ armed = FALSE
    /\ srv = 0 /\ http = [k \in Starts |-> "none"] /\ starts = 0 /\ called = {} /\ closeFailed = FALSE
    /\ handler = TRUE /\ ctxDone = FALSE /\ exited = "no" /\ signal = "none"
    /\ pc = [t \in Threads |-> IF t = "main" THEN "startCheck" ELSE "none"]

At(t, from) == exited = "no" /\ pc[t] = from
Goto(t, to) == pc' = [pc EXCEPT ![t] = to]

(* A nil server or handler is dereferenced.                                *)
Panics ==
    /\ exited' = "panic"
    /\ UNCHANGED <<conf, watch, httpd, handler, ctxDone, signal, pc>>

-----------------------------------------------------------------------------
(* stopServer, called by the watcher goroutine on a change and by main at  *)
(* the end.  srvHandler is shared and read again at every use.             *)
AfterStop(t) == IF t = "main" THEN "close" ELSE "startCheck"

StopCheck(t) ==
    /\ At(t, "stop")
    /\ Goto(t, IF srv = 0 THEN AfterStop(t) ELSE "shutdown")
    /\ UNCHANGED <<conf, watch, httpd, life>>

Shutdown(t) ==
    /\ At(t, "shutdown")
    /\ \/ srv = 0 /\ Panics
       \/ /\ srv # 0
          /\ http' = [http EXCEPT ![srv] = "closed"]
          /\ Goto(t, "clear")
          /\ UNCHANGED <<conf, watch, srv, starts, called, closeFailed, life>>

(* The 5s of Shutdown expire with a request in flight, or the listener     *)
(* cannot be closed.  A server that does not listen yet never will.        *)
ShutdownTimeout(t) ==
    /\ At(t, "shutdown") /\ srv # 0
    /\ \E s \in {"closed"} \cup ({http[srv]} \cap {"listening"}) :
         http' = [http EXCEPT ![srv] = s]
    /\ Goto(t, "forceClose")
    /\ UNCHANGED <<conf, watch, srv, starts, called, closeFailed, life>>

ForceClose(t) ==
    /\ At(t, "forceClose")
    /\ \/ srv = 0 /\ Panics
       \/ /\ srv # 0
          /\ http' = [http EXCEPT ![srv] = "closed"]
          /\ Goto(t, "clear")
          /\ UNCHANGED <<conf, watch, srv, starts, called, closeFailed, life>>

(* Mutant: a failed force-close gives the server up all the same.          *)
ForceCloseFails_GoesOn(t) ==
    /\ At(t, "forceClose") /\ srv # 0
    /\ closeFailed' = TRUE
    /\ Goto(t, "clear")
    /\ UNCHANGED <<conf, watch, srv, http, starts, called, life>>

(* "Port may still be bound -- skip nil/restart to avoid bind conflict."   *)
ForceCloseFails(t) ==
    /\ At(t, "forceClose") /\ srv # 0
    /\ closeFailed' = TRUE
    /\ Goto(t, AfterStop(t))
    /\ UNCHANGED <<conf, watch, srv, http, starts, called, life>>

(* After a second of sleep.                                                *)
ClearServer(t) ==
    /\ At(t, "clear")
    /\ srv' = 0
    /\ Goto(t, "svcStop")
    /\ UNCHANGED <<conf, watch, http, starts, called, closeFailed, life>>

HandlerStop(t) ==
    /\ At(t, "svcStop")
    /\ \/ ~handler /\ Panics
       \/ /\ handler
          /\ Goto(t, AfterStop(t))
          /\ UNCHANGED <<conf, watch, httpd, life>>

(* startServer: RefreshConfig, then a new HTTP server and a new Run.       *)
StartCheck(t) ==
    /\ At(t, "startCheck")
    /\ \/ /\ srv # 0
          /\ Goto(t, IF t = "main" THEN "watch" ELSE "loop")
          /\ UNCHANGED loaded
       \/ /\ srv = 0
          /\ loaded' = file
          /\ Goto(t, "serve")
    /\ UNCHANGED <<file, watch, httpd, life>>

StartServe(t) ==
    LET k == starts + 1 IN
    /\ At(t, "serve")
    /\ starts' = k /\ srv' = k /\ http' = [http EXCEPT ![k] = "starting"]
    /\ Goto(t, IF t = "main" THEN "watch" ELSE "loop")
    /\ UNCHANGED <<conf, watch, called, closeFailed, life>>

(* The goroutine that reads svcHandler and calls its Run.                  *)
CallRun(k) ==
    /\ exited = "no" /\ http[k] # "none" /\ k \notin called
    /\ \/ ~handler /\ Panics
       \/ /\ handler
          /\ called' = called \cup {k}
          /\ UNCHANGED <<conf, watch, srv, http, starts, closeFailed, life, pc>>

(* The goroutine of startMetricsServer.  The port may differ from that of  *)
(* the server before, so only the order of the calls keeps them apart.     *)
ListenAndServe(k) ==
    /\ exited = "no" /\ http[k] = "starting"
    /\ http' = [http EXCEPT ![k] = "listening"]
    /\ UNCHANGED <<conf, watch, srv, starts, called, closeFailed, life, pc>>

(* The port is taken, or accepting fails later: events.Fatal, whose        *)
(* cleanup is Exporter.Close.  fatalOnce lets one caller in; the others    *)
(* wait for the process to end.                                            *)
FatalPc(p) == IF p = "none" THEN "close" ELSE p

ServeFails(k) ==
    /\ exited = "no" /\ http[k] \in {"starting", "listening"}
    /\ http' = [http EXCEPT ![k] = "closed"]
    /\ pc' = [pc EXCEPT !["fatal"] = FatalPc(@)]
    /\ UNCHANGED <<conf, watch, srv, starts, called, closeFailed, life>>

-----------------------------------------------------------------------------
(* foreverWatcher: start the first server, start the goroutine with its    *)
(* debounce timer running, add the directory, wait for the context.        *)

(* Mutant: the timer is not armed at the start.                            *)
SpawnWatcher_NotArmed ==
    /\ At("main", "watch")
    /\ pc' = [pc EXCEPT !["main"] = "add", !["watcher"] = "loop"]
    /\ UNCHANGED <<conf, watch, httpd, life>>

SpawnWatcher ==
    /\ At("main", "watch")
    /\ armed' = TRUE
    /\ pc' = [pc EXCEPT !["main"] = "add", !["watcher"] = "loop"]
    /\ UNCHANGED <<conf, pending, added, httpd, life>>

AddWatch ==
    /\ At("main", "add")
    /\ added' = TRUE
    /\ Goto("main", "wait")
    /\ UNCHANGED <<conf, pending, armed, httpd, life>>

(* NewWatcher or Add fails: events.Fatal does not return.                  *)
WatchFails ==
    /\ At("main", "watch") \/ At("main", "add")
    /\ pc' = [pc EXCEPT !["main"] = "gone", !["fatal"] = FatalPc(@)]
    /\ UNCHANGED <<conf, watch, httpd, life>>

Wake ==
    /\ At("main", "wait") /\ ctxDone
    /\ Goto("main", "stop")
    /\ UNCHANGED <<conf, watch, httpd, life>>

(* The goroutine looks at the context only between two selects.            *)
Loop ==
    /\ At("watcher", "loop")
    /\ Goto("watcher", IF ctxDone THEN "gone" ELSE "select")
    /\ UNCHANGED <<conf, watch, httpd, life>>

Notify ==
    /\ At("watcher", "select") /\ pending
    /\ pending' = FALSE /\ armed' = TRUE
    /\ Goto("watcher", "loop")
    /\ UNCHANGED <<conf, added, httpd, life>>

(* Mutant: the timer goes on after it has fired.                           *)
Debounced_Ticker ==
    /\ At("watcher", "select") /\ armed /\ added
    /\ Goto("watcher", "stop")
    /\ UNCHANGED <<conf, watch, httpd, life>>

(* The timer runs for debounceDuration (3s), by which time main has added  *)
(* the directory.                                                          *)
Debounced ==
    /\ At("watcher", "select") /\ armed /\ added
    /\ armed' = FALSE
    /\ Goto("watcher", "stop")
    /\ UNCHANGED <<conf, pending, added, httpd, life>>

(* watcher.Close, when foreverWatcher has returned.                        *)
EventsClosed ==
    /\ At("watcher", "select") /\ added
    /\ pc["main"] \in {"close", "closeCheck", "closeStop", "closeClear", "exit"}
    /\ Goto("watcher", "gone")
    /\ UNCHANGED <<conf, watch, httpd, life>>

-----------------------------------------------------------------------------
(* SIGTERM.  main's channel is read by the shutdown goroutine and by the   *)
(* one that collects garbage; the signal goes to the one waiting longer.   *)
Signal ==
    /\ exited = "no" /\ signal = "none"
    /\ \/ signal' = "closer" /\ Goto("closer", "close")
       \/ signal' = "collector" /\ UNCHANGED pc
    /\ UNCHANGED <<conf, watch, httpd, handler, ctxDone, exited>>

(* Exporter.Close: by the shutdown goroutine, as the cleanup of a fatal    *)
(* event and deferred in StartMain.  svcHandler is read at every use.      *)
Cancel(t) ==
    /\ At(t, "close")
    /\ ctxDone' = TRUE
    /\ Goto(t, "closeCheck")
    /\ UNCHANGED <<conf, watch, httpd, handler, exited, signal>>

CloseCheck(t) ==
    /\ At(t, "closeCheck")
    /\ Goto(t, IF handler THEN "closeStop" ELSE "exit")
    /\ UNCHANGED <<conf, watch, httpd, life>>

CloseStop(t) ==
    /\ At(t, "closeStop")
    /\ \/ ~handler /\ Panics
       \/ /\ handler
          /\ Goto(t, "closeClear")
          /\ UNCHANGED <<conf, watch, httpd, life>>

CloseClear(t) ==
    /\ At(t, "closeClear")
    /\ handler' = FALSE
    /\ Goto(t, "exit")
    /\ UNCHANGED <<conf, watch, httpd, ctxDone, exited, signal>>

(* cleanupResources and events.Stop; then os.Exit, or main returns.        *)
Exit(t) ==
    /\ At(t, "exit")
    /\ exited' = "exit"
    /\ UNCHANGED <<conf, watch, httpd, handler, ctxDone, signal, pc>>

-----------------------------------------------------------------------------
(* The file is edited; only a watched directory is reported.               *)
Change ==
    /\ exited = "no" /\ file < MaxChanges
    /\ file' = file + 1
    /\ pending' = (pending \/ added)
    /\ UNCHANGED <<loaded, added, armed, httpd, life, pc>>

stopServer(t) ==
    StopCheck(t) \/ Shutdown(t) \/ ForceClose(t) \/ ClearServer(t) \/ HandlerStop(t)

startServer(t) == StartCheck(t) \/ StartServe(t)

Close(t) == Cancel(t) \/ CloseCheck(t) \/ CloseStop(t) \/ CloseClear(t) \/ Exit(t)

Main == SpawnWatcher \/ AddWatch \/ Wake \/ stopServer("main") \/ startServer("main")

Watcher ==
    \/ Loop \/ Notify \/ Debounced \/ EventsClosed
    \/ stopServer("watcher") \/ startServer("watcher")

Fails ==
    \/ WatchFails
    \/ \E t \in {"main", "watcher"} : ShutdownTimeout(t) \/ ForceCloseFails(t)
    \/ \E k \in Starts : ServeFails(k)

Next ==
    \/ Main \/ Watcher
    \/ \E t \in Closers : Close(t)
    \/ \E k \in Starts : ListenAndServe(k) \/ CallRun(k)
    \/ Change \/ Signal \/ Fails

Spec == Init /\ [][Next]_vars

(* The goroutines are scheduled, and Close ends.  Nothing has to change,   *)
(* fail or be signalled.                                                   *)
Fairness ==
    /\ WF_vars(Main) /\ WF_vars(Watcher)
    /\ \A t \in Closers : WF_vars(Close(t))

LiveSpec == Spec /\ Fairness

-----------------------------------------------------------------------------
(* At most one HTTP metrics server accepts requests, whatever timed out or *)
(* failed while the one before was stopped (startServer, stopServer).      *)
OneHttp == \A j, k \in Starts : http[j] = "listening" /\ http[k] = "listening" => j = k

(* The debounce timer of foreverWatcher: beyond the first server and the   *)
(* restart after the set-up, a change costs at most one restart, however   *)
(* its events, the timer and a restart under way fall together.            *)
RestartsBounded == starts <= file + 2

(* Unless the process ends or the old server cannot be closed, the server  *)
(* that is up in the end runs with the configuration on disk, also when    *)
(* that changed while the watcher was being set up or during a restart.    *)
ConfigConverges ==
    <>[](ctxDone \/ closeFailed \/ exited # "no" \/ (srv # 0 /\ loaded = file))

(* SvcHandler.Stop may be called by anyone at any time: by stopServer      *)
(* after its sleep of a second, by Close, by both.                         *)
StopIsSafe == [][\A t \in Threads : HandlerStop(t) \/ CloseStop(t) => exited' # "panic"]_vars

(* A signal that main's channel delivers shuts the exporter down.          *)
SignalExits == signal # "none" ~> exited # "no"
=============================================================================
