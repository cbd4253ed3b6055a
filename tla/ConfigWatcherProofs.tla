------------------------ MODULE ConfigWatcherProofs ------------------------
(* However the restarts, the failures and the end of the process           *)
(* interleave, and for any number of changes, the HTTP metrics servers are *)
(* up one at a time.                                                       *)
EXTENDS ConfigWatcher, TLAPS

(* A server that listens or is about to.                                   *)
Live(k) == http[k] \in {"starting", "listening"}

(* The watcher has left its last restart when the context is done.         *)
WatcherDone == pc["watcher"] \in {"loop", "gone"}

(* A server that is not srvHandler's is one that main forgot at the end:   *)
(* it cleared what the watcher's last restart had just set.                *)
ServerInv ==
    /\ http \in [Starts -> {"none", "starting", "listening", "closed"}]
    /\ \A j, k \in Starts : Live(j) /\ Live(k) => j = k
    /\ \A k \in Starts : Live(k) => k = srv \/ (ctxDone /\ WatcherDone)

(* Where the two callers of stopServer and startServer are.                *)
PcInv ==
    /\ pc \in [Threads -> PCs]
    /\ pc["main"] \in {"stop", "shutdown", "forceClose", "clear", "svcStop"} => ctxDone
    /\ pc["main"] \in {"startCheck", "serve", "watch"} => pc["watcher"] = "none"
    /\ pc["main"] \in {"startCheck", "serve"} => srv = 0
    /\ pc["watcher"] = "serve" => srv = 0
    /\ pc["watcher"] = "clear" => \A k \in Starts : ~Live(k)
    /\ pc["main"] = "clear" => WatcherDone \/ \A k \in Starts : ~Live(k)

Inv == ServerInv /\ PcInv

(* 0, which stands for nil, is no server.                                  *)
LEMMA NilIsNoServer == 0 \notin Starts
BY DEF Starts

(* A server that is being stopped is the only one, unless the watcher has  *)
(* left its last restart.                                                  *)
LEMMA StopKeeps ==
    ASSUME Inv, NEW t \in {"main", "watcher"}, stopServer(t)
    PROVE  Inv'
<1> USE DEF Inv, ServerInv, PcInv, Live, WatcherDone, At, Goto, Threads, Closers, PCs
<1>1. CASE StopCheck(t)
  BY <1>1 DEF StopCheck, AfterStop, httpd, life
<1>2. CASE Shutdown(t)
  BY <1>2, NilIsNoServer DEF Shutdown, Panics, httpd, life
<1>3. CASE ForceClose(t)
  BY <1>3, NilIsNoServer DEF ForceClose, Panics, httpd, life
<1>4. CASE ClearServer(t)
  BY <1>4 DEF ClearServer, life
<1>5. CASE HandlerStop(t)
  BY <1>5 DEF HandlerStop, Panics, AfterStop, httpd, life
<1> QED BY <1>1, <1>2, <1>3, <1>4, <1>5 DEF stopServer

(* The same when stopping fails.                                           *)
LEMMA StopFailureKeeps ==
    ASSUME Inv, NEW t \in {"main", "watcher"}, ShutdownTimeout(t) \/ ForceCloseFails(t)
    PROVE  Inv'
<1> USE DEF Inv, ServerInv, PcInv, Live, WatcherDone, At, Goto, Threads, Closers, PCs
<1>1. CASE ShutdownTimeout(t)
  BY <1>1, NilIsNoServer DEF ShutdownTimeout, life
<1>2. CASE ForceCloseFails(t)
  BY <1>2 DEF ForceCloseFails, AfterStop, life
<1> QED BY <1>1, <1>2

(* A server is started when no other is up.                                *)
LEMMA StartKeeps ==
    ASSUME Inv, NEW t \in {"main", "watcher"}, startServer(t)
    PROVE  Inv'
<1> USE DEF Inv, ServerInv, PcInv, Live, WatcherDone, At, Goto, Threads, Closers, PCs
<1>1. CASE StartCheck(t)
  BY <1>1 DEF StartCheck, httpd, life
<1>2. CASE StartServe(t)
  <2>1. \A k \in Starts : ~Live(k)
    BY <1>2, NilIsNoServer DEF StartServe
  <2> QED BY <1>2, <2>1 DEF StartServe, life
<1> QED BY <1>1, <1>2 DEF startServer

(* A server's goroutines.                                                  *)
LEMMA ServeKeeps ==
    ASSUME Inv, NEW k \in Starts, ListenAndServe(k) \/ CallRun(k) \/ ServeFails(k)
    PROVE  Inv'
<1> USE DEF Inv, ServerInv, PcInv, Live, WatcherDone, Goto, Threads, Closers, PCs
<1>1. CASE ListenAndServe(k)
  BY <1>1 DEF ListenAndServe, life
<1>2. CASE CallRun(k)
  BY <1>2 DEF CallRun, Panics, httpd, life
<1>3. CASE ServeFails(k)
  BY <1>3 DEF ServeFails, FatalPc, life
<1> QED BY <1>1, <1>2, <1>3

(* The watcher and the end of the process start and stop no server.        *)
LEMMA OthersKeep ==
    ASSUME Inv,
           \/ SpawnWatcher \/ AddWatch \/ WatchFails \/ Wake
           \/ Loop \/ Notify \/ Debounced \/ EventsClosed
           \/ Change \/ Signal \/ \E t \in Closers : Close(t)
    PROVE  Inv'
<1> USE DEF Inv, ServerInv, PcInv, Live, WatcherDone, At, Goto, Threads, Closers, PCs, httpd, life
<1>1. CASE SpawnWatcher
  BY <1>1 DEF SpawnWatcher
<1>2. CASE AddWatch \/ WatchFails \/ Wake
  BY <1>2 DEF AddWatch, WatchFails, FatalPc, Wake
<1>3. CASE Loop
  BY <1>3 DEF Loop
<1>4. CASE Notify \/ Debounced \/ EventsClosed
  BY <1>4 DEF Notify, Debounced, EventsClosed
<1>5. CASE Change
  BY <1>5 DEF Change
<1>6. CASE Signal
  BY <1>6 DEF Signal
<1>7. ASSUME NEW t \in Closers, Close(t) PROVE Inv'
  BY <1>7 DEF Close, Cancel, CloseCheck, CloseStop, CloseClear, Exit, Panics
<1> QED BY <1>1, <1>2, <1>3, <1>4, <1>5, <1>6, <1>7

(* At most one HTTP metrics server listens, for any number of changes.     *)
THEOREM ServersOneAtATime == Spec => []OneHttp
<1>1. Init => Inv
  BY DEF Init, Inv, ServerInv, PcInv, Live, WatcherDone, Threads, Closers, PCs
<1>2. Inv /\ [Next]_vars => Inv'
  <2> SUFFICES ASSUME Inv, [Next]_vars PROVE Inv'
    OBVIOUS
  <2>1. CASE Main
    BY <2>1, OthersKeep, StopKeeps, StartKeeps DEF Main
  <2>2. CASE Watcher
    BY <2>2, OthersKeep, StopKeeps, StartKeeps DEF Watcher
  <2>3. CASE Fails
    BY <2>3, OthersKeep, StopFailureKeeps, ServeKeeps DEF Fails
  <2>4. CASE \/ \E t \in Closers : Close(t)
             \/ Change \/ Signal
    BY <2>4, OthersKeep
  <2>5. CASE \E k \in Starts : ListenAndServe(k) \/ CallRun(k)
    BY <2>5, ServeKeeps
  <2>6. CASE UNCHANGED vars
    BY <2>6 DEF vars, httpd, life, Inv, ServerInv, PcInv, Live, WatcherDone
  <2> QED BY <2>1, <2>2, <2>3, <2>4, <2>5, <2>6 DEF Next
<1>3. Inv => OneHttp
  BY DEF Inv, ServerInv, Live, OneHttp
<1> QED BY <1>1, <1>2, <1>3, PTL DEF Spec

-----------------------------------------------------------------------------
One(b) == IF b THEN 1 ELSE 0

(* The starts that are still to come without another change: main's first, *)
(* the one of the timer armed at the set-up, that of a restart under way,  *)
(* of an armed timer and of an event not yet received.                     *)
ToCome ==
    One(pc["main"] \in {"startCheck", "serve"})
    + One(pc["main"] \in {"startCheck", "serve", "watch"})
    + One(pc["watcher"] \in {"stop", "shutdown", "forceClose", "clear", "svcStop",
                             "startCheck", "serve"})
    + One(armed) + One(pending)

StartInv == TypeOK /\ starts + ToCome <= file + 2

(* startServer finds room for one more server.                             *)
LEMMA RoomToStart ==
    ASSUME StartInv, NEW t \in {"main", "watcher"}, pc[t] = "serve"
    PROVE  starts + 1 \in Starts
<1>1. starts \in Nat /\ file \in Nat /\ file <= MaxChanges
  BY WatcherAssumption DEF StartInv, TypeOK, Starts, MaxStarts
<1>2. starts + 1 <= file + 2
  BY <1>1 DEF StartInv, ToCome, One
<1> QED BY <1>1, <1>2, WatcherAssumption DEF Starts, MaxStarts

(* Every variable keeps its type.                                          *)
LEMMA TypesKeep == StartInv /\ [Next]_vars => TypeOK'
<1> SUFFICES ASSUME StartInv, [Next]_vars PROVE TypeOK'
  OBVIOUS
<1>0. TypeOK
  BY DEF StartInv
<1> USE <1>0 DEF TypeOK, At, Goto, Threads, Closers, PCs, conf, watch, httpd, life
<1>1. ASSUME NEW t \in {"main", "watcher"}, stopServer(t) PROVE TypeOK'
  <2>1. CASE StopCheck(t) BY <2>1 DEF StopCheck, AfterStop
  <2>2. CASE Shutdown(t) \/ ForceClose(t)
    BY <2>2, NilIsNoServer DEF Shutdown, ForceClose, Panics
  <2>3. CASE ClearServer(t) BY <2>3 DEF ClearServer
  <2>4. CASE HandlerStop(t) BY <2>4 DEF HandlerStop, Panics, AfterStop
  <2> QED BY <1>1, <2>1, <2>2, <2>3, <2>4 DEF stopServer
<1>2. ASSUME NEW t \in {"main", "watcher"}, startServer(t) PROVE TypeOK'
  <2>1. CASE StartCheck(t) BY <2>1 DEF StartCheck
  <2>2. CASE StartServe(t)
    <3>1. starts + 1 \in Starts
      BY <2>2, RoomToStart DEF StartServe
    <3> QED BY <2>2, <3>1 DEF StartServe
  <2> QED BY <1>2, <2>1, <2>2 DEF startServer
<1>3. CASE SpawnWatcher \/ AddWatch \/ Wake
  BY <1>3 DEF SpawnWatcher, AddWatch, Wake
<1>4. CASE Loop \/ Notify \/ Debounced \/ EventsClosed
  BY <1>4 DEF Loop, Notify, Debounced, EventsClosed
<1>5. CASE Fails
  <2>1. CASE WatchFails BY <2>1 DEF WatchFails, FatalPc
  <2>2. ASSUME NEW t \in {"main", "watcher"}, ShutdownTimeout(t) \/ ForceCloseFails(t)
        PROVE  TypeOK'
    <3>1. CASE ShutdownTimeout(t) BY <3>1, NilIsNoServer DEF ShutdownTimeout
    <3>2. CASE ForceCloseFails(t) BY <3>2 DEF ForceCloseFails, AfterStop
    <3> QED BY <2>2, <3>1, <3>2
  <2>3. ASSUME NEW k \in Starts, ServeFails(k) PROVE TypeOK'
    BY <2>3 DEF ServeFails, FatalPc
  <2> QED BY <1>5, <2>1, <2>2, <2>3 DEF Fails
<1>6. ASSUME NEW t \in Closers, Close(t) PROVE TypeOK'
  <2>1. CASE Cancel(t) \/ Exit(t) BY <2>1 DEF Cancel, Exit
  <2>2. CASE CloseCheck(t) BY <2>2 DEF CloseCheck
  <2>3. CASE CloseStop(t) BY <2>3 DEF CloseStop, Panics
  <2>4. CASE CloseClear(t) BY <2>4 DEF CloseClear
  <2> QED BY <1>6, <2>1, <2>2, <2>3, <2>4 DEF Close
<1>7. ASSUME NEW k \in Starts, ListenAndServe(k) \/ CallRun(k) PROVE TypeOK'
  BY <1>7 DEF ListenAndServe, CallRun, Panics
<1>8. CASE Change
  <2>1. file' \in 0..MaxChanges
    BY <1>8, WatcherAssumption DEF Change
  <2>2. pending' \in BOOLEAN
    BY <1>8, Zenon DEF Change
  <2> QED BY <1>8, <2>1, <2>2 DEF Change
<1>9. CASE Signal BY <1>9 DEF Signal
<1>10. CASE UNCHANGED vars BY <1>10 DEF vars
<1> QED BY <1>1, <1>2, <1>3, <1>4, <1>5, <1>6, <1>7, <1>8, <1>9, <1>10
        DEF Next, Main, Watcher

(* No step makes room for a start that no change pays for.                 *)
LEMMA StartsPaid == StartInv /\ [Next]_vars => starts' + ToCome' <= file' + 2
<1> SUFFICES ASSUME StartInv, [Next]_vars PROVE starts' + ToCome' <= file' + 2
  OBVIOUS
<1>0. /\ pc \in [Threads -> PCs] /\ starts \in Nat /\ file \in Nat
      /\ "main" \in Threads /\ "watcher" \in Threads /\ "closer" \in Threads
      /\ "fatal" \in Threads
      /\ starts + ToCome <= file + 2
  BY WatcherAssumption DEF StartInv, TypeOK, Starts, MaxStarts, Threads, Closers
<1> USE <1>0 DEF ToCome, One, At, Goto, conf, watch, httpd, life
<1>1. ASSUME NEW t \in {"main", "watcher"}, stopServer(t)
      PROVE  starts' + ToCome' <= file' + 2
  <2>1. UNCHANGED <<starts, file, armed, pending>>
    BY <1>1 DEF stopServer, StopCheck, Shutdown, ForceClose, ClearServer, HandlerStop, Panics
  <2>2. \/ UNCHANGED pc
        \/ pc[t] \in {"stop", "shutdown", "forceClose", "clear", "svcStop"}
           /\ \E to \in {"shutdown", "clear", "svcStop", AfterStop(t)} :
                 pc' = [pc EXCEPT ![t] = to]
    BY <1>1 DEF stopServer, StopCheck, Shutdown, ForceClose, ClearServer, HandlerStop, Panics
  <2> QED BY <2>1, <2>2 DEF AfterStop
<1>2. ASSUME NEW t \in {"main", "watcher"}, startServer(t)
      PROVE  starts' + ToCome' <= file' + 2
  <2>1. CASE StartCheck(t) BY <2>1 DEF StartCheck
  <2>2. CASE StartServe(t) BY <2>2 DEF StartServe
  <2> QED BY <1>2, <2>1, <2>2 DEF startServer
<1>3. CASE SpawnWatcher \/ AddWatch \/ Wake
  BY <1>3 DEF SpawnWatcher, AddWatch, Wake
<1>4. CASE Loop \/ Notify \/ Debounced \/ EventsClosed
  BY <1>4 DEF Loop, Notify, Debounced, EventsClosed
<1>5. CASE Fails
  <2>1. CASE WatchFails BY <2>1 DEF WatchFails
  <2>2. ASSUME NEW t \in {"main", "watcher"}, ShutdownTimeout(t) \/ ForceCloseFails(t)
        PROVE  starts' + ToCome' <= file' + 2
    BY <2>2 DEF ShutdownTimeout, ForceCloseFails, AfterStop
  <2>3. ASSUME NEW k \in Starts, ServeFails(k) PROVE starts' + ToCome' <= file' + 2
    BY <2>3 DEF ServeFails
  <2> QED BY <1>5, <2>1, <2>2, <2>3 DEF Fails
<1>6. ASSUME NEW t \in Closers, Close(t) PROVE starts' + ToCome' <= file' + 2
  <2>1. UNCHANGED <<starts, file, armed, pending>>
    BY <1>6 DEF Close, Cancel, CloseCheck, CloseStop, CloseClear, Exit, Panics
  <2>2. \/ UNCHANGED pc
        \/ \E to \in {"closeCheck", "closeStop", "closeClear", "exit"} :
              pc' = [pc EXCEPT ![t] = to]
    BY <1>6 DEF Close, Cancel, CloseCheck, CloseStop, CloseClear, Exit, Panics
  <2> QED BY <2>1, <2>2 DEF Closers
<1>7. ASSUME NEW k \in Starts, ListenAndServe(k) \/ CallRun(k)
      PROVE  starts' + ToCome' <= file' + 2
  BY <1>7 DEF ListenAndServe, CallRun, Panics
<1>8. CASE Change BY <1>8 DEF Change
<1>9. CASE Signal BY <1>9 DEF Signal
<1>10. CASE UNCHANGED vars BY <1>10 DEF vars
<1> QED BY <1>1, <1>2, <1>3, <1>4, <1>5, <1>6, <1>7, <1>8, <1>9, <1>10
        DEF Next, Main, Watcher

(* Initially main has its first start and that of the timer to come.       *)
LEMMA StartInvariant == Spec => []StartInv
<1>1. Init => StartInv
  <2> SUFFICES ASSUME Init PROVE TypeOK /\ starts + ToCome <= file + 2
    BY DEF StartInv
  <2>1. pc \in [Threads -> PCs] /\ pc["main"] = "startCheck" /\ pc["watcher"] = "none"
    BY DEF Init, Threads, Closers, PCs
  <2>2. TypeOK
    <3>1. file \in 0..MaxChanges /\ loaded \in 0..MaxChanges
      BY WatcherAssumption DEF Init
    <3>2. http \in [Starts -> {"none", "starting", "listening", "closed"}]
      BY DEF Init
    <3> QED BY <2>1, <3>1, <3>2, Zenon DEF Init, TypeOK
  <2>3. starts + ToCome <= file + 2
    BY <2>1 DEF Init, ToCome, One
  <2> QED BY <2>2, <2>3
<1>2. StartInv /\ [Next]_vars => StartInv'
  BY TypesKeep, StartsPaid DEF StartInv
<1> QED BY <1>1, <1>2, PTL DEF Spec

(* foreverWatcher: for any number of changes, each costs at most one       *)
(* restart of the metrics server.                                          *)
THEOREM OneRestartPerChange == Spec => []RestartsBounded
<1>1. StartInv => RestartsBounded
  <2> SUFFICES ASSUME StartInv PROVE starts <= file + 2
    BY DEF RestartsBounded
  <2>1. starts \in Nat /\ file \in Nat
    BY WatcherAssumption DEF StartInv, TypeOK, Starts, MaxStarts
  <2> QED BY <2>1 DEF StartInv, ToCome, One
<1> QED BY <1>1, StartInvariant, PTL

(* The types, and with them the bound on the number of servers.            *)
THEOREM TypeCorrect == Spec => []TypeOK
<1>1. StartInv => TypeOK BY DEF StartInv
<1> QED BY <1>1, StartInvariant, PTL
=============================================================================
