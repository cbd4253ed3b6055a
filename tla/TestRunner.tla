----------------------------- MODULE TestRunner -----------------------------
(***************************************************************************)
(* pkg/testrunner: the AUTO_UNHEALTHY_GPU_WATCH test runner and its status *)
(* DB.  The watch loop lists GPU health every 30s, spawns a testGPU        *)
(* goroutine for the unhealthy idle GPUs and then clears finished entries  *)
(* of healthy ones; every goroutine loads the DB, changes its copy and     *)
(* saves it, with a lock around each load and each save but not across     *)
(* them.  The process may crash between any two steps; the kubelet         *)
(* restarts it and the DB file survives.                                   *)
(*                                                                         *)
(* The file holds a map from id to status.  An empty map is written as     *)
(* `{}' (the field is omitempty) and read back as a nil map, so NoTests    *)
(* stands for both; assigning to a nil map panics.  os.WriteFile truncates *)
(* before it writes: a save that fails (a full disk, say) or is cut short  *)
(* by the end of the process may leave a torn, unreadable file.  What a    *)
(* test does while it runs is module TestHandler.                          *)
(***************************************************************************)
EXTENDS Naturals

CONSTANTS
    GPUs,         \* the GPU indexes of the node
    KFDs,         \* the KFD ids of its GPUs, which older versions recorded
    kfdIDToIndex,
    IDs,          \* all ids a DB may hold, those of vanished partitions too
    Slots,        \* bound: testGPU goroutines alive at once
    Disks,        \* bound: "good", and "bad" where writes may also fail
    MaxCrashes    \* bound: crashes (kill, OOM, node reset) in one behaviour

Marks   == {"none", "running", "completed"}
Maps    == [IDs -> Marks]
NoTests == [k \in IDs |-> "none"]

ASSUME RunnerAssumption ==
    /\ MaxCrashes \in Nat /\ "good" \in Disks /\ Disks \subseteq {"good", "bad"}
    /\ GPUs \subseteq IDs /\ KFDs \subseteq IDs /\ kfdIDToIndex \in [KFDs -> GPUs]

VARIABLES
    file,       \* the status DB file: "absent", "torn" or "ok"
    db,         \* the map in it (NoTests unless the file is "ok")
    phase,      \* "down", "boot", "bootSave", "transform", "recover", "watch"
    wpc,        \* the watch loop: "idle", "cleanup" or "cleanupSave"
    healthy,    \* its healthyGPUIDs
    wobj,       \* its statusObj
    tpc,        \* control state of every testGPU goroutine
    ids,        \* its ids, then its validIDs
    rerun,      \* its isRerun
    obj,        \* its statusObj
    signalled,  \* SIGTERM received: signalCtx is done
    health,     \* what the exporter's List reports per GPU
    disk,       \* "good", or "bad": a write fails
    crashes,    \* crashes so far
    tested      \* history: GPUs with a test that has ended

store   == <<file, db>>
watcher == <<wpc, healthy, wobj>>
tests   == <<tpc, ids, rerun, obj>>
world   == <<health, disk, crashes, tested>>
runnerVars == <<store, phase, watcher, tests, signalled, world>>

Healths == {"healthy", "unhealthy", "unhealthyBusy"}
SavePC  == {"save", "updateSave", "sigSave"}
TestPC  == {"free", "load", "start", "run", "update", "sigUpdate", "exit"} \cup SavePC
Up == phase = "watch"

(* The GPUs that goroutine t has a test process on: from StartTest to the  *)
(* end of its select.                                                      *)
Testing(t) == IF tpc[t] \in {"save", "run"} THEN ids[t] ELSE {}

(* The ids a GPU goes by; an index is looked for before a KFD id.          *)
IdsOf(g) == {g} \cup {k \in KFDs \ GPUs : kfdIDToIndex[k] = g}

RunnerTypeOK ==
    /\ file \in {"absent", "torn", "ok"} /\ db \in Maps
    /\ phase \in {"down", "boot", "bootSave", "transform", "recover", "watch"}
    /\ wpc \in {"idle", "cleanup", "cleanupSave"}
    /\ healthy \subseteq GPUs /\ wobj \in Maps
    /\ tpc \in [Slots -> TestPC] /\ ids \in [Slots -> SUBSET GPUs]
    /\ rerun \in [Slots -> BOOLEAN] /\ obj \in [Slots -> Maps]
    /\ signalled \in BOOLEAN
    /\ health \in [GPUs -> Healths] /\ disk \in Disks
    /\ crashes \in 0..MaxCrashes /\ tested \subseteq GPUs

(* The first boot, of a new node or after an upgrade.                      *)
RunnerInit ==
    /\ phase = "boot"
    /\ \/ file = "absent" /\ db = NoTests
       \/ file = "ok" /\ db \in Maps
    /\ tested = {g \in GPUs : \E k \in IdsOf(g) : db[k] = "completed"}
    /\ wpc = "idle" /\ healthy = {} /\ wobj = NoTests
    /\ tpc = [t \in Slots |-> "free"] /\ ids = [t \in Slots |-> {}]
    /\ rerun = [t \in Slots |-> FALSE] /\ obj = [t \in Slots |-> NoTests]
    /\ signalled = FALSE /\ crashes = 0
    /\ health = [g \in GPUs |-> "healthy"] /\ disk = "good"

(* LoadRunnerStatus with its error ignored, as every caller but boot does: *)
(* an unreadable file is a nil map.                                        *)
LoadRunnerStatus == db

(* SaveRunnerStatus without an error,                                      *)
SaveRunnerStatus(m) == disk = "good" /\ file' = "ok" /\ db' = m

Tear == file' = "torn" /\ db' = NoTests

(* and with one: the file could not be opened, or not be written.          *)
SaveFails == disk = "bad" /\ (UNCHANGED store \/ Tear)

Mark(m, S, st) == [k \in IDs |-> IF k \in S THEN st ELSE m[k]]

Die ==
    /\ phase' = "down"
    /\ wpc' = "idle" /\ healthy' = {} /\ wobj' = NoTests
    /\ tpc' = [t \in Slots |-> "free"] /\ ids' = [t \in Slots |-> {}]
    /\ rerun' = [t \in Slots |-> FALSE] /\ obj' = [t \in Slots |-> NoTests]
    /\ signalled' = FALSE

-----------------------------------------------------------------------------
(* Boot: initCfg, TriggerTest, the head of watchGPUState *)

(* initCfg creates an empty file if there is none, or exits, *)
BootCreate ==
    /\ phase = "boot"
    /\ \/ /\ file # "absent"
          /\ phase' = "transform"
          /\ UNCHANGED <<store, watcher, tests, signalled>>
       \/ /\ file = "absent" /\ disk = "good"
          /\ Tear /\ phase' = "bootSave"
          /\ UNCHANGED <<watcher, tests, signalled>>
       \/ /\ file = "absent" /\ disk = "bad"
          /\ Die /\ UNCHANGED store
    /\ UNCHANGED world

(* and then saves an empty status into it, or exits. *)
BootSave ==
    /\ phase = "bootSave"
    /\ \/ /\ SaveRunnerStatus(NoTests) /\ phase' = "transform"
          /\ UNCHANGED <<watcher, tests, signalled>>
       \/ SaveFails /\ Die
    /\ UNCHANGED world

(* The map in terms of GPU indexes: KFD ids are replaced, unknown ids are  *)
(* dropped.  Where a GPU has an entry under either id, the order in which  *)
(* Go visits the map decides.                                              *)
Found(m, g) == {m[k] : k \in IdsOf(g)} \ {"none"}

Converted(m) ==
    {n \in Maps : \A k \in IDs : IF k \in GPUs /\ Found(m, k) # {}
                                 THEN n[k] \in Found(m, k) ELSE n[k] = "none"}

(* transformRunnerStatus loads the DB and writes it back; TriggerTest      *)
(* exits when it cannot.                                                   *)
Transform ==
    /\ phase = "transform"
    /\ \/ /\ file = "ok" /\ \E n \in Converted(db) : SaveRunnerStatus(n)
          /\ phase' = "recover"
          /\ UNCHANGED <<watcher, tests, signalled>>
       \/ file = "ok" /\ SaveFails /\ Die
       \/ file # "ok" /\ UNCHANGED store /\ Die
    /\ UNCHANGED world

Spawn(t, S, r) ==
    /\ tpc[t] = "free"
    /\ tpc' = [tpc EXCEPT ![t] = "load"]
    /\ ids' = [ids EXCEPT ![t] = S]
    /\ rerun' = [rerun EXCEPT ![t] = r]
    /\ UNCHANGED obj

Interrupted == {g \in GPUs : LoadRunnerStatus[g] = "running"}

(* watchGPUState: rerun the tests that the DB says were running.  It would *)
(* also delete unknown ids, of which transformRunnerStatus has left none.  *)
Recover ==
    /\ phase = "recover"
    /\ phase' = "watch"
    /\ IF Interrupted # {}
          THEN \E t \in Slots : Spawn(t, Interrupted, TRUE)
          ELSE UNCHANGED tests
    /\ UNCHANGED <<store, watcher, signalled, world>>

-----------------------------------------------------------------------------
(* The watch loop *)

(* One tick with a successful List.  A failed List skips the tick.         *)
Tick ==
    /\ Up /\ wpc = "idle"
    /\ LET bad == {g \in GPUs : health[g] = "unhealthy"}
       IN  IF bad # {} THEN \E t \in Slots : Spawn(t, bad, FALSE)
                       ELSE UNCHANGED tests
    /\ wpc' = "cleanup" /\ healthy' = {g \in GPUs : health[g] = "healthy"}
    /\ UNCHANGED <<store, phase, wobj, signalled, world>>

(* Mutants: the cleanup computes the new map and never writes it back;     *)
(* nothing is written back for a nil map.                                  *)
CleanupLoad_NoWriteBack ==
    /\ Up /\ wpc = "cleanup"
    /\ wpc' = "idle" /\ healthy' = {}
    /\ UNCHANGED <<store, phase, wobj, tests, signalled, world>>

CleanupLoad_NilKept ==
    /\ Up /\ wpc = "cleanup"
    /\ LET m == LoadRunnerStatus
           done == {g \in healthy : m[g] = "completed"}
       IN  IF done # {}
              THEN wpc' = "cleanupSave" /\ wobj' = Mark(m, done, "none")
              ELSE wpc' = "idle" /\ UNCHANGED wobj
    /\ healthy' = {}
    /\ UNCHANGED <<store, phase, tests, signalled, world>>

(* cleanupHealthyGPUTestStatus: drop the finished entries of healthy GPUs; *)
(* a nil map is always written back, as an empty one.                      *)
CleanupLoad ==
    /\ Up /\ wpc = "cleanup"
    /\ LET m == LoadRunnerStatus
           done == {g \in healthy : m[g] = "completed"}
       IN  IF m = NoTests \/ done # {}
              THEN wpc' = "cleanupSave" /\ wobj' = Mark(m, done, "none")
              ELSE wpc' = "idle" /\ UNCHANGED wobj
    /\ healthy' = {}
    /\ UNCHANGED <<store, phase, tests, signalled, world>>

(* A failure is logged.                                                    *)
CleanupSave ==
    /\ Up /\ wpc = "cleanupSave"
    /\ SaveRunnerStatus(wobj) \/ SaveFails
    /\ wpc' = "idle" /\ wobj' = NoTests
    /\ UNCHANGED <<phase, healthy, tests, signalled, world>>

-----------------------------------------------------------------------------
(* testGPU *)

Step(t, from, to) == tpc[t] = from /\ tpc' = [tpc EXCEPT ![t] = to]

Free(t) ==
    /\ tpc' = [tpc EXCEPT ![t] = "free"] /\ ids' = [ids EXCEPT ![t] = {}]
    /\ rerun' = [rerun EXCEPT ![t] = FALSE]
    /\ obj' = [obj EXCEPT ![t] = NoTests]

(* Mutants: a rerun also skips GPUs with an entry; any GPU is skipped.     *)
ValidIDs_NoForce(t) == {g \in ids[t] : LoadRunnerStatus[g] = "none"}

ValidIDs_SkipAll(t) == IF rerun[t] THEN ids[t] ELSE {}

(* removeIDsWithExistingTest, and testGPU's override of it for a rerun.    *)
ValidIDs(t) ==
    IF rerun[t] THEN ids[t] ELSE {g \in ids[t] : LoadRunnerStatus[g] = "none"}

TestLoad(t) ==
    /\ Up /\ tpc[t] = "load"
    /\ IF ValidIDs(t) = {}
          THEN Free(t)
          ELSE /\ tpc' = [tpc EXCEPT ![t] = "start"]
               /\ ids' = [ids EXCEPT ![t] = ValidIDs(t)]
               /\ obj' = [obj EXCEPT ![t] = LoadRunnerStatus]
               /\ UNCHANGED rerun
    /\ UNCHANGED <<store, phase, watcher, signalled, world>>

(* handler.StartTest, then the running marks in the goroutine's own copy.  *)
TestStart(t) ==
    /\ Up /\ Step(t, "start", "save")
    /\ obj' = [obj EXCEPT ![t] = Mark(@, ids[t], "running")]
    /\ UNCHANGED <<ids, rerun, store, phase, watcher, signalled, world>>

(* GetTestHandler does not know a recipe that the configuration has got    *)
(* since, or StartTest refuses: log.Fatalf.                                *)
TestStartFails(t) ==
    /\ Up /\ Step(t, "start", "exit")
    /\ UNCHANGED <<ids, rerun, obj, store, phase, watcher, signalled, world>>

(* A failure is logged ("TODO: add error handling").                       *)
TestSave(t) ==
    /\ Up /\ Step(t, "save", "run")
    /\ SaveRunnerStatus(obj[t]) \/ SaveFails
    /\ obj' = [obj EXCEPT ![t] = NoTests]
    /\ UNCHANGED <<ids, rerun, phase, watcher, signalled, world>>

(* Done, or the outer timeout and StopTest: the test process is gone.      *)
TestDone(t) ==
    /\ Up /\ Step(t, "run", "update")
    /\ tested' = tested \cup ids[t]
    /\ UNCHANGED <<ids, rerun, obj, store, phase, watcher, signalled, health, disk, crashes>>

(* signalCtx.Done: StopTest, then mark the test as still running and exit. *)
TestSignal(t) ==
    /\ Up /\ signalled /\ Step(t, "run", "sigUpdate")
    /\ UNCHANGED <<ids, rerun, obj, store, phase, watcher, signalled, world>>

(* updateStatusDBAfterTestRun: load, assign (a nil map panics), save.      *)
UpdateLoad(t, from, to, st) ==
    /\ Up /\ tpc[t] = from
    /\ IF LoadRunnerStatus = NoTests
          THEN tpc' = [tpc EXCEPT ![t] = "exit"] /\ UNCHANGED obj
          ELSE /\ tpc' = [tpc EXCEPT ![t] = to]
               /\ obj' = [obj EXCEPT ![t] = Mark(LoadRunnerStatus, ids[t], st)]
    /\ UNCHANGED <<ids, rerun, store, phase, watcher, signalled, world>>

(* Mutant: a test that a signal cuts short is marked as finished.          *)
SignalUpdate_Completed(t) == UpdateLoad(t, "sigUpdate", "sigSave", "completed")

TestUpdate(t) == UpdateLoad(t, "update", "updateSave", "completed")
SignalUpdate(t) == UpdateLoad(t, "sigUpdate", "sigSave", "running")

(* A failure is fatal.                                                     *)
TestFinish(t) ==
    /\ Up /\ tpc[t] = "updateSave"
    /\ \/ SaveRunnerStatus(obj[t]) /\ Free(t)
       \/ SaveFails /\ Step(t, "updateSave", "exit") /\ UNCHANGED <<ids, rerun, obj>>
    /\ UNCHANGED <<phase, watcher, signalled, world>>

SignalSave(t) ==
    /\ Up /\ Step(t, "sigSave", "exit")
    /\ SaveRunnerStatus(obj[t]) \/ SaveFails
    /\ UNCHANGED <<ids, rerun, obj, phase, watcher, signalled, world>>

SavingBut(t) ==
    wpc = "cleanupSave" \/ \E u \in Slots \ {t} : tpc[u] \in SavePC

(* os.Exit after a signal, log.Fatalf or the panic ends the process, also  *)
(* in the middle of a save of another goroutine.                           *)
Exit(t) ==
    /\ Up /\ tpc[t] = "exit"
    /\ UNCHANGED store \/ (SavingBut(t) /\ Tear)
    /\ Die
    /\ UNCHANGED world

-----------------------------------------------------------------------------
(* The environment *)

SetHealth(g, h) ==
    /\ health[g] # h
    /\ health' = [health EXCEPT ![g] = h]
    /\ UNCHANGED <<store, phase, watcher, tests, signalled, disk, crashes, tested>>

DiskChanges ==
    /\ disk' \in Disks \ {disk}
    /\ UNCHANGED <<store, phase, watcher, tests, signalled, health, crashes, tested>>

(* SIGTERM: only a testGPU in its select looks at signalCtx.               *)
Sigterm ==
    /\ Up /\ ~signalled
    /\ signalled' = TRUE
    /\ UNCHANGED <<store, phase, watcher, tests, world>>

Saving ==
    \/ phase = "bootSave" \/ (phase = "transform" /\ file = "ok")
    \/ wpc = "cleanupSave" \/ \E t \in Slots : tpc[t] \in SavePC

(* The process is killed, or exits for an invalid configuration, possibly  *)
(* in the middle of a save.                                                *)
Crash ==
    /\ phase # "down" /\ crashes < MaxCrashes
    /\ crashes' = crashes + 1
    /\ UNCHANGED store \/ (Saving /\ Tear)
    /\ Die
    /\ UNCHANGED <<health, disk, tested>>

Restart ==
    /\ phase = "down"
    /\ phase' = "boot"
    /\ UNCHANGED <<store, watcher, tests, signalled, world>>

Boot == BootCreate \/ BootSave \/ Transform \/ Recover \/ Restart
Watch == Tick \/ CleanupLoad \/ CleanupSave
testGPU(t) == \/ TestLoad(t) \/ TestStart(t) \/ TestStartFails(t) \/ TestSave(t)
              \/ TestDone(t) \/ TestSignal(t) \/ TestUpdate(t) \/ SignalUpdate(t)
              \/ TestFinish(t) \/ SignalSave(t) \/ Exit(t)

RunnerNext ==
    \/ Boot
    \/ Watch
    \/ \E t \in Slots : testGPU(t)
    \/ \E g \in GPUs, h \in Healths : SetHealth(g, h)
    \/ DiskChanges \/ Sigterm \/ Crash

RunnerSpec == RunnerInit /\ [][RunnerNext]_runnerVars

(* Goroutines are scheduled, the ticker fires, List answers now and then,  *)
(* a test ends (TestHandler!RunEnds), the kubelet restarts the container.  *)
RunnerFairness ==
    /\ WF_runnerVars(Boot) /\ WF_runnerVars(Watch)
    /\ \A t \in Slots : WF_runnerVars(testGPU(t))

RunnerLive == RunnerSpec /\ RunnerFairness

-----------------------------------------------------------------------------
(* updateStatusDBAfterTestRun, "there won't be another test happened on    *)
(* the same unhealthy device": the DB says completed, which keeps a GPU    *)
(* from being tested, only of a GPU with a test that ran to its end,       *)
(* whatever copies the goroutines save over each other, convert at boot or *)
(* keep when a signal cuts a test short.                                   *)
CompletedWasTested ==
    \A g \in GPUs : \A k \in IdsOf(g) : db[k] = "completed" => g \in tested

(* cleanupHealthyGPUTestStatus: a DB that a failed save has torn is        *)
(* written anew, once saves succeed and the runner stays up.               *)
TornDBHeals == <>[](Up /\ disk = "good") => <>[](file = "ok")

(* watchGPUState: "immediately start test on interrupted test before       *)
(* restarting".  A test that the DB still shows as running at boot, under  *)
(* whichever id of its GPU, is started again unless the process goes down  *)
(* first.                                                                  *)
InterruptedTestReruns ==
    \A g \in GPUs :
       (phase = "transform" /\ Found(db, g) = {"running"})
          ~> ((\E t \in Slots : g \in Testing(t)) \/ phase = "down")

(* testGPU, removeIDsWithExistingTest: an idle GPU that stays unhealthy    *)
(* while the runner stays up is again and again under test or on record in *)
(* the DB, whether saves succeed or not; it is never overlooked.           *)
UnhealthyIsTested ==
    \A g \in GPUs :
       <>[](Up /\ health[g] = "unhealthy")
          => []<>(db[g] # "none" \/ \E t \in Slots : g \in Testing(t))

(* cleanupHealthyGPUTestStatus: a GPU that stays healthy does not keep a   *)
(* completed entry, which would suppress its next test, once saves         *)
(* succeed.                                                                *)
CompletedIsCleared ==
    \A g \in GPUs :
       <>[](Up /\ disk = "good" /\ health[g] = "healthy") => []<>(db[g] # "completed")

(* removeIDsWithExistingTest: "avoid run multiple test on the same device".*)
OneTestPerGPU ==
    \A t, u \in Slots : t # u => Testing(t) \cap Testing(u) = {}

(* Past boot the DB can be read.                                           *)
DBReadableWhileUp == phase \in {"recover", "watch"} => file = "ok"

(* transformRunnerStatus, TriggerTest: that is so as long as no save fails,*)
(* whatever crashes and exits came before.                                 *)
ReadableWhileDiskGood == [](disk = "good") => []DBReadableWhileUp

(* initCfg: "test runner needs to read the existing db and rerun           *)
(* incomplete test before crash/restart".  The DB can be read at boot.     *)
DBReadableAtBoot == phase = "transform" => file = "ok"

(* The process ends between saves only.                                    *)
NoSaveCut == [][phase' = "down" /\ phase # "down" => ~Saving]_runnerVars

(* initCfg, transformRunnerStatus: that is so if no save has ever failed   *)
(* or been cut short: no order of boots, tests and exits tears it.         *)
ReadableUnlessCut == [](disk = "good") /\ NoSaveCut => []DBReadableAtBoot

(* A DB that no process is about to write.                                 *)
Torn == file = "torn" /\ phase \notin {"bootSave", "recover", "watch"}

(* initCfg, TriggerTest: nothing replaces a DB that was torn when its      *)
(* process ended, and no later start gets past it.                         *)
TornForGood == [](Torn => []Torn)

(* testGPU: whatever the other goroutines save, a save that succeeds       *)
(* leaves the marks of its own GPUs in the DB: running when the test has   *)
(* begun and when a signal cuts it short, so that the next start runs it   *)
(* again, completed when it has ended.  A test is never on no GPU.         *)
OwnMarksSaved ==
    [][\A t \in Slots :
         disk = "good" =>
           /\ TestSave(t) => ids[t] # {} /\ \A g \in ids[t] : db'[g] = "running"
           /\ TestFinish(t) => ids[t] # {} /\ \A g \in ids[t] : db'[g] = "completed"
           /\ SignalSave(t) => ids[t] # {} /\ ids[t] \subseteq Interrupted']_runnerVars

(* updateStatusDBAfterTestRun: "just mark all finished test as completed". *)
(* There is a map to mark it in.                                           *)
FinishedIsMarkable ==
    \A t \in Slots : tpc[t] = "update" => LoadRunnerStatus # NoTests

(* cleanupHealthyGPUTestStatus: "so that next time it turns unhealthy,     *)
(* test will be triggered again".  An entry of a GPU that stays healthy    *)
(* goes away once no test runs on it.                                      *)
NoOrphanedEntry ==
    \A g \in GPUs :
       <>[](/\ Up /\ disk = "good" /\ health[g] = "healthy"
            /\ \A t \in Slots : g \notin Testing(t))
          => []<>(db[g] = "none")
=============================================================================
