----------------------------- MODULE SlurmClient -----------------------------
(***************************************************************************)
(* pkg/exporter/scheduler/slurm.go: the map from GPUs to Slurm jobs.       *)
(*                                                                         *)
(* Slurm's prolog writes a file for each GPU of a job, its epilog removes  *)
(* them; each file names all GPUs of the job.  The client watches their    *)
(* directory: inotify keeps one event per change, in order, and a          *)
(* goroutine takes the events from the watcher's unbuffered channel.  The  *)
(* constructor feeds the files that are there already into the same        *)
(* channel, so that its events and those of inotify mix in any order.      *)
(*                                                                         *)
(* Not here: an inotify queue that overflows.  The goroutine logs the      *)
(* error and goes on without the events that were lost.                    *)
(***************************************************************************)
EXTENDS Naturals, Sequences, FiniteSets

CONSTANTS
    GPUs,       \* numbers; a script goes through them in order
    Jobs,
    gpusOf,     \* the GPUs of each job
    NoJob

Partial == "partial"    \* a file that the prolog has opened and not written

ASSUME SlurmAssumption ==
    /\ GPUs \subseteq Nat /\ IsFiniteSet(GPUs)
    /\ gpusOf \in [Jobs -> SUBSET GPUs]
    /\ NoJob \notin Jobs /\ Partial \notin Jobs /\ NoJob # Partial

VARIABLES
    job,        \* "new", "prolog", "running", "epilog" or "over" for each job
    left,       \* GPUs its script has yet to do
    file,       \* content of each GPU's file; NoJob when there is none
    events,     \* the events of inotify, oldest first
    boot,       \* constructor: "add", "scan", "feed", "made", "blind", "failed"
    found,      \* the file names of ReadDir that it has not sent
    watch,      \* the goroutine: "off", "select", "read" or "closed"
    hand,       \* the event it has taken and what it has read
    GpuJobs,
    cancelled,  \* the context is done
    panicked,   \* a send on the closed channel
    raced       \* history: a fed event met a job in its epilog

slurm  == <<job, left, file>>
maker  == <<boot, found>>
svars  == <<slurm, events, maker, watch, hand, GpuJobs, cancelled, panicked, raced>>

Event(o, g) == [op |-> o, gpu |-> g]
Nothing == [op |-> "none", jobEnv |-> NoJob, gpu |-> 0]
Hands == {Nothing} \cup [op : {"Write", "Remove"}, gpu : GPUs,
                         jobEnv : Jobs \cup {NoJob, Partial}]

SlurmTypeOK ==
    /\ job \in [Jobs -> {"new", "prolog", "running", "epilog", "over"}]
    /\ left \in [Jobs -> SUBSET GPUs]
    /\ file \in [GPUs -> Jobs \cup {NoJob, Partial}]
    /\ events \in Seq([op : {"Write", "Remove"}, gpu : GPUs])
    /\ boot \in {"add", "scan", "feed", "made", "blind", "failed"}
    /\ found \subseteq GPUs
    /\ watch \in {"off", "select", "read", "closed"}
    /\ hand \in Hands
    /\ GpuJobs \in [GPUs -> Jobs \cup {NoJob}]
    /\ cancelled \in BOOLEAN /\ panicked \in BOOLEAN /\ raced \in BOOLEAN

SlurmInit ==
    /\ job = [j \in Jobs |-> "new"] /\ left = gpusOf
    /\ file = [g \in GPUs |-> NoJob] /\ events = <<>>
    /\ boot = "add" /\ found = {}
    /\ watch = "off" /\ hand = Nothing
    /\ GpuJobs = [g \in GPUs |-> NoJob]
    /\ cancelled = FALSE /\ panicked = FALSE /\ raced = FALSE

-----------------------------------------------------------------------------
(* Slurm                                                                   *)

(* inotify queues an event for a change of a watched directory.            *)
Notify(o, g) ==
    events' = IF watch \in {"select", "read"}
                THEN Append(events, Event(o, g)) ELSE events

First(S) == CHOOSE g \in S : \A h \in S : g <= h

Active(j) == job[j] \in {"prolog", "running", "epilog"}

(* Slurm gives a GPU to one job at a time.                                 *)
StartJob(j) ==
    /\ job[j] = "new"
    /\ \A i \in Jobs : Active(i) => gpusOf[i] \cap gpusOf[j] = {}
    /\ job' = [job EXCEPT ![j] = "prolog"]
    /\ UNCHANGED <<left, file, events, maker, watch, hand, GpuJobs, cancelled,
                   panicked, raced>>

(* slurm-prolog.sh: the shell opens the file, then echo writes it.         *)
Prolog(j) ==
    LET g == First(left[j]) IN
    /\ job[j] = "prolog" /\ left[j] # {}
    /\ IF file[g] = NoJob
         THEN file' = [file EXCEPT ![g] = Partial] /\ UNCHANGED left
         ELSE /\ file' = [file EXCEPT ![g] = j]
              /\ left' = [left EXCEPT ![j] = @ \ {g}]
    /\ Notify("Write", g)
    /\ UNCHANGED <<job, maker, watch, hand, GpuJobs, cancelled, panicked, raced>>

PrologEnds(j) ==
    /\ job[j] = "prolog" /\ left[j] = {}
    /\ job' = [job EXCEPT ![j] = "running"]
    /\ UNCHANGED <<left, file, events, maker, watch, hand, GpuJobs, cancelled,
                   panicked, raced>>

EndJob(j) ==
    /\ job[j] = "running"
    /\ job' = [job EXCEPT ![j] = "epilog"]
    /\ left' = [left EXCEPT ![j] = gpusOf[j]]
    /\ UNCHANGED <<file, events, maker, watch, hand, GpuJobs, cancelled,
                   panicked, raced>>

(* slurm-epilog.sh removes the files.                                      *)
Epilog(j) ==
    LET g == First(left[j]) IN
    /\ job[j] = "epilog" /\ left[j] # {}
    /\ file' = [file EXCEPT ![g] = NoJob]
    /\ left' = [left EXCEPT ![j] = @ \ {g}]
    /\ Notify("Remove", g)
    /\ UNCHANGED <<job, maker, watch, hand, GpuJobs, cancelled, panicked, raced>>

EpilogEnds(j) ==
    /\ job[j] = "epilog" /\ left[j] = {}
    /\ job' = [job EXCEPT ![j] = "over"]
    /\ UNCHANGED <<left, file, events, maker, watch, hand, GpuJobs, cancelled,
                   panicked, raced>>

-----------------------------------------------------------------------------
(* NewSlurmClient                                                          *)

(* NewWatcher and Add, either of which may fail; the goroutine starts.     *)
Add ==
    /\ boot = "add"
    /\ \/ /\ boot' = "scan"
          /\ watch' = (IF cancelled THEN "closed" ELSE "select")
          /\ UNCHANGED cancelled
       \/ boot' = "failed" /\ cancelled' = TRUE /\ UNCHANGED watch
    /\ UNCHANGED <<slurm, events, found, hand, GpuJobs, panicked, raced>>

(* An error of ReadDir goes unreported: the client has seen no file.       *)
ReadDir ==
    /\ boot = "scan"
    /\ \/ found' = {g \in GPUs : file[g] # NoJob} /\ boot' = "feed"
       \/ boot' = "blind" /\ UNCHANGED found
    /\ UNCHANGED <<slurm, events, watch, hand, GpuJobs, cancelled, panicked, raced>>

(* A send to a channel that the closed watcher has closed.                 *)
SendClosed ==
    /\ boot = "feed" /\ found # {} /\ watch = "closed"
    /\ panicked' = TRUE /\ boot' = "failed"
    /\ UNCHANGED <<slurm, events, found, watch, hand, GpuJobs, cancelled, raced>>

ReturnClient ==
    /\ boot = "feed" /\ found = {}
    /\ boot' = "made"
    /\ UNCHANGED <<slurm, events, found, watch, hand, GpuJobs, cancelled, panicked, raced>>

-----------------------------------------------------------------------------
(* The goroutine                                                           *)

(* An event has come; for a write, the file as it is now is read.  A file  *)
(* that is gone is logged and left.                                        *)
Read(e) ==
    IF e.op = "Write" /\ file[e.gpu] = NoJob
      THEN watch' = (IF cancelled THEN "closed" ELSE "select") /\ UNCHANGED hand
      ELSE /\ watch' = "read"
           /\ hand' = [op |-> e.op, gpu |-> e.gpu, jobEnv |-> file[e.gpu]]

TakeEvent ==
    /\ watch = "select" /\ events # <<>>
    /\ Read(Head(events)) /\ events' = Tail(events)
    /\ UNCHANGED <<slurm, maker, GpuJobs, cancelled, panicked, raced>>

(* The constructor's next event; ReadDir sorts by name.                    *)
TakeFed ==
    LET g == First(found) IN
    /\ watch = "select" /\ boot = "feed" /\ found # {}
    /\ Read(Event("Write", g)) /\ found' = found \ {g}
    /\ raced' = (raced \/ \E j \in Jobs : file[g] = j /\ job[j] = "epilog")
    /\ UNCHANGED <<slurm, events, boot, GpuJobs, cancelled, panicked>>

(* Mutant: a file that does not parse ends the goroutine.                  *)
processSlurm_ReturnOnPartial ==
    /\ watch = "read"
    /\ GpuJobs' =
         IF hand.op = "Remove" THEN [GpuJobs EXCEPT ![hand.gpu] = NoJob]
         ELSE IF hand.jobEnv \in Jobs
         THEN [g \in GPUs |-> IF g \in gpusOf[hand.jobEnv]
                                THEN hand.jobEnv ELSE GpuJobs[g]]
         ELSE GpuJobs
    /\ hand' = Nothing
    /\ watch' = IF cancelled \/ (hand.op = "Write" /\ hand.jobEnv = Partial)
                  THEN "closed" ELSE "select"
    /\ UNCHANGED <<slurm, events, maker, cancelled, panicked, raced>>

(* Mutant: a removed file does not end the job.                            *)
processSlurm_NoDelete ==
    /\ watch = "read"
    /\ GpuJobs' = IF hand.op = "Write" /\ hand.jobEnv \in Jobs
                    THEN [g \in GPUs |-> IF g \in gpusOf[hand.jobEnv]
                                           THEN hand.jobEnv ELSE GpuJobs[g]]
                    ELSE GpuJobs
    /\ hand' = Nothing /\ watch' = (IF cancelled THEN "closed" ELSE "select")
    /\ UNCHANGED <<slurm, events, maker, cancelled, panicked, raced>>

(* A file labels all GPUs of its job, unless it does not parse; a removal  *)
(* takes the label of its own GPU away.                                    *)
processSlurm ==
    /\ watch = "read"
    /\ GpuJobs' =
         IF hand.op = "Remove" THEN [GpuJobs EXCEPT ![hand.gpu] = NoJob]
         ELSE IF hand.jobEnv \in Jobs
         THEN [g \in GPUs |-> IF g \in gpusOf[hand.jobEnv]
                                THEN hand.jobEnv ELSE GpuJobs[g]]
         ELSE GpuJobs
    /\ hand' = Nothing /\ watch' = (IF cancelled THEN "closed" ELSE "select")
    /\ UNCHANGED <<slurm, events, maker, cancelled, panicked, raced>>

(* The context is done: the loop ends, and its deferred Close closes the   *)
(* channel.                                                                *)
StopWatching ==
    /\ watch = "select" /\ cancelled
    /\ watch' = "closed"
    /\ UNCHANGED <<slurm, events, maker, hand, GpuJobs, cancelled, panicked, raced>>

(* Close, or the end of the agent's own context.                           *)
Close ==
    /\ ~cancelled /\ cancelled' = TRUE
    /\ UNCHANGED <<slurm, events, maker, watch, hand, GpuJobs, panicked, raced>>

constructor == Add \/ ReadDir \/ SendClosed \/ ReturnClient
watcher == TakeEvent \/ TakeFed \/ processSlurm \/ StopWatching
script(j) ==
    \/ StartJob(j) \/ Prolog(j) \/ PrologEnds(j)
    \/ EndJob(j) \/ Epilog(j) \/ EpilogEnds(j)

SlurmNext == constructor \/ watcher \/ Close \/ \E j \in Jobs : script(j)

SlurmSpec == SlurmInit /\ [][SlurmNext]_svars

(* The two goroutines run.                                                 *)
SlurmLive == SlurmSpec /\ WF_svars(constructor) /\ WF_svars(watcher)

-----------------------------------------------------------------------------
(* Nothing is under way: no script, no event.                              *)
Settled ==
    /\ boot = "made" /\ watch = "select" /\ ~cancelled
    /\ events = <<>>
    /\ \A j \in Jobs : job[j] \notin {"prolog", "epilog"}

(* NewSlurmClient, processSlurm: once the events of all scripts are        *)
(* handled, the map says of each GPU whether a job runs on it, and which,  *)
(* however jobs followed each other on it before, unless the constructor's *)
(* own events met an epilog half done.                                     *)
SettledAgrees == Settled /\ ~raced => GpuJobs = file

(* processSlurm: even then, no job that runs is mistaken for another.      *)
RunningIsLabelled ==
    Settled => \A g \in GPUs : file[g] # NoJob => GpuJobs[g] = file[g]

(* ListWorkloads, "returns the list of jobs running on the gpus": a job    *)
(* that goes on running is listed, and stays so, for as long as the client *)
(* is not closed, unless the constructor could not read the directory.     *)
JobIsListed ==
    \A j \in Jobs :
        <>[](job[j] = "running" /\ ~cancelled /\ boot # "blind") =>
            <>[](\A g \in gpusOf[j] : GpuJobs[g] = j)

(* ListWorkloads, "returns the list of jobs running on the gpus".          *)
OnlyRunningListed ==
    Settled => \A g \in GPUs : GpuJobs[g] # NoJob => file[g] = GpuJobs[g]

(* NewSlurmClient, "watcher setup failures return an error": it does not   *)
(* end the process.                                                        *)
NoSendOnClosedWatcher == ~panicked

(* NewSlurmClient: nor does it, unless the context ends meanwhile.         *)
PanicNeedsClose == panicked => cancelled
=============================================================================
