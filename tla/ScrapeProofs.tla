---------------------------- MODULE ScrapeProofs ----------------------------
(***************************************************************************)
(* What a scrape reads.  First part: the response cache of GpuCache, for   *)
(* every set of callers, every cacheTimer and every horizon of the clock.  *)
(* Second part: the jobs on the GPUs that SlurmClient keeps track of, for  *)
(* every set of GPUs and of jobs.                                          *)
(***************************************************************************)
EXTENDS GpuCache, SlurmClient, SequenceTheorems, WellFoundedInduction, TLAPS

-----------------------------------------------------------------------------
(* First part: GpuCache *)

PCs == {"idle", "fast", "lock", "check", "query", "cper"}

(* Type correctness of the cached responses.                               *)
THEOREM TypeCorrect == Spec => []TypeOK
<1>. USE CacheAssumption DEF Times, Responses, None
<1>1. Init => TypeOK
  <2>1. Init => clock \in Times /\ writer \in Callers \cup {NoOne}
        BY DEF Init
  <2>2. Init => lastResponse \in Responses /\ lastTimestamp \in Times
        BY DEF Init
  <2>3. Init => /\ pc \in [Callers -> PCs] /\ now \in [Callers -> Times]
                /\ got \in [Callers -> Responses]
        BY DEF Init, PCs
  <2>4. Init => cperPc \in {"idle", "fetched"}
        BY DEF Init
  <2>. QED BY <2>1, <2>2, <2>3, <2>4 DEF TypeOK, PCs
<1>2. TypeOK /\ [Next]_vars => TypeOK'
  <2>. SUFFICES ASSUME TypeOK, [Next]_vars PROVE TypeOK' OBVIOUS
  <2>. USE DEF TypeOK, Goto, Return, entry, calls
  <2>1. CASE Tick BY <2>1 DEF Tick
  <2>2. ASSUME NEW c \in Callers, Call(c) PROVE TypeOK' BY <2>2 DEF Call
  <2>3. ASSUME NEW c \in Callers, FastPath(c) PROVE TypeOK'
        BY <2>3 DEF FastPath
  <2>4. ASSUME NEW c \in Callers, Lock(c) PROVE TypeOK' BY <2>4 DEF Lock
  <2>5. ASSUME NEW c \in Callers, DoubleCheck(c) PROVE TypeOK'
        BY <2>5 DEF DoubleCheck
  <2>6. ASSUME NEW c \in Callers, QueryOK(c) PROVE TypeOK'
        BY <2>6 DEF QueryOK
  <2>7. ASSUME NEW c \in Callers, QueryFails(c) PROVE TypeOK'
        BY <2>7 DEF QueryFails
  <2>8. CASE CperFetch BY <2>8 DEF CperFetch
  <2>9. CASE CperStore BY <2>9 DEF CperStore
  <2>10. ASSUME NEW c \in Callers, CallCper(c) \/ cacheCperRead(c) PROVE TypeOK'
         BY <2>10 DEF CallCper, cacheCperRead
  <2>11. CASE UNCHANGED vars BY <2>11 DEF vars
  <2>. QED BY <2>1, <2>2, <2>3, <2>4, <2>5, <2>6, <2>7, <2>8, <2>9, <2>10, <2>11
           DEF Next, cacheRead
<1>. QED BY <1>1, <1>2, PTL DEF Spec

(* A caller is past the lock exactly while it is the writer.               *)
LockInv == \A c \in Callers : pc[c] \in {"check", "query"} <=> writer = c

(* The write lock is exclusive.                                            *)
LEMMA LockStep == TypeOK /\ LockInv /\ [Next]_vars => LockInv'
<1>. SUFFICES ASSUME TypeOK, LockInv, [Next]_vars PROVE LockInv' OBVIOUS
<1>0. pc \in [Callers -> PCs] /\ NoOne \notin Callers
      BY CacheAssumption DEF TypeOK, PCs
<1>. USE <1>0 DEF LockInv, Goto, Return, entry, calls
<1>1. CASE Tick BY <1>1 DEF Tick
<1>2. ASSUME NEW c \in Callers, Call(c) PROVE LockInv' BY <1>2 DEF Call
<1>3. ASSUME NEW c \in Callers, FastPath(c) PROVE LockInv'
      BY <1>3 DEF FastPath
<1>4. ASSUME NEW c \in Callers, Lock(c) PROVE LockInv' BY <1>4 DEF Lock
<1>5. ASSUME NEW c \in Callers, DoubleCheck(c) PROVE LockInv'
      BY <1>5 DEF DoubleCheck
<1>6. ASSUME NEW c \in Callers, QueryOK(c) PROVE LockInv' BY <1>6 DEF QueryOK
<1>7. ASSUME NEW c \in Callers, QueryFails(c) PROVE LockInv'
      BY <1>7 DEF QueryFails
<1>8. CASE CperFetch BY <1>8 DEF CperFetch
<1>9. CASE CperStore BY <1>9 DEF CperStore
<1>10. ASSUME NEW c \in Callers, CallCper(c) \/ cacheCperRead(c) PROVE LockInv'
       BY <1>10 DEF CallCper, cacheCperRead
<1>11. CASE UNCHANGED vars BY <1>11 DEF vars
<1>. QED BY <1>1, <1>2, <1>3, <1>4, <1>5, <1>6, <1>7, <1>8, <1>9, <1>10, <1>11
         DEF Next, cacheRead

(* The timestamp in the cache belongs to the response in it, no time taken *)
(* lies in the future, and the entry was stale when a query began; the     *)
(* lock keeps it so.                                                       *)
EntryInv ==
    /\ lastResponse # None => lastResponse = lastTimestamp
    /\ \A c \in Callers : now[c] <= clock
    /\ \A c \in Callers : pc[c] = "query" => ~Fresh(clock)
    /\ FreshAtCall

(* EntryInv is preserved; this is where the double check is used.          *)
LEMMA EntryStep == TypeOK /\ LockInv /\ EntryInv /\ [Next]_vars => EntryInv'
<1>. SUFFICES ASSUME TypeOK, LockInv, EntryInv, [Next]_vars PROVE EntryInv'
     OBVIOUS
<1>0. /\ pc \in [Callers -> PCs] /\ now \in [Callers -> Int]
      /\ got \in [Callers -> Int] /\ clock \in Int /\ lastTimestamp \in Int
      /\ lastResponse \in Int /\ cacheTimer \in Int /\ cacheTimer > 0
      /\ NoOne \notin Callers
      BY CacheAssumption DEF TypeOK, PCs, Times, Responses, None
<1>. USE <1>0 DEF LockInv, EntryInv, FreshAtCall, Fresh, Goto, Return, None,
                  entry, calls
<1>1. CASE Tick BY <1>1 DEF Tick
<1>2. ASSUME NEW c \in Callers, Call(c) PROVE EntryInv' BY <1>2 DEF Call
<1>3. ASSUME NEW c \in Callers, FastPath(c) PROVE EntryInv'
      BY <1>3 DEF FastPath
<1>4. ASSUME NEW c \in Callers, Lock(c) PROVE EntryInv' BY <1>4 DEF Lock
<1>5. ASSUME NEW c \in Callers, DoubleCheck(c) PROVE EntryInv'
      BY <1>5 DEF DoubleCheck
<1>6. ASSUME NEW c \in Callers, QueryOK(c) PROVE EntryInv'
      BY <1>6 DEF QueryOK
<1>7. ASSUME NEW c \in Callers, QueryFails(c) PROVE EntryInv'
      BY <1>7 DEF QueryFails
<1>8. CASE CperFetch BY <1>8 DEF CperFetch
<1>9. CASE CperStore BY <1>9 DEF CperStore
<1>10. ASSUME NEW c \in Callers, CallCper(c) \/ cacheCperRead(c) PROVE EntryInv'
       BY <1>10 DEF CallCper, cacheCperRead
<1>11. CASE UNCHANGED vars BY <1>11 DEF vars
<1>. QED BY <1>1, <1>2, <1>3, <1>4, <1>5, <1>6, <1>7, <1>8, <1>9, <1>10, <1>11
         DEF Next, cacheRead

(* Init establishes both invariants.                                       *)
LEMMA CacheInit == Init => LockInv /\ EntryInv
BY CacheAssumption DEF Init, LockInv, EntryInv, FreshAtCall, Fresh, None

(* cacheRead, for any number of clients: the hardware is queried by one    *)
(* caller at a time and never while a response younger than cacheTimer is  *)
(* in the cache.                                                           *)
THEOREM HardwareRateHolds == Spec => []HardwareRate
<1>1. LockInv /\ EntryInv => HardwareRate
      BY DEF LockInv, EntryInv, HardwareRate
<1>. QED BY TypeCorrect, CacheInit, LockStep, EntryStep, <1>1, PTL DEF Spec

(* cacheRead, for any number of clients and any delays: what a caller gets *)
(* was younger than cacheTimer when it called.                             *)
THEOREM FreshAtCallHolds == Spec => []FreshAtCall
<1>1. EntryInv => FreshAtCall BY DEF EntryInv
<1>. QED BY TypeCorrect, CacheInit, LockStep, EntryStep, <1>1, PTL DEF Spec

-----------------------------------------------------------------------------
(* Second part: SlurmClient *)

Watching == watch \in {"select", "read"}

(* An event of g is still to be taken; one comes after the p-th.           *)
Pending(g) == \E p \in 1..Len(events) : events[p].gpu = g
Later(p, g) == \E q \in (p + 1)..Len(events) : events[q].gpu = g

(* The prolog of a job has still to write the file of g.                   *)
ToCome(g) == \E j \in Jobs : job[j] = "prolog" /\ g \in left[j]

(* What the scripts make of the files: a GPU has at most one job in        *)
(* progress, and its file is as far as that job's script has come.         *)
LeftInv ==
    \A j \in Jobs : left[j] \subseteq gpusOf[j] /\ (job[j] = "new" => left[j] = gpusOf[j])

ApartInv ==
    \A i, j \in Jobs : i # j /\ Active(i) /\ Active(j) => gpusOf[i] \cap gpusOf[j] = {}

FileInv ==
    \A j \in Jobs : \A g \in gpusOf[j] :
       /\ job[j] = "prolog" => IF g \in left[j] THEN file[g] \in {NoJob, Partial}
                                                ELSE file[g] = j
       /\ job[j] = "running" => file[g] = j
       /\ job[j] = "epilog" => file[g] = IF g \in left[j] THEN j ELSE NoJob

OwnerInv ==
    \A g \in GPUs : /\ file[g] \in Jobs => Active(file[g]) /\ g \in gpusOf[file[g]]
                    /\ file[g] = Partial => ToCome(g)

JobInv == LeftInv /\ ApartInv /\ FileInv /\ OwnerInv

(* The last event of a GPU tells whether its file is there; and a write    *)
(* that will read the file of a job in its epilog comes before the         *)
(* removals of that job.                                                   *)
EventInv(p) ==
    /\ \/ Later(p, events[p].gpu)
       \/ events[p].op = "Write" <=> file[events[p].gpu] # NoJob
    /\ events[p].op = "Write" =>
          \A j \in Jobs : job[j] = "epilog" /\ events[p].gpu \in left[j] =>
             \A g \in gpusOf[j] \ left[j] : Later(p, g)

QueueInv ==
    /\ boot = "add" => watch = "off"
    /\ watch = "off" => events = <<>>
    /\ Watching => \A p \in 1..Len(events) : EventInv(p)

(* The job that the goroutine has read is still on all its GPUs, or an     *)
(* event of the others is to come, unless the scan met an epilog.          *)
HandInv ==
    /\ watch = "read" => hand # Nothing
    /\ watch = "read" /\ hand.op = "Write" /\ hand.jobEnv \in Jobs =>
          \A g \in gpusOf[hand.jobEnv] :
             \/ Pending(g) \/ ToCome(g) \/ file[g] = hand.jobEnv
             \/ raced /\ file[g] = NoJob

(* The job of g once what the goroutine has read is applied.               *)
After(g) ==
    IF watch = "read" /\ hand.op = "Remove" /\ hand.gpu = g THEN NoJob
    ELSE IF /\ watch = "read" /\ hand.op = "Write"
            /\ hand.jobEnv \in Jobs /\ g \in gpusOf[hand.jobEnv]
    THEN hand.jobEnv ELSE GpuJobs[g]

(* A GPU has the right job, or something is under way that sets it right:  *)
(* an event, a prolog, or the scan of the constructor.                     *)
Right(g) ==
    \/ Pending(g) \/ ToCome(g) \/ After(g) = file[g]
    \/ file[g] # NoJob /\ (boot = "scan" \/ g \in found)
    \/ raced /\ file[g] = NoJob

AgreeInv ==
    /\ boot = "add" => GpuJobs = [g \in GPUs |-> NoJob]
    /\ boot = "made" => found = {}
    /\ Watching /\ boot \in {"scan", "feed", "made"} => \A g \in GPUs : Right(g)

Ops == {"Write", "Remove"}
Events == [op : Ops, gpu : GPUs]

(* A script's next GPU is one that it has left to do.                      *)
LEMMA FirstIn == ASSUME NEW S, S \subseteq GPUs, S # {} PROVE First(S) \in S
<1>. DEFINE R == OpToRel(<, Nat)
<1>0. S \subseteq Nat BY SlurmAssumption
<1>1. IsWellFoundedOn(R, Nat) BY NatLessThanWellFounded, Zenon
<1>2. \A x, y \in Nat : x < y => <<x, y>> \in R BY DEF OpToRel
<1>. HIDE DEF R
<1>3. PICK x \in S : \A y \in S : ~(<<y, x>> \in R) BY <1>0, <1>1, WFMin
<1>4. ASSUME NEW y \in S PROVE x <= y
  <2>1. x \in Nat /\ y \in Nat BY <1>0
  <2>2. ~(y < x) BY <1>2, <1>3, <2>1, Zenon
  <2>. QED BY <2>1, <2>2
<1>. QED BY <1>4 DEF First

(* The events of inotify stay events of the GPUs.                          *)
LEMMA NotifyType ==
    ASSUME events \in Seq(Events), NEW o \in Ops, NEW g \in GPUs, Notify(o, g)
    PROVE  events' \in Seq(Events)
<1>1. Event(o, g) \in Events BY DEF Event, Events
<1>. QED BY <1>1 DEF Notify

(* What the goroutine takes is an event it can handle.                     *)
LEMMA ReadType ==
    ASSUME SlurmTypeOK, NEW e \in Events, Read(e)
    PROVE  watch' \in {"select", "read", "closed"} /\ hand' \in Hands
<1>1. CASE e.op = "Write" /\ file[e.gpu] = NoJob
      BY <1>1 DEF Read, SlurmTypeOK
<1>2. CASE ~(e.op = "Write" /\ file[e.gpu] = NoJob)
  <2>1. e.op \in Ops /\ e.gpu \in GPUs /\ file[e.gpu] \in Jobs \cup {NoJob, Partial}
        BY DEF Events, SlurmTypeOK
  <2>2. watch' = "read" /\ hand' = [op |-> e.op, gpu |-> e.gpu, jobEnv |-> file[e.gpu]]
        BY <1>2 DEF Read
  <2>. QED BY <2>1, <2>2 DEF Hands, Ops
<1>. QED BY <1>1, <1>2

(* Every step of a script, of the constructor and of the goroutine keeps   *)
(* the types.                                                              *)
LEMMA SlurmTypeStep == SlurmTypeOK /\ [SlurmNext]_svars => SlurmTypeOK'
<1>. SUFFICES ASSUME SlurmTypeOK, [SlurmNext]_svars PROVE SlurmTypeOK' OBVIOUS
<1>0. events \in Seq(Events) /\ \A e : (e \in Seq(Events))
          <=> (e \in Seq([op : {"Write", "Remove"}, gpu : GPUs]))
      BY DEF SlurmTypeOK, Events, Ops
<1>a. gpusOf \in [Jobs -> SUBSET GPUs] BY SlurmAssumption
<1>. USE DEF slurm, maker
<1>1. ASSUME NEW j \in Jobs, StartJob(j) \/ PrologEnds(j) \/ EndJob(j) \/ EpilogEnds(j)
      PROVE  SlurmTypeOK'
      BY <1>1, <1>a DEF StartJob, PrologEnds, EndJob, EpilogEnds, SlurmTypeOK
<1>2. ASSUME NEW j \in Jobs, Prolog(j) PROVE SlurmTypeOK'
  <2>1. First(left[j]) \in GPUs BY <1>2, FirstIn DEF Prolog, SlurmTypeOK
  <2>2. events' \in Seq(Events) BY <1>0, <1>2, <2>1, NotifyType DEF Prolog, Ops
  <2>3. left' \in [Jobs -> SUBSET GPUs] /\ file' \in [GPUs -> Jobs \cup {NoJob, Partial}]
        BY <1>2, <2>1 DEF Prolog, SlurmTypeOK
  <2>. QED BY <1>0, <1>2, <2>2, <2>3 DEF Prolog, SlurmTypeOK
<1>3. ASSUME NEW j \in Jobs, Epilog(j) PROVE SlurmTypeOK'
  <2>1. First(left[j]) \in GPUs BY <1>3, FirstIn DEF Epilog, SlurmTypeOK
  <2>2. events' \in Seq(Events) BY <1>0, <1>3, <2>1, NotifyType DEF Epilog, Ops
  <2>3. left' \in [Jobs -> SUBSET GPUs] /\ file' \in [GPUs -> Jobs \cup {NoJob, Partial}]
        BY <1>3, <2>1 DEF Epilog, SlurmTypeOK
  <2>. QED BY <1>0, <1>3, <2>2, <2>3 DEF Epilog, SlurmTypeOK
<1>4. CASE Add
      BY <1>4, Zenon DEF Add, SlurmTypeOK
<1>5. CASE ReadDir
  <2>1. found' \subseteq GPUs BY <1>5 DEF ReadDir, SlurmTypeOK
  <2>. QED BY <1>5, <2>1, Zenon DEF ReadDir, SlurmTypeOK
<1>6. CASE SendClosed \/ ReturnClient \/ StopWatching \/ Close
      BY <1>6, Zenon DEF SendClosed, ReturnClient, StopWatching, Close, SlurmTypeOK
<1>7. CASE TakeEvent
  <2>1. Head(events) \in Events /\ Tail(events) \in Seq(Events)
        BY <1>0, <1>7 DEF TakeEvent
  <2>2. watch' \in {"select", "read", "closed"} /\ hand' \in Hands
        BY <1>7, <2>1, ReadType DEF TakeEvent
  <2>. QED BY <1>0, <1>7, <2>1, <2>2 DEF TakeEvent, SlurmTypeOK
<1>8. CASE TakeFed
  <2>1. First(found) \in GPUs BY <1>8, FirstIn DEF TakeFed, SlurmTypeOK
  <2>2. Event("Write", First(found)) \in Events BY <2>1 DEF Event, Events, Ops
  <2>3. watch' \in {"select", "read", "closed"} /\ hand' \in Hands
        BY <1>8, <2>2, ReadType DEF TakeFed
  <2>4. raced' \in BOOLEAN BY <1>8, Zenon DEF TakeFed
  <2>5. found' \subseteq GPUs BY <1>8 DEF TakeFed, SlurmTypeOK
  <2>. QED BY <1>8, <2>3, <2>4, <2>5, Zenon DEF TakeFed, SlurmTypeOK
<1>9. CASE processSlurm
  <2>1. GpuJobs' \in [GPUs -> Jobs \cup {NoJob}]
        BY <1>9 DEF processSlurm, SlurmTypeOK
  <2>2. hand' \in Hands /\ watch' \in {"select", "closed"}
        BY <1>9 DEF processSlurm, Hands
  <2>. QED BY <1>9, <2>1, <2>2 DEF processSlurm, SlurmTypeOK
<1>10. CASE UNCHANGED svars BY <1>10 DEF svars, SlurmTypeOK
<1>. QED BY <1>1, <1>2, <1>3, <1>4, <1>5, <1>6, <1>7, <1>8, <1>9, <1>10
         DEF SlurmNext, constructor, watcher, script

(* SlurmClient is type-correct, for any GPUs and jobs.                     *)
THEOREM SlurmTypeCorrect == SlurmSpec => []SlurmTypeOK
<1>1. SlurmInit => SlurmTypeOK
  <2>. SUFFICES ASSUME SlurmInit PROVE SlurmTypeOK OBVIOUS
  <2>1. job \in [Jobs -> {"new", "prolog", "running", "epilog", "over"}]
        BY DEF SlurmInit
  <2>2. /\ left \in [Jobs -> SUBSET GPUs]
        /\ file \in [GPUs -> Jobs \cup {NoJob, Partial}]
        /\ GpuJobs \in [GPUs -> Jobs \cup {NoJob}]
        BY SlurmAssumption DEF SlurmInit
  <2>3. events \in Seq([op : {"Write", "Remove"}, gpu : GPUs]) /\ hand \in Hands
        BY DEF SlurmInit, Hands
  <2>. QED BY <2>1, <2>2, <2>3 DEF SlurmInit, SlurmTypeOK
<1>. QED BY <1>1, SlurmTypeStep, PTL DEF SlurmSpec

-----------------------------------------------------------------------------
(* The scripts keep the files as JobInv says.                              *)
LEMMA JobStep == SlurmTypeOK /\ JobInv /\ [SlurmNext]_svars => JobInv'
<1>. SUFFICES ASSUME SlurmTypeOK, JobInv, [SlurmNext]_svars PROVE JobInv' OBVIOUS
<1>0. /\ job \in [Jobs -> {"new", "prolog", "running", "epilog", "over"}]
      /\ left \in [Jobs -> SUBSET GPUs] /\ gpusOf \in [Jobs -> SUBSET GPUs]
      /\ file \in [GPUs -> Jobs \cup {NoJob, Partial}]
      /\ NoJob \notin Jobs /\ Partial \notin Jobs /\ NoJob # Partial
      BY SlurmAssumption DEF SlurmTypeOK
<1>. USE DEF JobInv
<1>1. ASSUME UNCHANGED slurm PROVE JobInv'
      BY <1>1 DEF slurm, LeftInv, ApartInv, FileInv, OwnerInv, Active, ToCome
<1>2. CASE constructor \/ watcher \/ Close \/ UNCHANGED svars
  <2>1. UNCHANGED slurm
        BY <1>2, Zenon DEF constructor, Add, ReadDir, SendClosed, ReturnClient, watcher, TakeEvent,
                    TakeFed, processSlurm, StopWatching, Close, svars
  <2>. QED BY <1>1, <2>1
<1>3. ASSUME NEW j \in Jobs, script(j) PROVE JobInv'
  <2>1. CASE StartJob(j)
    <3>1. \A g \in gpusOf[j] : file[g] = NoJob
      <4>. SUFFICES ASSUME NEW g \in gpusOf[j], file[g] # NoJob PROVE FALSE OBVIOUS
      <4>1. PICK i \in Jobs : Active(i) /\ g \in gpusOf[i]
            BY <1>0 DEF OwnerInv, LeftInv, ToCome, Active
      <4>. QED BY <2>1, <4>1 DEF StartJob
    <3>2. job[j] = "new" /\ job' = [job EXCEPT ![j] = "prolog"] /\ UNCHANGED <<left, file>>
          BY <2>1 DEF StartJob
    <3>3. ApartInv' BY <1>0, <2>1, <3>2 DEF StartJob, ApartInv, Active
    <3>4. left[j] = gpusOf[j] BY <3>2, Zenon DEF LeftInv
    <3>5. FileInv' BY <1>0, <3>1, <3>2, <3>4 DEF FileInv
    <3>6. OwnerInv' BY <1>0, <3>2 DEF OwnerInv, Active, ToCome
    <3>7. LeftInv' BY <1>0, <3>2 DEF LeftInv
    <3>. QED BY <3>3, <3>5, <3>6, <3>7
  <2>2. CASE Prolog(j)
    <3>. DEFINE g == First(left[j])
    <3>1. g \in left[j] /\ g \in GPUs /\ g \in gpusOf[j]
          BY <1>0, <2>2, FirstIn DEF Prolog, LeftInv
    <3>2. job[j] = "prolog" /\ job' = job BY <2>2 DEF Prolog
    <3>3. \/ file' = [file EXCEPT ![g] = Partial] /\ left' = left
          \/ file' = [file EXCEPT ![g] = j] /\ left' = [left EXCEPT ![j] = @ \ {g}]
          BY <2>2 DEF Prolog
    <3>. HIDE DEF g
    <3>4. LeftInv' BY <1>0, <3>1, <3>2, <3>3 DEF LeftInv
    <3>5. ApartInv' BY <3>2 DEF ApartInv, Active
    <3>6. \A k \in Jobs : Active(k) /\ g \in gpusOf[k] => k = j
          BY <3>1, <3>2 DEF ApartInv, Active
    <3>7. FileInv' BY <1>0, <3>1, <3>2, <3>3, <3>6 DEF FileInv, Active
    <3>8. OwnerInv' BY <1>0, <3>1, <3>2, <3>3 DEF OwnerInv, Active, ToCome
    <3>. QED BY <3>4, <3>5, <3>7, <3>8
  <2>3. CASE PrologEnds(j)
    <3>1. /\ job[j] = "prolog" /\ left[j] = {} /\ job' = [job EXCEPT ![j] = "running"]
          /\ UNCHANGED <<left, file>>
          BY <2>3 DEF PrologEnds
    <3>2. LeftInv' /\ ApartInv' BY <1>0, <3>1 DEF LeftInv, ApartInv, Active
    <3>3. FileInv' BY <1>0, <3>1 DEF FileInv
    <3>4. OwnerInv' BY <1>0, <3>1 DEF OwnerInv, Active, ToCome
    <3>. QED BY <3>2, <3>3, <3>4
  <2>4. CASE EndJob(j)
    <3>1. /\ job[j] = "running" /\ job' = [job EXCEPT ![j] = "epilog"]
          /\ left' = [left EXCEPT ![j] = gpusOf[j]] /\ UNCHANGED file
          BY <2>4 DEF EndJob
    <3>2. LeftInv' /\ ApartInv' BY <1>0, <3>1 DEF LeftInv, ApartInv, Active
    <3>3. FileInv' BY <1>0, <3>1 DEF FileInv
    <3>4. OwnerInv' BY <1>0, <3>1 DEF OwnerInv, Active, ToCome
    <3>. QED BY <3>2, <3>3, <3>4
  <2>5. CASE Epilog(j)
    <3>. DEFINE g == First(left[j])
    <3>1. g \in left[j] /\ g \in GPUs /\ g \in gpusOf[j]
          BY <1>0, <2>5, FirstIn DEF Epilog, LeftInv
    <3>2. /\ job[j] = "epilog" /\ job' = job /\ file' = [file EXCEPT ![g] = NoJob]
          /\ left' = [left EXCEPT ![j] = @ \ {g}]
          BY <2>5 DEF Epilog
    <3>. HIDE DEF g
    <3>3. LeftInv' /\ ApartInv' BY <1>0, <3>1, <3>2 DEF LeftInv, ApartInv, Active
    <3>4. \A k \in Jobs : Active(k) /\ g \in gpusOf[k] => k = j
          BY <3>1, <3>2 DEF ApartInv, Active
    <3>5. FileInv' BY <1>0, <3>1, <3>2, <3>4 DEF FileInv, Active
    <3>6. OwnerInv' BY <1>0, <3>1, <3>2 DEF OwnerInv, Active, ToCome
    <3>. QED BY <3>3, <3>5, <3>6
  <2>6. CASE EpilogEnds(j)
    <3>1. /\ job[j] = "epilog" /\ left[j] = {} /\ job' = [job EXCEPT ![j] = "over"]
          /\ UNCHANGED <<left, file>>
          BY <2>6 DEF EpilogEnds
    <3>2. LeftInv' /\ ApartInv' BY <1>0, <3>1 DEF LeftInv, ApartInv, Active
    <3>3. FileInv' BY <1>0, <3>1 DEF FileInv
    <3>4. \A g \in gpusOf[j] : file[g] = NoJob BY <3>1 DEF FileInv
    <3>5. OwnerInv' BY <1>0, <3>1, <3>4 DEF OwnerInv, Active, ToCome
    <3>. QED BY <3>2, <3>3, <3>5
  <2>. QED BY <1>3, <2>1, <2>2, <2>3, <2>4, <2>5, <2>6 DEF script
<1>. QED BY <1>2, <1>3 DEF SlurmNext

-----------------------------------------------------------------------------
(* A new event is the last of the queue and follows all others.            *)
LEMMA NotifyLast ==
    ASSUME SlurmTypeOK, Watching, NEW o \in Ops, NEW g \in GPUs, Notify(o, g)
    PROVE  /\ Len(events) \in Nat /\ Len(events') = Len(events) + 1
           /\ events'[Len(events) + 1] = Event(o, g)
           /\ \A p \in 1..Len(events) : /\ events'[p] = events[p]
                                        /\ \A h : Later(p, h)' <=> Later(p, h) \/ h = g
           /\ \A h : Pending(h)' <=> Pending(h) \/ h = g
<1>1. events \in Seq(Events) BY DEF SlurmTypeOK, Events, Ops
<1>2. events' = Append(events, Event(o, g)) BY DEF Notify, Watching
<1>3. Event(o, g) \in Events /\ Event(o, g).gpu = g BY DEF Event, Events
<1>4. /\ Len(events) \in Nat /\ Len(events') = Len(events) + 1
      /\ events'[Len(events) + 1] = Event(o, g)
      /\ \A p \in 1..Len(events) : events'[p] = events[p]
      BY <1>1, <1>2, <1>3
<1>5. ASSUME NEW p \in 1..Len(events), NEW h PROVE Later(p, h)' <=> Later(p, h) \/ h = g
  <2>1. \A q : q \in (p + 1)..Len(events')
                  <=> q \in (p + 1)..Len(events) \/ q = Len(events) + 1
        BY <1>4
  <2>2. \A q \in (p + 1)..Len(events) : events'[q] = events[q] BY <1>4
  <2>. QED BY <1>3, <1>4, <2>1, <2>2 DEF Later
<1>6. ASSUME NEW h PROVE Pending(h)' <=> Pending(h) \/ h = g
  <2>1. \A q : q \in 1..Len(events') <=> q \in 1..Len(events) \/ q = Len(events) + 1
        BY <1>4
  <2>. QED BY <1>3, <1>4, <2>1 DEF Pending
<1>. QED BY <1>4, <1>5, <1>6

(* Taking an event leaves those that came later.                           *)
LEMMA TakeRest ==
    ASSUME SlurmTypeOK, events # <<>>, events' = Tail(events)
    PROVE  /\ Head(events) = events[1] /\ events[1] \in Events /\ 1 \in 1..Len(events)
           /\ \A p \in 1..Len(events') : /\ p + 1 \in 1..Len(events)
                                         /\ events'[p] = events[p + 1]
                                         /\ \A h : Later(p, h)' <=> Later(p + 1, h)
           /\ \A h : Pending(h)' <=> Later(1, h)
           /\ \A h : Pending(h) <=> Later(1, h) \/ events[1].gpu = h
<1>1. events \in Seq(Events) BY DEF SlurmTypeOK, Events, Ops
<1>2. /\ Len(events) \in Nat /\ Len(events) >= 1 /\ Len(events') = Len(events) - 1
      /\ \A p \in 1..Len(events') : events'[p] = events[p + 1]
      /\ Head(events) = events[1] /\ events[1] \in Events
      BY <1>1
<1>3. ASSUME NEW p \in 0..Len(events'), NEW h
      PROVE  (\E q \in (p + 1)..Len(events') : events'[q].gpu = h) <=> Later(p + 1, h)
  <2>1. ASSUME NEW q \in (p + 1)..Len(events') 
        PROVE  q + 1 \in (p + 1 + 1)..Len(events) /\ events'[q] = events[q + 1]
        BY <1>2
  <2>2. ASSUME NEW q \in (p + 1 + 1)..Len(events)
        PROVE  q - 1 \in (p + 1)..Len(events') /\ events'[q - 1] = events[q]
    <3>1. q \in Int /\ q - 1 \in (p + 1)..Len(events') /\ (q - 1) + 1 = q BY <1>2
    <3>. QED BY <1>2, <3>1
  <2>. QED BY <2>1, <2>2 DEF Later
<1>4. ASSUME NEW p \in 1..Len(events') PROVE p + 1 \in 1..Len(events) /\ p \in 0..Len(events')
      BY <1>2
<1>5. ASSUME NEW h PROVE Pending(h)' <=> Later(1, h)
  <2>1. 0 \in 0..Len(events') /\ 0 + 1 = 1 BY <1>2
  <2>2. (\E q \in (0 + 1)..Len(events') : events'[q].gpu = h) <=> Later(0 + 1, h)
        BY <1>3, <2>1, Zenon
  <2>. QED BY <2>1, <2>2 DEF Pending
<1>6. ASSUME NEW h PROVE Pending(h) <=> Later(1, h) \/ events[1].gpu = h
  <2>1. \A q : q \in 1..Len(events) <=> q = 1 \/ q \in (1 + 1)..Len(events) BY <1>2
  <2>. QED BY <2>1 DEF Pending, Later
<1>7. 1 \in 1..Len(events) BY <1>2
<1>. QED BY <1>2, <1>3, <1>4, <1>5, <1>6, <1>7 DEF Later

-----------------------------------------------------------------------------
(* What a script does while the client watches: a file that changes leaves *)
(* an event, and no event is lost.                                         *)
LEMMA ScriptNotifies ==
    ASSUME SlurmTypeOK, JobInv, Watching, NEW j \in Jobs, script(j)
    PROVE  /\ UNCHANGED <<maker, watch, hand, GpuJobs, cancelled, panicked, raced>>
           /\ \A g \in GPUs :
                 /\ Pending(g) => Pending(g)'
                 /\ \/ Pending(g)'
                    \/ file'[g] = file[g] /\ (ToCome(g) => ToCome(g)')
<1>0. /\ job \in [Jobs -> {"new", "prolog", "running", "epilog", "over"}]
      /\ left \in [Jobs -> SUBSET GPUs] /\ file \in [GPUs -> Jobs \cup {NoJob, Partial}]
      BY DEF SlurmTypeOK
<1>1. UNCHANGED <<maker, watch, hand, GpuJobs, cancelled, panicked, raced>>
      BY Zenon DEF script, StartJob, Prolog, PrologEnds, EndJob, Epilog, EpilogEnds
<1>2. ASSUME NEW g \in GPUs
      PROVE  /\ Pending(g) => Pending(g)'
             /\ \/ Pending(g)'
                \/ file'[g] = file[g] /\ (ToCome(g) => ToCome(g)')
  <2>1. CASE StartJob(j)
        BY <1>0, <2>1 DEF StartJob, Pending, ToCome
  <2>2. CASE Prolog(j)
    <3>1. First(left[j]) \in GPUs BY <1>0, <2>2, FirstIn DEF Prolog
    <3>2. \A h : Pending(h)' <=> Pending(h) \/ h = First(left[j])
          BY <2>2, <3>1, NotifyLast DEF Prolog, Ops
    <3>3. CASE g = First(left[j]) BY <3>2, <3>3
    <3>4. CASE g # First(left[j])
      <4>1. file'[g] = file[g] BY <1>0, <2>2, <3>1, <3>4 DEF Prolog
      <4>2. job' = job /\ \A i \in Jobs : g \in left[i] => g \in left'[i]
            BY <1>0, <2>2, <3>4 DEF Prolog
      <4>. QED BY <3>2, <4>1, <4>2 DEF ToCome
    <3>. QED BY <3>3, <3>4
  <2>3. CASE PrologEnds(j)
        BY <1>0, <2>3 DEF PrologEnds, Pending, ToCome
  <2>4. CASE EndJob(j)
        BY <1>0, <2>4 DEF EndJob, Pending, ToCome
  <2>5. CASE Epilog(j)
    <3>1. First(left[j]) \in GPUs BY <1>0, <2>5, FirstIn DEF Epilog
    <3>2. \A h : Pending(h)' <=> Pending(h) \/ h = First(left[j])
          BY <2>5, <3>1, NotifyLast DEF Epilog, Ops
    <3>3. CASE g = First(left[j]) BY <3>2, <3>3
    <3>4. CASE g # First(left[j])
      <4>1. file'[g] = file[g] BY <1>0, <2>5, <3>1, <3>4 DEF Epilog
      <4>2. job' = job /\ \A i \in Jobs : g \in left[i] => g \in left'[i]
            BY <1>0, <2>5, <3>4 DEF Epilog
      <4>. QED BY <3>2, <4>1, <4>2 DEF ToCome
    <3>. QED BY <3>3, <3>4
  <2>6. CASE EpilogEnds(j)
        BY <1>0, <2>6 DEF EpilogEnds, Pending, ToCome
  <2>. QED BY <2>1, <2>2, <2>3, <2>4, <2>5, <2>6 DEF script
<1>. QED BY <1>1, <1>2

(* The queue keeps its order: the scripts add to its end, the goroutine    *)
(* takes from its head.                                                    *)
LEMMA QueueStep == SlurmTypeOK /\ JobInv /\ QueueInv /\ [SlurmNext]_svars => QueueInv'
<1>. SUFFICES ASSUME SlurmTypeOK, JobInv, QueueInv, [SlurmNext]_svars PROVE QueueInv'
     OBVIOUS
<1>0. /\ job \in [Jobs -> {"new", "prolog", "running", "epilog", "over"}]
      /\ left \in [Jobs -> SUBSET GPUs] /\ gpusOf \in [Jobs -> SUBSET GPUs]
      /\ file \in [GPUs -> Jobs \cup {NoJob, Partial}] /\ NoJob \notin Jobs
      /\ NoJob # Partial
      BY SlurmAssumption DEF SlurmTypeOK
<1>1. ASSUME UNCHANGED <<slurm, events, watch>>, boot' # "add" \/ boot' = boot
      PROVE  QueueInv'
      BY <1>1 DEF slurm, QueueInv, EventInv, Watching, Later
<1>2. CASE ReadDir \/ SendClosed \/ ReturnClient \/ Close \/ UNCHANGED svars
  <2>1. UNCHANGED <<slurm, events, watch>> /\ (boot' # "add" \/ boot' = boot)
        BY <1>2 DEF ReadDir, SendClosed, ReturnClient, Close, svars, maker
  <2>. QED BY <1>1, <2>1
<1>3. CASE Add
  <2>1. events = <<>> /\ events' = events /\ boot' # "add" /\ watch = "off"
        BY <1>3 DEF Add, QueueInv
  <2>. QED BY <2>1 DEF QueueInv
<1>4. CASE StopWatching
      BY <1>4 DEF StopWatching, QueueInv, Watching, maker
<1>5. CASE TakeFed \/ processSlurm
  <2>1. UNCHANGED <<slurm, events, boot>> /\ Watching /\ watch' # "off"
        BY <1>5 DEF TakeFed, processSlurm, Read, Watching, maker
  <2>2. boot # "add" BY <2>1 DEF QueueInv, Watching
  <2>. QED BY <2>1, <2>2 DEF slurm, QueueInv, EventInv, Later
<1>6. CASE TakeEvent
  <2>1. /\ UNCHANGED <<slurm, boot>> /\ Watching /\ watch' # "off"
        /\ events # <<>> /\ events' = Tail(events)
        BY <1>6 DEF TakeEvent, Read, Watching, maker
  <2>2. boot # "add" BY <2>1 DEF QueueInv, Watching
  <2>3. \A p \in 1..Len(events') : /\ p + 1 \in 1..Len(events)
                                   /\ events'[p] = events[p + 1]
                                   /\ \A h : Later(p, h)' <=> Later(p + 1, h)
        BY <2>1, TakeRest
  <2>. QED BY <2>1, <2>2, <2>3 DEF slurm, QueueInv, EventInv
<1>7. \A p \in 1..Len(events) : events[p].gpu \in GPUs
  <2>1. events \in Seq(Events) BY DEF SlurmTypeOK, Events, Ops
  <2>2. \A p \in 1..Len(events) : events[p] \in Events BY <2>1
  <2>. QED BY <2>2 DEF Events
<1>8. ASSUME NEW j \in Jobs, script(j) PROVE QueueInv'
  <2>1. CASE StartJob(j)
        BY <1>0, <2>1 DEF StartJob, QueueInv, EventInv, Watching, Later, maker
  <2>2. CASE PrologEnds(j)
        BY <1>0, <2>2 DEF PrologEnds, QueueInv, EventInv, Watching, Later, maker
  <2>3. CASE EndJob(j)
        BY <1>0, <2>3 DEF EndJob, QueueInv, EventInv, Watching, Later, maker
  <2>4. CASE EpilogEnds(j)
        BY <1>0, <2>4 DEF EpilogEnds, QueueInv, EventInv, Watching, Later, maker
  <2>5. CASE (Prolog(j) \/ Epilog(j)) /\ ~Watching
    <3>1. UNCHANGED <<events, boot, watch>>
          BY <2>5 DEF Prolog, Epilog, Notify, Watching, maker
    <3>. QED BY <2>5, <3>1 DEF QueueInv, Watching
  <2>6. CASE Prolog(j) /\ Watching
    <3>. DEFINE g == First(left[j])
    <3>1. g \in GPUs /\ g \in gpusOf[j]
          BY <1>0, <2>6, FirstIn DEF Prolog, JobInv, LeftInv
    <3>2. /\ job[j] = "prolog" /\ job' = job /\ file'[g] # NoJob
          /\ \A h \in GPUs \ {g} : file'[h] = file[h]
          /\ \A k \in Jobs \ {j} : left'[k] = left[k]
          /\ UNCHANGED <<boot, watch>> /\ Notify("Write", g)
          BY <1>0, <2>6, <3>1 DEF Prolog, maker
    <3>3. \A k \in Jobs : job[k] = "epilog" => g \notin left[k]
          BY <3>1, <3>2 DEF JobInv, ApartInv, LeftInv, Active
    <3>4. /\ Len(events) \in Nat /\ Len(events') = Len(events) + 1
          /\ events'[Len(events) + 1] = Event("Write", g)
          /\ \A p \in 1..Len(events) : /\ events'[p] = events[p]
                                       /\ \A h : Later(p, h)' <=> Later(p, h) \/ h = g
          BY <2>6, <3>1, <3>2, NotifyLast DEF Ops
    <3>. HIDE DEF g
    <3>5. ASSUME NEW p \in 1..Len(events') PROVE EventInv(p)'
      <4>1. CASE p \in 1..Len(events)
        <5>1. EventInv(p) /\ events[p].gpu \in GPUs BY <1>7, <2>6, <4>1 DEF QueueInv
        <5>2. events'[p] = events[p] /\ \A h : Later(p, h)' <=> Later(p, h) \/ h = g
              BY <3>4, <4>1
        <5>3. \A k \in Jobs : job'[k] = "epilog" => job[k] = "epilog" /\ left'[k] = left[k]
              BY <3>2
        <5>. QED BY <3>2, <5>1, <5>2, <5>3 DEF EventInv
      <4>2. CASE p = Len(events) + 1
        <5>1. events'[p].op = "Write" /\ events'[p].gpu = g BY <3>4, <4>2 DEF Event
        <5>2. \A k \in Jobs : job'[k] = "epilog" => g \notin left'[k] BY <3>2, <3>3
        <5>. QED BY <3>2, <5>1, <5>2 DEF EventInv
      <4>. QED BY <3>4, <4>1, <4>2
    <3>6. boot # "add" /\ watch # "off" BY <2>6 DEF QueueInv, Watching
    <3>. QED BY <3>2, <3>5, <3>6 DEF QueueInv
  <2>7. CASE Epilog(j) /\ Watching
    <3>. DEFINE g == First(left[j])
    <3>1. g \in GPUs BY <1>0, <2>7, FirstIn DEF Epilog
    <3>2. /\ job[j] = "epilog" /\ job' = job /\ file'[g] = NoJob
          /\ \A h \in GPUs \ {g} : file'[h] = file[h]
          /\ \A k \in Jobs \ {j} : left'[k] = left[k]
          /\ left'[j] = left[j] \ {g}
          /\ UNCHANGED <<boot, watch>> /\ Notify("Remove", g)
          BY <1>0, <2>7, <3>1 DEF Epilog, maker
    <3>3. /\ Len(events) \in Nat /\ Len(events') = Len(events) + 1
          /\ events'[Len(events) + 1] = Event("Remove", g)
          /\ \A p \in 1..Len(events) : /\ events'[p] = events[p]
                                       /\ \A h : Later(p, h)' <=> Later(p, h) \/ h = g
          BY <2>7, <3>1, <3>2, NotifyLast DEF Ops
    <3>. HIDE DEF g
    <3>4. ASSUME NEW p \in 1..Len(events') PROVE EventInv(p)'
      <4>1. CASE p \in 1..Len(events)
        <5>1. EventInv(p) /\ events[p].gpu \in GPUs BY <1>7, <2>7, <4>1 DEF QueueInv
        <5>2. events'[p] = events[p] /\ \A h : Later(p, h)' <=> Later(p, h) \/ h = g
              BY <3>3, <4>1
        <5>3. \A k \in Jobs : \A h : h \in left'[k] => h \in left[k] BY <3>2
        <5>4. \A k \in Jobs : \A h : h \in left[k] /\ h \notin left'[k] => h = g BY <3>2
        <5>. QED BY <3>2, <5>1, <5>2, <5>3, <5>4 DEF EventInv
      <4>2. CASE p = Len(events) + 1
        <5>1. events'[p].op = "Remove" /\ events'[p].gpu = g BY <3>3, <4>2 DEF Event
        <5>. QED BY <3>2, <5>1 DEF EventInv
      <4>. QED BY <3>3, <4>1, <4>2
    <3>5. boot # "add" /\ watch # "off" BY <2>7 DEF QueueInv, Watching
    <3>. QED BY <3>2, <3>4, <3>5 DEF QueueInv
  <2>. QED BY <1>8, <2>1, <2>2, <2>3, <2>4, <2>5, <2>6, <2>7 DEF script
<1>. QED BY <1>2, <1>3, <1>4, <1>5, <1>6, <1>8 DEF SlurmNext, constructor, watcher

-----------------------------------------------------------------------------
(* The other GPUs of a job whose file is read: their files are there or    *)
(* still to come, unless the epilog has been there.                        *)
LEMMA FileSpeaksForJob ==
    ASSUME SlurmTypeOK, JobInv, NEW f \in GPUs, file[f] \in Jobs, NEW g \in gpusOf[file[f]]
    PROVE  \/ ToCome(g) \/ file[g] = file[f]
           \/ /\ job[file[f]] = "epilog" /\ f \in left[file[f]]
              /\ g \notin left[file[f]] /\ file[g] = NoJob
<1>. DEFINE j == file[f]
<1>1. Active(j) /\ f \in gpusOf[j] BY DEF JobInv, OwnerInv
<1>2. j # NoJob /\ j # Partial BY SlurmAssumption
<1>3. CASE job[j] = "prolog" BY <1>3 DEF JobInv, FileInv, ToCome
<1>4. CASE job[j] = "running" BY <1>4 DEF JobInv, FileInv
<1>5. CASE job[j] = "epilog" BY <1>1, <1>2, <1>5 DEF JobInv, FileInv
<1>. QED BY <1>1, <1>3, <1>4, <1>5 DEF Active

(* What the goroutine holds while it reads an event.                       *)
LEMMA ReadHand ==
    ASSUME SlurmTypeOK, NEW e \in Events, Read(e), watch' = "read"
    PROVE  /\ hand'.op = e.op /\ hand'.gpu = e.gpu /\ hand'.jobEnv = file[e.gpu]
           /\ hand' # Nothing /\ e.gpu \in GPUs
           /\ e.op = "Write" => file[e.gpu] # NoJob
<1>1. CASE e.op = "Write" /\ file[e.gpu] = NoJob BY <1>1 DEF Read
<1>2. CASE ~(e.op = "Write" /\ file[e.gpu] = NoJob)
  <2>1. hand' = [op |-> e.op, gpu |-> e.gpu, jobEnv |-> file[e.gpu]]
        BY <1>2 DEF Read
  <2>2. e.op \in Ops /\ e.gpu \in GPUs BY DEF Events
  <2>. QED BY <1>2, <2>1, <2>2 DEF Nothing, Ops
<1>. QED BY <1>1, <1>2

(* HandInv is preserved; the order of the queue is used when a write is    *)
(* taken from it.                                                          *)
LEMMA HandStep ==
    SlurmTypeOK /\ JobInv /\ QueueInv /\ HandInv /\ [SlurmNext]_svars => HandInv'
<1>. SUFFICES ASSUME SlurmTypeOK, JobInv, QueueInv, HandInv, [SlurmNext]_svars
              PROVE  HandInv'
     OBVIOUS
<1>0. /\ gpusOf \in [Jobs -> SUBSET GPUs] /\ NoJob \notin Jobs
      /\ file \in [GPUs -> Jobs \cup {NoJob, Partial}]
      BY SlurmAssumption DEF SlurmTypeOK
<1>1. CASE Add \/ processSlurm \/ StopWatching
  <2>1. watch' # "read"
    <3>1. CASE Add BY <3>1 DEF Add, QueueInv
    <3>2. CASE processSlurm \/ StopWatching BY <3>2 DEF processSlurm, StopWatching
    <3>. QED BY <1>1, <3>1, <3>2
  <2>. QED BY <2>1 DEF HandInv
<1>2. CASE ReadDir \/ SendClosed \/ ReturnClient \/ Close \/ UNCHANGED svars
  <2>1. UNCHANGED <<slurm, events, watch, hand, raced>>
        BY <1>2, Zenon DEF ReadDir, SendClosed, ReturnClient, Close, svars
  <2>. QED BY <2>1 DEF slurm, HandInv, Pending, ToCome
<1>3. CASE TakeEvent
  <2>. SUFFICES ASSUME watch' = "read" PROVE HandInv' BY DEF HandInv
  <2>1. /\ UNCHANGED <<slurm, raced>> /\ watch = "select" /\ events # <<>>
        /\ events' = Tail(events) /\ Read(Head(events))
        BY <1>3 DEF TakeEvent
  <2>2. /\ Head(events) = events[1] /\ events[1] \in Events /\ 1 \in 1..Len(events)
        /\ \A h : Pending(h)' <=> Later(1, h)
        BY <2>1, TakeRest
  <2>. DEFINE e == events[1]
  <2>3. /\ hand'.op = e.op /\ hand'.gpu = e.gpu /\ hand'.jobEnv = file[e.gpu]
        /\ hand' # Nothing /\ e.gpu \in GPUs
        BY <2>1, <2>2, ReadHand
  <2>4. EventInv(1) BY <2>1, <2>2 DEF QueueInv, Watching
  <2>5. ASSUME hand'.op = "Write", hand'.jobEnv \in Jobs, NEW g \in gpusOf[hand'.jobEnv]
        PROVE  Pending(g)' \/ ToCome(g)' \/ file'[g] = hand'.jobEnv
    <3>1. \/ ToCome(g) \/ file[g] = file[e.gpu]
          \/ /\ job[file[e.gpu]] = "epilog" /\ e.gpu \in left[file[e.gpu]]
             /\ g \notin left[file[e.gpu]] /\ file[g] = NoJob
          BY <2>3, <2>5, FileSpeaksForJob
    <3>2. job[file[e.gpu]] = "epilog" /\ e.gpu \in left[file[e.gpu]]
             => g \in left[file[e.gpu]] \/ Later(1, g)
          BY <2>3, <2>4, <2>5 DEF EventInv
    <3>. QED BY <2>1, <2>2, <2>3, <3>1, <3>2 DEF slurm, ToCome
  <2>. QED BY <2>3, <2>5 DEF HandInv
<1>4. CASE TakeFed
  <2>. SUFFICES ASSUME watch' = "read" PROVE HandInv' BY DEF HandInv
  <2>. DEFINE f == First(found)
  <2>1. /\ UNCHANGED <<slurm, events>> /\ watch = "select" /\ Read(Event("Write", f))
        /\ raced' = (raced \/ \E j \in Jobs : file[f] = j /\ job[j] = "epilog")
        BY <1>4 DEF TakeFed
  <2>2. f \in GPUs BY <1>4, FirstIn DEF TakeFed, SlurmTypeOK
  <2>3. /\ Event("Write", f) \in Events /\ Event("Write", f).gpu = f
        /\ Event("Write", f).op = "Write"
        BY <2>2 DEF Event, Events, Ops
  <2>. HIDE DEF f
  <2>4. hand'.jobEnv = file[f] /\ hand' # Nothing
        BY <2>1, <2>3, ReadHand
  <2>5. ASSUME hand'.jobEnv \in Jobs, NEW g \in gpusOf[hand'.jobEnv]
        PROVE  ToCome(g)' \/ file'[g] = hand'.jobEnv \/ (raced' /\ file'[g] = NoJob)
    <3>1. \/ ToCome(g) \/ file[g] = file[f]
          \/ job[file[f]] = "epilog" /\ file[g] = NoJob
          BY <2>2, <2>4, <2>5, FileSpeaksForJob
    <3>2. job[file[f]] = "epilog" => raced' BY <2>1, <2>4, <2>5
    <3>3. UNCHANGED <<job, left, file>> BY <2>1 DEF slurm
    <3>. QED BY <2>4, <3>1, <3>2, <3>3 DEF ToCome
  <2>. QED BY <2>4, <2>5 DEF HandInv
<1>5. ASSUME NEW j \in Jobs, script(j) PROVE HandInv'
  <2>1. CASE watch = "read"
    <3>1. /\ UNCHANGED <<watch, hand, raced>>
          /\ \A g \in GPUs :
                /\ Pending(g) => Pending(g)'
                /\ Pending(g)' \/ (file'[g] = file[g] /\ (ToCome(g) => ToCome(g)'))
          BY <1>5, <2>1, ScriptNotifies DEF Watching
    <3>. QED BY <1>0, <2>1, <3>1 DEF HandInv
  <2>2. CASE watch # "read"
    <3>1. watch' = watch
          BY <1>5, Zenon DEF script, StartJob, Prolog, PrologEnds, EndJob, Epilog, EpilogEnds
    <3>. QED BY <2>2, <3>1 DEF HandInv
  <2>. QED BY <2>1, <2>2
<1>. QED BY <1>1, <1>2, <1>3, <1>4, <1>5 DEF SlurmNext, constructor, watcher

-----------------------------------------------------------------------------
(* The label of a GPU whose own event is taken last, and of the others,    *)
(* after an event was taken while the goroutine was waiting.               *)
LEMMA TakenIsRight ==
    ASSUME SlurmTypeOK, JobInv, HandInv', watch = "select", watch' = "read",
           UNCHANGED <<slurm, GpuJobs>>, NEW e \in Events, Read(e), NEW g \in GPUs,
           \/ e.gpu = g /\ (e.op = "Write" <=> file[g] # NoJob)
           \/ e.gpu # g /\ After(g) = file[g]
    PROVE  Right(g)'
<1>0. /\ gpusOf \in [Jobs -> SUBSET GPUs] /\ NoJob \notin Jobs /\ e.op \in Ops
      /\ file[g] \in Jobs \cup {NoJob, Partial} /\ UNCHANGED <<job, left, file, GpuJobs>>
      BY SlurmAssumption DEF SlurmTypeOK, slurm, Events
<1>1. hand'.op = e.op /\ hand'.gpu = e.gpu /\ hand'.jobEnv = file[e.gpu]
      BY ReadHand
<1>2. CASE e.gpu = g /\ e.op = "Remove"
      BY <1>0, <1>1, <1>2 DEF Right, After
<1>3. CASE e.gpu = g /\ e.op = "Write" /\ file[g] \in Jobs
  <2>1. g \in gpusOf[file[g]] BY <1>3 DEF JobInv, OwnerInv
  <2>. QED BY <1>0, <1>1, <1>3, <2>1 DEF Right, After
<1>4. CASE e.gpu = g /\ e.op = "Write" /\ file[g] \notin Jobs
  <2>1. file[g] = Partial BY <1>0, <1>4
  <2>2. ToCome(g) BY <2>1 DEF JobInv, OwnerInv
  <2>. QED BY <1>0, <2>2 DEF Right, ToCome
<1>5. CASE e.gpu # g /\ e.op = "Write" /\ file[e.gpu] \in Jobs /\ g \in gpusOf[file[e.gpu]]
  <2>1. \/ Pending(g)' \/ ToCome(g)' \/ file'[g] = hand'.jobEnv
        \/ raced' /\ file'[g] = NoJob
        BY <1>1, <1>5 DEF HandInv
  <2>2. After(g)' = hand'.jobEnv BY <1>1, <1>5 DEF After
  <2>. QED BY <2>1, <2>2 DEF Right
<1>6. CASE e.gpu # g /\ ~(e.op = "Write" /\ file[e.gpu] \in Jobs /\ g \in gpusOf[file[e.gpu]])
  <2>1. After(g)' = GpuJobs[g] BY <1>0, <1>1, <1>6 DEF After
  <2>2. After(g) = GpuJobs[g] BY DEF After
  <2>. QED BY <1>0, <1>6, <2>1, <2>2 DEF Right
<1>. QED BY <1>0, <1>2, <1>3, <1>4, <1>5, <1>6 DEF Ops

(* AgreeInv is preserved.                                                  *)
LEMMA AgreeStep ==
    /\ SlurmTypeOK /\ JobInv /\ QueueInv /\ HandInv /\ AgreeInv
    /\ [SlurmNext]_svars /\ HandInv'
    => AgreeInv'
<1>. SUFFICES ASSUME SlurmTypeOK, JobInv, QueueInv, HandInv, AgreeInv, HandInv',
                     [SlurmNext]_svars
              PROVE  AgreeInv'
     OBVIOUS
<1>. DEFINE Making == boot \in {"scan", "feed", "made"}
<1>0. \A g \in GPUs : Watching /\ Making => Right(g) BY DEF AgreeInv
<1>1. ASSUME boot' = "add" => GpuJobs' = [g \in GPUs |-> NoJob],
             boot' = "made" => found' = {},
             ASSUME NEW g \in GPUs, Watching', Making' PROVE Right(g)'
      PROVE  AgreeInv'
      BY <1>1 DEF AgreeInv
<1>2. CASE Add
  <2>1. /\ boot = "add" /\ boot' \in {"scan", "failed"} /\ UNCHANGED <<slurm, GpuJobs>>
        /\ boot' = "scan" => watch' # "read"
        BY <1>2 DEF Add
  <2>2. ASSUME NEW g \in GPUs, Watching', Making' PROVE Right(g)'
    <3>1. boot' = "scan" /\ watch' # "read" BY <2>1, <2>2
    <3>2. After(g)' = NoJob BY <2>1, <3>1 DEF After, AgreeInv
    <3>. QED BY <3>1, <3>2 DEF Right
  <2>. QED BY <1>1, <2>1, <2>2
<1>3. CASE ReadDir
  <2>1. /\ boot = "scan" /\ UNCHANGED <<slurm, events, watch, hand, GpuJobs, raced>>
        /\ \/ boot' = "feed" /\ found' = {g \in GPUs : file[g] # NoJob}
           \/ boot' = "blind"
        BY <1>3 DEF ReadDir
  <2>2. ASSUME NEW g \in GPUs, Watching', Making' PROVE Right(g)'
    <3>1. Right(g) BY <1>0, <2>1, <2>2 DEF Watching
    <3>2. (Pending(g)' <=> Pending(g)) /\ (ToCome(g)' <=> ToCome(g)) /\ After(g)' = After(g)
          BY <2>1 DEF slurm, Pending, ToCome, After
    <3>. QED BY <2>1, <2>2, <3>1, <3>2 DEF slurm, Right
  <2>. QED BY <1>1, <2>1, <2>2
<1>4. CASE SendClosed
  <2>1. boot' = "failed" BY <1>4 DEF SendClosed
  <2>. QED BY <1>1, <2>1
<1>5. CASE ReturnClient \/ Close \/ UNCHANGED svars
  <2>1. /\ UNCHANGED <<slurm, events, watch, hand, GpuJobs, raced, found>>
        /\ boot' = boot \/ (boot = "feed" /\ boot' = "made" /\ found = {})
        BY <1>5 DEF ReturnClient, Close, svars, maker
  <2>2. ASSUME NEW g \in GPUs, Watching', Making' PROVE Right(g)'
    <3>1. Right(g) BY <1>0, <2>1, <2>2 DEF Watching
    <3>2. (Pending(g)' <=> Pending(g)) /\ (ToCome(g)' <=> ToCome(g)) /\ After(g)' = After(g)
          BY <2>1 DEF slurm, Pending, ToCome, After
    <3>. QED BY <2>1, <3>1, <3>2 DEF slurm, Right
  <2>3. (boot' = "add" => boot = "add") /\ (boot' = "made" => found = {})
        BY <2>1 DEF AgreeInv
  <2>. QED BY <1>1, <2>1, <2>2, <2>3 DEF AgreeInv
<1>6. CASE StopWatching
  <2>1. watch' = "closed" /\ UNCHANGED <<boot, found, GpuJobs>>
        BY <1>6 DEF StopWatching, maker
  <2>. QED BY <1>1, <2>1 DEF AgreeInv, Watching
<1>7. CASE TakeEvent
  <2>1. /\ UNCHANGED <<slurm, boot, found, GpuJobs, raced>> /\ watch = "select"
        /\ events # <<>> /\ events' = Tail(events) /\ Read(Head(events))
        BY <1>7 DEF TakeEvent, maker
  <2>2. /\ Head(events) = events[1] /\ events[1] \in Events /\ 1 \in 1..Len(events)
        /\ \A h : Pending(h)' <=> Later(1, h)
        /\ \A h : Pending(h) <=> Later(1, h) \/ events[1].gpu = h
        BY <2>1, TakeRest
  <2>3. EventInv(1) BY <2>1, <2>2 DEF QueueInv, Watching
  <2>4. ASSUME NEW g \in GPUs, Watching', Making' PROVE Right(g)'
    <3>1. Right(g) BY <1>0, <2>1, <2>4 DEF Watching
    <3>2. ToCome(g)' <=> ToCome(g) BY <2>1 DEF slurm, ToCome
    <3>3. CASE Pending(g)' BY <3>3 DEF Right
    <3>4. CASE ToCome(g) BY <3>2, <3>4 DEF Right
    <3>5. CASE \/ file[g] # NoJob /\ (boot = "scan" \/ g \in found)
               \/ raced /\ file[g] = NoJob
          BY <2>1, <3>5 DEF slurm, Right
    <3>6. CASE ~Pending(g)' /\ events[1].gpu = g
      <4>1. events[1].op = "Write" <=> file[g] # NoJob
            BY <2>2, <2>3, <3>6 DEF EventInv
      <4>2. watch' = "read" BY <2>1, <2>2, <3>6, <4>1 DEF Read
      <4>. QED BY <2>1, <2>2, <3>6, <4>1, <4>2, TakenIsRight
    <3>7. CASE ~Pending(g)' /\ events[1].gpu # g /\ After(g) = file[g]
      <4>1. CASE watch' = "read"
            BY <2>1, <2>2, <3>7, <4>1, TakenIsRight
      <4>2. CASE watch' # "read"
        <5>1. After(g)' = After(g) BY <2>1, <4>2 DEF After
        <5>. QED BY <2>1, <3>7, <5>1 DEF slurm, Right
      <4>. QED BY <4>1, <4>2
    <3>. QED BY <2>2, <3>1, <3>3, <3>4, <3>5, <3>6, <3>7 DEF Right
  <2>. QED BY <1>1, <2>1, <2>4 DEF AgreeInv
<1>8. CASE TakeFed
  <2>. DEFINE f == First(found)
  <2>1. /\ UNCHANGED <<slurm, events, boot, GpuJobs>> /\ watch = "select"
        /\ boot = "feed" /\ Read(Event("Write", f)) /\ found' = found \ {f}
        /\ raced' = (raced \/ \E j \in Jobs : file[f] = j /\ job[j] = "epilog")
        BY <1>8 DEF TakeFed
  <2>2. f \in GPUs BY <1>8, FirstIn DEF TakeFed, SlurmTypeOK
  <2>3. /\ Event("Write", f) \in Events /\ Event("Write", f).gpu = f
        /\ Event("Write", f).op = "Write"
        BY <2>2 DEF Event, Events, Ops
  <2>. HIDE DEF f
  <2>4. ASSUME NEW g \in GPUs, Watching', Making' PROVE Right(g)'
    <3>1. Right(g) BY <1>0, <2>1, <2>4 DEF Watching
    <3>2. /\ (ToCome(g)' <=> ToCome(g)) /\ (Pending(g)' <=> Pending(g))
          /\ UNCHANGED <<file, boot>> /\ (raced => raced')
          BY <2>1 DEF slurm, ToCome, Pending
    <3>3. CASE Pending(g) \/ ToCome(g) \/ (raced /\ file[g] = NoJob)
          BY <3>2, <3>3 DEF Right
    <3>4. CASE g = f /\ file[g] # NoJob
      <4>1. watch' = "read" BY <2>1, <2>3, <3>4 DEF Read
      <4>. QED BY <2>1, <2>3, <3>4, <4>1, TakenIsRight
    <3>5. CASE g # f /\ g \in found /\ file[g] # NoJob
          BY <2>1, <3>2, <3>5 DEF Right
    <3>6. CASE After(g) = file[g] /\ (g # f \/ file[g] = NoJob)
      <4>1. CASE watch' = "read"
        <5>1. g # f BY <2>1, <2>3, <3>6, <4>1 DEF Read
        <5>. QED BY <2>1, <2>3, <3>6, <4>1, <5>1, TakenIsRight
      <4>2. CASE watch' # "read"
        <5>1. After(g)' = After(g) BY <2>1, <4>2 DEF After
        <5>. QED BY <3>2, <3>6, <5>1 DEF Right
      <4>. QED BY <4>1, <4>2
    <3>. QED BY <2>1, <3>1, <3>3, <3>4, <3>5, <3>6 DEF Right
  <2>. QED BY <1>1, <2>1, <2>4 DEF AgreeInv
<1>9. CASE processSlurm
  <2>1. /\ watch = "read" /\ watch' # "read" /\ UNCHANGED <<slurm, events, boot, found, raced>>
        BY <1>9 DEF processSlurm, maker
  <2>2. hand # Nothing BY <2>1 DEF HandInv
  <2>3. hand.op \in {"Write", "Remove"} /\ hand.gpu \in GPUs
        BY <2>2 DEF SlurmTypeOK, Hands
  <2>4. \A g \in GPUs : After(g)' = After(g)
    <3>1. GpuJobs \in [GPUs -> Jobs \cup {NoJob}] BY DEF SlurmTypeOK
    <3>. QED BY <1>9, <2>1, <2>3, <3>1 DEF processSlurm, After
  <2>5. ASSUME NEW g \in GPUs, Watching', Making' PROVE Right(g)'
    <3>1. Right(g) BY <1>0, <2>1, <2>5 DEF Watching
    <3>2. (Pending(g)' <=> Pending(g)) /\ (ToCome(g)' <=> ToCome(g)) /\ After(g)' = After(g)
          BY <2>1, <2>4 DEF slurm, Pending, ToCome
    <3>. QED BY <2>1, <3>1, <3>2 DEF slurm, Right
  <2>6. boot # "add" BY <2>1 DEF QueueInv
  <2>. QED BY <1>1, <2>1, <2>5, <2>6 DEF AgreeInv
<1>10. ASSUME NEW j \in Jobs, script(j) PROVE AgreeInv'
  <2>1. UNCHANGED <<boot, found, watch, hand, GpuJobs, raced>>
        BY <1>10, Zenon DEF script, StartJob, Prolog, PrologEnds, EndJob, Epilog, EpilogEnds, maker
  <2>2. ASSUME NEW g \in GPUs, Watching', Making' PROVE Right(g)'
    <3>1. Watching /\ Right(g) BY <1>0, <2>1, <2>2 DEF Watching
    <3>2. /\ Pending(g) => Pending(g)'
          /\ Pending(g)' \/ (file'[g] = file[g] /\ (ToCome(g) => ToCome(g)'))
          BY <1>10, <3>1, ScriptNotifies
    <3>3. After(g)' = After(g) BY <2>1 DEF After
    <3>. QED BY <2>1, <3>1, <3>2, <3>3 DEF Right
  <2>. QED BY <1>1, <2>1, <2>2 DEF AgreeInv
<1>. QED BY <1>2, <1>3, <1>4, <1>5, <1>6, <1>7, <1>8, <1>9, <1>10
         DEF SlurmNext, constructor, watcher

(* The four invariants hold together.                                      *)
LEMMA SlurmInvariant == SlurmSpec => [](JobInv /\ QueueInv /\ HandInv /\ AgreeInv)
<1>1. SlurmInit => JobInv
  <2>. SUFFICES ASSUME SlurmInit PROVE JobInv OBVIOUS
  <2>1. /\ \A j \in Jobs : job[j] = "new" /\ left[j] = gpusOf[j]
        /\ \A g \in GPUs : file[g] = NoJob
        BY DEF SlurmInit
  <2>. QED BY <2>1, SlurmAssumption
           DEF JobInv, LeftInv, ApartInv, FileInv, OwnerInv, Active
<1>2. SlurmInit => QueueInv /\ HandInv /\ AgreeInv
      BY DEF SlurmInit, QueueInv, HandInv, AgreeInv, Watching
<1>. QED BY <1>1, <1>2, JobStep, QueueStep, HandStep, AgreeStep, SlurmTypeCorrect, PTL
         DEF SlurmSpec

(* NewSlurmClient, processSlurm: for any GPUs and any jobs on them, and    *)
(* whatever order the constructor's events and those of inotify come in,   *)
(* the map agrees with the files once all events are handled.              *)
THEOREM SettledMapAgrees == SlurmSpec => []SettledAgrees
<1>1. SlurmTypeOK /\ AgreeInv => SettledAgrees
  <2>. SUFFICES ASSUME SlurmTypeOK, AgreeInv, Settled, ~raced PROVE GpuJobs = file
       BY DEF SettledAgrees
  <2>1. ASSUME NEW g \in GPUs PROVE GpuJobs[g] = file[g]
        BY DEF AgreeInv, Right, Settled, Watching, Pending, ToCome, After
  <2>. QED BY <2>1 DEF SlurmTypeOK
<1>. QED BY <1>1, SlurmInvariant, SlurmTypeCorrect, PTL

(* processSlurm: a scan that meets an epilog may leave a label too many,   *)
(* and never a wrong one on a GPU with a job.                              *)
THEOREM RunningLabelled == SlurmSpec => []RunningIsLabelled
<1>1. AgreeInv => RunningIsLabelled
  <2>. SUFFICES ASSUME AgreeInv, Settled, NEW g \in GPUs, file[g] # NoJob
                PROVE  GpuJobs[g] = file[g]
       BY DEF RunningIsLabelled
  <2>. QED BY DEF AgreeInv, Right, Settled, Watching, Pending, ToCome, After
<1>. QED BY <1>1, SlurmInvariant, PTL

(* NewSlurmClient: the constructor sends on a closed channel only if the   *)
(* client was closed while it was made.                                    *)
THEOREM PanicOnlyIfClosed == SlurmSpec => []PanicNeedsClose
<1>. DEFINE Inv == watch = "closed" \/ panicked => cancelled
<1>1. SlurmInit => Inv BY DEF SlurmInit
<1>2. Inv /\ [SlurmNext]_svars => Inv'
  <2>. SUFFICES ASSUME Inv, [SlurmNext]_svars PROVE Inv' OBVIOUS
  <2>1. ASSUME NEW j \in Jobs, script(j) PROVE Inv'
    <3>1. UNCHANGED <<watch, panicked, cancelled>>
          BY <2>1, Zenon DEF script, StartJob, Prolog, PrologEnds, EndJob, Epilog, EpilogEnds
    <3>. QED BY <3>1
  <2>2. CASE constructor
        BY <2>2 DEF constructor, Add, ReadDir, SendClosed, ReturnClient
  <2>3. CASE watcher
        BY <2>3 DEF watcher, TakeEvent, TakeFed, Read, processSlurm, StopWatching
  <2>4. CASE Close \/ UNCHANGED svars BY <2>4 DEF Close, svars
  <2>. QED BY <2>1, <2>2, <2>3, <2>4 DEF SlurmNext
<1>3. Inv => PanicNeedsClose BY DEF PanicNeedsClose
<1>. QED BY <1>1, <1>2, <1>3, PTL DEF SlurmSpec
=============================================================================
