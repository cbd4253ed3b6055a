---------------------------- MODULE HealthChecks ----------------------------
(* The checks of a health poll, processHealthValidation of pkg/amdgpu/     *)
(* gpuagent/gpuagent_health.go, while the agent answers: ECC counters,     *)
(* critical events and the CPER records in the cache that a background     *)
(* goroutine fills.  HealthMonitor has the polls that fail and what        *)
(* becomes of the result.                                                  *)
(*                                                                         *)
(* A CPER record is its GPU, its time in units of the clock, 0 when it     *)
(* does not parse, and whether its severity is fatal.  The agent may list  *)
(* records in any order of their times.                                    *)
(*                                                                         *)
(* Not here: a reconnect to the agent cancels the goroutine that fills the *)
(* cache, and nobody starts it again.  StartMonitor reconnects only if the *)
(* first connection could not be created; a connection that breaks later   *)
(* is restored by gRPC.                                                    *)
EXTENDS Integers, Sequences, FiniteSets

CONSTANTS
    GPUs, Devices,   \* the GPUs the agent lists; what records and events may name
    Fields,          \* the ECC counters
    Counts, AllOnes, \* their values; those that NormalizeUint64 takes for "no value"
    Threshold,       \* HealthThresholds, per field
    MaxAge,          \* GPU_CPER_MAX_AGE; 0 disables the filter
    StartTime,       \* the clock at the start
    MaxTime,         \* bound: the clock
    MaxRecords,      \* bound: CPER records
    MaxFaults        \* bound: records, critical events, counters and injected errors

ASSUME ChecksAssumption ==
    /\ GPUs \subseteq Devices
    /\ Counts \subseteq Nat /\ AllOnes \subseteq Nat /\ 0 \in Counts
    /\ Threshold \in [Fields -> Nat]
    /\ MaxAge \in Nat /\ MaxTime \in Nat /\ StartTime \in 1..MaxTime
    /\ MaxRecords \in Nat /\ MaxFaults \in Nat

VARIABLES
    now,
    ecc, mock,        \* counters of the agent, mockEccField (SetError)
    critical, log,    \* the agent's critical events and CPER records
    answering,        \* the agent answers event and CPER requests without error
    cache,            \* lastCperResponse: <<>> for nil, else its status and records
    pc, bad,          \* the poll and the GPUs it has found unhealthy
    snap, i, latest,  \* latestCPERPerGPU: its input, its loop, per device an index
    report,           \* healthState: the unhealthy GPUs
    mocked            \* auxiliary: GPUs an error was ever injected for

agent == <<now, ecc, mock, critical, log, answering, mocked>>
poll  == <<pc, bad, snap, i, latest>>
vars  == <<agent, cache, poll, report>>

Records == [gpu : Devices, ts : 0..MaxTime, fatal : BOOLEAN]
Answer(ok, recs) == <<[ok |-> ok, recs |-> recs]>>
None == [d \in Devices |-> 0]

(* Every variable has its type.                                            *)
TypeOK ==
    /\ now \in 1..MaxTime
    /\ ecc \in [GPUs \X Fields -> Counts] /\ mock \in [GPUs \X Fields -> Counts]
    /\ critical \subseteq Devices /\ log \in Seq(Records) /\ Len(log) <= MaxRecords
    /\ answering \in BOOLEAN
    /\ cache # <<>> => /\ cache[1].ok \in BOOLEAN
                       /\ cache[1].recs \in Seq(Records) /\ Len(cache[1].recs) <= MaxRecords
    /\ pc \in {"idle", "events", "cper", "select", "publish"}
    /\ bad \subseteq GPUs /\ report \subseteq GPUs /\ mocked \subseteq GPUs
    /\ snap \in Seq(Records) /\ i \in 1..(Len(snap) + 1)
    /\ latest \in [Devices -> 0..Len(snap)]

Init ==
    /\ now = StartTime
    /\ ecc = [x \in GPUs \X Fields |-> 0] /\ mock = [x \in GPUs \X Fields |-> 0]
    /\ critical = {} /\ log = <<>> /\ answering = TRUE /\ mocked = {}
    /\ cache = <<>>
    /\ pc = "idle" /\ bad = {} /\ snap = <<>> /\ i = 1 /\ latest = None
    /\ report = {}

-----------------------------------------------------------------------------
(* The agent and its GPUs.                                                 *)
Faults == Len(log) + Cardinality(critical) + Cardinality(mocked)
            + Cardinality({x \in GPUs \X Fields : ecc[x] > 0})

Tick ==
    /\ now < MaxTime /\ now' = now + 1
    /\ UNCHANGED <<ecc, mock, critical, log, answering, mocked, cache, poll, report>>

EccGrows ==
    /\ Faults < MaxFaults
    /\ \E x \in GPUs \X Fields, c \in Counts : c > ecc[x] /\ ecc' = [ecc EXCEPT ![x] = c]
    /\ UNCHANGED <<now, mock, critical, log, answering, mocked, cache, poll, report>>

CriticalEvent ==
    /\ Faults < MaxFaults
    /\ \E d \in Devices \ critical : critical' = critical \cup {d}
    /\ UNCHANGED <<now, ecc, mock, log, answering, mocked, cache, poll, report>>

RecordLogged ==
    /\ Len(log) < MaxRecords /\ Faults < MaxFaults
    /\ \E d \in Devices, t \in 0..now, f \in BOOLEAN :
         log' = Append(log, [gpu |-> d, ts |-> t, fatal |-> f])
    /\ UNCHANGED <<now, ecc, mock, critical, answering, mocked, cache, poll, report>>

AgentChanges ==
    /\ answering' = ~answering
    /\ UNCHANGED <<now, ecc, mock, critical, log, mocked, cache, poll, report>>

(* SetError, the debugging aid.                                            *)
SetError ==
    /\ \E x \in GPUs \X Fields, c \in Counts :
         /\ c = 0 \/ x[1] \in mocked \/ Faults < MaxFaults
         /\ mock' = [mock EXCEPT ![x] = c]
         /\ mocked' = IF c > 0 THEN mocked \cup {x[1]} ELSE mocked
    /\ UNCHANGED <<now, ecc, critical, log, answering, cache, poll, report>>

-----------------------------------------------------------------------------
(* refreshCperCache: an answer is stored whatever its status, a failed     *)
(* call leaves the last answer.                                            *)
Refresh ==
    /\ \/ answering /\ cache' = Answer(TRUE, log)
       \/ ~answering /\ cache' \in {cache, Answer(FALSE, <<>>)}
    /\ UNCHANGED <<agent, poll, report>>

-----------------------------------------------------------------------------
NormalizeUint64(c) == IF c \in AllOnes THEN 0 ELSE c

(* metricErrCheck: an injected error replaces the counter.                 *)
EccValue(g, f) == IF mock[<<g, f>>] > 0 THEN mock[<<g, f>>] ELSE NormalizeUint64(ecc[<<g, f>>])

EccOver(g) == \E f \in Fields : EccValue(g, f) > Threshold[f]

(* getGPUs and processEccErrorMetrics.                                     *)
CheckEcc ==
    /\ pc = "idle"
    /\ bad' = {g \in GPUs : EccOver(g)}
    /\ pc' = "events"
    /\ UNCHANGED <<agent, cache, snap, i, latest, report>>

(* A device the agent does not list is ignored, and so is a failed call.   *)
CheckEvents ==
    /\ pc = "events"
    /\ bad' = IF answering THEN bad \cup (critical \cap GPUs) ELSE bad
    /\ pc' = "cper"
    /\ UNCHANGED <<agent, cache, snap, i, latest, report>>

CacheGood == cache # <<>> /\ cache[1].ok

(* cacheCperRead; without a good answer the check is skipped.              *)
ReadCper ==
    /\ pc = "cper"
    /\ \/ /\ ~CacheGood
          /\ pc' = "publish"
          /\ UNCHANGED snap
       \/ /\ CacheGood
          /\ snap' = cache[1].recs
          /\ pc' = "select"
    /\ UNCHANGED <<agent, cache, bad, i, latest, report>>

(* Mutant: times that parse are not compared.                              *)
Supersedes_LastSeen(r, e) == r.ts # 0 \/ e.ts = 0

(* latestCPERPerGPU: r replaces e.                                         *)
Supersedes(r, e) ==
    \/ r.ts # 0 /\ (e.ts = 0 \/ r.ts > e.ts)
    \/ r.ts = 0 /\ e.ts = 0

SelectRecord ==
    LET r == snap[i] IN
    /\ pc = "select" /\ i <= Len(snap)
    /\ latest' = IF latest[r.gpu] = 0 \/ Supersedes(r, snap[latest[r.gpu]])
                 THEN [latest EXCEPT ![r.gpu] = i] ELSE latest
    /\ i' = i + 1
    /\ UNCHANGED <<agent, cache, pc, bad, snap, report>>

(* Mutant: the age of a record is not looked at.                           *)
isFatalCPERActionable_NoAge(r) == r.fatal

isFatalCPERActionable(r) ==
    r.fatal /\ (MaxAge = 0 \/ r.ts = 0 \/ now - r.ts <= MaxAge)

(* Mutant: a fatal record is held against every GPU.                       *)
Judge_AnyDevice ==
    /\ pc = "select" /\ i > Len(snap)
    /\ bad' = bad \cup {g \in GPUs : \E d \in Devices :
                              latest[d] # 0 /\ isFatalCPERActionable(snap[latest[d]])}
    /\ pc' = "publish"
    /\ UNCHANGED <<agent, cache, snap, i, latest, report>>

(* applyCPERHealthChecks.                                                  *)
Judge ==
    /\ pc = "select" /\ i > Len(snap)
    /\ bad' = bad \cup {g \in GPUs : latest[g] # 0 /\ isFatalCPERActionable(snap[latest[g]])}
    /\ pc' = "publish"
    /\ UNCHANGED <<agent, cache, snap, i, latest, report>>

(* updateNewHealthState.                                                   *)
Publish ==
    /\ pc = "publish"
    /\ report' = bad
    /\ pc' = "idle" /\ bad' = {} /\ snap' = <<>> /\ i' = 1 /\ latest' = None
    /\ UNCHANGED <<agent, cache>>

Poll == CheckEcc \/ CheckEvents \/ ReadCper \/ SelectRecord \/ Judge \/ Publish

Next ==
    \/ Tick \/ EccGrows \/ CriticalEvent \/ RecordLogged \/ AgentChanges \/ SetError
    \/ Refresh \/ Poll

Spec == Init /\ [][Next]_vars

(* The tickers of StartMonitor and startCperRefresh never stop.            *)
LiveSpec == Spec /\ WF_vars(Refresh) /\ WF_vars(Poll)

-----------------------------------------------------------------------------
(* What latestCPERPerGPU is to compute of the first n records: the first   *)
(* of the most recent second, or, if no time parses, the last record.      *)
OfDevice(s, n, d) == {k \in 1..n : s[k].gpu = d}
Timed(s, n, d)    == {k \in OfDevice(s, n, d) : s[k].ts # 0}

IsLatest(s, n, d, j) ==
    /\ j \in OfDevice(s, n, d)
    /\ Timed(s, n, d) = {} => \A k \in OfDevice(s, n, d) : k <= j
    /\ Timed(s, n, d) # {} =>
         /\ j \in Timed(s, n, d)
         /\ \A k \in Timed(s, n, d) :
              s[k].ts < s[j].ts \/ (s[k].ts = s[j].ts /\ j <= k)

(* At every turn of its loop latestCPERPerGPU has the latest of the        *)
(* records it has seen, for every device and whatever the order of their   *)
(* times and the times that do not parse.                                  *)
LatestCorrect ==
    pc = "select" =>
        \A d \in Devices :
            IF OfDevice(snap, i - 1, d) = {}
            THEN latest[d] = 0 ELSE IsLatest(snap, i - 1, d, latest[d])

Fatal(g) == \E k \in 1..Len(log) : log[k].gpu = g /\ log[k].fatal
EverFaulty(g) ==
    \/ \E f \in Fields : ecc[<<g, f>>] > Threshold[f]
    \/ g \in mocked \/ g \in critical \/ Fatal(g)

(* No GPU is found or reported unhealthy for what happened to another: it  *)
(* has a counter beyond its threshold, an injected error, a critical event *)
(* or a fatal record of its own.                                           *)
NoFalseAlarm == \A g \in bad \cup report : EverFaulty(g)

FatalAndRecent(r) == r.fatal /\ (MaxAge # 0 /\ r.ts # 0 => now <= r.ts + MaxAge)
Cause(g) ==
    \/ EccOver(g) \/ g \in critical
    \/ \E j \in 1..Len(log) : IsLatest(log, Len(log), g, j) /\ FatalAndRecent(log[j])

(* While the agent answers, the report follows the GPUs: one that stays    *)
(* faulty is reported for good, one whose fault has gone (an injected      *)
(* error taken back, a fatal record superseded or too old) is cleared.     *)
ReportFollows ==
    \A g \in GPUs :
        /\ <>[](answering /\ Cause(g)) => <>[](g \in report)
        /\ <>[](answering /\ ~Cause(g)) => <>[](g \notin report)

(* An ECC counter beyond its threshold makes the poll that reads it find   *)
(* the GPU unhealthy.                                                      *)
EccMarks ==
    [][CheckEcc => \A g \in GPUs, f \in Fields : ecc[<<g, f>>] > Threshold[f] => g \in bad']_vars

(* A GPU whose newest record, in the order of the agent's log, is fatal is *)
(* found unhealthy by the poll that read the record.                       *)
NewestFatalMarks ==
    [][Judge => \A k \in 1..Len(snap) :
          /\ snap[k].fatal /\ snap[k].gpu \in GPUs
          /\ \A m \in (k + 1)..Len(snap) : snap[m].gpu # snap[k].gpu
          /\ MaxAge = 0
          => snap[k].gpu \in bad']_vars

(* latestCPERPerGPU: a fatal record that is not too old and whose time is  *)
(* later than that of every other record of its GPU is never missed,       *)
(* wherever it is in the list and whatever does not parse.                 *)
DatedFatalMarks ==
    [][Judge => \A k \in 1..Len(snap) :
          (/\ snap[k].gpu \in GPUs /\ snap[k].ts # 0 /\ FatalAndRecent(snap[k])
           /\ \A m \in OfDevice(snap, Len(snap), snap[k].gpu) \ {k} :
                snap[m].ts < snap[k].ts)
          => snap[k].gpu \in bad']_vars
=============================================================================
