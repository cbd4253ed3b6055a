------------------------------ MODULE GpuCache ------------------------------
(***************************************************************************)
(* pkg/amdgpu/gpuagent: the response cache between the exporter and the    *)
(* gpuagent.  cacheRead is called by the health monitor, by /metrics and   *)
(* by /gpumetrics; it is a double-checked cache whose write lock is held   *)
(* across the GPUGet call.  The CPER half has the same lock; it is filled  *)
(* by one background goroutine and only read by everyone else.             *)
(*                                                                         *)
(* A response is abstracted to the time it arrived.  What the CPER half    *)
(* holds, after good and bad answers, is module HealthChecks; here are its *)
(* waits for the lock.                                                     *)
(***************************************************************************)
EXTENDS Integers

CONSTANTS
    Callers,      \* goroutines that call cacheRead and cacheCperRead
    cacheTimer,   \* 15s in the code
    MaxTime       \* bound: the clock stops there

NoOne == "nobody"
None  == -1       \* nil response

ASSUME CacheAssumption ==
    /\ cacheTimer \in Nat \ {0} /\ MaxTime \in Nat /\ NoOne \notin Callers

VARIABLES
    clock,        \* the monotonic clock behind time.Now
    writer,       \* the caller that holds gCache for writing, or NoOne
    lastResponse, \* None, or the response
    lastTimestamp,\* when the last read, good or bad, completed
    pc,           \* control state of every caller
    now,          \* its `now', taken before the fast path
    got,          \* what its call returned: None is an error
    cperPc        \* the CPER refresh goroutine: "idle" or "fetched"

entry == <<lastResponse, lastTimestamp>>
calls == <<pc, now, got>>
vars == <<clock, writer, entry, calls, cperPc>>

Times == 0..MaxTime
Responses == Times \cup {None}

TypeOK ==
    /\ clock \in Times /\ writer \in Callers \cup {NoOne}
    /\ lastResponse \in Responses /\ lastTimestamp \in Times
    /\ pc \in [Callers -> {"idle", "fast", "lock", "check", "query", "cper"}]
    /\ now \in [Callers -> Times] /\ got \in [Callers -> Responses]
    /\ cperPc \in {"idle", "fetched"}

Init ==
    /\ clock = 0 /\ writer = NoOne
    /\ lastResponse = None /\ lastTimestamp = 0
    /\ pc = [c \in Callers |-> "idle"]
    /\ now = [c \in Callers |-> 0] /\ got = [c \in Callers |-> None]
    /\ cperPc = "idle"

Goto(c, l) == pc' = [pc EXCEPT ![c] = l]

Return(c, r) == Goto(c, "idle") /\ got' = [got EXCEPT ![c] = r]

Fresh(t) == lastResponse # None /\ t - lastTimestamp < cacheTimer

-----------------------------------------------------------------------------
Tick ==
    /\ clock < MaxTime
    /\ clock' = clock + 1
    /\ UNCHANGED <<writer, entry, calls, cperPc>>

Call(c) ==
    /\ pc[c] = "idle"
    /\ now' = [now EXCEPT ![c] = clock] /\ got' = [got EXCEPT ![c] = None]
    /\ Goto(c, "fast")
    /\ UNCHANGED <<clock, writer, entry, cperPc>>

(* The read-locked fast path: it waits for a writer, and judges the entry  *)
(* by the time taken at the start of the call.                             *)
FastPath(c) ==
    /\ pc[c] = "fast" /\ writer = NoOne
    /\ IF Fresh(now[c]) THEN Return(c, lastResponse)
                        ELSE Goto(c, "lock") /\ UNCHANGED got
    /\ UNCHANGED <<clock, writer, entry, now, cperPc>>

Lock(c) ==
    /\ pc[c] = "lock" /\ writer = NoOne
    /\ writer' = c /\ Goto(c, "check")
    /\ UNCHANGED <<clock, entry, now, got, cperPc>>

(* Mutant: no second look after the lock was acquired.                     *)
DoubleCheck_None(c) ==
    /\ pc[c] = "check"
    /\ Goto(c, "query")
    /\ UNCHANGED <<clock, writer, entry, now, got, cperPc>>

DoubleCheck(c) ==
    /\ pc[c] = "check"
    /\ IF Fresh(clock)
          THEN Return(c, lastResponse) /\ writer' = NoOne
          ELSE Goto(c, "query") /\ UNCHANGED <<writer, got>>
    /\ UNCHANGED <<clock, entry, now, cperPc>>

(* Mutants: a failed query is retried; the old response is kept under the  *)
(* new timestamp.                                                          *)
QueryFails_Retry(c) ==
    /\ pc[c] = "query"
    /\ lastTimestamp' = clock /\ lastResponse' = None
    /\ Goto(c, "lock") /\ writer' = NoOne
    /\ UNCHANGED <<clock, now, got, cperPc>>

QueryFails_KeepEntry(c) ==
    /\ pc[c] = "query"
    /\ lastTimestamp' = clock /\ UNCHANGED lastResponse
    /\ Return(c, None) /\ writer' = NoOne
    /\ UNCHANGED <<clock, now, cperPc>>

(* GPUGet answers, or fails, or runs into queryTimeout.                    *)
QueryOK(c) ==
    /\ pc[c] = "query"
    /\ lastTimestamp' = clock /\ lastResponse' = clock
    /\ Return(c, clock) /\ writer' = NoOne
    /\ UNCHANGED <<clock, now, cperPc>>

QueryFails(c) ==
    /\ pc[c] = "query"
    /\ lastTimestamp' = clock /\ lastResponse' = None
    /\ Return(c, None) /\ writer' = NoOne
    /\ UNCHANGED <<clock, now, cperPc>>

cacheRead(c) == \/ FastPath(c) \/ Lock(c) \/ DoubleCheck(c)
                \/ QueryOK(c) \/ QueryFails(c)

-----------------------------------------------------------------------------
(* cacheCperRead *)
CallCper(c) ==
    /\ pc[c] = "idle"
    /\ Goto(c, "cper")
    /\ UNCHANGED <<clock, writer, entry, now, got, cperPc>>

cacheCperRead(c) ==
    /\ pc[c] = "cper" /\ writer = NoOne
    /\ Goto(c, "idle")
    /\ UNCHANGED <<clock, writer, entry, now, got, cperPc>>

(* refreshCperCache: the query runs without the lock, *)
CperFetch ==
    /\ cperPc = "idle"
    /\ cperPc' = "fetched"
    /\ UNCHANGED <<clock, writer, entry, calls>>

(* which the answer is then stored under.                                  *)
CperStore ==
    /\ cperPc = "fetched" /\ writer = NoOne
    /\ cperPc' = "idle"
    /\ UNCHANGED <<clock, writer, entry, calls>>

Next ==
    \/ Tick
    \/ \E c \in Callers : Call(c) \/ cacheRead(c) \/ CallCper(c) \/ cacheCperRead(c)
    \/ CperFetch \/ CperStore

Spec == Init /\ [][Next]_vars

(* Go's RWMutex starves neither readers nor writers; a query ends, if only *)
(* by its timeout.                                                         *)
LiveSpec ==
    /\ Spec /\ SF_vars(CperStore)
    /\ \A c \in Callers :
          /\ SF_vars(FastPath(c)) /\ SF_vars(Lock(c)) /\ SF_vars(cacheCperRead(c))
          /\ WF_vars(DoubleCheck(c)) /\ WF_vars(QueryOK(c) \/ QueryFails(c))

-----------------------------------------------------------------------------
(* cacheRead: "this ensures that we don't read from hardware too           *)
(* frequently as more clients are added".  However many callers arrive     *)
(* together, GPUGet is in flight at most once, and only when the last good *)
(* response is at least cacheTimer old.                                    *)
HardwareRate ==
    \A c \in Callers :
       pc[c] = "query" => /\ ~Fresh(clock)
                          /\ \A d \in Callers : pc[d] = "query" => d = c

(* cacheRead: a caller never gets a response that was already cacheTimer   *)
(* old when it called, however long it waited for the lock and whatever    *)
(* failed in between.                                                      *)
FreshAtCall ==
    \A c \in Callers : got[c] # None => now[c] - got[c] < cacheTimer

(* cacheRead, queryTimeout: every call returns and every CPER answer is    *)
(* stored, with an agent that hangs and with others queueing for the lock. *)
CallsReturn ==
    /\ \A c \in Callers : pc[c] # "idle" ~> pc[c] = "idle"
    /\ cperPc = "fetched" ~> cperPc = "idle"

(* cacheCperRead: "Never blocks on a live gRPC call".                      *)
CperReadNeverBlocks ==
    \A c, d \in Callers : ~(pc[c] = "cper" /\ pc[d] = "query")
=============================================================================
