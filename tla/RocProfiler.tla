----------------------------- MODULE RocProfiler -----------------------------
(***************************************************************************)
(* pkg/amdgpu/rocprofiler: the client that runs rocpctl for the gpu_prof_* *)
(* metrics, its result cache, and the breaker that disables it after       *)
(* failThreshold consecutive failures or one crash.                        *)
(*                                                                         *)
(* A caller is the profiler goroutine of one /metrics request.  The        *)
(* requests are serialised by prometheusMiddlewareMu, but a request that   *)
(* fails early (getGPUs error, cancelled context) leaves its profiler      *)
(* goroutine behind: that goroutine and the one of the next request then   *)
(* work on the same breaker.  The metrics themselves are abstracted away.  *)
(***************************************************************************)
EXTENDS Naturals

CONSTANTS
    Callers,        \* requests whose profiler goroutine can be alive at once
    failThreshold   \* 3 in the code

NoOne == "nobody"

ASSUME RocpAssumption == failThreshold \in Nat \ {0} /\ NoOne \notin Callers

VARIABLES
    scrape,     \* the request that holds prometheusMiddlewareMu, or NoOne
    pc,         \* control state of every profiler goroutine
    outcome,    \* how its rocpctl command ended
    fails,      \* consecutiveFailures
    fatal,      \* fatalFailure
    reason,     \* disabledReason: "none", "consecutive" or "crash"
    cached,     \* cachedMetrics # nil
    fresh,      \* cacheLastRead is less than cachedTimer ago
    emitted,    \* history: disable events sent since the breaker was reset
    tripped     \* history: the breaker disabled the client since boot

breaker == <<fails, fatal, reason, emitted, tripped>>
cache   == <<cached, fresh>>
vars == <<scrape, pc, outcome, breaker, cache>>

Failures == {"timeout", "error", "badjson"}
Outcomes == Failures \cup {"ok", "cancelled", "crash"}

IsDisabledOnFailure == fatal \/ fails >= failThreshold

TypeOK ==
    /\ scrape \in Callers \cup {NoOne}
    /\ pc \in [Callers -> {"idle", "lookup", "check", "run", "apply", "store"}]
    /\ outcome \in [Callers -> Outcomes \cup {"none", "disabled"}]
    /\ fails \in Nat /\ fatal \in BOOLEAN
    /\ reason \in {"none", "consecutive", "crash"}
    /\ cached \in BOOLEAN /\ fresh \in BOOLEAN
    /\ emitted \in 0..2 /\ tripped \in BOOLEAN

Init ==
    /\ scrape = NoOne
    /\ pc = [c \in Callers |-> "idle"] /\ outcome = [c \in Callers |-> "none"]
    /\ fails = 0 /\ fatal = FALSE /\ reason = "none"
    /\ cached = FALSE /\ fresh = FALSE
    /\ emitted = 0 /\ tripped = FALSE

Goto(c, l) == pc' = [pc EXCEPT ![c] = l]

-----------------------------------------------------------------------------
(* The breaker; each operation runs under pCache's lock.                   *)

(* Mutant: the reason survives a reset.                                    *)
ResetFailureCount_KeepReason ==
    /\ fails' = 0 /\ fatal' = FALSE /\ emitted' = 0
    /\ UNCHANGED <<reason, tripped>>

ResetFailureCount ==
    /\ fails' = 0 /\ fatal' = FALSE /\ reason' = "none" /\ emitted' = 0
    /\ UNCHANGED tripped

IncFailureCount ==
    /\ fails' = fails + 1
    /\ IF fails + 1 = failThreshold
          THEN /\ reason' = "consecutive" /\ emitted' = emitted + 1
               /\ tripped' = TRUE
          ELSE UNCHANGED <<reason, emitted, tripped>>
    /\ UNCHANGED fatal

SetFatalFailureState ==
    /\ fatal' = TRUE /\ reason' = "crash" /\ tripped' = TRUE
    /\ emitted' = IF fatal THEN emitted ELSE emitted + 1
    /\ UNCHANGED fails

-----------------------------------------------------------------------------
(* getMetricsAll starts the profiler goroutine of a request;               *)
(* getProfilerMetrics skips a disabled client.                             *)
Scrape(c) ==
    /\ scrape = NoOne /\ pc[c] = "idle"
    /\ scrape' = c
    /\ Goto(c, IF IsDisabledOnFailure THEN "idle" ELSE "lookup")
    /\ UNCHANGED <<outcome, breaker, cache>>

(* The request returns: with the profiler's result, or early, leaving its  *)
(* goroutine behind.                                                       *)
ScrapeReturns(c) ==
    /\ scrape = c
    /\ scrape' = NoOne
    /\ UNCHANGED <<pc, outcome, breaker, cache>>

(* cacheMetrics: a fresh cached result ends the call.                      *)
Lookup(c) ==
    /\ pc[c] = "lookup"
    /\ Goto(c, IF cached /\ fresh THEN "idle" ELSE "check")
    /\ UNCHANGED <<scrape, outcome, breaker, cache>>

(* getMetrics: not when disabled; nothing to run without metric fields.    *)
Check(c) ==
    /\ pc[c] = "check"
    /\ IF IsDisabledOnFailure
          THEN Goto(c, "store") /\ outcome' = [outcome EXCEPT ![c] = "disabled"]
          ELSE \/ Goto(c, "run") /\ UNCHANGED outcome
               \/ Goto(c, "store") /\ outcome' = [outcome EXCEPT ![c] = "ok"]
    /\ UNCHANGED <<scrape, breaker, cache>>

(* cmd.Output returns, and ctx.Err and the command's error are classified. *)
Run(c) ==
    /\ pc[c] = "run"
    /\ \E o \in Outcomes : outcome' = [outcome EXCEPT ![c] = o]
    /\ Goto(c, "apply")
    /\ UNCHANGED <<scrape, breaker, cache>>

(* Mutant: a timeout is treated like a cancelled request.                  *)
Apply_TimeoutFree(c) ==
    /\ pc[c] = "apply"
    /\ \/ outcome[c] = "ok" /\ ResetFailureCount
       \/ outcome[c] \in {"error", "badjson"} /\ IncFailureCount
       \/ outcome[c] = "crash" /\ SetFatalFailureState
       \/ outcome[c] \in {"cancelled", "timeout"} /\ UNCHANGED breaker
    /\ Goto(c, "store")
    /\ UNCHANGED <<scrape, outcome, cache>>

(* What the classified outcome does to the breaker.                        *)
Apply(c) ==
    /\ pc[c] = "apply"
    /\ \/ outcome[c] = "ok" /\ ResetFailureCount
       \/ outcome[c] \in Failures /\ IncFailureCount
       \/ outcome[c] = "crash" /\ SetFatalFailureState
       \/ outcome[c] = "cancelled" /\ UNCHANGED breaker
    /\ Goto(c, "store")
    /\ UNCHANGED <<scrape, outcome, cache>>

(* cacheMetrics: keep a good result, drop the old one on any error.        *)
Store(c) ==
    /\ pc[c] = "store"
    /\ cached' = (outcome[c] = "ok") /\ fresh' = TRUE
    /\ outcome' = [outcome EXCEPT ![c] = "none"]
    /\ Goto(c, "idle")
    /\ UNCHANGED <<scrape, breaker>>

Expire ==
    /\ fresh
    /\ fresh' = FALSE
    /\ UNCHANGED <<scrape, pc, outcome, breaker, cached>>

(* GPUAgentGPUClient.Close, which processHealthValidation calls on every   *)
(* failed data pull.                                                       *)
Close ==
    /\ ResetFailureCount
    /\ UNCHANGED <<scrape, pc, outcome, cache>>

caller(c) == \/ Lookup(c) \/ Check(c) \/ Run(c) \/ Apply(c) \/ Store(c)

Next ==
    \/ \E c \in Callers : Scrape(c) \/ ScrapeReturns(c) \/ caller(c)
    \/ Expire
    \/ Close

Spec == Init /\ [][Next]_vars

(* Prometheus keeps scraping, a request ends (its context is bounded), a   *)
(* profiler goroutine ends (rocpctl runs under a 30s timeout), time passes.*)
LiveSpec ==
    /\ Spec
    /\ WF_vars(\E c \in Callers : Scrape(c)) /\ WF_vars(Expire)
    /\ \A c \in Callers : WF_vars(caller(c)) /\ WF_vars(ScrapeReturns(c))

-----------------------------------------------------------------------------
(* IncFailureCount, SetFatalFailureState, ResetFailureCount: StartMonitor  *)
(* reads IsDisabledOnFailure and then GetDisabledReason to say why the pod *)
(* exits; whatever the order of outcomes of overlapping requests, a reason *)
(* is on record exactly while the client is disabled.                      *)
ReasonIffDisabled == IsDisabledOnFailure <=> reason # "none"

(* EventEmitFunc: "called at most once per disable event".                 *)
OneEventPerDisable == emitted <= 1

(* getMetrics, IsDisabledOnFailure: a client that only ever fails, and     *)
(* that nobody resets, is disabled for good ("3 consecutive non-crash      *)
(* errors, it will be automatically disabled").                            *)
FailingIsDisabled ==
    <>[][/\ fails' >= fails /\ (fatal => fatal')
         /\ \A c \in Callers : outcome'[c] \notin {"ok", "cancelled"}]_vars
       => <>[]IsDisabledOnFailure

(* The event text and the release notes: a disabled profiler comes back    *)
(* with a restart of the pod, so within one run it stays disabled.         *)
DisabledUntilRestart == tripped => IsDisabledOnFailure
=============================================================================
