---------------------------- MODULE HealthMonitor ----------------------------
(***************************************************************************)
(* pkg/amdgpu/gpuagent: the health monitor.  Every poll reads the GPUs     *)
(* from the gpuagent (through the cache of module GpuCache), rebuilds the  *)
(* health map that the device plugin and the test runner see, pushes the   *)
(* node label, and exits the process after maxConsecutiveFailures failed   *)
(* polls or when the profiler was disabled.  SetComputeNodeHealthState,    *)
(* called from another goroutine, overrides the health of all GPUs; it     *)
(* updates the map without the lock.                                       *)
(*                                                                         *)
(* Every reason for a GPU to be unhealthy (an ECC counter over threshold,  *)
(* a critical event, an actionable fatal CPER record) is membership in     *)
(* `bad'.  The workload lists are abstracted away.  A write to one Health  *)
(* field is atomic; the unsynchronised use of the map while it is being    *)
(* rebuilt may kill the process, as the Go runtime does.                   *)
(***************************************************************************)
EXTENDS Naturals, Sequences

CONSTANTS
    GPUs,
    maxConsecutiveFailures,   \* 3 in the code
    exitOnAgentDown,
    exitOnRocpctlError,
    history                   \* bound: how many past polls are remembered

ASSUME MonitorAssumption ==
    /\ maxConsecutiveFailures \in Nat \ {0}
    /\ history \in 0..maxConsecutiveFailures
    /\ exitOnAgentDown \in BOOLEAN /\ exitOnRocpctlError \in BOOLEAN

VARIABLES
    agent,        \* the gpuagent: "up", "down", "zero" (reports no GPU) or
                  \* "error" (answers with an ApiStatus other than 0)
    bad,          \* GPUs with a fault the health checks look for
    cache,        \* gCache: "none" (empty or expired), or the kind of answer
    cacheBad,     \* the faulty GPUs in the cached response
    active,       \* the gRPC clients exist
    mpc,          \* control state of StartMonitor
    newBad,       \* newGPUState: the faulty GPUs of this poll
    fails,        \* consecutiveFailures, saturated: only >= is asked of it
    health,       \* healthState: "absent", "healthy" or "unhealthy" per GPU
    node,         \* computeNodeHealthState
    spc,          \* control state of SetComputeNodeHealthState
    todo,         \* entries its loop has not reached
    label,        \* GPUs labelled unhealthy on the Kubernetes node
    profDisabled, \* the profiler breaker of module RocProfiler is open
    exited,       \* "no", "agent", "rocp" (events.Fatal) or "crash"
    polls         \* history: the last polls, "failed" if restartable

env     == <<agent, bad, profDisabled>>
resp    == <<cache, cacheBad>>
monitor == <<active, mpc, newBad, fails, polls>>
setter  == <<spc, todo>>
vars == <<env, resp, monitor, health, node, setter, label, exited>>

Alive == exited = "no"
Present == {g \in GPUs : health[g] # "absent"}
Unhealthy == {g \in GPUs : health[g] = "unhealthy"}
Answers == {"up", "zero", "error"}
Results == {"done", "failed"}

TypeOK ==
    /\ agent \in Answers \cup {"down"} /\ bad \subseteq GPUs
    /\ cache \in Answers \cup {"none"} /\ cacheBad \subseteq GPUs
    /\ active \in BOOLEAN /\ newBad \subseteq GPUs
    /\ mpc \in {"idle", "check", "node", "fetch", "down", "zero", "publish",
                "fill", "label", "zeroLabel"}
    /\ fails \in 0..maxConsecutiveFailures
    /\ health \in [GPUs -> {"absent", "healthy", "unhealthy"}]
    /\ node \in BOOLEAN /\ spc \in {"idle", "apply", "mark"}
    /\ todo \subseteq GPUs /\ label \subseteq GPUs
    /\ profDisabled \in BOOLEAN
    /\ exited \in {"no", "agent", "rocp", "crash"}
    /\ polls \in Seq(Results) /\ Len(polls) <= history

Init ==
    /\ agent \in Answers \cup {"down"} /\ bad = {} /\ profDisabled = FALSE
    /\ cache = "none" /\ cacheBad = {}
    /\ active \in BOOLEAN /\ mpc = "idle" /\ newBad = {} /\ fails = 0
    /\ polls = <<>>
    /\ health = [g \in GPUs |-> "absent"] /\ node = TRUE
    /\ spc = "idle" /\ todo = {} /\ label = {} /\ exited = "no"

-----------------------------------------------------------------------------
(* StartMonitor's bookkeeping at the end of a poll *)

Record(r) ==
    LET all == Append(polls, r)
    IN  polls' = IF Len(all) > history THEN Tail(all) ELSE all

(* A restartable failure: count it, and exit at the threshold.             *)
CountFailure(next) ==
    /\ Record("failed")
    /\ fails' = IF fails < maxConsecutiveFailures THEN fails + 1 ELSE fails
    /\ IF exitOnAgentDown /\ fails + 1 >= maxConsecutiveFailures
          THEN exited' = "agent" /\ mpc' = "idle"
          ELSE mpc' = next /\ UNCHANGED exited

(* Mutant: the counter is not reset.                                       *)
PollDone_NoReset ==
    /\ Record("done")
    /\ mpc' = "idle"
    /\ exited' = IF exitOnRocpctlError /\ profDisabled THEN "rocp" ELSE "no"
    /\ UNCHANGED fails

(* The rest of a poll that was not a restartable failure.                  *)
PollDone ==
    /\ Record("done")
    /\ fails' = 0 /\ mpc' = "idle"
    /\ exited' = IF exitOnRocpctlError /\ profDisabled THEN "rocp" ELSE "no"

setUnhealthyGPU ==
    health' = [g \in GPUs |-> IF g \in Present THEN "unhealthy" ELSE "absent"]

-----------------------------------------------------------------------------
(* The poll timer fires; an inactive agent is reconnected first, which     *)
(* closes every client and so resets the profiler.                         *)
Poll ==
    /\ Alive /\ mpc = "idle"
    /\ mpc' = "check" /\ active' = TRUE
    /\ profDisabled' = (active /\ profDisabled)
    /\ UNCHANGED <<agent, bad, resp, newBad, fails, polls, health, node,
                   setter, label, exited>>

(* The reconnect fails, before or after it made new clients.               *)
ReconnectFails ==
    /\ Alive /\ mpc = "idle" /\ ~active
    /\ CountFailure("idle")
    /\ active' \in BOOLEAN /\ profDisabled' = FALSE
    /\ UNCHANGED <<agent, bad, resp, newBad, health, node, setter, label>>

(* processHealthValidation looks at the compute node under the lock,       *)
CheckNode ==
    /\ Alive /\ mpc = "check"
    /\ mpc' = IF node THEN "fetch" ELSE "node"
    /\ UNCHANGED <<env, resp, active, newBad, fails, polls, health, node,
                   setter, label, exited>>

(* Mutant: an unhealthy compute node only ends the poll.                   *)
NodeDown_LogOnly ==
    /\ Alive /\ mpc = "node"
    /\ PollDone
    /\ UNCHANGED <<env, resp, active, newBad, health, node, setter, label>>

(* and marks all GPUs after it released the lock.                          *)
NodeDown ==
    /\ Alive /\ mpc = "node"
    /\ setUnhealthyGPU /\ PollDone
    /\ UNCHANGED <<env, resp, active, newBad, node, setter, label>>

(* The agent answers, and the answer is cached.                            *)
Store ==
    /\ cache' = agent
    /\ cacheBad' = IF agent = "up" THEN bad ELSE {}

(* cacheRead, and what processHealthValidation makes of the answer; an     *)
(* answer with a bad ApiStatus is cached like any other.                   *)
Fetch ==
    /\ Alive /\ mpc = "fetch"
    /\ IF cache = "none" /\ agent # "down"
          THEN Store
          ELSE UNCHANGED resp
    /\ newBad' = cacheBad'
    /\ mpc' = CASE cache' = "up" -> "publish" [] cache' = "zero" -> "zero"
                 [] OTHER -> "down"
    /\ UNCHANGED <<env, active, fails, polls, health, node, setter, label,
                   exited>>

(* A failed data pull closes the GPU client, which resets the profiler.    *)
AgentDown ==
    /\ Alive /\ mpc = "down"
    /\ setUnhealthyGPU /\ CountFailure("idle")
    /\ profDisabled' = FALSE
    /\ UNCHANGED <<agent, bad, resp, active, newBad, node, setter, label>>

(* Mutant: an empty answer is taken for a success.                         *)
ZeroGPUs_AsOK ==
    /\ Alive /\ mpc = "zero"
    /\ setUnhealthyGPU /\ PollDone
    /\ UNCHANGED <<env, resp, active, newBad, node, setter, label>>

ZeroGPUs ==
    /\ Alive /\ mpc = "zero"
    /\ setUnhealthyGPU /\ CountFailure("zeroLabel")
    /\ UNCHANGED <<env, resp, active, newBad, node, setter, label>>

(* updateNewHealthState replaces the map, under the lock, *)
PublishBegin ==
    /\ Alive /\ mpc = "publish"
    /\ health' = [g \in GPUs |-> "absent"] /\ mpc' = "fill"
    /\ UNCHANGED <<env, resp, active, newBad, fails, polls, node, setter,
                   label, exited>>

(* Mutant: new entries start healthy and the faults are only logged.       *)
PublishFill_AllHealthy ==
    /\ Alive /\ mpc = "fill"
    /\ health' = [g \in GPUs |-> "healthy"] /\ mpc' = "label" /\ newBad' = {}
    /\ UNCHANGED <<env, resp, active, fails, polls, node, setter,
                   label, exited>>

(* and fills it with the states of this poll.                              *)
PublishFill ==
    /\ Alive /\ mpc = "fill"
    /\ health' = [g \in GPUs |-> IF g \in newBad THEN "unhealthy" ELSE "healthy"]
    /\ mpc' = "label" /\ newBad' = {}
    /\ UNCHANGED <<env, resp, active, fails, polls, node, setter,
                   label, exited>>

(* Mutant: labels are added and never removed.                             *)
sendNodeLabelUpdate_AddOnly == label' = label \cup Unhealthy

sendNodeLabelUpdate == label' = Unhealthy

(* The end of a good poll: push the label, whose error is only logged.     *)
LabelOK ==
    /\ Alive /\ mpc = "label"
    /\ sendNodeLabelUpdate /\ PollDone
    /\ UNCHANGED <<env, resp, active, newBad, health, node, setter>>

LabelFails ==
    /\ Alive /\ mpc = "label"
    /\ PollDone
    /\ UNCHANGED <<env, resp, active, newBad, health, node, setter, label>>

(* The label push after an empty answer.                                   *)
ZeroLabel ==
    /\ Alive /\ mpc = "zeroLabel"
    /\ mpc' = "idle" /\ (sendNodeLabelUpdate \/ UNCHANGED label)
    /\ UNCHANGED <<env, resp, active, newBad, fails, polls, health, node,
                   setter, exited>>

-----------------------------------------------------------------------------
(* SetComputeNodeHealthState: the state changes under the lock, *)
SetNode(v) ==
    /\ Alive /\ spc = "idle" /\ mpc # "fill" /\ node # v
    /\ node' = v /\ spc' = "apply"
    /\ UNCHANGED <<env, resp, monitor, health, todo, label, exited>>

(* the map is then used without it.  The runtime kills the process when it *)
(* catches a use of the map while it is being filled.                      *)
Caught ==
    /\ Alive /\ mpc = "fill" /\ spc # "idle"
    /\ exited' = "crash"
    /\ UNCHANGED <<env, resp, monitor, health, node, setter, label>>

NodeHealth == IF node THEN "healthy" ELSE "unhealthy"

(* updateAllGPUsHealthState: an empty map is filled from gpuIDMap (which   *)
(* may still be empty), the entries of any other are visited one by one.   *)
(* Any part of a map that is being filled may be seen.                     *)
Apply ==
    /\ Alive /\ spc = "apply"
    /\ \E seen \in (IF mpc = "fill" THEN SUBSET GPUs ELSE {Present}) :
          IF seen = {}
             THEN /\ spc' = "idle" /\ UNCHANGED todo
                  /\ \/ health' = [g \in GPUs |-> NodeHealth]
                     \/ UNCHANGED health
             ELSE spc' = "mark" /\ todo' = seen /\ UNCHANGED health
    /\ UNCHANGED <<env, resp, monitor, node, label, exited>>

(* An entry not in the new map yet is one of the crashes of Caught.        *)
Mark(g) ==
    /\ Alive /\ spc = "mark" /\ mpc # "fill" /\ g \in todo
    /\ health' = [health EXCEPT ![g] = NodeHealth]
    /\ todo' = todo \ {g}
    /\ spc' = IF todo' = {} THEN "idle" ELSE "mark"
    /\ UNCHANGED <<env, resp, monitor, node, label, exited>>

-----------------------------------------------------------------------------
(* The environment *)

AgentChanges(a) ==
    /\ Alive /\ agent # a
    /\ agent' = a
    /\ UNCHANGED <<bad, profDisabled, resp, monitor, health, node, setter,
                   label, exited>>

FaultChanges(g) ==
    /\ Alive
    /\ bad' = IF g \in bad THEN bad \ {g} ELSE bad \cup {g}
    /\ UNCHANGED <<agent, profDisabled, resp, monitor, health, node, setter,
                   label, exited>>

(* (nothing here looks at the profiler unless exitOnRocpctlError is set)   *)
ProfilerTrips ==
    /\ Alive /\ ~profDisabled /\ exitOnRocpctlError
    /\ profDisabled' = TRUE
    /\ UNCHANGED <<agent, bad, resp, monitor, health, node, setter, label,
                   exited>>

(* cacheTimer elapses; a scrape or a query refills the cache.              *)
CacheExpires ==
    /\ Alive /\ cache # "none"
    /\ cache' = "none" /\ cacheBad' = {}
    /\ UNCHANGED <<env, monitor, health, node, setter, label, exited>>

ScrapeReads ==
    /\ Alive /\ cache = "none" /\ agent # "down"
    /\ Store
    /\ UNCHANGED <<env, monitor, health, node, setter, label, exited>>

(* The container is restarted; the node keeps its label.                   *)
Restart ==
    /\ ~Alive
    /\ exited' = "no" /\ profDisabled' = FALSE
    /\ cache' = "none" /\ cacheBad' = {}
    /\ active' \in BOOLEAN /\ mpc' = "idle" /\ newBad' = {} /\ fails' = 0
    /\ polls' = <<>>
    /\ health' = [g \in GPUs |-> "absent"] /\ node' = TRUE
    /\ spc' = "idle" /\ todo' = {}
    /\ UNCHANGED <<agent, bad, label>>

Monitor == \/ Poll \/ ReconnectFails \/ CheckNode \/ NodeDown \/ Fetch
           \/ AgentDown \/ ZeroGPUs \/ PublishBegin \/ PublishFill
           \/ LabelOK \/ LabelFails \/ ZeroLabel
Setter == Apply \/ \E g \in GPUs : Mark(g)

Next ==
    \/ Monitor
    \/ Setter \/ Caught \/ \E v \in BOOLEAN : SetNode(v)
    \/ \E a \in Answers \cup {"down"} : AgentChanges(a)
    \/ \E g \in GPUs : FaultChanges(g)
    \/ ProfilerTrips \/ CacheExpires \/ ScrapeReads \/ Restart

Spec == Init /\ [][Next]_vars

(* The poll timer fires, the goroutines are scheduled and cacheTimer       *)
(* elapses; the API server does not refuse every label update for ever.    *)
LiveSpec ==
    /\ Spec
    /\ WF_vars(Monitor) /\ WF_vars(Setter) /\ WF_vars(CacheExpires)
    /\ SF_vars(LabelOK)

-----------------------------------------------------------------------------
(* Properties *)

(* What GetGPUHealthStates and GetHealthState, which take the lock, see.   *)
Observed(P) == mpc = "fill" \/ P
NoneHealthy == \A g \in GPUs : health[g] # "healthy"

(* The process only gives up on the agent after maxConsecutiveFailures     *)
(* polls in a row, none of them good and none cut short by an unhealthy    *)
(* compute node, failed (StartMonitor and isRestartableFailure).           *)
ExitAfterMax ==
    exited = "agent" =>
        /\ Len(polls) = history
        /\ \A i \in 1..Len(polls) : polls[i] = "failed"

(* Nor does it wait longer: with exitOnAgentDown that many failed polls in *)
(* a row have ended the process (StartMonitor counts each one once).       *)
ExitByMax ==
    (/\ exitOnAgentDown /\ Len(polls) = maxConsecutiveFailures
     /\ \A i \in 1..Len(polls) : polls[i] = "failed")
    => exited = "agent"

(* With exitOnAgentDown the process does not stay up beside an agent that  *)
(* stays down, without GPUs or in error, whatever the scrapes cached.      *)
AgentDownExits ==
    exitOnAgentDown =>
        (<>[](agent # "up" /\ node) => []<>(~Alive))

(* A compute node that stays unhealthy ends with no GPU reported healthy,  *)
(* whatever poll was under way when it was set (SetComputeNodeHealthState  *)
(* and the check in processHealthValidation).                              *)
NodeDownReported ==
    <>[](~node /\ Alive) => <>[]Observed(NoneHealthy)

(* With the agent up and the node healthy, a fault that stays is           *)
(* eventually reported, in the map and on the node label, and so is a      *)
(* recovery, whatever the other GPUs, the scrapes and the overrides did.   *)
ReportConverges ==
    \A g \in GPUs :
        /\ <>[](agent = "up" /\ node /\ Alive /\ g \in bad)
              => <>[](Observed(health[g] = "unhealthy") /\ g \in label)
        /\ <>[](agent = "up" /\ node /\ Alive /\ g \notin bad)
              => <>[](Observed(health[g] = "healthy") /\ g \notin label)

-----------------------------------------------------------------------------
(* Claims of comments and docs that the code does not keep *)

(* gpuagent_health.go, SetComputeNodeHealthState: once it returned, the    *)
(* GPUs of an unhealthy compute node are marked unavailable.               *)
NodeDownIsVisible ==
    ~node /\ spc = "idle" => Observed(NoneHealthy)

(* docs/configuration/configmap.md: a GPU over its threshold is marked     *)
(* unhealthy.  A GPU whose fault every record agrees on stays marked.      *)
FaultStaysReported ==
    [][\A g \in bad \cap cacheBad \cap label :
          health[g] = "unhealthy" => health'[g] # "healthy"]_vars

(* docs/configuration/configmap.md: with ExitOnRocpctlError the exporter   *)
(* exits when the profiler was disabled.                                   *)
RocpErrorExits == profDisabled ~> ~Alive
=============================================================================
