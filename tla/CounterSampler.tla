---------------------------- MODULE CounterSampler ----------------------------
(***************************************************************************)
(* rocprofilerclient: one run of rocpctl.  It finds the GPUs, and for each *)
(* one packs the requested counters greedily into profiles that the        *)
(* hardware can measure at once, samples every profile for a window, adds  *)
(* the records up by counter name, and prints the readings at the end.     *)
(*                                                                         *)
(* Counters are numbered in the order of their names.  The vectors of      *)
(* names of the packing loop are sets of positions in the request: every   *)
(* loop goes through them in the order of the sorted request, so the set   *)
(* says it all, and two positions with one name stay apart.  A reading     *)
(* says for each counter how many sampling windows its value adds up.      *)
(* The calls of the profiling library (SDK) may fail, each in any run.     *)
(***************************************************************************)
EXTENDS Naturals, Sequences, FiniteSets

CONSTANTS
    Counters,       \* counter names, numbered in their order
    Requests,       \* argument lists: sequences of counters
    all_fields,     \* what an empty argument list stands for
    MaxAgents,      \* bound on the GPUs of a node
    MAX_COUNTER_PER_PROFILE

ASSUME SamplerAssumption ==
    /\ Counters \subseteq Nat
    /\ Requests \subseteq Seq(Counters) /\ all_fields \in Seq(Counters)
    /\ MaxAgents \in Nat /\ MAX_COUNTER_PER_PROFILE \in Nat \ {0}

VARIABLES
    at,         \* control state
    exit,       \* "running", or how the process ended
    request,    \* metric_fields
    agents,     \* number of GPUs, and of samplers
    gpu,        \* gpu_index, from 1
    supported,  \* get_supported_counters of the GPU at hand
    todo,       \* remaining_counters that the current pass has not tried
    current,    \* current_profile_counters
    failed,     \* failed_counters
    last_valid_config,  \* the counters of that configuration
    profiles,   \* profile_set.profiles
    nth,        \* the profile to be sampled
    active,     \* the counters the started context measures
    values,     \* out_values
    sampled_values,
    printed,    \* readings printed
    sound,      \* history: no SDK call failed without the program noticing
    refused     \* history: positions that the SDK refused on their own

packing  == <<supported, todo, current, failed, last_valid_config, refused>>
sampling == <<nth, active, values>>
process  == <<request, agents>>
results  == <<gpu, sampled_values, printed>>
samplerVars ==
    <<at, exit, process, packing, profiles, sampling, results, sound>>

metrics == IF request = <<>> THEN all_fields ELSE request
Positions == DOMAIN metrics

(* std::sort of the counters; equal names are the same to it.              *)
Before(p, q) == metrics[p] < metrics[q] \/ (metrics[p] = metrics[q] /\ p < q)
IsNext(p) == p \in todo /\ \A q \in todo \ {p} : Before(p, q)

Zero == [c \in Counters |-> 0]

SamplerInit ==
    /\ at = "load" /\ exit = "running"
    /\ request \in Requests /\ agents = 0 /\ gpu = 1
    /\ supported = {} /\ todo = {} /\ current = {} /\ failed = {}
    /\ last_valid_config = {} /\ refused = {}
    /\ profiles = <<>> /\ nth = 1 /\ active = {} /\ values = Zero
    /\ sampled_values = <<>> /\ printed = 0
    /\ sound = TRUE

Ends(e) == at' = "done" /\ exit' = e

-----------------------------------------------------------------------------
(* rocpctl's main                                                          *)

(* The first HIP call loads the library, whose tool_init makes a sampler   *)
(* for every GPU; an SDK error throws out of it.  HIP may fail or see no   *)
(* device.                                                                 *)
tool_init ==
    /\ at = "load"
    /\ \/ agents' \in 0..MaxAgents /\ at' = "args" /\ UNCHANGED exit
       \/ \E e \in {"failed", "died"} : Ends(e) /\ UNCHANGED agents
    /\ UNCHANGED <<request, packing, profiles, sampling, results, sound>>

(* The arguments: a request for help, a bad number, or a list of counters; *)
(* then runSample asks for the agents again, which may throw.              *)
parse_args ==
    /\ at = "args"
    /\ \/ \E e \in {"usage", "failed"} : Ends(e)
       \/ at' = (IF agents = 0 THEN "print" ELSE "gpu") /\ UNCHANGED exit
    /\ UNCHANGED <<process, packing, profiles, sampling, results, sound>>

-----------------------------------------------------------------------------
(* create_profiles_for_counters                                            *)

(* get_supported_counters, at the start: an error ends the program.        *)
get_supported_counters ==
    /\ at = "gpu"
    /\ \/ /\ supported' \in SUBSET Counters
          /\ todo' = Positions /\ refused' = {}
          /\ at' = "pack" /\ UNCHANGED exit
       \/ Ends("failed") /\ UNCHANGED <<supported, todo, refused>>
    /\ profiles' = <<>> /\ values' = Zero /\ nth' = 1 /\ active' = {}
    /\ UNCHANGED <<process, current, failed, last_valid_config, results, sound>>

SkipUnsupported(p) ==
    /\ at = "pack" /\ IsNext(p)
    /\ metrics[p] \notin supported
    /\ todo' = todo \ {p}
    /\ UNCHANGED <<at, exit, process, supported, current, failed,
                   last_valid_config, refused, profiles, sampling, results,
                   sound>>

(* create_counter_config succeeds for the counters and one more.           *)
AddCounter(p) ==
    /\ at = "pack" /\ IsNext(p)
    /\ metrics[p] \in supported
    /\ Cardinality(current \cup {p}) <= MAX_COUNTER_PER_PROFILE
    /\ todo' = todo \ {p}
    /\ current' = current \cup {p}
    /\ last_valid_config' = current \cup {p}
    /\ UNCHANGED <<at, exit, process, supported, failed, refused, profiles,
                   sampling, results, sound>>

(* Mutant: a counter that does not fit stays in the profile's list.        *)
RejectCounter_NoPop(p) ==
    /\ at = "pack" /\ IsNext(p)
    /\ metrics[p] \in supported
    /\ \/ Cardinality(current \cup {p}) > MAX_COUNTER_PER_PROFILE
          /\ UNCHANGED refused
       \/ refused' = IF current = {} THEN refused \cup {p} ELSE refused
    /\ todo' = todo \ {p}
    /\ failed' = failed \cup {p} /\ current' = current \cup {p}
    /\ UNCHANGED <<at, exit, process, supported, last_valid_config,
                   profiles, sampling, results, sound>>

(* The limit of the program, the limit of the hardware or another error.   *)
RejectCounter(p) ==
    /\ at = "pack" /\ IsNext(p)
    /\ metrics[p] \in supported
    /\ \/ Cardinality(current \cup {p}) > MAX_COUNTER_PER_PROFILE
          /\ UNCHANGED refused
       \/ refused' = IF current = {} THEN refused \cup {p} ELSE refused
    /\ todo' = todo \ {p}
    /\ failed' = failed \cup {p}
    /\ UNCHANGED <<at, exit, process, supported, current, last_valid_config,
                   profiles, sampling, results, sound>>

(* Mutant: without the check against an infinite loop.                     *)
SaveProfile_NoBreak ==
    /\ at = "pack" /\ todo = {}
    /\ profiles' = IF current # {} /\ last_valid_config # {}
                     THEN Append(profiles, [config |-> last_valid_config,
                                            counter_names |-> current])
                     ELSE profiles
    /\ current' = {} /\ failed' = {} /\ last_valid_config' = {}
    /\ todo' = failed
    /\ at' = IF failed = {} THEN "start" ELSE "pack"
    /\ UNCHANGED <<exit, process, supported, refused, sampling, results, sound>>

(* Mutant: only the first pass makes a profile.                            *)
SaveProfile_OnePass ==
    /\ at = "pack" /\ todo = {}
    /\ profiles' = IF current # {} /\ last_valid_config # {}
                     THEN Append(profiles, [config |-> last_valid_config,
                                            counter_names |-> current])
                     ELSE profiles
    /\ current' = {} /\ failed' = {} /\ last_valid_config' = {}
    /\ todo' = {} /\ at' = "start"
    /\ UNCHANGED <<exit, process, supported, refused, sampling, results, sound>>

(* The end of a pass over the remaining counters; the next one takes those *)
(* that did not fit, unless nothing fitted at all.                         *)
SaveProfile ==
    /\ at = "pack" /\ todo = {}
    /\ profiles' = IF current # {} /\ last_valid_config # {}
                     THEN Append(profiles, [config |-> last_valid_config,
                                            counter_names |-> current])
                     ELSE profiles
    /\ current' = {} /\ failed' = {} /\ last_valid_config' = {}
    /\ IF failed = {} \/ current = {}
         THEN at' = "start" /\ todo' = {}
         ELSE at' = "pack" /\ todo' = failed
    /\ UNCHANGED <<exit, process, supported, refused, sampling, results, sound>>

-----------------------------------------------------------------------------
(* sample_counters_with_packing: the loop over the profiles.  The results  *)
(* of the three SDK calls are not looked at.                               *)

(* rocprofiler_start_context calls set_profile with the configuration; a   *)
(* context that is still started may keep the one it has.                  *)
start_context ==
    /\ at = "start" /\ nth <= Len(profiles)
    /\ \/ active' = profiles[nth].config /\ UNCHANGED sound
       \/ UNCHANGED active /\ sound' = FALSE
    /\ at' = "sample"
    /\ UNCHANGED <<exit, process, packing, profiles, nth, values, results>>

(* The window, and decode_record_name and += for every record.  After a    *)
(* failed call the records are zeros without a name, and a record whose    *)
(* name is not found is not added to its counter either.                   *)
sample_device_counting_service ==
    LET measured == {metrics[p] : p \in active} IN
    /\ at = "sample"
    /\ \E got \in SUBSET measured :
          /\ values' = [c \in Counters |-> IF c \in got THEN values[c] + 1
                                           ELSE values[c]]
          /\ sound' = (sound /\ got = measured)
    /\ at' = "stop"
    /\ UNCHANGED <<exit, process, packing, profiles, nth, active, results>>

stop_context ==
    /\ at = "stop"
    /\ \/ active' = {} /\ UNCHANGED sound
       \/ UNCHANGED active /\ sound' = FALSE
    /\ nth' = nth + 1 /\ at' = "start"
    /\ UNCHANGED <<exit, process, packing, profiles, values, results>>

-----------------------------------------------------------------------------
(* runSample                                                               *)

(* Mutant: each reading is printed as soon as it is there.                 *)
KeepReading_PrintNow ==
    /\ at = "start" /\ nth > Len(profiles)
    /\ sampled_values' = Append(sampled_values, values)
    /\ gpu' = gpu + 1 /\ printed' = printed + 1
    /\ at' = IF gpu < agents THEN "gpu" ELSE "print"
    /\ UNCHANGED <<exit, process, packing, profiles, sampling, sound>>

(* The readings of a GPU are complete; the loop goes on to the next.       *)
KeepReading ==
    /\ at = "start" /\ nth > Len(profiles)
    /\ sampled_values' = Append(sampled_values, values)
    /\ gpu' = gpu + 1
    /\ at' = IF gpu < agents THEN "gpu" ELSE "print"
    /\ UNCHANGED <<exit, process, packing, profiles, sampling, printed, sound>>

PrintReading ==
    /\ at = "print" /\ printed < agents
    /\ printed' = printed + 1
    /\ UNCHANGED <<at, exit, process, packing, profiles, sampling, gpu,
                   sampled_values, sound>>

ReturnZero ==
    /\ at = "print" /\ printed = agents
    /\ Ends("answered")
    /\ UNCHANGED <<process, packing, profiles, sampling, results, sound>>

(* The exporter's timeout kills the process, or a library crashes.         *)
Killed ==
    /\ exit = "running"
    /\ Ends("died")
    /\ UNCHANGED <<process, packing, profiles, sampling, results, sound>>

create_profiles_for_counters ==
    \/ get_supported_counters
    \/ \E p \in todo : SkipUnsupported(p) \/ AddCounter(p) \/ RejectCounter(p)
    \/ SaveProfile

sample_profile ==
    start_context \/ sample_device_counting_service \/ stop_context

rocpctl ==
    \/ tool_init \/ parse_args
    \/ create_profiles_for_counters
    \/ sample_profile
    \/ KeepReading \/ PrintReading \/ ReturnZero

SamplerNext == rocpctl \/ Killed

SamplerSpec == SamplerInit /\ [][SamplerNext]_samplerVars

(* The program runs.                                                       *)
SamplerLive == SamplerSpec /\ WF_samplerVars(rocpctl)

-----------------------------------------------------------------------------
Profile == [config : SUBSET Positions, counter_names : SUBSET Positions]

SamplerTypeOK ==
    /\ at \in {"load", "args", "gpu", "pack", "start", "sample", "stop",
               "print", "done"}
    /\ exit \in {"running", "answered", "usage", "failed", "died"}
    /\ request \in Requests /\ agents \in 0..MaxAgents /\ gpu \in Nat
    /\ supported \subseteq Counters
    /\ todo \subseteq Positions /\ current \subseteq Positions
    /\ failed \subseteq Positions /\ last_valid_config \subseteq Positions
    /\ refused \subseteq Positions
    /\ profiles \in Seq(Profile)
    /\ nth \in Nat \ {0} /\ active \subseteq Positions
    /\ values \in [Counters -> Nat]
    /\ sampled_values \in Seq([Counters -> Nat]) /\ printed \in Nat
    /\ sound \in BOOLEAN

Placed == UNION {profiles[i].counter_names : i \in DOMAIN profiles}

(* create_profiles_for_counters: the configuration of a profile measures   *)
(* exactly the counters listed with it, no more than the limit, and no     *)
(* argument is in two profiles: this is what makes it safe to add up the   *)
(* records of all profiles by name.                                        *)
ProfilesDisjoint ==
    \A i \in DOMAIN profiles :
        /\ profiles[i].config = profiles[i].counter_names
        /\ Cardinality(profiles[i].config) <= MAX_COUNTER_PER_PROFILE
        /\ \A j \in DOMAIN profiles \ {i} :
              profiles[i].config \cap profiles[j].config = {}

(* create_profiles_for_counters, sample_counters_with_packing: unless an   *)
(* SDK call failed on the way, a counter without a value in the reading of *)
(* a GPU is one that the GPU does not support or that the SDK refused on   *)
(* its own; none is lost to the order in which the passes tried them.      *)
MissingOnlyIfRefused ==
    at = "start" /\ nth > Len(profiles) /\ sound =>
        \A p \in Positions :
            metrics[p] \in supported /\ values[metrics[p]] = 0 => p \in refused

(* rocpctl as the exporter sees it.                                        *)
Asked == [c \in Counters |-> Cardinality({p \in Positions : metrics[p] = c})]
Printed == SubSeq(sampled_values, 1, printed)
Contract == INSTANCE Rocpctl WITH asked <- Asked, out <- Printed

(* main, runSample: the program keeps the contract of module Rocpctl: it   *)
(* answers with a reading of every GPU or fails without output, and adds   *)
(* up no counter more often than it was asked for.                         *)
KeepsContract == Contract!ContractSpec

(* create_profiles_for_counters ("Safety check to prevent infinite loop"), *)
(* main: whatever the SDK accepts and refuses, the program ends.           *)
ProgramEnds == <>(exit # "running")

(* updateGPUInfoToMetrics, "GPU_PROF_OCCUPANCY_ELAPSED =                   *)
(* MeanOccupancyPerActiveCU / GRBM_GUI_ACTIVE": the two are of windows of  *)
(* the same length, so no counter adds up more than one.                   *)
SampledOnce ==
    sound => \A i \in DOMAIN sampled_values :
                \A c \in Counters : sampled_values[i][c] <= 1

(* sample_counters_with_packing: they are, if no counter is named twice on *)
(* the command line.                                                       *)
OnceIfNamedOnce ==
    (\A p, q \in Positions : metrics[p] = metrics[q] => p = q) => SampledOnce

(* runSample: "Print all results after successful sampling".               *)
PrintedIsSampled == printed > 0 => sound
=============================================================================
