---------------------------- MODULE ProfilerProofs ----------------------------
(***************************************************************************)
(* The profiler: the breaker of module RocProfiler, for every set of       *)
(* callers and every threshold, and the program that the client runs,      *)
(* module CounterSampler, for all GPUs, counters, requests and limits.     *)
(***************************************************************************)
EXTENDS RocProfiler, CounterSampler, FiniteSetTheorems, SequenceTheorems, TLAPS

(* The breaker sends one event when the count reaches the threshold and    *)
(* one for the first crash: this is the bound that TypeOK puts on emitted, *)
(* and what makes the recorded reason exact.                               *)
BreakerInv ==
    /\ fails \in Nat /\ fatal \in BOOLEAN /\ tripped \in BOOLEAN
    /\ reason \in {"none", "consecutive", "crash"}
    /\ emitted \in 0..2
    /\ (~fatal /\ fails < failThreshold) => emitted = 0
    /\ (~fatal \/ fails < failThreshold) => emitted <= 1
    /\ ReasonIffDisabled

(* A breaker with nothing on record satisfies its invariant.               *)
LEMMA ClosedBreaker ==
    (fails = 0 /\ fatal = FALSE /\ reason = "none" /\ emitted = 0
       /\ tripped \in BOOLEAN) => BreakerInv
<1>. SUFFICES ASSUME fails = 0, fatal = FALSE, reason = "none", emitted = 0,
                     tripped \in BOOLEAN
              PROVE  BreakerInv
     OBVIOUS
<1>1. fails \in Nat /\ emitted \in 0..2 /\ emitted <= 1 OBVIOUS
<1>2. ~(fails >= failThreshold) BY RocpAssumption
<1>3. ~IsDisabledOnFailure BY <1>2, Zenon DEF IsDisabledOnFailure
<1>4. ReasonIffDisabled BY <1>3, Zenon DEF ReasonIffDisabled
<1>. QED BY <1>1, <1>4, Zenon DEF BreakerInv

(* Every operation on the breaker preserves its invariant.                 *)
LEMMA BreakerOps ==
    ASSUME BreakerInv,
           \/ ResetFailureCount \/ IncFailureCount \/ SetFatalFailureState
           \/ UNCHANGED breaker
    PROVE  BreakerInv'
<1>. USE RocpAssumption DEF BreakerInv, ReasonIffDisabled, IsDisabledOnFailure
<1>1. CASE ResetFailureCount
  <2>1. fails' \in Nat /\ emitted' \in 0..2 /\ emitted' = 0 /\ emitted' <= 1
        BY <1>1 DEF ResetFailureCount
  <2>2. ~(fails' >= failThreshold) BY <1>1 DEF ResetFailureCount
  <2>3. ~IsDisabledOnFailure' BY <1>1, <2>2, Zenon DEF ResetFailureCount
  <2>4. ReasonIffDisabled' BY <1>1, <2>3, Zenon DEF ResetFailureCount
  <2>. QED BY <1>1, <2>1, <2>4, Zenon DEF ResetFailureCount
<1>2. CASE IncFailureCount
  <2>1. CASE fails + 1 = failThreshold BY <1>2, <2>1 DEF IncFailureCount
  <2>2. CASE fails + 1 # failThreshold BY <1>2, <2>2 DEF IncFailureCount
  <2>. QED BY <2>1, <2>2
<1>3. CASE SetFatalFailureState BY <1>3 DEF SetFatalFailureState
<1>4. CASE UNCHANGED breaker BY <1>4 DEF breaker
<1>. QED BY <1>1, <1>2, <1>3, <1>4

(* Every step is one of the breaker's operations or leaves it alone.       *)
LEMMA StepIsBreakerOp ==
    ASSUME [Next]_vars
    PROVE  \/ ResetFailureCount \/ IncFailureCount \/ SetFatalFailureState
           \/ UNCHANGED breaker
<1>1. ASSUME NEW c \in Callers, Scrape(c) \/ ScrapeReturns(c)
      PROVE  UNCHANGED breaker
      BY <1>1 DEF Scrape, ScrapeReturns
<1>2. ASSUME NEW c \in Callers, caller(c)
      PROVE  \/ ResetFailureCount \/ IncFailureCount \/ SetFatalFailureState
             \/ UNCHANGED breaker
      BY <1>2 DEF caller, Lookup, Check, Run, Apply, Store
<1>3. CASE Expire BY <1>3 DEF Expire
<1>4. CASE Close BY <1>4 DEF Close
<1>5. CASE UNCHANGED vars BY <1>5 DEF vars
<1>. QED BY <1>1, <1>2, <1>3, <1>4, <1>5 DEF Next

(* IncFailureCount, SetFatalFailureState, ResetFailureCount: for any       *)
(* number of overlapping requests a reason is on record exactly while the  *)
(* profiler is disabled.                                                   *)
THEOREM ReasonKnown == Spec => []ReasonIffDisabled
<1>1. Init => BreakerInv BY ClosedBreaker, Zenon DEF Init
<1>2. BreakerInv /\ [Next]_vars => BreakerInv' BY BreakerOps, StepIsBreakerOp
<1>3. BreakerInv => ReasonIffDisabled BY DEF BreakerInv
<1>. QED BY <1>1, <1>2, <1>3, PTL DEF Spec

(* The state of the requests and of the cache.                             *)
CallInv ==
    /\ scrape \in Callers \cup {NoOne}
    /\ pc \in [Callers -> {"idle", "lookup", "check", "run", "apply", "store"}]
    /\ outcome \in [Callers -> Outcomes \cup {"none", "disabled"}]
    /\ cached \in BOOLEAN /\ fresh \in BOOLEAN

(* Every step keeps the requests and the cache well typed.                 *)
LEMMA CallStep == CallInv /\ [Next]_vars => CallInv'
<1>. SUFFICES ASSUME CallInv, [Next]_vars PROVE CallInv' OBVIOUS
<1>. USE DEF CallInv
<1>1. ASSUME NEW c \in Callers, Scrape(c) PROVE CallInv'
      BY <1>1 DEF Scrape, Goto, cache
<1>2. ASSUME NEW c \in Callers, ScrapeReturns(c) PROVE CallInv'
      BY <1>2 DEF ScrapeReturns, cache
<1>3. ASSUME NEW c \in Callers, Lookup(c) PROVE CallInv'
      BY <1>3 DEF Lookup, Goto, cache
<1>4. ASSUME NEW c \in Callers, Check(c) PROVE CallInv'
      BY <1>4 DEF Check, Goto, cache, Outcomes
<1>5. ASSUME NEW c \in Callers, Run(c) PROVE CallInv'
      BY <1>5 DEF Run, Goto, cache
<1>6. ASSUME NEW c \in Callers, Apply(c) PROVE CallInv'
      BY <1>6 DEF Apply, Goto, cache
<1>7. ASSUME NEW c \in Callers, Store(c) PROVE CallInv'
  <2>1. cached' \in BOOLEAN /\ fresh' \in BOOLEAN BY <1>7 DEF Store
  <2>. QED BY <1>7, <2>1 DEF Store, Goto
<1>8. CASE Expire BY <1>8, Zenon DEF Expire
<1>9. CASE Close BY <1>9 DEF Close, cache
<1>10. CASE UNCHANGED vars BY <1>10 DEF vars, cache
<1>. QED BY <1>1, <1>2, <1>3, <1>4, <1>5, <1>6, <1>7, <1>8, <1>9, <1>10
         DEF Next, caller

(* Type correctness; in particular the breaker never sends a third event   *)
(* between two resets.                                                     *)
THEOREM TypeCorrect == Spec => []TypeOK
<1>1. Init => CallInv /\ BreakerInv
  <2>1. Init => CallInv BY Zenon DEF Init, CallInv
  <2>2. Init => BreakerInv BY ClosedBreaker, Zenon DEF Init
  <2>. QED BY <2>1, <2>2
<1>2. BreakerInv /\ [Next]_vars => BreakerInv' BY BreakerOps, StepIsBreakerOp
<1>3. CallInv /\ BreakerInv => TypeOK BY DEF CallInv, BreakerInv, TypeOK
<1>. QED BY <1>1, <1>2, CallStep, <1>3, PTL DEF Spec

(* A request that is past the check but not yet at its outcome finds the   *)
(* breaker closed, when there is no other request to trip it.              *)
AloneInv ==
    /\ CallInv /\ BreakerInv
    /\ emitted <= 1
    /\ \A c \in Callers :
          pc[c] \in {"lookup", "check", "run", "apply"} => ~IsDisabledOnFailure

(* EventEmitFunc, "called at most once per disable event", for a client    *)
(* that is never used by two requests at once.                             *)
THEOREM OneEventAlone ==
    ASSUME NEW d, Callers = {d}
    PROVE  Spec => []OneEventPerDisable
<1>1. Init => AloneInv
  <2>1. Init => CallInv BY Zenon DEF Init, CallInv
  <2>2. Init => BreakerInv BY ClosedBreaker, Zenon DEF Init
  <2>. QED BY <2>1, <2>2 DEF Init, AloneInv
<1>2. AloneInv /\ [Next]_vars => AloneInv'
  <2>. SUFFICES ASSUME AloneInv, [Next]_vars PROVE AloneInv' OBVIOUS
  <2>1. CallInv' /\ BreakerInv'
        BY CallStep, BreakerOps, StepIsBreakerOp DEF AloneInv
  <2>. USE DEF AloneInv
  <2>2. ASSUME NEW c \in Callers, Scrape(c) PROVE AloneInv'
        BY <2>1, <2>2 DEF Scrape, Goto, breaker, IsDisabledOnFailure, CallInv
  <2>3. ASSUME NEW c \in Callers, ScrapeReturns(c) PROVE AloneInv'
        BY <2>1, <2>3 DEF ScrapeReturns, breaker, IsDisabledOnFailure
  <2>4. ASSUME NEW c \in Callers, Lookup(c) \/ Check(c) \/ Run(c) \/ Store(c)
        PROVE  AloneInv'
        BY <2>1, <2>4
        DEF Lookup, Check, Run, Store, Goto, breaker, IsDisabledOnFailure, CallInv
  <2>5. ASSUME NEW c \in Callers, Apply(c) PROVE AloneInv'
    <3>1. c = d /\ pc'[d] = "store" BY <2>5 DEF Apply, Goto, CallInv
    <3>2. ~IsDisabledOnFailure BY <2>5 DEF Apply
    <3>3. emitted = 0
          BY <3>2, RocpAssumption DEF BreakerInv, IsDisabledOnFailure
    <3>4. emitted' <= 1
          BY <2>5, <3>3 DEF Apply, ResetFailureCount, IncFailureCount,
                            SetFatalFailureState, breaker
    <3>. QED BY <2>1, <3>1, <3>4
  <2>6. CASE Expire BY <2>1, <2>6 DEF Expire, breaker, IsDisabledOnFailure
  <2>7. CASE Close
        BY <2>1, <2>7, RocpAssumption
        DEF Close, ResetFailureCount, IsDisabledOnFailure
  <2>8. CASE UNCHANGED vars
        BY <2>1, <2>8 DEF vars, breaker, IsDisabledOnFailure
  <2>. QED BY <2>2, <2>3, <2>4, <2>5, <2>6, <2>7, <2>8 DEF Next, caller
<1>3. AloneInv => OneEventPerDisable BY DEF AloneInv, OneEventPerDisable
<1>. QED BY <1>1, <1>2, <1>3, PTL DEF Spec

-----------------------------------------------------------------------------
(* Sequences: appending keeps their type, elements have it.                *)
LEMMA SeqFacts ==
    ASSUME NEW S, NEW s \in Seq(S)
    PROVE  /\ \A e \in S : Append(s, e) \in Seq(S)
           /\ \A i \in Nat \ {0} : i <= Len(s) => i \in DOMAIN s /\ s[i] \in S
<1>1. \A e \in S : Append(s, e) \in Seq(S) BY AppendProperties
<1>2. \A i \in Nat \ {0} : i <= Len(s) => i \in DOMAIN s /\ s[i] \in S OBVIOUS
<1>. QED BY <1>1, <1>2

(* What a request is made of.                                              *)
LEMMA RequestFacts ==
    ASSUME SamplerTypeOK
    PROVE  /\ metrics \in Seq(Counters)
           /\ Positions = 1..Len(metrics) /\ IsFiniteSet(Positions)
           /\ \A p \in Positions : metrics[p] \in Counters
<1>1. metrics \in Seq(Counters)
      BY SamplerAssumption DEF SamplerTypeOK, metrics
<1>2. Positions = 1..Len(metrics) BY <1>1 DEF Positions
<1>3. Len(metrics) \in Nat BY <1>1
<1>. QED BY <1>1, <1>2, <1>3, FS_Interval

(* A step does not change the request.                                     *)
LEMMA RequestFixed ==
    [SamplerNext]_samplerVars => UNCHANGED <<request, metrics, Positions, Profile>>
<1>. SUFFICES ASSUME [SamplerNext]_samplerVars PROVE request' = request
     BY Zenon DEF metrics, Positions, Profile
<1>. QED BY Zenon DEF SamplerNext, rocpctl, create_profiles_for_counters,
        sample_profile, samplerVars, process, tool_init, parse_args,
        get_supported_counters, SkipUnsupported, AddCounter, RejectCounter,
        SaveProfile, start_context, sample_device_counting_service,
        stop_context, KeepReading, PrintReading, ReturnZero, Killed

(* Type correctness of the sampler.                                        *)
LEMMA SamplerTypeStep == SamplerTypeOK /\ [SamplerNext]_samplerVars => SamplerTypeOK'
<1>. SUFFICES ASSUME SamplerTypeOK, [SamplerNext]_samplerVars
              PROVE  SamplerTypeOK'
     OBVIOUS
<1>. USE RequestFacts, RequestFixed
         DEF SamplerTypeOK, packing, sampling, process, results, Ends
<1>1. CASE tool_init BY <1>1 DEF tool_init
<1>2. CASE parse_args BY <1>2 DEF parse_args
<1>3. CASE get_supported_counters
  <2>1. profiles' = <<>> /\ values' = Zero BY <1>3 DEF get_supported_counters
  <2>2. Zero \in [Counters -> Nat] BY DEF Zero
  <2>. QED BY <1>3, <2>1, <2>2 DEF get_supported_counters
<1>4. ASSUME NEW p \in todo, SkipUnsupported(p) PROVE SamplerTypeOK'
      BY <1>4 DEF SkipUnsupported
<1>5. ASSUME NEW p \in todo, AddCounter(p) PROVE SamplerTypeOK'
      BY <1>5 DEF AddCounter
<1>6. ASSUME NEW p \in todo, RejectCounter(p) PROVE SamplerTypeOK'
      BY <1>6 DEF RejectCounter
<1>7. CASE SaveProfile
  <2>1. [config |-> last_valid_config, counter_names |-> current] \in Profile
        BY DEF Profile
  <2>2. profiles' \in Seq(Profile)
    <3>1. profiles' = profiles
             \/ profiles' = Append(profiles, [config |-> last_valid_config,
                                              counter_names |-> current])
          BY <1>7, Zenon DEF SaveProfile
    <3>2. profiles \in Seq(Profile) OBVIOUS
    <3>. QED BY ONLY <2>1, <3>1, <3>2, SeqFacts
  <2>. QED BY <1>7, <2>2, Zenon DEF SaveProfile
<1>8. CASE start_context
  <2>2. profiles[nth] \in Profile
    <3>1. profiles \in Seq(Profile) /\ nth \in Nat \ {0} /\ nth <= Len(profiles)
          BY <1>8 DEF start_context
    <3>. QED BY ONLY <3>1, SeqFacts
  <2>3. profiles[nth].config \subseteq Positions BY <2>2 DEF Profile
  <2>. QED BY <1>8, <2>3, Zenon DEF start_context
<1>9. CASE sample_device_counting_service
  <2>1. values' \in [Counters -> Nat] BY <1>9 DEF sample_device_counting_service
  <2>2. sound' \in BOOLEAN
        BY <1>9, Zenon DEF sample_device_counting_service
  <2>. QED BY <1>9, <2>1, <2>2 DEF sample_device_counting_service
<1>10. CASE stop_context
  <2>1. nth' \in Nat \ {0} BY <1>10 DEF stop_context
  <2>2. active' \subseteq Positions BY <1>10, Zenon DEF stop_context
  <2>3. sound' \in BOOLEAN BY <1>10, Zenon DEF stop_context
  <2>. QED BY <1>10, <2>1, <2>2, <2>3 DEF stop_context
<1>11. CASE KeepReading
  <2>1. sampled_values' \in Seq([Counters -> Nat])
    <3>1. /\ sampled_values \in Seq([Counters -> Nat]) /\ values \in [Counters -> Nat]
          /\ sampled_values' = Append(sampled_values, values)
          BY <1>11 DEF KeepReading
    <3>. QED BY ONLY <3>1, SeqFacts
  <2>. QED BY <1>11, <2>1 DEF KeepReading
<1>12. CASE PrintReading BY <1>12 DEF PrintReading
<1>13. CASE ReturnZero BY <1>13 DEF ReturnZero
<1>14. CASE Killed BY <1>14 DEF Killed
<1>15. CASE UNCHANGED samplerVars BY <1>15 DEF samplerVars
<1>. QED BY <1>1, <1>2, <1>3, <1>4, <1>5, <1>6, <1>7, <1>8, <1>9, <1>10, <1>11,
            <1>12, <1>13, <1>14, <1>15, Zenon
         DEF SamplerNext, rocpctl, create_profiles_for_counters, sample_profile

(* The packing loop: the configuration is that of the counters collected,  *)
(* each argument is in one place at a time, and while a pass has collected *)
(* nothing, what failed in it was refused on its own.                      *)
PackInv ==
    /\ at # "done" => /\ last_valid_config = current
                      /\ Cardinality(current) <= MAX_COUNTER_PER_PROFILE
    /\ at \notin {"pack", "done"} => current = {} /\ failed = {}
    /\ at = "pack" =>
         /\ current = {} => failed \subseteq refused
         /\ todo \cap current = {} /\ todo \cap failed = {}
         /\ current \cap failed = {}
         /\ Placed \cap (todo \cup current \cup failed) = {}
         /\ \A p \in Positions : metrics[p] \in supported =>
               p \in Placed \cup current \cup failed \cup todo
    /\ at \in {"start", "sample", "stop"} =>
         \A p \in Positions : metrics[p] \in supported => p \in Placed \cup refused
    /\ ProfilesDisjoint

(* The profiles after one more has been saved.                             *)
LEMMA PlacedAppend ==
    ASSUME SamplerTypeOK, NEW r \in Profile, profiles' = Append(profiles, r)
    PROVE  /\ Len(profiles') = Len(profiles) + 1
           /\ DOMAIN profiles' = DOMAIN profiles \cup {Len(profiles) + 1}
           /\ Len(profiles) + 1 \notin DOMAIN profiles
           /\ \A i \in DOMAIN profiles : profiles'[i] = profiles[i]
           /\ profiles'[Len(profiles) + 1] = r
           /\ Placed' = Placed \cup r.counter_names
<1>0. profiles \in Seq(Profile) BY DEF SamplerTypeOK
<1>1. /\ Len(profiles') = Len(profiles) + 1 /\ Len(profiles) \in Nat
      /\ \A i \in 1..Len(profiles) : profiles'[i] = profiles[i]
      /\ profiles'[Len(profiles) + 1] = r
      /\ DOMAIN profiles = 1..Len(profiles) /\ DOMAIN profiles' = 1..Len(profiles')
      BY ONLY <1>0, profiles' = Append(profiles, r), AppendProperties, r \in Profile
<1>2. DOMAIN profiles' = DOMAIN profiles \cup {Len(profiles) + 1}
      BY ONLY <1>1
<1>3. ASSUME NEW x
      PROVE  x \in Placed' <=> x \in Placed \/ x \in r.counter_names
  <2>1. x \in Placed' <=> \E i \in DOMAIN profiles' : x \in profiles'[i].counter_names
        BY DEF Placed
  <2>2. x \in Placed <=> \E i \in DOMAIN profiles : x \in profiles[i].counter_names
        BY DEF Placed
  <2>. QED BY ONLY <1>1, <1>2, <2>1, <2>2
<1>. QED BY <1>1, <1>2, <1>3

(* Every step preserves it.                                                *)
LEMMA PackStep ==
    SamplerTypeOK /\ PackInv /\ [SamplerNext]_samplerVars => PackInv'
<1>. SUFFICES ASSUME SamplerTypeOK, PackInv, [SamplerNext]_samplerVars
              PROVE  PackInv'
     OBVIOUS
<1>. USE RequestFixed
<1>a. ASSUME UNCHANGED <<packing, profiles>>,
             \/ at' = at \/ at' = "done"
             \/ at \in {"load", "args", "print"} /\ at' \in {"args", "gpu", "print"}
             \/ at \in {"start", "sample", "stop"} /\ at' \in {"sample", "stop", "start", "gpu", "print"}
      PROVE  PackInv'
  <2>1. ProfilesDisjoint' /\ Placed' = Placed
        BY <1>a DEF PackInv, ProfilesDisjoint, Placed
  <2>. QED BY <1>a, <2>1 DEF PackInv, packing
<1>1. CASE tool_init \/ parse_args \/ Killed \/ PrintReading \/ ReturnZero
  <2>1. CASE tool_init BY <1>a, <2>1 DEF tool_init, Ends
  <2>2. CASE parse_args BY <1>a, <2>2 DEF parse_args, Ends
  <2>3. CASE Killed \/ ReturnZero BY <1>a, <2>3 DEF Killed, ReturnZero, Ends
  <2>4. CASE PrintReading BY <1>a, <2>4 DEF PrintReading
  <2>. QED BY <1>1, <2>1, <2>2, <2>3, <2>4
<1>2. CASE start_context \/ sample_device_counting_service \/ stop_context
           \/ KeepReading
      BY <1>a, <1>2 DEF start_context, sample_device_counting_service,
                       stop_context, KeepReading
<1>3. CASE get_supported_counters
  <2>1. profiles' = <<>> /\ current' = {} /\ failed' = {} /\ last_valid_config' = {}
        BY <1>3 DEF get_supported_counters, PackInv
  <2>2. Placed' = {} /\ ProfilesDisjoint' BY <2>1 DEF Placed, ProfilesDisjoint
  <2>3. Cardinality(current') = 0 BY <2>1, FS_EmptySet
  <2>4. \/ at' = "done"
        \/ at' = "pack" /\ todo' = Positions
        BY <1>3 DEF get_supported_counters, Ends
  <2>. QED BY <2>1, <2>2, <2>3, <2>4, SamplerAssumption DEF PackInv
<1>4. ASSUME NEW p \in todo, SkipUnsupported(p) PROVE PackInv'
  <2>1. ProfilesDisjoint' /\ Placed' = Placed
        BY <1>4 DEF SkipUnsupported, PackInv, ProfilesDisjoint, Placed
  <2>. QED BY <1>4, <2>1 DEF SkipUnsupported, PackInv
<1>5. ASSUME NEW p \in todo, AddCounter(p) PROVE PackInv'
  <2>1. ProfilesDisjoint' /\ Placed' = Placed
        BY <1>5 DEF AddCounter, PackInv, ProfilesDisjoint, Placed
  <2>. QED BY <1>5, <2>1 DEF AddCounter, PackInv
<1>6. ASSUME NEW p \in todo, RejectCounter(p) PROVE PackInv'
  <2>1. ProfilesDisjoint' /\ Placed' = Placed
        BY <1>6 DEF RejectCounter, PackInv, ProfilesDisjoint, Placed
  <2>2. current = {} => p \in refused'
    <3>1. Cardinality({p}) = 1 BY FS_Singleton
    <3>2. current = {} => current \cup {p} = {p} OBVIOUS
    <3>3. current = {} => ~(Cardinality(current \cup {p}) > MAX_COUNTER_PER_PROFILE)
          BY <3>1, <3>2, SamplerAssumption
    <3>. QED BY <1>6, <3>3 DEF RejectCounter
  <2>3. refused \subseteq refused' BY <1>6 DEF RejectCounter
  <2>. QED BY <1>6, <2>1, <2>2, <2>3 DEF RejectCounter, PackInv
<1>7. CASE SaveProfile
  <2>. DEFINE r == [config |-> last_valid_config, counter_names |-> current]
  <2>0. /\ at = "pack" /\ todo = {} /\ last_valid_config = current
        /\ current' = {} /\ failed' = {} /\ last_valid_config' = {}
        /\ refused' = refused /\ supported' = supported
        BY <1>7 DEF SaveProfile, PackInv
  <2>1. Cardinality(current') = 0 BY <2>0, FS_EmptySet
  <2>2. ProfilesDisjoint' /\ Placed' = Placed \cup current
    <3>1. CASE current = {}
      <4>1. profiles' = profiles BY <1>7, <3>1 DEF SaveProfile
      <4>. QED BY <3>1, <4>1 DEF PackInv, ProfilesDisjoint, Placed
    <3>2. CASE current # {}
      <4>1. profiles' = Append(profiles, r) BY <1>7, <2>0, <3>2 DEF SaveProfile
      <4>2. r \in Profile BY DEF SamplerTypeOK, Profile
      <4>3. r.config = current /\ r.counter_names = current BY <2>0
      <4>4. Placed \cap current = {} BY <2>0 DEF PackInv
      <4>5. ProfilesDisjoint /\ Cardinality(current) <= MAX_COUNTER_PER_PROFILE
            BY <2>0 DEF PackInv
      <4>6. \A i \in DOMAIN profiles : profiles[i].config \cap current = {}
            BY <4>4, <4>5 DEF Placed, ProfilesDisjoint
      <4>7. ProfilesDisjoint'
            BY <4>1, <4>2, <4>3, <4>5, <4>6, PlacedAppend DEF ProfilesDisjoint
      <4>. QED BY <4>1, <4>2, <4>3, <4>7, PlacedAppend
    <3>. QED BY <3>1, <3>2
  <2>3. CASE failed = {} \/ current = {}
    <3>1. at' = "start" BY <1>7, <2>3 DEF SaveProfile
    <3>2. \A p \in Positions : metrics[p] \in supported => p \in Placed' \cup refused
          BY <2>0, <2>2, <2>3 DEF PackInv
    <3>. QED BY <2>0, <2>1, <2>2, <3>1, <3>2, SamplerAssumption DEF PackInv
  <2>4. CASE ~(failed = {} \/ current = {})
    <3>1. at' = "pack" /\ todo' = failed BY <1>7, <2>4 DEF SaveProfile
    <3>2. Placed' \cap todo' = {} BY <2>0, <2>2, <3>1 DEF PackInv
    <3>3. \A p \in Positions : metrics[p] \in supported => p \in Placed' \cup todo'
          BY <2>0, <2>2, <3>1 DEF PackInv
    <3>. QED BY <2>0, <2>1, <2>2, <3>1, <3>2, <3>3, SamplerAssumption DEF PackInv
  <2>. QED BY <2>3, <2>4
<1>8. CASE UNCHANGED samplerVars BY <1>a, <1>8 DEF samplerVars
<1>. QED BY <1>1, <1>2, <1>3, <1>4, <1>5, <1>6, <1>7, <1>8, Zenon
         DEF SamplerNext, rocpctl, create_profiles_for_counters, sample_profile

(* Positions of counter c in the profiles before the n-th, and whether the *)
(* n-th itself counts as sampled yet.                                      *)
Sampled(n, c) ==
    {p \in Positions : /\ metrics[p] = c
                       /\ \E i \in DOMAIN profiles : i < n /\ p \in profiles[i].config}

Upto == IF at = "stop" THEN nth + 1 ELSE nth

(* The sampling loop: with no failed call so far, what the context         *)
(* measures is the profile at hand, every counter of the profiles done has *)
(* a value, and it adds up no more windows than it has positions in them.  *)
SampleInv ==
    /\ at = "pack" => nth = 1 /\ values = Zero
    /\ at \in {"sample", "stop"} => nth \in DOMAIN profiles
    /\ sound /\ at \in {"sample", "stop"} => active = profiles[nth].config
    /\ sound /\ at \in {"start", "sample", "stop"} =>
         /\ \A i \in DOMAIN profiles : i < Upto =>
               \A p \in profiles[i].config : values[metrics[p]] >= 1
         /\ \A c \in Counters : values[c] <= Cardinality(Sampled(Upto, c))

(* One more profile: a counter that it measures gains a position.          *)
LEMMA WindowCounts ==
    ASSUME SamplerTypeOK, ProfilesDisjoint, nth \in DOMAIN profiles,
           NEW c \in Counters
    PROVE  /\ Cardinality(Sampled(nth, c)) \in Nat
           /\ Cardinality(Sampled(nth + 1, c)) \in Nat
           /\ Cardinality(Sampled(nth, c)) <= Cardinality(Sampled(nth + 1, c))
           /\ c \in {metrics[p] : p \in profiles[nth].config} =>
                 Cardinality(Sampled(nth, c)) + 1 <= Cardinality(Sampled(nth + 1, c))
<1>. DEFINE S == Sampled(nth, c)
            T == Sampled(nth + 1, c)
<1>0. profiles \in Seq(Profile) /\ nth \in Nat \ {0} BY DEF SamplerTypeOK
<1>1. DOMAIN profiles \subseteq Nat BY <1>0
<1>2. IsFiniteSet(Positions) BY RequestFacts
<1>3. S \subseteq T /\ T \subseteq Positions BY <1>0, <1>1 DEF Sampled
<1>4. IsFiniteSet(S) /\ IsFiniteSet(T) BY <1>2, <1>3, FS_Subset
<1>5. Cardinality(S) \in Nat /\ Cardinality(T) \in Nat BY <1>4, FS_CardinalityType
<1>6. Cardinality(S) <= Cardinality(T) BY <1>3, <1>4, FS_Subset
<1>7. ASSUME c \in {metrics[p] : p \in profiles[nth].config}
      PROVE  Cardinality(S) + 1 <= Cardinality(T)
  <2>1. PICK p \in profiles[nth].config : metrics[p] = c BY <1>7
  <2>2. profiles[nth] \in Profile BY <1>0, SeqFacts
  <2>3. p \in Positions BY <2>1, <2>2 DEF Profile
  <2>4. p \in T BY <1>0, <2>1, <2>3 DEF Sampled
  <2>5. p \notin S BY <1>0, <1>1, <2>1 DEF Sampled, ProfilesDisjoint
  <2>6. Cardinality(S \cup {p}) = Cardinality(S) + 1 BY <1>4, <2>5, FS_AddElement, Zenon
  <2>7. S \cup {p} \subseteq T BY <1>3, <2>4
  <2>8. Cardinality(S \cup {p}) <= Cardinality(T) BY <1>4, <2>7, FS_Subset
  <2>. QED BY <2>6, <2>8
<1>. QED BY <1>5, <1>6, <1>7

(* Every step preserves it.                                                *)
LEMMA SampleStep ==
    SamplerTypeOK /\ PackInv /\ SampleInv /\ [SamplerNext]_samplerVars => SampleInv'
<1>. SUFFICES ASSUME SamplerTypeOK, PackInv, SampleInv, [SamplerNext]_samplerVars
              PROVE  SampleInv'
     OBVIOUS
<1>. USE RequestFixed
<1>1. CASE tool_init \/ parse_args \/ KeepReading \/ PrintReading \/ ReturnZero \/ Killed
  <2>1. at' \in {"args", "gpu", "print", "done"}
        BY <1>1 DEF tool_init, parse_args, KeepReading, PrintReading, ReturnZero,
                    Killed, Ends
  <2>. QED BY <2>1 DEF SampleInv
<1>2. CASE get_supported_counters
  <2>1. at' \in {"pack", "done"} /\ nth' = 1 /\ values' = Zero
        BY <1>2 DEF get_supported_counters, Ends
  <2>. QED BY <2>1 DEF SampleInv
<1>3. ASSUME NEW p \in todo, SkipUnsupported(p) \/ AddCounter(p) \/ RejectCounter(p)
      PROVE  SampleInv'
  <2>1. at = "pack" /\ at' = "pack" /\ UNCHANGED <<nth, values>>
        BY <1>3, Zenon DEF SkipUnsupported, AddCounter, RejectCounter, sampling
  <2>. QED BY <2>1, Zenon DEF SampleInv
<1>4. CASE SaveProfile
  <2>1. at' \in {"pack", "start"} /\ nth' = 1 /\ values' = Zero
        BY <1>4, Zenon DEF SaveProfile, sampling, SampleInv
  <2>2. DOMAIN profiles' \subseteq Nat \ {0}
        BY SamplerTypeStep DEF SamplerTypeOK
  <2>3. Upto' = 1 BY <2>1 DEF Upto
  <2>4. ASSUME NEW c \in Counters
        PROVE  values'[c] <= Cardinality(Sampled(Upto, c)')
    <3>1. Sampled(Upto, c)' \subseteq Positions BY DEF Sampled
    <3>2. Cardinality(Sampled(Upto, c)') \in Nat
          BY <3>1, RequestFacts, FS_Subset, FS_CardinalityType
    <3>. QED BY <2>1, <3>2 DEF Zero
  <2>5. ASSUME NEW i \in DOMAIN profiles', i < Upto' PROVE FALSE BY <2>2, <2>3, <2>5
  <2>6. at' \notin {"sample", "stop"} /\ (at' = "pack" => nth' = 1 /\ values' = Zero)
        BY <2>1
  <2>. QED BY <2>4, <2>5, <2>6, Zenon DEF SampleInv
<1>5. CASE start_context
  <2>1. /\ at = "start" /\ at' = "sample" /\ UNCHANGED <<profiles, nth, values>>
        /\ nth \in DOMAIN profiles
        /\ sound' => sound /\ active' = profiles[nth].config
        BY <1>5 DEF start_context, SamplerTypeOK
  <2>2. Upto' = nth /\ Upto = nth BY <2>1 DEF Upto
  <2>3. \A c \in Counters : Sampled(Upto, c)' = Sampled(Upto, c)
        BY <2>1, <2>2 DEF Sampled
  <2>. QED BY <2>1, <2>2, <2>3 DEF SampleInv
<1>6. CASE sample_device_counting_service
  <2>. DEFINE measured == {metrics[p] : p \in active}
  <2>1. /\ at = "sample" /\ at' = "stop" /\ UNCHANGED <<profiles, nth, active>>
        /\ nth \in DOMAIN profiles
        BY <1>6 DEF sample_device_counting_service, SampleInv
  <2>2. Upto' = nth + 1 /\ Upto = nth BY <2>1 DEF Upto
  <2>3. SUFFICES ASSUME sound' PROVE SampleInv' BY <2>1, Zenon DEF SampleInv
  <2>4. /\ sound
        /\ values' = [c \in Counters |-> IF c \in measured THEN values[c] + 1 ELSE values[c]]
        BY <1>6, <2>3, Zenon DEF sample_device_counting_service
  <2>5. active = profiles[nth].config BY <2>1, <2>4 DEF SampleInv
  <2>6. ASSUME NEW c \in Counters PROVE values'[c] <= Cardinality(Sampled(Upto, c)')
    <3>1. Sampled(Upto, c)' = Sampled(nth + 1, c) BY <2>1, <2>2 DEF Sampled
    <3>2. values[c] <= Cardinality(Sampled(nth, c)) BY <2>1, <2>2, <2>4 DEF SampleInv
    <3>3. values[c] \in Nat BY DEF SamplerTypeOK
    <3>4. ProfilesDisjoint BY DEF PackInv
    <3>. QED BY <2>1, <2>4, <2>5, <3>1, <3>2, <3>3, <3>4, WindowCounts
  <2>7. ASSUME NEW i \in DOMAIN profiles, i < nth + 1, NEW p \in profiles[i].config
        PROVE  values'[metrics[p]] >= 1
    <3>1. profiles[i] \in Profile /\ i \in Nat /\ nth \in Nat
          BY SeqFacts DEF SamplerTypeOK
    <3>2. p \in Positions /\ metrics[p] \in Counters
          BY <3>1, RequestFacts DEF Profile
    <3>3. values[metrics[p]] \in Nat BY <3>2 DEF SamplerTypeOK
    <3>4. CASE i = nth
      <4>1. metrics[p] \in measured BY <2>5, <3>4
      <4>. QED BY <2>4, <3>2, <3>3, <4>1
    <3>5. CASE i < nth
      <4>1. values[metrics[p]] >= 1 BY <2>1, <2>2, <2>4, <3>5 DEF SampleInv
      <4>. QED BY <2>4, <3>2, <3>3, <4>1
    <3>. QED BY <2>7, <3>1, <3>4, <3>5
  <2>. QED BY <2>1, <2>2, <2>4, <2>5, <2>6, <2>7 DEF SampleInv
<1>7. CASE stop_context
  <2>1. /\ at = "stop" /\ at' = "start" /\ UNCHANGED <<profiles, values>>
        /\ nth' = nth + 1
        /\ sound' => sound
        BY <1>7 DEF stop_context
  <2>2. Upto' = nth + 1 /\ Upto = nth + 1 BY <2>1 DEF Upto
  <2>3. \A c \in Counters : Sampled(Upto, c)' = Sampled(Upto, c)
        BY <2>1, <2>2 DEF Sampled
  <2>. QED BY <2>1, <2>2, <2>3 DEF SampleInv
<1>8. CASE UNCHANGED samplerVars
  <2>1. UNCHANGED <<at, profiles, nth, active, values, sound, Upto>>
        BY <1>8 DEF samplerVars, sampling, Upto
  <2>2. \A c \in Counters : Sampled(Upto, c)' = Sampled(Upto, c) BY <2>1 DEF Sampled
  <2>. QED BY <2>1, <2>2 DEF SampleInv
<1>. QED BY <1>1, <1>2, <1>3, <1>4, <1>5, <1>6, <1>7, <1>8, Zenon
         DEF SamplerNext, rocpctl, create_profiles_for_counters, sample_profile

(* What the exporter gets: the loop over the GPUs, the print loop and the  *)
(* end of the process; without a failed call no counter of a reading adds  *)
(* up more windows than the request has positions for it.                  *)
ReportInv ==
    /\ exit = "running" <=> at # "done"
    /\ at = "load" => agents = 0
    /\ at \in {"load", "args"} => gpu = 1 /\ sampled_values = <<>>
    /\ at \notin {"print", "done"} => printed = 0
    /\ at \in {"gpu", "pack", "start", "sample", "stop"} =>
         gpu <= agents /\ Len(sampled_values) = gpu - 1
    /\ at = "print" => Len(sampled_values) = agents
    /\ printed <= Len(sampled_values)
    /\ sound => \A i \in DOMAIN sampled_values : \A c \in Counters :
          sampled_values[i][c] <= Cardinality({p \in Positions : metrics[p] = c})

(* Every step preserves it.                                                *)
LEMMA ReportStep ==
    /\ SamplerTypeOK /\ PackInv /\ SampleInv /\ ReportInv
    /\ [SamplerNext]_samplerVars
    => ReportInv'
<1>. SUFFICES ASSUME SamplerTypeOK, PackInv, SampleInv, ReportInv,
                     [SamplerNext]_samplerVars
              PROVE  ReportInv'
     OBVIOUS
<1>. USE RequestFixed
<1>1. CASE tool_init BY <1>1 DEF tool_init, ReportInv, Ends, results, SamplerTypeOK
<1>2. CASE parse_args BY <1>2 DEF parse_args, ReportInv, Ends, process, results, SamplerTypeOK
<1>3. CASE get_supported_counters
      BY <1>3 DEF get_supported_counters, ReportInv, Ends, process, results
<1>4. ASSUME NEW p \in todo, SkipUnsupported(p) \/ AddCounter(p) \/ RejectCounter(p)
      PROVE  ReportInv'
  <2>1. UNCHANGED <<at, exit, process, results, sound>>
        BY <1>4, Zenon DEF SkipUnsupported, AddCounter, RejectCounter
  <2>. QED BY <2>1 DEF ReportInv, process, results
<1>5. CASE SaveProfile BY <1>5 DEF SaveProfile, ReportInv, process, results
<1>6. CASE start_context BY <1>6 DEF start_context, ReportInv, process, results
<1>7. CASE sample_device_counting_service
  <2>1. /\ at = "sample" /\ at' = "stop" /\ UNCHANGED <<exit, process, results>>
        /\ sound' => sound
        BY <1>7, Zenon DEF sample_device_counting_service
  <2>. QED BY <2>1 DEF ReportInv, process, results
<1>8. CASE stop_context BY <1>8 DEF stop_context, ReportInv, process, results
<1>9. CASE KeepReading
  <2>1. /\ at = "start" /\ sampled_values' = Append(sampled_values, values)
        /\ gpu' = gpu + 1 /\ UNCHANGED <<exit, agents, printed, sound>>
        /\ at' = IF gpu < agents THEN "gpu" ELSE "print"
        BY <1>9 DEF KeepReading, process
  <2>2. /\ sampled_values \in Seq([Counters -> Nat]) /\ values \in [Counters -> Nat]
        /\ gpu \in Nat /\ agents \in Nat
        BY SamplerAssumption DEF SamplerTypeOK
  <2>3. /\ Len(sampled_values') = Len(sampled_values) + 1 /\ Len(sampled_values) \in Nat
        /\ DOMAIN sampled_values' = 1..(Len(sampled_values) + 1)
        /\ DOMAIN sampled_values = 1..Len(sampled_values)
        /\ \A i \in DOMAIN sampled_values : sampled_values'[i] = sampled_values[i]
        /\ sampled_values'[Len(sampled_values) + 1] = values
        BY ONLY <2>1, <2>2, AppendProperties
  <2>4. ASSUME sound, NEW c \in Counters
        PROVE  values[c] <= Cardinality({p \in Positions : metrics[p] = c})
    <3>. DEFINE S == Sampled(Upto, c)
                T == {p \in Positions : metrics[p] = c}
    <3>1. values[c] <= Cardinality(S) BY <2>1, <2>4, Zenon DEF SampleInv
    <3>2. S \subseteq T /\ T \subseteq Positions BY DEF Sampled
    <3>3. IsFiniteSet(T) BY <3>2, RequestFacts, FS_Subset
    <3>4. IsFiniteSet(S) /\ Cardinality(S) <= Cardinality(T) BY <3>2, <3>3, FS_Subset
    <3>5. Cardinality(S) \in Nat /\ Cardinality(T) \in Nat
          BY <3>3, <3>4, FS_CardinalityType
    <3>6. values[c] \in Nat BY <2>2
    <3>. QED BY <3>1, <3>4, <3>5, <3>6
  <2>5. sound' => \A i \in DOMAIN sampled_values' : \A c \in Counters :
          sampled_values'[i][c] <= Cardinality({p \in Positions : metrics[p] = c})
        BY <2>1, <2>3, <2>4 DEF ReportInv
  <2>6. /\ gpu <= agents /\ Len(sampled_values) = gpu - 1 /\ printed = 0
        /\ exit = "running"
        BY <2>1 DEF ReportInv
  <2>7. /\ at' \in {"gpu", "print"} /\ exit' = "running" /\ printed' = 0
        /\ printed' <= Len(sampled_values')
        BY <2>1, <2>3, <2>6
  <2>8. at' = "gpu" => gpu' <= agents' /\ Len(sampled_values') = gpu' - 1
        BY <2>1, <2>2, <2>3, <2>6
  <2>9. at' = "print" => Len(sampled_values') = agents' BY <2>1, <2>2, <2>3, <2>6
  <2>. QED BY <2>5, <2>7, <2>8, <2>9 DEF ReportInv
<1>10. CASE PrintReading BY <1>10 DEF PrintReading, ReportInv, process, SamplerTypeOK
<1>11. CASE ReturnZero \/ Killed
  <2>1. at' = "done" /\ exit' # "running" /\ UNCHANGED <<process, results, sound>>
        BY <1>11 DEF ReturnZero, Killed, Ends
  <2>. QED BY <2>1 DEF ReportInv, process, results
<1>12. CASE UNCHANGED samplerVars
       BY <1>12, Zenon DEF samplerVars, ReportInv, process, results
<1>. QED BY <1>1, <1>2, <1>3, <1>4, <1>5, <1>6, <1>7, <1>8, <1>9, <1>10, <1>11, <1>12, Zenon
         DEF SamplerNext, rocpctl, create_profiles_for_counters, sample_profile

SamplerInv == SamplerTypeOK /\ PackInv /\ SampleInv /\ ReportInv

(* The four together are inductive.                                        *)
LEMMA SamplerInduction == SamplerSpec => []SamplerInv
<1>1. SamplerInit => SamplerInv
  <2>. SUFFICES ASSUME SamplerInit PROVE SamplerInv OBVIOUS
  <2>1. SamplerTypeOK
        BY SamplerAssumption DEF SamplerInit, SamplerTypeOK, Zero
  <2>2. Cardinality({}) = 0 BY FS_EmptySet
  <2>3. PackInv
        BY <2>2, SamplerAssumption
        DEF SamplerInit, PackInv, ProfilesDisjoint
  <2>4. SampleInv /\ ReportInv BY DEF SamplerInit, SampleInv, ReportInv
  <2>. QED BY <2>1, <2>3, <2>4 DEF SamplerInv
<1>2. SamplerInv /\ [SamplerNext]_samplerVars => SamplerInv'
      BY SamplerTypeStep, PackStep, SampleStep, ReportStep DEF SamplerInv
<1>. QED BY <1>1, <1>2, PTL DEF SamplerSpec

(* Type correctness of the program.                                        *)
THEOREM SamplerTypeCorrect == SamplerSpec => []SamplerTypeOK
<1>1. SamplerInv => SamplerTypeOK BY DEF SamplerInv
<1>. QED BY <1>1, SamplerInduction, PTL

(* sample_counters_with_packing: for any counters and any limit, a counter *)
(* that is named once adds up one window, however many profiles there are. *)
THEOREM NamedOnceSampledOnce == SamplerSpec => []OnceIfNamedOnce
<1>1. SamplerInv => OnceIfNamedOnce
  <2>. SUFFICES ASSUME SamplerInv, sound,
                       \A p, q \in Positions : metrics[p] = metrics[q] => p = q,
                       NEW i \in DOMAIN sampled_values, NEW c \in Counters
                PROVE  sampled_values[i][c] <= 1
       BY DEF OnceIfNamedOnce, SampledOnce
  <2>. DEFINE T == {p \in Positions : metrics[p] = c}
  <2>1. sampled_values[i][c] <= Cardinality(T) BY DEF SamplerInv, ReportInv
  <2>2. sampled_values[i][c] \in Nat BY DEF SamplerInv, SamplerTypeOK
  <2>3. T = {} \/ \E p : T = {p} OBVIOUS
  <2>4. Cardinality(T) = 0 \/ Cardinality(T) = 1 BY <2>3, FS_EmptySet, FS_Singleton
  <2>. HIDE DEF T
  <2>. QED BY <2>1, <2>2, <2>4
<1>. QED BY <1>1, SamplerInduction, PTL

(* create_profiles_for_counters: for any counters, limit and answers of    *)
(* the SDK, a profile measures what it lists, within the limit, and no     *)
(* argument is measured by two.                                            *)
THEOREM PackingIsDisjoint == SamplerSpec => []ProfilesDisjoint
<1>1. SamplerInv => ProfilesDisjoint BY DEF SamplerInv, PackInv
<1>. QED BY <1>1, SamplerInduction, PTL

(* create_profiles_for_counters, sample_counters_with_packing: a supported *)
(* counter goes unmeasured only if the SDK refused it on its own.          *)
THEOREM NoCounterLost == SamplerSpec => []MissingOnlyIfRefused
<1>1. SamplerInv => MissingOnlyIfRefused
  <2>. SUFFICES ASSUME SamplerInv, at = "start", nth > Len(profiles), sound,
                       NEW p \in Positions, metrics[p] \in supported,
                       values[metrics[p]] = 0, p \notin refused
                PROVE  FALSE
       BY DEF MissingOnlyIfRefused
  <2>1. p \in Placed BY DEF SamplerInv, PackInv
  <2>2. PICK i \in DOMAIN profiles : p \in profiles[i].counter_names
        BY <2>1 DEF Placed
  <2>3. p \in profiles[i].config BY <2>2 DEF SamplerInv, PackInv, ProfilesDisjoint
  <2>4. profiles \in Seq(Profile) /\ nth \in Nat BY DEF SamplerInv, SamplerTypeOK
  <2>5. i < nth BY <2>4
  <2>. QED BY <2>3, <2>5 DEF SamplerInv, SampleInv, Upto
<1>. QED BY <1>1, SamplerInduction, PTL

(* The first readings of a sequence of them.                               *)
LEMMA Prefixes ==
    ASSUME NEW S, NEW s \in Seq(S), NEW n \in 0..Len(s)
    PROVE  /\ Len(SubSeq(s, 1, n)) = n
           /\ n = 0 => SubSeq(s, 1, n) = <<>>
           /\ n < Len(s) => /\ Len(SubSeq(s, 1, n + 1)) = n + 1
                            /\ SubSeq(SubSeq(s, 1, n + 1), 1, n) = SubSeq(s, 1, n)
                            /\ SubSeq(s, 1, n + 1)[n + 1] = s[n + 1]
<1>. QED OBVIOUS

(* A step of the program is a step that the contract allows, or none.      *)
LEMMA ContractStep ==
    SamplerInv /\ [SamplerNext]_samplerVars
      => [Contract!ContractNext]_<<Asked, agents, Printed, sound, exit>>
<1>. SUFFICES ASSUME SamplerInv, [SamplerNext]_samplerVars
              PROVE  \/ Contract!ContractNext
                     \/ UNCHANGED <<Asked, agents, Printed, sound, exit>>
     OBVIOUS
<1>. USE RequestFixed
<1>. Asked' = Asked BY DEF Asked
<1>a. /\ SamplerTypeOK /\ ReportInv
      /\ sampled_values \in Seq([Counters -> Nat]) /\ printed \in 0..Len(sampled_values)
      /\ agents \in Nat
  <2>1. SamplerTypeOK /\ ReportInv BY DEF SamplerInv
  <2>2. /\ sampled_values \in Seq([Counters -> Nat]) /\ printed \in Nat
        /\ agents \in 0..MaxAgents
        BY <2>1 DEF SamplerTypeOK
  <2>3. printed <= Len(sampled_values) BY <2>1 DEF ReportInv
  <2>4. agents \in Nat BY <2>2, SamplerAssumption
  <2>. QED BY ONLY <2>1, <2>2, <2>3, <2>4
<1>b. Len(Printed) = printed /\ (printed = 0 => Printed = <<>>) BY <1>a, Prefixes DEF Printed
<1>c. at \notin {"print", "done"} => exit = "running" /\ Printed = <<>>
      BY <1>a, <1>b DEF ReportInv
<1>d. UNCHANGED <<sampled_values, printed>> => UNCHANGED Printed BY DEF Printed
<1>1. CASE tool_init
  <2>1. CASE agents' \in 0..MaxAgents /\ UNCHANGED exit
    <3>1. agents = 0 /\ agents' \in Nat /\ UNCHANGED <<Asked, Printed, sound, exit>>
          BY <1>1, <1>a, <1>d, <2>1, SamplerAssumption
          DEF tool_init, ReportInv, results
    <3>. QED BY <1>1, <1>c, <3>1
         DEF tool_init, Contract!ContractNext, Contract!Discover
  <2>2. CASE exit' \in {"failed", "died"} /\ UNCHANGED agents
    <3>1. UNCHANGED <<Asked, Printed, sound>> BY <1>1, <1>d DEF tool_init, results
    <3>. QED BY <1>1, <1>c, <2>2, <3>1
         DEF tool_init, Contract!ContractNext, Contract!Fail, Contract!Die
  <2>. QED BY <1>1, <2>1, <2>2 DEF tool_init, Ends
<1>2. CASE parse_args
  <2>1. /\ UNCHANGED <<Asked, agents, Printed, sound>> /\ at = "args"
        /\ exit' = exit \/ exit' \in {"usage", "failed"}
        BY <1>2, <1>d DEF parse_args, Ends, process, results
  <2>. QED BY <1>c, <2>1 DEF Contract!ContractNext, Contract!Fail
<1>3. CASE get_supported_counters
  <2>1. /\ UNCHANGED <<Asked, agents, Printed, sound>> /\ at = "gpu"
        /\ exit' = exit \/ exit' = "failed"
        BY <1>3, <1>d DEF get_supported_counters, Ends, process, results
  <2>. QED BY <1>c, <2>1 DEF Contract!ContractNext, Contract!Fail
<1>4. ASSUME NEW p \in todo, SkipUnsupported(p) \/ AddCounter(p) \/ RejectCounter(p)
      PROVE  UNCHANGED <<Asked, agents, Printed, sound, exit>>
      BY <1>4, <1>d, Zenon DEF SkipUnsupported, AddCounter, RejectCounter, process, results
<1>5. CASE SaveProfile BY <1>5, <1>d DEF SaveProfile, process, results
<1>6. CASE start_context \/ sample_device_counting_service \/ stop_context
  <2>1. /\ UNCHANGED <<Asked, agents, Printed, exit>>
        /\ at \in {"start", "sample", "stop"}
        BY <1>6, <1>d, Zenon
        DEF start_context, sample_device_counting_service, stop_context,
            process, results
  <2>2. sound' = sound \/ sound' = FALSE
        BY <1>6, <1>a, Zenon
        DEF start_context, sample_device_counting_service, stop_context,
            SamplerTypeOK
  <2>. QED BY <1>c, <2>1, <2>2 DEF Contract!ContractNext, Contract!Disturb
<1>7. CASE KeepReading
  <2>1. /\ UNCHANGED <<Asked, agents, sound, exit, printed>> /\ at = "start"
        BY <1>7 DEF KeepReading, process
  <2>2. printed = 0 /\ Printed = <<>> BY <1>a, <1>b, <2>1, Zenon DEF ReportInv
  <2>3. Printed' = <<>> BY <2>1, <2>2, SubSeqEmpty DEF Printed
  <2>. QED BY <2>1, <2>2, <2>3
<1>8. CASE PrintReading
  <2>1. /\ at = "print" /\ printed < agents /\ printed' = printed + 1
        /\ UNCHANGED <<Asked, agents, sound, exit, sampled_values>>
        BY <1>8 DEF PrintReading, process
  <2>2. exit = "running" /\ Len(sampled_values) = agents BY <1>a, <2>1 DEF ReportInv
  <2>3. Printed' = SubSeq(sampled_values, 1, printed + 1) BY <2>1 DEF Printed
  <2>4. /\ Len(Printed') = Len(Printed) + 1 /\ SubSeq(Printed', 1, Len(Printed)) = Printed
        /\ Printed'[Len(Printed) + 1] = sampled_values[printed + 1]
        BY ONLY <1>a, <1>b, <2>1, <2>2, <2>3, Prefixes DEF Printed
  <2>5. /\ printed + 1 \in DOMAIN sampled_values
        /\ DOMAIN sampled_values[printed + 1] = Counters
        BY <1>a, <2>1, <2>2
  <2>6. sound => Contract!Faithful(Printed'[Len(Printed) + 1])
    <3>1. sound => \A c \in Counters : sampled_values[printed + 1][c] <= Asked[c]
          BY <1>a, <2>5 DEF ReportInv, Asked
    <3>2. sound => Contract!Faithful(sampled_values[printed + 1])
          BY <2>5, <3>1 DEF Contract!Faithful
    <3>. QED BY <2>4, <3>2
  <2>7. Contract!Write
        BY <1>b, <2>1, <2>2, <2>4, <2>6 DEF Contract!Write
  <2>. QED BY <2>7 DEF Contract!ContractNext
<1>9. CASE ReturnZero
  <2>1. /\ at = "print" /\ printed = agents /\ exit' = "answered"
        /\ UNCHANGED <<Asked, agents, Printed, sound>>
        BY <1>9, <1>d DEF ReturnZero, Ends, process, results
  <2>2. exit = "running" BY <1>a, <2>1 DEF ReportInv
  <2>. QED BY <1>b, <2>1, <2>2 DEF Contract!ContractNext, Contract!Answer
<1>10. CASE Killed
       BY <1>10, <1>d DEF Killed, Ends, process, results,
                         Contract!ContractNext, Contract!Die
<1>11. CASE UNCHANGED samplerVars
       BY <1>11, <1>d DEF samplerVars, process, results
<1>. QED BY <1>1, <1>2, <1>3, <1>4, <1>5, <1>6, <1>7, <1>8, <1>9, <1>10, <1>11, Zenon
         DEF SamplerNext, rocpctl, create_profiles_for_counters, sample_profile

(* rocpctl implements its contract: for any GPUs, request and answers of   *)
(* the SDK it answers with every reading or fails without one, and adds    *)
(* up no counter more often than it was asked for.                         *)
THEOREM ProgramKeepsContract == SamplerSpec => KeepsContract
<1>1. SamplerInit => Contract!ContractInit
      BY SubSeqEmpty DEF SamplerInit, Printed, Contract!ContractInit
<1>. QED BY <1>1, ContractStep, SamplerInduction, PTL
         DEF SamplerSpec, KeepsContract, Contract!ContractSpec
=============================================================================
