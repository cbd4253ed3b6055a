------------------------- MODULE HealthChecksProofs -------------------------
(* What a health poll finds, for any GPUs, thresholds, records and ages:   *)
(* latestCPERPerGPU selects the latest record of every device, and nothing *)
(* makes a GPU unhealthy but a fault of its own.                           *)
EXTENDS HealthChecks, TLAPS

(* The selection's variables: their types, and that they are reset between *)
(* two selections.                                                         *)
SelectType ==
    /\ snap \in Seq(Records) /\ i \in Nat \ {0} /\ i <= Len(snap) + 1
    /\ latest \in [Devices -> 0..Len(snap)]
    /\ pc \in {"idle", "events", "cper"} => i = 1 /\ latest = None
CacheType == CacheGood => cache[1].recs \in Seq(Records)
LogType   == log \in Seq(Records) /\ now \in 0..MaxTime
SelectInv == SelectType /\ CacheType /\ LogType /\ LatestCorrect

(* The agent's records and the cached ones stay records.                   *)
LEMMA LogKeeps ==
    ASSUME SelectInv, [Next]_vars
    PROVE  LogType' /\ CacheType'
<1> USE DEF SelectInv, LogType, CacheType, CacheGood
<1>1. CASE RecordLogged
  <2>1. PICK d \in Devices, t \in 0..now, f \in BOOLEAN :
          log' = Append(log, [gpu |-> d, ts |-> t, fatal |-> f])
    BY <1>1 DEF RecordLogged
  <2>2. [gpu |-> d, ts |-> t, fatal |-> f] \in Records
    BY <2>1, ChecksAssumption DEF Records
  <2> QED BY <1>1, <2>1, <2>2 DEF RecordLogged
<1>2. CASE Refresh
  BY <1>2 DEF Refresh, Answer, agent
<1>3. CASE Tick
  BY <1>3, ChecksAssumption DEF Tick
<1>4. CASE EccGrows \/ CriticalEvent \/ AgentChanges \/ SetError
  BY <1>4 DEF EccGrows, CriticalEvent, AgentChanges, SetError
<1>5. CASE Poll
  BY <1>5 DEF Poll, CheckEcc, CheckEvents, ReadCper, SelectRecord, Judge, Publish, agent
<1>6. CASE UNCHANGED vars
  BY <1>6 DEF vars, agent
<1> QED BY <1>1, <1>2, <1>3, <1>4, <1>5, <1>6 DEF Next

(* One turn of the loop, for a device the record is not of.                *)
LEMMA OtherDevice ==
    ASSUME NEW s \in Seq(Records), NEW n \in Nat, n + 1 <= Len(s),
           NEW d, s[n + 1].gpu # d
    PROVE  /\ OfDevice(s, n + 1, d) = OfDevice(s, n, d)
           /\ Timed(s, n + 1, d) = Timed(s, n, d)
<1>1. 1..(n + 1) = (1..n) \cup {n + 1}
  OBVIOUS
<1> QED BY <1>1 DEF OfDevice, Timed

(* One turn of the loop, for the device the record is of.                  *)
LEMMA SameDevice ==
    ASSUME NEW s \in Seq(Records), NEW n \in Nat, n + 1 <= Len(s)
    PROVE  LET d == s[n + 1].gpu IN
           /\ OfDevice(s, n + 1, d) = OfDevice(s, n, d) \cup {n + 1}
           /\ Timed(s, n + 1, d) =
                IF s[n + 1].ts # 0 THEN Timed(s, n, d) \cup {n + 1} ELSE Timed(s, n, d)
<1>1. 1..(n + 1) = (1..n) \cup {n + 1}
  OBVIOUS
<1> QED BY <1>1 DEF OfDevice, Timed

(* The first record of a device is its latest.                             *)
LEMMA FirstIsLatest ==
    ASSUME NEW s \in Seq(Records), NEW n \in Nat, n + 1 <= Len(s),
           OfDevice(s, n, s[n + 1].gpu) = {}
    PROVE  IsLatest(s, n + 1, s[n + 1].gpu, n + 1)
<1>1. Timed(s, n, s[n + 1].gpu) = {}
  BY DEF Timed
<1>2. s[n + 1] \in Records
  OBVIOUS
<1> DEFINE d == s[n + 1].gpu
<1>3. /\ OfDevice(s, n + 1, d) = {n + 1}
      /\ Timed(s, n + 1, d) = IF s[n + 1].ts # 0 THEN {n + 1} ELSE {}
  BY <1>1, SameDevice
<1>4. s[n + 1].ts \in Nat /\ n + 1 \in Nat
  BY <1>2 DEF Records
<1> HIDE DEF d
<1>5. IsLatest(s, n + 1, d, n + 1)
  BY <1>3, <1>4 DEF IsLatest
<1> QED BY <1>5 DEF d

(* The rule by which a record replaces the one kept so far keeps the       *)
(* latest one.                                                             *)
LEMMA KeepsLatest ==
    ASSUME NEW s \in Seq(Records), NEW n \in Nat, n + 1 <= Len(s), NEW j,
           IsLatest(s, n, s[n + 1].gpu, j)
    PROVE  IsLatest(s, n + 1, s[n + 1].gpu,
                    IF Supersedes(s[n + 1], s[j]) THEN n + 1 ELSE j)
<1> DEFINE d == s[n + 1].gpu
           O == OfDevice(s, n, d)
           T == Timed(s, n, d)
<1>1. /\ OfDevice(s, n + 1, d) = O \cup {n + 1}
      /\ Timed(s, n + 1, d) = IF s[n + 1].ts # 0 THEN T \cup {n + 1} ELSE T
  BY SameDevice
<1>2. /\ j \in O
      /\ T = {} => \A k \in O : k <= j
      /\ T # {} => /\ j \in T
                   /\ \A k \in T : s[k].ts < s[j].ts \/ (s[k].ts = s[j].ts /\ j <= k)
  BY DEF IsLatest
<1>3. /\ \A k \in O : k \in 1..n /\ s[k].ts \in Nat
      /\ s[n + 1].ts \in Nat /\ T \subseteq O /\ \A k \in O : k \in T <=> s[k].ts # 0
  <2>1. \A k \in 1..(n + 1) : s[k] \in Records
    OBVIOUS
  <2> QED BY <2>1 DEF OfDevice, Timed, Records
<1> HIDE DEF d, O, T
<1>4. CASE s[n + 1].ts # 0 /\ (s[j].ts = 0 \/ s[n + 1].ts > s[j].ts)
  <2>1. \A k \in T : s[k].ts < s[n + 1].ts
    BY <1>2, <1>3, <1>4
  <2>2. IsLatest(s, n + 1, d, n + 1)
    BY <1>1, <1>3, <1>4, <2>1 DEF IsLatest
  <2> QED BY <1>4, <2>2 DEF Supersedes, d
<1>5. CASE s[n + 1].ts = 0 /\ s[j].ts = 0
  <2>1. T = {}
    BY <1>2, <1>3, <1>5
  <2>2. IsLatest(s, n + 1, d, n + 1)
    BY <1>1, <1>3, <1>5, <2>1 DEF IsLatest
  <2> QED BY <1>5, <2>2 DEF Supersedes, d
<1>6. CASE s[j].ts # 0 /\ (s[n + 1].ts # 0 => s[n + 1].ts <= s[j].ts)
  <2>1. j \in T /\ j <= n + 1
    BY <1>2, <1>3, <1>6
  <2>2. ~Supersedes(s[n + 1], s[j])
    BY <1>2, <1>3, <1>6 DEF Supersedes
  <2>3. IsLatest(s, n + 1, d, j)
    BY <1>1, <1>2, <1>3, <1>6, <2>1 DEF IsLatest
  <2> QED BY <2>2, <2>3 DEF d
<1> QED BY <1>2, <1>3, <1>4, <1>5, <1>6

(* A turn of the loop keeps the selection correct.                         *)
LEMMA SelectKeeps ==
    ASSUME SelectInv, SelectRecord
    PROVE  SelectType' /\ LatestCorrect'
<1> DEFINE n == i - 1
           d == snap[i].gpu
<1>1. /\ pc = "select" /\ pc' = pc /\ snap' = snap /\ i' = i + 1
      /\ latest' = IF latest[d] = 0 \/ Supersedes(snap[i], snap[latest[d]])
                   THEN [latest EXCEPT ![d] = i] ELSE latest
      /\ i <= Len(snap)
  BY DEF SelectRecord
<1>2. /\ n \in Nat /\ n + 1 = i /\ i' - 1 = n + 1 /\ n + 1 <= Len(snap)
      /\ snap \in Seq(Records)
  BY <1>1 DEF SelectInv, SelectType
<1>3. snap[i] \in Records
  BY <1>1, <1>2
<1>4. d \in Devices
  BY <1>3 DEF Records
<1>5. latest \in [Devices -> 0..Len(snap)] /\ i \in 0..Len(snap)
  BY <1>1 DEF SelectInv, SelectType
<1>6. SelectType'
  BY <1>1, <1>2, <1>4, <1>5 DEF SelectType
<1>7. ASSUME NEW e \in Devices
      PROVE  IF OfDevice(snap, n + 1, e) = {}
             THEN latest'[e] = 0 ELSE IsLatest(snap, n + 1, e, latest'[e])
  <2>0. IF OfDevice(snap, n, e) = {}
        THEN latest[e] = 0 ELSE IsLatest(snap, n, e, latest[e])
    BY <1>1 DEF SelectInv, LatestCorrect
  <2>1. CASE e # d
    <3>1. /\ OfDevice(snap, n + 1, e) = OfDevice(snap, n, e)
          /\ Timed(snap, n + 1, e) = Timed(snap, n, e)
      BY <1>2, <2>1, OtherDevice
    <3>2. latest'[e] = latest[e]
      BY <1>1, <1>5, <2>1
    <3> QED BY <2>0, <3>1, <3>2 DEF IsLatest
  <2>2. CASE e = d /\ OfDevice(snap, n, d) = {}
    <3>1. latest'[e] = n + 1
      BY <1>1, <1>2, <1>4, <1>5, <2>0, <2>2
    <3>2. IsLatest(snap, n + 1, e, n + 1)
      BY <1>2, <2>2, FirstIsLatest
    <3>3. OfDevice(snap, n + 1, e) # {}
      BY <3>2 DEF IsLatest
    <3> QED BY <3>1, <3>2, <3>3
  <2>3. CASE e = d /\ OfDevice(snap, n, d) # {}
    <3>1. IsLatest(snap, n, d, latest[d])
      BY <2>0, <2>3
    <3>2. latest[d] # 0
      BY <3>1 DEF IsLatest, OfDevice
    <3>3. latest'[d] = IF Supersedes(snap[n + 1], snap[latest[d]]) THEN n + 1 ELSE latest[d]
      BY <1>1, <1>2, <1>4, <1>5, <3>2
    <3>4. IsLatest(snap, n + 1, d, latest'[d])
      BY <1>2, <3>1, <3>3, KeepsLatest
    <3>5. OfDevice(snap, n + 1, d) # {}
      BY <3>4 DEF IsLatest
    <3> QED BY <2>3, <3>4, <3>5
  <2> QED BY <2>1, <2>2, <2>3
<1>8. LatestCorrect'
  <2>1. \A e \in Devices :
          IF OfDevice(snap', i' - 1, e) = {}
          THEN latest'[e] = 0 ELSE IsLatest(snap', i' - 1, e, latest'[e])
    BY <1>1, <1>2, <1>7
  <2> QED BY <2>1 DEF LatestCorrect, OfDevice, Timed, IsLatest
<1> QED BY <1>6, <1>8

(* Nobody has seen a record before the loop.                               *)
LEMMA NothingSeen == \A s, d : OfDevice(s, 0, d) = {}
BY DEF OfDevice

(* Every step keeps the selection correct.                                 *)
LEMMA SelectStep == SelectInv /\ [Next]_vars => SelectInv'
<1> SUFFICES ASSUME SelectInv, [Next]_vars PROVE SelectInv'
  OBVIOUS
<1>0. LogType' /\ CacheType'
  BY LogKeeps
<1>1. CASE UNCHANGED poll
  <2>1. SelectType' /\ LatestCorrect'
    BY <1>1 DEF SelectInv, SelectType, LatestCorrect, poll, OfDevice, Timed, IsLatest
  <2> QED BY <1>0, <2>1 DEF SelectInv
<1>2. CASE CheckEcc \/ CheckEvents
  <2>1. SelectType' /\ LatestCorrect'
    BY <1>2 DEF SelectInv, SelectType, LatestCorrect, CheckEcc, CheckEvents
  <2> QED BY <1>0, <2>1 DEF SelectInv
<1>3. CASE ReadCper
  <2>1. i' = 1 /\ latest' = None /\ i' - 1 = 0
    BY <1>3 DEF ReadCper, SelectInv, SelectType
  <2>2. snap' \in Seq(Records)
    BY <1>3 DEF ReadCper, SelectInv, SelectType, CacheType
  <2>3. Len(snap') \in Nat
    BY <2>2
  <2>4. SelectType'
    BY <1>3, <2>1, <2>2, <2>3 DEF SelectType, None, ReadCper
  <2>5. LatestCorrect'
    BY <2>1, NothingSeen DEF LatestCorrect, None
  <2> QED BY <1>0, <2>4, <2>5 DEF SelectInv
<1>4. CASE SelectRecord
  BY <1>0, <1>4, SelectKeeps DEF SelectInv
<1>5. CASE Judge
  <2>1. SelectType' /\ LatestCorrect'
    BY <1>5 DEF SelectInv, SelectType, LatestCorrect, Judge
  <2> QED BY <1>0, <2>1 DEF SelectInv
<1>6. CASE Publish
  <2>1. SelectType' /\ LatestCorrect'
    BY <1>6 DEF SelectInv, SelectType, LatestCorrect, Publish, None
  <2> QED BY <1>0, <2>1 DEF SelectInv
<1> QED BY <1>1, <1>2, <1>3, <1>4, <1>5, <1>6
     DEF Next, Poll, Tick, EccGrows, CriticalEvent, RecordLogged, AgentChanges, SetError,
         Refresh, vars

(* latestCPERPerGPU has, at every turn, the latest record of every device, *)
(* for any number of records and devices and any order of their times.     *)
THEOREM SelectionCorrect == Spec => []LatestCorrect
<1>1. Init => SelectInv
  BY ChecksAssumption DEF Init, SelectInv, SelectType, CacheType, CacheGood, LogType,
     LatestCorrect, None
<1>2. SelectInv => LatestCorrect
  BY DEF SelectInv
<1> QED BY <1>1, <1>2, SelectStep, PTL DEF Spec

-----------------------------------------------------------------------------
(* The counters are numbers, an injected one is remembered, and the fatal  *)
(* records that a poll may see are in the agent's log.                     *)
CountType ==
    /\ ecc \in [GPUs \X Fields -> Nat] /\ mock \in [GPUs \X Fields -> Nat]
    /\ \A x \in GPUs \X Fields : mock[x] > 0 => x[1] \in mocked
Logged(recs) == \A k \in 1..Len(recs) : recs[k].fatal => Fatal(recs[k].gpu)
AlarmInv ==
    /\ SelectInv /\ CountType
    /\ Logged(snap) /\ (CacheGood => Logged(cache[1].recs))
    /\ bad \subseteq GPUs /\ report \subseteq GPUs /\ NoFalseAlarm

(* A record that is logged stays in the log.                               *)
LEMMA FatalStays ==
    ASSUME SelectInv, [Next]_vars, NEW g, Fatal(g)
    PROVE  Fatal(g)'
<1>1. CASE log' = log
  BY <1>1 DEF Fatal
<1>2. CASE RecordLogged
  <2>1. PICK r : log' = Append(log, r)
    BY <1>2 DEF RecordLogged
  <2>2. log \in Seq(Records)
    BY DEF SelectInv, LogType
  <2>3. \A k \in 1..Len(log) : k \in 1..Len(log') /\ log'[k] = log[k]
    BY <2>1, <2>2
  <2> QED BY <2>3 DEF Fatal
<1> QED BY <1>1, <1>2
     DEF Next, Tick, EccGrows, CriticalEvent, AgentChanges, SetError, Refresh, Poll,
         CheckEcc, CheckEvents, ReadCper, SelectRecord, Judge, Publish, agent, vars

(* The counters stay numbers and never shrink.                             *)
LEMMA CountsKeep ==
    ASSUME CountType, [Next]_vars
    PROVE  /\ CountType' /\ mocked \subseteq mocked' /\ critical \subseteq critical'
           /\ \A x \in GPUs \X Fields : ecc[x] <= ecc'[x]
<1>1. CASE EccGrows
  <2>1. PICK x \in GPUs \X Fields, c \in Counts : c > ecc[x] /\ ecc' = [ecc EXCEPT ![x] = c]
    BY <1>1 DEF EccGrows
  <2>2. UNCHANGED <<mock, mocked, critical>> /\ c \in Nat
    BY <1>1, ChecksAssumption DEF EccGrows
  <2> QED BY <2>1, <2>2 DEF CountType
<1>2. CASE SetError
  <2>1. PICK x \in GPUs \X Fields, c \in Counts :
          /\ mock' = [mock EXCEPT ![x] = c]
          /\ mocked' = IF c > 0 THEN mocked \cup {x[1]} ELSE mocked
    BY <1>2 DEF SetError
  <2>2. UNCHANGED <<ecc, critical>> /\ c \in Nat
    BY <1>2, ChecksAssumption DEF SetError
  <2> QED BY <2>1, <2>2 DEF CountType
<1>3. CASE CriticalEvent
  BY <1>3 DEF CriticalEvent, CountType
<1>4. CASE UNCHANGED <<ecc, mock, mocked, critical>>
  BY <1>4 DEF CountType
<1> QED BY <1>1, <1>2, <1>3, <1>4
     DEF Next, Tick, RecordLogged, AgentChanges, Refresh, Poll,
         CheckEcc, CheckEvents, ReadCper, SelectRecord, Judge, Publish, agent, vars

(* A GPU that had a fault has had one ever after.                          *)
LEMMA FaultyStays ==
    ASSUME AlarmInv, [Next]_vars, NEW g \in GPUs, EverFaulty(g)
    PROVE  EverFaulty(g)'
<1>1. /\ CountType' /\ mocked \subseteq mocked' /\ critical \subseteq critical'
      /\ \A x \in GPUs \X Fields : ecc[x] <= ecc'[x]
  BY CountsKeep DEF AlarmInv
<1>2. CASE \E f \in Fields : ecc[<<g, f>>] > Threshold[f]
  <2>1. PICK f \in Fields : ecc[<<g, f>>] > Threshold[f]
    BY <1>2
  <2>2. /\ <<g, f>> \in GPUs \X Fields /\ Threshold[f] \in Nat
        /\ ecc[<<g, f>>] \in Nat /\ ecc'[<<g, f>>] \in Nat
    BY <1>1, ChecksAssumption DEF AlarmInv, CountType
  <2>3. ecc[<<g, f>>] <= ecc'[<<g, f>>]
    BY <1>1, <2>2
  <2>4. ecc'[<<g, f>>] > Threshold[f]
    BY <2>1, <2>2, <2>3
  <2> QED BY <2>4 DEF EverFaulty
<1>3. CASE Fatal(g)
  BY <1>3, FatalStays DEF AlarmInv, EverFaulty
<1> QED BY <1>1, <1>2, <1>3 DEF EverFaulty

(* A counter that counts too many, or an error injected for it, is a fault *)
(* of the GPU.                                                             *)
LEMMA EccIsFault ==
    ASSUME CountType, NEW g \in GPUs, EccOver(g)
    PROVE  EverFaulty(g)
<1>1. PICK f \in Fields : EccValue(g, f) > Threshold[f]
  BY DEF EccOver
<1>2. /\ <<g, f>> \in GPUs \X Fields /\ Threshold[f] \in Nat
      /\ ecc[<<g, f>>] \in Nat /\ mock[<<g, f>>] \in Nat
  BY ChecksAssumption DEF CountType
<1>3. CASE mock[<<g, f>>] > 0
  BY <1>2, <1>3 DEF CountType, EverFaulty
<1>4. CASE ~(mock[<<g, f>>] > 0)
  <2>1. NormalizeUint64(ecc[<<g, f>>]) > Threshold[f]
    BY <1>1, <1>4 DEF EccValue
  <2>2. ecc[<<g, f>>] > Threshold[f]
    BY <1>2, <2>1 DEF NormalizeUint64
  <2> QED BY <2>2 DEF EverFaulty
<1> QED BY <1>3, <1>4

(* The record that the loop has selected for a GPU is one of its own, so   *)
(* that a fatal one is a fault of the GPU.                                 *)
LEMMA SelectedIsFault ==
    ASSUME SelectInv, Logged(snap), pc = "select", i > Len(snap),
           NEW g \in GPUs, latest[g] # 0, isFatalCPERActionable(snap[latest[g]])
    PROVE  EverFaulty(g)
<1>1. g \in Devices
  BY ChecksAssumption
<1>2. i - 1 = Len(snap)
  BY DEF SelectInv, SelectType
<1>3. latest[g] \in OfDevice(snap, i - 1, g)
  BY <1>1 DEF SelectInv, LatestCorrect, IsLatest
<1>4. latest[g] \in 1..Len(snap) /\ snap[latest[g]].gpu = g
  BY <1>2, <1>3 DEF OfDevice
<1>5. Fatal(g)
  BY <1>4 DEF Logged, isFatalCPERActionable
<1> QED BY <1>5 DEF EverFaulty

(* The records that a poll may see stay in the agent's log.                *)
LEMMA LoggedKeeps ==
    ASSUME AlarmInv, [Next]_vars
    PROVE  Logged(snap)' /\ (CacheGood => Logged(cache[1].recs))'
<1>1. \A g : Fatal(g) => Fatal(g)'
  BY FatalStays DEF AlarmInv
<1>2. CASE Refresh
  <2>1. snap' = snap /\ log' = log
    BY <1>2 DEF Refresh, poll, agent
  <2>2. Logged(log)
    BY DEF Logged, Fatal
  <2>3. CASE cache' = cache
    BY <2>1, <2>3 DEF AlarmInv, Logged, Fatal, CacheGood
  <2>4. CASE cache' = Answer(TRUE, log)
    BY <2>1, <2>2, <2>4 DEF AlarmInv, Logged, Fatal, CacheGood, Answer
  <2>5. CASE cache' = Answer(FALSE, <<>>)
    BY <2>1, <2>5 DEF AlarmInv, Logged, Fatal, CacheGood, Answer
  <2> QED BY <1>2, <2>3, <2>4, <2>5 DEF Refresh
<1>3. CASE UNCHANGED <<snap, cache>>
  BY <1>1, <1>3 DEF AlarmInv, Logged, CacheGood
<1>4. CASE ReadCper
  BY <1>1, <1>4 DEF ReadCper, AlarmInv, Logged, CacheGood
<1>5. CASE Publish
  <2>1. snap' = <<>> /\ cache' = cache
    BY <1>5 DEF Publish
  <2> QED BY <1>1, <2>1 DEF AlarmInv, Logged, CacheGood
<1> QED BY <1>2, <1>3, <1>4, <1>5
     DEF Next, Tick, EccGrows, CriticalEvent, RecordLogged, AgentChanges, SetError, Poll,
         CheckEcc, CheckEvents, SelectRecord, Judge, poll, vars

(* What a step adds to the GPUs found or reported unhealthy had a fault    *)
(* before the step.                                                        *)
LEMMA AddedHadFault ==
    ASSUME AlarmInv, [Next]_vars
    PROVE  /\ bad' \subseteq GPUs /\ report' \subseteq GPUs
           /\ \A g \in bad' \cup report' : EverFaulty(g)
<1>0. /\ bad \subseteq GPUs /\ report \subseteq GPUs
      /\ \A g \in bad \cup report : EverFaulty(g)
  BY DEF AlarmInv, NoFalseAlarm
<1>1. CASE CheckEcc
  <2>1. bad' = {g \in GPUs : EccOver(g)} /\ report' = report
    BY <1>1 DEF CheckEcc
  <2>2. \A g \in bad' : EverFaulty(g)
    BY <2>1, EccIsFault DEF AlarmInv
  <2> QED BY <1>0, <2>1, <2>2
<1>2. CASE CheckEvents
  <2>1. bad' \subseteq bad \cup (critical \cap GPUs) /\ report' = report
    BY <1>2 DEF CheckEvents
  <2>2. \A g \in critical : EverFaulty(g)
    BY DEF EverFaulty
  <2> QED BY <1>0, <2>1, <2>2
<1>3. CASE Judge
  <2> DEFINE Found == {g \in GPUs : latest[g] # 0 /\ isFatalCPERActionable(snap[latest[g]])}
  <2>1. bad' = bad \cup Found /\ report' = report /\ pc = "select" /\ i > Len(snap)
    BY <1>3 DEF Judge
  <2>2. \A g \in Found : EverFaulty(g)
    BY <2>1, SelectedIsFault DEF AlarmInv
  <2> QED BY <1>0, <2>1, <2>2
<1>4. CASE Publish
  BY <1>0, <1>4 DEF Publish
<1>5. CASE UNCHANGED <<bad, report>>
  BY <1>0, <1>5
<1> QED BY <1>1, <1>2, <1>3, <1>4, <1>5
     DEF Next, Tick, EccGrows, CriticalEvent, RecordLogged, AgentChanges, SetError, Refresh,
         Poll, ReadCper, SelectRecord, poll, vars

(* The report, and what a poll is finding, never blames a GPU that had no  *)
(* fault of its own: a counter beyond its threshold, an injected error, a  *)
(* critical event or a fatal record.                                       *)
THEOREM NoGPUBlamedForAnother == Spec => []NoFalseAlarm
<1>1. Init => AlarmInv
  <2> SUFFICES ASSUME Init PROVE AlarmInv
    OBVIOUS
  <2>1. SelectInv
    BY ChecksAssumption DEF Init, SelectInv, SelectType, CacheType, CacheGood, LogType,
       LatestCorrect, None
  <2>2. CountType
    BY DEF Init, CountType
  <2>3. Logged(snap) /\ ~CacheGood /\ bad = {} /\ report = {}
    BY DEF Init, Logged, CacheGood
  <2> QED BY <2>1, <2>2, <2>3 DEF AlarmInv, NoFalseAlarm
<1>2. AlarmInv /\ [Next]_vars => AlarmInv'
  <2> SUFFICES ASSUME AlarmInv, [Next]_vars PROVE AlarmInv'
    OBVIOUS
  <2>1. SelectInv' /\ CountType'
    BY SelectStep, CountsKeep DEF AlarmInv
  <2>2. Logged(snap)' /\ (CacheGood => Logged(cache[1].recs))'
    BY LoggedKeeps
  <2>3. bad' \subseteq GPUs /\ report' \subseteq GPUs /\ NoFalseAlarm'
    BY AddedHadFault, FaultyStays DEF NoFalseAlarm
  <2> QED BY <2>1, <2>2, <2>3 DEF AlarmInv
<1>3. AlarmInv => NoFalseAlarm
  BY DEF AlarmInv
<1> QED BY <1>1, <1>2, <1>3, PTL DEF Spec

-----------------------------------------------------------------------------
(* The agent's side and what is cached keep their types.                   *)
AgentType ==
    /\ now \in 1..MaxTime
    /\ ecc \in [GPUs \X Fields -> Counts] /\ mock \in [GPUs \X Fields -> Counts]
    /\ critical \subseteq Devices /\ log \in Seq(Records) /\ Len(log) <= MaxRecords
    /\ answering \in BOOLEAN /\ mocked \subseteq GPUs
    /\ cache # <<>> => /\ cache[1].ok \in BOOLEAN
                       /\ cache[1].recs \in Seq(Records) /\ Len(cache[1].recs) <= MaxRecords

(* Every step keeps them.                                                  *)
LEMMA AgentTypeKeeps == AgentType /\ [Next]_vars => AgentType'
<1> SUFFICES ASSUME AgentType, [Next]_vars PROVE AgentType'
  OBVIOUS
<1>1. CASE Tick
  BY <1>1, ChecksAssumption DEF Tick, AgentType
<1>2. CASE EccGrows
  BY <1>2 DEF EccGrows, AgentType
<1>3. CASE CriticalEvent
  BY <1>3 DEF CriticalEvent, AgentType
<1>4. CASE RecordLogged
  <2>1. PICK d \in Devices, t \in 0..now, f \in BOOLEAN :
          log' = Append(log, [gpu |-> d, ts |-> t, fatal |-> f])
    BY <1>4 DEF RecordLogged
  <2>2. [gpu |-> d, ts |-> t, fatal |-> f] \in Records
    BY <2>1, ChecksAssumption DEF Records, AgentType
  <2>3. log \in Seq(Records) /\ Len(log) < MaxRecords
    BY <1>4 DEF RecordLogged, AgentType
  <2>4. log' \in Seq(Records) /\ Len(log') <= MaxRecords
    BY <2>1, <2>2, <2>3, ChecksAssumption
  <2> QED BY <1>4, <2>4 DEF RecordLogged, AgentType
<1>5. CASE AgentChanges
  <2>1. answering' \in BOOLEAN
    BY <1>5, Zenon DEF AgentChanges
  <2> QED BY <1>5, <2>1 DEF AgentChanges, AgentType
<1>6. CASE SetError
  <2>1. PICK x \in GPUs \X Fields, c \in Counts :
          /\ mock' = [mock EXCEPT ![x] = c]
          /\ mocked' = IF c > 0 THEN mocked \cup {x[1]} ELSE mocked
    BY <1>6 DEF SetError
  <2>2. mock' \in [GPUs \X Fields -> Counts] /\ mocked' \subseteq GPUs
    BY <2>1 DEF AgentType
  <2> QED BY <1>6, <2>2 DEF SetError, AgentType
<1>7. CASE Refresh
  <2>1. UNCHANGED agent
    BY <1>7 DEF Refresh
  <2>2. \/ cache' = cache
        \/ cache' = <<[ok |-> TRUE, recs |-> log]>>
        \/ cache' = <<[ok |-> FALSE, recs |-> <<>>]>>
    BY <1>7 DEF Refresh, Answer
  <2>3. cache' # <<>> => /\ cache'[1].ok \in BOOLEAN /\ cache'[1].recs \in Seq(Records)
                         /\ Len(cache'[1].recs) <= MaxRecords
    <3>1. CASE cache' = cache
      BY <3>1 DEF AgentType
    <3>2. CASE cache' = <<[ok |-> TRUE, recs |-> log]>>
      <4>1. cache'[1].ok = TRUE /\ cache'[1].recs = log
        BY ONLY <3>2
      <4> QED BY <4>1, Zenon DEF AgentType
    <3>3. CASE cache' = <<[ok |-> FALSE, recs |-> <<>>]>>
      <4>1. cache'[1].ok = FALSE /\ cache'[1].recs = <<>>
        BY ONLY <3>3
      <4>2. <<>> \in Seq(Records) /\ Len(<<>>) <= MaxRecords
        BY ChecksAssumption
      <4> QED BY <4>1, <4>2, Zenon
    <3> QED BY <2>2, <3>1, <3>2, <3>3
  <2> QED BY <2>1, <2>3 DEF agent, AgentType
<1>8. CASE UNCHANGED <<agent, cache>>
  BY <1>8 DEF agent, AgentType
<1> QED BY <1>1, <1>2, <1>3, <1>4, <1>5, <1>6, <1>7, <1>8
     DEF Next, Poll, CheckEcc, CheckEvents, ReadCper, SelectRecord, Judge, Publish, vars

(* What a poll finds and publishes are GPUs.                               *)
PollType ==
    /\ pc \in {"idle", "events", "cper", "select", "publish"}
    /\ bad \subseteq GPUs /\ report \subseteq GPUs

(* Every variable of the checks has its type.                              *)
THEOREM TypeCorrect == Spec => []TypeOK
<1>1. Init => AgentType /\ PollType /\ SelectInv
  <2> SUFFICES ASSUME Init PROVE AgentType /\ PollType /\ SelectInv
    OBVIOUS
  <2>1. AgentType
    BY ChecksAssumption DEF Init, AgentType
  <2>2. PollType
    BY DEF Init, PollType
  <2>3. SelectInv
    BY ChecksAssumption DEF Init, SelectInv, SelectType, CacheType, CacheGood, LogType,
       LatestCorrect, None
  <2> QED BY <2>1, <2>2, <2>3
<1>2. PollType /\ [Next]_vars => PollType'
  BY DEF Next, Poll, Tick, EccGrows, CriticalEvent, RecordLogged, AgentChanges, SetError,
         Refresh, CheckEcc, CheckEvents, ReadCper, SelectRecord, Judge, Publish, poll,
         vars, PollType
<1>3. AgentType /\ PollType /\ SelectInv => TypeOK
  BY DEF AgentType, PollType, SelectInv, SelectType, TypeOK
<1> QED BY <1>1, <1>2, <1>3, AgentTypeKeeps, SelectStep, PTL DEF Spec

-----------------------------------------------------------------------------
(* applyCPERHealthChecks never misses a fatal record that is not too old   *)
(* and has the latest time of its GPU's records, in whatever order the     *)
(* agent lists them.                                                       *)
THEOREM NewestFatalFound == Spec => DatedFatalMarks
<1>1. Init => SelectInv
  BY ChecksAssumption DEF Init, SelectInv, SelectType, CacheType, CacheGood, LogType,
     LatestCorrect, None
<1>2. SelectInv =>
        [Judge => \A k \in 1..Len(snap) :
          (/\ snap[k].gpu \in GPUs /\ snap[k].ts # 0 /\ FatalAndRecent(snap[k])
           /\ \A m \in OfDevice(snap, Len(snap), snap[k].gpu) \ {k} :
                snap[m].ts < snap[k].ts)
          => snap[k].gpu \in bad']_vars
  <2> SUFFICES ASSUME SelectInv, Judge, NEW k \in 1..Len(snap),
                      snap[k].gpu \in GPUs, snap[k].ts # 0, FatalAndRecent(snap[k]),
                      \A m \in OfDevice(snap, Len(snap), snap[k].gpu) \ {k} :
                         snap[m].ts < snap[k].ts
               PROVE  snap[k].gpu \in bad'
    OBVIOUS
  <2> DEFINE g == snap[k].gpu
             j == latest[g]
  <2>1. /\ pc = "select" /\ i - 1 = Len(snap) /\ g \in Devices
        /\ snap \in Seq(Records) /\ Len(snap) \in Nat /\ now \in Nat
    <3>1. /\ pc = "select" /\ i > Len(snap) /\ i \in Nat /\ i <= Len(snap) + 1
          /\ snap \in Seq(Records)
      BY DEF SelectInv, SelectType, Judge
    <3>2. now \in Nat /\ g \in Devices
      BY ChecksAssumption DEF SelectInv, LogType
    <3> QED BY <3>1, <3>2
  <2>2. \A m \in 1..Len(snap) : snap[m].ts \in Nat
    <3>1. \A r \in Records : r.ts \in Nat
      BY ChecksAssumption DEF Records
    <3> QED BY <2>1, <3>1
  <2>3. k \in Timed(snap, Len(snap), g)
    BY DEF Timed, OfDevice
  <2>4. IsLatest(snap, Len(snap), g, j)
    BY <2>1, <2>3 DEF SelectInv, LatestCorrect, Timed
  <2>5. /\ j \in OfDevice(snap, Len(snap), g) /\ snap[j].ts # 0
        /\ snap[k].ts < snap[j].ts \/ snap[k].ts = snap[j].ts
    BY <2>3, <2>4 DEF IsLatest, Timed
  <2>6. j \in 1..Len(snap)
    BY <2>5 DEF OfDevice
  <2>7. j = k
    <3> SUFFICES ASSUME j # k PROVE FALSE
      OBVIOUS
    <3>1. snap[j].ts < snap[k].ts
      BY <2>5
    <3> QED BY <2>2, <2>5, <2>6, <3>1
  <2>8. isFatalCPERActionable(snap[k])
    BY <2>1, <2>2, ChecksAssumption DEF FatalAndRecent, isFatalCPERActionable
  <2>9. latest[g] # 0 /\ isFatalCPERActionable(snap[latest[g]])
    BY <2>6, <2>7, <2>8
  <2> QED BY <2>9 DEF Judge
<1> QED BY <1>1, <1>2, SelectStep, PTL DEF Spec, DatedFatalMarks
=============================================================================
