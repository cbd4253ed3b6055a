------------------------- MODULE HealthMonitorProofs -------------------------
(***************************************************************************)
(* Type correctness of the health monitor, and: for every set of GPUs,     *)
(* every threshold and every option, it gives up on the agent only after   *)
(* an unbroken row of failed polls.                                        *)
(***************************************************************************)
EXTENDS HealthMonitor, SequenceTheorems, TLAPS

(* The counter tells the truth about the remembered polls: the last        *)
(* `fails' of them failed, and no more are forgotten than history says.    *)
StreakInv ==
    /\ Len(polls) = history \/ Len(polls) >= fails
    /\ \A i \in 1..Len(polls) : i + fails > Len(polls) => polls[i] = "failed"

(* Record keeps the last `history' results: the new sequence is the old    *)
(* one, shifted by at most one place, followed by r.                       *)
LEMMA RecordShifts ==
    ASSUME polls \in Seq(Results), Len(polls) <= history,
           NEW r \in Results, Record(r)
    PROVE  /\ polls' \in Seq(Results) /\ Len(polls') <= history
           /\ \/ /\ Len(polls') = Len(polls) + 1
                 /\ \A i \in 1..Len(polls') :
                       polls'[i] = IF i <= Len(polls) THEN polls[i] ELSE r
              \/ /\ Len(polls') = Len(polls) /\ Len(polls) = history
                 /\ \A i \in 1..Len(polls') :
                       polls'[i] = IF i + 1 <= Len(polls) THEN polls[i + 1] ELSE r
<1> DEFINE all == Append(polls, r)
<1>0. history \in Nat
  BY MonitorAssumption
<1>1. /\ all \in Seq(Results) /\ Len(all) = Len(polls) + 1
      /\ \A i \in 1..Len(all) : all[i] = IF i <= Len(polls) THEN polls[i] ELSE r
  OBVIOUS
<1>2. polls' = IF Len(all) > history THEN Tail(all) ELSE all
  BY DEF Record
<1>3. Len(polls) \in Nat
  OBVIOUS
<1> HIDE DEF all
<1>4. CASE Len(all) > history
  <2>1. polls' = Tail(all) /\ all # <<>>
    BY <1>1, <1>2, <1>3, <1>4
  <2>2. /\ Tail(all) \in Seq(Results) /\ Len(Tail(all)) = Len(all) - 1
        /\ \A i \in 1..Len(Tail(all)) : Tail(all)[i] = all[i + 1]
    BY <2>1, <1>1, HeadTailProperties
  <2> QED
    BY <2>1, <2>2, <1>0, <1>1, <1>3, <1>4
<1>5. CASE ~(Len(all) > history)
  BY <1>0, <1>1, <1>2, <1>3, <1>5
<1> QED
  BY <1>4, <1>5

(* A counted failure keeps the invariant, and if it ends the process the   *)
(* row of failures is as long as the threshold (StartMonitor).             *)
LEMMA CountFailureKeeps ==
    ASSUME TypeOK, StreakInv, Alive, NEW next \in {"idle", "zeroLabel"},
           CountFailure(next)
    PROVE  /\ polls' \in Seq(Results) /\ Len(polls') <= history
           /\ fails' \in 0..maxConsecutiveFailures
           /\ mpc' \in {"idle", "zeroLabel"} /\ exited' \in {"no", "agent"}
           /\ StreakInv' /\ ExitAfterMax'
<1>0. /\ history \in Nat /\ history <= maxConsecutiveFailures
      /\ maxConsecutiveFailures \in Nat /\ fails \in 0..maxConsecutiveFailures
      /\ polls \in Seq(Results) /\ Len(polls) <= history /\ Len(polls) \in Nat
      /\ "failed" \in Results /\ Record("failed")
  BY MonitorAssumption DEF TypeOK, Results, CountFailure
<1>1. /\ polls' \in Seq(Results) /\ Len(polls') <= history
      /\ \/ /\ Len(polls') = Len(polls) + 1
            /\ \A i \in 1..Len(polls') :
                  polls'[i] = IF i <= Len(polls) THEN polls[i] ELSE "failed"
         \/ /\ Len(polls') = Len(polls) /\ Len(polls) = history
            /\ \A i \in 1..Len(polls') :
                  polls'[i] = IF i + 1 <= Len(polls) THEN polls[i + 1] ELSE "failed"
  BY <1>0, RecordShifts
<1>2. /\ fails' \in 0..maxConsecutiveFailures
      /\ fails' = fails + 1 \/ (fails' = fails /\ fails = maxConsecutiveFailures)
  BY <1>0 DEF CountFailure
<1>3. Len(polls') = history \/ Len(polls') >= fails'
  BY <1>0, <1>1, <1>2 DEF StreakInv
<1>4. \A i \in 1..Len(polls') : i + fails' > Len(polls') => polls'[i] = "failed"
  <2> SUFFICES ASSUME NEW i \in 1..Len(polls'), i + fails' > Len(polls')
               PROVE  polls'[i] = "failed"
    OBVIOUS
  <2>1. CASE Len(polls') = Len(polls) + 1 /\ polls'[i] = IF i <= Len(polls) THEN polls[i] ELSE "failed"
    <3>1. CASE i <= Len(polls)
      <4>1. i \in 1..Len(polls) /\ i + fails > Len(polls)
        BY <3>1, <2>1, <1>0, <1>2
      <4> QED
        BY <4>1, <3>1, <2>1 DEF StreakInv
    <3>2. CASE ~(i <= Len(polls))
      BY <3>2, <2>1
    <3> QED
      BY <3>1, <3>2
  <2>2. CASE /\ Len(polls') = Len(polls) /\ Len(polls) = history
             /\ polls'[i] = IF i + 1 <= Len(polls) THEN polls[i + 1] ELSE "failed"
    <3>1. CASE i + 1 <= Len(polls)
      <4>0. /\ i \in Nat /\ i >= 1 /\ Len(polls) \in Nat /\ Len(polls') = Len(polls)
            /\ fails \in Nat /\ fails' \in Nat /\ fails' <= fails + 1
        BY <2>2, <1>0, <1>2
      <4>1. i + 1 \in 1..Len(polls) /\ (i + 1) + fails > Len(polls)
        BY <4>0, <3>1
      <4>2. polls[i + 1] = "failed"
        BY <4>1 DEF StreakInv
      <4> QED
        BY <4>2, <3>1, <2>2
    <3>2. CASE ~(i + 1 <= Len(polls))
      BY <3>2, <2>2
    <3> QED
      BY <3>1, <3>2
  <2> QED
    BY <1>1, <2>1, <2>2
<1>5. exited' = "agent" => fails' >= maxConsecutiveFailures
  BY <1>0, <1>2 DEF CountFailure, Alive
<1>6. exited' = "agent" => Len(polls') = history
  <2>1. Len(polls') \in Nat
    BY <1>1
  <2> QED
    BY <2>1, <1>0, <1>1, <1>2, <1>3, <1>5
<1>7. exited' = "agent" => \A i \in 1..Len(polls') : polls'[i] = "failed"
  BY <1>0, <1>1, <1>2, <1>4, <1>5
<1>8. mpc' \in {"idle", "zeroLabel"} /\ exited' \in {"no", "agent"}
  BY DEF CountFailure, Alive
<1> QED
  BY <1>1, <1>2, <1>3, <1>4, <1>6, <1>7, <1>8 DEF StreakInv, ExitAfterMax

(* The end of any other poll resets the counter (StartMonitor).            *)
LEMMA PollDoneKeeps ==
    ASSUME TypeOK, PollDone
    PROVE  /\ polls' \in Seq(Results) /\ Len(polls') <= history
           /\ fails' = 0 /\ mpc' = "idle" /\ exited' \in {"no", "rocp"}
           /\ StreakInv' /\ ExitAfterMax'
<1>0. /\ history \in Nat /\ polls \in Seq(Results) /\ Len(polls) <= history
      /\ "done" \in Results /\ Record("done") /\ fails' = 0 /\ mpc' = "idle"
      /\ exited' \in {"no", "rocp"}
  BY MonitorAssumption DEF TypeOK, Results, PollDone
<1>1. polls' \in Seq(Results) /\ Len(polls') <= history /\ Len(polls') \in Nat
  BY <1>0, RecordShifts
<1>2. StreakInv'
  BY <1>0, <1>1 DEF StreakInv
<1> QED
  BY <1>0, <1>1, <1>2 DEF ExitAfterMax

(* The type of everything but the poll bookkeeping.                        *)
DataOK ==
    /\ agent \in Answers \cup {"down"} /\ bad \subseteq GPUs
    /\ cache \in Answers \cup {"none"} /\ cacheBad \subseteq GPUs
    /\ active \in BOOLEAN /\ newBad \subseteq GPUs
    /\ health \in [GPUs -> {"absent", "healthy", "unhealthy"}]
    /\ node \in BOOLEAN /\ spc \in {"idle", "apply", "mark"}
    /\ todo \subseteq GPUs /\ label \subseteq GPUs
    /\ profDisabled \in BOOLEAN

CountOK ==
    /\ mpc \in {"idle", "check", "node", "fetch", "down", "zero", "publish",
                "fill", "label", "zeroLabel"}
    /\ fails \in 0..maxConsecutiveFailures
    /\ exited \in {"no", "agent", "rocp", "crash"}
    /\ polls \in Seq(Results) /\ Len(polls) <= history

(* TypeOK is its two halves.                                               *)
LEMMA Halves == TypeOK <=> DataOK /\ CountOK
BY DEF TypeOK, DataOK, CountOK

(* Every step keeps the data half of the type invariant.                   *)
LEMMA DataStep == DataOK /\ [Next]_vars => DataOK'
<1> SUFFICES ASSUME DataOK, [Next]_vars PROVE DataOK'
  OBVIOUS
<1> USE DEF DataOK, env, resp, monitor, setter
<1>1. CASE Poll BY <1>1 DEF Poll
<1>2. CASE ReconnectFails BY <1>2 DEF ReconnectFails
<1>3. CASE CheckNode BY <1>3 DEF CheckNode
<1>4. CASE NodeDown BY <1>4 DEF NodeDown, setUnhealthyGPU, Present
<1>5. CASE Fetch BY <1>5 DEF Fetch, Store
<1>6. CASE AgentDown BY <1>6 DEF AgentDown, setUnhealthyGPU, Present
<1>7. CASE ZeroGPUs BY <1>7 DEF ZeroGPUs, setUnhealthyGPU, Present
<1>8. CASE PublishBegin BY <1>8 DEF PublishBegin
<1>9. CASE PublishFill BY <1>9 DEF PublishFill
<1>10. CASE LabelOK BY <1>10 DEF LabelOK, sendNodeLabelUpdate, Unhealthy
<1>11. CASE LabelFails BY <1>11 DEF LabelFails
<1>12. CASE ZeroLabel BY <1>12 DEF ZeroLabel, sendNodeLabelUpdate, Unhealthy
<1>13. CASE Apply BY <1>13 DEF Apply, Present, NodeHealth
<1>14. ASSUME NEW g \in GPUs, Mark(g) PROVE DataOK' BY <1>14 DEF Mark, NodeHealth
<1>15. CASE Caught BY <1>15 DEF Caught
<1>16. ASSUME NEW v \in BOOLEAN, SetNode(v) PROVE DataOK' BY <1>16 DEF SetNode
<1>17. ASSUME NEW a \in Answers \cup {"down"}, AgentChanges(a) PROVE DataOK'
  BY <1>17 DEF AgentChanges
<1>18. ASSUME NEW g \in GPUs, FaultChanges(g) PROVE DataOK' BY <1>18 DEF FaultChanges
<1>19. CASE ProfilerTrips BY <1>19 DEF ProfilerTrips
<1>20. CASE CacheExpires BY <1>20 DEF CacheExpires
<1>21. CASE ScrapeReads BY <1>21 DEF ScrapeReads, Store
<1>22. CASE Restart BY <1>22 DEF Restart
<1>23. CASE UNCHANGED vars BY <1>23 DEF vars
<1> QED
  BY <1>1, <1>2, <1>3, <1>4, <1>5, <1>6, <1>7, <1>8, <1>9, <1>10, <1>11, <1>12,
     <1>13, <1>14, <1>15, <1>16, <1>17, <1>18, <1>19, <1>20, <1>21, <1>22, <1>23
     DEF Next, Monitor, Setter

(* Every step keeps the bookkeeping half, the streak and the exit rule.    *)
LEMMA CountStep ==
    TypeOK /\ StreakInv /\ ExitAfterMax /\ [Next]_vars
        => CountOK' /\ StreakInv' /\ ExitAfterMax'
<1> SUFFICES ASSUME TypeOK, StreakInv, ExitAfterMax, [Next]_vars
             PROVE  CountOK' /\ StreakInv' /\ ExitAfterMax'
  OBVIOUS
<1>0. CountOK
  BY Halves
<1>1. ASSUME Alive, NEW next \in {"idle", "zeroLabel"}, CountFailure(next)
      PROVE  CountOK' /\ StreakInv' /\ ExitAfterMax'
  BY <1>1, CountFailureKeeps DEF CountOK
<1>2. CASE ReconnectFails BY <1>1, <1>2 DEF ReconnectFails
<1>3. CASE AgentDown BY <1>1, <1>3 DEF AgentDown
<1>4. CASE ZeroGPUs BY <1>1, <1>4 DEF ZeroGPUs
<1>5. ASSUME PollDone
      PROVE  CountOK' /\ StreakInv' /\ ExitAfterMax'
  <2>1. 0 \in 0..maxConsecutiveFailures
    BY MonitorAssumption
  <2> QED
    BY <1>5, <2>1, PollDoneKeeps DEF CountOK
<1>6. CASE NodeDown BY <1>5, <1>6 DEF NodeDown
<1>7. CASE LabelOK BY <1>5, <1>7 DEF LabelOK
<1>8. CASE LabelFails BY <1>5, <1>8 DEF LabelFails
<1>9. CASE Restart
  <2>1. /\ polls' = <<>> /\ fails' = 0 /\ exited' = "no" /\ mpc' = "idle"
        /\ history \in Nat /\ 0 \in 0..maxConsecutiveFailures
    BY <1>9, MonitorAssumption DEF Restart
  <2>2. polls' \in Seq(Results) /\ Len(polls') = 0
    BY <2>1
  <2> QED
    BY <2>1, <2>2 DEF CountOK, StreakInv, ExitAfterMax
<1>10. ASSUME UNCHANGED <<polls, fails>>, exited' = exited \/ exited' = "crash",
              mpc' \in {"idle", "check", "node", "fetch", "down", "zero",
                        "publish", "fill", "label", "zeroLabel"}
       PROVE  CountOK' /\ StreakInv' /\ ExitAfterMax'
  BY <1>0, <1>10 DEF CountOK, StreakInv, ExitAfterMax
<1>11. CASE Poll \/ CheckNode \/ Fetch \/ PublishBegin \/ PublishFill \/ ZeroLabel
  BY <1>10, <1>11 DEF Poll, CheckNode, Fetch, PublishBegin, PublishFill, ZeroLabel
<1>12. ASSUME UNCHANGED <<polls, fails, mpc>>, exited' = exited \/ exited' = "crash"
       PROVE  CountOK' /\ StreakInv' /\ ExitAfterMax'
  BY <1>0, <1>12, <1>10 DEF CountOK
<1> USE DEF monitor
<1>13. CASE Setter BY <1>12, <1>13 DEF Setter, Apply, Mark
<1>14. CASE Caught BY <1>12, <1>14 DEF Caught
<1>15. CASE \E v \in BOOLEAN : SetNode(v) BY <1>12, <1>15 DEF SetNode
<1>16. CASE \E a \in Answers \cup {"down"} : AgentChanges(a)
  BY <1>12, <1>16 DEF AgentChanges
<1>17. CASE \E g \in GPUs : FaultChanges(g) BY <1>12, <1>17 DEF FaultChanges
<1>18. CASE ProfilerTrips \/ CacheExpires \/ ScrapeReads
  BY <1>12, <1>18 DEF ProfilerTrips, CacheExpires, ScrapeReads
<1>19. CASE UNCHANGED vars BY <1>12, <1>19 DEF vars
<1> QED
  BY <1>2, <1>3, <1>4, <1>6, <1>7, <1>8, <1>9, <1>11, <1>13, <1>14, <1>15,
     <1>16, <1>17, <1>18, <1>19 DEF Next, Monitor

(* The three facts hold at the start.                                      *)
LEMMA MonitorInit == Init => TypeOK /\ StreakInv /\ ExitAfterMax
<1> SUFFICES ASSUME Init PROVE TypeOK /\ StreakInv /\ ExitAfterMax
  OBVIOUS
<1>1. DataOK
  BY DEF Init, DataOK
<1>2. polls \in Seq(Results) /\ Len(polls) = 0 /\ fails = 0
  BY DEF Init
<1>3. CountOK /\ StreakInv /\ ExitAfterMax
  BY <1>2, MonitorAssumption DEF Init, CountOK, StreakInv, ExitAfterMax
<1> QED
  BY <1>1, <1>3, Halves

(* The three facts are inductive.                                          *)
LEMMA MonitorStep ==
    TypeOK /\ StreakInv /\ ExitAfterMax /\ [Next]_vars
        => (TypeOK /\ StreakInv /\ ExitAfterMax)'
BY Halves, DataStep, CountStep DEF TypeOK, DataOK, CountOK

(* StartMonitor and SetComputeNodeHealthState keep the state well typed,   *)
(* for every set of GPUs.                                                  *)
THEOREM TypeCorrect == Spec => []TypeOK
BY MonitorInit, MonitorStep, PTL DEF Spec

(* StartMonitor exits for the agent only after maxConsecutiveFailures      *)
(* failed polls in a row, for every threshold.                             *)
THEOREM ExitOnlyAfterMax == Spec => []ExitAfterMax
BY MonitorInit, MonitorStep, PTL DEF Spec

-----------------------------------------------------------------------------
(* The counter misses no failure: the poll before the row it counts was a  *)
(* good one, and it is at the threshold only in a process that has ended.  *)
RowInv ==
    /\ fails < Len(polls) => polls[Len(polls) - fails] = "done"
    /\ exitOnAgentDown /\ fails = maxConsecutiveFailures => exited = "agent"

(* A counted failure lengthens the row by one (StartMonitor).              *)
LEMMA CountFailureRow ==
    ASSUME TypeOK, RowInv, Alive, NEW next, CountFailure(next)
    PROVE  RowInv'
<1>0. /\ history \in Nat /\ maxConsecutiveFailures \in Nat
      /\ history <= maxConsecutiveFailures
      /\ fails \in Nat /\ fails <= maxConsecutiveFailures
      /\ polls \in Seq(Results) /\ Len(polls) <= history /\ Len(polls) \in Nat
      /\ "failed" \in Results /\ Record("failed")
  BY MonitorAssumption DEF TypeOK, Results, CountFailure
<1>1. /\ polls' \in Seq(Results) /\ Len(polls') <= history /\ Len(polls') \in Nat
      /\ \/ /\ Len(polls') = Len(polls) + 1
            /\ \A i \in 1..Len(polls') :
                  polls'[i] = IF i <= Len(polls) THEN polls[i] ELSE "failed"
         \/ /\ Len(polls') = Len(polls)
            /\ \A i \in 1..Len(polls') :
                  polls'[i] = IF i + 1 <= Len(polls) THEN polls[i + 1] ELSE "failed"
  BY <1>0, RecordShifts
<1>2. \/ fails' = fails + 1
      \/ fails' = fails /\ fails = maxConsecutiveFailures
  BY <1>0 DEF CountFailure
<1>3. ASSUME fails' < Len(polls') PROVE polls'[Len(polls') - fails'] = "done"
  <2>1. fails' = fails + 1 /\ fails < Len(polls)
    BY <1>0, <1>1, <1>2, <1>3
  <2>2. polls[Len(polls) - fails] = "done"
    BY <2>1 DEF RowInv
  <2>3. CASE /\ Len(polls') = Len(polls) + 1
             /\ \A i \in 1..Len(polls') :
                   polls'[i] = IF i <= Len(polls) THEN polls[i] ELSE "failed"
    <3>1. /\ Len(polls') - fails' = Len(polls) - fails
          /\ Len(polls) - fails \in 1..Len(polls') /\ Len(polls) - fails <= Len(polls)
      BY <1>0, <2>1, <2>3
    <3> QED
      BY <2>2, <2>3, <3>1
  <2>4. CASE /\ Len(polls') = Len(polls)
             /\ \A i \in 1..Len(polls') :
                   polls'[i] = IF i + 1 <= Len(polls) THEN polls[i + 1] ELSE "failed"
    <3> DEFINE k == Len(polls) - fails - 1
    <3>1. /\ Len(polls') - fails' = k /\ k \in 1..Len(polls')
          /\ k + 1 = Len(polls) - fails /\ k + 1 <= Len(polls)
      BY <1>0, <1>3, <2>1, <2>4
    <3> HIDE DEF k
    <3> QED
      BY <2>2, <2>4, <3>1
  <2> QED
    BY <1>1, <2>3, <2>4
<1>4. exitOnAgentDown /\ fails' = maxConsecutiveFailures => exited' = "agent"
  BY <1>0, <1>2 DEF CountFailure, RowInv, Alive
<1> QED
  BY <1>3, <1>4 DEF RowInv

(* Any other poll starts a new row (StartMonitor).                         *)
LEMMA PollDoneRow ==
    ASSUME TypeOK, PollDone
    PROVE  RowInv'
<1>0. /\ history \in Nat /\ maxConsecutiveFailures \in Nat \ {0}
      /\ polls \in Seq(Results) /\ Len(polls) <= history /\ Len(polls) \in Nat
      /\ "done" \in Results /\ Record("done") /\ fails' = 0
  BY MonitorAssumption DEF TypeOK, Results, PollDone
<1>1. /\ polls' \in Seq(Results) /\ Len(polls') \in Nat
      /\ \/ /\ Len(polls') = Len(polls) + 1
            /\ \A i \in 1..Len(polls') :
                  polls'[i] = IF i <= Len(polls) THEN polls[i] ELSE "done"
         \/ /\ Len(polls') = Len(polls)
            /\ \A i \in 1..Len(polls') :
                  polls'[i] = IF i + 1 <= Len(polls) THEN polls[i + 1] ELSE "done"
  BY <1>0, RecordShifts
<1>2. 0 < Len(polls') => polls'[Len(polls')] = "done"
  BY <1>0, <1>1
<1> QED
  BY <1>0, <1>1, <1>2 DEF RowInv

(* Every step keeps the row.                                               *)
LEMMA RowStep == TypeOK /\ RowInv /\ [Next]_vars => RowInv'
<1> SUFFICES ASSUME TypeOK, RowInv, [Next]_vars PROVE RowInv'
  OBVIOUS
<1>1. CASE ReconnectFails BY <1>1, CountFailureRow DEF ReconnectFails
<1>2. CASE AgentDown BY <1>2, CountFailureRow DEF AgentDown
<1>3. CASE ZeroGPUs BY <1>3, CountFailureRow DEF ZeroGPUs
<1>4. CASE NodeDown \/ LabelOK \/ LabelFails
  BY <1>4, PollDoneRow DEF NodeDown, LabelOK, LabelFails
<1>5. CASE Restart
  <2>1. polls' = <<>> /\ Len(polls') = 0 /\ fails' = 0
    BY <1>5 DEF Restart
  <2> QED
    BY <2>1, MonitorAssumption DEF RowInv
<1>6. ASSUME UNCHANGED <<polls, fails, exited>> PROVE RowInv'
  BY <1>6 DEF RowInv
<1>7. CASE Caught
  <2>1. UNCHANGED <<polls, fails>> /\ exited = "no"
    BY <1>7 DEF Caught, Alive, monitor
  <2> QED
    BY <2>1 DEF RowInv
<1> USE DEF monitor
<1>8. CASE Poll \/ CheckNode \/ Fetch \/ PublishBegin \/ PublishFill \/ ZeroLabel
  BY <1>6, <1>8 DEF Poll, CheckNode, Fetch, PublishBegin, PublishFill, ZeroLabel
<1>9. CASE Setter \/ \E v \in BOOLEAN : SetNode(v)
  BY <1>6, <1>9 DEF Setter, Apply, Mark, SetNode
<1>10. CASE \/ \E a \in Answers \cup {"down"} : AgentChanges(a)
            \/ \E g \in GPUs : FaultChanges(g)
  BY <1>6, <1>10 DEF AgentChanges, FaultChanges
<1>11. CASE ProfilerTrips \/ CacheExpires \/ ScrapeReads \/ UNCHANGED vars
  BY <1>6, <1>11 DEF ProfilerTrips, CacheExpires, ScrapeReads, vars
<1> QED
  BY <1>1, <1>2, <1>3, <1>4, <1>5, <1>7, <1>8, <1>9, <1>10, <1>11 DEF Next, Monitor

(* StartMonitor exits for the agent no later than after the failed poll    *)
(* that completes a row of maxConsecutiveFailures, for every threshold.    *)
THEOREM ExitNoLaterThanMax == Spec => []ExitByMax
<1>1. Init => RowInv
  <2> SUFFICES ASSUME Init PROVE RowInv
    OBVIOUS
  <2>1. Len(polls) = 0 /\ fails = 0
    BY DEF Init
  <2> QED
    BY <2>1, MonitorAssumption DEF RowInv
<1>2. TypeOK /\ RowInv => ExitByMax
  <2> SUFFICES ASSUME TypeOK, RowInv, exitOnAgentDown,
                      Len(polls) = maxConsecutiveFailures,
                      \A i \in 1..Len(polls) : polls[i] = "failed"
               PROVE  exited = "agent"
    BY DEF ExitByMax
  <2>1. fails \in 0..Len(polls) /\ Len(polls) \in Nat
    BY DEF TypeOK
  <2>2. CASE fails < Len(polls)
    <3>1. Len(polls) - fails \in 1..Len(polls)
      BY <2>1, <2>2
    <3> QED
      BY <2>2, <3>1 DEF RowInv
  <2> QED
    BY <2>1, <2>2 DEF RowInv
<1> QED
  BY <1>1, <1>2, RowStep, TypeCorrect, PTL DEF Spec
=============================================================================
