------------------------------- MODULE TestJob -------------------------------
(***************************************************************************)
(* What a run of a GPU test promises to its owner, testGPU: test processes *)
(* are started one after the other, each only when the one before has      *)
(* ended and is in the report, and the answer comes when none is left and  *)
(* all are reported.  Module TestHandler is the run; its contexts,         *)
(* timeouts, waiters and cancellations are invisible here.                 *)
(***************************************************************************)
EXTENDS Naturals, Sequences

CONSTANT
    Iters       \* the iterations asked for, by number

VARIABLES
    launched,   \* the iterations whose process was started
    alive,      \* those whose process runs
    report,     \* the results so far, as <<iteration, status>> pairs
    answered    \* the owner has been told that the run is over

jobVars == <<launched, alive, report, answered>>

(* The iterations whose result is still to come.                           *)
Due == launched \ {report[k][1] : k \in 1..Len(report)}

JobInit == launched = {} /\ alive = {} /\ report = <<>> /\ answered = FALSE

Launch(i) ==
    /\ ~answered /\ alive = {} /\ Due = {} /\ \A j \in launched : j < i
    /\ launched' = launched \cup {i} /\ alive' = {i}
    /\ UNCHANGED <<report, answered>>

End(i) ==
    /\ i \in alive /\ alive' = alive \ {i}
    /\ UNCHANGED <<launched, report, answered>>

Report(i) ==
    /\ ~answered /\ alive = {} /\ Due = {i}
    /\ \E st \in {"completed", "timed_out"} : report' = Append(report, <<i, st>>)
    /\ UNCHANGED <<launched, alive, answered>>

Answer ==
    /\ ~answered /\ alive = {} /\ Due = {}
    /\ answered' = TRUE
    /\ UNCHANGED <<launched, alive, report>>

JobNext ==
    \/ \E i \in Iters : Launch(i) \/ End(i) \/ Report(i)
    \/ Answer

JobSpec == JobInit /\ [][JobNext]_jobVars
=============================================================================
