------------------------------- MODULE Rocpctl -------------------------------
(***************************************************************************)
(* What one run of rocpctl promises to the exporter, which starts it and   *)
(* reads its exit status and its output: an answer has a reading for every *)
(* GPU, an error has none, and unless the profiling library failed on the  *)
(* way no counter of a reading was measured more often than it was asked   *)
(* for.  Module CounterSampler is the program; its steps of packing and    *)
(* sampling are invisible here.                                            *)
(***************************************************************************)
EXTENDS Naturals, Sequences

VARIABLES
    asked,      \* how often each counter was asked for
    agents,     \* number of GPUs the program found
    out,        \* the readings written so far, one per GPU
    sound,      \* no call of the profiling library has failed unnoticed
    exit        \* "running", or how the process ended

(* A reading says of each counter how many sampling windows it adds up.    *)
Faithful(reading) == \A c \in DOMAIN reading : reading[c] <= asked[c]

ContractInit ==
    /\ agents = 0 /\ out = <<>> /\ sound = TRUE /\ exit = "running"

Discover ==
    /\ exit = "running" /\ out = <<>> /\ agents = 0
    /\ agents' \in Nat
    /\ UNCHANGED <<asked, out, sound, exit>>

Write ==
    /\ exit = "running" /\ Len(out) < agents
    /\ Len(out') = Len(out) + 1 /\ SubSeq(out', 1, Len(out)) = out
    /\ sound => Faithful(out'[Len(out) + 1])
    /\ UNCHANGED <<asked, agents, sound, exit>>

Disturb ==
    /\ exit = "running" /\ out = <<>>
    /\ sound' = FALSE
    /\ UNCHANGED <<asked, agents, out, exit>>

Answer ==
    /\ exit = "running" /\ Len(out) = agents
    /\ exit' = "answered"
    /\ UNCHANGED <<asked, agents, out, sound>>

Fail ==
    /\ exit = "running" /\ out = <<>>
    /\ exit' \in {"failed", "usage"}
    /\ UNCHANGED <<asked, agents, out, sound>>

(* The exporter's timeout, or a fault inside a library, at any time.       *)
Die ==
    /\ exit = "running"
    /\ exit' = "died"
    /\ UNCHANGED <<asked, agents, out, sound>>

ContractNext == Discover \/ Write \/ Disturb \/ Answer \/ Fail \/ Die

ContractSpec ==
    ContractInit /\ [][ContractNext]_<<asked, agents, out, sound, exit>>
=============================================================================
