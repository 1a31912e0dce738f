---------------------------- MODULE ExecutionGate ----------------------------
(***************************************************************************)
(* What the Controller promises about running a job's script on its own   *)
(* host, whatever dispatches, sweeps, cancellations and confirmations      *)
(* race: a job that needs a confirmation is decided once, a refused job    *)
(* never runs, and no job runs twice.  LocalRunner implements it.          *)
(***************************************************************************)
CONSTANTS
    Jobs,       \* the jobs
    Guarded     \* the jobs whose risk asks for an explicit confirmation

VARIABLES
    gate,       \* [Jobs -> {"open", "asked", "accepted", "refused"}]
    exec        \* [Jobs -> {"no", "running", "over"}]: the job's script

vars == <<gate, exec>>

Init ==
    /\ gate = [j \in Jobs |-> IF j \in Guarded THEN "asked" ELSE "open"]
    /\ exec = [j \in Jobs |-> "no"]

\* The operator answers, or the request for an answer goes stale.
Decide(j) ==
    /\ gate[j] = "asked"
    /\ \E answer \in {"accepted", "refused"} : gate' = [gate EXCEPT ![j] = answer]
    /\ UNCHANGED exec

\* A sweep may refuse several stale jobs in one step.
RefuseStale ==
    /\ \E S \in SUBSET {j \in Jobs : gate[j] = "asked"} :
          gate' = [j \in Jobs |-> IF j \in S THEN "refused" ELSE gate[j]]
    /\ UNCHANGED exec

Start(j) ==
    /\ gate[j] \in {"open", "accepted"}
    /\ exec[j] = "no"
    /\ exec' = [exec EXCEPT ![j] = "running"]
    /\ UNCHANGED gate

End(j) ==
    /\ exec[j] = "running"
    /\ exec' = [exec EXCEPT ![j] = "over"]
    /\ UNCHANGED gate

Next == RefuseStale \/ \E j \in Jobs : Decide(j) \/ Start(j) \/ End(j)

Spec == Init /\ [][Next]_vars
=============================================================================
