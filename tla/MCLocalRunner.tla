---------------------------- MODULE MCLocalRunner ----------------------------
EXTENDS LocalRunner, TLC

CONSTANTS j1, j2

\* j1 falls back to the host unless it is busy; j2 finds no agent and fails.
HostDecision == (j1 :> {"local_fallback", "wait"}) @@ (j2 :> {"fail_fast"})
HostCompletions == (j1 :> {"timeout", "log_success"}) @@ (j2 :> {})
=============================================================================
