---------------------------- MODULE MCScheduling ----------------------------
(* Two Agents and three jobs: one that a single Agent can run and that      *)
(* waits for it, one that both can run and that does not wait, and one that *)
(* only the Controller's host can run.                                      *)
EXTENDS Scheduling, TLC

CONSTANTS a1, a2, j1, j2, j3, d1, d2

Rust(v) == [kind |-> "rust", id |-> "rust-stable", version |-> v]

LinuxBuilder(load, rust) ==
    [os |-> "linux", arch |-> "x64", labels |-> {<<"pool", "ci">>}, memory |-> 8, disk |-> 50,
     shells |-> {"bash"}, secrets |-> {}, profiles |-> <<Rust(rust)>>,
     probes |-> {[name |-> "git", version |-> <<2, 40>>]}, max_jobs |-> 1, priority |-> None,
     cpu_load |-> load, repos |-> {[id |-> "repo", commits |-> {}]},
     caches |-> {[kind |-> "sccache", key |-> <<"rust-stable", "linux", "x64", "repo">>]}]

\* Equal but for the load and the compiler, so that one refused lease turns
\* the choice around.
MCCaps == (a1 :> LinuxBuilder(10, <<1, 94>>)) @@ (a2 :> LinuxBuilder(20, <<1, 93, 0>>))
MCRank == (a1 :> 1) @@ (a2 :> 2)

Git == [name |-> "git", op |-> "any", version |-> <<>>, cache |-> None]
Cargo(op, v) == [name |-> "rust", op |-> op, version |-> v, cache |-> "sccache"]

Plain ==
    [os |-> {}, arch |-> {}, labels |-> {}, min_memory |-> 0, min_disk |-> 0, shell |-> "bash",
     secrets |-> {}, tools |-> <<>>, policy |-> "wait", risk |-> "normal",
     allow_local_fallback |-> TRUE, agent_ids |-> <<>>, os_order |-> <<>>,
     prefer_repo_cache |-> TRUE, prefer_build_cache |-> TRUE, repo |-> "repo", base |-> None,
     project |-> "repo", transfer_mb |-> 1]

Waits    == [Plain EXCEPT !.labels = {<<"pool", "ci">>}, !.tools = <<Git, Cargo(">", <<1, 93>>)>>]
Hurries  == [Plain EXCEPT !.os = {"linux"}, !.policy = "fail_fast", !.tools = <<Cargo("any", <<>>)>>]
HostOnly == [Plain EXCEPT !.os = {"windows"}, !.policy = "local_fallback"]

\* A job an Agent and the host can both run.
Either == [Plain EXCEPT !.policy = "local_fallback"]

MCRequest == (j1 :> Waits) @@ (j2 :> Hurries) @@ (j3 :> HostOnly)
MCRequestEither == [j \in Jobs |-> Either]
MCResults == [j \in Jobs |-> {"succeeded"}]
MCOrderOne == <<j1>>
MCOrder == <<j3, j1, j2>>
MCHost == [os |-> "windows", shells |-> {"bash", "pwsh"}, score |-> 30]

=============================================================================
