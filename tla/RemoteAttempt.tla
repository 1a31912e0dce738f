---------------------------- MODULE RemoteAttempt ----------------------------
(***************************************************************************)
(* A job's attempts on a remote Agent: the Controller's attempt and job    *)
(* rows, its recovery timers and its pending asynchronous work; the        *)
(* Agent's attempt registry, process and metadata on disk; the WebSocket   *)
(* between them, which loses what is in flight when it breaks and which    *)
(* the two sides see breaking at different times.                          *)
(*                                                                         *)
(* There is one Agent.  SQLite and metadata writes are synchronous, so a   *)
(* message handler up to its first await is one action.  Every attempt has *)
(* its own lease id, and its epoch changes only when the attempt completes *)
(* (bumpLeaseEpoch in the lease_reject handler), so the attempt stands for *)
(* the whole fencing token.                                                *)
(***************************************************************************)
EXTENDS Integers, Sequences, FiniteSets

CONSTANTS
    Jobs, Attempts,
    JobOf,         \* the job each attempt is for
    NoAttempt,     \* "no attempt yet"
    FailFast,      \* jobs with queue_policy fail_fast
    Overlay,       \* attempts whose source is a git overlay
    Unpreparable,  \* attempts whose source the Controller may fail to provide
    Destructive,   \* attempts with risk level destructive or hardware
    SameHost,      \* the Agent runs on the Controller's host
    MaxJobs,       \* the Agent's slots
    MaxDispatches, \* bound: dispatches of one job in progress at a time
    MaxCuts, MaxRestarts, MaxReboots, MaxCancels   \* bounds on the environment

ASSUME AttemptConstants ==
    /\ IsFiniteSet(Attempts)
    /\ JobOf \in [Attempts -> Jobs]
    /\ NoAttempt \notin Attempts
    /\ FailFast \subseteq Jobs
    /\ Overlay \subseteq Attempts
    /\ Unpreparable \subseteq Attempts
    /\ Destructive \subseteq Attempts
    /\ SameHost \in BOOLEAN
    /\ MaxJobs \in Nat \ {0}
    /\ MaxDispatches \in Nat
    /\ {MaxCuts, MaxRestarts, MaxReboots, MaxCancels} \subseteq Nat

VARIABLES
    \* Controller database: job_attempts and jobs (current: the latest attempt)
    state, outcome, identity, job, jobOutcome, current,
    \* Controller memory: armed timers by attempt, promises not yet settled
    grace, orphan, reconcile, work,
    \* Controller's session, Agent's socket, frames in flight, boot ids
    session, link, toAgent, toController, boot, bootSeen,
    \* Agent memory: registry and handler progress, cancel signals, rejected
    \* attempts, the metadata reportAll has read and not yet reported
    phase, cancelled, rejected, reporting,
    \* Agent disk: metadata status, whether it has a process identity, last_exit
    meta, fenced, exit,
    \* what the run of an attempt came to on the Agent (a history variable)
    result,
    \* environment steps so far
    cuts, restarts, reboots, cancels

rows == <<state, outcome, identity, job, jobOutcome, current>>
timers == <<grace, orphan, reconcile>>
wire == <<session, link, boot, bootSeen>>
registry == <<phase, cancelled, rejected, reporting>>
files == <<meta, fenced, exit, result>>
faults == <<cuts, restarts, reboots, cancels>>
controller == <<rows, timers, work>>
agent == <<registry, files>>
vars == <<controller, wire, toAgent, toController, agent, faults>>

-----------------------------------------------------------------------------
States == {"absent", "leasing", "preparing_source", "running",
           "collecting_artifacts", "orphaned", "completed"}
JobStates == (States \ {"absent", "orphaned"}) \cup {"queued"}
Outcomes == {"none", "succeeded", "failed", "cancelled", "lost"}
Results == {"none", "succeeded", "failed", "cancelled"}
Phases == {"none", "reserved", "overlaying", "awaiting", "escalated", "preparing",
           "ready", "starting", "running", "expired", "exited", "granting",
           "cleaning", "resuming", "resumed", "zombiePrepare", "zombieRun"}
Metas == {"none", "accepted", "running", "orphaned", "completed", "terminal"}

Active(a) == state[a] \notin {"absent", "completed"}

(* Attempts the registry holds; a zombie is a handler that goes on after its
   attempt was taken out. *)
Registered(a) == phase[a] \notin {"none", "zombiePrepare", "zombieRun"}
(* matchesReservedLease: a runtime made by resumeArtifactUpload has no offer. *)
Offered(a) == Registered(a) /\ phase[a] \notin {"resuming", "resumed"}

Frame(t, a, x) == [type |-> t, a |-> a, x |-> x]

(* A frame sent on a session whose socket is gone is lost. *)
ToAgent(m) ==
    toAgent' = IF session = "live" THEN Append(toAgent, m) ELSE toAgent
ToController(ms) ==
    toController' = IF session = "live" /\ link = "up"
                    THEN toController \o ms ELSE toController

-----------------------------------------------------------------------------
(* Controller: writes that end attempts also end their jobs. *)
CompleteAll(S, o) ==
    /\ state' = [a \in Attempts |-> IF a \in S THEN "completed" ELSE state[a]]
    /\ outcome' = [a \in Attempts |-> IF a \in S THEN o ELSE outcome[a]]
    /\ job' = [j \in Jobs |-> IF \E a \in S : JobOf[a] = j
                              THEN "completed" ELSE job[j]]
    /\ jobOutcome' = [j \in Jobs |-> IF \E a \in S : JobOf[a] = j
                                     THEN o ELSE jobOutcome[j]]
    /\ UNCHANGED <<identity, current>>

(* transitionAttemptState and transitionJobState to one and the same state. *)
Advance(a, s) ==
    /\ state' = [state EXCEPT ![a] = s]
    /\ job' = [job EXCEPT ![JobOf[a]] = s]

ClearTimers(S) ==
    /\ grace' = grace \ S
    /\ orphan' = orphan \ S
    /\ reconcile' = reconcile \ S

(* A job that ends without an attempt. *)
FinishJob(j, o) ==
    /\ job' = [job EXCEPT ![j] = "completed"]
    /\ jobOutcome' = [jobOutcome EXCEPT ![j] = o]
    /\ UNCHANGED <<state, outcome, identity, current>>

(* dispatchJobExecution of a queued job, up to its await: it will create attempt
   a, if any.  Submission, every connection event and the periodic sweep each
   start one. *)
DispatchJob(a) ==
    /\ job[JobOf[a]] = "queued"
    /\ state[a] = "absent" /\ <<"dispatch", a>> \notin work
    /\ Cardinality({b \in Attempts : JobOf[b] = JobOf[a] /\ <<"dispatch", b>> \in work})
          < MaxDispatches
    /\ work' = work \cup {<<"dispatch", a>>}
    /\ UNCHANGED <<rows, timers, wire, toAgent, toController, agent, faults>>

(* An Agent is selected and still connected: initiateRemoteAttempt, whatever has
   become of the job. *)
InitiateRemoteAttempt(a) ==
    /\ <<"dispatch", a>> \in work
    /\ work' = work \ {<<"dispatch", a>>}
    /\ session # "none"
    /\ Advance(a, "leasing")
    /\ current' = [current EXCEPT ![JobOf[a]] = a]
    /\ ToAgent(Frame("lease_offer", a, "none"))
    /\ UNCHANGED <<outcome, identity, jobOutcome, timers, wire, toController, agent,
                   faults>>

(* No Agent is eligible: the job is left to a later dispatch, or fails. *)
NoAgentSelected(a) ==
    /\ <<"dispatch", a>> \in work
    /\ work' = work \ {<<"dispatch", a>>}
    /\ \/ JobOf[a] \in FailFast /\ FinishJob(JobOf[a], "failed")
       \/ JobOf[a] \notin FailFast /\ UNCHANGED rows
    /\ UNCHANGED <<timers, wire, toAgent, toController, agent, faults>>

(* Mutant of Expected: job_exit is accepted whatever the attempt's state. *)
MutantExpectedTooLate ==
    [lease_accept |-> {"leasing"}, lease_reject |-> {"leasing"},
     source_need |-> {"preparing_source"}, source_ready |-> {"preparing_source"},
     job_started |-> {"running"},
     job_exit |-> {"leasing", "preparing_source", "running", "orphaned",
                   "collecting_artifacts", "completed"},
     artifact_manifest |-> {"collecting_artifacts"},
     cleanup_complete |-> {"collecting_artifacts"}]

(* rejectStale: the states in which each frame is accepted.  Leases do not
   expire while a session delivers heartbeats: the heartbeat timeout is shorter
   than the lease. *)
Expected ==
    [lease_accept |-> {"leasing"}, lease_reject |-> {"leasing"},
     source_need |-> {"preparing_source"}, source_ready |-> {"preparing_source"},
     job_started |-> {"running"},
     job_exit |-> {"leasing", "preparing_source", "running", "orphaned",
                   "collecting_artifacts"},
     artifact_manifest |-> {"collecting_artifacts"},
     cleanup_complete |-> {"collecting_artifacts"}]

Received(t, a) ==
    /\ toController # <<>>
    /\ Head(toController).type = t /\ Head(toController).a = a
    /\ toController' = Tail(toController)

Accepted(t, a) == Received(t, a) /\ state[a] \in Expected[t]

IgnoreStale ==
    /\ toController # <<>>
    /\ LET m == Head(toController) IN
       m.type \in DOMAIN Expected /\ state[m.a] \notin Expected[m.type]
    /\ toController' = Tail(toController)
    /\ UNCHANGED <<controller, wire, toAgent, agent, faults>>

HandleLeaseAccept(a) ==
    /\ Accepted("lease_accept", a)
    /\ \/ /\ Advance(a, "preparing_source")
          /\ ToAgent(Frame("prepare_source", a, IF a \in Overlay THEN "overlay" ELSE "full"))
          /\ UNCHANGED <<outcome, identity, jobOutcome, current>>
       \/ a \in Unpreparable /\ CompleteAll({a}, "failed") /\ UNCHANGED toAgent
    /\ UNCHANGED <<timers, work, wire, agent, faults>>

(* The offer is abandoned; the job fails or goes back to the queue. *)
HandleLeaseReject(a) ==
    /\ Accepted("lease_reject", a)
    /\ \/ JobOf[a] \in FailFast /\ CompleteAll({a}, "failed")
       \/ /\ JobOf[a] \notin FailFast
          /\ state' = [state EXCEPT ![a] = "completed"]
          /\ outcome' = [outcome EXCEPT ![a] = "failed"]
          /\ job' = [job EXCEPT ![JobOf[a]] = "queued"]
          /\ jobOutcome' = [jobOutcome EXCEPT ![JobOf[a]] = "none"]
          /\ UNCHANGED <<identity, current>>
    /\ UNCHANGED <<timers, work, wire, toAgent, agent, faults>>

(* handleRemoteSourceNeed up to its await: createGitBundle, or the archive for
   the full-mode fallback, is under way, or cannot even be started. *)
HandleSourceNeed(a) ==
    /\ Accepted("source_need", a)
    /\ \/ work' = work \cup {<<Head(toController).x, a>>} /\ UNCHANGED rows
       \/ a \in Unpreparable /\ CompleteAll({a}, "failed") /\ UNCHANGED work
    /\ UNCHANGED <<timers, wire, toAgent, agent, faults>>

(* The rest of it, whatever has become of the attempt meanwhile.  The frame goes
   to the socket found before the await, and nowhere if that is gone. *)
SourceProvided(a) ==
    /\ \/ /\ <<"bundle", a>> \in work
          /\ work' = work \ {<<"bundle", a>>}
          /\ ToAgent(Frame("bundle_download", a, "none"))
       \/ /\ <<"fallback", a>> \in work
          /\ work' = work \ {<<"fallback", a>>}
          /\ ToAgent(Frame("prepare_source", a, "full"))
       \/ /\ <<"severed", a>> \in work
          /\ work' = work \ {<<"severed", a>>}
          /\ UNCHANGED toAgent
    /\ UNCHANGED <<rows, timers, wire, toController, agent, faults>>

SourceFails(a) ==
    /\ a \in Unpreparable
    /\ \E k \in {"bundle", "fallback", "severed"} :
          <<k, a>> \in work /\ work' = work \ {<<k, a>>}
    /\ CompleteAll({a}, "failed")
    /\ UNCHANGED <<timers, wire, toAgent, toController, agent, faults>>

HandleSourceReady(a) ==
    /\ Accepted("source_ready", a)
    /\ Advance(a, "running")
    /\ ToAgent(Frame("run_job", a, "none"))
    /\ UNCHANGED <<outcome, identity, jobOutcome, current, timers, work, wire, agent,
                   faults>>

(* processIdentityFromPid looks the Agent's pid up on the Controller's host: it
   finds the process only there, and elsewhere another process or none. *)
HandleJobStarted(a) ==
    /\ Accepted("job_started", a)
    /\ \E i \in {identity[a], IF SameHost THEN "same" ELSE "other"} :
          identity' = [identity EXCEPT ![a] = i]
    /\ UNCHANGED <<state, outcome, job, jobOutcome, current, timers, work, wire,
                   toAgent, agent, faults>>

HandleJobExit(a) ==
    /\ Accepted("job_exit", a)
    /\ Advance(a, "collecting_artifacts")
    /\ outcome' = [outcome EXCEPT ![a] = Head(toController).x]
    /\ UNCHANGED <<identity, jobOutcome, current, timers, work, wire, toAgent, agent,
                   faults>>

(* filterMissingArtifacts, and draining the log chunks before an attempt leaves
   collecting_artifacts, are awaited. *)
HandleArtifactManifest(a) ==
    /\ Accepted("artifact_manifest", a)
    /\ work' = work \cup {<<"grant", a>>}
    /\ UNCHANGED <<rows, timers, wire, toAgent, agent, faults>>

GrantUpload(a) ==
    /\ <<"grant", a>> \in work
    /\ work' = work \ {<<"grant", a>>}
    /\ ToAgent(Frame("artifact_upload_grant", a, "none"))
    /\ UNCHANGED <<rows, timers, wire, toController, agent, faults>>

HandleCleanupComplete(a) ==
    /\ Accepted("cleanup_complete", a)
    /\ work' = work \cup {<<"drain", a>>}
    /\ UNCHANGED <<rows, timers, wire, toAgent, agent, faults>>

(* Mutant of CompleteCleanup: the cleanup script's exit decides the outcome. *)
MutantCleanupDecides(a) ==
    /\ <<"drain", a>> \in work
    /\ work' = work \ {<<"drain", a>>}
    /\ IF state[a] \in Expected["cleanup_complete"]
       THEN \E o \in {"succeeded", "failed"} : CompleteAll({a}, o)
       ELSE UNCHANGED rows
    /\ UNCHANGED <<timers, wire, toAgent, toController, agent, faults>>

(* The attempt is checked again after the drain.  An attempt without outcome
   takes one from the cleanup script's exit. *)
CompleteCleanup(a) ==
    /\ <<"drain", a>> \in work
    /\ work' = work \ {<<"drain", a>>}
    /\ IF state[a] \in Expected["cleanup_complete"]
       THEN \E o \in IF outcome[a] = "none" THEN {"succeeded", "failed"} ELSE {outcome[a]} :
               CompleteAll({a}, o)
       ELSE UNCHANGED rows
    /\ UNCHANGED <<timers, wire, toAgent, toController, agent, faults>>

(* requestRemoteJobCancel: the Agent is told. *)
RequestRemoteJobCancel(j) ==
    /\ state[current[j]] # "completed" /\ session # "none"
    /\ ToAgent(Frame("cancel_job", current[j], "none"))
    /\ UNCHANGED rows

(* handleJobCancel: when there is no live attempt or no session, the rows are
   finalised here. *)
CancelJob(j) ==
    /\ cancels < MaxCancels
    /\ cancels' = cancels + 1
    /\ job[j] # "completed"
    /\ IF current[j] = NoAttempt
       THEN FinishJob(j, "cancelled") /\ UNCHANGED toAgent
       ELSE \/ RequestRemoteJobCancel(j)
            \/ /\ state[current[j]] = "completed" \/ session = "none"
               /\ CompleteAll({current[j]}, "cancelled")
               /\ UNCHANGED toAgent
    /\ UNCHANGED <<timers, work, wire, toController, agent, cuts, restarts, reboots>>

-----------------------------------------------------------------------------
(* Controller: RecoveryCoordinator and the lease sweep. *)

(* onAgentDisconnect: attempts that were never told to run fail, all others
   get a grace period.  ControllerDrops is the close of the current socket,
   which a missed heartbeat brings about at the latest. *)
PreStart(a) == state[a] \in {"leasing", "preparing_source"} /\ identity[a] = "none"

OnAgentDisconnect ==
    LET failed == {a \in Attempts : PreStart(a)} IN
    /\ CompleteAll(failed, "failed")
    /\ grace' = (grace \ failed) \cup {a \in Attempts \ failed : Active(a)}
    /\ orphan' = orphan \ failed
    /\ reconcile' = reconcile \ failed

ControllerDrops ==
    /\ \/ session = "stale" /\ UNCHANGED cuts
       \/ session = "live" /\ cuts < MaxCuts /\ cuts' = cuts + 1
    /\ session' = "none"
    /\ toAgent' = <<>> /\ toController' = <<>>
    /\ OnAgentDisconnect
    /\ UNCHANGED <<work, link, boot, bootSeen, agent, restarts, reboots, cancels>>

(* onAgentConnect, then updateAgentCapabilities: a new boot id means that the
   Agent process restarted and that everything it ran is lost. *)
HandleCapabilities ==
    /\ Received("capabilities", NoAttempt)
    /\ LET lost == IF Head(toController).x = bootSeen THEN {}
                   ELSE {a \in Attempts : Active(a)} IN
       CompleteAll(lost, "lost") /\ ClearTimers(lost)
    /\ bootSeen' = Head(toController).x
    /\ UNCHANGED <<work, session, link, boot, toAgent, agent, faults>>

(* Mutant of OnGraceElapsed: the orphan timer is not armed. *)
MutantGraceArmsNothing(a) ==
    /\ a \in grace
    /\ grace' = grace \ {a}
    /\ state' = [state EXCEPT ![a] = IF Active(a) THEN "orphaned" ELSE @]
    /\ UNCHANGED <<outcome, identity, job, jobOutcome, current, orphan, reconcile, work,
                   wire, toAgent, toController, agent, faults>>

OnGraceElapsed(a) ==
    /\ a \in grace
    /\ grace' = grace \ {a}
    /\ IF Active(a)
       THEN /\ state' = [state EXCEPT ![a] = "orphaned"]
            /\ orphan' = orphan \cup {a}
       ELSE UNCHANGED <<state, orphan>>
    /\ UNCHANGED <<outcome, identity, job, jobOutcome, current, reconcile, work, wire,
                   toAgent, toController, agent, faults>>

(* Mutant of OnOrphanTimeout: only the attempt row is written. *)
MutantOrphanKeepsJob(a) ==
    /\ a \in orphan
    /\ orphan' = orphan \ {a}
    /\ IF state[a] = "orphaned"
       THEN /\ state' = [state EXCEPT ![a] = "completed"]
            /\ outcome' = [outcome EXCEPT ![a] = "lost"]
       ELSE UNCHANGED <<state, outcome>>
    /\ UNCHANGED <<identity, job, jobOutcome, current, grace, reconcile, work, wire,
                   toAgent, toController, agent, faults>>

(* Mutant of OnOrphanTimeout: the job of a lost attempt is queued again. *)
MutantOrphanRequeues(a) ==
    /\ a \in orphan
    /\ orphan' = orphan \ {a}
    /\ IF state[a] = "orphaned"
       THEN /\ state' = [state EXCEPT ![a] = "completed"]
            /\ outcome' = [outcome EXCEPT ![a] = "lost"]
            /\ job' = [job EXCEPT ![JobOf[a]] = "queued"]
       ELSE UNCHANGED <<state, outcome, job>>
    /\ UNCHANGED <<identity, jobOutcome, current, grace, reconcile, work, wire, toAgent,
                   toController, agent, faults>>

OnOrphanTimeout(a) ==
    /\ a \in orphan
    /\ IF state[a] = "orphaned"
       THEN CompleteAll({a}, "lost") /\ ClearTimers({a})
       ELSE orphan' = orphan \ {a} /\ UNCHANGED <<rows, grace, reconcile>>
    /\ UNCHANGED <<work, wire, toAgent, toController, agent, faults>>

OnReconcileDeadline(a) ==
    /\ a \in reconcile
    /\ IF Active(a)
       THEN CompleteAll({a}, "lost") /\ ClearTimers({a})
       ELSE reconcile' = reconcile \ {a} /\ UNCHANGED <<rows, grace, orphan>>
    /\ UNCHANGED <<work, wire, toAgent, toController, agent, faults>>

(* Mutant of Defer: the timers stay cleared. *)
MutantDeferUnwatched(a) ==
    /\ Active(a) /\ identity[a] = "none"
    /\ ClearTimers({a})
    /\ UNCHANGED <<rows, toAgent>>

(* Mutant of Defer: an unknown identity counts as another process. *)
MutantDeferTerminates(a) ==
    /\ Active(a) /\ identity[a] = "none"
    /\ ClearTimers({a})
    /\ CompleteAll({a}, "failed")
    /\ ToAgent(Frame("reconcile_decision", a, "terminate"))

(* onRecoveryReport and decide.  The report clears the attempt's timers; an
   attempt whose identity is not known yet gets its watchdog back. *)
Defer(a) ==
    /\ Active(a) /\ identity[a] = "none"
    /\ IF state[a] = "orphaned"
       THEN orphan' = orphan \cup {a} /\ grace' = grace \ {a}
       ELSE grace' = grace \cup {a} /\ orphan' = orphan \ {a}
    /\ reconcile' = reconcile \ {a}
    /\ UNCHANGED <<rows, toAgent>>

Adopt(a) ==
    /\ Active(a) /\ identity[a] = "same"
    /\ ClearTimers({a})
    /\ state' = [state EXCEPT ![a] = IF Head(toController).x = "completed"
                                     THEN "collecting_artifacts" ELSE "running"]
    /\ ToAgent(Frame("reconcile_decision", a, "adopt"))
    /\ UNCHANGED <<outcome, identity, job, jobOutcome, current>>

TerminateStale(a) ==
    /\ ~Active(a) \/ identity[a] = "other"
    /\ ClearTimers({a})
    /\ IF Active(a) THEN CompleteAll({a}, "failed") ELSE UNCHANGED rows
    /\ ToAgent(Frame("reconcile_decision", a, "terminate"))

HandleRecoveryReport(a) ==
    /\ Received("recovery_report", a)
    /\ Defer(a) \/ Adopt(a) \/ TerminateStale(a)
    /\ UNCHANGED <<work, wire, agent, faults>>

(* expireStaleLeases: without heartbeats a lease runs out, but a disconnect
   extends it beyond the grace period and the orphan timeout. *)
ExpireStaleLease(a) ==
    /\ Active(a) /\ state[a] # "orphaned"
    /\ session = "none" /\ a \notin grace
    /\ CompleteAll({a}, "failed")
    /\ UNCHANGED <<timers, work, wire, toAgent, toController, agent, faults>>

(* The Controller process ends and starts again (onControllerStartup). *)
ControllerRestarts ==
    /\ restarts < MaxRestarts
    /\ restarts' = restarts + 1
    /\ session' = "none"
    /\ toAgent' = <<>> /\ toController' = <<>>
    /\ grace' = {} /\ orphan' = {}
    /\ reconcile' = {a \in Attempts : Active(a)}
    /\ work' = {}
    /\ UNCHANGED <<rows, link, boot, bootSeen, agent, cuts, reboots, cancels>>

-----------------------------------------------------------------------------
(* Agent: the executor. *)
Command(t, a) ==
    /\ link = "up" /\ toAgent # <<>>
    /\ Head(toAgent).type = t /\ Head(toAgent).a = a
    /\ toAgent' = Tail(toAgent)

SetPhase(a, p) == phase' = [phase EXCEPT ![a] = p]
SetMeta(a, s) == meta' = [meta EXCEPT ![a] = s]

ExitFrames(a, o) == <<Frame("job_exit", a, o), Frame("cleanup_complete", a, "none")>>

(* Mutant of EndAttempt: cleanup_complete is not sent. *)
MutantEndExitOnly(a, o) ==
    /\ SetPhase(a, "none")
    /\ SetMeta(a, "none")
    /\ ToController(<<Frame("job_exit", a, o)>>)

(* Mutant of EndAttempt: the attempt stays in the registry. *)
MutantEndKeepsSlot(a, o) ==
    /\ SetPhase(a, "ready")
    /\ SetMeta(a, "none")
    /\ ToController(ExitFrames(a, o))

(* sendCancelledTerminal or failTerminal, then clearAttempt: the metadata is
   removed and the slot is free. *)
EndAttempt(a, o) ==
    /\ SetPhase(a, "none")
    /\ SetMeta(a, "none")
    /\ ToController(ExitFrames(a, o))

(* A rejected attempt is not answered; the offer is refused when the slots are taken or the disk is short. *)
HandleLeaseOffer(a) ==
    /\ Command("lease_offer", a)
    /\ \/ a \in rejected /\ UNCHANGED <<agent, toController>>
       \/ /\ a \notin rejected
          /\ ToController(<<Frame("lease_reject", a, "none")>>)
          /\ UNCHANGED agent
       \/ /\ a \notin rejected
          /\ Cardinality({b \in Attempts : Registered(b)}) < MaxJobs
          /\ SetPhase(a, "reserved")
          /\ SetMeta(a, "accepted")
          /\ ToController(<<Frame("lease_accept", a, "none")>>)
          /\ UNCHANGED <<cancelled, rejected, reporting, fenced, exit, result>>
    /\ UNCHANGED <<controller, wire, faults>>

HandlePrepareSource(a) ==
    /\ Command("prepare_source", a)
    /\ IF Offered(a)
       THEN SetPhase(a, IF Head(toAgent).x = "full" THEN "preparing" ELSE "overlaying")
       ELSE UNCHANGED phase
    /\ UNCHANGED <<controller, wire, toController, cancelled, rejected, reporting,
                   files, faults>>

(* handlePrepareGitOverlay finds the base commit missing and asks for a bundle. *)
RequestBundle(a) ==
    /\ phase[a] = "overlaying" /\ a \notin cancelled
    /\ SetPhase(a, "awaiting")
    /\ ToController(<<Frame("source_need", a, "bundle")>>)
    /\ UNCHANGED <<controller, wire, toAgent, cancelled, rejected, reporting, files,
                   faults>>

(* The bundle arrived and is imported: it has the commit, or the full snapshot
   is asked for. *)
HandleBundleDownload(a) ==
    /\ Command("bundle_download", a)
    /\ \/ phase[a] # "awaiting" /\ UNCHANGED <<phase, toController>>
       \/ phase[a] = "awaiting" /\ SetPhase(a, "preparing") /\ UNCHANGED toController
       \/ /\ phase[a] = "awaiting"
          /\ SetPhase(a, "escalated")
          /\ ToController(<<Frame("source_need", a, "fallback")>>)
    /\ UNCHANGED <<controller, wire, cancelled, rejected, reporting, files, faults>>

(* waitForBundleDownload times out, also while the bundle is still being made. *)
BundleTimesOut(a) ==
    /\ phase[a] = "awaiting"
    /\ SetPhase(a, "escalated")
    /\ ToController(<<Frame("source_need", a, "fallback")>>)
    /\ UNCHANGED <<controller, wire, toAgent, cancelled, rejected, reporting, files,
                   faults>>

PrepareEnds(a) ==
    /\ phase[a] \in {"preparing", "overlaying"}
    /\ \/ /\ a \notin cancelled
          /\ SetPhase(a, "ready")
          /\ ToController(<<Frame("source_ready", a, "none")>>)
          /\ UNCHANGED meta
       \/ EndAttempt(a, IF a \in cancelled THEN "cancelled" ELSE "failed")
    /\ UNCHANGED <<controller, wire, toAgent, cancelled, rejected, reporting, fenced,
                   exit, result, faults>>

HandleRunJob(a) ==
    /\ Command("run_job", a)
    /\ IF phase[a] = "ready" THEN SetPhase(a, "starting") ELSE UNCHANGED phase
    /\ UNCHANGED <<controller, wire, toController, cancelled, rejected, reporting,
                   files, faults>>

(* Before the spawn: a toolchain or a secret is missing, or the cancel signal. *)
StartFails(a) ==
    /\ phase[a] = "starting"
    /\ EndAttempt(a, IF a \in cancelled THEN "cancelled" ELSE "failed")
    /\ UNCHANGED <<controller, wire, toAgent, cancelled, rejected, reporting, fenced,
                   exit, result, faults>>

(* The metadata gets the process identity, if the process can be looked up. *)
SpawnJobScript(a) ==
    /\ phase[a] = "starting" /\ a \notin cancelled
    /\ SetPhase(a, "running")
    /\ \/ UNCHANGED <<meta, fenced>>
       \/ SetMeta(a, "running") /\ fenced' = fenced \cup {a}
    /\ ToController(<<Frame("job_started", a, "none")>>)
    /\ UNCHANGED <<controller, wire, toAgent, cancelled, rejected, reporting, exit,
                   result, faults>>

(* persistCompletedAwaitingUpload, then job_exit. *)
ProcessExits(a) ==
    /\ phase[a] = "running"
    /\ \E o \in IF a \in cancelled THEN {"cancelled"} ELSE {"succeeded", "failed"} :
          /\ exit' = [exit EXCEPT ![a] = o]
          /\ result' = [result EXCEPT ![a] = o]
          /\ ToController(<<Frame("job_exit", a, o)>>)
    /\ SetPhase(a, "exited")
    /\ SetMeta(a, "completed")
    /\ UNCHANGED <<controller, wire, toAgent, cancelled, rejected, reporting, fenced,
                   faults>>

(* Artifacts are collected, staged, and upload tokens requested. *)
CollectArtifacts(a) ==
    /\ phase[a] = "exited"
    /\ \/ /\ SetPhase(a, "granting")
          /\ SetMeta(a, "completed")
          /\ ToController(<<Frame("artifact_manifest", a, "none")>>)
          /\ UNCHANGED result
       \/ /\ EndAttempt(a, "failed")
          /\ result' = [result EXCEPT ![a] = "failed"]
    /\ UNCHANGED <<controller, wire, toAgent, cancelled, rejected, reporting, fenced,
                   exit, faults>>

HandleArtifactUploadGrant(a) ==
    /\ Command("artifact_upload_grant", a)
    /\ phase' = [phase EXCEPT ![a] = IF @ = "granting" THEN "cleaning"
                                     ELSE IF @ = "resuming" THEN "resumed" ELSE @]
    /\ UNCHANGED <<controller, wire, toController, cancelled, rejected, reporting,
                   files, faults>>

(* The token timer is long enough for an answer that is on its way. *)
AwaitsGrant(a) ==
    /\ session = "live" /\ link = "up"
    /\ \/ <<"grant", a>> \in work
       \/ \E i \in DOMAIN toAgent : toAgent[i] = Frame("artifact_upload_grant", a, "none")
       \/ \E i \in DOMAIN toController :
             toController[i] = Frame("artifact_manifest", a, "none")

(* requestArtifactUploadTokens times out: run_job fails, a resumed upload just
   ends and stays registered. *)
GrantTimesOut(a) ==
    /\ ~AwaitsGrant(a)
    /\ \/ phase[a] = "granting" /\ EndAttempt(a, "failed")
       \/ phase[a] = "resuming" /\ SetPhase(a, "resumed") /\ UNCHANGED <<meta, toController>>
    /\ UNCHANGED <<controller, wire, toAgent, cancelled, rejected, reporting, fenced,
                   exit, result, faults>>

(* Uploads and the cleanup script are done; the metadata is left as it is. *)
CleanupEnds(a) ==
    /\ phase[a] = "cleaning"
    /\ SetPhase(a, "none")
    /\ ToController(<<Frame("cleanup_complete", a, "none")>>)
    /\ UNCHANGED <<controller, wire, toAgent, cancelled, rejected, reporting, files,
                   faults>>

(* handleCancelJob: before a process exists the slot is freed at once, later
   and while the source is prepared the signal is left for the handler. *)
HandleCancelJob(a) ==
    /\ Command("cancel_job", a)
    /\ cancelled' = IF Offered(a) THEN cancelled \cup {a} ELSE cancelled
    /\ IF phase[a] \in {"reserved", "ready", "awaiting"}
       THEN EndAttempt(a, "cancelled")
       ELSE UNCHANGED <<phase, meta, toController>>
    /\ UNCHANGED <<controller, wire, rejected, reporting, fenced, exit, result, faults>>

(* onLeaseExpired: without a connection nothing renews the lease, and a
   destructive or hardware attempt stops itself. *)
SelfTerminate(a) ==
    /\ link = "down" /\ a \in Destructive
    /\ Offered(a) /\ meta[a] # "terminal"
    /\ cancelled' = cancelled \cup {a}
    /\ SetMeta(a, "terminal")
    /\ phase' = [phase EXCEPT ![a] = IF @ = "running" THEN "expired" ELSE @]
    /\ UNCHANGED <<controller, wire, toAgent, toController, rejected, reporting, fenced,
                   exit, result, faults>>

SelfTerminated(a) ==
    /\ phase[a] = "expired"
    /\ SetPhase(a, "none")
    /\ result' = [result EXCEPT ![a] = "failed"]
    /\ ToController(ExitFrames(a, "failed"))
    /\ UNCHANGED <<controller, wire, toAgent, cancelled, rejected, reporting, meta,
                   fenced, exit, faults>>

(* A handler whose attempt was taken from the registry goes on to its end, and
   removes what metadata it wrote again. *)
ZombieEnds(a) ==
    /\ phase[a] \in {"zombiePrepare", "zombieRun"}
    /\ \E ms \in IF phase[a] = "zombiePrepare"
                 THEN {<<>>, ExitFrames(a, "cancelled")}
                 ELSE IF result[a] = "none"
                 THEN {<<Frame("job_exit", a, "cancelled")>> \o ExitFrames(a, "failed")}
                 ELSE {ExitFrames(a, "failed"), <<Frame("cleanup_complete", a, "none")>>} :
          ToController(ms)
    /\ SetPhase(a, "none")
    /\ UNCHANGED <<controller, wire, toAgent, cancelled, rejected, reporting, files,
                   faults>>

-----------------------------------------------------------------------------
(* Agent: AgentRecoveryCoordinator and the connection. *)

(* forceAbandonAttempt and the removal of the metadata. *)
Abandoned(p) ==
    IF p \in {"overlaying", "preparing", "starting"} THEN "zombiePrepare"
    ELSE IF p \in {"running", "expired", "exited", "granting", "cleaning"} THEN "zombieRun"
    ELSE IF p \in {"zombiePrepare", "zombieRun"} THEN p ELSE "none"

Terminate(a) ==
    /\ rejected' = rejected \cup {a}
    /\ cancelled' = cancelled \cup {a}
    /\ phase' = [phase EXCEPT ![a] = Abandoned(@)]
    /\ SetMeta(a, "none")

(* Mutant of Parked: the attempt is parked as if it had ended. *)
MutantParkedTerminal(a) ==
    IF Registered(a) /\ meta[a] \in {"accepted", "running"} THEN "terminal" ELSE meta[a]

(* The socket closes: every registered attempt is parked (onDisconnectPark). *)
Parked(a) ==
    IF Registered(a) /\ meta[a] \in {"accepted", "running"} THEN "orphaned" ELSE meta[a]

AgentDrops ==
    /\ link = "up"
    /\ \/ session = "none" /\ UNCHANGED <<cuts, session>>
       \/ session = "live" /\ cuts < MaxCuts /\ cuts' = cuts + 1 /\ session' = "stale"
    /\ link' = "down"
    /\ toAgent' = <<>> /\ toController' = <<>>
    /\ meta' = [a \in Attempts |-> Parked(a)]
    /\ UNCHANGED <<controller, boot, bootSeen, registry, fenced, exit, result, restarts,
                   reboots, cancels>>

(* What reportAll reads of an attempt: nothing to report, no process identity,
   or the status it will report. *)
ReadMeta(a) ==
    IF meta[a] \in {"none", "terminal"} THEN "none"
    ELSE IF a \notin fenced THEN "unfenced"
    ELSE IF meta[a] = "completed" THEN "completed" ELSE "live"

(* An authenticated session replaces the one the Controller may still hold,
   whose close is then ignored: what was waiting to use that one is severed from
   the Agent.  The Agent sends its capabilities and starts
   reportAll. *)
Reconnect ==
    /\ link = "down"
    /\ link' = "up" /\ session' = "live"
    /\ toController' = <<Frame("capabilities", NoAttempt, boot)>>
    /\ reporting' = [a \in Attempts |-> "unread"]
    /\ work' = {<<IF w[1] \in {"bundle", "fallback"} THEN "severed" ELSE w[1], w[2]>> :
                  w \in work}
    /\ UNCHANGED <<rows, timers, toAgent, boot, bootSeen, phase, cancelled, rejected,
                   files, faults>>

(* listAttemptMetadata: the directory is read some time later, when an offer may
   have been accepted on the new session. *)
ListAttemptMetadata ==
    /\ \E a \in Attempts : reporting[a] = "unread"
    /\ reporting' = [a \in Attempts |-> ReadMeta(a)]
    /\ UNCHANGED <<controller, wire, toAgent, toController, phase, cancelled, rejected,
                   files, faults>>

(* emitRecoveryReport, or discardUnfencedLeftover for metadata without identity. *)
EmitRecoveryReport(a) ==
    /\ reporting[a] \notin {"none", "unread"}
    /\ reporting' = [reporting EXCEPT ![a] = "none"]
    /\ IF reporting[a] = "unfenced"
       THEN Terminate(a) /\ UNCHANGED toController
       ELSE /\ ToController(<<Frame("recovery_report", a, reporting[a])>>)
            /\ UNCHANGED <<phase, cancelled, rejected, meta>>
    /\ UNCHANGED <<controller, wire, toAgent, fenced, exit, result, faults>>

(* After adopt of a finished run: job_exit again and, unless no manifest is
   staged yet or an upload is pending, artifact_manifest again, in a registry
   entry of its own if need be. *)
ResumeUpload(a) ==
    LET again == phase[a] \in {"none", "resumed", "cleaning"} IN
    /\ ToController(<<Frame("job_exit", a, exit[a])>> \o
                    IF again THEN <<Frame("artifact_manifest", a, "none")>> ELSE <<>>)
    /\ IF again /\ phase[a] # "cleaning" THEN SetPhase(a, "resuming") ELSE UNCHANGED phase

HandleReconcileDecision(a) ==
    /\ Command("reconcile_decision", a)
    /\ IF Head(toAgent).x = "terminate"
       THEN Terminate(a) /\ UNCHANGED toController
       ELSE /\ IF meta[a] = "completed"
               THEN ResumeUpload(a) ELSE UNCHANGED <<phase, toController>>
            /\ meta' = [meta EXCEPT ![a] = IF @ \in {"none", "completed"} THEN @ ELSE "running"]
            /\ UNCHANGED <<cancelled, rejected>>
    /\ UNCHANGED <<controller, wire, reporting, fenced, exit, result, faults>>

(* The Agent process ends and is started again: only its disk is left. *)
AgentRestarts ==
    /\ reboots < MaxReboots
    /\ reboots' = reboots + 1
    /\ boot' = boot + 1
    /\ link' = "down"
    /\ session' = IF session = "live" THEN "stale" ELSE session
    /\ toAgent' = <<>> /\ toController' = <<>>
    /\ phase' = [a \in Attempts |-> "none"]
    /\ cancelled' = {} /\ rejected' = {}
    /\ reporting' = [a \in Attempts |-> "none"]
    /\ UNCHANGED <<controller, bootSeen, files, cuts, restarts, cancels>>

-----------------------------------------------------------------------------
Init ==
    /\ state = [a \in Attempts |-> "absent"]
    /\ outcome = [a \in Attempts |-> "none"]
    /\ identity = [a \in Attempts |-> "none"]
    /\ job = [j \in Jobs |-> "queued"]
    /\ jobOutcome = [j \in Jobs |-> "none"]
    /\ current = [j \in Jobs |-> NoAttempt]
    /\ grace = {} /\ orphan = {} /\ reconcile = {} /\ work = {}
    /\ session = "live" /\ link = "up" /\ boot = 1 /\ bootSeen = 1
    /\ toAgent = <<>> /\ toController = <<>>
    /\ phase = [a \in Attempts |-> "none"]
    /\ cancelled = {} /\ rejected = {}
    /\ reporting = [a \in Attempts |-> "none"]
    /\ meta = [a \in Attempts |-> "none"]
    /\ fenced = {}
    /\ exit = [a \in Attempts |-> "none"]
    /\ result = [a \in Attempts |-> "none"]
    /\ cuts = 0 /\ restarts = 0 /\ reboots = 0 /\ cancels = 0

(* The handlers of the Controller for frames of one attempt. *)
ControllerHandles(a) ==
    \/ HandleLeaseAccept(a) \/ HandleLeaseReject(a) \/ HandleSourceNeed(a)
    \/ HandleSourceReady(a) \/ HandleJobStarted(a) \/ HandleJobExit(a)
    \/ HandleArtifactManifest(a) \/ HandleCleanupComplete(a)
    \/ HandleRecoveryReport(a)

ControllerSettles(a) ==
    \/ InitiateRemoteAttempt(a) \/ NoAgentSelected(a)
    \/ SourceProvided(a) \/ SourceFails(a) \/ GrantUpload(a) \/ CompleteCleanup(a)

TimerFires(a) == OnGraceElapsed(a) \/ OnOrphanTimeout(a) \/ OnReconcileDeadline(a)

AgentHandles(a) ==
    \/ HandleLeaseOffer(a) \/ HandlePrepareSource(a) \/ HandleBundleDownload(a)
    \/ HandleRunJob(a) \/ HandleArtifactUploadGrant(a) \/ HandleCancelJob(a)
    \/ HandleReconcileDecision(a)

AgentWorks(a) ==
    \/ RequestBundle(a) \/ BundleTimesOut(a) \/ PrepareEnds(a) \/ StartFails(a)
    \/ SpawnJobScript(a) \/ ProcessExits(a) \/ CollectArtifacts(a) \/ GrantTimesOut(a)
    \/ CleanupEnds(a) \/ SelfTerminated(a) \/ ZombieEnds(a)

Next ==
    \/ \E a \in Attempts :
          \/ DispatchJob(a) \/ ControllerHandles(a) \/ ControllerSettles(a)
          \/ TimerFires(a) \/ ExpireStaleLease(a) \/ AgentHandles(a) \/ AgentWorks(a)
          \/ SelfTerminate(a) \/ EmitRecoveryReport(a)
    \/ \E j \in Jobs : CancelJob(j)
    \/ IgnoreStale \/ HandleCapabilities \/ ListAttemptMetadata
    \/ ControllerDrops \/ AgentDrops \/ Reconnect
    \/ ControllerRestarts \/ AgentRestarts

Spec == Init /\ [][Next]_vars

(* What is scheduled happens: promises settle, timers fire, frames on a live
   session arrive, handlers and processes (which have a time limit) end, a
   dead socket is noticed, the Agent reconnects and reports. *)
Fairness ==
    /\ \A a \in Attempts :
          /\ WF_vars(ControllerSettles(a))
          /\ WF_vars(TimerFires(a))
          /\ WF_vars(AgentWorks(a))
          /\ WF_vars(EmitRecoveryReport(a))
    /\ WF_vars(IgnoreStale \/ HandleCapabilities \/ \E a \in Attempts : ControllerHandles(a))
    /\ WF_vars(\E a \in Attempts : AgentHandles(a))
    /\ WF_vars(session = "stale" /\ ControllerDrops)
    /\ WF_vars(session = "none" /\ AgentDrops)
    /\ WF_vars(Reconnect)
    /\ WF_vars(ListAttemptMetadata)

FairSpec == Spec /\ Fairness

-----------------------------------------------------------------------------
Commands ==
    [type : {"lease_offer", "bundle_download", "run_job", "artifact_upload_grant",
             "cancel_job"}, a : Attempts, x : {"none"}]
    \cup [type : {"prepare_source"}, a : Attempts, x : {"full", "overlay"}]
    \cup [type : {"reconcile_decision"}, a : Attempts, x : {"adopt", "terminate"}]

Notices ==
    [type : {"lease_accept", "lease_reject", "source_ready", "job_started",
             "artifact_manifest", "cleanup_complete"}, a : Attempts, x : {"none"}]
    \cup [type : {"source_need"}, a : Attempts, x : {"bundle", "fallback"}]
    \cup [type : {"job_exit"}, a : Attempts, x : Results]
    \cup [type : {"recovery_report"}, a : Attempts, x : {"live", "completed"}]
    \cup [type : {"capabilities"}, a : {NoAttempt}, x : Nat]

(* Rows, timers, frames and the Agent's registry stay in their types: an attempt
   is never given a state of the other side's vocabulary. *)
TypeOK ==
    /\ state \in [Attempts -> States]
    /\ outcome \in [Attempts -> Outcomes]
    /\ identity \in [Attempts -> {"none", "same", "other"}]
    /\ job \in [Jobs -> JobStates]
    /\ jobOutcome \in [Jobs -> Outcomes]
    /\ current \in [Jobs -> Attempts \cup {NoAttempt}]
    /\ grace \subseteq Attempts /\ orphan \subseteq Attempts /\ reconcile \subseteq Attempts
    /\ work \subseteq {"dispatch", "bundle", "fallback", "severed", "grant", "drain"} \X Attempts
    /\ session \in {"none", "live", "stale"}
    /\ link \in {"up", "down"}
    /\ boot \in Nat /\ bootSeen \in Nat
    /\ toAgent \in Seq(Commands) /\ toController \in Seq(Notices)
    /\ phase \in [Attempts -> Phases]
    /\ cancelled \subseteq Attempts /\ rejected \subseteq Attempts
    /\ reporting \in [Attempts -> {"none", "unread", "unfenced", "live", "completed"}]
    /\ meta \in [Attempts -> Metas]
    /\ fenced \subseteq Attempts
    /\ exit \in [Attempts -> Results] /\ result \in [Attempts -> Results]
    /\ {cuts, restarts, reboots, cancels} \subseteq Nat

-----------------------------------------------------------------------------
(* An orphaned attempt is always watched by a timer that will end it: no order
   of reports, frames, disconnects, grace periods and restarts leaves one in
   orphaned with all its timers cleared (onRecoveryReport clears them first). *)
OrphanWatched ==
    \A a \in Attempts : state[a] = "orphaned" => a \in orphan \cup reconcile

(* Job and attempt rows agree: only a job's latest attempt is ever active; the
   job is queued or completed exactly when that one is not; a completed job has
   the outcome of its latest attempt. *)
JobFollowsAttempt ==
    /\ \A a \in Attempts : Active(a) => current[JobOf[a]] = a
    /\ \A j \in Jobs :
          job[j] \in {"queued", "completed"}
             <=> (current[j] = NoAttempt \/ state[current[j]] = "completed")
    /\ \A j \in Jobs :
          job[j] = "completed" /\ current[j] # NoAttempt
             => jobOutcome[j] = outcome[current[j]]

(* Alive on the Agent, also while it is being killed. *)
HasProcess(a) ==
    \/ phase[a] \in {"running", "expired"}
    \/ phase[a] = "zombieRun" /\ result[a] = "none"

(* A job never has two processes: neither a reject and a new offer, nor a
   reconnect or a restart of either side, starts it a second time while the
   first is alive (section 20.6 of the design). *)
OneProcessPerJob ==
    \A a, b \in Attempts :
        HasProcess(a) /\ HasProcess(b) /\ JobOf[a] = JobOf[b] => a = b

(* A live process can be reported after a reconnect: its identity stays on
   disk, in a status reportAll does not skip, while the process runs. *)
ProcessIsReportable ==
    \A a \in Attempts : phase[a] = "running" /\ a \in fenced => ReadMeta(a) = "live"

(* The recovery report of a run the Agent still has does not end the attempt:
   it is adopted, or left as it is until its identity is known. *)
ReportStep ==
    \A a \in Attempts :
        /\ toController # <<>> /\ toController' = Tail(toController)
        /\ Head(toController).type = "recovery_report" /\ Head(toController).a = a
        /\ Active(a)
        => state'[a] # "completed"
ReportNeverFails == [][ReportStep]_vars

(* No connection was lost and neither side was restarted. *)
Undisturbed == cuts = 0 /\ restarts = 0 /\ reboots = 0

(* A run that succeeded on the Agent is never recorded as failed: the outcome
   that job_exit brings is kept until cleanup_complete. *)
SuccessIsKept ==
    \A a \in Attempts :
        result[a] = "succeeded" /\ state[a] \in {"collecting_artifacts", "completed"}
        => outcome[a] # "failed"

(* While the connection holds, a run that succeeded is never recorded as failed,
   whatever cancellation, upload or cleanup is going on. *)
SuccessKeptWhileConnected == Undisturbed => SuccessIsKept

(* What a completed job came to is final: nothing that was still in progress
   when it completed reopens it or changes the outcome a waiter was told. *)
JobOutcomeStep ==
    \A j \in Jobs :
        job[j] = "completed" => job'[j] = "completed" /\ jobOutcome'[j] = jobOutcome[j]
JobOutcomeIsFinal == [][JobOutcomeStep]_vars

(* The same of a job that had an attempt when it completed: no late frame, timer,
   report or awaited promise of that attempt reopens it or changes its outcome. *)
AttemptedOutcomeStep ==
    \A j \in Jobs :
        job[j] = "completed" /\ current[j] # NoAttempt
        => job'[j] = "completed" /\ jobOutcome'[j] = jobOutcome[j]
AttemptedOutcomeIsFinal == [][AttemptedOutcomeStep]_vars

(* Every attempt that was offered to the Agent comes to an end. *)
AttemptsComplete == \A a \in Attempts : Active(a) ~> state[a] = "completed"

(* Every attempt that was offered to the Agent comes to an end, unless a
   connection is lost or a side restarts meanwhile. *)
AttemptsCompleteWhileConnected ==
    \A a \in Attempts : Active(a) ~> state[a] = "completed" \/ ~Undisturbed

(* An orphaned attempt does not stay orphaned: it is adopted, exits, or is lost. *)
OrphansResolve == \A a \in Attempts : state[a] = "orphaned" ~> state[a] # "orphaned"

(* The Agent's slot of an attempt that is completed is freed. *)
SlotsFreed == \A a \in Attempts : state[a] = "completed" ~> ~Registered(a)

(* The Agent's slot of a completed attempt is freed, unless a connection is lost
   or a side restarts meanwhile. *)
SlotsFreedWhileConnected ==
    \A a \in Attempts : state[a] = "completed" ~> ~Registered(a) \/ ~Undisturbed
=============================================================================
