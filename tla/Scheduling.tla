----------------------------- MODULE Scheduling -----------------------------
(***************************************************************************)
(* How a queued job finds a machine: selectAgentForJob (hard filter, score *)
(* and fallback table) as operators over the Agents' capability reports    *)
(* and the jobs' requests, and the dispatches that use it.                 *)
(*                                                                         *)
(* A dispatch reads the connected Agents, their active counts and their    *)
(* recent failures, awaits a file, and only then selects and offers a      *)
(* lease, so its view may be old: several dispatches (a client's submit,   *)
(* and a pass over the queue after every event and every 15 s) are in      *)
(* flight at once.  The Agent has the last word: it refuses an offer when  *)
(* it is full or under disk pressure, and the Controller queues the job    *)
(* again.  Frames between the Controller and an Agent keep their order.    *)
(* What happens to an accepted attempt is the subject of RemoteAttempt,    *)
(* what happens inside runLocalJob that of LocalRunner.                    *)
(***************************************************************************)
EXTENDS Integers, FiniteSets, Sequences

CONSTANTS
    Agents, Jobs,
    Caps,           \* [Agents -> capability report]
    Rank,           \* [Agents -> Nat]: the order of the agent ids
    Request,        \* [Jobs -> job request]
    Backlog,        \* jobs queued when the Controller starts
    Results,        \* [Jobs -> SUBSET {"failed", "succeeded"}]: how the job's attempts end
    Order,          \* the jobs by queued_at, id
    Host,           \* [os, shells, score]: what the Controller's host can run
    Readings,       \* host CPU busy readings, in per cent
    BaseMax,        \* maxHostCpuBusyFraction, in per cent
    ReferenceScore, \* DEFAULT_REFERENCE_CAPACITY_SCORE
    Window,         \* SCHEDULER_RECENT_FAILURE_WINDOW
    Dispatchers,    \* dispatches that may be in flight at once
    Restless,       \* Agents that may lose their connection or come under pressure
    Returning,      \* Agents that dial again when their connection is lost
    MaxUpsets,      \* how often Agents are upset
    Copies,         \* bound: attempts of one job that an Agent may know at once
    None

VARIABLES
    jstate,         \* the jobs table
    tried,          \* jobs with an attempt row of ordinal 1
    leasing, working, \* each Agent's unfinished attempt rows: offered, accepted
    recent,         \* outcomes of each Agent's last attempts, newest first
    connected, pressed,
    offers, replies, \* frames to and from each Agent
    held, ended,    \* the Agent's attempts map; those that have sent cleanup_complete
    place, rows, seen, \* each dispatch: where it is, its rows, what it read
    upsets

attempts == <<leasing, working>>
wire == <<offers, replies, held, ended>>
tasks == <<place, rows, seen>>
weather == <<connected, pressed, upsets>>
schedulingVars == <<jstate, tried, attempts, recent, wire, tasks, weather>>

AttemptIds == Jobs \X Copies

ASSUME SchedulingAssumption ==
    /\ \A a \in Agents : Caps[a].max_jobs \in Nat /\ Rank[a] \in Nat
    /\ \A a, b \in Agents : Rank[a] = Rank[b] => a = b
    /\ Backlog \subseteq Jobs /\ Order \in Seq(Jobs)
    /\ \A j \in Jobs : Results[j] \subseteq {"failed", "succeeded"}
    /\ Window \in Nat /\ MaxUpsets \in Nat
    /\ IsFiniteSet(Dispatchers) /\ IsFiniteSet(Jobs) /\ IsFiniteSet(Copies)

-----------------------------------------------------------------------------
(* Matching.  A version is a sequence of numbers, a spec an operator and a  *)
(* version; a toolchain profile has a kind, an id and a version.            *)

Part(v, i) == IF i \in DOMAIN v THEN v[i] ELSE 0

\* The sign of compareVersionParts, missing segments counting as 0.
VersionLess(v, w) ==
    \E i \in 1..(Len(v) + Len(w)) :
        /\ Part(v, i) < Part(w, i)
        /\ \A k \in 1..(i - 1) : Part(v, k) = Part(w, k)

MatchesVersionSpec(v, spec) ==
    \/ spec.op = "any"
    \/ spec.op = ">=" /\ ~VersionLess(v, spec.version)
    \/ spec.op = ">"  /\ VersionLess(spec.version, v)
    \/ spec.op = "<=" /\ ~VersionLess(spec.version, v)
    \/ spec.op = "<"  /\ VersionLess(v, spec.version)
    \/ spec.op = "is" /\ Len(spec.version) <= Len(v)
                      /\ SubSeq(v, 1, Len(spec.version)) = spec.version

\* matchToolchainProfiles: the first profile of the report that fits the tool.
ProfileFits(p, tool) ==
    /\ tool.name \in {p.kind, p.id}
    /\ MatchesVersionSpec(p.version, tool)

FittingProfiles(caps, tool) ==
    {i \in DOMAIN caps.profiles : ProfileFits(caps.profiles[i], tool)}

SelectedProfile(caps, tool) ==
    caps.profiles[CHOOSE i \in FittingProfiles(caps, tool) :
                      \A k \in FittingProfiles(caps, tool) : i <= k]

\* git and git-lfs are probed by the Agent instead of being profiles.
ProbeTools == {"git", "git-lfs"}

MatchJobToolRequirements(caps, req) ==
    \A i \in DOMAIN req.tools :
        LET tool == req.tools[i] IN
        IF tool.name \in ProbeTools
        THEN \E p \in caps.probes : p.name = tool.name /\ MatchesVersionSpec(p.version, tool)
        ELSE FittingProfiles(caps, tool) # {}

AnyOf(wanted, value) == wanted = {} \/ value \in wanted

MaxJobs == [a \in Agents |-> Caps[a].max_jobs]
HasCapacity(a, active) == active < MaxJobs[a]

FitsRequest(caps, req) ==
    /\ AnyOf(req.os, caps.os)
    /\ AnyOf(req.arch, caps.arch)
    /\ req.labels \subseteq caps.labels
    /\ req.min_memory <= caps.memory
    /\ req.min_disk <= caps.disk
    /\ req.shell \in caps.shells
    /\ req.secrets \subseteq caps.secrets
    /\ MatchJobToolRequirements(caps, req)

Suits == {pair \in Agents \X Jobs : FitsRequest(Caps[pair[1]], Request[pair[2]])}

-----------------------------------------------------------------------------
(* Scoring.                                                                 *)

ConfiguredPriority(caps) ==
    IF caps.priority # None THEN caps.priority
    ELSE CASE caps.os = "macos" -> 20 [] caps.os = "linux" -> 15 [] OTHER -> 10

\* (length - indexOf) * unit for a listed value, and nothing for the others.
Preferred(list, value, unit) ==
    LET at == {i \in DOMAIN list : list[i] = value}
    IN IF at = {} THEN 0 ELSE (Len(list) + 1 - CHOOSE i \in at : \A k \in at : i <= k) * unit

AgentHasRepoCacheHit(caps, req) ==
    \E r \in caps.repos :
        /\ r.id = req.repo
        /\ req.base = None \/ r.commits = {} \/ req.base \in r.commits

\* The keys of the job on this Agent: one per cache kind, made from the first
\* selected toolchain, the platform and the project; the compiler caches have
\* none without a toolchain.
ToolchainRequiredKinds == {"ccache", "sccache"}
ExpectedKeys(caps, req) ==
    LET chosen == SelectSeq(req.tools, LAMBDA t : t.name \notin ProbeTools)
        primary == IF chosen = <<>> THEN None ELSE SelectedProfile(caps, Head(chosen)).id
        kinds == IF req.tools = <<>> THEN {"ccache", "sccache", "npm", "pnpm", "pip"}
                 ELSE {req.tools[i].cache : i \in DOMAIN req.tools} \ {None}
    IN {[kind |-> k, key |-> <<primary, caps.os, caps.arch, req.project>>] :
           k \in {x \in kinds : x \in ToolchainRequiredKinds => primary # None}}

Bonus(condition, value) == IF condition THEN value ELSE 0

\* The terms that depend on the Agent's report and on the request alone.
StaticScore ==
    [a \in Agents, j \in Jobs |->
        LET caps == Caps[a]
            req == Request[j]
        IN  ConfiguredPriority(caps) * 1000
            + Preferred(req.agent_ids, a, 100)
            + Preferred(req.os_order, caps.os, 10)
            + Bonus(req.prefer_repo_cache /\ req.repo # None /\ AgentHasRepoCacheHit(caps, req), 500)
            + Bonus(req.tools # <<>>, 200)
            - caps.cpu_load
            - req.transfer_mb
            + Bonus(req.prefer_build_cache /\ req.project # None
                      /\ ExpectedKeys(caps, req) \cap caps.caches # {}, 250)]

ComputeAgentSchedulerScore(a, j, active, penalty) == StaticScore[a, j] - active * 300 - penalty

ComputeRecentFailurePenalty(failures) ==
    IF failures * 50 > 500 THEN 500 ELSE failures * 50

-----------------------------------------------------------------------------
(* The decision.  A view is what a dispatch has read: the connected Agents, *)
(* their active counts and their penalties.                                 *)

EffectiveMax ==
    IF ReferenceScore <= 0 \/ Host.score <= ReferenceScore THEN BaseMax
    ELSE LET boosted == (BaseMax * Host.score) \div ReferenceScore
         IN IF boosted > 97 THEN 97 ELSE boosted

LocalHostCanExecute(req) == AnyOf(req.os, Host.os) /\ req.shell \in Host.shells

Eligible(j, view) ==
    {a \in view.agents : HasCapacity(a, view.active[a]) /\ <<a, j>> \in Suits}

\* Agents left out for being full, whatever else they lack.
BusyAgents(view) ==
    {a \in view.agents : MaxJobs[a] > 0 /\ ~HasCapacity(a, view.active[a])}

Score(a, j, view) == ComputeAgentSchedulerScore(a, j, view.active[a], view.penalty[a])

\* The head of the sorted candidates: the best score, the smallest id.
Best(j, view) ==
    {a \in Eligible(j, view) : \A b \in Eligible(j, view) \ {a} :
        \/ Score(a, j, view) > Score(b, j, view)
        \/ Score(a, j, view) = Score(b, j, view) /\ Rank[a] < Rank[b]}

\* The host runs the job when it has room, or when no full Agent is less loaded.
DecideLocalFallback(j, view, running, reading) ==
    IF ~Request[j].allow_local_fallback \/ Request[j].risk \in {"destructive", "hardware"}
    THEN "fail_fast"
    ELSE IF reading < EffectiveMax \/ \A a \in BusyAgents(view) : running <= view.active[a]
    THEN "local_fallback"
    ELSE "wait"

SelectAgentForJob(j, view, running, reading) ==
    IF Eligible(j, view) # {} THEN "remote"
    ELSE IF Request[j].policy \in {"wait", "fail_fast"} THEN Request[j].policy
    ELSE IF ~LocalHostCanExecute(Request[j]) THEN "fail_fast"
    ELSE DecideLocalFallback(j, view, running, reading)

-----------------------------------------------------------------------------
(* State.                                                                   *)

JobStates == {"unborn", "queued", "leasing", "active", "completed"}

SchedulingInit ==
    /\ jstate = [j \in Jobs |-> IF j \in Backlog THEN "queued" ELSE "unborn"]
    /\ tried = {}
    /\ leasing = [a \in Agents |-> {}] /\ working = [a \in Agents |-> {}]
    /\ recent = [a \in Agents |-> <<>>]
    /\ connected = Agents /\ pressed = {}
    /\ offers = [a \in Agents |-> <<>>]
    /\ replies = [a \in Agents |-> <<>>]
    /\ held = [a \in Agents |-> {}] /\ ended = [a \in Agents |-> {}]
    /\ place = [d \in Dispatchers |-> "idle"]
    /\ rows = [d \in Dispatchers |-> <<>>]
    /\ seen = [d \in Dispatchers |-> None]
    /\ upsets = 0

\* getActiveJobsForAgents and getRecentFailurePenaltiesForAgents.
Unfinished(a) == leasing[a] \cup working[a]
ActiveJobsAfterAccept(a) == Cardinality(working[a])
ActiveJobs(a) == Cardinality(Unfinished(a))
Penalty(a) ==
    ComputeRecentFailurePenalty(Cardinality({i \in DOMAIN recent[a] : recent[a][i] = "failed"}))

JobOf(d) == Head(rows[d])
Running == Cardinality({d \in Dispatchers : place[d] = "local"})

\* What dispatchJobExecution reads before its await.
View == [agents |-> connected, active |-> [a \in Agents |-> ActiveJobs(a)],
         penalty |-> [a \in Agents |-> Penalty(a)]]

\* A dispatch takes up a sequence of rows: it reads its view for the first of
\* them and is suspended.
TakeUp(d, jobs) ==
    /\ rows' = [rows EXCEPT ![d] = jobs]
    /\ place' = [place EXCEPT ![d] = IF jobs = <<>> THEN "idle" ELSE "selecting"]
    /\ seen' = [seen EXCEPT ![d] = IF jobs = <<>> THEN None ELSE View']

\* One row is dealt with, and the loop goes on; an exception leaves the loop,
\* with the rows behind this one.
Return(d) == TakeUp(d, Tail(rows[d]))
Throw(d) == TakeUp(d, <<>>)

SetJob(j, new) == jstate' = [jstate EXCEPT ![j] = new]

-----------------------------------------------------------------------------
(* Dispatching.                                                             *)

\* handleJobSubmit queues the job and dispatches it.
Submit(d, j) ==
    /\ place[d] = "idle" /\ jstate[j] = "unborn"
    /\ \A i, k \in DOMAIN Order : i < k /\ Order[k] = j => jstate[Order[i]] # "unborn"
    /\ SetJob(j, "queued")
    /\ UNCHANGED <<tried, attempts, recent, wire, weather>>
    /\ TakeUp(d, <<j>>)

\* tryDispatchQueuedJobs: after an event or by the timer.
Queue ==
    LET queued == {i \in DOMAIN Order : jstate[Order[i]] = "queued"} IN
    {s \in [1..Cardinality(queued) -> queued] :
        \A i, k \in 1..Cardinality(queued) : i < k => s[i] < s[k]}

Sweep(d) ==
    /\ place[d] = "idle" /\ \E j \in Jobs : jstate[j] = "queued"
    /\ UNCHANGED <<jstate, tried, attempts, recent, wire, weather>>
    /\ \E s \in Queue : TakeUp(d, [i \in DOMAIN s |-> Order[s[i]]])

\* generateId: an attempt id that neither side knows.
UnusedIds(a, j) == ({j} \X Copies) \ (Unfinished(a) \cup held[a])

\* initiateRemoteAttempt looks at the connection and at nothing else: neither
\* the job's state nor the Agent's load is read again.
InitiateRemoteAttempt(d, a) ==
    /\ a \in connected /\ UnusedIds(a, JobOf(d)) # {}
    /\ LET id == CHOOSE new \in UnusedIds(a, JobOf(d)) : TRUE IN
       /\ leasing' = [leasing EXCEPT ![a] = @ \cup {id}]
       /\ offers' = [offers EXCEPT ![a] = Append(@, id)]
    /\ tried' = tried \cup {JobOf(d)}
    /\ SetJob(JobOf(d), "leasing")
    /\ UNCHANGED working
    /\ Return(d)

AgentNotConnected(d, a) ==
    /\ a \notin connected
    /\ UNCHANGED <<jstate, tried, attempts, offers>>
    /\ Throw(d)

\* runLocalJob returns at once for a finished job.
RunLocalJob(d) ==
    /\ jstate[JobOf(d)] # "completed" /\ JobOf(d) \notin tried
    /\ tried' = tried \cup {JobOf(d)}
    /\ SetJob(JobOf(d), "active")
    /\ place' = [place EXCEPT ![d] = "local"]
    /\ seen' = [seen EXCEPT ![d] = None]
    /\ UNCHANGED <<rows, attempts, offers>>

AlreadyOver(d) ==
    /\ jstate[JobOf(d)] = "completed"
    /\ UNCHANGED <<jstate, tried, attempts, offers>>
    /\ Return(d)

\* createAttempt(ctx.db, jobId, 1): UNIQUE (job_id, ordinal) refuses a second
\* attempt of ordinal 1, and nothing catches the exception on the way to the
\* loop over the queue.
OrdinalTaken(d) ==
    /\ jstate[JobOf(d)] # "completed" /\ JobOf(d) \in tried
    /\ UNCHANGED <<jstate, tried, attempts, offers>>
    /\ Throw(d)

Finish(d) ==
    /\ SetJob(JobOf(d), "completed")
    /\ UNCHANGED <<tried, attempts, offers>>
    /\ Return(d)

Wait(d) ==
    /\ UNCHANGED <<jstate, tried, attempts, offers>>
    /\ Return(d)

\* The second half of dispatchJobExecution.  The CPU monitor's reading is an
\* input of the decision.
DispatchJobExecution(d) ==
    /\ place[d] = "selecting" /\ UNCHANGED <<recent, replies, held, ended, weather>>
    /\ \E decision \in {SelectAgentForJob(JobOf(d), seen[d], Running, r) : r \in Readings} :
         \/ /\ decision = "remote"
            /\ \E a \in Best(JobOf(d), seen[d]) :
                  InitiateRemoteAttempt(d, a) \/ AgentNotConnected(d, a)
         \/ decision = "local_fallback" /\ (RunLocalJob(d) \/ AlreadyOver(d) \/ OrdinalTaken(d))
         \/ decision = "fail_fast" /\ Finish(d)
         \/ decision = "wait" /\ Wait(d)

\* The dispatch awaits the whole local run.
LocalJobEnds(d) ==
    /\ place[d] = "local" /\ UNCHANGED <<recent, replies, held, ended, weather>>
    /\ Finish(d)

DispatchStep(d) == DispatchJobExecution(d) \/ LocalJobEnds(d)

-----------------------------------------------------------------------------
(* The Agent.                                                               *)

Reply(a, kind, id) == replies' = [replies EXCEPT ![a] = Append(@, [kind |-> kind, id |-> id])]

HandleLeaseOffer(a) ==
    /\ offers[a] # <<>>
    /\ offers' = [offers EXCEPT ![a] = Tail(@)]
    /\ LET id == Head(offers[a]) IN
       IF Cardinality(held[a]) >= MaxJobs[a] \/ a \in pressed
       THEN Reply(a, "lease_reject", id) /\ UNCHANGED held
       ELSE /\ Reply(a, "lease_accept", id)
            /\ held' = [held EXCEPT ![a] = @ \cup {id}]
    /\ UNCHANGED <<jstate, tried, attempts, recent, ended, tasks, weather>>

\* The Controller has had the acceptance and the source is sent: the job runs
\* to its end, and its cleanup script after it.
SendCleanupComplete(a, id) ==
    /\ id \in held[a] \ ended[a]
    /\ \A k \in DOMAIN replies[a] : replies[a][k] # [kind |-> "lease_accept", id |-> id]
    /\ Reply(a, "cleanup_complete", id)
    /\ ended' = [ended EXCEPT ![a] = @ \cup {id}]
    /\ UNCHANGED <<jstate, tried, attempts, recent, offers, held, tasks, weather>>

\* clearAttempt comes after the caches, containers and files are dealt with,
\* some time after the frame above has left.
ClearAttempt(a, id) ==
    /\ id \in ended[a]
    /\ held' = [held EXCEPT ![a] = @ \ {id}]
    /\ ended' = [ended EXCEPT ![a] = @ \ {id}]
    /\ UNCHANGED <<jstate, tried, attempts, recent, offers, replies, tasks, weather>>

-----------------------------------------------------------------------------
(* The Controller's handlers.  Each finds the attempt by the ids of the     *)
(* frame and drops the frame unless the row is in the state it expects      *)
(* (loadAttemptByLease, rejectStale).                                       *)

Receive(a, kind) ==
    /\ replies[a] # <<>> /\ Head(replies[a]).kind = kind
    /\ replies' = [replies EXCEPT ![a] = Tail(@)]

Answered(a) == Head(replies[a]).id
AnsweredJob(a) == Answered(a)[1]

\* finished_at and outcome of the row.
Record(a, result) ==
    recent' = [recent EXCEPT ![a] = SubSeq(<<result>> \o @, 1,
                   IF Len(@) < Window THEN Len(@) + 1 ELSE Window)]

HandleRemoteLeaseAccept(a) ==
    /\ Receive(a, "lease_accept")
    /\ IF Answered(a) \in leasing[a]
       THEN /\ leasing' = [leasing EXCEPT ![a] = @ \ {Answered(a)}]
            /\ working' = [working EXCEPT ![a] = @ \cup {Answered(a)}]
            /\ SetJob(AnsweredJob(a), "active")
       ELSE UNCHANGED <<attempts, jstate>>
    /\ UNCHANGED <<tried, recent, offers, held, ended, tasks, weather>>

\* The job is queued again, or fails, without a look at its state.
RejectLease(a, requeued) ==
    /\ Receive(a, "lease_reject")
    /\ IF Answered(a) \in leasing[a]
       THEN /\ leasing' = [leasing EXCEPT ![a] = @ \ {Answered(a)}]
            /\ Record(a, "failed")
            /\ SetJob(AnsweredJob(a),
                      IF Request[AnsweredJob(a)].policy = "fail_fast" THEN "completed" ELSE requeued)
       ELSE UNCHANGED <<leasing, recent, jstate>>
    /\ UNCHANGED <<tried, working, offers, held, ended, tasks, weather>>
HandleRemoteLeaseRejectForgets(a) == RejectLease(a, jstate[AnsweredJob(a)])
HandleRemoteLeaseReject(a) == RejectLease(a, "queued")

HandleRemoteCleanupComplete(a) ==
    /\ Receive(a, "cleanup_complete")
    /\ IF Answered(a) \in working[a]
       THEN /\ working' = [working EXCEPT ![a] = @ \ {Answered(a)}]
            /\ \E result \in Results[AnsweredJob(a)] : Record(a, result)
            /\ SetJob(AnsweredJob(a), "completed")
       ELSE UNCHANGED <<working, recent, jstate>>
    /\ UNCHANGED <<tried, leasing, offers, held, ended, tasks, weather>>

-----------------------------------------------------------------------------
(* The surroundings.  An Agent with attempts that loses its connection is   *)
(* RemoteAttempt's subject: here only an idle one does.                     *)

Idle(a) == held[a] \cup Unfinished(a) = {}

Disconnect(a) ==
    /\ a \in connected \cap Restless /\ Idle(a) /\ upsets < MaxUpsets
    /\ connected' = connected \ {a}
    /\ upsets' = upsets + 1
    /\ UNCHANGED <<jstate, tried, attempts, recent, wire, tasks, pressed>>

Connect(a) ==
    /\ a \notin connected
    /\ connected' = connected \cup {a}
    /\ UNCHANGED <<jstate, tried, attempts, recent, wire, tasks, pressed, upsets>>

Press(a) ==
    /\ a \in Restless \ pressed /\ upsets < MaxUpsets
    /\ pressed' = pressed \cup {a}
    /\ upsets' = upsets + 1
    /\ UNCHANGED <<jstate, tried, attempts, recent, wire, tasks, connected>>

Relieve(a) ==
    /\ a \in pressed
    /\ pressed' = pressed \ {a}
    /\ UNCHANGED <<jstate, tried, attempts, recent, wire, tasks, connected, upsets>>

Handle(a) ==
    HandleRemoteLeaseAccept(a) \/ HandleRemoteLeaseReject(a) \/ HandleRemoteCleanupComplete(a)

Work(a) == \E id \in AttemptIds : SendCleanupComplete(a, id) \/ ClearAttempt(a, id)

SchedulingNext ==
    \/ \E d \in Dispatchers : DispatchStep(d) \/ Sweep(d) \/ \E j \in Jobs : Submit(d, j)
    \/ \E a \in Agents :
          \/ HandleLeaseOffer(a) \/ Handle(a) \/ Work(a)
          \/ Disconnect(a) \/ Connect(a) \/ Press(a) \/ Relieve(a)

SchedulingSpec == SchedulingInit /\ [][SchedulingNext]_schedulingVars

(* Dispatches run to their end and the sweep timer ticks for ever; the       *)
(* sockets deliver; an Agent works on the leases it holds, and one that is   *)
(* Returning dials again.  Pressure ends: the cleanup frees what it may.     *)
SchedulingFairness ==
    /\ \A d \in Dispatchers : WF_schedulingVars(DispatchStep(d) \/ Sweep(d))
    /\ \A a \in Agents :
          /\ WF_schedulingVars(HandleLeaseOffer(a) \/ Handle(a))
          /\ WF_schedulingVars(Work(a))
    /\ \A a \in Returning : WF_schedulingVars(Connect(a))
    /\ \A a \in Restless : WF_schedulingVars(Relieve(a))

SchedulingFairSpec == SchedulingSpec /\ SchedulingFairness

-----------------------------------------------------------------------------
(* Properties.                                                              *)

SchedulingTypeOK ==
    /\ jstate \in [Jobs -> JobStates]
    /\ tried \subseteq Jobs
    /\ leasing \in [Agents -> SUBSET AttemptIds] /\ working \in [Agents -> SUBSET AttemptIds]
    /\ held \in [Agents -> SUBSET AttemptIds] /\ ended \in [Agents -> SUBSET AttemptIds]
    /\ recent \in [Agents -> Seq({"failed", "succeeded"})]
    /\ offers \in [Agents -> Seq(AttemptIds)]
    /\ replies \in [Agents -> Seq([kind : {"lease_accept", "lease_reject", "cleanup_complete"},
                                   id : AttemptIds])]
    /\ connected \subseteq Agents /\ pressed \subseteq Agents
    /\ place \in [Dispatchers -> {"idle", "selecting", "local"}]
    /\ rows \in [Dispatchers -> Seq(Jobs)]
    /\ seen \in [Dispatchers -> [agents : SUBSET Agents, active : [Agents -> Nat],
                                 penalty : [Agents -> Nat]] \cup {None}]
    /\ upsets \in 0..MaxUpsets

\* However the dispatches interleave, the leases offered to an Agent exceed its
\* max_jobs by less than the number of dispatches in flight: every dispatch acts
\* on a count that showed room when it was read, and counts leases not yet
\* answered (dispatchJobExecution, getActiveJobsForAgents).
OvercommitBounded ==
    \A a \in Agents :
        Unfinished(a) = {} \/ Cardinality(Unfinished(a)) < MaxJobs[a] + Cardinality(Dispatchers)

\* A queued job is eventually settled, through refused offers, Agents that
\* vanish between the choice and the offer, and dispatches that throw
\* (handleRemoteLeaseReject, tryDispatchQueuedJobs).
QueuedJobSettles ==
    \A j \in Jobs : jstate[j] = "queued" ~> jstate[j] = "completed"

=============================================================================
