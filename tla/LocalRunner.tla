----------------------------- MODULE LocalRunner -----------------------------
(***************************************************************************)
(* Jobs that run on the Controller's own host: confirmation of risky jobs, *)
(* dispatch of queued jobs, the admission semaphore, runLocalJob from its  *)
(* first check to its finally block, job_cancel, and the clients that wait *)
(* for a job through the lifecycle notifier (job_wait, job_run).           *)
(*                                                                         *)
(* The Controller is one Node process: an action is a stretch of code      *)
(* between two awaits.  A task is one dispatch in flight: a client's       *)
(* submit or confirm (Callers) or one pass of the sweep over the queue     *)
(* (Sweepers).  Remote attempts are the subject of RemoteAttempt.          *)
(***************************************************************************)
EXTENDS Naturals, FiniteSets, Sequences

CONSTANTS
    Jobs,               \* the jobs clients submit
    Guarded,            \* those that wait for an operator's confirmation
    Decision,           \* [Jobs -> SUBSET {"local_fallback", "fail_fast", "wait"}]
    Completions,        \* [Jobs -> SUBSET EarlyResults]: the request's completion policy
    Callers,            \* dispatches started by submit and confirm
    Sweepers,           \* dispatches started by the sweep timer
    Waiters,            \* clients in waitForJob
    MaxConcurrentJobs   \* localExecutor.maxConcurrentJobs

Tasks == Callers \cup Sweepers

\* What may end waitForCompletion before the process does.
EarlyResults == {"timeout", "duration_complete", "log_success", "log_failure"}

\* What selectAgentForJob may answer is settled by the request and the
\* configuration: a job that may run on the host can only be told to wait
\* instead, when the host is busy, and never that it fails.
ASSUME RunnerAssumption ==
    /\ Jobs # {}
    /\ Completions \in [Jobs -> SUBSET EarlyResults]
    /\ Guarded \subseteq Jobs
    /\ Decision \in [Jobs -> SUBSET {"local_fallback", "fail_fast", "wait"}]
    /\ \A j \in Jobs : "local_fallback" \in Decision[j] => "fail_fast" \notin Decision[j]
    /\ IsFiniteSet(Tasks)
    /\ Callers \cap Sweepers = {}
    /\ MaxConcurrentJobs \in Nat \ {0}

VARIABLES
    state, outcome,     \* the jobs table
    attempt,            \* the job's row in job_attempts, UNIQUE(job_id, ordinal)
    stale,              \* jobs whose confirmation TTL has passed
    line,               \* submitted jobs in queued_at order
    pc, rows,           \* each task's place and the rows it still has to dispatch
    result,             \* what waitForCompletion answered to each task
    pendingCancels, activeCancels,
    cancelled,          \* attempts whose closure variable `cancelled` is set
    admissionActive, admissionWaiters,
    proc,               \* the script's process
    listeners,          \* the notifier's listeners, by job
    life,               \* "up", "closing" (notifier closed), "down" (agent plane closed)
    wpc, wjob,          \* each waiting client's place and its job
    woken,              \* waiters whose wake promise is resolved
    told                \* the outcome each client was last told

jobVars == <<state, outcome, attempt, stale, line>>
taskVars == <<pc, rows, result>>
cancelVars == <<pendingCancels, activeCancels, cancelled>>
admissionVars == <<admissionActive, admissionWaiters>>
waitVars == <<wpc, wjob, told>>
notifierVars == <<listeners, woken>>
vars == <<jobVars, taskVars, cancelVars, admissionVars, proc, notifierVars, life, waitVars>>

JobStates == {"unborn", "awaiting_confirmation", "queued", "materializing", "starting",
              "running", "collecting_artifacts", "completed"}
Outcomes == {"none", "succeeded", "failed", "timed_out", "cancelled"}
Results == {"none", "exit"} \cup EarlyResults
ProcStates == {"none", "alive", "dying", "exit0", "exit1"}

\* A task holds its admission slot from acquireAdmission to the finally block.
Holding == {"admitted", "setup", "materializing", "scripting", "starting", "spawned",
            "executing", "draining", "collecting", "reporting", "failing"}
TaskStates == {"idle", "deciding", "queueing", "cleaning", "clearing"} \cup Holding

Init ==
    /\ state = [j \in Jobs |-> "unborn"]
    /\ outcome = [j \in Jobs |-> "none"]
    /\ attempt = [j \in Jobs |-> "none"]
    /\ stale = {}
    /\ line = <<>>
    /\ pc = [t \in Tasks |-> "idle"]
    /\ rows = [t \in Tasks |-> <<>>]
    /\ result = [t \in Tasks |-> "none"]
    /\ pendingCancels = {} /\ activeCancels = {} /\ cancelled = {}
    /\ admissionActive = 0 /\ admissionWaiters = <<>>
    /\ proc = [j \in Jobs |-> "none"]
    /\ listeners = [j \in Jobs |-> {}]
    /\ life = "up"
    /\ wpc = [w \in Waiters |-> "idle"]
    /\ wjob = [w \in Waiters |-> CHOOSE j \in Jobs : TRUE]
    /\ woken = {}
    /\ told = [w \in Waiters |-> "none"]

Terminal(j) == state[j] = "completed"
Closed == life # "up"
Exited(j) == proc[j] \in {"exit0", "exit1"}
JobOf(t) == Head(rows[t])

-----------------------------------------------------------------------------
(* Writing a job row.  The notifier releases a job's listeners before it    *)
(* calls them, so each subscription is woken at most once.                  *)

Notify(S) ==
    /\ listeners' = [j \in Jobs |-> IF j \in S THEN {} ELSE listeners[j]]
    /\ woken' = woken \cup UNION {listeners[j] : j \in S}

\* transitionJobState without an outcome leaves the outcome column alone.
TransitionJobState(j, s) ==
    /\ state' = [state EXCEPT ![j] = s]
    /\ UNCHANGED outcome
    /\ Notify({j})

CompleteJob(j, o) ==
    /\ state' = [state EXCEPT ![j] = "completed"]
    /\ outcome' = [outcome EXCEPT ![j] = o]
    /\ Notify({j})

LeaveJob == UNCHANGED <<state, outcome, listeners, woken>>

-----------------------------------------------------------------------------
(* Tasks.                                                                   *)

Goto(t, place) ==
    /\ pc' = [pc EXCEPT ![t] = place]
    /\ UNCHANGED rows

\* The dispatch of one row is over: the loop takes the next row, which it read
\* at its start and does not read again.
Return(t) ==
    /\ rows' = [rows EXCEPT ![t] = Tail(rows[t])]
    /\ pc' = [pc EXCEPT ![t] = IF Len(rows[t]) > 1 THEN "deciding" ELSE "idle"]

\* An exception leaves the loop: the rows behind this one are not dispatched.
Throw(t) ==
    /\ rows' = [rows EXCEPT ![t] = <<>>]
    /\ pc' = [pc EXCEPT ![t] = "idle"]

Dispatch(t, jobs) ==
    /\ pc[t] = "idle"
    /\ rows' = [rows EXCEPT ![t] = jobs]
    /\ pc' = [pc EXCEPT ![t] = IF jobs = <<>> THEN "idle" ELSE "deciding"]

ReleaseAdmission ==
    /\ admissionActive' = IF admissionActive = 0 THEN 0 ELSE admissionActive - 1
    /\ admissionWaiters' = IF admissionWaiters = <<>> THEN <<>> ELSE Tail(admissionWaiters)

\* Mutant: the limit is compared with <=.
AcquireAdmissionOffByOne(t) ==
    IF admissionActive <= MaxConcurrentJobs
    THEN /\ admissionActive' = admissionActive + 1
         /\ Goto(t, "admitted")
         /\ UNCHANGED admissionWaiters
    ELSE /\ admissionWaiters' = Append(admissionWaiters, t)
         /\ Goto(t, "queueing")
         /\ UNCHANGED admissionActive

\* One pass of the loop in acquireAdmission.
AcquireAdmission(t) ==
    IF admissionActive < MaxConcurrentJobs
    THEN /\ admissionActive' = admissionActive + 1
         /\ Goto(t, "admitted")
         /\ UNCHANGED admissionWaiters
    ELSE /\ admissionWaiters' = Append(admissionWaiters, t)
         /\ Goto(t, "queueing")
         /\ UNCHANGED admissionActive

-----------------------------------------------------------------------------
(* Submission, confirmation and its expiry.                                 *)

Submit(j, t) ==
    /\ state[j] = "unborn"
    /\ t \in Callers
    /\ IF j \in Guarded
       THEN /\ state' = [state EXCEPT ![j] = "awaiting_confirmation"]
            /\ UNCHANGED <<line, taskVars>>
       ELSE /\ state' = [state EXCEPT ![j] = "queued"]
            /\ line' = Append(line, j)
            /\ Dispatch(t, <<j>>) /\ UNCHANGED result
    /\ UNCHANGED <<outcome, attempt, stale, cancelVars, admissionVars, proc,
                   notifierVars, life, waitVars>>

TtlPasses(j) ==
    /\ state[j] = "awaiting_confirmation" /\ j \notin stale
    /\ stale' = stale \cup {j}
    /\ UNCHANGED <<state, outcome, attempt, line, taskVars, cancelVars, admissionVars,
                   proc, notifierVars, life, waitVars>>

\* The end of handleJobConfirm: the token binds the job.
Confirmed(j, t) ==
    /\ state[j] = "awaiting_confirmation"
    /\ t \in Callers
    /\ Dispatch(t, <<j>>)
    /\ TransitionJobState(j, "queued")
    /\ line' = Append(line, j)
    /\ UNCHANGED <<attempt, stale, result, cancelVars, admissionVars, proc, life, waitVars>>

\* A client's token expires with the TTL.
Confirm(j, t) == j \notin stale /\ Confirmed(j, t)

\* confirmJobByAdmin mints a fresh token.
ConfirmByAdmin(j, t) == Confirmed(j, t)

\* handleJobConfirm with a token that does not verify, after the TTL.
ConfirmTooLate(j) ==
    /\ state[j] = "awaiting_confirmation" /\ j \in stale
    /\ CompleteJob(j, "cancelled")
    /\ UNCHANGED <<attempt, stale, line, taskVars, cancelVars, admissionVars, proc, life,
                   waitVars>>

ExpireStaleConfirmations ==
    LET expired == {j \in stale : state[j] = "awaiting_confirmation"} IN
    /\ state' = [j \in Jobs |-> IF j \in expired THEN "completed" ELSE state[j]]
    /\ outcome' = [j \in Jobs |-> IF j \in expired THEN "cancelled" ELSE outcome[j]]
    /\ Notify(expired)

\* The queued rows ORDER BY queued_at, as their places in line.
QueuedRows ==
    LET queued == {i \in 1..Len(line) : state[line[i]] = "queued"} IN
    {s \in [1..Cardinality(queued) -> queued] :
        \A i, k \in 1..Cardinality(queued) : i < k => s[i] < s[k]}

\* The sweep timer: expire confirmations, then dispatch whatever is queued.
Sweep(t) ==
    /\ t \in Sweepers /\ life # "down"
    /\ ExpireStaleConfirmations
    /\ \E s \in QueuedRows : Dispatch(t, [i \in DOMAIN s |-> line[s[i]]])
    /\ UNCHANGED <<attempt, stale, line, result, cancelVars, admissionVars, proc, life,
                   waitVars>>

-----------------------------------------------------------------------------
(* dispatchJobExecution, after its await; the job is not read again.        *)

\* shouldContinueDispatch, which only the sweep's context has.
MayDispatch(t) == t \in Sweepers => life # "down"

StopDispatch(t) ==
    /\ pc[t] = "deciding" /\ ~MayDispatch(t)
    /\ Throw(t)
    /\ LeaveJob
    /\ UNCHANGED <<attempt, stale, line, result, cancelVars, admissionVars, proc, life,
                   waitVars>>

\* queue_policy=wait, or the host is too busy: the job stays queued.
DecideWait(t) ==
    /\ pc[t] = "deciding" /\ "wait" \in Decision[JobOf(t)]
    /\ MayDispatch(t)
    /\ Return(t)
    /\ Notify({JobOf(t)})
    /\ UNCHANGED <<jobVars, result, cancelVars, admissionVars, proc, life, waitVars>>

\* No agent and no fallback: the job fails, whatever its row says by now.
DecideFailFast(t) ==
    /\ pc[t] = "deciding" /\ "fail_fast" \in Decision[JobOf(t)]
    /\ MayDispatch(t)
    /\ Return(t)
    /\ CompleteJob(JobOf(t), "failed")
    /\ UNCHANGED <<attempt, stale, line, result, cancelVars, admissionVars, proc, life,
                   waitVars>>

\* Both checks of runLocalJob, before and after the admission.
GivenUp(j) == j \in pendingCancels \/ Terminal(j) \/ outcome[j] = "cancelled"

ForgetCancel(j) ==
    /\ pendingCancels' = pendingCancels \ {j}
    /\ UNCHANGED <<activeCancels, cancelled>>

\* local_fallback: runLocalJob up to the admission.
DecideLocal(t) ==
    LET j == JobOf(t) IN
    /\ pc[t] = "deciding" /\ "local_fallback" \in Decision[j]
    /\ MayDispatch(t)
    /\ IF GivenUp(j)
       THEN Return(t) /\ ForgetCancel(j) /\ UNCHANGED admissionVars
       ELSE AcquireAdmission(t) /\ UNCHANGED cancelVars
    /\ LeaveJob
    /\ UNCHANGED <<attempt, stale, line, result, proc, life, waitVars>>

\* A released slot woke this task; the loop looks again.
Resume(t) ==
    /\ pc[t] = "queueing"
    /\ \A i \in 1..Len(admissionWaiters) : admissionWaiters[i] # t
    /\ AcquireAdmission(t)
    /\ LeaveJob
    /\ UNCHANGED <<attempt, stale, line, result, cancelVars, proc, life, waitVars>>

-----------------------------------------------------------------------------
(* runLocalJob with a slot.                                                 *)

\* Mutant: no UNIQUE(job_id, ordinal).
CreateAttemptAgain(j) == attempt' = [attempt EXCEPT ![j] = "starting"]

\* createAttempt refuses a second attempt with ordinal 1.
CreateAttempt(j) ==
    /\ attempt[j] = "none"
    /\ attempt' = [attempt EXCEPT ![j] = "starting"]

Admitted(t) ==
    LET j == JobOf(t) IN
    /\ pc[t] = "admitted"
    /\ IF GivenUp(j)
       THEN /\ ReleaseAdmission /\ ForgetCancel(j) /\ Return(t)
            /\ UNCHANGED attempt
       ELSE /\ \/ CreateAttempt(j) /\ Goto(t, "setup")
               \/ attempt[j] # "none" /\ Throw(t) /\ UNCHANGED attempt
            /\ UNCHANGED <<admissionVars, cancelVars>>
    /\ LeaveJob
    /\ UNCHANGED <<stale, line, result, proc, life, waitVars>>

\* The directories cannot be made: this is before the try block.
SetupFails(t) ==
    /\ pc[t] = "setup"
    /\ Throw(t)
    /\ LeaveJob
    /\ UNCHANGED <<attempt, stale, line, result, cancelVars, admissionVars, proc, life,
                   waitVars>>

\* Mutant: the catch block leaves the job to the caller.
CatchForgetsJob(t, o) ==
    /\ attempt' = [attempt EXCEPT ![JobOf(t)] = "completed"]
    /\ LeaveJob
    /\ Goto(t, "failing")

\* The catch block up to its await.
Catch(t, o) ==
    LET j == JobOf(t) IN
    /\ attempt' = [attempt EXCEPT ![j] = "completed"]
    /\ IF Terminal(j) THEN LeaveJob ELSE CompleteJob(j, o)
    /\ Goto(t, "failing")

CaughtOutcome(j) == IF j \in cancelled THEN "cancelled" ELSE "failed"

\* One of the two checkpoints for a pending cancellation.
CancelCheckpoint(t) ==
    /\ JobOf(t) \in pendingCancels
    /\ cancelled' = cancelled \cup {JobOf(t)}
    /\ Catch(t, "cancelled")

SetUp(t) ==
    LET j == JobOf(t) IN
    /\ pc[t] = "setup"
    /\ \/ CancelCheckpoint(t)
       \/ /\ j \notin pendingCancels
          /\ TransitionJobState(j, "materializing")
          /\ Goto(t, "materializing")
          /\ UNCHANGED <<attempt, cancelled>>
    /\ UNCHANGED <<stale, line, result, pendingCancels, activeCancels, admissionVars, proc,
                   life, waitVars>>

Materialized(t) ==
    LET j == JobOf(t) IN
    /\ pc[t] = "materializing"
    /\ \/ CancelCheckpoint(t)
       \/ /\ j \notin pendingCancels
          /\ Goto(t, "scripting")
          /\ LeaveJob
          /\ UNCHANGED <<attempt, cancelled>>
    /\ UNCHANGED <<stale, line, result, pendingCancels, activeCancels, admissionVars, proc,
                   life, waitVars>>

\* writeJobScript is done; nothing looks at pendingCancels here.
ScriptWritten(t) ==
    /\ pc[t] = "scripting"
    /\ TransitionJobState(JobOf(t), "starting")
    /\ Goto(t, "starting")
    /\ UNCHANGED <<attempt, stale, line, result, cancelVars, admissionVars, proc, life,
                   waitVars>>

SpawnJobScript(t) ==
    /\ pc[t] = "starting"
    /\ proc' = [proc EXCEPT ![JobOf(t)] = "alive"]
    /\ Goto(t, "spawned")
    /\ LeaveJob
    /\ UNCHANGED <<attempt, stale, line, result, cancelVars, admissionVars, life, waitVars>>

Kill(j) == proc' = [proc EXCEPT ![j] = IF @ = "alive" THEN "dying" ELSE @]

\* process_started is recorded: from here requestJobCancel finds a handle.
Started(t) ==
    LET j == JobOf(t) IN
    /\ pc[t] = "spawned"
    /\ activeCancels' = activeCancels \cup {j}
    /\ TransitionJobState(j, "running")
    /\ attempt' = [attempt EXCEPT ![j] = "running"]
    /\ IF j \in pendingCancels
       THEN cancelled' = cancelled \cup {j} /\ Kill(j)
       ELSE UNCHANGED <<cancelled, proc>>
    /\ Goto(t, "executing")
    /\ UNCHANGED <<stale, line, result, pendingCancels, admissionVars, life, waitVars>>

\* waitForCompletion: the exit races the hard timeout, the duration and the
\* log patterns; every answer but the exit kills the process.
Completion(t) ==
    LET j == JobOf(t) IN
    /\ pc[t] = "executing"
    /\ \/ Exited(j) /\ result' = [result EXCEPT ![t] = "exit"] /\ UNCHANGED proc
       \/ /\ proc[j] \in {"alive", "dying"}
          /\ \E r \in Completions[j] : result' = [result EXCEPT ![t] = r]
          /\ Kill(j)
    /\ Goto(t, "draining")
    /\ LeaveJob
    /\ UNCHANGED <<attempt, stale, line, cancelVars, admissionVars, life, waitVars>>

CollectArtifacts(t) ==
    /\ pc[t] = "draining" /\ Exited(JobOf(t))
    /\ TransitionJobState(JobOf(t), "collecting_artifacts")
    /\ Goto(t, "collecting")
    /\ UNCHANGED <<attempt, stale, line, result, cancelVars, admissionVars, proc, life,
                   waitVars>>

OutcomeOf(t) ==
    IF JobOf(t) \in cancelled THEN "cancelled"
    ELSE CASE result[t] = "timeout" -> "timed_out"
           [] result[t] = "log_failure" -> "failed"
           [] result[t] \in {"duration_complete", "log_success"} -> "succeeded"
           [] OTHER -> IF proc[JobOf(t)] = "exit0" THEN "succeeded" ELSE "failed"

Finished(t) ==
    LET j == JobOf(t) IN
    /\ pc[t] = "collecting"
    /\ attempt' = [attempt EXCEPT ![j] = "completed"]
    /\ CompleteJob(j, OutcomeOf(t))
    /\ Goto(t, "reporting")
    /\ UNCHANGED <<stale, line, result, cancelVars, admissionVars, proc, life, waitVars>>

\* Any awaited step of the try block may fail: reading the snapshot, writing the
\* script or an event, collecting.  The process is not killed.
StepFails(t) ==
    /\ pc[t] \in {"materializing", "scripting", "starting", "spawned", "collecting",
                  "reporting"}
    /\ Catch(t, CaughtOutcome(JobOf(t)))
    /\ UNCHANGED <<stale, line, result, cancelVars, admissionVars, proc, life, waitVars>>

\* The finally block waits for a kill in flight, then gives the slot back.
Finally(t) ==
    LET j == JobOf(t) IN
    /\ pc[t] \in {"reporting", "failing"}
    /\ proc[j] # "dying"
    /\ activeCancels' = activeCancels \ {j}
    /\ pendingCancels' = pendingCancels \ {j}
    /\ ReleaseAdmission
    /\ result' = [result EXCEPT ![t] = "none"]
    /\ Goto(t, IF pc[t] = "failing" /\ j \notin cancelled THEN "clearing" ELSE "cleaning")
    /\ LeaveJob
    /\ UNCHANGED <<attempt, stale, line, cancelled, proc, life, waitVars>>

\* The cleanup script ended, failed or was killed at its own timeout; whatever it
\* answers is only logged.
RunCleanupScript(t) == pc[t] \in {"cleaning", "clearing"}

\* The workspace is removed; an error that was not a cancellation is thrown on.
Cleaned(t) ==
    /\ RunCleanupScript(t)
    /\ IF pc[t] = "cleaning" THEN Return(t) ELSE Throw(t)
    /\ LeaveJob
    /\ UNCHANGED <<attempt, stale, line, result, cancelVars, admissionVars, proc, life,
                   waitVars>>

ProcessEnds(j) ==
    /\ proc[j] \in {"alive", "dying"}
    /\ \E code \in {"exit0", "exit1"} : proc' = [proc EXCEPT ![j] = code]
    /\ UNCHANGED <<jobVars, taskVars, cancelVars, admissionVars, notifierVars, life, waitVars>>

-----------------------------------------------------------------------------
(* job_cancel.                                                              *)

\* Mutant: a terminal job is not turned away.
RequestJobCancelLate(j) ==
    /\ state[j] # "unborn"
    /\ pendingCancels' = pendingCancels \cup {j}
    /\ attempt' = [attempt EXCEPT ![j] = IF @ = "none" THEN "none" ELSE "completed"]
    /\ CompleteJob(j, "cancelled")
    /\ UNCHANGED <<stale, line, taskVars, activeCancels, cancelled, proc, admissionVars, life,
                   waitVars>>

RequestJobCancel(j) ==
    /\ state[j] # "unborn" /\ ~Terminal(j)
    /\ pendingCancels' = pendingCancels \cup {j}
    /\ IF j \in activeCancels
       THEN /\ cancelled' = cancelled \cup {j}
            /\ Kill(j)
            /\ LeaveJob
            /\ UNCHANGED attempt
       ELSE /\ attempt' = [attempt EXCEPT ![j] = IF @ = "none" THEN "none" ELSE "completed"]
            /\ CompleteJob(j, "cancelled")
            /\ UNCHANGED <<cancelled, proc>>
    /\ UNCHANGED <<stale, line, taskVars, activeCancels, admissionVars, life, waitVars>>

-----------------------------------------------------------------------------
(* waitForJob, with an await at every place its test hooks can put one.     *)

waitFrame == <<jobVars, taskVars, cancelVars, admissionVars, proc, life>>

Answer(w, j) ==
    /\ told' = [told EXCEPT ![w] = IF Terminal(j) THEN outcome[j] ELSE @]
    /\ wpc' = [wpc EXCEPT ![w] = IF Terminal(j) THEN "answered" ELSE "idle"]

Wait(w, place) ==
    /\ wpc' = [wpc EXCEPT ![w] = place]
    /\ UNCHANGED told

\* The first read; job_run resumes here when it is given a job_id.
WaitBegin(w, j) ==
    /\ wpc[w] = "idle" /\ state[j] # "unborn"
    /\ wjob' = [wjob EXCEPT ![w] = j]
    /\ IF Terminal(j) \/ Closed THEN Answer(w, j) ELSE Wait(w, "ticking")
    /\ UNCHANGED <<waitFrame, notifierVars>>

\* The read after onTick.
WaitRead(w) ==
    /\ wpc[w] = "ticking"
    /\ IF Terminal(wjob[w]) \/ Closed THEN Answer(w, wjob[w]) ELSE Wait(w, "subscribing")
    /\ UNCHANGED <<waitFrame, notifierVars, wjob>>

\* A closed notifier calls the listener at once.
Subscribe(w) ==
    /\ wpc[w] = "subscribing"
    /\ IF Closed
       THEN woken' = woken \cup {w} /\ UNCHANGED listeners
       ELSE listeners' = [listeners EXCEPT ![wjob[w]] = @ \cup {w}] /\ UNCHANGED woken
    /\ Wait(w, "rereading")
    /\ UNCHANGED <<waitFrame, wjob>>

Unsubscribe(w) ==
    /\ listeners' = [listeners EXCEPT ![wjob[w]] = @ \ {w}]
    /\ woken' = woken \ {w}

\* Mutant: the waiter parks without the second read.
RereadSkipped(w) ==
    /\ wpc[w] = "rereading"
    /\ Wait(w, "parked")
    /\ UNCHANGED <<waitFrame, wjob, notifierVars>>

\* The second durable read, before the race.
Reread(w) ==
    /\ wpc[w] = "rereading"
    /\ IF Terminal(wjob[w])
       THEN Unsubscribe(w) /\ Answer(w, wjob[w])
       ELSE Wait(w, "parked") /\ UNCHANGED notifierVars
    /\ UNCHANGED <<waitFrame, wjob>>

\* The read after the race, and the loop's condition.
LookAgain(w) ==
    /\ wpc[w] = "parked"
    /\ Unsubscribe(w)
    /\ IF Terminal(wjob[w]) \/ Closed THEN Answer(w, wjob[w]) ELSE Wait(w, "ticking")
    /\ UNCHANGED <<waitFrame, wjob>>

WaitWoken(w) == w \in woken /\ LookAgain(w)

\* WAIT_FALLBACK_INTERVAL_MS.
WaitFallback(w) == w \notin woken /\ LookAgain(w)

\* The deadline or the abort signal: the client is told to resume.
WaitExpires(w) ==
    /\ wpc[w] \in {"ticking", "parked"}
    /\ Unsubscribe(w)
    /\ Answer(w, wjob[w])
    /\ UNCHANGED <<waitFrame, wjob>>

\* Shutdown closes the notifier first, which wakes every waiter.
CloseNotifier ==
    /\ life = "up" /\ life' = "closing"
    /\ Notify(Jobs)
    /\ UNCHANGED <<jobVars, taskVars, cancelVars, admissionVars, proc, waitVars>>

\* Closing the agent plane stops the sweep.
CloseAgentPlane ==
    /\ life = "closing" /\ life' = "down"
    /\ UNCHANGED <<jobVars, taskVars, cancelVars, admissionVars, proc, notifierVars, waitVars>>

-----------------------------------------------------------------------------

\* What a task does once an awaited call has succeeded.
Advance(t) ==
    \/ StopDispatch(t) \/ DecideWait(t) \/ DecideFailFast(t) \/ DecideLocal(t)
    \/ Resume(t) \/ Admitted(t) \/ SetUp(t) \/ Materialized(t) \/ ScriptWritten(t)
    \/ SpawnJobScript(t) \/ Started(t) \/ Completion(t) \/ CollectArtifacts(t)
    \/ Finished(t) \/ Finally(t) \/ Cleaned(t)

Task(t) == Advance(t) \/ Sweep(t) \/ SetupFails(t) \/ StepFails(t)

Client(j) ==
    \/ \E t \in Callers : Submit(j, t) \/ Confirm(j, t) \/ ConfirmByAdmin(j, t)
    \/ TtlPasses(j) \/ ConfirmTooLate(j) \/ RequestJobCancel(j) \/ ProcessEnds(j)

Waiter(w) ==
    \/ \E j \in Jobs : WaitBegin(w, j)
    \/ WaitRead(w) \/ Subscribe(w) \/ Reread(w) \/ WaitWoken(w) \/ WaitFallback(w)
    \/ WaitExpires(w)

Next ==
    \/ \E t \in Tasks : Task(t)
    \/ \E j \in Jobs : Client(j)
    \/ \E w \in Waiters : Waiter(w)
    \/ CloseNotifier \/ CloseAgentPlane

Spec == Init /\ [][Next]_vars

\* The event loop resumes what a task awaits, and a script ends or is killed at
\* its timeout.  No fairness is assumed of clients, waiters or the sweep.
FairSpec ==
    /\ Spec
    /\ \A t \in Tasks : WF_vars(Advance(t))
    /\ \A j \in Jobs : WF_vars(ProcessEnds(j))

-----------------------------------------------------------------------------
TypeOK ==
    /\ state \in [Jobs -> JobStates]
    /\ outcome \in [Jobs -> Outcomes]
    /\ attempt \in [Jobs -> {"none", "starting", "running", "completed"}]
    /\ stale \subseteq Jobs
    /\ line \in Seq(Jobs)
    /\ pc \in [Tasks -> TaskStates]
    /\ rows \in [Tasks -> Seq(Jobs)]
    /\ result \in [Tasks -> Results]
    /\ pendingCancels \subseteq Jobs /\ activeCancels \subseteq Jobs /\ cancelled \subseteq Jobs
    /\ admissionActive \in 0..MaxConcurrentJobs
    /\ admissionWaiters \in Seq(Tasks)
    /\ proc \in [Jobs -> ProcStates]
    /\ listeners \in [Jobs -> SUBSET Waiters] /\ woken \subseteq Waiters
    /\ life \in {"up", "closing", "down"}
    /\ wpc \in [Waiters -> {"idle", "ticking", "subscribing", "rereading", "parked", "answered"}]
    /\ wjob \in [Waiters -> Jobs]
    /\ told \in [Waiters -> Outcomes]

(* Never more scripts than slots.  Every admitted run is counted, a slot that  *)
(* an exception leaked stays counted, and a process that outlives its run is   *)
(* one whose run failed after the spawn (its catch block kills nothing).       *)
HostWithinLimit ==
    /\ Cardinality({t \in Tasks : pc[t] \in Holding}) <= admissionActive
    /\ admissionActive <= MaxConcurrentJobs
    /\ \A j \in Jobs : proc[j] \in {"alive", "dying"} =>
          \/ \E t \in Tasks : pc[t] \in Holding /\ JobOf(t) = j
          \/ state[j] = "completed" /\ outcome[j] \in {"failed", "cancelled"}

(* waitForJob's read, subscribe, read again is safe from lost wake-ups: a      *)
(* parked waiter is still subscribed to a job that is not terminal, or its     *)
(* wake promise is already resolved.                                           *)
NoLostWakeup ==
    \A w \in Waiters : wpc[w] = "parked" =>
        \/ w \in woken
        \/ w \in listeners[wjob[w]] /\ ~Terminal(wjob[w])

(* A client that was told a job succeeded is never contradicted: no late       *)
(* dispatch, cancellation or failing clean-up rewrites the row.                *)
SuccessIsFinal ==
    \A w \in Waiters : told[w] = "succeeded" =>
        Terminal(wjob[w]) /\ outcome[wjob[w]] = "succeeded"

(* An attempt that reached its process brings its job to a terminal state for  *)
(* good, whatever fails on the way.                                            *)
RunningJobSettles ==
    \A j \in Jobs : (attempt[j] = "running") ~> [](state[j] = "completed")

(* requestJobCancel: "mark terminal so fire-and-track will not execute".       *)
CancelledDoesNotExecute ==
    [][\A j \in Jobs : outcome[j] = "cancelled" /\ proc[j] = "none" => proc'[j] = "none"]_vars

-----------------------------------------------------------------------------
(* The refinement: a guarded job is decided when its row leaves                *)
(* awaiting_confirmation, and accepted if that put it in the queue.            *)
GateOf(j) ==
    IF j \notin Guarded THEN "open"
    ELSE IF state[j] \in {"unborn", "awaiting_confirmation"} THEN "asked"
    ELSE IF j \in {line[i] : i \in 1..Len(line)} THEN "accepted"
    ELSE "refused"

ExecOf(j) ==
    CASE proc[j] = "none" -> "no"
      [] proc[j] \in {"alive", "dying"} -> "running"
      [] OTHER -> "over"

Gate == INSTANCE ExecutionGate
            WITH gate <- [j \in Jobs |-> GateOf(j)], exec <- [j \in Jobs |-> ExecOf(j)]

(* A stale or refused confirmation never leads to an execution, and no race of *)
(* dispatches executes a job twice.                                            *)
GateHolds == Gate!Spec
=============================================================================
