-------------------------- MODULE SubmissionCapture --------------------------
(***************************************************************************)
(* Idempotent job submission in the Controller: the job_submissions row,   *)
(* its snapshot capture lease with a fencing generation, the publication   *)
(* of the captured files, the commit transaction, and the startup sweep    *)
(* that removes files no snapshot row refers to.                           *)
(*                                                                         *)
(* A request is one call of handleJobSubmit.  Its owner token and its      *)
(* pending job id are fresh random strings, so the request stands for      *)
(* both; its files lie in a directory named after its job id, so they are  *)
(* kept per request.  SQLite calls are synchronous: everything between two *)
(* awaits is one action.                                                   *)
(***************************************************************************)
EXTENDS Integers, FiniteSets

CONSTANTS
    Keys,         \* idempotency keys (client_id, client_request_id)
    Requests,     \* calls of handleJobSubmit
    KeyOf,        \* the key each request carries
    NFiles,       \* files a capture publishes (four in the code)
    TTL,          \* capture lease time to live, in clock ticks
    MaxTime,      \* bound: the clock stops here
    MaxCrashes,   \* bound: Controller crashes
    NoRequest     \* "no owner", "no job", "no directory"

ASSUME CaptureConstants ==
    /\ KeyOf \in [Requests -> Keys]
    /\ NFiles \in Nat \ {0}
    /\ TTL \in Nat \ {0}
    /\ MaxTime \in Nat
    /\ MaxCrashes \in Nat
    /\ NoRequest \notin Requests

VARIABLES
    \* job_submissions, by key
    state, jobOf,
    \* snapshot_capture_leases, by key
    owner, generation, expires,
    \* snapshots and jobs: the requests whose rows are committed
    jobs,
    \* the local variables of each call
    pc, held, done, retryable,
    \* what each call returned
    answer,
    \* files on disk, by request
    candidates, finals,
    \* the recovery sweep: its task state and timer, the references and the
    \* directories it read, the directory it is in and what is left there
    task, retryAt, known, dirs, dir, entries, target,
    \* the host's clock, the HTTP listener, crashes so far
    clock, listener, crashes

submissions == <<state, jobOf>>
leases == <<owner, generation, expires>>
calls == <<pc, held, done, retryable>>
disk == <<candidates, finals>>
sweep == <<task, retryAt, known, dirs, dir, entries, target>>
env == <<clock, listener, crashes>>
vars == <<submissions, leases, jobs, calls, answer, disk, sweep, env>>

-----------------------------------------------------------------------------
Indices == 1..NFiles
(* A directory entry is a private candidate or a generation-scoped final file. *)
Entries == {"candidate", "final"} \X Indices

PCs == {"idle", "capturing", "publishing", "linking", "unlinking", "aborting",
        "done"}

(* The expiry a released lease carries: 1970-01-01. *)
Epoch == 0

Answers == [kind : {"none", "busy", "failed", "retry", "lost"}, job : {NoRequest}]
           \cup [kind : {"captured"}, job : Requests]
Answer(kind) == [kind |-> kind, job |-> NoRequest]
Captured(j) == [kind |-> "captured", job |-> j]

(* The call still names the lease row: same owner token, same generation. *)
IsHolder(r) == owner[KeyOf[r]] = r /\ generation[KeyOf[r]] = held[r]

(* Mutant of HasAuthority: the expiry is not looked at. *)
MutantExpiredAuthority(r) == IsHolder(r) /\ state[KeyOf[r]] = "capturing"

(* hasCaptureLeaseAuthority: the holder, unexpired, of a submission that is
   still capturing. *)
HasAuthority(r) ==
    /\ IsHolder(r)
    /\ expires[KeyOf[r]] > clock
    /\ state[KeyOf[r]] = "capturing"

(* hasActiveCaptureLease: any key's lease row, whatever its submission state. *)
ActiveLease == \E k \in Keys : expires[k] > clock

(* Mutant of Release: the row is deleted, and its generation with it. *)
MutantReleaseDeletes(r) ==
    /\ expires' = IF IsHolder(r) THEN [expires EXCEPT ![KeyOf[r]] = Epoch] ELSE expires
    /\ generation' = IF IsHolder(r) THEN [generation EXCEPT ![KeyOf[r]] = 0] ELSE generation
    /\ UNCHANGED owner

(* releaseCaptureLease: expire the exact owner generation, keep its row. *)
Release(r) ==
    /\ expires' = IF IsHolder(r) THEN [expires EXCEPT ![KeyOf[r]] = Epoch] ELSE expires
    /\ UNCHANGED <<owner, generation>>

-----------------------------------------------------------------------------
(* Mutant of Reserve: a failed submission is opened again. *)
MutantReserveReopens(r) ==
    /\ state' = IF state[KeyOf[r]] \in {"none", "failed"}
                THEN [state EXCEPT ![KeyOf[r]] = "capturing"] ELSE state
    /\ UNCHANGED jobOf

(* reserveSubmission: insert the row unless the key has one. *)
Reserve(r) ==
    /\ state' = IF state[KeyOf[r]] = "none"
                THEN [state EXCEPT ![KeyOf[r]] = "capturing"] ELSE state
    /\ UNCHANGED jobOf

(* acquireCaptureLease: the lease row is inserted with generation 1, or an
   expired one is reclaimed by compare-and-swap, which advances its
   generation (no row is generation 0, expired). *)
Acquire(r) ==
    LET k == KeyOf[r] IN
    /\ state[k] \in {"none", "capturing"}
    /\ expires[k] <= clock
    /\ owner' = [owner EXCEPT ![k] = r]
    /\ generation' = [generation EXCEPT ![k] = @ + 1]
    /\ expires' = [expires EXCEPT ![k] = clock + TTL]
    /\ pc' = [pc EXCEPT ![r] = "capturing"]
    /\ held' = [held EXCEPT ![r] = generation[k] + 1]
    /\ UNCHANGED answer

(* No lease: the key is being captured by a live owner, or its submission is
   terminal and the stored response or error is returned. *)
Refuse(r) ==
    LET k == KeyOf[r] IN
    /\ \/ /\ state[k] = "capturing" /\ expires[k] > clock
          /\ answer' = [answer EXCEPT ![r] = Answer("busy")]
       \/ /\ state[k] = "captured"
          /\ answer' = [answer EXCEPT ![r] = Captured(jobOf[k])]
       \/ /\ state[k] = "failed"
          /\ answer' = [answer EXCEPT ![r] = Answer("failed")]
    /\ pc' = [pc EXCEPT ![r] = "done"]
    /\ UNCHANGED <<leases, held>>

(* handleJobSubmit up to its first await: reserveCaptureLease. *)
Submit(r) ==
    /\ listener = "up"
    /\ pc[r] = "idle"
    /\ Reserve(r)
    /\ Acquire(r) \/ Refuse(r)
    /\ UNCHANGED <<jobs, done, retryable, disk, sweep, env>>

(* The renewal interval of a call that has not finished: renewCaptureLease. *)
Renew(r) ==
    /\ pc[r] \in {"capturing", "publishing", "linking", "unlinking"}
    /\ HasAuthority(r)
    /\ expires' = [expires EXCEPT ![KeyOf[r]] = clock + TTL]
    /\ UNCHANGED <<submissions, owner, generation, jobs, calls, answer, disk,
                   sweep, env>>

(* captureAndPersistSnapshot wrote the private candidates; they are flushed. *)
Capture(r) ==
    /\ pc[r] = "capturing"
    /\ candidates' = [candidates EXCEPT ![r] = Indices]
    /\ pc' = [pc EXCEPT ![r] = "publishing"]
    /\ UNCHANGED <<submissions, leases, jobs, held, done, retryable, answer,
                   finals, sweep, env>>

(* A thrown error: the call goes to its catch block. *)
Throw(r, retry) ==
    /\ pc' = [pc EXCEPT ![r] = "aborting"]
    /\ retryable' = [retryable EXCEPT ![r] = retry]
    /\ UNCHANGED <<held, done>>

(* The authority check in front of each link. *)
CheckAuthority(r) ==
    /\ pc[r] = "publishing"
    /\ done[r] < NFiles
    /\ IF HasAuthority(r)
       THEN pc' = [pc EXCEPT ![r] = "linking"] /\ UNCHANGED <<held, done, retryable>>
       ELSE Throw(r, TRUE)
    /\ UNCHANGED <<submissions, leases, jobs, answer, disk, sweep, env>>

(* publishCandidate, first half: link the candidate to its final name.  It
   fails (StepFails) if the candidate is gone or the name is taken. *)
Link(r) ==
    /\ pc[r] = "linking"
    /\ done[r] + 1 \in candidates[r] \ finals[r]
    /\ finals' = [finals EXCEPT ![r] = @ \cup {done[r] + 1}]
    /\ pc' = [pc EXCEPT ![r] = "unlinking"]
    /\ UNCHANGED <<submissions, leases, jobs, held, done, retryable, answer,
                   candidates, sweep, env>>

(* publishCandidate, second half: unlink the candidate and flush the directory;
   if the unlink fails, the final name is given up, as far as that works. *)
Unlink(r) ==
    /\ pc[r] = "unlinking"
    /\ done[r] + 1 \in candidates[r]
    /\ candidates' = [candidates EXCEPT ![r] = @ \ {done[r] + 1}]
    /\ pc' = [pc EXCEPT ![r] = "publishing"]
    /\ done' = [done EXCEPT ![r] = @ + 1]
    /\ UNCHANGED <<submissions, leases, jobs, held, retryable, answer, finals,
                   sweep, env>>

UnlinkFails(r) ==
    /\ pc[r] = "unlinking"
    /\ \E gone \in {{}, {done[r] + 1}} :
          finals' = [finals EXCEPT ![r] = @ \ gone]
    /\ Throw(r, TRUE)
    /\ UNCHANGED <<submissions, leases, jobs, answer, candidates, sweep, env>>

(* Mutant of CommitTransaction: the authority is not checked again. *)
MutantCommitUnchecked(r) ==
    /\ pc[r] = "publishing"
    /\ done[r] = NFiles
    /\ jobs' = jobs \cup {r}
    /\ state' = [state EXCEPT ![KeyOf[r]] = "captured"]
    /\ jobOf' = [jobOf EXCEPT ![KeyOf[r]] = r]

(* The lifecycle transaction: authority check, snapshot row, job row (unique
   for its key), submission captured. *)
CommitTransaction(r) ==
    /\ pc[r] = "publishing"
    /\ done[r] = NFiles
    /\ HasAuthority(r)
    /\ jobs' = jobs \cup {r}
    /\ state' = [state EXCEPT ![KeyOf[r]] = "captured"]
    /\ jobOf' = [jobOf EXCEPT ![KeyOf[r]] = r]

Commit(r) ==
    /\ CommitTransaction(r)
    /\ Release(r)
    /\ pc' = [pc EXCEPT ![r] = "done"]
    /\ answer' = [answer EXCEPT ![r] = Captured(r)]
    /\ UNCHANGED <<held, done, retryable, disk, sweep, env>>

CommitRefused(r) ==
    /\ pc[r] = "publishing"
    /\ done[r] = NFiles
    /\ ~HasAuthority(r)
    /\ Throw(r, TRUE)
    /\ UNCHANGED <<submissions, leases, jobs, answer, disk, sweep, env>>

(* A capture error says whether it is retryable; an unknown error of a later
   step always is. *)
StepFails(r) ==
    /\ pc[r] \in {"capturing", "publishing", "linking"}
    /\ \E retry \in BOOLEAN : (pc[r] = "capturing" \/ retry) /\ Throw(r, retry)
    /\ UNCHANGED <<submissions, leases, jobs, answer, disk, sweep, env>>

(* Mutant of FailSubmission: a late owner's failure is recorded too. *)
MutantFailLate(r) ==
    /\ state' = [state EXCEPT ![KeyOf[r]] = "failed"]
    /\ Release(r)
    /\ answer' = [answer EXCEPT ![r] = Answer("failed")]

(* failSubmissionIfCaptureLeaseIsAuthoritative: the failure becomes the outcome
   of the key only while the lease is authoritative. *)
FailSubmission(r) ==
    IF HasAuthority(r)
    THEN /\ state' = [state EXCEPT ![KeyOf[r]] = "failed"]
         /\ Release(r)
         /\ answer' = [answer EXCEPT ![r] = Answer("failed")]
    ELSE /\ answer' = [answer EXCEPT ![r] = Answer("lost")]
         /\ UNCHANGED <<state, leases>>

(* The catch block, from the end of its cleanup of the candidates. *)
Abort(r) ==
    /\ pc[r] = "aborting"
    /\ candidates' = [candidates EXCEPT ![r] = {}]
    /\ pc' = [pc EXCEPT ![r] = "done"]
    /\ \/ /\ retryable[r]
          /\ Release(r)
          /\ answer' = [answer EXCEPT ![r] = Answer("retry")]
          /\ UNCHANGED state
       \/ ~retryable[r] /\ FailSubmission(r)
    /\ UNCHANGED <<jobOf, jobs, held, done, retryable, finals, sweep, env>>

(* The cleanup itself throws: the catch block is left with the lease held and
   the candidates on disk. *)
AbortFails(r) ==
    /\ pc[r] = "aborting"
    /\ pc' = [pc EXCEPT ![r] = "done"]
    /\ UNCHANGED <<submissions, leases, jobs, held, done, retryable, answer,
                   disk, sweep, env>>

-----------------------------------------------------------------------------
(* recoverSnapshotPublications and its retry timer.  Back to no sweep. *)
ClearSweep(t, at) ==
    /\ task' = t
    /\ retryAt' = at
    /\ known' = {} /\ dirs' = {} /\ entries' = {} /\ target' = {}
    /\ dir' = NoRequest

(* snapshotRecoveryRetryDelayMs: when the soonest live lease expires (the 50 ms
   it adds are less than a tick). *)
SoonestExpiry ==
    {expires[k] : k \in {x \in Keys :
        /\ expires[x] > clock
        /\ \A y \in Keys : expires[y] > clock => expires[x] <= expires[y]}}

(* A sweep is put off, and startup goes on, while any capture lease is live. *)
Defer(retryTimes) ==
    /\ \E at \in retryTimes : ClearSweep("waiting", at)
    /\ listener' = "up"

SweepBegin ==
    /\ \/ task = "starting"
       \/ task = "waiting" /\ retryAt <= clock
    /\ IF ActiveLease
       THEN Defer(SoonestExpiry)
       ELSE /\ task' = "scanning"
            /\ known' = jobs
            /\ dirs' = {r \in Requests : candidates[r] \cup finals[r] # {}}
            /\ UNCHANGED <<retryAt, dir, entries, target, listener>>
    /\ UNCHANGED <<submissions, leases, jobs, calls, answer, disk, clock, crashes>>

SweepDirectory(r) ==
    /\ task = "scanning"
    /\ entries = {} /\ r \in dirs
    /\ dir' = r
    /\ dirs' = dirs \ {r}
    /\ entries' = {e \in Entries :
                     e[2] \in IF e[1] = "final" THEN finals[r] ELSE candidates[r]}
    /\ UNCHANGED <<submissions, leases, jobs, calls, answer, disk, task, retryAt,
                   known, target, env>>

(* One directory entry: abort when a lease has become live (and retry at once
   if that lease ends before the delay is computed), skip what the first or a
   fresh reading of the snapshot rows protects, else start rm.  Only a
   final name carries its generation at the end, so only final files are
   protected by the generation of a referenced path. *)
SweepEntry(e) ==
    /\ task = "scanning"
    /\ IF ActiveLease
       THEN Defer(SoonestExpiry \cup {clock})
       ELSE /\ entries' = entries \ {e}
            /\ IF e[1] = "final" /\ dir \in known \cup jobs
               THEN UNCHANGED <<task, target>>
               ELSE task' = "removing" /\ target' = {e}
            /\ UNCHANGED <<retryAt, known, dirs, dir, listener>>
    /\ UNCHANGED <<submissions, leases, jobs, calls, answer, disk, clock, crashes>>

(* The rm that SweepEntry started takes effect, however late. *)
SweepRemove ==
    /\ task = "removing"
    /\ candidates' = [candidates EXCEPT ![dir] = {i \in @ : <<"candidate", i>> \notin target}]
    /\ finals' = [finals EXCEPT ![dir] = {i \in @ : <<"final", i>> \notin target}]
    /\ task' = "scanning"
    /\ target' = {}
    /\ UNCHANGED <<submissions, leases, jobs, calls, answer, retryAt, known, dirs,
                   dir, entries, env>>

SweepEnd ==
    /\ task = "scanning"
    /\ entries = {} /\ dirs = {}
    /\ ClearSweep("complete", 0)
    /\ listener' = "up"
    /\ UNCHANGED <<submissions, leases, jobs, calls, answer, disk, clock, crashes>>

(* A file operation of the sweep throws.  During startup that ends the process
   (Crash); a retry only logs it and is not repeated. *)
SweepFails ==
    /\ listener = "up"
    /\ task \in {"scanning", "removing"}
    /\ ClearSweep("complete", 0)
    /\ UNCHANGED <<submissions, leases, jobs, calls, answer, disk, env>>

-----------------------------------------------------------------------------
Tick ==
    /\ clock < MaxTime
    /\ clock' = clock + 1
    /\ UNCHANGED <<submissions, leases, jobs, calls, answer, disk, sweep, listener,
                   crashes>>

(* The process dies: calls and sweep are gone, database and disk stay, and
   runController starts over with the awaited sweep before it serves. *)
Die ==
    /\ crashes < MaxCrashes
    /\ crashes' = crashes + 1
    /\ listener' = "down"
    /\ ClearSweep("starting", 0)
    /\ pc' = [r \in Requests |-> IF pc[r] = "idle" THEN "idle" ELSE "done"]
    /\ UNCHANGED <<held, done, retryable, answer, disk, clock>>

Crash == Die /\ UNCHANGED <<submissions, leases, jobs>>

(* The crash falls between the commit and the release of the lease. *)
CrashAfterCommit(r) == CommitTransaction(r) /\ Die /\ UNCHANGED leases

-----------------------------------------------------------------------------
Init ==
    /\ state = [k \in Keys |-> "none"]
    /\ jobOf = [k \in Keys |-> NoRequest]
    /\ owner = [k \in Keys |-> NoRequest]
    /\ generation = [k \in Keys |-> 0]
    /\ expires = [k \in Keys |-> Epoch]
    /\ jobs = {}
    /\ pc = [r \in Requests |-> "idle"]
    /\ held = [r \in Requests |-> 0]
    /\ done = [r \in Requests |-> 0]
    /\ retryable = [r \in Requests |-> FALSE]
    /\ answer = [r \in Requests |-> Answer("none")]
    /\ candidates = [r \in Requests |-> {}]
    /\ finals = [r \in Requests |-> {}]
    /\ task = "starting"
    /\ retryAt = 0
    /\ known = {} /\ dirs = {} /\ entries = {} /\ target = {}
    /\ dir = NoRequest
    /\ clock = 1
    /\ listener = "down"
    /\ crashes = 0

RequestStep(r) ==
    \/ Submit(r) \/ Renew(r) \/ Capture(r) \/ CheckAuthority(r) \/ Link(r)
    \/ Unlink(r) \/ UnlinkFails(r) \/ Commit(r) \/ CommitRefused(r)
    \/ StepFails(r) \/ Abort(r) \/ AbortFails(r) \/ CrashAfterCommit(r)

SweepStep ==
    \/ SweepBegin
    \/ \E r \in dirs : SweepDirectory(r)
    \/ \E e \in entries : SweepEntry(e)
    \/ SweepRemove
    \/ SweepEnd
    \/ SweepFails

Next ==
    \/ \E r \in Requests : RequestStep(r)
    \/ SweepStep
    \/ Tick
    \/ Crash

Spec == Init /\ [][Next]_vars

-----------------------------------------------------------------------------
(* Rows, call state, files and sweep stay in their types; outside a removal the
   sweep has no target (handleJobSubmit, recoverSnapshotPublications). *)
TypeOK ==
    /\ state \in [Keys -> {"none", "capturing", "captured", "failed"}]
    /\ jobOf \in [Keys -> Requests \cup {NoRequest}]
    /\ owner \in [Keys -> Requests \cup {NoRequest}]
    /\ generation \in [Keys -> Nat]
    /\ expires \in [Keys -> Nat]
    /\ jobs \subseteq Requests
    /\ pc \in [Requests -> PCs]
    /\ held \in [Requests -> Nat]
    /\ done \in [Requests -> 0..NFiles]
    /\ retryable \in [Requests -> BOOLEAN]
    /\ answer \in [Requests -> Answers]
    /\ candidates \in [Requests -> SUBSET Indices]
    /\ finals \in [Requests -> SUBSET Indices]
    /\ task \in {"starting", "waiting", "scanning", "removing", "complete"}
    /\ retryAt \in Nat
    /\ known \subseteq Requests
    /\ dirs \subseteq Requests
    /\ dir \in Requests \cup {NoRequest}
    /\ entries \subseteq Entries
    /\ target \subseteq Entries
    /\ dir = NoRequest => entries = {} /\ task # "removing"
    /\ task # "removing" => target = {}
    /\ clock \in Nat
    /\ listener \in {"up", "down"}
    /\ crashes \in Nat

-----------------------------------------------------------------------------
(* Every snapshot row refers to files that are all there: no sweep, however
   its reads, checks and late rm interleave with expiring, reclaimed and
   crashed captures, ever removes a file of a committed job
   (handleJobSubmit against recoverSnapshotPublications). *)
CommittedFilesPresent == \A r \in jobs : finals[r] = Indices

(* The submission row and the job rows agree: a key is captured exactly when
   it has a job, it never has two, and the row names the one it has.  The
   UNIQUE constraint on jobs is never what stops a second job. *)
JobMatchesSubmission ==
    /\ \A r \in jobs : state[KeyOf[r]] = "captured" /\ jobOf[KeyOf[r]] = r
    /\ \A k \in Keys : state[k] = "captured" => jobOf[k] \in jobs

(* Two captures of one key never work under the same fencing generation, also
   when the lease was released or its owner died in between: generation-scoped
   file names of a late owner cannot collide with a newer one's. *)
GenerationsDistinct ==
    \A r, q \in Requests :
        r # q /\ KeyOf[r] = KeyOf[q] /\ held[r] > 0 => held[r] # held[q]

(* Whoever asks with one key is told the same final outcome, whatever owner
   produced it and whenever they ask: terminal answers of a key are equal. *)
AnswersAgree ==
    \A r, q \in Requests :
        /\ KeyOf[r] = KeyOf[q]
        /\ answer[r].kind \in {"captured", "failed"}
        /\ answer[q].kind \in {"captured", "failed"}
        => answer[r] = answer[q]

(* A captured or failed submission never changes again (section 25.2 of the
   design), and a fencing generation never goes back. *)
TerminalStep ==
    \A k \in Keys :
        /\ state[k] \in {"captured", "failed"}
              => state'[k] = state[k] /\ jobOf'[k] = jobOf[k]
        /\ generation'[k] >= generation[k]
TerminalIsFinal == [][TerminalStep]_vars
=============================================================================
