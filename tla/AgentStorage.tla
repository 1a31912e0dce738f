---------------------------- MODULE AgentStorage ----------------------------
(***************************************************************************)
(* What attempts of one Agent share on its disk: the bare mirror of a      *)
(* repository with its worktrees, and one key of the build cache, both     *)
(* under the cleanup that heartbeats start when the disk runs low.         *)
(*                                                                         *)
(* An action is the code between two awaits on the file system (a `git`    *)
(* command or a recursive rm is one step).  Every lock here is a file; the *)
(* Agent process may be killed and restarted between any two steps.        *)
(***************************************************************************)
EXTENDS Naturals, FiniteSets, Sequences

CONSTANTS
    Attempts,       \* attempts of one repository and one cache key
    Overlay,        \* those with a git_overlay source, which use the mirror
    Readers,        \* those whose risk level may read the cache
    Writers,        \* those whose risk level may publish to it
    Cleaners,       \* runs of applyDiskPressureCleanup in flight
    MaxCrashes,     \* bound on kills of the Agent process
    MaxSweeps       \* bound on cleanups started

ASSUME StorageAssumption ==
    /\ IsFiniteSet(Attempts)
    /\ Attempts \cap {"nobody", "absent", "slot"} = {}
    /\ Overlay \subseteq Attempts
    /\ Readers \subseteq Attempts /\ Writers \subseteq Attempts
    /\ MaxCrashes \in Nat /\ MaxSweeps \in Nat

VARIABLES
    pc,             \* where each attempt is
    mode,           \* AcquireResult.mode of each attempt
    outcome,        \* how each attempt's script ended
    tries,          \* times an attempt has asked for the fetch lock
    chain,          \* repoMutexes: the promise chain of the repository, a queue
    fetchLock,      \* the file fetch.lock exists
    mirror,         \* mirror.git exists
    trees,          \* attempts whose worktree exists (overlayRepoUrl is set)
    worktrees,      \* metadata.json's active_worktree_count, or NoMeta
    recent,         \* metadata.json's last_used_at is within the retention
    lock,           \* the file <key>.lock
    entry,          \* the directory <key>: who published it and active_users
    backup,         \* <key>.bak-<attempt>, what publish moved aside
    seen,           \* active_users as an attempt last read it
    sweep,          \* where each cleanup is
    pass,           \* a cleanup's candidate is chosen in pass 1, deleted in pass 2
    crashes, sweeps

mirrorVars == <<tries, chain, fetchLock, mirror, trees, worktrees, recent>>
cacheVars == <<lock, entry, backup, seen>>
cleanVars == <<sweep, pass, sweeps>>
vars == <<pc, mode, outcome, mirrorVars, cacheVars, cleanVars, crashes>>

NoMeta == Cardinality(Attempts) + 1
NoLock == [by |-> "nobody", text |-> "none"]
Absent == [origin |-> "absent", users |-> 0]
Slot == [origin |-> "slot", users |-> 0]    \* the directory without .published

Published(e) == e.origin \in Attempts

\* An attempt waiting for the build-cache lock, to acquire or to release.
Locking == {"open", "writing", "inspect", "reclaim", "sleep"}
\* An attempt that created the lock file and has not removed it yet.
Holding == {"look", "count", "run_miss", "stage", "swap", "promote", "discard", "uncount",
            "unlock"}
Places == {"idle", "fetch", "fetching", "checkout", "counting", "acquire", "run", "untree",
           "uncounting", "done", "lost"} \cup Locking \cup Holding

Init ==
    /\ pc = [a \in Attempts |-> "idle"]
    /\ mode = [a \in Attempts |-> "none"]
    /\ outcome = [a \in Attempts |-> "none"]
    /\ tries = [a \in Attempts |-> 0]
    /\ chain = <<>> /\ fetchLock = FALSE /\ mirror = FALSE /\ trees = {}
    /\ worktrees = NoMeta /\ recent = FALSE
    /\ lock = NoLock /\ entry = Absent
    /\ backup = [a \in Attempts |-> Absent]
    /\ seen = [a \in Attempts |-> 0]
    /\ sweep = [c \in Cleaners |-> "idle"]
    /\ pass = [c \in Cleaners |-> 1]
    /\ crashes = 0 /\ sweeps = 0

Goto(a, place) == pc' = [pc EXCEPT ![a] = place]
At(a, place) == pc[a] = place

-----------------------------------------------------------------------------
(* The repository mirror (RepoMirrorManager, handlePrepareGitOverlay).      *)

\* withRepoMutex: take a place in the chain of promises.
EnterChain(a) == chain' = Append(chain, a)
MyTurn(a) == chain # <<>> /\ Head(chain) = a
LeaveChain == chain' = Tail(chain)

\* A full-snapshot attempt goes straight to its caches.
Prepare(a) ==
    /\ At(a, "idle")
    /\ IF a \in Overlay THEN Goto(a, "fetch") /\ EnterChain(a)
       ELSE Goto(a, "acquire") /\ UNCHANGED chain
    /\ UNCHANGED <<mode, outcome, tries, fetchLock, mirror, trees, worktrees, recent, cacheVars,
                   cleanVars, crashes>>

\* acquireFetchLock: the file must not exist.
LockFetch(a) ==
    /\ At(a, "fetch") /\ MyTurn(a) /\ ~fetchLock
    /\ fetchLock' = TRUE
    /\ Goto(a, "fetching")
    /\ UNCHANGED <<mode, outcome, tries, chain, mirror, trees, worktrees, recent, cacheVars,
                   cleanVars, crashes>>

\* ensureMirror and fetchRefs, or importBundle: clone when there is no mirror,
\* fetch, touch the metadata.
Fetched(a) ==
    /\ At(a, "fetching")
    /\ mirror' = TRUE /\ recent' = TRUE
    /\ worktrees' = IF worktrees = NoMeta THEN 0 ELSE worktrees
    /\ fetchLock' = FALSE
    /\ LeaveChain
    /\ Goto(a, "checkout")
    /\ UNCHANGED <<mode, outcome, tries, trees, cacheVars, cleanVars, crashes>>

\* Mutant: the promise chain's gate is not released when the operation fails.
SecondTryKeepsGate(a) ==
    /\ tries' = [tries EXCEPT ![a] = 1]
    /\ \/ tries[a] = 0 /\ Goto(a, "fetch") /\ UNCHANGED chain
       \/ tries[a] = 1 /\ Goto(a, "done") /\ UNCHANGED chain
       \/ Goto(a, "acquire") /\ UNCHANGED chain

\* Without the commit the Agent asks for a bundle and takes the mutex again to
\* import it, or it gets no bundle and the Controller sends the full snapshot.
\* A failed import ends the attempt.
SecondTry(a) ==
    /\ tries' = [tries EXCEPT ![a] = 1]
    /\ \/ tries[a] = 0 /\ Goto(a, "fetch") /\ chain' = Append(Tail(chain), a)
       \/ tries[a] = 1 /\ Goto(a, "done") /\ LeaveChain
       \/ Goto(a, "acquire") /\ LeaveChain

\* git failed, or the commit is not there: the metadata is written either way.
FetchFailed(a) ==
    /\ At(a, "fetching")
    /\ mirror' \in {mirror, TRUE}
    /\ recent' = TRUE
    /\ worktrees' = IF worktrees = NoMeta THEN 0 ELSE worktrees
    /\ fetchLock' = FALSE
    /\ SecondTry(a)
    /\ UNCHANGED <<mode, outcome, trees, cacheVars, cleanVars, crashes>>

\* EEXIST: nothing looks at who wrote the file, nor at its age.
FetchRefused(a) ==
    /\ At(a, "fetch") /\ MyTurn(a) /\ fetchLock
    /\ SecondTry(a)
    /\ UNCHANGED <<mode, outcome, fetchLock, mirror, trees, worktrees, recent, cacheVars,
                   cleanVars, crashes>>

\* createWorktree up to its mutex; without a mirror it throws.
CreateWorktree(a) ==
    /\ At(a, "checkout")
    /\ IF mirror THEN Goto(a, "counting") /\ EnterChain(a) /\ trees' = trees \cup {a}
       ELSE Goto(a, "done") /\ UNCHANGED <<chain, trees>>
    /\ UNCHANGED <<mode, outcome, tries, fetchLock, mirror, worktrees, recent, cacheVars,
                   cleanVars, crashes>>

\* The count is read and written under the mutex; reading no file counts from 0.
CountWorktree(a) ==
    /\ At(a, "counting") /\ MyTurn(a)
    /\ worktrees' = IF worktrees = NoMeta THEN 1 ELSE worktrees + 1
    /\ recent' = TRUE
    /\ LeaveChain
    /\ Goto(a, "acquire")
    /\ UNCHANGED <<mode, outcome, tries, fetchLock, mirror, trees, cacheVars, cleanVars, crashes>>

\* removeWorktree in the finally block; its errors are swallowed, so without a
\* mirror the count stays.  The attempt's directory goes in any case.
RemoveWorktree(a) ==
    /\ At(a, "untree")
    /\ trees' = trees \ {a}
    /\ IF a \in trees /\ mirror THEN Goto(a, "uncounting") /\ EnterChain(a)
       ELSE Goto(a, "done") /\ UNCHANGED chain
    /\ UNCHANGED <<mode, outcome, tries, fetchLock, mirror, worktrees, recent, cacheVars,
                   cleanVars, crashes>>

UncountWorktree(a) ==
    /\ At(a, "uncounting") /\ MyTurn(a)
    /\ worktrees' = IF worktrees \in {NoMeta, 0} THEN 0 ELSE worktrees - 1
    /\ recent' = TRUE
    /\ LeaveChain
    /\ Goto(a, "done")
    /\ UNCHANGED <<mode, outcome, tries, fetchLock, mirror, trees, cacheVars, cleanVars, crashes>>

\* The overlay does not apply, or the attempt is cancelled before run_job.
PrepareFails(a) ==
    /\ At(a, "acquire")
    /\ Goto(a, "untree")
    /\ UNCHANGED <<mode, outcome, mirrorVars, cacheVars, cleanVars, crashes>>

-----------------------------------------------------------------------------
(* The lock of a build-cache key (acquireExclusiveLock).                    *)

\* acquireForJob: the key's directory is created before the first try.
AcquireForJob(a) ==
    /\ At(a, "acquire")
    /\ IF a \in Readers
       THEN /\ Goto(a, "open")
            /\ entry' = IF entry = Absent THEN Slot ELSE entry
            /\ UNCHANGED mode
       ELSE /\ Goto(a, "run")
            /\ mode' = [mode EXCEPT ![a] = "off"]
            /\ UNCHANGED entry
    /\ UNCHANGED <<outcome, mirrorVars, lock, backup, seen, cleanVars, crashes>>

\* open(lockFile, 'wx'): the file is there, and empty, before the pid is.
OpenLock(a) ==
    /\ At(a, "open")
    /\ IF lock = NoLock
       THEN lock' = [by |-> a, text |-> "empty"] /\ Goto(a, "writing")
       ELSE UNCHANGED lock /\ Goto(a, "inspect")
    /\ UNCHANGED <<mode, outcome, mirrorVars, entry, backup, seen, cleanVars, crashes>>

\* The pid goes to the file this attempt opened, wherever its name now points.
WritePid(a) ==
    /\ At(a, "writing")
    /\ lock' = IF lock.by = a THEN [lock EXCEPT !.text = "live"] ELSE lock
    /\ Goto(a, "look")
    /\ UNCHANGED <<mode, outcome, mirrorVars, entry, backup, seen, cleanVars, crashes>>

\* reclaimStaleLockIfNeeded: a file without the pid of a live process is stale.
Stale(l) == l # NoLock /\ l.text # "live"

\* Mutant: the pid is not looked at, only the age.
InspectLockByAge(a) ==
    /\ At(a, "inspect")
    /\ Goto(a, "sleep")
    /\ UNCHANGED <<mode, outcome, mirrorVars, cacheVars, cleanVars, crashes>>

InspectLock(a) ==
    /\ At(a, "inspect")
    /\ Goto(a, IF Stale(lock) THEN "reclaim" ELSE "sleep")
    /\ UNCHANGED <<mode, outcome, mirrorVars, cacheVars, cleanVars, crashes>>

\* rm(lockFile): whatever the file has become since it was read.
ReclaimLock(a) ==
    /\ At(a, "reclaim")
    /\ lock' = NoLock
    /\ Goto(a, "open")
    /\ UNCHANGED <<mode, outcome, mirrorVars, entry, backup, seen, cleanVars, crashes>>

RetryLock(a) ==
    /\ At(a, "sleep")
    /\ Goto(a, "open")
    /\ UNCHANGED <<mode, outcome, mirrorVars, cacheVars, cleanVars, crashes>>

\* build_cache_lock_timeout: an acquire runs without the cache, a release gives
\* up and leaves active_users as it is.
LockTimeout(a) ==
    /\ At(a, "sleep")
    /\ IF mode[a] = "none"
       THEN Goto(a, "run") /\ mode' = [mode EXCEPT ![a] = "off"]
       ELSE Goto(a, "untree") /\ UNCHANGED mode
    /\ UNCHANGED <<outcome, mirrorVars, cacheVars, cleanVars, crashes>>

-----------------------------------------------------------------------------
(* Using the key (acquireForJob after its lock, release).                   *)

\* isPublished and readMeta.  A miss keeps the lock until its release.
Look(a) ==
    /\ At(a, "look")
    /\ seen' = [seen EXCEPT ![a] = entry.users]
    /\ \/ /\ mode[a] = "none" /\ Published(entry)
          /\ Goto(a, "count") /\ UNCHANGED mode
       \/ /\ mode[a] = "none" /\ ~Published(entry) /\ a \in Writers
          /\ Goto(a, "run_miss") /\ mode' = [mode EXCEPT ![a] = "miss"]
       \/ /\ mode[a] = "none" /\ ~Published(entry) /\ a \notin Writers
          /\ Goto(a, "unlock") /\ mode' = [mode EXCEPT ![a] = "off"]
       \/ /\ mode[a] = "hit"
          /\ Goto(a, IF Published(entry) THEN "uncount" ELSE "unlock") /\ UNCHANGED mode
    /\ UNCHANGED <<outcome, mirrorVars, lock, entry, backup, cleanVars, crashes>>

\* Mutant: an error between the lock and the result does not remove the lock.
CountUserLeaks(a) ==
    /\ At(a, "count")
    /\ IF entry = Absent
       THEN /\ Goto(a, "untree")
            /\ outcome' = [outcome EXCEPT ![a] = "failed"]
            /\ mode' = [mode EXCEPT ![a] = "off"]
            /\ UNCHANGED entry
       ELSE /\ Goto(a, "unlock")
            /\ mode' = [mode EXCEPT ![a] = "hit"]
            /\ entry' = IF Published(entry) THEN [entry EXCEPT !.users = seen[a] + 1] ELSE entry
            /\ UNCHANGED outcome
    /\ UNCHANGED <<mirrorVars, lock, backup, seen, cleanVars, crashes>>

\* writeMeta with one more user.  When the directory is gone the write throws:
\* the lock is released and the attempt fails.
CountUser(a) ==
    /\ At(a, "count")
    /\ IF entry = Absent
       THEN /\ Goto(a, "unlock")
            /\ outcome' = [outcome EXCEPT ![a] = "failed"]
            /\ mode' = [mode EXCEPT ![a] = "off"]
            /\ UNCHANGED entry
       ELSE /\ Goto(a, "unlock")
            /\ mode' = [mode EXCEPT ![a] = "hit"]
            /\ entry' = IF Published(entry) THEN [entry EXCEPT !.users = seen[a] + 1] ELSE entry
            /\ UNCHANGED outcome
    /\ UNCHANGED <<mirrorVars, lock, backup, seen, cleanVars, crashes>>

\* rm(lockFile), by name.  Before the script has run the attempt goes on to run;
\* a hit makes sure the directory is there.
Unlock(a) ==
    /\ At(a, "unlock")
    /\ lock' = NoLock
    /\ Goto(a, IF outcome[a] = "none" THEN "run" ELSE "untree")
    /\ entry' = IF outcome[a] = "none" /\ mode[a] = "hit" /\ entry = Absent THEN Slot ELSE entry
    /\ UNCHANGED <<mode, outcome, mirrorVars, backup, seen, cleanVars, crashes>>

\* The script ends.  A hit's release takes the lock again.
RunJob(a) ==
    /\ pc[a] \in {"run", "run_miss"}
    /\ \E o \in {"succeeded", "failed"} : outcome' = [outcome EXCEPT ![a] = o]
    /\ Goto(a, CASE mode[a] = "miss" -> "stage"
                 [] mode[a] = "hit" -> "open"
                 [] OTHER -> "untree")
    /\ entry' = IF mode[a] = "hit" /\ entry = Absent THEN Slot ELSE entry
    /\ UNCHANGED <<mode, mirrorVars, lock, backup, seen, cleanVars, crashes>>

\* Math.max(0, users - 1), from the count this attempt read.
UncountUser(a) ==
    /\ At(a, "uncount")
    /\ entry' = IF Published(entry)
                THEN [entry EXCEPT !.users = IF seen[a] = 0 THEN 0 ELSE seen[a] - 1]
                ELSE entry
    /\ Goto(a, "unlock")
    /\ UNCHANGED <<mode, outcome, mirrorVars, lock, backup, seen, cleanVars, crashes>>

-----------------------------------------------------------------------------
(* Publishing a miss (publishIfAllowed, then release of a miss).            *)

\* Mutant: the temporary directory is promoted whatever the script's outcome.
StageAlways(a) ==
    /\ At(a, "stage")
    /\ Goto(a, "swap")
    /\ UNCHANGED <<mode, outcome, mirrorVars, cacheVars, cleanVars, crashes>>

\* Only a successful attempt's directory gets its marker; any other is removed.
Stage(a) ==
    /\ At(a, "stage")
    /\ Goto(a, IF outcome[a] = "succeeded" THEN "swap" ELSE "discard")
    /\ UNCHANGED <<mode, outcome, mirrorVars, cacheVars, cleanVars, crashes>>

\* Move the current directory aside.
Swap(a) ==
    /\ At(a, "swap")
    /\ backup' = [backup EXCEPT ![a] = entry]
    /\ entry' = Absent
    /\ Goto(a, "promote")
    /\ UNCHANGED <<mode, outcome, mirrorVars, lock, seen, cleanVars, crashes>>

\* Rename the temporary directory into place, over an empty slot at most.
Promote(a) ==
    /\ At(a, "promote")
    /\ ~Published(entry)
    /\ entry' = [origin |-> a, users |-> 1]
    /\ backup' = [backup EXCEPT ![a] = Absent]
    /\ Goto(a, "discard")
    /\ UNCHANGED <<mode, outcome, mirrorVars, lock, seen, cleanVars, crashes>>

\* The rename fails (a published directory came back, or the retries ran out):
\* the backup returns when its name is free.
PromoteFails(a) ==
    /\ At(a, "promote")
    /\ entry' = IF Published(entry) \/ backup[a] = Absent THEN entry ELSE backup[a]
    /\ backup' = [backup EXCEPT ![a] = Absent]
    /\ Goto(a, "discard")
    /\ UNCHANGED <<mode, outcome, mirrorVars, lock, seen, cleanVars, crashes>>

\* release of a miss: drop the temporary directory and its own use.
Discard(a) ==
    /\ At(a, "discard")
    /\ seen' = [seen EXCEPT ![a] = entry.users]
    /\ Goto(a, IF Published(entry) THEN "uncount" ELSE "unlock")
    /\ UNCHANGED <<mode, outcome, mirrorVars, lock, entry, backup, cleanVars, crashes>>

-----------------------------------------------------------------------------
(* Disk pressure (applyDiskPressureCleanup, evictInactive).                 *)

CleanTo(c, place) == sweep' = [sweep EXCEPT ![c] = place]
UnchangedByCleaner == UNCHANGED <<pc, mode, outcome, crashes>>

\* A heartbeat under pressure starts a cleanup: first the mirrors without
\* worktrees that nobody used within the retention.
StartCleanup(c) ==
    /\ sweep[c] = "idle" /\ sweeps < MaxSweeps
    /\ sweeps' = sweeps + 1
    /\ pass' = [pass EXCEPT ![c] = 1]
    /\ CleanTo(c, IF worktrees = 0 /\ ~recent THEN "repo" ELSE "scan")
    /\ UNCHANGED <<mirrorVars, cacheVars>> /\ UnchangedByCleaner

\* rm of the repository's directory: the mirror, its metadata and fetch.lock.
EvictRepo(c) ==
    /\ sweep[c] = "repo"
    /\ mirror' = FALSE /\ fetchLock' = FALSE
    /\ worktrees' = NoMeta /\ recent' = FALSE
    /\ CleanTo(c, "scan")
    /\ UNCHANGED <<tries, chain, trees, cacheVars, pass, sweeps>> /\ UnchangedByCleaner

\* A key is looked at twice: to become a candidate it must be published.  A key
\* with a live lock is left alone.
EvictScan(c) ==
    /\ sweep[c] = "scan"
    /\ CleanTo(c, IF pass[c] = 1 /\ ~Published(entry) THEN "idle"
                  ELSE IF lock = NoLock THEN "meta"
                  ELSE IF Stale(lock) THEN "reclaim" ELSE "idle")
    /\ UNCHANGED <<mirrorVars, cacheVars, pass, sweeps>> /\ UnchangedByCleaner

EvictReclaim(c) ==
    /\ sweep[c] = "reclaim"
    /\ lock' = NoLock
    /\ CleanTo(c, "meta")
    /\ UNCHANGED <<mirrorVars, entry, backup, seen, pass, sweeps>> /\ UnchangedByCleaner

\* active_users is read without the lock.  Quota, free space or age may spare
\* a candidate.
EvictMeta(c) ==
    /\ sweep[c] = "meta"
    /\ \/ /\ entry.users = 0 /\ (pass[c] = 1 => Published(entry))
          /\ CleanTo(c, IF pass[c] = 1 THEN "scan" ELSE "delete")
          /\ pass' = [pass EXCEPT ![c] = 2]
       \/ /\ (entry.users > 0 \/ pass[c] = 1)
          /\ CleanTo(c, "idle")
          /\ UNCHANGED pass
    /\ UNCHANGED <<mirrorVars, cacheVars, sweeps>> /\ UnchangedByCleaner

EvictDelete(c) ==
    /\ sweep[c] = "delete"
    /\ entry' = Absent
    /\ CleanTo(c, "unlock")
    /\ UNCHANGED <<mirrorVars, lock, backup, seen, pass, sweeps>> /\ UnchangedByCleaner

\* The key's lock file goes with it, whoever holds it by now.
EvictUnlock(c) ==
    /\ sweep[c] = "unlock"
    /\ lock' = NoLock
    /\ CleanTo(c, "idle")
    /\ UNCHANGED <<mirrorVars, entry, backup, seen, pass, sweeps>> /\ UnchangedByCleaner

-----------------------------------------------------------------------------
(* The environment.                                                         *)

\* Two weeks without a use: no attempt lasts that long.
Age ==
    /\ recent /\ recent' = FALSE
    /\ \A a \in Attempts : pc[a] \in {"idle", "done", "lost"}
    /\ UNCHANGED <<pc, mode, outcome, tries, chain, fetchLock, mirror, trees, worktrees,
                   cacheVars, cleanVars, crashes>>

\* The Agent is killed and starts again: files stay, promises and attempts do not.
Crash ==
    /\ crashes < MaxCrashes
    /\ crashes' = crashes + 1
    /\ pc' = [a \in Attempts |-> IF pc[a] \in {"idle", "done"} THEN pc[a] ELSE "lost"]
    /\ chain' = <<>>
    /\ trees' = {}
    /\ lock' = IF lock.text = "live" THEN [lock EXCEPT !.text = "dead"] ELSE lock
    /\ sweep' = [c \in Cleaners |-> "idle"]
    /\ UNCHANGED <<mode, outcome, tries, fetchLock, mirror, worktrees, recent, entry, backup,
                   seen, pass, sweeps>>

MirrorStep(a) ==
    \/ LockFetch(a) \/ Fetched(a) \/ FetchFailed(a) \/ FetchRefused(a)
    \/ CreateWorktree(a) \/ CountWorktree(a) \/ RemoveWorktree(a) \/ UncountWorktree(a)

LockStep(a) ==
    \/ OpenLock(a) \/ WritePid(a) \/ InspectLock(a) \/ ReclaimLock(a)
    \/ RetryLock(a) \/ LockTimeout(a)

UseStep(a) ==
    \/ AcquireForJob(a) \/ Look(a) \/ CountUser(a) \/ Unlock(a) \/ RunJob(a) \/ UncountUser(a)
    \/ Stage(a) \/ Swap(a) \/ Promote(a) \/ PromoteFails(a) \/ Discard(a)

CleanStep(c) ==
    EvictRepo(c) \/ EvictScan(c) \/ EvictReclaim(c) \/ EvictMeta(c) \/ EvictDelete(c)
    \/ EvictUnlock(c)

Next ==
    \/ \E a \in Attempts : Prepare(a) \/ MirrorStep(a) \/ PrepareFails(a) \/ LockStep(a) \/ UseStep(a)
    \/ \E c \in Cleaners : StartCleanup(c) \/ CleanStep(c)
    \/ Age \/ Crash

Spec == Init /\ [][Next]_vars

\* The event loop runs every started attempt and cleanup; a script ends by
\* itself or is killed at its timeout.  Nothing makes a client submit a job, a
\* cleanup start, two weeks pass or the Agent crash.
Fairness ==
    /\ \A a \in Attempts : WF_vars(MirrorStep(a) \/ LockStep(a) \/ UseStep(a))
    /\ \A c \in Cleaners : WF_vars(CleanStep(c))

FairSpec == Spec /\ Fairness

-----------------------------------------------------------------------------
Entries == [origin : Attempts \cup {"absent", "slot"}, users : Nat]

TypeOK ==
    /\ pc \in [Attempts -> Places]
    /\ mode \in [Attempts -> {"none", "hit", "miss", "off"}]
    /\ outcome \in [Attempts -> {"none", "succeeded", "failed"}]
    /\ tries \in [Attempts -> 0..1] /\ chain \in Seq(Attempts)
    /\ fetchLock \in BOOLEAN /\ mirror \in BOOLEAN /\ recent \in BOOLEAN
    /\ trees \subseteq Attempts /\ worktrees \in 0 .. NoMeta
    /\ lock \in [by : Attempts, text : {"empty", "live", "dead"}] \cup {NoLock}
    /\ entry \in Entries /\ backup \in [Attempts -> Entries] /\ seen \in [Attempts -> Nat]
    /\ sweep \in [Cleaners -> {"idle", "repo", "scan", "reclaim", "meta", "delete", "unlock"}]
    /\ pass \in [Cleaners -> 1..2]
    /\ crashes \in 0..MaxCrashes /\ sweeps \in 0..MaxSweeps

\* A lock file that names a live process has an owner that will remove it:
\* every way out of acquireForJob, publishIfAllowed and release goes through
\* its unlock.  Otherwise the key is refused to every later attempt.
LiveLockHasHolder ==
    lock.text = "live" => lock.by \in Attempts /\ pc[lock.by] \in Holding

\* The published entry comes from an attempt that succeeded and may write,
\* whatever was swapped, rolled back or evicted in between.
EntryIsTrusted ==
    Published(entry) => entry.origin \in Writers /\ outcome[entry.origin] = "succeeded"

\* A lock file that a killed Agent left behind does not keep the next attempt
\* out, not even until its timeout: a waiter that finds it removes it, in
\* whatever order the other waiters and the cleanup do the same.
StaleLockIsReclaimed ==
    \A a \in Attempts :
        (Stale(lock) /\ pc[a] \in {"open", "inspect"}) ~> (~Stale(lock) \/ pc[a] = "lost")

\* Every attempt that starts gets through the mutex, the locks and its finally
\* block, whatever the others hold and whatever a crash left on the disk.
AttemptsFinish ==
    \A a \in Attempts : (pc[a] # "idle") ~> (pc[a] \in {"done", "lost"})

\* disk-pressure.ts says cleanup "Never removes active attempt
\* spool/workspace/mirror, nor locked/in-use build-cache keys".
CleanupSparesActive ==
    [][/\ mirror /\ ~mirror' => trees = {}
       /\ (Published(entry) /\ entry' = Absent /\ pc' = pc) =>
              entry.users = 0 /\ lock.text # "live"]_vars
=============================================================================
