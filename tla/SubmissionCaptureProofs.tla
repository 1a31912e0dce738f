----------------------- MODULE SubmissionCaptureProofs -----------------------
(***************************************************************************)
(* Submission capture keeps its promises for any set of keys and requests, *)
(* any number of files, any lease time and any number of crashes.          *)
(***************************************************************************)
EXTENDS SubmissionCapture, TLAPS

(* A request that has not started has published nothing, has no files, and
   the sweep is not in its directory. *)
FreshRequests ==
    \A r \in Requests : pc[r] = "idle" =>
        /\ done[r] = 0
        /\ candidates[r] = {} /\ finals[r] = {}
        /\ r \notin dirs /\ r # dir

(* Generations handed out never exceed the one in the lease row. *)
GenerationsBounded == \A r \in Requests : held[r] <= generation[KeyOf[r]]

(* What an authoritative request has published so far is on disk. *)
PublishedPrefix ==
    \A r \in Requests : HasAuthority(r) =>
        /\ 1..done[r] \subseteq finals[r]
        /\ pc[r] = "unlinking" => done[r] + 1 \in finals[r]

(* The sweep is never about to remove a final file of a committed or of an
   authoritative request. *)
TargetUnprotected ==
    (\E i \in Indices : <<"final", i>> \in target) => dir \notin jobs /\ ~HasAuthority(dir)

CommittedIsDone == \A r \in jobs : pc[r] = "done"

(* Every terminal answer is what the submission row says. *)
AnswersTrue ==
    \A r \in Requests :
        /\ answer[r].kind = "captured"
              => state[KeyOf[r]] = "captured" /\ answer[r] = Captured(jobOf[KeyOf[r]])
        /\ answer[r].kind = "failed"
              => state[KeyOf[r]] = "failed" /\ answer[r] = Answer("failed")

(* The inductive invariant. *)
CaptureInv ==
    /\ TypeOK
    /\ FreshRequests
    /\ GenerationsBounded
    /\ GenerationsDistinct
    /\ PublishedPrefix
    /\ TargetUnprotected
    /\ CommittedIsDone
    /\ CommittedFilesPresent
    /\ JobMatchesSubmission
    /\ AnswersTrue

-----------------------------------------------------------------------------
(* Every action keeps every variable in its type. *)
LEMMA TypeStep == TypeOK /\ JobMatchesSubmission /\ [Next]_vars => TypeOK'
<1> SUFFICES ASSUME TypeOK, JobMatchesSubmission, [Next]_vars PROVE TypeOK'
    OBVIOUS
<1> USE CaptureConstants
<1>1. ASSUME NEW r \in Requests, Submit(r) PROVE TypeOK'
  <2>1. state' \in [Keys -> {"none", "capturing", "captured", "failed"}]
    BY <1>1 DEF TypeOK, Submit, Reserve
  <2>2. CASE Acquire(r)
    BY <1>1, <2>1, <2>2 DEF TypeOK, Submit, Reserve, Acquire, PCs, disk, sweep, env
  <2>3. CASE Refuse(r)
    <3>1. answer' \in [Requests -> Answers]
      BY <1>1, <2>3 DEF TypeOK, JobMatchesSubmission, Refuse, Answer, Captured, Answers
    <3> QED
      BY <1>1, <2>1, <2>3, <3>1 DEF TypeOK, Submit, Reserve, Refuse, PCs, leases, disk,
         sweep, env
  <2> QED
    BY <1>1, <2>2, <2>3 DEF Submit
<1>2. ASSUME NEW r \in Requests, Renew(r) PROVE TypeOK'
    BY <1>2 DEF TypeOK, Renew, submissions, leases, calls, disk, sweep,
       env
<1>3. ASSUME NEW r \in Requests, Capture(r) PROVE TypeOK'
    BY <1>3 DEF TypeOK, Capture, PCs, Indices, submissions, leases, calls,
       disk, sweep, env
<1>4. ASSUME NEW r \in Requests, CheckAuthority(r) PROVE TypeOK'
    BY <1>4 DEF TypeOK, CheckAuthority, Throw, PCs, submissions, leases,
       calls, disk, sweep, env
<1>5. ASSUME NEW r \in Requests, Link(r) PROVE TypeOK'
    BY <1>5 DEF TypeOK, Link, PCs, Indices, submissions, leases, calls,
       disk, sweep, env
<1>6. ASSUME NEW r \in Requests, Unlink(r) PROVE TypeOK'
    BY <1>6 DEF TypeOK, Unlink, PCs, Indices, submissions, leases, calls,
       disk, sweep, env
<1>7. ASSUME NEW r \in Requests, UnlinkFails(r) PROVE TypeOK'
    BY <1>7 DEF TypeOK, UnlinkFails, Throw, PCs, submissions, leases,
       calls, disk, sweep, env
<1>8. ASSUME NEW r \in Requests, Commit(r) PROVE TypeOK'
    BY <1>8 DEF TypeOK, Commit, CommitTransaction, Release, Epoch,
       Captured, Answers, PCs, submissions, leases, calls, disk, sweep,
       env
<1>9. ASSUME NEW r \in Requests, CommitRefused(r) PROVE TypeOK'
    BY <1>9 DEF TypeOK, CommitRefused, Throw, PCs, submissions, leases,
       calls, disk, sweep, env
<1>10. ASSUME NEW r \in Requests, StepFails(r) PROVE TypeOK'
    BY <1>10 DEF TypeOK, StepFails, Throw, PCs, submissions, leases,
       calls, disk, sweep, env
<1>11. ASSUME NEW r \in Requests, Abort(r) PROVE TypeOK'
  <2>1. CASE retryable[r]
    BY <1>11, <2>1 DEF TypeOK, Abort, FailSubmission, Release, Epoch,
       Answer, Answers, PCs, Indices, leases, disk, sweep, env
  <2>2. CASE ~retryable[r] /\ HasAuthority(r)
    <3>1. expires' \in [Keys -> Nat]
      BY <1>11, <2>2 DEF TypeOK, Abort, FailSubmission, Release, Epoch
    <3>2. answer' \in [Requests -> Answers]
      BY <1>11, <2>2 DEF TypeOK, Abort, FailSubmission, Answer, Answers
    <3> QED
      BY <1>11, <2>2, <3>1, <3>2
      DEF TypeOK, Abort, FailSubmission, Release, PCs, disk, sweep, env
  <2>3. CASE ~retryable[r] /\ ~HasAuthority(r)
    BY <1>11, <2>3 DEF TypeOK, Abort, FailSubmission, Release, Epoch,
       Answer, Answers, PCs, Indices, leases, disk, sweep, env
  <2> QED
    BY <2>1, <2>2, <2>3
<1>12. ASSUME NEW r \in Requests, AbortFails(r) PROVE TypeOK'
    BY <1>12 DEF TypeOK, AbortFails, PCs, submissions, leases, calls,
       disk, sweep, env
<1>13. ASSUME NEW r \in Requests, CrashAfterCommit(r) PROVE TypeOK'
    BY <1>13 DEF TypeOK, CrashAfterCommit, CommitTransaction, Die,
       ClearSweep, PCs, submissions, leases, calls, disk, sweep, env
<1>14. ASSUME SweepBegin PROVE TypeOK'
    BY <1>14 DEF TypeOK, SweepBegin, Defer, SoonestExpiry, ClearSweep, submissions,
       leases, calls, disk, sweep, env
<1>15. ASSUME NEW r \in dirs, SweepDirectory(r) PROVE TypeOK'
    BY <1>15 DEF TypeOK, SweepDirectory, Entries, Indices, submissions,
       leases, calls, disk, sweep, env
<1>16. ASSUME NEW e \in entries, SweepEntry(e) PROVE TypeOK'
    BY <1>16 DEF TypeOK, SweepEntry, Defer, SoonestExpiry, ClearSweep, submissions,
       leases, calls, disk, sweep, env
<1>17. ASSUME SweepRemove PROVE TypeOK'
    BY <1>17 DEF TypeOK, SweepRemove, Indices, submissions, leases, calls,
       disk, sweep, env
<1>18. ASSUME SweepEnd PROVE TypeOK'
    BY <1>18 DEF TypeOK, SweepEnd, ClearSweep, submissions, leases, calls,
       disk, sweep, env
<1>19. ASSUME SweepFails PROVE TypeOK'
    BY <1>19 DEF TypeOK, SweepFails, ClearSweep, submissions, leases,
       calls, disk, sweep, env
<1>20. ASSUME Tick PROVE TypeOK'
    BY <1>20 DEF TypeOK, Tick, submissions, leases, calls, disk, sweep,
       env
<1>21. ASSUME Crash PROVE TypeOK'
    BY <1>21 DEF TypeOK, Crash, Die, ClearSweep, PCs, submissions, leases,
       calls, disk, sweep, env
<1>22. CASE UNCHANGED vars
    BY <1>22 DEF TypeOK, vars, submissions, leases, calls, disk, sweep,
       env
<1> QED
    BY <1>1, <1>2, <1>3, <1>4, <1>5, <1>6, <1>7, <1>8, <1>9, <1>10, <1>11,
       <1>12, <1>13, <1>14, <1>15, <1>16, <1>17, <1>18, <1>19, <1>20,
       <1>21, <1>22
    DEF Next, RequestStep, SweepStep

(* Requests, generations, jobs and answers keep agreeing. *)
LEMMA BookkeepingStep ==
    CaptureInv /\ [Next]_vars =>
        /\ FreshRequests'
        /\ GenerationsBounded'
        /\ CommittedIsDone'
        /\ JobMatchesSubmission'
        /\ AnswersTrue'
<1> DEFINE Bookkeeping ==
        /\ FreshRequests
        /\ GenerationsBounded
        /\ CommittedIsDone
        /\ JobMatchesSubmission
        /\ AnswersTrue
<1> SUFFICES ASSUME CaptureInv, [Next]_vars PROVE Bookkeeping'
    OBVIOUS
<1> USE CaptureConstants
<1>0. TypeOK /\ TypeOK'
    BY TypeStep DEF CaptureInv
<1>1. ASSUME NEW r \in Requests, Submit(r) PROVE Bookkeeping'
  <2>1. FreshRequests'
    BY <1>0, <1>1 DEF CaptureInv, FreshRequests, JobMatchesSubmission,
       HasAuthority, IsHolder, TypeOK, Submit, Reserve, Acquire, Refuse,
       Answer, Captured, Answers, PCs, leases, disk, sweep, env
  <2>2. GenerationsBounded'
    BY <1>0, <1>1 DEF CaptureInv, GenerationsBounded,
       JobMatchesSubmission, HasAuthority, IsHolder, TypeOK, Submit,
       Reserve, Acquire, Refuse, Answer, Captured, Answers, PCs, leases,
       disk, sweep, env
  <2>3. CommittedIsDone'
    BY <1>0, <1>1 DEF CaptureInv, CommittedIsDone, JobMatchesSubmission,
       HasAuthority, IsHolder, TypeOK, Submit, Reserve, Acquire, Refuse,
       Answer, Captured, Answers, PCs, leases, disk, sweep, env
  <2>4. JobMatchesSubmission'
    BY <1>0, <1>1 DEF CaptureInv, JobMatchesSubmission, HasAuthority,
       IsHolder, TypeOK, Submit, Reserve, Acquire, Refuse, Answer,
       Captured, Answers, PCs, leases, disk, sweep, env
  <2>5. AnswersTrue'
    BY <1>0, <1>1 DEF CaptureInv, AnswersTrue, JobMatchesSubmission,
       HasAuthority, IsHolder, TypeOK, Submit, Reserve, Acquire, Refuse,
       Answer, Captured, Answers, PCs, leases, disk, sweep, env
  <2> QED
    BY <2>1, <2>2, <2>3, <2>4, <2>5
<1>2. ASSUME NEW r \in Requests, Renew(r) PROVE Bookkeeping'
    BY <1>0, <1>2 DEF CaptureInv, FreshRequests, GenerationsBounded,
       CommittedIsDone, JobMatchesSubmission, AnswersTrue, HasAuthority,
       IsHolder, TypeOK, Renew, submissions, leases, calls, disk, sweep,
       env
<1>3. ASSUME NEW r \in Requests, Capture(r) PROVE Bookkeeping'
    BY <1>0, <1>3 DEF CaptureInv, FreshRequests, GenerationsBounded,
       CommittedIsDone, JobMatchesSubmission, AnswersTrue, HasAuthority,
       IsHolder, TypeOK, Capture, PCs, Indices, submissions, leases,
       calls, disk, sweep, env
<1>4. ASSUME NEW r \in Requests, CheckAuthority(r) PROVE Bookkeeping'
    BY <1>0, <1>4 DEF CaptureInv, FreshRequests, GenerationsBounded,
       CommittedIsDone, JobMatchesSubmission, AnswersTrue, HasAuthority,
       IsHolder, TypeOK, CheckAuthority, Throw, PCs, submissions, leases,
       calls, disk, sweep, env
<1>5. ASSUME NEW r \in Requests, Link(r) PROVE Bookkeeping'
    BY <1>0, <1>5 DEF CaptureInv, FreshRequests, GenerationsBounded,
       CommittedIsDone, JobMatchesSubmission, AnswersTrue, HasAuthority,
       IsHolder, TypeOK, Link, PCs, Indices, submissions, leases, calls,
       disk, sweep, env
<1>6. ASSUME NEW r \in Requests, Unlink(r) PROVE Bookkeeping'
    BY <1>0, <1>6 DEF CaptureInv, FreshRequests, GenerationsBounded,
       CommittedIsDone, JobMatchesSubmission, AnswersTrue, HasAuthority,
       IsHolder, TypeOK, Unlink, PCs, Indices, submissions, leases, calls,
       disk, sweep, env
<1>7. ASSUME NEW r \in Requests, UnlinkFails(r) PROVE Bookkeeping'
    BY <1>0, <1>7 DEF CaptureInv, FreshRequests, GenerationsBounded,
       CommittedIsDone, JobMatchesSubmission, AnswersTrue, HasAuthority,
       IsHolder, TypeOK, UnlinkFails, Throw, PCs, submissions, leases,
       calls, disk, sweep, env
<1>8. ASSUME NEW r \in Requests, Commit(r) PROVE Bookkeeping'
    BY <1>0, <1>8 DEF CaptureInv, FreshRequests, GenerationsBounded,
       CommittedIsDone, JobMatchesSubmission, AnswersTrue, HasAuthority,
       IsHolder, TypeOK, Commit, CommitTransaction, Release, Epoch,
       Captured, Answers, PCs, submissions, leases, calls, disk, sweep,
       env
<1>9. ASSUME NEW r \in Requests, CommitRefused(r) PROVE Bookkeeping'
    BY <1>0, <1>9 DEF CaptureInv, FreshRequests, GenerationsBounded,
       CommittedIsDone, JobMatchesSubmission, AnswersTrue, HasAuthority,
       IsHolder, TypeOK, CommitRefused, Throw, PCs, submissions, leases,
       calls, disk, sweep, env
<1>10. ASSUME NEW r \in Requests, StepFails(r) PROVE Bookkeeping'
    BY <1>0, <1>10 DEF CaptureInv, FreshRequests, GenerationsBounded,
       CommittedIsDone, JobMatchesSubmission, AnswersTrue, HasAuthority,
       IsHolder, TypeOK, StepFails, Throw, PCs, submissions, leases,
       calls, disk, sweep, env
<1>11. ASSUME NEW r \in Requests, Abort(r) PROVE Bookkeeping'
  <2>1. CASE retryable[r]
    <3>1. FreshRequests'
      BY <1>0, <1>11, <2>1 DEF CaptureInv, FreshRequests, HasAuthority,
         IsHolder, TypeOK, Abort, FailSubmission, Release, Epoch, Answer,
         Answers, PCs, Indices, leases, disk, sweep, env
    <3>2. GenerationsBounded'
      BY <1>0, <1>11, <2>1 DEF CaptureInv, GenerationsBounded,
         HasAuthority, IsHolder, TypeOK, Abort, FailSubmission, Release,
         Epoch, Answer, Answers, PCs, Indices, leases, disk, sweep, env
    <3>3. CommittedIsDone'
      BY <1>0, <1>11, <2>1 DEF CaptureInv, CommittedIsDone, HasAuthority,
         IsHolder, TypeOK, Abort, FailSubmission, Release, Epoch, Answer,
         Answers, PCs, Indices, leases, disk, sweep, env
    <3>4. JobMatchesSubmission'
      BY <1>0, <1>11, <2>1 DEF CaptureInv, JobMatchesSubmission,
         HasAuthority, IsHolder, TypeOK, Abort, FailSubmission, Release,
         Epoch, Answer, Answers, PCs, Indices, leases, disk, sweep, env
    <3>5. AnswersTrue'
      <4>1. /\ answer' = [answer EXCEPT ![r] = Answer("retry")]
            /\ UNCHANGED <<state, jobOf>>
        BY <1>11, <2>1 DEF Abort
      <4> QED
        BY <4>1 DEF CaptureInv, AnswersTrue, TypeOK, Answer
    <3> QED
      BY <3>1, <3>2, <3>3, <3>4, <3>5
  <2>2. CASE ~retryable[r] /\ HasAuthority(r)
    <3>1. FreshRequests'
      BY <1>0, <1>11, <2>2 DEF CaptureInv, FreshRequests, HasAuthority,
         IsHolder, TypeOK, Abort, FailSubmission, Release, Epoch, Answer,
         Answers, PCs, Indices, leases, disk, sweep, env
    <3>2. GenerationsBounded'
      BY <1>0, <1>11, <2>2 DEF CaptureInv, GenerationsBounded,
         HasAuthority, IsHolder, TypeOK, Abort, FailSubmission, Release,
         Epoch, Answer, Answers, PCs, Indices, leases, disk, sweep, env
    <3>3. CommittedIsDone'
      BY <1>0, <1>11, <2>2 DEF CaptureInv, CommittedIsDone, HasAuthority,
         IsHolder, TypeOK, Abort, FailSubmission, Release, Epoch, Answer,
         Answers, PCs, Indices, leases, disk, sweep, env
    <3>4. JobMatchesSubmission'
      BY <1>0, <1>11, <2>2 DEF CaptureInv, JobMatchesSubmission,
         HasAuthority, IsHolder, TypeOK, Abort, FailSubmission, Release,
         Epoch, Answer, Answers, PCs, Indices, leases, disk, sweep, env
    <3>5. AnswersTrue'
      BY <1>0, <1>11, <2>2 DEF CaptureInv, AnswersTrue, HasAuthority,
         IsHolder, TypeOK, Abort, FailSubmission, Release, Epoch, Answer,
         Answers, PCs, Indices, leases, disk, sweep, env
    <3> QED
      BY <3>1, <3>2, <3>3, <3>4, <3>5
  <2>3. CASE ~retryable[r] /\ ~HasAuthority(r)
    <3>1. FreshRequests'
      BY <1>0, <1>11, <2>3 DEF CaptureInv, FreshRequests, HasAuthority,
         IsHolder, TypeOK, Abort, FailSubmission, Release, Epoch, Answer,
         Answers, PCs, Indices, leases, disk, sweep, env
    <3>2. GenerationsBounded'
      BY <1>0, <1>11, <2>3 DEF CaptureInv, GenerationsBounded,
         HasAuthority, IsHolder, TypeOK, Abort, FailSubmission, Release,
         Epoch, Answer, Answers, PCs, Indices, leases, disk, sweep, env
    <3>3. CommittedIsDone'
      BY <1>0, <1>11, <2>3 DEF CaptureInv, CommittedIsDone, HasAuthority,
         IsHolder, TypeOK, Abort, FailSubmission, Release, Epoch, Answer,
         Answers, PCs, Indices, leases, disk, sweep, env
    <3>4. JobMatchesSubmission'
      BY <1>0, <1>11, <2>3 DEF CaptureInv, JobMatchesSubmission,
         HasAuthority, IsHolder, TypeOK, Abort, FailSubmission, Release,
         Epoch, Answer, Answers, PCs, Indices, leases, disk, sweep, env
    <3>5. AnswersTrue'
      BY <1>0, <1>11, <2>3 DEF CaptureInv, AnswersTrue, HasAuthority,
         IsHolder, TypeOK, Abort, FailSubmission, Release, Epoch, Answer,
         Answers, PCs, Indices, leases, disk, sweep, env
    <3> QED
      BY <3>1, <3>2, <3>3, <3>4, <3>5
  <2> QED
    BY <2>1, <2>2, <2>3
<1>12. ASSUME NEW r \in Requests, AbortFails(r) PROVE Bookkeeping'
    BY <1>0, <1>12 DEF CaptureInv, FreshRequests, GenerationsBounded,
       CommittedIsDone, JobMatchesSubmission, AnswersTrue, HasAuthority,
       IsHolder, TypeOK, AbortFails, PCs, submissions, leases, calls,
       disk, sweep, env
<1>13. ASSUME NEW r \in Requests, CrashAfterCommit(r) PROVE Bookkeeping'
    BY <1>0, <1>13 DEF CaptureInv, FreshRequests, GenerationsBounded,
       CommittedIsDone, JobMatchesSubmission, AnswersTrue, HasAuthority,
       IsHolder, TypeOK, CrashAfterCommit, CommitTransaction, Die,
       ClearSweep, PCs, submissions, leases, calls, disk, sweep, env
<1>14. ASSUME SweepBegin PROVE Bookkeeping'
    BY <1>0, <1>14 DEF CaptureInv, FreshRequests, GenerationsBounded,
       CommittedIsDone, JobMatchesSubmission, AnswersTrue, HasAuthority,
       IsHolder, TypeOK, SweepBegin, Defer, SoonestExpiry, ClearSweep, submissions,
       leases, calls, disk, sweep, env
<1>15. ASSUME NEW r \in dirs, SweepDirectory(r) PROVE Bookkeeping'
    BY <1>0, <1>15 DEF CaptureInv, FreshRequests, GenerationsBounded,
       CommittedIsDone, JobMatchesSubmission, AnswersTrue, HasAuthority,
       IsHolder, TypeOK, SweepDirectory, Entries, Indices, submissions,
       leases, calls, disk, sweep, env
<1>16. ASSUME NEW e \in entries, SweepEntry(e) PROVE Bookkeeping'
    BY <1>0, <1>16 DEF CaptureInv, FreshRequests, GenerationsBounded,
       CommittedIsDone, JobMatchesSubmission, AnswersTrue, HasAuthority,
       IsHolder, TypeOK, SweepEntry, Defer, SoonestExpiry, ClearSweep, submissions,
       leases, calls, disk, sweep, env
<1>17. ASSUME SweepRemove PROVE Bookkeeping'
    BY <1>0, <1>17 DEF CaptureInv, FreshRequests, GenerationsBounded,
       CommittedIsDone, JobMatchesSubmission, AnswersTrue, HasAuthority,
       IsHolder, TypeOK, SweepRemove, Indices, submissions, leases, calls,
       disk, sweep, env
<1>18. ASSUME SweepEnd PROVE Bookkeeping'
    BY <1>0, <1>18 DEF CaptureInv, FreshRequests, GenerationsBounded,
       CommittedIsDone, JobMatchesSubmission, AnswersTrue, HasAuthority,
       IsHolder, TypeOK, SweepEnd, ClearSweep, submissions, leases, calls,
       disk, sweep, env
<1>19. ASSUME SweepFails PROVE Bookkeeping'
    BY <1>0, <1>19 DEF CaptureInv, FreshRequests, GenerationsBounded,
       CommittedIsDone, JobMatchesSubmission, AnswersTrue, HasAuthority,
       IsHolder, TypeOK, SweepFails, ClearSweep, submissions, leases,
       calls, disk, sweep, env
<1>20. ASSUME Tick PROVE Bookkeeping'
    BY <1>0, <1>20 DEF CaptureInv, FreshRequests, GenerationsBounded,
       CommittedIsDone, JobMatchesSubmission, AnswersTrue, HasAuthority,
       IsHolder, TypeOK, Tick, submissions, leases, calls, disk, sweep,
       env
<1>21. ASSUME Crash PROVE Bookkeeping'
    BY <1>0, <1>21 DEF CaptureInv, FreshRequests, GenerationsBounded,
       CommittedIsDone, JobMatchesSubmission, AnswersTrue, HasAuthority,
       IsHolder, TypeOK, Crash, Die, ClearSweep, PCs, submissions, leases,
       calls, disk, sweep, env
<1>22. CASE UNCHANGED vars
    BY <1>0, <1>22 DEF CaptureInv, FreshRequests, GenerationsBounded,
       CommittedIsDone, JobMatchesSubmission, AnswersTrue, HasAuthority,
       IsHolder, TypeOK, vars, submissions, leases, calls, disk, sweep,
       env
<1> QED
    BY <1>1, <1>2, <1>3, <1>4, <1>5, <1>6, <1>7, <1>8, <1>9, <1>10, <1>11,
       <1>12, <1>13, <1>14, <1>15, <1>16, <1>17, <1>18, <1>19, <1>20,
       <1>21, <1>22
    DEF Next, RequestStep, SweepStep

(* A request gets authority only when it starts; once lost, it is lost. *)
LEMMA AuthorityNotRegained ==
    ASSUME TypeOK, [Next]_vars, NEW r \in Requests, pc[r] # "idle", HasAuthority(r)'
    PROVE  HasAuthority(r)
<1> USE CaptureConstants
<1>1. ASSUME NEW q \in Requests, Submit(q) PROVE HasAuthority(r)
    BY <1>1 DEF HasAuthority, IsHolder, TypeOK, Submit,
       JobMatchesSubmission, Reserve, Acquire, Refuse, Answer, Captured,
       Answers, PCs, disk, sweep, env, leases
<1>2. ASSUME NEW q \in Requests, Renew(q) PROVE HasAuthority(r)
    BY <1>2 DEF HasAuthority, IsHolder, TypeOK, Renew, submissions,
       leases, calls, disk, sweep, env
<1>3. ASSUME NEW q \in Requests, Capture(q) PROVE HasAuthority(r)
    BY <1>3 DEF HasAuthority, IsHolder, TypeOK, Capture, PCs, Indices,
       submissions, leases, calls, disk, sweep, env
<1>4. ASSUME NEW q \in Requests, CheckAuthority(q) PROVE HasAuthority(r)
    BY <1>4 DEF HasAuthority, IsHolder, TypeOK, CheckAuthority, Throw,
       PCs, submissions, leases, calls, disk, sweep, env
<1>5. ASSUME NEW q \in Requests, Link(q) PROVE HasAuthority(r)
    BY <1>5 DEF HasAuthority, IsHolder, TypeOK, Link, PCs, Indices,
       submissions, leases, calls, disk, sweep, env
<1>6. ASSUME NEW q \in Requests, Unlink(q) PROVE HasAuthority(r)
    BY <1>6 DEF HasAuthority, IsHolder, TypeOK, Unlink, PCs, Indices,
       submissions, leases, calls, disk, sweep, env
<1>7. ASSUME NEW q \in Requests, UnlinkFails(q) PROVE HasAuthority(r)
    BY <1>7 DEF HasAuthority, IsHolder, TypeOK, UnlinkFails, Throw, PCs,
       submissions, leases, calls, disk, sweep, env
<1>8. ASSUME NEW q \in Requests, Commit(q) PROVE HasAuthority(r)
    BY <1>8 DEF HasAuthority, IsHolder, TypeOK, Commit, CommitTransaction,
       Release, Epoch, Captured, Answers, PCs, submissions, leases, calls,
       disk, sweep, env
<1>9. ASSUME NEW q \in Requests, CommitRefused(q) PROVE HasAuthority(r)
    BY <1>9 DEF HasAuthority, IsHolder, TypeOK, CommitRefused, Throw, PCs,
       submissions, leases, calls, disk, sweep, env
<1>10. ASSUME NEW q \in Requests, StepFails(q) PROVE HasAuthority(r)
    BY <1>10 DEF HasAuthority, IsHolder, TypeOK, StepFails, Throw, PCs,
       submissions, leases, calls, disk, sweep, env
<1>11. ASSUME NEW q \in Requests, Abort(q) PROVE HasAuthority(r)
  <2>1. CASE retryable[q]
    BY <1>11, <2>1 DEF HasAuthority, IsHolder, TypeOK, Abort,
       FailSubmission, Release, Epoch, Answer, Answers, PCs, Indices,
       leases, disk, sweep, env
  <2>2. CASE ~retryable[q] /\ HasAuthority(q)
    BY <1>11, <2>2 DEF HasAuthority, IsHolder, TypeOK, Abort,
       FailSubmission, Release, Epoch, Answer, Answers, PCs, Indices,
       leases, disk, sweep, env
  <2>3. CASE ~retryable[q] /\ ~HasAuthority(q)
    BY <1>11, <2>3 DEF HasAuthority, IsHolder, TypeOK, Abort,
       FailSubmission, Release, Epoch, Answer, Answers, PCs, Indices,
       leases, disk, sweep, env
  <2> QED
    BY <2>1, <2>2, <2>3
<1>12. ASSUME NEW q \in Requests, AbortFails(q) PROVE HasAuthority(r)
    BY <1>12 DEF HasAuthority, IsHolder, TypeOK, AbortFails, PCs,
       submissions, leases, calls, disk, sweep, env
<1>13. ASSUME NEW q \in Requests, CrashAfterCommit(q) PROVE HasAuthority(r)
    BY <1>13 DEF HasAuthority, IsHolder, TypeOK, CrashAfterCommit,
       CommitTransaction, Die, ClearSweep, PCs, submissions, leases,
       calls, disk, sweep, env
<1>14. ASSUME SweepBegin PROVE HasAuthority(r)
    BY <1>14 DEF HasAuthority, IsHolder, TypeOK, SweepBegin, Defer, SoonestExpiry,
       ClearSweep, submissions, leases, calls, disk, sweep, env
<1>15. ASSUME NEW q \in dirs, SweepDirectory(q) PROVE HasAuthority(r)
    BY <1>15 DEF HasAuthority, IsHolder, TypeOK, SweepDirectory, Entries,
       Indices, submissions, leases, calls, disk, sweep, env
<1>16. ASSUME NEW e \in entries, SweepEntry(e) PROVE HasAuthority(r)
    BY <1>16 DEF HasAuthority, IsHolder, TypeOK, SweepEntry, Defer, SoonestExpiry,
       ClearSweep, submissions, leases, calls, disk, sweep, env
<1>17. ASSUME SweepRemove PROVE HasAuthority(r)
    BY <1>17 DEF HasAuthority, IsHolder, TypeOK, SweepRemove, Indices,
       submissions, leases, calls, disk, sweep, env
<1>18. ASSUME SweepEnd PROVE HasAuthority(r)
    BY <1>18 DEF HasAuthority, IsHolder, TypeOK, SweepEnd, ClearSweep,
       submissions, leases, calls, disk, sweep, env
<1>19. ASSUME SweepFails PROVE HasAuthority(r)
    BY <1>19 DEF HasAuthority, IsHolder, TypeOK, SweepFails, ClearSweep,
       submissions, leases, calls, disk, sweep, env
<1>20. ASSUME Tick PROVE HasAuthority(r)
    BY <1>20 DEF HasAuthority, IsHolder, TypeOK, Tick, submissions,
       leases, calls, disk, sweep, env
<1>21. ASSUME Crash PROVE HasAuthority(r)
    BY <1>21 DEF HasAuthority, IsHolder, TypeOK, Crash, Die, ClearSweep,
       PCs, submissions, leases, calls, disk, sweep, env
<1>22. CASE UNCHANGED vars
    BY <1>22 DEF HasAuthority, IsHolder, TypeOK, vars, submissions,
       leases, calls, disk, sweep, env
<1> QED
    BY <1>1, <1>2, <1>3, <1>4, <1>5, <1>6, <1>7, <1>8, <1>9, <1>10, <1>11,
       <1>12, <1>13, <1>14, <1>15, <1>16, <1>17, <1>18, <1>19, <1>20,
       <1>21, <1>22
    DEF Next, RequestStep, SweepStep

(* Only a new lease hands out a generation, one above all earlier ones. *)
LEMMA GenerationsStep == CaptureInv /\ [Next]_vars => GenerationsDistinct'
<1> SUFFICES ASSUME CaptureInv, [Next]_vars PROVE GenerationsDistinct'
    OBVIOUS
<1> USE CaptureConstants
<1>1. ASSUME NEW r \in Requests, Submit(r), Acquire(r) PROVE GenerationsDistinct'
  <2>1. \A q \in Requests : KeyOf[q] = KeyOf[r] => held[q] < generation[KeyOf[r]] + 1
    BY DEF CaptureInv, TypeOK, GenerationsBounded
  <2>2. /\ held'[r] = generation[KeyOf[r]] + 1
        /\ \A q \in Requests : q # r => held'[q] = held[q]
    BY <1>1 DEF CaptureInv, TypeOK, Acquire
  <2> QED
    BY <2>1, <2>2 DEF CaptureInv, TypeOK, GenerationsDistinct
<1>2. ASSUME UNCHANGED held PROVE GenerationsDistinct'
    BY <1>2 DEF CaptureInv, GenerationsDistinct
<1>3. UNCHANGED held \/ \E r \in Requests : Submit(r) /\ Acquire(r)
    BY DEF Next, RequestStep, SweepStep, Submit, Refuse, Renew, Capture,
           CheckAuthority, Throw, Link, Unlink, UnlinkFails, Commit, CommitRefused,
           StepFails, Abort, AbortFails, CrashAfterCommit, Die, SweepBegin,
           SweepDirectory, SweepEntry, SweepRemove, SweepEnd, SweepFails, Tick,
           Crash, vars, calls
<1> QED
    BY <1>1, <1>2, <1>3

(* Final files: only three steps touch them. *)
LEMMA FinalsStep ==
    ASSUME TypeOK, [Next]_vars
    PROVE  \/ UNCHANGED finals
           \/ \E r \in Requests : Link(r)
           \/ \E r \in Requests : UnlinkFails(r)
           \/ SweepRemove
    BY DEF Next, RequestStep, SweepStep, Submit, Renew, Capture, CheckAuthority,
           Unlink, Commit, CommitRefused, StepFails, Abort, AbortFails,
           CrashAfterCommit, Die, SweepBegin, SweepDirectory, SweepEntry,
           SweepEnd, SweepFails, Tick, Crash, vars, disk

(* What is published stays while its request has authority or is committed. *)
LEMMA PublishedStep ==
    ASSUME CaptureInv, TypeOK', [Next]_vars, NEW r \in Requests, pc[r] # "idle",
           HasAuthority(r) \/ r \in jobs
    PROVE  /\ 1..done[r] \subseteq finals[r] => 1..done[r] \subseteq finals'[r]
           /\ pc'[r] = "unlinking" /\ done'[r] + 1 \in finals[r] => done'[r] + 1 \in finals'[r]
           /\ r \in jobs => finals'[r] = finals[r]
<1> USE CaptureConstants
<1>1. CASE UNCHANGED finals
    BY <1>1
<1>2. ASSUME NEW q \in Requests, Link(q) PROVE finals[r] \subseteq finals'[r] /\ (r \in jobs => finals'[r] = finals[r])
    BY <1>2 DEF Link, CaptureInv, TypeOK, CommittedIsDone
<1>3. CASE SweepRemove
  <2>1. dir \in Requests
    BY <1>3 DEF SweepRemove, CaptureInv, TypeOK
  <2>2. finals'[r] = finals[r]
    BY <1>3, <2>1 DEF SweepRemove, CaptureInv, TypeOK, TargetUnprotected
  <2> QED
    BY <2>2
<1>4. ASSUME NEW q \in Requests, UnlinkFails(q)
      PROVE  /\ 1..done[r] \subseteq finals[r] => 1..done[r] \subseteq finals'[r]
             /\ pc'[r] = "unlinking" => finals'[r] = finals[r]
             /\ r \in jobs => finals'[r] = finals[r]
    BY <1>4 DEF UnlinkFails, Throw, CaptureInv, TypeOK, CommittedIsDone
<1> QED
    BY <1>1, <1>2, <1>3, <1>4, FinalsStep DEF CaptureInv

(* How a request's own control state moves. *)
LEMMA ControlStep ==
    ASSUME TypeOK, [Next]_vars, NEW r \in Requests
    PROVE  \/ pc'[r] = pc[r] /\ done'[r] = done[r]
           \/ pc'[r] # "unlinking" /\ done'[r] = done[r]
           \/ Link(r)
           \/ Unlink(r)
    BY CaptureConstants
    DEF TypeOK, PCs, Next, RequestStep, SweepStep, Submit, Acquire, Refuse, Renew, Capture,
           Link, CheckAuthority, Throw, Unlink, UnlinkFails, Commit, CommitRefused,
           StepFails, Abort, AbortFails, CrashAfterCommit, Die, SweepBegin,
           SweepDirectory, SweepEntry, Defer, SoonestExpiry, ClearSweep, SweepRemove, SweepEnd,
           SweepFails, Tick, Crash, vars,
        calls

(* How the sweep's target moves. *)
LEMMA TargetStep ==
    ASSUME TypeOK, [Next]_vars
    PROVE  \/ target' = {}
           \/ target' = target /\ dir' = dir
           \/ \E e \in entries : SweepEntry(e)
    BY DEF TypeOK, Next, RequestStep, SweepStep, Submit, Acquire, Refuse, Renew, Capture,
           Link, CheckAuthority, Throw, Unlink, UnlinkFails, Commit, CommitRefused,
           StepFails, Abort, AbortFails, CrashAfterCommit, Die, SweepBegin,
           SweepDirectory, SweepEntry, Defer, SoonestExpiry, ClearSweep, SweepRemove, SweepEnd,
           SweepFails, Tick, Crash, vars,
        sweep

(* A job is added only by a commit, whose request then has authority. *)
LEMMA JobsStep ==
    ASSUME TypeOK, [Next]_vars
    PROVE  \/ UNCHANGED jobs
           \/ \E r \in Requests : /\ CommitTransaction(r)
                                   /\ UNCHANGED finals
    BY DEF Next, RequestStep, SweepStep, Submit, Acquire, Refuse, Renew, Capture,
           Link, CheckAuthority, Throw, Unlink, UnlinkFails, Commit, CommitRefused,
           StepFails, Abort, AbortFails, CrashAfterCommit, Die, SweepBegin,
           SweepDirectory, SweepEntry, Defer, SoonestExpiry, ClearSweep, SweepRemove, SweepEnd,
           SweepFails, Tick, Crash, vars,
        disk

(* The files of authoritative and of committed requests are safe. *)
LEMMA FilesStep ==
    CaptureInv /\ [Next]_vars =>
        PublishedPrefix' /\ TargetUnprotected' /\ CommittedFilesPresent'
<1> SUFFICES ASSUME CaptureInv, [Next]_vars
             PROVE  PublishedPrefix' /\ TargetUnprotected' /\ CommittedFilesPresent'
    OBVIOUS
<1> USE CaptureConstants
<1>0. TypeOK /\ TypeOK'
    BY TypeStep DEF CaptureInv
<1>1. ASSUME NEW r \in Requests, HasAuthority(r)'
      PROVE  /\ 1..done'[r] \subseteq finals'[r]
             /\ pc'[r] = "unlinking" => done'[r] + 1 \in finals'[r]
  <2>1. CASE pc[r] = "idle"
    <3>1. done[r] = 0
      BY <2>1 DEF CaptureInv, FreshRequests
    <3>2. done'[r] = 0 /\ pc'[r] # "unlinking"
      BY <1>0, <2>1, <3>1, ControlStep DEF Link, Unlink
    <3> QED
      BY <3>2
  <2>2. CASE pc[r] # "idle"
    <3>1. HasAuthority(r)
      BY <1>0, <1>1, <2>2, AuthorityNotRegained
    <3>2. /\ 1..done[r] \subseteq finals[r]
          /\ pc[r] = "unlinking" => done[r] + 1 \in finals[r]
      BY <3>1 DEF CaptureInv, PublishedPrefix
    <3>3. /\ 1..done[r] \subseteq finals'[r]
          /\ pc'[r] = "unlinking" /\ done'[r] + 1 \in finals[r] => done'[r] + 1 \in finals'[r]
      BY <1>0, <2>2, <3>1, <3>2, PublishedStep
    <3>4. CASE Link(r)
      BY <1>0, <3>3, <3>4 DEF Link, TypeOK
    <3>5. CASE Unlink(r)
      BY <1>0, <3>2, <3>5 DEF Unlink, TypeOK
    <3>6. CASE pc'[r] # "unlinking" /\ done'[r] = done[r]
      BY <3>3, <3>6
    <3>7. CASE pc'[r] = pc[r] /\ done'[r] = done[r]
      BY <3>2, <3>3, <3>7
    <3> QED
      BY <1>0, <3>4, <3>5, <3>6, <3>7, ControlStep
  <2> QED
    BY <2>1, <2>2
<1>2. ASSUME NEW i \in Indices, <<"final", i>> \in target'
      PROVE  dir' \notin jobs' /\ ~HasAuthority(dir)'
  <2>1. CASE target' = target /\ dir' = dir
    <3>1. dir \in Requests /\ pc[dir] # "idle"
      BY <1>0, <1>2, <2>1 DEF TypeOK, CaptureInv, FreshRequests
    <3>2. dir \notin jobs /\ ~HasAuthority(dir)
      BY <1>2, <2>1 DEF CaptureInv, TargetUnprotected
    <3>3. dir \notin jobs'
      BY <1>0, <3>2, JobsStep DEF CommitTransaction
    <3>4. ~HasAuthority(dir)'
      BY <1>0, <2>1, <3>1, <3>2, AuthorityNotRegained
    <3> QED
      BY <2>1, <3>3, <3>4
  <2>2. ASSUME NEW e \in entries, SweepEntry(e)
        PROVE  dir' \notin jobs' /\ ~HasAuthority(dir)'
    <3>1. ~ActiveLease /\ target' = {e} /\ dir \notin jobs /\ UNCHANGED <<dir, jobs>>
      BY <1>0, <1>2, <2>2 DEF SweepEntry, Defer, SoonestExpiry, ClearSweep, TypeOK
    <3>2. dir \in Requests
      BY <1>0 DEF TypeOK
    <3>3. ~HasAuthority(dir)'
      BY <2>2, <3>1, <3>2 DEF SweepEntry, ActiveLease, HasAuthority, leases
    <3> QED
      BY <3>1, <3>3
  <2> QED
    BY <1>0, <1>2, <2>1, <2>2, TargetStep
<1>3. ASSUME NEW r \in jobs' PROVE finals'[r] = Indices
  <2>1. CASE r \in jobs
    <3>1. r \in Requests /\ pc[r] # "idle" /\ finals[r] = Indices
      BY <1>0, <2>1 DEF TypeOK, CaptureInv, CommittedIsDone, CommittedFilesPresent
    <3> QED
      BY <1>0, <2>1, <3>1, PublishedStep
  <2>2. ASSUME NEW q \in Requests, CommitTransaction(q), UNCHANGED finals, r = q
        PROVE  finals'[r] = Indices
    BY <1>0, <2>2
    DEF CommitTransaction, CaptureInv, PublishedPrefix, TypeOK, Indices
  <2> QED
    BY <1>0, <1>3, <2>1, <2>2, JobsStep DEF CommitTransaction
<1> QED
    BY <1>1, <1>2, <1>3 DEF PublishedPrefix, TargetUnprotected, CommittedFilesPresent

-----------------------------------------------------------------------------
(* The empty database, before the first sweep, satisfies the invariant. *)
LEMMA CaptureInit == Init => CaptureInv
    BY CaptureConstants
    DEF Init, CaptureInv, TypeOK, FreshRequests, GenerationsBounded,
        GenerationsDistinct, PublishedPrefix, TargetUnprotected, CommittedIsDone,
        CommittedFilesPresent, JobMatchesSubmission, AnswersTrue, HasAuthority,
        IsHolder, Epoch, PCs, Answer, Answers, Captured

(* Every step keeps it. *)
LEMMA CaptureStep == CaptureInv /\ [Next]_vars => CaptureInv'
    BY TypeStep, BookkeepingStep, GenerationsStep, FilesStep DEF CaptureInv

(* The invariant holds in every reachable state. *)
THEOREM CaptureInvariant == Spec => []CaptureInv
    BY CaptureInit, CaptureStep, PTL DEF Spec

(* Every variable stays in its type. *)
THEOREM CaptureTypeCorrect == Spec => []TypeOK
    BY CaptureInvariant, PTL DEF CaptureInv

(* For any number of keys, owners, files and crashes, the sweep never removes
   a file of a committed job (handleJobSubmit, recoverSnapshotPublications). *)
THEOREM CommittedFilesAreSafe == Spec => []CommittedFilesPresent
    BY CaptureInvariant, PTL DEF CaptureInv

(* A key has at most the one job that its submission row names. *)
THEOREM OneJobPerKey == Spec => []JobMatchesSubmission
    BY CaptureInvariant, PTL DEF CaptureInv

(* No two captures of one key share a fencing generation. *)
THEOREM FencingIsUnique == Spec => []GenerationsDistinct
    BY CaptureInvariant, PTL DEF CaptureInv

(* Terminal answers of one key are all the same. *)
THEOREM SubmissionIsIdempotent == Spec => []AnswersAgree
<1>1. CaptureInv => AnswersAgree
    BY DEF CaptureInv, TypeOK, AnswersTrue, AnswersAgree, Answers, Answer, Captured
<1> QED
    BY <1>1, CaptureInvariant, PTL

(* Terminal submissions are immutable and generations are monotone. *)
THEOREM TerminalStaysTerminal == Spec => TerminalIsFinal
<1>1. ASSUME CaptureInv, [Next]_vars PROVE TerminalStep
  <2>0. /\ KeyOf \in [Requests -> Keys] /\ generation \in [Keys -> Nat]
        /\ state \in [Keys -> {"none", "capturing", "captured", "failed"}]
        /\ jobOf \in [Keys -> Requests \cup {NoRequest}]
      BY <1>1, CaptureConstants DEF CaptureInv, TypeOK
  <2>1. CASE UNCHANGED <<state, jobOf, generation>>
      BY <2>0, <2>1 DEF TerminalStep
  <2>2. ASSUME NEW r \in Requests, Submit(r) PROVE TerminalStep
    <3>1. generation' \in {generation, [generation EXCEPT ![KeyOf[r]] = @ + 1]}
        BY <2>2 DEF Submit, Acquire, Refuse, leases
    <3>2. Reserve(r)
        BY <2>2 DEF Submit
    <3> QED
        BY <2>0, <3>1, <3>2 DEF TerminalStep, Reserve
  <2>3. ASSUME NEW r \in Requests, CommitTransaction(r), UNCHANGED generation
        PROVE  TerminalStep
      BY <2>0, <2>3 DEF TerminalStep, CommitTransaction, HasAuthority
  <2>4. ASSUME NEW r \in Requests, Abort(r) PROVE TerminalStep
    <3>1. UNCHANGED <<jobOf, generation>>
        BY <2>4 DEF Abort, FailSubmission, Release, leases
    <3>2. \/ UNCHANGED state
          \/ HasAuthority(r) /\ state' = [state EXCEPT ![KeyOf[r]] = "failed"]
        BY <2>4 DEF Abort, FailSubmission
    <3> QED
        BY <2>0, <3>1, <3>2 DEF TerminalStep, HasAuthority
  <2>5. \/ UNCHANGED <<state, jobOf, generation>>
        \/ \E r \in Requests : Submit(r) \/ Abort(r)
                                \/ (CommitTransaction(r) /\ UNCHANGED generation)
      BY <1>1 DEF Next, RequestStep, SweepStep, Renew, Capture, Link, CheckAuthority, Unlink,
         UnlinkFails, Commit, Release, CommitRefused, StepFails, AbortFails, CrashAfterCommit,
         SweepBegin, SweepDirectory, SweepEntry, SweepRemove, SweepEnd, SweepFails, Tick,
         Crash, Die, submissions, leases, vars
  <2> QED
      BY <2>1, <2>2, <2>3, <2>4, <2>5
<1> QED
    BY <1>1, CaptureInvariant, PTL DEF Spec, TerminalIsFinal
=============================================================================
