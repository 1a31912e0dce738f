--------------------------- MODULE ArtifactUpload ---------------------------
(***************************************************************************)
(* The artifacts of one attempt on their way from the Agent's staging      *)
(* directory to the Controller: manifest, grant, one PUT per artifact,     *)
(* cleanup_complete.  The Agent may run several upload passes at once: the *)
(* one of run_job, and one more for every reconnect that adopts the        *)
(* attempt while it awaits its upload (resumeArtifactUpload).  All PUTs of *)
(* one artifact write the same `.upload-<hash>.part` file.                 *)
(*                                                                         *)
(* A file is a set of halves: what a stream has not written, or another    *)
(* stream's open has truncated, is missing.                                *)
(***************************************************************************)
EXTENDS Naturals, FiniteSets

CONSTANTS
    Names,          \* logical names of the staged artifacts
    RunJob,         \* the upload pass of run_job
    Resumes,        \* passes started by resumeArtifactUpload
    None,           \* no artifact, no file
    MaxFaults       \* bound on broken connections and Controller restarts

Passes == {RunJob} \cup Resumes
Halves == {1, 2}
Inodes == Passes \X Names       \* a part file, by the PUT that created it

ASSUME UploadAssumption ==
    RunJob \notin Resumes /\ None \notin Names \cup Inodes /\ MaxFaults \in Nat

VARIABLES
    attemptState,   \* "running", "collecting" or "completed"
    expectations,   \* artifactExpectations, in the Controller's memory
    passPc,         \* where each pass is
    todo,           \* what a pass has been granted and not yet sent
    put,            \* the PUT a pass is in: its name, its open file, halves written
    part, dest,     \* directory entries: the inode behind each name
    data,           \* the halves each inode holds
    rows,           \* names with a row in the artifacts table
    breaks          \* broken connections and Controller restarts so far

agentVars == <<passPc, todo, put>>
diskVars == <<part, dest, data>>
uploadVars == <<attemptState, expectations, agentVars, diskVars, rows, breaks>>

NoPut == [name |-> None, file |-> None, wrote |-> 0]

UploadInit ==
    /\ attemptState = "running"
    /\ expectations = {}
    /\ passPc = [p \in Passes |-> "idle"]
    /\ todo = [p \in Passes |-> {}]
    /\ put = [p \in Passes |-> NoPut]
    /\ part = [n \in Names |-> None]
    /\ dest = [n \in Names |-> None]
    /\ data = [i \in Inodes |-> {}]
    /\ rows = {}
    /\ breaks = 0

Goto(p, place) == passPc' = [passPc EXCEPT ![p] = place]
At(p, place) == passPc[p] = place
Whole(i) == i # None /\ data[i] = Halves

\* A PUT is over, one way or another: the loop goes on with the next artifact.
NextArtifact(p) ==
    /\ put' = [put EXCEPT ![p] = NoPut]
    /\ Goto(p, "loop")

-----------------------------------------------------------------------------
(* The Agent's passes.                                                      *)

\* The script ended and its artifacts are staged: job_exit, then the manifest.
ExitJob ==
    /\ attemptState = "running"
    /\ attemptState' = "collecting"
    /\ Goto(RunJob, "asking")
    /\ UNCHANGED <<expectations, todo, put, diskVars, rows, breaks>>

\* A reconnect adopts the attempt: the staged files are verified and offered
\* again, whether or not another pass is still uploading them.
ResumeUpload(p) ==
    /\ p \in Resumes /\ At(p, "idle")
    /\ attemptState = "collecting"
    /\ Goto(p, "asking")
    /\ UNCHANGED <<attemptState, expectations, todo, put, diskVars, rows, breaks>>

\* handleRemoteArtifactManifest: every artifact of the manifest is expected
\* again, stored or not.  In another state the frame is dropped as stale.
HandleManifest(p) ==
    /\ At(p, "asking") /\ attemptState = "collecting"
    /\ expectations' = Names
    /\ Goto(p, "filtering")
    /\ UNCHANGED <<attemptState, todo, put, diskVars, rows, breaks>>

\* filterMissingArtifacts reads and hashes what is stored; the grant covers the
\* rest.
FilterMissing(p) ==
    /\ At(p, "filtering")
    /\ todo' = [todo EXCEPT ![p] = {n \in Names : ~Whole(dest[n])}]
    /\ Goto(p, "loop")
    /\ UNCHANGED <<attemptState, expectations, put, diskVars, rows, breaks>>

\* The manifest was dropped or lost: the request for a grant times out.
NoGrant(p) ==
    /\ At(p, "asking") /\ (attemptState # "collecting" \/ breaks > 0)
    /\ Goto(p, "over")
    /\ UNCHANGED <<attemptState, expectations, todo, put, diskVars, rows, breaks>>

\* uploadArtifactFile, one artifact after the other; which comes next is left open.
StartPut(p, n) ==
    /\ At(p, "loop") /\ n \in todo[p]
    /\ todo' = [todo EXCEPT ![p] = @ \ {n}]
    /\ put' = [put EXCEPT ![p] = [NoPut EXCEPT !.name = n]]
    /\ Goto(p, "sent")
    /\ UNCHANGED <<attemptState, expectations, diskVars, rows, breaks>>

EndPass(p) ==
    /\ At(p, "loop") /\ todo[p] = {}
    /\ Goto(p, IF p = RunJob THEN "cleaned" ELSE "over")
    /\ UNCHANGED <<attemptState, expectations, todo, put, diskVars, rows, breaks>>

-----------------------------------------------------------------------------
(* The PUT handler (handleDataPlaneRequest, route 2).                       *)

\* authorizeAttemptToken and getArtifactExpectation, checked once, before the
\* body is read.
Refuse(p) ==
    /\ At(p, "sent")
    /\ attemptState # "collecting" \/ put[p].name \notin expectations
    /\ NextArtifact(p)
    /\ UNCHANGED <<attemptState, expectations, todo, diskVars, rows, breaks>>

\* createWriteStream(partPath): creates the file, or truncates the one that
\* another PUT of this artifact is writing.
Accept(p) ==
    /\ At(p, "sent")
    /\ attemptState = "collecting" /\ put[p].name \in expectations
    /\ LET n == put[p].name
           i == IF part[n] = None THEN <<p, n>> ELSE part[n]
       IN /\ part' = [part EXCEPT ![n] = i]
          /\ data' = [data EXCEPT ![i] = {}]
          /\ put' = [put EXCEPT ![p].file = i]
    /\ Goto(p, "streaming")
    /\ UNCHANGED <<attemptState, expectations, todo, dest, rows, breaks>>

\* A stream writes at its own position, into the file it opened.
WriteChunk(p) ==
    /\ At(p, "streaming") /\ put[p].wrote < 2
    /\ data' = [data EXCEPT ![put[p].file] = @ \cup {put[p].wrote + 1}]
    /\ put' = [put EXCEPT ![p].wrote = @ + 1]
    /\ UNCHANGED <<attemptState, expectations, passPc, todo, part, dest, rows, breaks>>

\* Mutant: the byte count is not compared with the manifest.
VerifiedAnyLength(p) == put[p].wrote > 0

\* Size and hash of the stream, not of the file.
Verified(p) == put[p].wrote = 2

\* Mutant: the whole attempt's expectations are dropped, not this artifact's.
DropAllExpectations(n) == {}

DropExpectation(n) == expectations \ {n}

Verify(p) ==
    /\ At(p, "streaming") /\ Verified(p)
    /\ expectations' = DropExpectation(put[p].name)
    /\ Goto(p, "renaming")
    /\ UNCHANGED <<attemptState, todo, put, diskVars, rows, breaks>>

\* rename(partPath, destPath), then the row.
Store(p) ==
    LET n == put[p].name IN
    /\ At(p, "renaming") /\ part[n] # None
    /\ dest' = [dest EXCEPT ![n] = part[n]]
    /\ part' = [part EXCEPT ![n] = None]
    /\ rows' = rows \cup {n}
    /\ NextArtifact(p)
    /\ UNCHANGED <<attemptState, expectations, todo, data, breaks>>

\* The other PUT has renamed the file: ENOENT, then the part file is removed by
\* name and the answer is 500.
StoreFails(p) ==
    /\ At(p, "renaming") /\ part[put[p].name] = None
    /\ Goto(p, "removing")
    /\ UNCHANGED <<attemptState, expectations, todo, put, diskVars, rows, breaks>>

RemovePart(p) ==
    /\ At(p, "removing")
    /\ part' = [part EXCEPT ![put[p].name] = None]
    /\ NextArtifact(p)
    /\ UNCHANGED <<attemptState, expectations, todo, dest, data, rows, breaks>>

-----------------------------------------------------------------------------
(* The end of the attempt, and faults.                                      *)

\* handleRemoteCleanupComplete
CompleteCleanup ==
    /\ At(RunJob, "cleaned") /\ attemptState = "collecting"
    /\ attemptState' = "completed"
    /\ expectations' = {}
    /\ Goto(RunJob, "over")
    /\ UNCHANGED <<todo, put, diskVars, rows, breaks>>

\* The connection of a PUT breaks.  The Agent's promise is rejected; the
\* handler's never settles, because nothing ends its write stream.
BreakPut(p) ==
    /\ breaks < MaxFaults /\ breaks' = breaks + 1
    /\ passPc[p] \in {"sent", "streaming"}
    /\ NextArtifact(p)
    /\ UNCHANGED <<attemptState, expectations, todo, diskVars, rows>>

\* A Controller restart: expectations are gone, open PUTs break, a grant in
\* preparation never comes.
RestartController ==
    /\ breaks < MaxFaults /\ breaks' = breaks + 1
    /\ expectations' = {}
    /\ LET Cut == {p \in Passes : put[p] # NoPut}
       IN /\ put' = [p \in Passes |-> NoPut]
          /\ passPc' = [p \in Passes |-> IF p \in Cut THEN "loop"
                                         ELSE IF passPc[p] = "filtering" THEN "over"
                                         ELSE passPc[p]]
    /\ UNCHANGED <<attemptState, todo, diskVars, rows>>

PassStep(p) ==
    \/ HandleManifest(p) \/ FilterMissing(p) \/ NoGrant(p) \/ EndPass(p)
    \/ \E n \in Names : StartPut(p, n)

PutStep(p) ==
    \/ Refuse(p) \/ Accept(p) \/ WriteChunk(p) \/ Verify(p)
    \/ Store(p) \/ StoreFails(p) \/ RemovePart(p)

UploadNext ==
    \/ ExitJob \/ CompleteCleanup \/ RestartController
    \/ \E p \in Passes : ResumeUpload(p) \/ PassStep(p) \/ PutStep(p) \/ BreakPut(p)

UploadSpec == UploadInit /\ [][UploadNext]_uploadVars

\* Started passes and PUTs go on; scripts end.  Reconnects and faults need not
\* happen.
UploadFairSpec ==
    /\ UploadSpec
    /\ WF_uploadVars(ExitJob) /\ WF_uploadVars(CompleteCleanup)
    /\ \A p \in Passes : WF_uploadVars(PassStep(p)) /\ WF_uploadVars(PutStep(p))

-----------------------------------------------------------------------------
UploadTypeOK ==
    /\ attemptState \in {"running", "collecting", "completed"}
    /\ expectations \subseteq Names /\ rows \subseteq Names
    /\ passPc \in [Passes -> {"idle", "asking", "filtering", "loop", "sent", "streaming",
                              "renaming", "removing", "cleaned", "over"}]
    /\ todo \in [Passes -> SUBSET Names]
    /\ put \in [Passes -> [name : Names \cup {None}, file : Inodes \cup {None}, wrote : 0 .. 2]]
    /\ part \in [Names -> Inodes \cup {None}] /\ dest \in [Names -> Inodes \cup {None}]
    /\ data \in [Inodes -> SUBSET Halves]
    /\ breaks \in 0 .. MaxFaults

BeingWritten(i) == \E p \in Passes : put[p].file = i

\* As long as no connection breaks, a recorded artifact is the artifact: two
\* passes that write the same part file, truncate each other and rename it from
\* under each other leave a whole file once the last of them is done.  (A PUT
\* that breaks after another one has renamed their file leaves it torn; the
\* hash in the row is the stream's.)
StoredIsWhole ==
    breaks = 0 => \A n \in rows : Whole(dest[n]) \/ BeingWritten(dest[n])

\* Without faults every staged artifact arrives, although passes are refused
\* for artifacts that the other pass has just verified, lose their part file to
\* it, and the attempt may complete while the other pass is still renaming.
ArtifactsArrive ==
    (attemptState = "collecting") ~> (rows = Names \/ breaks > 0)
=============================================================================
